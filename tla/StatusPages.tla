----------------------------- MODULE StatusPages -----------------------------
(***************************************************************************)
(* Status pages: the realtime graphs, and the names of the active          *)
(* connections.                                                            *)
(***************************************************************************)
EXTENDS Integers, SequencesExt

-----------------------------------------------------------------------------
(***************************************************************************)
(* The realtime graphs of the status pages: bandwidth, load, wireless and  *)
(* connections.  The router keeps its last readings, and every few seconds *)
(* a page asks for all of them, adds those it has not seen to its lines    *)
(* and draws the lines with an average and a scale.  Bwc has how the       *)
(* router samples and how its dumps reach a page.                          *)
(***************************************************************************)

CONSTANTS Readings, \* Readings[c][t]: what column c reads at time t
          Kept,     \* readings that the router keeps
          Wanted,   \* data_wanted: points of a line
          LastTime  \* bound: the time of the last reading

ASSUME GraphAssumption == Kept \in Nat \ {0} /\ Wanted \in Nat \ {0} /\ LastTime \in Nat

VARIABLES
  status,  \* the page
  ring,    \* times of the readings that the router keeps
  stamp,   \* ctx.timestamp
  fill,    \* ctx.fill
  values,  \* ctx.values: the points of each line
  samples, \* history: points added so far
  sums,   \* history: what the counters of the lines have been taken to count
  first,   \* history: the time that the counting starts from
  missed   \* history: readings went by between two polls

graphVars == <<status, ring, stamp, fill, values, samples, sums, first, missed>>

Line(column, counter, offset) == [column |-> column, counter |-> counter, offset |-> offset]

\* The columns drawn: a counter by its speed, a level from its offset on.
BandwidthLines == <<Line(1, TRUE, 0), Line(3, TRUE, 0)>>
LoadLines == <<Line(1, FALSE, 0), Line(2, FALSE, 0), Line(3, FALSE, 0)>>
SignalLines == <<Line(2, FALSE, 15), Line(3, FALSE, 15)>>
RateLines == <<Line(1, FALSE, 0)>>
ConnectionLines == <<Line(1, FALSE, 0), Line(2, FALSE, 0), Line(3, FALSE, 0)>>
LinesOf == [bandwidth |-> BandwidthLines, load |-> LoadLines, signal |-> SignalLines,
            rate |-> RateLines, connections |-> ConnectionLines]
Lines == LinesOf[status]

SmallerOf(m, n) == IF m < n THEN m ELSE n
LastPoints(s) == SubSeq(s, Len(s) - Wanted + 1, Len(s))

\* updateGraph(): the lines are filled with zeros.
GraphInit ==
  /\ status \in DOMAIN LinesOf
  /\ ring = <<>> /\ stamp = 0 /\ fill = 1
  /\ values = [i \in DOMAIN LinesOf[status] |-> [k \in 1..Wanted |-> 0]]
  /\ samples = 0 /\ sums = [i \in DOMAIN LinesOf[status] |-> 0] /\ first = 0 /\ missed = FALSE

Latest == IF ring = <<>> THEN 0 ELSE ring[Len(ring)]

\* The router reads its counters every second, and now and then is late by one.
Read ==
  /\ \E t \in {Latest + 1, Latest + 2} :
       /\ t <= LastTime
       /\ ring' = LET all == Append(ring, t)
                  IN  IF Len(all) > Kept THEN Tail(all) ELSE all
  /\ UNCHANGED <<status, stamp, fill, values, samples, sums, first, missed>>

SeenOrNot(time) == time >= stamp \* mutant
Overlapping(time) == time > stamp

\* The entries that the page has not seen; of its first dump the first is left out.
News(data) ==
  SelectSeq([j \in DOMAIN data |-> j],
            LAMBDA j : (stamp = 0 => j > 1) /\ Overlapping(data[j]))

\* A counter that was reset counts nothing.
Clipped(v, offset) == v - SmallerOf(v, offset)
Speed(line, data, j) ==
  LET grown == Readings[line.column][data[j]] - Readings[line.column][data[j - 1]]
  IN  Clipped(grown \div (data[j] - data[j - 1]), line.offset)
Level(line, data, j) == Clipped(Readings[line.column][data[j]], line.offset)

\* The first entry of a dump has none before it to tell a speed from.
SpeedPoints(line, data) ==
  LET js == SelectSeq(News(data), LAMBDA j : j > 1)
  IN  [k \in DOMAIN js |-> Speed(line, data, js[k])]
LevelPoints(line, data) ==
  LET js == News(data) IN [k \in DOMAIN js |-> Level(line, data, js[k])]

SumOf(s) == FoldLeft(+, 0, s)
Grown(line, data) ==
  LET js == SelectSeq(News(data), LAMBDA j : j > 1)
  IN  SumOf([k \in DOMAIN js |-> Speed(line, data, js[k]) * (data[js[k]] - data[js[k] - 1])])

\* A poll with the new points of each line: fill counts the entries, also those
\* that add no point to a line of a counter.
Extended(data, points) ==
  /\ fill' = SmallerOf(fill + Len(News(data)), Wanted)
  /\ values' = [i \in DOMAIN values |-> LastPoints(values[i] \o points[i])]
  /\ stamp' = IF News(data) = <<>> THEN stamp ELSE data[Len(data)]
  /\ samples' = samples + Len(points[1])
  /\ sums' = [i \in DOMAIN sums |-> sums[i] + Grown(Lines[i], data)]
  /\ first' = IF stamp = 0 /\ News(data) # <<>> THEN data[1] ELSE first
  /\ missed' = (missed \/ (stamp # 0 /\ 1 \in Range(News(data))))
  /\ UNCHANGED <<status, ring>>

\* A request that fails counts as an empty dump.
Dumps == {ring, <<>>}

PollBandwidth ==
  /\ status = "bandwidth"
  /\ \E data \in Dumps : Extended(data, [i \in DOMAIN Lines |-> SpeedPoints(Lines[i], data)])
PollLoad ==
  /\ status = "load"
  /\ \E data \in Dumps : Extended(data, [i \in DOMAIN Lines |-> LevelPoints(Lines[i], data)])
PollWireless ==
  /\ status \in {"signal", "rate"}
  /\ \E data \in Dumps : Extended(data, [i \in DOMAIN Lines |-> LevelPoints(Lines[i], data)])
PollConnections ==
  /\ status = "connections"
  /\ \E data \in Dumps : Extended(data, [i \in DOMAIN Lines |-> LevelPoints(Lines[i], data)])

GraphNext == Read \/ PollBandwidth \/ PollLoad \/ PollWireless \/ PollConnections

\* What is shown with the lines.  The scale of a graph without a reading above
\* zero is not a number, and nothing is drawn.
PeakOf(i) == CHOOSE v \in Range(values[i]) : \A w \in Range(values[i]) : w <= v
HighestPeak == CHOOSE v \in {PeakOf(i) : i \in DOMAIN values} : \A i \in DOMAIN values : PeakOf(i) <= v
StepOf(peak) == IF peak < 5 THEN 2 ELSE IF peak < 50 THEN 10 ELSE IF peak < 500 THEN 100 ELSE 1000
Scale == HighestPeak + (StepOf(HighestPeak) - (HighestPeak % StepOf(HighestPeak)))

-----------------------------------------------------------------------------

\* No traffic is counted twice and none is left out: as long as no reading went by
\* unseen, the speeds drawn so far come to what the counters, which only grow, have
\* grown by from the first reading of the first dump to the last one seen.
NoneCountedTwice ==
  status = "bandwidth" /\ ~missed /\ stamp # 0 =>
    \A i \in DOMAIN Lines :
      (\A t \in first..stamp - 1 : Readings[Lines[i].column][t] <= Readings[Lines[i].column][t + 1]) =>
        sums[i] = Readings[Lines[i].column][stamp] - Readings[Lines[i].column][first]

\* A line always has its width and stays within the scale, at or above zero.
WithinGraph ==
  \A i \in DOMAIN values : /\ Len(values[i]) = Wanted
                           /\ \A v \in Range(values[i]) : 0 <= v /\ v < Scale

\* The average is over the points added and one more, so too low until the graph is
\* full and right from then on, as long as no reading went by unseen.
AverageOverPoints == ~missed => fill = SmallerOf(samples + 1, Wanted)

GraphsSound == NoneCountedTwice /\ WithinGraph /\ AverageOverPoints

-----------------------------------------------------------------------------
(***************************************************************************)
(* Names of hosts on the page of the active connections: with each poll it *)
(* has the addresses without a name looked up, some at a time, and does    *)
(* not wait for the answer.  An address that got no name four times is     *)
(* shown as it is from then on.                                            *)
(***************************************************************************)

CONSTANTS Hosts,      \* addresses
          Flows,      \* the lists of connections, as addresses by their bytes
          MaxAsked,   \* addresses of a lookup: 100
          Lookups,    \* bound: lookups under way at a time
          NoName     \* no entry in dns_cache

VARIABLES
  enabled,   \* enableLookups
  waits,     \* the button is disabled until an answer comes
  dns_cache, \* "name", "bare" (the address itself) or NoName
  recheck,   \* recheck_lookup_queue: answers without a name
  lookup,    \* lookups under way: lookup_queue and what of it was asked for
  idle,      \* history: an answer has changed nothing
  misses,    \* history: answers without a name to a lookup of the address
  unnamed,   \* history: a name was replaced by the bare address
  crossed    \* history: two lookups were under way at a time

lookupVars == <<enabled, waits, dns_cache, recheck, lookup, idle, misses, unnamed, crossed>>

NoLookup == [queue |-> <<>>, asked |-> <<>>]

LookupsInit ==
  /\ enabled = FALSE /\ waits = FALSE
  /\ dns_cache = [h \in Hosts |-> NoName] /\ recheck = [h \in Hosts |-> 0]
  /\ lookup = [l \in Lookups |-> NoLookup]
  /\ misses = [h \in Hosts |-> 0] /\ idle = FALSE /\ unnamed = FALSE /\ crossed = FALSE

\* When nothing needs a name, or the request fails, the button stays disabled.
ToggleLookups ==
  /\ ~waits
  /\ enabled' = ~enabled /\ waits' = ~enabled
  /\ UNCHANGED <<dns_cache, recheck, lookup, idle, misses, unnamed, crossed>>

AskAgain(h) == TRUE \* mutant
NeedsName(h) == dns_cache[h] = NoName

FirstOf(s) == SubSeq(s, 1, IF Len(s) < MaxAsked THEN Len(s) ELSE MaxAsked)

\* updateConntrack(), with the connections of the moment.
PollConntrack ==
  \E flow \in Flows :
    LET queue == SelectSeq(flow, LAMBDA h : NeedsName(h)) IN
    /\ enabled /\ queue # <<>>
    /\ \E l \in Lookups : /\ lookup[l] = NoLookup
                          /\ lookup' = [lookup EXCEPT ![l] = [queue |-> queue, asked |-> FirstOf(queue)]]
    /\ crossed' = (crossed \/ \E l \in Lookups : lookup[l] # NoLookup)
    /\ UNCHANGED <<enabled, waits, dns_cache, recheck, idle, misses, unnamed>>

IsShort(q) == Len(q) <= MaxAsked
IsSettled(h, w, replies) == h \in replies \/ w.recheck[h] > 2

\* One index of the answer.  A queue that was short enough is the list that is
\* gone through, so that taking an address off it moves the next ones up: that at
\* the next index is passed over, and indices beyond its new end are not reached.
Visit(w, index, replies) ==
  IF index > Len(w.list) THEN w
  ELSE LET h == w.list[index] IN
    [cache |-> [w.cache EXCEPT ![h] = IF h \in replies THEN "name"
                                      ELSE IF w.recheck[h] > 2 THEN "bare" ELSE @],
     recheck |-> [w.recheck EXCEPT ![h] = IF IsSettled(h, w, replies) THEN @ ELSE @ + 1],
     list |-> IF w.short /\ IsSettled(h, w, replies) THEN RemoveAt(w.list, index) ELSE w.list,
     short |-> w.short]

Processed(l, replies) ==
  LET asked == lookup[l].asked
  IN  FoldLeft(LAMBDA w, index : Visit(w, index, replies),
               [cache |-> dns_cache, recheck |-> recheck, list |-> asked, short |-> IsShort(lookup[l].queue)],
               [i \in DOMAIN asked |-> i])

LookupReply(l) ==
  /\ lookup[l] # NoLookup
  /\ \E replies \in SUBSET Range(lookup[l].asked) :
       LET w == Processed(l, replies) IN
       /\ dns_cache' = w.cache
       /\ recheck' = w.recheck
       /\ misses' = [h \in Hosts |-> IF h \in Range(lookup[l].asked) \ replies /\ misses[h] < 4
                                     THEN misses[h] + 1 ELSE misses[h]]
       /\ idle' = (idle \/ (w.cache = dns_cache /\ w.recheck = recheck))
       /\ unnamed' = (unnamed \/ \E h \in Hosts : dns_cache[h] = "name" /\ w.cache[h] # "name")
  /\ lookup' = [lookup EXCEPT ![l] = NoLookup]
  /\ waits' = FALSE
  /\ UNCHANGED <<enabled, crossed>>

\* The request fails: nothing is done.
LookupFails(l) ==
  /\ lookup[l] # NoLookup
  /\ lookup' = [lookup EXCEPT ![l] = NoLookup]
  /\ UNCHANGED <<enabled, waits, dns_cache, recheck, idle, misses, unnamed, crossed>>

LookupsNext ==
  \/ ToggleLookups \/ PollConntrack
  \/ \E l \in Lookups : LookupReply(l) \/ LookupFails(l)

-----------------------------------------------------------------------------

\* An address is shown as it is only after four answers without a name for it,
\* though some answers pass it over.
GivesUpLate == \A h \in Hosts : dns_cache[h] = "bare" => misses[h] >= 4

\* As long as lookups do not cross each other, every answer settles an address or
\* counts as a failure of one, so lookups come to an end, and a name found stays.
LookupsProgress == ~crossed => ~idle /\ ~unnamed

\* The button waits for an answer only while lookups are enabled.
WaitsForAnswer == waits => enabled

NamesSound == GivesUpLate /\ LookupsProgress /\ WaitsForAnswer
=============================================================================
