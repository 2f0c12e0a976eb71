----------------------------- MODULE RadioPages -----------------------------
(***************************************************************************)
(* The page of the radios and their networks: what its buttons change in the*)
(* configuration, and what its polls do.                                   *)
(***************************************************************************)
EXTENDS Integers, SequencesExt

-----------------------------------------------------------------------------
(***************************************************************************)
(* Which wireless networks are up.  A network is off by an option of its   *)
(* own or with its radio.  The table has a button per network that turns   *)
(* it on or off; adding a network or joining one turns its radio on.  A    *)
(* configuration with unnamed networks is given names first.               *)
(***************************************************************************)

CONSTANTS RadioLayouts, \* networks at the start, with their radios: wifinet<n> as n,
                        \* unnamed ones as negative numbers
          MaxSid        \* bound: the highest name given

ASSUME RadioAssumption == MaxSid \in Nat

VARIABLES
  wireless, \* the configuration in the browser: networks [radio, off], radios that are off
  saved,    \* the configuration on the router
  labels,   \* networks whose button says "Enable"
  adding,   \* addedSection, or the empty set
  wanted,   \* history: networks that were up or that the user wants up
  roused,   \* history: radios turned on for one network while others had no "disabled"
  leftover, \* history: a cancelled dialog has left its radio turned on in the browser
  contrary, \* history: a button did not do what it says
  total     \* history: the number of networks

radioVars == <<wireless, saved, labels, adding, wanted, roused, leftover, contrary, total>>

OnNets(c) == {n \in DOMAIN c.nets : ~c.nets[n].off /\ c.nets[n].radio \notin c.off}
NetsOf(c, r) == {n \in DOMAIN c.nets : c.nets[n].radio = r}
RadiosOf(f) == {f[n] : n \in DOMAIN f}

RadioInit ==
  /\ \E f \in RadioLayouts :
       \E offNets \in SUBSET DOMAIN f, offRadios \in SUBSET RadiosOf(f) :
         wireless = [nets |-> [n \in DOMAIN f |-> [radio |-> f[n], off |-> n \in offNets]],
                     off |-> offRadios]
  /\ saved = wireless /\ labels = DOMAIN wireless.nets \ OnNets(wireless) /\ adding = {}
  /\ wanted = OnNets(wireless) /\ roused = {} /\ leftover = FALSE /\ contrary = FALSE
  /\ total = Cardinality(DOMAIN wireless.nets)

Anonymous(c) == {n \in DOMAIN c.nets : n < 0}
Overview == Anonymous(saved) = {} /\ adding = {}

\* next_free_sid()
NextFreeSid(used, offset) ==
  CHOOSE n \in offset..MaxSid + 1 : n \notin used /\ \A k \in offset..n - 1 : k \in used

\* Saved: the router has what the browser had, and the table is drawn again.
Pushed(c) ==
  /\ wireless' = c /\ saved' = c
  /\ labels' = DOMAIN c.nets \ OnNets(c)

\* A network is off with its radio or by itself; the last to go off takes the radio along.
Enabled(c, n) == [nets |-> [c.nets EXCEPT ![n].off = FALSE], off |-> c.off \ {c.nets[n].radio}]
Disabled(c, n) ==
  LET nets == [c.nets EXCEPT ![n].off = TRUE]
      allOff == \A k \in NetsOf(c, c.nets[n].radio) : nets[k].off
  IN  [nets |-> nets, off |-> IF allOff THEN c.off \cup {c.nets[n].radio} ELSE c.off]

Rouses(c, r, n) == r \in c.off /\ \E k \in NetsOf(c, r) \ {n} : ~c.nets[k].off
Roused(c, r, n) == IF Rouses(c, r, n) THEN roused \cup {r} ELSE roused

OwnOption(n) == wireless.nets[n].off \* mutant
IsDisabled(n) == n \notin OnNets(wireless)

NetworkUpdown(n) ==
  /\ Overview /\ n \in DOMAIN wireless.nets
  /\ Pushed(IF IsDisabled(n) THEN Enabled(wireless, n) ELSE Disabled(wireless, n))
  /\ wanted' = IF n \in labels THEN wanted \cup {n} ELSE wanted \ {n}
  /\ roused' = IF IsDisabled(n) THEN Roused(wireless, wireless.nets[n].radio, n) ELSE roused
  /\ contrary' = (contrary \/ (n \in labels) # IsDisabled(n))
  /\ UNCHANGED <<adding, leftover, total>>

NewNet(c, r) == NextFreeSid(DOMAIN c.nets, Cardinality(DOMAIN c.nets))
WithNet(nets, n, r) == [k \in DOMAIN nets \cup {n} |-> IF k = n THEN [radio |-> r, off |-> FALSE] ELSE nets[k]]

\* handleAdd(): the radio goes on, then the dialog of the network opens.
HandleAdd(r) ==
  LET n == NewNet(wireless, r) IN
  /\ Overview /\ n <= MaxSid
  /\ wireless' = [nets |-> WithNet(wireless.nets, n, r), off |-> wireless.off \ {r}]
  /\ adding' = {n}
  /\ roused' = Roused(wireless, r, n)
  /\ UNCHANGED <<saved, labels, wanted, leftover, contrary, total>>

SaveAdded ==
  /\ adding # {} /\ adding' = {}
  /\ Pushed(wireless)
  /\ wanted' = wanted \cup adding
  /\ total' = total + 1
  /\ UNCHANGED <<roused, leftover, contrary>>

\* Only the network is taken back.
CancelAdded ==
  /\ adding # {} /\ adding' = {}
  /\ wireless' = [wireless EXCEPT !.nets = Restrict(@, DOMAIN @ \ adding)]
  /\ leftover' = (leftover \/ wireless.off # saved.off)
  /\ UNCHANGED <<saved, labels, wanted, roused, contrary, total>>

\* handleRemove()
RemoveNetwork(n) ==
  /\ Overview /\ n \in DOMAIN wireless.nets
  /\ Pushed([wireless EXCEPT !.nets = Restrict(@, DOMAIN @ \ {n})])
  /\ wanted' = wanted \ {n}
  /\ total' = total - 1
  /\ UNCHANGED <<adding, roused, leftover, contrary>>

\* handleJoinConfirm(): joining with a radio that is off keeps its other networks
\* off; "Replace" removes them.
JoinNetwork(r, replace) ==
  LET n == NewNet(wireless, r)
      gone == IF replace THEN NetsOf(wireless, r) ELSE {}
      kept == Restrict(wireless.nets, DOMAIN wireless.nets \ gone)
      others == IF r \in wireless.off
                THEN [k \in DOMAIN kept |-> [kept[k] EXCEPT !.off = @ \/ kept[k].radio = r]]
                ELSE kept
  IN
  /\ Overview /\ n <= MaxSid
  /\ Pushed([nets |-> WithNet(others, n, r), off |-> wireless.off \ {r}])
  /\ wanted' = (wanted \ gone) \cup {n}
  /\ total' = total - Cardinality(gone) + 1
  /\ UNCHANGED <<adding, roused, leftover, contrary>>

SameOffset(w, n) == 0 \* mutant
NextOffset(w, n) == n + 1

\* handleMigration(): the names are chosen from the configuration as it was loaded.
NewNames ==
  LET used == DOMAIN saved.nets
  IN  FoldLeft(LAMBDA w, k : LET n == NextFreeSid(used, w.offset)
                             IN  [offset |-> NextOffset(w, n),
                                  name |-> [w.name EXCEPT ![k] = n]],
               [offset |-> 0, name |-> [k \in Anonymous(saved) |-> k]],
               SetToSortSeq(Anonymous(saved), <)).name

HandleMigration ==
  LET OldName(n) == IF n \in DOMAIN saved.nets THEN n ELSE CHOOSE k \in Anonymous(saved) : NewNames[k] = n
      names == (DOMAIN saved.nets \ Anonymous(saved)) \cup {NewNames[k] : k \in Anonymous(saved)}
      named == [saved EXCEPT !.nets = [n \in names |-> saved.nets[OldName(n)]]]
  IN
  /\ Anonymous(saved) # {}
  /\ Pushed(named)
  /\ wanted' = OnNets(named)
  /\ UNCHANGED <<adding, roused, leftover, contrary, total>>

AllRadios == UNION {RadiosOf(f) : f \in RadioLayouts}

RadioNext ==
  \/ \E n \in 0..MaxSid : NetworkUpdown(n) \/ RemoveNetwork(n)
  \/ \E r \in AllRadios : HandleAdd(r) \/ JoinNetwork(r, TRUE) \/ JoinNetwork(r, FALSE)
  \/ SaveAdded \/ CancelAdded \/ HandleMigration

-----------------------------------------------------------------------------

\* Once the networks have names, those that are up are those the user wants up, but
\* for the ones that come up as another of their radio is turned on.
UpAsWanted ==
  Anonymous(saved) = {} =>
    /\ ~leftover => wanted \subseteq OnNets(saved)
    /\ \A n \in OnNets(saved) \ wanted : saved.nets[n].radio \in roused

\* A button does what it says, unless the dialog of a new network was cancelled.
LabelKept == contrary => leftover

\* No network takes the name of another.
NamesKept == Cardinality(DOMAIN saved.nets) = total

SwitchedSound == UpAsWanted /\ LabelKept /\ NamesKept

-----------------------------------------------------------------------------
(***************************************************************************)
(* What the polls of the wireless page do: restart radios whose rows are   *)
(* marked, and refresh the table of stations that a scan hears.            *)
(***************************************************************************)

CONSTANTS RadioRows, \* radios in the table
          Stations,  \* stations that a scan can hear
          NoScan     \* no scan dialog

ASSUME TableAssumption == IsFiniteSet(Stations)

VARIABLES
  mark,     \* attribute "restart" of a row: "none", "set" or "done"
  polling,  \* a poll of the table is under way
  due,      \* history: radios whose restart is still to come
  late,     \* history: of those, the ones asked for during a poll
  unasked,  \* history: a radio was restarted though nobody asked
  scan      \* the scan dialog: known (scanCache: "no", "fresh" or "stale"), table, refreshing
            \* (pollFn is in the queue), entry (of the queue), asked (entries with a scan under
            \* way), waiting (the button is disabled), heard and last (history: since the
            \* dialog opened, in the last answer)

tableVars == <<mark, polling, due, late, unasked, scan>>

TableInit ==
  /\ mark = [r \in RadioRows |-> "none"] /\ polling = FALSE
  /\ due = {} /\ late = {} /\ unasked = FALSE
  /\ scan = NoScan

\* radio_restart(): the button is free again at once.
RadioRestart(r) ==
  /\ scan = NoScan
  /\ mark' = [mark EXCEPT ![r] = "set"]
  /\ due' = due \cup {r}
  /\ late' = IF polling THEN late \cup {r} ELSE late \ {r}
  /\ UNCHANGED <<polling, unasked, scan>>

StaysSet(m) == IF m = "done" THEN "none" ELSE m \* mutant
NextMark(m) == IF m = "set" THEN "done" ELSE "none"

StartPoll ==
  /\ ~polling /\ polling' = TRUE
  /\ LET run == {r \in RadioRows : mark[r] = "set"} IN
       /\ mark' = [r \in RadioRows |-> NextMark(mark[r])]
       /\ unasked' = (unasked \/ ~(run \subseteq due))
       /\ due' = due \ run /\ late' = late \ run
  /\ UNCHANGED scan

\* poll_status() replaces what carries the mark, so a restart asked for meanwhile is
\* forgotten.
EndPoll ==
  /\ polling /\ polling' = FALSE
  /\ mark' = [r \in RadioRows |-> "none"]
  /\ UNCHANGED <<due, late, unasked, scan>>

\* A request of the poll fails: the rows stay as they are.
PollFails ==
  /\ polling /\ polling' = FALSE
  /\ UNCHANGED <<mark, due, late, unasked, scan>>

TableUnchanged == UNCHANGED <<mark, polling, due, late, unasked>>

\* handleScan()
HandleScan ==
  /\ scan = NoScan
  /\ scan' = [known |-> [s \in Stations |-> "no"], table |-> <<>>, refreshing |-> TRUE, entry |-> 1,
              asked |-> {}, waiting |-> TRUE, heard |-> {}, last |-> {}]
  /\ TableUnchanged

\* An entry of the queue does not start again before it has ended.
AskScan ==
  /\ scan # NoScan /\ scan.refreshing /\ scan.entry \notin scan.asked
  /\ scan' = [scan EXCEPT !.asked = @ \cup {scan.entry}]
  /\ TableUnchanged

OldEntry(known, results) == [s \in Stations |-> IF known[s] = "no" /\ s \in results THEN "fresh" ELSE known[s]] \* mutant
Remembered(known, results) == [s \in Stations |-> IF s \in results THEN "fresh" ELSE known[s]]

\* handleScanRefresh(): what was heard, then what was heard before.
HandleScanRefresh(entry) ==
  /\ scan # NoScan /\ entry \in scan.asked
  /\ \E results \in SUBSET Stations :
       LET known == Remembered(scan.known, results)
           older == {s \in Stations : known[s] = "stale"}
           Rows(stations, stale) == LET seq == SetToSeq(stations)
                                    IN  [i \in DOMAIN seq |-> [station |-> seq[i], stale |-> stale]]
       IN  scan' = [scan EXCEPT !.known = [s \in Stations |-> IF known[s] = "no" THEN "no" ELSE "stale"],
                                !.table = Rows(results, FALSE) \o Rows(older, TRUE),
                                !.asked = @ \ {entry}, !.waiting = FALSE,
                                !.heard = @ \cup results, !.last = results]
  /\ TableUnchanged

ScanFails(entry) ==
  /\ scan # NoScan /\ entry \in scan.asked
  /\ scan' = [scan EXCEPT !.asked = @ \ {entry}]
  /\ TableUnchanged

\* handleScanStartStop(): starting again makes a new entry, whatever is under way.
HandleScanStartStop ==
  /\ scan # NoScan /\ ~scan.waiting
  /\ scan' = IF scan.refreshing THEN [scan EXCEPT !.refreshing = FALSE]
             ELSE [scan EXCEPT !.refreshing = TRUE, !.waiting = TRUE, !.entry = 3 - @]
  /\ scan'.refreshing => scan'.entry \notin scan.asked \* bound: two entries at a time
  /\ TableUnchanged

\* handleScanAbort()
HandleScanAbort ==
  /\ scan # NoScan /\ scan' = NoScan
  /\ TableUnchanged

TableNext ==
  \/ \E r \in RadioRows : RadioRestart(r)
  \/ StartPoll \/ EndPoll \/ PollFails
  \/ HandleScan \/ AskScan \/ HandleScanStartStop \/ HandleScanAbort
  \/ \E entry \in 1..2 : HandleScanRefresh(entry) \/ ScanFails(entry)

-----------------------------------------------------------------------------

\* A radio is restarted once for each time that was asked for, and a restart that is
\* still to come is marked, unless it was asked for during a poll.
RestartKept ==
  /\ ~unasked
  /\ \A r \in due \ late : mark[r] = "set"

\* Every station heard since the dialog opened is listed once, and as stale unless
\* the last answer has it, also when answers overtake each other.
ScanListed ==
  scan # NoScan =>
    /\ Len(scan.table) = Cardinality(scan.heard)
    /\ Range(scan.table) = {[station |-> s, stale |-> s \notin scan.last] : s \in scan.heard}

\* The button of the dialog only waits while the scan is repeated.
ScanRepeats == scan # NoScan /\ scan.waiting => scan.refreshing

TablesSound == RestartKept /\ ScanListed /\ ScanRepeats
=============================================================================
