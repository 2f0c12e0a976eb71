----------------------------- MODULE PageProofs -----------------------------
(***************************************************************************)
(* Proofs about PageRuntime: the poll loop, the network state that a page  *)
(* caches, the class loader, calls of overridden methods, and the page     *)
(* that has all parts.                                                     *)
(***************************************************************************)
EXTENDS PageRuntime, RpcBatchProofs

-----------------------------------------------------------------------------
(* The poll loop: the queue, the pending calls, the timer and the header   *)
(* agree, whoever starts and stops it.                                     *)

PollEntries == [fn : Fns, r : BOOLEAN]

HasEntry(q, f) == \E i \in 1..Len(q) : q[i].fn = f

\* The queue q and the numbers n of pending calls agree: a function has one
\* entry and one call at most, and no entry no call.  The last is what makes it
\* safe to append an entry: its function has no call that could be forgotten.
Agree(q, n) ==
  /\ q \in Seq(PollEntries)
  /\ \A i, j \in 1..Len(q) : q[i].fn = q[j].fn => i = j
  /\ n \in [Fns -> Nat]
  /\ \A i \in 1..Len(q) : n[q[i].fn] <= 1 /\ (q[i].r => n[q[i].fn] = 0)
  /\ \A f \in Fns : n[f] > 0 => HasEntry(q, f)

LoopHolds ==
  /\ Agree(entries, calls)
  /\ timer \in BOOLEAN /\ tick \in 0..Wrap
  /\ indicator \in {"none", "refreshing", "paused"}
  /\ TimerUsed
  /\ IndicatorTrue

OthersHold ==
  /\ orphans \subseteq Fns
  /\ modal \in {"none", "status", "scan", "expired"}
  /\ hideDue \in BOOLEAN /\ wasPolling \in BOOLEAN /\ loaded \in BOOLEAN

PollIInv == LoopHolds /\ OthersHold

-----------------------------------------------------------------------------
(* Entries and ticks *)

LEMMA NextTick ==
  ASSUME NEW n \in 0..Wrap
  PROVE  (n + 1) % Wrap \in 0..Wrap /\ (n + 1) % Wrap # Wrap
<1>1. Wrap \in Nat /\ Wrap # 0
  BY PollAssumption
<1>2. (n + 1) % Wrap \in 0..(Wrap - 1)
  BY <1>1
<1>3. QED
  BY <1>1, <1>2

LEMMA Shortest == 0 \in 0..Wrap /\ 0 # Deleted /\ Deleted \in 0..Wrap
<1>1. Wrap \in Nat /\ Interval[Scan] \in 1..(Wrap - 1)
  BY PollAssumption
<1>2. QED
  BY <1>1 DEF Deleted

\* The search finds the only entry of a function.
LEMMA EntryFound ==
  ASSUME Agree(entries, calls), NEW i \in 1..Len(entries)
  PROVE  EntryOf(entries[i].fn) = i
<1>1. {j \in 1..Len(entries) : entries[j].fn = entries[i].fn} = {i}
  BY DEF Agree
<1>2. i \in Nat
  OBVIOUS
<1>3. Min({i}) = i
  BY <1>2 DEF Min
<1>4. QED
  BY <1>1, <1>3, Zenon DEF EntryOf, SelectInSeq

LEMMA FreshEntry ==
  ASSUME NEW f \in Fns
  PROVE  Entry(f) \in PollEntries /\ Entry(f).fn = f /\ Entry(f).r = TRUE
BY DEF Entry, PollEntries

\* A function without an entry gets one.
LEMMA EntryAppended ==
  ASSUME Agree(entries, calls), NEW f \in Fns, f \notin Registered
  PROVE  /\ Agree(Append(entries, Entry(f)), calls)
         /\ Append(entries, Entry(f)) # <<>>
<1> DEFINE q == Append(entries, Entry(f))
<1>1. /\ entries \in Seq(PollEntries) /\ Len(entries) \in Nat
      /\ Entry(f) \in PollEntries /\ Entry(f).fn = f
  <2>1. entries \in Seq(PollEntries)
    BY DEF Agree
  <2>2. QED
    BY <2>1, FreshEntry, LenProperties
<1>2. /\ q \in Seq(PollEntries)
      /\ Len(q) = Len(entries) + 1
      /\ \A i \in 1..Len(entries) : q[i] = entries[i]
      /\ q[Len(entries) + 1] = Entry(f)
  BY <1>1, Appended
<1>3. \A i \in 1..Len(entries) : entries[i].fn # f
  BY DEF Registered
<1>4. calls \in [Fns -> Nat] /\ calls[f] = 0
  <2>1. calls \in [Fns -> Nat] /\ ~(calls[f] > 0)
    BY <1>3 DEF Agree, HasEntry
  <2>2. QED
    BY <2>1
<1>5. \A i \in 1..Len(q) : i \in 1..Len(entries) \/ i = Len(entries) + 1
  BY <1>1, <1>2
<1>6. q # <<>>
  BY <1>1, <1>2, EmptySeq
<1> HIDE DEF q
<1>7. \A i, j \in 1..Len(q) : q[i].fn = q[j].fn => i = j
  BY <1>1, <1>2, <1>3, <1>5 DEF Agree
<1>8. \A i \in 1..Len(q) : calls[q[i].fn] <= 1 /\ (q[i].r => calls[q[i].fn] = 0)
  BY <1>1, <1>2, <1>4, <1>5 DEF Agree
<1>9. \A g \in Fns : calls[g] > 0 => HasEntry(q, g)
  <2>1. \A i \in 1..Len(entries) : i \in 1..Len(q)
    BY <1>1, <1>2
  <2>2. QED
    BY <1>2, <2>1 DEF Agree, HasEntry
<1>10. Agree(q, calls)
  BY <1>2, <1>4, <1>7, <1>8, <1>9 DEF Agree
<1>11. QED
  BY <1>6, <1>10 DEF q

\* The entry of a function is taken away, and its call is forgotten.
LEMMA EntryTaken ==
  ASSUME Agree(entries, calls), NEW f \in Fns, f \in Registered,
         NEW n, n = [calls EXCEPT ![f] = 0]
  PROVE  Agree(RemoveAt(entries, EntryOf(f)), n)
<1>1. PICK k \in 1..Len(entries) : entries[k].fn = f
  BY DEF Registered
<1>2. EntryOf(f) = k
  BY <1>1, EntryFound
<1> DEFINE q == RemoveAt(entries, k)
           old(i) == IF i < k THEN i ELSE i + 1
<1>3. entries \in Seq(PollEntries) /\ Len(entries) \in Nat /\ k \in Nat
  BY DEF Agree
<1>4. /\ q \in Seq(PollEntries)
      /\ Len(q) = Len(entries) - 1
      /\ \A i \in 1..Len(q) : q[i] = IF i < k THEN entries[i] ELSE entries[i + 1]
  BY <1>3, OneRemoved
<1>5. \A i \in 1..Len(q) : /\ old(i) \in 1..Len(entries) /\ old(i) # k
                           /\ q[i] = entries[old(i)]
  BY <1>3, <1>4
<1>6. \A i, j \in 1..Len(q) : old(i) = old(j) => i = j
  BY <1>3, <1>4
<1>7. \A j \in 1..Len(entries) : j # k => \E i \in 1..Len(q) : old(i) = j
  <2> SUFFICES ASSUME NEW j \in 1..Len(entries), j # k
               PROVE  \E i \in 1..Len(q) : old(i) = j
    OBVIOUS
  <2>1. CASE j < k
    BY <1>3, <1>4, <2>1
  <2>2. CASE j > k
    <3>1. j - 1 \in 1..Len(q) /\ old(j - 1) = j
      BY <1>3, <1>4, <2>2
    <3>2. QED
      BY <3>1
  <2>3. QED
    BY <1>3, <2>1, <2>2
<1>8. /\ n \in [Fns -> Nat] /\ n[f] = 0
      /\ \A g \in Fns \ {f} : n[g] = calls[g]
  BY DEF Agree
<1> HIDE DEF q, old
<1>9. \A i \in 1..Len(q) : q[i].fn \in Fns \ {f}
  <2> SUFFICES ASSUME NEW i \in 1..Len(q) PROVE q[i].fn \in Fns \ {f}
    OBVIOUS
  <2>1. q[i].fn # f
    BY <1>1, <1>5 DEF Agree
  <2>2. q[i] \in PollEntries
    BY <1>4, ElementOfSeq
  <2>3. QED
    BY <2>1, <2>2 DEF PollEntries
<1>10. ASSUME NEW i \in 1..Len(q), NEW j \in 1..Len(q), q[i].fn = q[j].fn
       PROVE  i = j
  <2>1. old(i) = old(j)
    BY <1>5, <1>10 DEF Agree
  <2>2. QED
    BY <1>6, <2>1
<1>11. \A i \in 1..Len(q) : n[q[i].fn] <= 1 /\ (q[i].r => n[q[i].fn] = 0)
  BY <1>5, <1>8, <1>9 DEF Agree
<1>12. ASSUME NEW g \in Fns, n[g] > 0 PROVE HasEntry(q, g)
  <2>1. g # f /\ calls[g] > 0
    BY <1>8, <1>12
  <2>2. PICK j \in 1..Len(entries) : entries[j].fn = g
    BY <2>1 DEF Agree, HasEntry
  <2>3. PICK i \in 1..Len(q) : old(i) = j
    BY <1>1, <1>7, <2>1, <2>2
  <2>4. QED
    BY <1>5, <2>2, <2>3 DEF HasEntry
<1>13. Agree(q, n)
  BY <1>4, <1>8, <1>10, <1>11, <1>12 DEF Agree
<1>14. QED
  BY <1>2, <1>13 DEF q

\* A call of the function f ended: its entry may be called again.
LEMMA EntryRearmed ==
  ASSUME Agree(entries, calls), NEW f \in Fns, calls[f] > 0
  PROVE  /\ Agree(Rearmed(f), [calls EXCEPT ![f] = @ - 1])
         /\ Len(Rearmed(f)) = Len(entries)
<1>1. PICK k \in 1..Len(entries) : entries[k].fn = f
  BY DEF Agree, HasEntry
<1>2. EntryOf(f) = k
  BY <1>1, EntryFound
<1> DEFINE q == [entries EXCEPT ![k].r = TRUE]
           n == [calls EXCEPT ![f] = @ - 1]
<1>3. entries \in Seq(PollEntries) /\ Len(entries) \in Nat
  <2>1. entries \in Seq(PollEntries)
    BY DEF Agree
  <2>2. QED
    BY <2>1, LenProperties
<1>4. \A i \in 1..Len(entries) : entries[i] \in PollEntries
  BY <1>3, ElementOfSeq
<1>5. [entries[k] EXCEPT !.r = TRUE] \in PollEntries
  BY <1>4 DEF PollEntries
<1>6. /\ q \in Seq(PollEntries)
      /\ Len(q) = Len(entries)
      /\ \A i \in 1..Len(entries) : i # k => q[i] = entries[i]
      /\ q[k] = [entries[k] EXCEPT !.r = TRUE]
  <2>1. PICK e : e = [entries[k] EXCEPT !.r = TRUE]
    OBVIOUS
  <2>2. q = [entries EXCEPT ![k] = e]
    BY <2>1
  <2> HIDE DEF q
  <2>3. e \in PollEntries
    BY <1>5, <2>1
  <2>4. /\ [entries EXCEPT ![k] = e] \in Seq(PollEntries)
        /\ Len([entries EXCEPT ![k] = e]) = Len(entries)
        /\ \A j \in 1..Len(entries) : [entries EXCEPT ![k] = e][j] = IF j = k THEN e ELSE entries[j]
    BY <1>3, <2>3, ExceptSeq
  <2>5. QED
    BY <2>1, <2>2, <2>4
<1>7. \A i \in 1..Len(entries) : q[i].fn = entries[i].fn
  BY <1>4, <1>6 DEF PollEntries
<1>8. /\ calls \in [Fns -> Nat] /\ calls[f] = 1
  <2>1. calls \in [Fns -> Nat] /\ calls[f] <= 1
    BY <1>1 DEF Agree
  <2>2. QED
    BY <2>1
<1>9. /\ n \in [Fns -> Nat] /\ n[f] = 0
      /\ \A g \in Fns \ {f} : n[g] = calls[g]
  BY <1>8
<1>10. ASSUME NEW i \in 1..Len(entries)
       PROVE  entries[i].fn \in Fns /\ (i # k => entries[i].fn # f)
  <2>1. entries[i].fn \in Fns
    <3>1. entries[i] \in PollEntries
      BY <1>4
    <3>2. QED
      BY <3>1 DEF PollEntries
  <2>2. i # k => entries[i].fn # f
    BY <1>1 DEF Agree
  <2>3. QED
    BY <2>1, <2>2
<1> HIDE DEF q, n
<1>11. \A i, j \in 1..Len(q) : q[i].fn = q[j].fn => i = j
  BY <1>6, <1>7 DEF Agree
<1>12. ASSUME NEW i \in 1..Len(q)
       PROVE  n[q[i].fn] <= 1 /\ (q[i].r => n[q[i].fn] = 0)
  <2>1. CASE i = k
    BY <1>1, <1>6, <1>7, <1>9, <2>1
  <2>2. CASE i # k
    <3>1. q[i] = entries[i] /\ n[q[i].fn] = calls[entries[i].fn]
      BY <1>6, <1>9, <1>10, <2>2
    <3>2. QED
      BY <1>6, <3>1 DEF Agree
  <2>3. QED
    BY <2>1, <2>2
<1>13. ASSUME NEW g \in Fns, n[g] > 0 PROVE HasEntry(q, g)
  <2>1. calls[g] > 0
    BY <1>9, <1>13
  <2>2. HasEntry(entries, g)
    BY <2>1 DEF Agree
  <2>3. QED
    BY <1>6, <1>7, <2>2 DEF HasEntry
<1>14. Agree(q, n)
  BY <1>6, <1>9, <1>11, <1>12, <1>13 DEF Agree
<1>15. QED
  BY <1>2, <1>6, <1>14 DEF Rearmed, q, n

-----------------------------------------------------------------------------
(* Rounds *)

\* Entries that were free are called, one of which may throw instead.
LEMMA CalledStep ==
  ASSUME NEW q, Agree(q, calls), NEW t, NEW due \in SUBSET (1..Len(q)),
         \A i \in due : q[i].r,
         Called(q, t, due)
  PROVE  Agree(entries', calls') /\ Len(entries') = Len(q)
<1> DEFINE e(i) == IF i \in due THEN [q[i] EXCEPT !.r = FALSE] ELSE q[i]
<1>1. q \in Seq(PollEntries) /\ Len(q) \in Nat
  <2>1. q \in Seq(PollEntries)
    BY DEF Agree
  <2>2. QED
    BY <2>1, LenProperties
<1>2. ASSUME NEW i \in 1..Len(q)
      PROVE  /\ e(i) \in PollEntries
             /\ e(i).fn = q[i].fn
             /\ e(i).r => i \notin due /\ q[i].r
  <2>1. q[i] \in PollEntries
    BY <1>1, ElementOfSeq
  <2>2. QED
    BY <2>1 DEF PollEntries
<1> HIDE DEF e
<1>3. entries' = [i \in 1..Len(q) |-> e(i)]
  BY DEF Called, e
<1>4. /\ entries' \in Seq(PollEntries) /\ Len(entries') = Len(q)
      /\ \A i \in 1..Len(q) : entries'[i] = e(i)
  BY <1>1, <1>2, <1>3
<1>5. \A i \in 1..Len(q) : /\ entries'[i].fn = q[i].fn
                           /\ entries'[i].r => i \notin due /\ q[i].r
  BY <1>2, <1>4
<1>6. /\ calls \in [Fns -> Nat]
      /\ calls' = [f \in Fns |-> IF \E i \in due : q[i].fn = f /\ i # t THEN calls[f] + 1 ELSE calls[f]]
  BY DEF Called, Agree
<1>7. /\ calls' \in [Fns -> Nat]
      /\ \A f \in Fns : \/ calls'[f] = calls[f]
                        \/ calls'[f] = calls[f] + 1 /\ \E i \in due : q[i].fn = f
  BY <1>6
<1>8. \A i, j \in 1..Len(entries') : entries'[i].fn = entries'[j].fn => i = j
  BY <1>4, <1>5 DEF Agree
<1>9. ASSUME NEW i \in 1..Len(q)
      PROVE  calls'[q[i].fn] <= 1 /\ (entries'[i].r => calls'[q[i].fn] = 0)
  <2>1. q[i].fn \in Fns
    <3>1. q[i] \in PollEntries
      BY <1>1, ElementOfSeq
    <3>2. QED
      BY <3>1 DEF PollEntries
  <2>2. calls[q[i].fn] \in Nat /\ calls[q[i].fn] <= 1 /\ (q[i].r => calls[q[i].fn] = 0)
    BY <2>1 DEF Agree
  <2>3. CASE i \in due
    BY <1>5, <1>7, <2>1, <2>2, <2>3
  <2>4. CASE i \notin due
    <3>1. \A j \in due : q[j].fn # q[i].fn
      BY <2>4 DEF Agree
    <3>2. calls'[q[i].fn] = calls[q[i].fn]
      BY <1>7, <2>1, <3>1
    <3>3. QED
      BY <1>5, <2>2, <3>2
  <2>5. QED
    BY <2>3, <2>4
<1>10. ASSUME NEW f \in Fns, calls'[f] > 0 PROVE HasEntry(entries', f)
  <2>1. HasEntry(q, f)
    <3>1. CASE calls'[f] = calls[f]
      BY <1>10, <3>1 DEF Agree
    <3>2. CASE \E i \in due : q[i].fn = f
      BY <3>2 DEF HasEntry
    <3>3. QED
      BY <1>7, <3>1, <3>2
  <2>2. QED
    BY <1>4, <1>5, <2>1 DEF HasEntry
<1>11. \A i \in 1..Len(entries') : /\ calls'[entries'[i].fn] <= 1
                                   /\ entries'[i].r => calls'[entries'[i].fn] = 0
  BY <1>4, <1>5, <1>9
<1>12. QED
  BY <1>4, <1>7, <1>8, <1>10, <1>11 DEF Agree

LEMMA WholeRoundStep ==
  ASSUME NEW q, Agree(q, calls), NEW n \in 0..Wrap, WholeRound(q, n)
  PROVE  Agree(entries', calls') /\ Len(entries') = Len(q) /\ tick' \in 0..Wrap /\ tick' # Deleted
<1> DEFINE due == {i \in 1..Len(q) : Due(q, n, i)}
<1>1. due \in SUBSET (1..Len(q)) /\ \A i \in due : q[i].r
  BY DEF Due
<1>2. Called(q, 0, due) /\ tick' = (n + 1) % Wrap
  BY DEF WholeRound
<1> HIDE DEF due
<1>3. QED
  BY <1>1, <1>2, CalledStep, NextTick DEF Deleted

LEMMA BrokenRoundStep ==
  ASSUME NEW q, Agree(q, calls), NEW n, BrokenRound(q, n)
  PROVE  Agree(entries', calls') /\ Len(entries') = Len(q) /\ tick' = n
<1>1. PICK k \in 1..Len(q) : Called(q, k, {i \in 1..k : Due(q, n, i)}) /\ tick' = n
  BY DEF BrokenRound
<1> DEFINE due == {i \in 1..k : Due(q, n, i)}
<1>2. due \in SUBSET (1..Len(q)) /\ \A i \in due : q[i].r
  <2>1. Len(q) \in Nat
    BY LenProperties DEF Agree
  <2>2. QED
    BY <2>1 DEF Due
<1>3. Called(q, k, due) /\ tick' = n
  BY <1>1
<1> HIDE DEF due
<1>4. QED
  BY <1>2, <1>3, CalledStep

-----------------------------------------------------------------------------
(* Starting, stopping, adding and removing *)

LEMMA NotEmpty ==
  ASSUME NEW q, NEW p, NEW S, NEW T, q \in Seq(S), p \in Seq(T), Len(q) = Len(p), q # <<>>
  PROVE  p # <<>>
<1>1. Len(q) # 0
  BY EmptySeq
<1>2. QED
  BY <1>1, EmptySeq

LEMMA StartedStep ==
  ASSUME LoopHolds, NEW q, Agree(q, calls), q = entries \/ q # <<>>, Started(q)
  PROVE  LoopHolds'
<1>1. CASE timer /\ entries' = q /\ UNCHANGED <<timer, tick, calls, indicator>>
  <2>1. Agree(q, calls')
    BY <1>1
  <2>2. q # <<>>
    BY <1>1 DEF LoopHolds, TimerUsed
  <2>3. QED
    BY <1>1, <2>1, <2>2 DEF LoopHolds, TimerUsed, IndicatorTrue
<1>2. CASE ~timer /\ q = <<>> /\ entries' = q /\ tick' = 0 /\ UNCHANGED <<timer, calls, indicator>>
  <2>1. Agree(q, calls')
    BY <1>2
  <2>2. QED
    BY <1>2, <2>1, Shortest DEF LoopHolds, TimerUsed, IndicatorTrue
<1>3. CASE ~timer /\ q # <<>> /\ timer' = TRUE /\ WholeRound(q, 0) /\ indicator' = "refreshing"
  <2>1. Agree(entries', calls') /\ Len(entries') = Len(q) /\ tick' \in 0..Wrap /\ tick' # Deleted
    BY <1>3, WholeRoundStep, Shortest
  <2>2. entries' # <<>>
    BY <1>3, <2>1, NotEmpty DEF Agree
  <2>3. QED
    BY <1>3, <2>1, <2>2 DEF LoopHolds, TimerUsed, IndicatorTrue
<1>4. CASE ~timer /\ q # <<>> /\ timer' = TRUE /\ BrokenRound(q, 0) /\ UNCHANGED indicator
  <2>1. Agree(entries', calls') /\ Len(entries') = Len(q) /\ tick' = 0
    BY <1>4, BrokenRoundStep
  <2>2. entries' # <<>>
    BY <1>4, <2>1, NotEmpty DEF Agree
  <2>3. QED
    BY <1>4, <2>1, <2>2, Shortest DEF LoopHolds, TimerUsed, IndicatorTrue
<1>5. QED
  BY <1>1, <1>2, <1>3, <1>4 DEF Started

LEMMA StoppedStep ==
  ASSUME LoopHolds, Stopped, UNCHANGED <<entries, calls>>
  PROVE  LoopHolds'
<1>1. Agree(entries', calls')
  BY DEF LoopHolds
<1>2. CASE timer
  BY <1>1, <1>2, Shortest DEF LoopHolds, Stopped, TimerUsed, IndicatorTrue
<1>3. CASE ~timer
  BY <1>1, <1>3 DEF LoopHolds, Stopped, TimerUsed, IndicatorTrue
<1>4. QED
  BY <1>2, <1>3

LEMMA AddedStep ==
  ASSUME LoopHolds, NEW f \in Fns, Added(f)
  PROVE  LoopHolds'
<1>1. CASE Known(f)
  <2>1. UNCHANGED <<entries, timer, tick, calls, indicator>>
    BY <1>1 DEF Added
  <2>2. QED
    BY <2>1 DEF LoopHolds, TimerUsed, IndicatorTrue
<1>2. CASE ~Known(f)
  <2> DEFINE q == Append(entries, Entry(f))
  <2>1. Agree(q, calls) /\ q # <<>>
    BY <1>2, EntryAppended DEF Known, LoopHolds
  <2> HIDE DEF q
  <2>2. CASE tick # Deleted
    <3>1. Started(q)
      BY <1>2, <2>2 DEF Added, q
    <3>2. QED
      BY <2>1, <3>1, StartedStep
  <2>3. CASE tick = Deleted
    <3>1. entries' = q /\ UNCHANGED <<timer, tick, calls, indicator>>
      BY <1>2, <2>3 DEF Added, q
    <3>2. Agree(entries', calls')
      BY <2>1, <3>1
    <3>3. QED
      BY <2>3, <3>1, <3>2 DEF LoopHolds, TimerUsed, IndicatorTrue
  <2>4. QED
    BY <2>2, <2>3
<1>3. QED
  BY <1>1, <1>2

LEMMA RemovedStep ==
  ASSUME LoopHolds, orphans \subseteq Fns, NEW f \in Fns, Removed(f)
  PROVE  LoopHolds' /\ orphans' \subseteq Fns
<1> DEFINE rest == IF f \in Registered THEN RemoveAt(entries, EntryOf(f)) ELSE entries
           n == [calls EXCEPT ![f] = 0]
<1>1. /\ entries' = rest /\ calls' = n
      /\ orphans' = IF calls[f] > 0 THEN orphans \cup {f} ELSE orphans
      /\ \/ rest = <<>> /\ timer /\ timer' = FALSE /\ tick' = 0 /\ indicator' = "paused"
         \/ ~(rest = <<>> /\ timer) /\ UNCHANGED <<timer, tick, indicator>>
  BY DEF Removed
<1>2. Agree(rest, n)
  <2>1. CASE f \in Registered
    BY <2>1, EntryTaken DEF LoopHolds
  <2>2. CASE f \notin Registered
    <3>1. ~(calls[f] > 0) /\ calls \in [Fns -> Nat]
      BY <2>2 DEF Registered, LoopHolds, Agree, HasEntry
    <3>2. calls[f] = 0
      BY <3>1
    <3>3. n = calls
      BY <3>1, <3>2
    <3>4. QED
      BY <2>2, <3>3 DEF LoopHolds
  <2>3. QED
    BY <2>1, <2>2
<1>3. rest # <<>> => entries # <<>>
  <2>1. entries = <<>> => Registered = {}
    BY DEF Registered
  <2>2. QED
    BY <2>1
<1> HIDE DEF rest, n
<1>4. Agree(entries', calls')
  BY <1>1, <1>2
<1>5. CASE rest = <<>> /\ timer
  BY <1>1, <1>4, <1>5, Shortest DEF LoopHolds, TimerUsed, IndicatorTrue
<1>6. CASE ~(rest = <<>> /\ timer)
  BY <1>1, <1>3, <1>4, <1>6 DEF LoopHolds, TimerUsed, IndicatorTrue
<1>7. QED
  BY <1>1, <1>5, <1>6

-----------------------------------------------------------------------------
(* Every step *)

LEMMA PollInitIInv == PollInit => PollIInv
<1> SUFFICES ASSUME PollInit PROVE PollIInv
  OBVIOUS
<1>1. entries \in Seq(PollEntries) /\ Len(entries) = 0
  BY EmptySeq DEF PollInit
<1>2. calls \in [Fns -> Nat] /\ \A f \in Fns : calls[f] = 0
  BY DEF PollInit
<1>3. Agree(entries, calls)
  BY <1>1, <1>2 DEF Agree
<1>4. QED
  BY <1>3, Shortest DEF PollInit, PollIInv, LoopHolds, OthersHold, TimerUsed, IndicatorTrue

\* Steps at the queue leave the dialogs alone and may change the loop.
LEMMA StepStep ==
  ASSUME LoopHolds, Step
  PROVE  LoopHolds'
<1>1. /\ timer /\ entries # <<>> /\ tick \in 0..Wrap /\ tick # Deleted /\ Agree(entries, calls)
      /\ UNCHANGED <<timer, indicator>>
  BY DEF LoopHolds, TimerUsed, Step
<1>2. /\ Agree(entries', calls') /\ Len(entries') = Len(entries)
      /\ tick' \in 0..Wrap /\ tick' # Deleted
  <2>1. CASE WholeRound(entries, tick)
    BY <1>1, <2>1, WholeRoundStep
  <2>2. CASE BrokenRound(entries, tick)
    BY <1>1, <2>2, BrokenRoundStep
  <2>3. QED
    BY <2>1, <2>2 DEF Step
<1>3. entries' # <<>>
  BY <1>1, <1>2, NotEmpty DEF Agree
<1>4. QED
  BY <1>1, <1>2, <1>3 DEF LoopHolds, TimerUsed, IndicatorTrue

LEMMA SettledStep ==
  ASSUME LoopHolds, NEW f \in Fns, Settled(f)
  PROVE  LoopHolds'
<1>1. /\ calls[f] > 0 /\ entries' = Rearmed(f) /\ calls' = [calls EXCEPT ![f] = @ - 1]
      /\ UNCHANGED <<timer, tick, indicator>>
  BY DEF Settled
<1>2. Agree(entries', calls') /\ Len(entries') = Len(entries) /\ entries \in Seq(PollEntries)
  BY <1>1, EntryRearmed DEF LoopHolds, Agree
<1>3. entries' # <<>> <=> entries # <<>>
  <2>1. entries' \in Seq(PollEntries)
    BY <1>2 DEF Agree
  <2>2. QED
    BY <1>2, <2>1, NotEmpty
<1>4. QED
  BY <1>1, <1>2, <1>3 DEF LoopHolds, TimerUsed, IndicatorTrue

LEMMA LoopUnchanged ==
  ASSUME LoopHolds, UNCHANGED <<entries, timer, tick, calls, indicator>>
  PROVE  LoopHolds'
BY DEF LoopHolds, TimerUsed, IndicatorTrue

LEMMA PollNextIInv == PollIInv /\ [PollNext]_pollVars => PollIInv'
<1> SUFFICES ASSUME PollIInv, [PollNext]_pollVars PROVE PollIInv'
  OBVIOUS
<1>a. LoopHolds /\ OthersHold /\ Agree(entries, calls)
  BY DEF PollIInv, LoopHolds
<1>1. ASSUME NEW f \in PageFns, PageAdds(f) PROVE PollIInv'
  <2>1. f \in Fns
    BY DEF Fns
  <2>2. QED
    BY <1>a, <1>1, <2>1, AddedStep DEF PageAdds, PollIInv, OthersHold
<1>2. ASSUME NEW f \in Fns, Settled(f) PROVE PollIInv'
  BY <1>a, <1>2, SettledStep DEF Settled, PollIInv, OthersHold
<1>3. ASSUME NEW f \in Fns, OrphanSettled(f) PROVE PollIInv'
  <2>1. LoopHolds'
    BY <1>a, <1>3, LoopUnchanged DEF OrphanSettled, ByEntry
  <2>2. QED
    BY <1>a, <1>3, <2>1 DEF OrphanSettled, PollIInv, OthersHold
<1>4. CASE Loaded
  BY <1>a, <1>4, StartedStep DEF Loaded, PollIInv, OthersHold
<1>5. CASE Step
  BY <1>a, <1>5, StepStep DEF Step, PollIInv, OthersHold
<1>6. CASE Clicked
  <2>1. LoopHolds'
    BY <1>a, <1>6, StartedStep, StoppedStep DEF Clicked
  <2>2. QED
    BY <1>a, <1>6, <2>1 DEF Clicked, PollIInv, OthersHold
<1>7. CASE StatusShown
  <2>1. LoopHolds'
    BY <1>a, <1>7, StoppedStep, LoopUnchanged DEF StatusShown
  <2>2. wasPolling' \in BOOLEAN
    BY <1>a, <1>7 DEF StatusShown, LoopHolds, OthersHold
  <2>3. QED
    BY <1>a, <1>7, <2>1, <2>2 DEF StatusShown, PollIInv, OthersHold
<1>8. CASE StatusHidden
  <2>1. LoopHolds'
    BY <1>a, <1>8, StartedStep, LoopUnchanged DEF StatusHidden
  <2>2. QED
    BY <1>a, <1>8, <2>1 DEF StatusHidden, PollIInv, OthersHold
<1>b. Scan \in Fns
  BY DEF Fns
<1>9. CASE ScanOpened
  <2>1. LoopHolds'
    BY <1>a, <1>b, <1>9, EntryAppended, StartedStep DEF ScanOpened
  <2>2. QED
    BY <1>a, <1>9, <2>1 DEF ScanOpened, PollIInv, OthersHold
<1>10. CASE ScanButton
  <2>1. LoopHolds' /\ orphans' \subseteq Fns
    BY <1>a, <1>b, <1>10, AddedStep, RemovedStep DEF ScanButton, OthersHold
  <2>2. QED
    BY <1>a, <1>10, <2>1 DEF ScanButton, PollIInv, OthersHold
<1>11. CASE ScanDismissed
  <2>1. LoopHolds' /\ orphans' \subseteq Fns
    BY <1>a, <1>b, <1>11, RemovedStep DEF ScanDismissed, OthersHold
  <2>2. QED
    BY <1>a, <1>11, <2>1 DEF ScanDismissed, PollIInv, OthersHold
<1>12. CASE Expired
  <2>1. LoopHolds'
    BY <1>a, <1>12, StoppedStep DEF Expired
  <2>2. QED
    BY <1>a, <1>12, <2>1 DEF Expired, PollIInv, OthersHold
<1>13. CASE UNCHANGED pollVars
  BY <1>a, <1>13, LoopUnchanged DEF pollVars, PollIInv, OthersHold
<1>14. QED
  BY <1>1, <1>2, <1>3, <1>4, <1>5, <1>6, <1>7, <1>8, <1>9, <1>10, <1>11, <1>12, <1>13 DEF PollNext

LEMMA PollIInvSound == PollIInv => PollSound
<1> SUFFICES ASSUME PollIInv PROVE PollSound
  OBVIOUS
<1>1. Agree(entries, calls)
  BY DEF PollIInv, LoopHolds
<1>2. NoOverlap
  BY <1>1 DEF Agree, NoOverlap
<1>3. IsInjective([i \in 1..Len(entries) |-> entries[i].fn])
  BY <1>1 DEF Agree, IsInjective
<1>4. PollTypeOK
  BY <1>1, <1>3 DEF PollTypeOK, PollIInv, LoopHolds, OthersHold, Agree, PollEntries
<1>5. QED
  BY <1>2, <1>4 DEF PollSound, PollIInv, LoopHolds

\* The queue, the pending calls, the timer and the header agree: Poll of luci.js.
THEOREM LoopIsSound == PollSpec => []PollSound
BY PollInitIInv, PollNextIInv, PollIInvSound, PTL DEF PollSpec

-----------------------------------------------------------------------------
(* The cached network state *)

\* No one knows a state the router has not had yet.
KnownToRouter ==
  /\ cached # Null => cached <= router
  /\ \A r \in Rounds : round[r].pc \in {"read", "list"} => round[r].data <= router

\* Who waits for a round is told nothing older than what he knew.
WaitersServed ==
  \A u \in Users : user[u].pc = "waiting" =>
    /\ user[u].on \in Rounds
    /\ round[user[u].on].pc = "asked" => user[u].least <= router
    /\ round[user[u].on].pc \in {"read", "list"} => user[u].least <= round[user[u].on].data

\* A round one can still join is newer than the cache and than the rounds that
\* wait for hostapd, which may end before it does.
JoinedIsNewest ==
  \A r \in Rounds : round[r].pc = "read" =>
    /\ cached # Null => cached <= round[r].data
    /\ \A q \in Rounds : round[q].pc = "list" => round[q].data <= round[r].data

NetIInv ==
  /\ NetTypeOK /\ OneFirstCall /\ NotOlder
  /\ KnownToRouter /\ WaitersServed /\ JoinedIsNewest

LEMMA NetInitIInv == NetInit => NetIInv
<1> SUFFICES ASSUME NetInit PROVE NetIInv
  OBVIOUS
<1> USE NetAssumption DEF NetInit, NoRound, Idler, Null
<1>1. NetTypeOK
  BY DEF NetTypeOK
<1>2. OneFirstCall /\ NotOlder
  BY DEF OneFirstCall, NotOlder
<1>3. KnownToRouter /\ WaitersServed /\ JoinedIsNewest
  BY DEF KnownToRouter, WaitersServed, JoinedIsNewest
<1>4. QED
  BY <1>1, <1>2, <1>3 DEF NetIInv

\* One more waits for a round in its first calls, which may have just begun.
LEMMA TakesPartStep ==
  ASSUME NetIInv, NEW u \in Users, user[u].pc = "idle", TakesPart(u), UNCHANGED <<router, cached>>
  PROVE  NetIInv'
<1> USE NetAssumption DEF Null
<1>1. PICK r \in Rounds :
        /\ init' = r
        /\ \/ init = r /\ round' = round
           \/ /\ init = Null /\ round[r].pc = "free"
              /\ round' = [round EXCEPT ![r].pc = "asked"]
        /\ user' = [user EXCEPT ![u] = [pc |-> "waiting", on |-> r, least |-> KnownState]]
  BY DEF NetIInv, NetTypeOK, TakesPart, Waits
<1>2. /\ user'[u] = [pc |-> "waiting", on |-> r, least |-> KnownState]
      /\ \A v \in Users \ {u} : user'[v] = user[v]
      /\ round'[r].pc \in {"asked", "read"}
      /\ round'[r].pc = "read" => round'[r] = round[r]
      /\ \A q \in Rounds \ {r} : round'[q] = round[q]
      /\ \A q \in Rounds : round[q].pc # "free" => round'[q] = round[q]
  BY <1>1 DEF NetIInv, NetTypeOK, OneFirstCall
<1>3. KnownState \in Nat /\ KnownState <= router
      /\ (round'[r].pc = "read" => KnownState <= round'[r].data)
  BY <1>2 DEF NetIInv, NetTypeOK, KnownState, KnownToRouter, JoinedIsNewest
<1>4. NetTypeOK'
  <2>1. user' \in [Users -> [pc : {"idle", "waiting", "ready"}, on : Rounds \cup {Null}, least : Nat]]
    BY <1>1, <1>3 DEF NetIInv, NetTypeOK
  <2>2. round' \in [Rounds -> [pc : {"free", "asked", "read", "list"}, data : 0..Null]]
    BY <1>1 DEF NetIInv, NetTypeOK
  <2>3. \A v \in Users : user'[v].pc = "waiting" => round'[user'[v].on].pc # "free"
    BY <1>2 DEF NetIInv, NetTypeOK, WaitersServed
  <2>4. QED
    BY <1>1, <2>1, <2>2, <2>3 DEF NetIInv, NetTypeOK
<1>5. OneFirstCall'
  BY <1>1, <1>2 DEF NetIInv, NetTypeOK, OneFirstCall
<1>6. NotOlder'
  BY <1>2 DEF NetIInv, NotOlder
<1>7. KnownToRouter'
  BY <1>1, <1>2 DEF NetIInv, NetTypeOK, KnownToRouter
<1>8. WaitersServed'
  BY <1>2, <1>3 DEF NetIInv, NetTypeOK, WaitersServed
<1>9. JoinedIsNewest'
  BY <1>1, <1>2 DEF NetIInv, NetTypeOK, OneFirstCall, JoinedIsNewest
<1>10. QED
  BY <1>4, <1>5, <1>6, <1>7, <1>8, <1>9 DEF NetIInv

\* A round ends: those who wait for it go on with its state.
LEMMA EndedStep ==
  ASSUME NetIInv, NEW r \in Rounds, CallbacksDone,
         \/ round[r].pc = "read" /\ init' = Null
         \/ round[r].pc = "list" /\ init' = init,
         round' = [round EXCEPT ![r] = NoRound], Ended(r), router' = router
  PROVE  NetIInv'
<1> USE NetAssumption DEF Null
<1>1. /\ round'[r] = NoRound
      /\ \A q \in Rounds \ {r} : round'[q] = round[q]
      /\ cached' = round[r].data
      /\ round[r].data \in 0..MaxAge
  <2>1. /\ router \in 0..MaxAge /\ round[r].data \in 0..(MaxAge + 1)
        /\ round[r].data <= router
    BY DEF NetIInv, NetTypeOK, KnownToRouter
  <2>2. round[r].data \in 0..MaxAge
    BY <2>1
  <2>3. round \in [Rounds -> [pc : {"free", "asked", "read", "list"}, data : 0..(MaxAge + 1)]]
    BY DEF NetIInv, NetTypeOK
  <2>4. QED
    BY <2>2, <2>3 DEF Ended
<1>2. \A u \in Users :
        /\ user[u].pc = "waiting" /\ user[u].on = r =>
             user'[u].pc = "ready" /\ user'[u].on = Null /\ user'[u].least = user[u].least
        /\ ~(user[u].pc = "waiting" /\ user[u].on = r) => user'[u] = user[u]
  BY DEF NetIInv, NetTypeOK, Ended
<1>3. NetTypeOK'
  <2>1. user' \in [Users -> [pc : {"idle", "waiting", "ready"}, on : Rounds \cup {Null}, least : Nat]]
    BY DEF NetIInv, NetTypeOK, Ended
  <2>2. round' \in [Rounds -> [pc : {"free", "asked", "read", "list"}, data : 0..Null]]
    BY DEF NetIInv, NetTypeOK, NoRound
  <2>3. \A u \in Users : user'[u].pc = "waiting" => round'[user'[u].on].pc # "free"
    BY <1>1, <1>2 DEF NetIInv, NetTypeOK, WaitersServed
  <2>4. QED
    BY <1>1, <2>1, <2>2, <2>3 DEF NetIInv, NetTypeOK
<1>4. OneFirstCall'
  BY <1>1 DEF NetIInv, NetTypeOK, OneFirstCall, NoRound
<1>5. NotOlder'
  BY <1>1, <1>2 DEF NetIInv, NetTypeOK, WaitersServed, CallbacksDone, NotOlder
<1>6. KnownToRouter'
  BY <1>1 DEF NetIInv, KnownToRouter, NoRound
<1>7. WaitersServed'
  BY <1>1, <1>2 DEF NetIInv, NetTypeOK, WaitersServed
<1>8. JoinedIsNewest'
  BY <1>1 DEF NetIInv, NetTypeOK, OneFirstCall, JoinedIsNewest, NoRound
<1>9. QED
  BY <1>3, <1>4, <1>5, <1>6, <1>7, <1>8 DEF NetIInv

LEMMA NetNextIInv == NetIInv /\ [NetNext]_netVars => NetIInv'
<1> SUFFICES ASSUME NetIInv, [NetNext]_netVars PROVE NetIInv'
  OBVIOUS
<1> USE NetAssumption DEF Null
<1>1. CASE Changes
  BY <1>1 DEF Changes, NetIInv, NetTypeOK, OneFirstCall, NotOlder, KnownToRouter, WaitersServed,
              JoinedIsNewest
<1>2. ASSUME NEW u \in Getters, Get(u) PROVE NetIInv'
  <2>1. u \in Users
    BY DEF Users
  <2>2. CASE cached = Null /\ TakesPart(u)
    BY <1>2, <2>1, <2>2, TakesPartStep DEF Get
  <2>3. CASE /\ cached # Null
             /\ user' = [user EXCEPT ![u] = [@ EXCEPT !.pc = "ready", !.least = cached]]
             /\ UNCHANGED <<init, round>>
    <3>1. /\ user'[u].pc = "ready" /\ user'[u].least = cached
          /\ \A v \in Users \ {u} : user'[v] = user[v]
          /\ UNCHANGED <<router, init, cached, round>>
      BY <1>2, <2>1, <2>3 DEF Get, NetIInv, NetTypeOK
    <3>2. NetTypeOK'
      <4>1. user' \in [Users -> [pc : {"idle", "waiting", "ready"}, on : Rounds \cup {Null},
                                least : Nat]]
        <5>1. cached \in Nat
          BY <2>3 DEF NetIInv, NetTypeOK
        <5>2. QED
          BY <2>1, <2>3, <5>1 DEF NetIInv, NetTypeOK
      <4>2. \A v \in Users : user'[v].pc = "waiting" => round'[user'[v].on].pc # "free"
        BY <3>1 DEF NetIInv, NetTypeOK
      <4>3. QED
        BY <3>1, <4>1, <4>2 DEF NetIInv, NetTypeOK
    <3>3. NotOlder' /\ WaitersServed'
      BY <2>3, <3>1 DEF NetIInv, NetTypeOK, NotOlder, WaitersServed
    <3>4. QED
      BY <3>1, <3>2, <3>3 DEF NetIInv, OneFirstCall, KnownToRouter, JoinedIsNewest
  <2>4. QED
    BY <1>2, <2>2, <2>3 DEF Get
<1>3. ASSUME NEW u \in Flushers, FlushCache(u) PROVE NetIInv'
  BY <1>3, TakesPartStep DEF FlushCache, KeptByFlush, Users
<1>4. ASSUME NEW r \in Rounds, Read(r) PROVE NetIInv'
  <2>1. /\ round[r].pc = "asked" /\ round'[r].pc = "read" /\ round'[r].data = router
        /\ \A q \in Rounds \ {r} : round'[q] = round[q]
        /\ UNCHANGED <<router, init, cached, user>>
    BY <1>4 DEF Read, NetIInv, NetTypeOK
  <2>2. NetTypeOK'
    <3>1. round' \in [Rounds -> [pc : {"free", "asked", "read", "list"}, data : 0..Null]]
      BY <1>4 DEF Read, NetIInv, NetTypeOK
    <3>2. \A u \in Users : user'[u].pc = "waiting" => round'[user'[u].on].pc # "free"
      BY <2>1 DEF NetIInv, NetTypeOK, WaitersServed
    <3>3. QED
      BY <2>1, <3>1, <3>2 DEF NetIInv, NetTypeOK
  <2>3. OneFirstCall' /\ NotOlder' /\ KnownToRouter'
    BY <2>1 DEF NetIInv, NetTypeOK, OneFirstCall, NotOlder, KnownToRouter
  <2>4. WaitersServed'
    BY <2>1 DEF NetIInv, NetTypeOK, WaitersServed
  <2>5. JoinedIsNewest'
    BY <2>1 DEF NetIInv, NetTypeOK, OneFirstCall, KnownToRouter, JoinedIsNewest
  <2>6. QED
    BY <2>2, <2>3, <2>4, <2>5 DEF NetIInv
<1>5. ASSUME NEW r \in Rounds, Arrives(r) PROVE NetIInv'
  <2>1. CASE round' = [round EXCEPT ![r].pc = "list"] /\ UNCHANGED <<cached, user>>
    <3>1. /\ round[r].pc = "read" /\ round'[r].pc = "list" /\ round'[r].data = round[r].data
          /\ \A q \in Rounds \ {r} : round'[q] = round[q]
          /\ init' = Null /\ UNCHANGED <<router, cached, user>>
      BY <1>5, <2>1 DEF Arrives, NetIInv, NetTypeOK
    <3>2. NetTypeOK'
      <4>1. round' \in [Rounds -> [pc : {"free", "asked", "read", "list"}, data : 0..Null]]
        BY <2>1 DEF NetIInv, NetTypeOK
      <4>2. \A u \in Users : user'[u].pc = "waiting" => round'[user'[u].on].pc # "free"
        BY <3>1 DEF NetIInv, NetTypeOK, WaitersServed
      <4>3. QED
        BY <3>1, <4>1, <4>2 DEF NetIInv, NetTypeOK
    <3>3. OneFirstCall' /\ NotOlder' /\ KnownToRouter'
      BY <3>1 DEF NetIInv, NetTypeOK, OneFirstCall, NotOlder, KnownToRouter
    <3>4. WaitersServed'
      BY <3>1 DEF NetIInv, NetTypeOK, WaitersServed
    <3>5. JoinedIsNewest'
      BY <3>1 DEF NetIInv, NetTypeOK, OneFirstCall, JoinedIsNewest
    <3>6. QED
      BY <3>2, <3>3, <3>4, <3>5 DEF NetIInv
  <2>2. CASE round' = [round EXCEPT ![r] = NoRound] /\ Ended(r)
    BY <1>5, <2>2, EndedStep DEF Arrives
  <2>3. QED
    BY <1>5, <2>1, <2>2 DEF Arrives
<1>6. ASSUME NEW r \in Rounds, Listed(r) PROVE NetIInv'
  BY <1>6, EndedStep DEF Listed
<1>7. ASSUME NEW u \in Users, Proceeds(u) PROVE NetIInv'
  <2>1. /\ user'[u] = Idler /\ \A v \in Users \ {u} : user'[v] = user[v]
        /\ UNCHANGED <<router, init, cached, round>>
    BY <1>7 DEF Proceeds, NetIInv, NetTypeOK
  <2>2. NetTypeOK'
    BY <1>7, <2>1 DEF Proceeds, Idler, NetIInv, NetTypeOK
  <2>3. QED
    BY <2>1, <2>2 DEF NetIInv, OneFirstCall, NotOlder, KnownToRouter, WaitersServed,
                      JoinedIsNewest, Idler
<1>8. CASE UNCHANGED netVars
  BY <1>8 DEF netVars, NetIInv, NetTypeOK, OneFirstCall, NotOlder, KnownToRouter, WaitersServed,
              JoinedIsNewest
<1>9. QED
  BY <1>1, <1>2, <1>3, <1>4, <1>5, <1>6, <1>7, <1>8 DEF NetNext

LEMMA NetIInvSound == NetIInv => NetSound
BY DEF NetIInv, NetSound

\* The rounds, the cache and those who wait agree: nobody is told a state older
\* than what the page knew when it asked (network.js).
THEOREM NoneToldOlder == NetSpec => []NetSound
BY NetInitIInv, NetNextIInv, NetIInvSound, PTL DEF NetSpec

-----------------------------------------------------------------------------
(* What classes need *)

LEMMA NeedsDirect ==
  ASSUME requires \in [Classes -> Seq(Classes)], NEW c \in Classes
  PROVE  ToSet(requires[c]) \subseteq Needs(c)
<1>1. ToSet(requires[c]) \subseteq Classes
  BY Membership
<1>2. QED
  BY <1>1 DEF Needs

LEMMA NeedsOfRequired ==
  ASSUME requires \in [Classes -> Seq(Classes)],
         NEW e \in Classes, NEW c \in Needs(e), NEW d \in ToSet(requires[c])
  PROVE  d \in Needs(e)
<1>1. c \in Classes
  BY DEF Needs
<1>2. d \in Classes
  BY <1>1, Membership
<1>3. ASSUME NEW S \in SUBSET Classes, ToSet(requires[e]) \subseteq S, HasAllNeeded(S)
      PROVE  d \in S
  BY <1>3 DEF Needs, HasAllNeeded
<1>4. QED
  BY <1>2, <1>3 DEF Needs

LEMMA NeedsTransitive ==
  ASSUME NEW c \in Classes, NEW d \in Needs(c)
  PROVE  Needs(d) \subseteq Needs(c)
<1> SUFFICES ASSUME NEW e \in Needs(d) PROVE e \in Needs(c)
  OBVIOUS
<1>1. e \in Classes /\ d \in Classes
  BY DEF Needs
<1>2. ASSUME NEW S \in SUBSET Classes, ToSet(requires[c]) \subseteq S, HasAllNeeded(S)
      PROVE  e \in S
  <2>1. d \in S
    BY <1>2 DEF Needs
  <2>2. ToSet(requires[d]) \subseteq S
    BY <1>2, <2>1 DEF HasAllNeeded
  <2>3. QED
    BY <1>2, <2>2 DEF Needs
<1>3. QED
  BY <1>1, <1>2 DEF Needs

-----------------------------------------------------------------------------
(* The class loader *)

FilesGiven == requires \in [Classes -> Seq(Classes)]

\* A class is asked for on behalf of classes that need it.
ChainsTrue ==
  \A c \in Classes : class[c].pc # "unknown" =>
    \A e \in ToSet(class[c].chain) : e = c \/ c \in Needs(e)

\* The list of the classes built has each once, after those it requires.
BuiltOnce ==
  /\ IsInjective(built)
  /\ \A c \in Classes : c \in ToSet(built) <=> class[c].pc = "ready"
  /\ \A i \in 1..Len(built) : \A d \in ToSet(requires[built[i]]) :
       \E j \in 1..(i - 1) : built[j] = d

ClassIInv == ClassTypeOK /\ FilesGiven /\ ChainsTrue /\ BuiltOnce /\ RefusedForCause

LEMMA ClassInitIInv == ClassInit => ClassIInv
<1> SUFFICES ASSUME ClassInit PROVE ClassIInv
  OBVIOUS
<1>1. \A s \in SeqOf(Classes, MaxDeps) : s \in Seq(Classes)
  BY ClassAssumption DEF SeqOf
<1>2. FilesGiven
  BY <1>1 DEF ClassInit, FilesGiven
<1>3. <<>> \in Seq(Classes) /\ Len(<<>>) = 0 /\ ToSet(<<>>) = {} /\ IsInjective(<<>>)
  BY DEF ToSet, IsInjective
<1>4. ClassTypeOK /\ ChainsTrue /\ RefusedForCause
  BY <1>3 DEF ClassInit, Unknown, ClassTypeOK, ChainsTrue, RefusedForCause, Failed
<1>5. BuiltOnce
  BY <1>3 DEF ClassInit, Unknown, BuiltOnce
<1>6. QED
  BY <1>2, <1>4, <1>5 DEF ClassIInv

\* A class fails, for a cause, and nothing else happens.
LEMMA ClassFailStep ==
  ASSUME ClassIInv, NEW c \in Classes, class[c].pc \in {"fetched", "waiting"},
         class' = [class EXCEPT ![c].pc = "failed"],
         refused \subseteq refused', refused' \subseteq Classes,
         InCircle(c) \/ ({c} \cup Needs(c)) \cap refused' # {},
         UNCHANGED <<requires, built>>
  PROVE  ClassIInv'
<1>1. /\ class'[c].pc = "failed" /\ class'[c].chain = class[c].chain
      /\ \A d \in Classes \ {c} : class'[d] = class[d]
  BY DEF ClassIInv, ClassTypeOK
<1>2. \A d : Needs(d)' = Needs(d)
  BY DEF Needs, HasAllNeeded
<1>3. \A d : InCircle(d)' = InCircle(d)
  BY <1>2 DEF InCircle, OnCircle
<1>4. ClassTypeOK'
  <2>1. class' \in [Classes -> [pc : {"unknown", "fetched", "waiting", "ready", "failed"},
                                chain : Seq(Classes)]]
    BY DEF ClassIInv, ClassTypeOK
  <2>2. QED
    BY <1>1, <2>1 DEF ClassIInv, ClassTypeOK
<1>5. FilesGiven' /\ ChainsTrue'
  BY <1>1, <1>2 DEF ClassIInv, FilesGiven, ChainsTrue
<1>6. BuiltOnce'
  BY <1>1 DEF ClassIInv, BuiltOnce
<1>7. RefusedForCause'
  BY <1>1, <1>2, <1>3 DEF ClassIInv, RefusedForCause, Failed
<1>8. QED
  BY <1>4, <1>5, <1>6, <1>7 DEF ClassIInv

LEMMA CompileStep ==
  ASSUME ClassIInv, NEW c \in Classes, Compile(c)
  PROVE  ClassIInv'
<1> DEFINE asked == IF Circle(c) = 0 THEN ToSet(requires[c])
                    ELSE ToSet(SubSeq(requires[c], 1, Circle(c) - 1))
           after == IF Circle(c) = 0 THEN "waiting" ELSE "failed"
           circular == {i \in 1..Len(requires[c]) : Circular(c, requires[c][i])}
<1>1. /\ class[c].pc = "fetched"
      /\ class' = [d \in Classes |->
           CASE d = c -> [class[c] EXCEPT !.pc = after]
             [] d # c /\ d \in asked \cap NotAskedYet -> Fetched(Chain(d, c))
             [] OTHER -> class[d]]
      /\ UNCHANGED <<requires, built, refused>>
  BY DEF Compile
<1>2. requires[c] \in Seq(Classes) /\ Len(requires[c]) \in Nat
  BY DEF ClassIInv, FilesGiven
<1>3. Circle(c) # 0 => Circle(c) \in circular
  <2>1. circular # {} => \E n \in circular : \A m \in circular : n <= m
    <3>1. circular \in SUBSET Nat
      BY <1>2
    <3>2. QED
      BY <3>1, LeastNumber
  <2>2. QED
    BY <2>1 DEF Circle, Min
<1>4. asked \subseteq ToSet(requires[c])
  <2>1. CASE Circle(c) = 0
    BY <2>1
  <2>2. CASE Circle(c) # 0
    <3>1. Circle(c) \in 1..Len(requires[c])
      BY <1>3, <2>2
    <3>2. Circle(c) - 1 \in 0..Len(requires[c])
      BY <1>2, <3>1
    <3>3. QED
      BY <1>2, <2>2, <3>2, FirstPart
  <2>3. QED
    BY <2>1, <2>2
<1>5. ToSet(requires[c]) \subseteq Classes
  BY <1>2, Membership
<1> HIDE DEF asked
<1>6. /\ class'[c] = [class[c] EXCEPT !.pc = after]
      /\ \A d \in Classes \ {c} :
           \/ /\ d \in asked /\ class[d].pc = "unknown"
              /\ class'[d] = Fetched(Chain(d, c))
           \/ class'[d] = class[d]
  BY <1>1 DEF NotAskedYet
<1>7. /\ class'[c].pc = after /\ class'[c].chain = class[c].chain
      /\ class[c].chain \in Seq(Classes)
  BY <1>6 DEF ClassIInv, ClassTypeOK
<1>8. ASSUME NEW d \in Classes
      PROVE  /\ Chain(d, c) \in Seq(Classes) /\ Head(Chain(d, c)) = d
             /\ ToSet(Chain(d, c)) = {d} \cup ToSet(class[c].chain)
  BY <1>7, Prepended DEF Chain
<1>9. \A d : Needs(d)' = Needs(d)
  BY <1>1 DEF Needs, HasAllNeeded
<1>10. ClassTypeOK'
  <2>1. class' \in [Classes -> [pc : {"unknown", "fetched", "waiting", "ready", "failed"},
                                chain : Seq(Classes)]]
    <3>1. ASSUME NEW d \in Classes
          PROVE  class'[d] \in [pc : {"unknown", "fetched", "waiting", "ready", "failed"},
                                chain : Seq(Classes)]
      <4>1. class[d] \in [pc : {"unknown", "fetched", "waiting", "ready", "failed"},
                          chain : Seq(Classes)]
        BY DEF ClassIInv, ClassTypeOK
      <4>2. CASE d = c
        <5>1. after \in {"waiting", "failed"}
          OBVIOUS
        <5>2. QED
          BY <1>6, <4>1, <4>2, <5>1
      <4>3. CASE d # c
        <5>1. Fetched(Chain(d, c)) \in [pc : {"unknown", "fetched", "waiting", "ready", "failed"},
                                       chain : Seq(Classes)]
          BY <1>8 DEF Fetched
        <5>2. QED
          BY <1>6, <4>1, <4>3, <5>1
      <4>4. QED
        BY <4>2, <4>3
    <3>2. QED
      BY <1>1, <3>1
  <2>2. \A d \in Classes : class'[d].pc # "unknown" => Head(class'[d].chain) = d
    BY <1>1, <1>6, <1>7, <1>8 DEF Fetched, ClassIInv, ClassTypeOK
  <2>3. QED
    BY <1>1, <2>1, <2>2 DEF ClassIInv, ClassTypeOK
<1>11. FilesGiven'
  BY <1>1 DEF ClassIInv, FilesGiven
<1>12. ChainsTrue'
  <2>1. ASSUME NEW d \in Classes \ {c}, d \in asked, class'[d] = Fetched(Chain(d, c)),
               NEW e \in ToSet(class'[d].chain)
        PROVE  e = d \/ d \in Needs(e)
    <3>1. d \in ToSet(requires[c])
      BY <1>4, <2>1
    <3>2. e = d \/ e \in ToSet(class[c].chain)
      BY <1>8, <2>1 DEF Fetched
    <3>3. CASE e \in ToSet(class[c].chain)
      <4>1. e \in Classes /\ (e = c \/ c \in Needs(e))
        BY <1>1, <1>7, <3>3, Membership DEF ClassIInv, ChainsTrue
      <4>2. CASE e = c
        BY <3>1, <4>2, NeedsDirect DEF ClassIInv, FilesGiven
      <4>3. CASE c \in Needs(e)
        BY <3>1, <4>1, <4>3, NeedsOfRequired DEF ClassIInv, FilesGiven
      <4>4. QED
        BY <4>1, <4>2, <4>3
    <3>4. QED
      BY <3>2, <3>3
  <2>2. ASSUME NEW d \in Classes, class'[d].pc # "unknown", NEW e \in ToSet(class'[d].chain)
        PROVE  e = d \/ d \in Needs(e)
    <3>1. CASE d = c
      BY <1>1, <1>7, <2>2, <3>1 DEF ClassIInv, ChainsTrue
    <3>2. CASE d # c /\ class'[d] = class[d]
      BY <2>2, <3>2 DEF ClassIInv, ChainsTrue
    <3>3. CASE d # c /\ class'[d] # class[d]
      BY <1>6, <2>1, <2>2, <3>3
    <3>4. QED
      BY <3>1, <3>2, <3>3
  <2>3. QED
    BY <1>9, <2>2 DEF ChainsTrue
<1>13. BuiltOnce'
  BY <1>1, <1>6, <1>7 DEF ClassIInv, BuiltOnce, Fetched
<1>14. RefusedForCause'
  <2>1. ASSUME Circle(c) # 0
        PROVE  OnCircle(c)
    <3>1. PICK d \in ToSet(requires[c]) : Circular(c, d)
      BY <1>2, <1>3, <2>1, Membership
    <3>2. d \in ToSet(class[c].chain) /\ d \in Classes
      BY <1>5, <1>7, <3>1, Membership DEF Circular
    <3>3. d \in Needs(c)
      BY <3>1, NeedsDirect DEF ClassIInv, FilesGiven
    <3>4. d = c \/ c \in Needs(d)
      BY <1>1, <3>2 DEF ClassIInv, ChainsTrue
    <3>5. QED
      BY <3>3, <3>4, NeedsTransitive DEF OnCircle
  <2>2. \A d : InCircle(d)' = InCircle(d)
    BY <1>9 DEF InCircle, OnCircle
  <2>3. ASSUME NEW d \in Classes, class'[d].pc = "failed"
        PROVE  class[d].pc = "failed" \/ (d = c /\ Circle(c) # 0)
    <3>1. CASE d = c
      BY <1>7, <2>3, <3>1
    <3>2. CASE d # c
      <4>1. class'[d] = class[d] \/ class'[d] = Fetched(Chain(d, c))
        BY <1>6, <3>2
      <4>2. Fetched(Chain(d, c)).pc = "fetched"
        BY DEF Fetched
      <4>3. QED
        BY <2>3, <4>1, <4>2
    <3>3. QED
      BY <3>1, <3>2
  <2>4. QED
    BY <1>1, <1>9, <2>1, <2>2, <2>3 DEF ClassIInv, RefusedForCause, InCircle, Failed
<1>15. QED
  BY <1>10, <1>11, <1>12, <1>13, <1>14 DEF ClassIInv

LEMMA BuiltStep ==
  ASSUME ClassIInv, NEW c \in Classes, class[c].pc = "waiting", AllReady(c),
         class' = [class EXCEPT ![c].pc = "ready"], built' = Append(built, c),
         UNCHANGED <<requires, refused>>
  PROVE  ClassIInv'
<1>1. /\ class'[c].pc = "ready" /\ class'[c].chain = class[c].chain
      /\ \A d \in Classes \ {c} : class'[d] = class[d]
  BY DEF ClassIInv, ClassTypeOK
<1>2. \A d : Needs(d)' = Needs(d)
  BY DEF Needs, HasAllNeeded
<1>3. built \in Seq(Classes) /\ IsInjective(built) /\ c \notin ToSet(built)
  BY DEF ClassIInv, ClassTypeOK, BuiltOnce
<1>4. /\ built' \in Seq(Classes) /\ IsInjective(built')
      /\ ToSet(built') = ToSet(built) \cup {c}
      /\ Len(built') = Len(built) + 1 /\ Len(built) \in Nat
      /\ built'[Len(built) + 1] = c
      /\ \A i \in 1..Len(built) : built'[i] = built[i]
  BY <1>3, Appended
<1>5. ClassTypeOK'
  <2>1. class' \in [Classes -> [pc : {"unknown", "fetched", "waiting", "ready", "failed"},
                                chain : Seq(Classes)]]
    BY DEF ClassIInv, ClassTypeOK
  <2>2. QED
    BY <1>1, <1>4, <2>1 DEF ClassIInv, ClassTypeOK
<1>6. FilesGiven' /\ ChainsTrue'
  BY <1>1, <1>2 DEF ClassIInv, FilesGiven, ChainsTrue
<1>7. BuiltOnce'
  <2>1. \A d \in Classes : d \in ToSet(built') <=> class'[d].pc = "ready"
    BY <1>1, <1>4 DEF ClassIInv, BuiltOnce
  <2>2. ASSUME NEW i \in 1..Len(built'), NEW d \in ToSet(requires[built'[i]])
        PROVE  \E j \in 1..(i - 1) : built'[j] = d
    <3>1. CASE i = Len(built) + 1
      <4>1. d \in ToSet(requires[c])
        BY <1>4, <2>2, <3>1
      <4>2. d \in Classes
        BY <4>1, Membership DEF ClassIInv, FilesGiven
      <4>3. d \in ToSet(built)
        BY <4>1, <4>2 DEF AllReady, ClassIInv, BuiltOnce
      <4>4. PICK j \in 1..Len(built) : built[j] = d
        BY <1>3, <4>3, Membership
      <4>5. QED
        BY <1>4, <3>1, <4>4
    <3>2. CASE i # Len(built) + 1
      <4>1. i \in 1..Len(built) /\ built'[i] = built[i]
        BY <1>4, <2>2, <3>2
      <4>2. PICK j \in 1..(i - 1) : built[j] = d
        BY <2>2, <4>1 DEF ClassIInv, BuiltOnce
      <4>3. QED
        BY <1>4, <4>1, <4>2
    <3>3. QED
      BY <3>1, <3>2
  <2>3. QED
    BY <1>4, <2>1, <2>2 DEF BuiltOnce
<1>8. RefusedForCause'
  <2>1. \A d : InCircle(d)' = InCircle(d)
    BY <1>2 DEF InCircle, OnCircle
  <2>2. QED
    BY <1>1, <1>2, <2>1 DEF ClassIInv, RefusedForCause, Failed
<1>9. QED
  BY <1>5, <1>6, <1>7, <1>8 DEF ClassIInv

LEMMA ClassNextIInv == ClassIInv /\ [ClassNext]_classVars => ClassIInv'
<1> SUFFICES ASSUME ClassIInv, [ClassNext]_classVars PROVE ClassIInv'
  OBVIOUS
<1>1. ASSUME NEW c \in Classes, Require(c) PROVE ClassIInv'
  <2>1. PICK s \in Seq(Classes) : s = <<c>>
    <3>1. <<c>> \in Seq(Classes)
      OBVIOUS
    <3>2. QED
      BY <3>1, Zenon
  <2>2. /\ class[c].pc = "unknown" /\ class'[c] = Fetched(s)
        /\ \A d \in Classes \ {c} : class'[d] = class[d]
        /\ class' = [class EXCEPT ![c] = Fetched(s)]
        /\ Head(s) = c /\ ToSet(s) = {c}
        /\ UNCHANGED <<requires, built, refused>>
    BY <1>1, <2>1 DEF Require, ClassIInv, ClassTypeOK, ToSet
  <2>3. \A d : Needs(d)' = Needs(d)
    BY <2>2 DEF Needs, HasAllNeeded
  <2>4. ClassTypeOK'
    <3>1. class' \in [Classes -> [pc : {"unknown", "fetched", "waiting", "ready", "failed"},
                                  chain : Seq(Classes)]]
      BY <2>2 DEF Fetched, ClassIInv, ClassTypeOK
    <3>2. \A d \in Classes : class'[d].pc # "unknown" => Head(class'[d].chain) = d
      BY <2>2 DEF Fetched, ClassIInv, ClassTypeOK
    <3>3. QED
      BY <2>2, <3>1, <3>2 DEF ClassIInv, ClassTypeOK
  <2>5. FilesGiven' /\ ChainsTrue'
    BY <2>2, <2>3 DEF Fetched, ClassIInv, FilesGiven, ChainsTrue
  <2>6. BuiltOnce'
    BY <2>2 DEF Fetched, ClassIInv, BuiltOnce
  <2>7. RefusedForCause'
    <3>1. \A d : InCircle(d)' = InCircle(d)
      BY <2>3 DEF InCircle, OnCircle
    <3>2. QED
      BY <2>2, <2>3, <3>1 DEF Fetched, ClassIInv, RefusedForCause, Failed
  <2>8. QED
    BY <2>4, <2>5, <2>6, <2>7 DEF ClassIInv
<1>2. ASSUME NEW c \in Classes, FetchFails(c) PROVE ClassIInv'
  BY <1>2, ClassFailStep DEF FetchFails, ClassIInv, ClassTypeOK
<1>3. ASSUME NEW c \in Classes, Compile(c) PROVE ClassIInv'
  BY <1>3, CompileStep
<1>4. ASSUME NEW c \in Classes, Build(c) PROVE ClassIInv'
  <2>1. CASE class' = [class EXCEPT ![c].pc = "ready"] /\ built' = Append(built, c) /\ UNCHANGED refused
    BY <1>4, <2>1, BuiltStep DEF Build
  <2>2. CASE class' = [class EXCEPT ![c].pc = "failed"] /\ refused' = refused \cup {c} /\ UNCHANGED built
    BY <1>4, <2>2, ClassFailStep DEF Build, ClassIInv, ClassTypeOK
  <2>3. QED
    BY <1>4, <2>1, <2>2 DEF Build
<1>5. ASSUME NEW c \in Classes, GiveUp(c) PROVE ClassIInv'
  <2>1. PICK d \in ToSet(requires[c]) : Failed(d)
    BY <1>5 DEF GiveUp, SomeFailed
  <2>2. d \in Needs(c) /\ d \in Classes
    BY <2>1, NeedsDirect DEF ClassIInv, FilesGiven, Needs
  <2>3. Needs(d) \subseteq Needs(c)
    BY <2>2, NeedsTransitive
  <2>4. InCircle(c) \/ ({c} \cup Needs(c)) \cap refused # {}
    BY <2>1, <2>2, <2>3 DEF ClassIInv, RefusedForCause, InCircle
  <2>5. QED
    BY <1>5, <2>4, ClassFailStep DEF GiveUp, ClassIInv, ClassTypeOK
<1>6. CASE UNCHANGED classVars
  <2>1. UNCHANGED <<requires, class, built, refused>>
    BY <1>6 DEF classVars
  <2>2. \A d : Needs(d)' = Needs(d) /\ InCircle(d)' = InCircle(d)
    BY <2>1 DEF Needs, HasAllNeeded, InCircle, OnCircle
  <2>3. QED
    BY <2>1, <2>2 DEF ClassIInv, ClassTypeOK, FilesGiven, ChainsTrue, BuiltOnce, RefusedForCause,
                      Failed
<1>7. QED
  BY <1>1, <1>2, <1>3, <1>4, <1>5, <1>6 DEF ClassNext

LEMMA FirstClasses ==
  ASSUME NEW s \in Seq(Classes), NEW n \in 0..Len(s)
  PROVE  ToSet(SubSeq(s, 1, n)) = {s[j] : j \in 1..n}
BY FirstPart

\* What was built before a class is a set that has all its members need.
LEMMA ClassIInvSound == ClassIInv => ClassSound
<1> SUFFICES ASSUME ClassIInv, NEW i \in 1..Len(built)
             PROVE  Needs(built[i]) \subseteq ToSet(SubSeq(built, 1, i - 1))
  BY DEF ClassIInv, ClassSound, BuiltInOrder, BuiltOnce
<1> DEFINE S == {built[j] : j \in 1..(i - 1)}
<1>1. built \in Seq(Classes) /\ Len(built) \in Nat
  BY DEF ClassIInv, ClassTypeOK
<1>2. S \subseteq Classes /\ S \subseteq ToSet(SubSeq(built, 1, i - 1))
  <2>1. i - 1 \in 0..Len(built) /\ \A j \in 1..(i - 1) : built[j] \in Classes
    BY <1>1
  <2>2. ToSet(SubSeq(built, 1, i - 1)) = S
    <3>1. PICK n \in 0..Len(built) : n = i - 1
      BY <2>1
    <3>2. ToSet(SubSeq(built, 1, n)) = {built[j] : j \in 1..n}
      BY FirstClasses, <1>1
    <3>3. QED
      BY <3>1, <3>2
  <2> HIDE DEF S
  <2>3. S \subseteq Classes
    BY <2>1 DEF S
  <2>4. QED
    BY <2>2, <2>3
<1>3. ToSet(requires[built[i]]) \subseteq S
  BY DEF ClassIInv, BuiltOnce
<1>4. HasAllNeeded(S)
  <2>1. ASSUME NEW j \in 1..(i - 1), NEW d \in ToSet(requires[built[j]])
        PROVE  d \in S
    <3>1. PICK k \in 1..(j - 1) : built[k] = d
      BY <1>1, <2>1 DEF ClassIInv, BuiltOnce
    <3>2. QED
      BY <1>1, <3>1
  <2>2. QED
    BY <2>1 DEF HasAllNeeded
<1>5. QED
  BY <1>2, <1>3, <1>4 DEF Needs

\* Classes are built once, after what they need, and refused for a cause only
\* (luci.js).
THEOREM BuiltAndRefusedForCause == ClassSpec => []ClassSound
BY ClassInitIInv, ClassNextIInv, ClassIInvSound, PTL DEF ClassSpec

-----------------------------------------------------------------------------
(* Calls of overridden methods *)

Frames == [in : 0..(Depth + 1), asks : 0..(Depth + 2), had : BOOLEAN]

SuperTypeOK ==
  /\ defined \in SUBSET (1..Depth) /\ own \in BOOLEAN /\ sound \in BOOLEAN
  /\ stack \in Seq(Frames)
  /\ slot \in Seq(2..Depth)

\* The slot has the classes of the calls by super() that are under way, which
\* are the last ones; each was made by the method below it.
SlotTellsStack ==
  /\ Len(slot) <= Len(stack)
  /\ slot # <<>> => Len(slot) < Len(stack)
  /\ \A i \in 1..Len(slot) :
       /\ stack[i].asks # ByCall /\ stack[i].in = slot[i]
       /\ stack[i].had <=> i < Len(slot)
       /\ own \/ 1 \in defined => stack[i].in = NextAbove(stack[i].asks)
  /\ \A i \in (Len(slot) + 1)..Len(stack) : stack[i].asks = ByCall /\ stack[i].in = Found

SuperIInv == SuperTypeOK /\ (sound => SlotTellsStack)

LEMMA LeastIs ==
  ASSUME NEW S \in SUBSET (1..Depth)
  PROVE  /\ Least(S) \in 1..(Depth + 1)
         /\ Least(S) # Absent => Least(S) \in S
         /\ S # {} => Least(S) \in S /\ \A d \in S : Least(S) <= d
<1>1. CASE S = {}
  BY <1>1, SuperAssumption DEF Least, Absent
<1>2. CASE S # {}
  <2>1. S \in SUBSET Nat
    BY SuperAssumption
  <2>2. \E c \in S : \A d \in S : c <= d
    BY <1>2, <2>1, LeastNumber
  <2>3. Least(S) \in S /\ \A d \in S : Least(S) <= d
    BY <1>2, <2>2 DEF Least
  <2>4. Least(S) \in 1..Depth
    BY <2>3
  <2>5. QED
    BY <2>3, <2>4, SuperAssumption
<1>3. QED
  BY <1>1, <1>2

LEMMA FoundIs ==
  ASSUME SuperTypeOK
  PROVE  /\ Found \in 0..(Depth + 1)
         /\ own \/ 1 \in defined => Found \in 0..1
<1>1. Least(defined) \in 1..(Depth + 1) /\ (1 \in defined => Least(defined) <= 1)
  BY LeastIs DEF SuperTypeOK
<1>2. QED
  BY <1>1, SuperAssumption DEF Found, OwnFunction

LEMMA SuperInitIInv == SuperInit => SuperIInv
<1> SUFFICES ASSUME SuperInit PROVE SuperIInv
  OBVIOUS
<1>1. stack = <<>> /\ slot = <<>> /\ Len(<<>>) = 0
  BY DEF SuperInit
<1>2. SuperTypeOK
  BY DEF SuperInit, SuperTypeOK
<1>3. SlotTellsStack
  BY <1>1 DEF SlotTellsStack
<1>4. QED
  BY <1>2, <1>3 DEF SuperIInv

LEMMA CallMethodStep ==
  ASSUME SuperIInv, CallMethod
  PROVE  SuperIInv'
<1> DEFINE f == Frame(Found, ByCall, FALSE)
<1>1. f \in Frames /\ f.asks = ByCall /\ f.in = Found
  BY FoundIs, SuperAssumption DEF SuperIInv, Frame, Frames, ByCall
<1>2. /\ stack' = <<f>> \o stack /\ sound' = (sound /\ slot = <<>>)
      /\ UNCHANGED <<defined, own, slot>>
  BY DEF CallMethod
<1> HIDE DEF f
<1>3. /\ stack' \in Seq(Frames) /\ Len(stack') = Len(stack) + 1 /\ Len(stack) \in Nat
      /\ stack'[1] = f /\ \A i \in 1..Len(stack) : stack'[i + 1] = stack[i]
  BY <1>1, <1>2, Prepended DEF SuperIInv, SuperTypeOK
<1>4. SuperTypeOK'
  BY <1>2, <1>3 DEF SuperIInv, SuperTypeOK
<1>5. ASSUME sound'
      PROVE  SlotTellsStack'
  <2>1. slot = <<>> /\ Len(slot) = 0 /\ slot' = <<>> /\ Len(slot') = 0 /\ SlotTellsStack
    BY <1>2, <1>5 DEF SuperIInv
  <2>2. Found' = Found
    BY <1>2 DEF Found, Least
  <2>3. ASSUME NEW i \in 1..Len(stack')
        PROVE  stack'[i].asks = ByCall /\ stack'[i].in = Found
    <3>1. CASE i = 1
      BY <1>1, <1>3, <3>1
    <3>2. CASE i # 1
      <4>1. i - 1 \in 1..Len(stack) /\ stack'[i] = stack[i - 1]
        BY <1>3, <2>3, <3>2
      <4>2. QED
        BY <2>1, <4>1 DEF SlotTellsStack
    <3>3. QED
      BY <3>1, <3>2
  <2>4. QED
    BY <1>3, <2>1, <2>2, <2>3 DEF SlotTellsStack
<1>6. QED
  BY <1>4, <1>5 DEF SuperIInv

LEMMA CallSuperStep ==
  ASSUME SuperIInv, CallSuper
  PROVE  SuperIInv'
<1> DEFINE above == {d \in defined : d > StartsAbove(slot)}
           next == Least(above)
           f == Frame(next, Head(stack).in, slot # <<>>)
<1>1. /\ stack # <<>> /\ next # Absent
      /\ stack' = <<f>> \o stack /\ slot' = <<next>> \o slot
      /\ UNCHANGED <<defined, own, sound>>
  BY DEF CallSuper
<1>2. /\ stack \in Seq(Frames) /\ Len(stack) \in Nat /\ Len(stack) > 0
      /\ slot \in Seq(2..Depth) /\ Len(slot) \in Nat
      /\ Head(stack) = stack[1] /\ stack[1] \in Frames
      /\ slot # <<>> => Head(slot) = slot[1] /\ slot[1] \in 2..Depth
      /\ slot # <<>> <=> Len(slot) > 0
  <2>1. stack \in Seq(Frames) /\ slot \in Seq(2..Depth)
    BY DEF SuperIInv, SuperTypeOK
  <2>2. Len(stack) \in Nat /\ Len(stack) > 0 /\ Head(stack) = stack[1] /\ stack[1] \in Frames
    BY <1>1, <2>1
  <2>3. /\ Len(slot) \in Nat
        /\ slot # <<>> => Len(slot) > 0 /\ Head(slot) = slot[1] /\ slot[1] \in 2..Depth
        /\ slot = <<>> => Len(slot) = 0
    <3>1. CASE slot = <<>>
      <4>1. Len(slot) = 0
        BY <3>1, EmptySeq
      <4>2. QED
        BY <3>1, <4>1
    <3>2. CASE slot # <<>>
      <4>1. Len(slot) \in Nat /\ Head(slot) = slot[1]
        BY <2>1, <3>2, Shortened
      <4>2. Len(slot) # 0
        BY <2>1, <3>2, EmptySeq
      <4>3. slot[1] \in 2..Depth
        <5>1. 1 \in 1..Len(slot)
          BY <4>1, <4>2
        <5>2. QED
          BY <2>1, <5>1, ElementOfSeq
      <4>4. QED
        BY <3>2, <4>1, <4>2, <4>3
    <3>3. QED
      BY <3>1, <3>2
  <2>4. QED
    BY <2>1, <2>2, <2>3
<1>3. StartsAbove(slot) = (IF slot = <<>> THEN 1 ELSE slot[1])
  BY <1>2 DEF StartsAbove
<1>4. next \in 2..Depth
  <2>1. above \in SUBSET (1..Depth)
    BY DEF SuperIInv, SuperTypeOK
  <2>2. next \in above
    BY <1>1, <2>1, LeastIs
  <2>3. StartsAbove(slot) >= 1 /\ StartsAbove(slot) \in Nat
    BY <1>2, <1>3, SuperAssumption
  <2>4. next \in 1..Depth /\ next > StartsAbove(slot)
    BY <2>1, <2>2
  <2> HIDE DEF next
  <2>5. QED
    BY <2>3, <2>4, SuperAssumption
<1>5. f \in Frames /\ f.in = next /\ f.asks = stack[1].in /\ (f.had <=> slot # <<>>) /\ f.asks # ByCall
  <2>1. stack[1].in \in 0..(Depth + 1)
    BY <1>2 DEF Frames
  <2>2. PICK had \in BOOLEAN : had = (slot # <<>>)
    OBVIOUS
  <2>3. f = [in |-> next, asks |-> stack[1].in, had |-> had]
    BY <1>2, <2>2 DEF Frame
  <2> HIDE DEF f, next
  <2>4. f.in = next /\ f.asks = stack[1].in /\ f.had = had
    BY <2>3
  <2>5. next \in 0..(Depth + 1) /\ f.asks \in 0..(Depth + 2) /\ f.asks # Depth + 2
    BY <1>4, <2>1, <2>4, SuperAssumption
  <2>6. f \in Frames
    BY <2>3, <2>4, <2>5 DEF Frames
  <2>7. QED
    BY <2>2, <2>4, <2>5, <2>6 DEF ByCall
<1>6. own \/ 1 \in defined => (sound => next = NextAbove(f.asks))
  <2> SUFFICES ASSUME own \/ 1 \in defined, sound
               PROVE  above = {d \in defined : d > f.asks /\ d > 1}
    BY DEF NextAbove
  <2>1. CASE slot = <<>>
    <3>1. stack[1].in = Found
      BY <1>2, <2>1 DEF SuperIInv, SlotTellsStack
    <3>2. f.asks \in 0..1
      BY <1>5, <3>1, FoundIs DEF SuperIInv
    <3>3. \A d \in defined : d \in Nat
      BY DEF SuperIInv, SuperTypeOK
    <3> HIDE DEF f
    <3>4. \A d \in defined : d > StartsAbove(slot) <=> d > f.asks /\ d > 1
      BY <1>3, <2>1, <3>2, <3>3
    <3>5. QED
      BY <3>4
  <2>2. CASE slot # <<>>
    <3>1. stack[1].in = slot[1]
      BY <1>2, <2>2 DEF SuperIInv, SlotTellsStack
    <3>2. \A d \in defined : d \in Nat
      BY DEF SuperIInv, SuperTypeOK
    <3>3. StartsAbove(slot) = f.asks /\ f.asks \in 2..Depth
      BY <1>2, <1>3, <1>5, <2>2, <3>1
    <3> HIDE DEF f
    <3>4. \A d \in defined : d > StartsAbove(slot) <=> d > f.asks /\ d > 1
      BY <3>2, <3>3, SuperAssumption
    <3>5. QED
      BY <3>4
  <2>3. QED
    BY <2>1, <2>2
<1> HIDE DEF next, f
<1>7. /\ stack' \in Seq(Frames) /\ Len(stack') = Len(stack) + 1
      /\ stack'[1] = f /\ \A i \in 1..Len(stack) : stack'[i + 1] = stack[i]
  BY <1>1, <1>2, <1>5, Prepended
<1>8. /\ slot' \in Seq(2..Depth) /\ Len(slot') = Len(slot) + 1 /\ slot' # <<>>
      /\ slot'[1] = next /\ \A i \in 1..Len(slot) : slot'[i + 1] = slot[i]
  <2>1. /\ slot' \in Seq(2..Depth) /\ Len(slot') = Len(slot) + 1
        /\ slot'[1] = next /\ \A i \in 1..Len(slot) : slot'[i + 1] = slot[i]
    BY <1>1, <1>2, <1>4, Prepended
  <2>2. QED
    BY <1>2, <2>1
<1>9. SuperTypeOK'
  BY <1>1, <1>7, <1>8 DEF SuperIInv, SuperTypeOK
<1>10. ASSUME sound'
       PROVE  SlotTellsStack'
  <2>1. SlotTellsStack /\ sound /\ Len(slot) <= Len(stack)
    BY <1>1, <1>10 DEF SuperIInv, SlotTellsStack
  <2>2. Found' = Found /\ \A c : NextAbove(c)' = NextAbove(c)
    BY <1>1 DEF Found, NextAbove, Least
  <2>3. ASSUME NEW i \in 1..Len(slot')
        PROVE  /\ stack'[i].asks # ByCall /\ stack'[i].in = slot'[i]
               /\ stack'[i].had <=> i < Len(slot')
               /\ own \/ 1 \in defined => stack'[i].in = NextAbove(stack'[i].asks)
    <3>1. CASE i = 1
      BY <1>2, <1>5, <1>6, <1>7, <1>8, <2>1, <3>1
    <3>2. CASE i # 1
      <4>1. /\ i - 1 \in 1..Len(slot) /\ slot'[i] = slot[i - 1]
            /\ i - 1 \in 1..Len(stack) /\ stack'[i] = stack[i - 1]
        <5>1. i \in 2..(Len(slot) + 1)
          BY <1>2, <1>8, <2>3, <3>2
        <5>2. i - 1 \in 1..Len(slot) /\ i - 1 \in 1..Len(stack) /\ (i - 1) + 1 = i
          BY <1>2, <2>1, <5>1
        <5>3. QED
          BY <1>7, <1>8, <5>2
      <4>2. i < Len(slot') <=> i - 1 < Len(slot)
        BY <1>2, <1>8
      <4>3. QED
        BY <2>1, <4>1, <4>2 DEF SlotTellsStack
    <3>3. QED
      BY <3>1, <3>2
  <2>4. ASSUME NEW i \in (Len(slot') + 1)..Len(stack')
        PROVE  stack'[i].asks = ByCall /\ stack'[i].in = Found
    <3>1. i - 1 \in (Len(slot) + 1)..Len(stack) /\ stack'[i] = stack[i - 1]
      BY <1>2, <1>7, <1>8, <2>4
    <3>2. QED
      BY <2>1, <3>1 DEF SlotTellsStack
  <2>5. Len(slot') < Len(stack')
    BY <1>2, <1>7, <1>8, <2>1 DEF SlotTellsStack
  <2>6. QED
    BY <1>1, <1>2, <1>7, <1>8, <2>2, <2>3, <2>4, <2>5 DEF SlotTellsStack
<1>11. QED
  BY <1>9, <1>10 DEF SuperIInv

\* Some calls end; as long as all is sound none of them was made by super(),
\* or it is the last one that ends alone.
LEMMA CallsEnd ==
  ASSUME SuperIInv, NEW n \in 1..Len(stack), stack' = SubSeq(stack, n + 1, Len(stack)),
         UNCHANGED <<defined, own>>,
         slot' \in Seq(2..Depth), sound' \in BOOLEAN,
         sound' => /\ sound
                   /\ \/ slot = <<>> /\ slot' = <<>>
                      \/ slot # <<>> /\ n = 1 /\ slot' = Tail(slot)
  PROVE  SuperIInv'
<1>1. /\ stack \in Seq(Frames) /\ Len(stack) \in Nat /\ n \in Nat /\ n >= 1 /\ n <= Len(stack)
      /\ slot \in Seq(2..Depth) /\ Len(slot) \in Nat
  BY DEF SuperIInv, SuperTypeOK
<1>2. /\ stack' \in Seq(Frames) /\ Len(stack') = Len(stack) - n
      /\ \A i \in 1..(Len(stack) - n) : stack'[i] = stack[i + n]
  BY <1>1
<1>3. SuperTypeOK'
  BY <1>2 DEF SuperIInv, SuperTypeOK
<1>4. ASSUME sound'
      PROVE  SlotTellsStack'
  <2>1. SlotTellsStack /\ Len(slot) <= Len(stack) /\ (slot # <<>> => Len(slot) < Len(stack))
    BY <1>4 DEF SuperIInv, SlotTellsStack
  <2>2. Found' = Found /\ \A c : NextAbove(c)' = NextAbove(c)
    BY DEF Found, NextAbove, Least
  <2>3. CASE slot = <<>> /\ slot' = <<>>
    <3>1. Len(slot) = 0 /\ Len(slot') = 0
      BY <2>3
    <3>2. ASSUME NEW i \in 1..Len(stack')
          PROVE  stack'[i].asks = ByCall /\ stack'[i].in = Found
      <4>1. i + n \in 1..Len(stack) /\ stack'[i] = stack[i + n]
        BY <1>1, <1>2, <3>2
      <4>2. QED
        BY <2>1, <3>1, <4>1 DEF SlotTellsStack
    <3>3. Len(stack') \in Nat
      BY <1>2
    <3>4. /\ Len(slot') <= Len(stack') /\ 1..Len(slot') = {}
          /\ (Len(slot') + 1)..Len(stack') = 1..Len(stack')
      BY <3>1, <3>3
    <3>5. QED
      BY <2>2, <2>3, <3>2, <3>4 DEF SlotTellsStack
  <2>4. CASE slot # <<>> /\ n = 1 /\ slot' = Tail(slot)
    <3>1. /\ Len(slot') = Len(slot) - 1 /\ Len(slot) > 0
          /\ \A i \in 1..(Len(slot) - 1) : slot'[i] = slot[i + 1]
      BY <1>1, <2>4, Shortened
    <3>2. ASSUME NEW i \in 1..Len(slot')
          PROVE  /\ stack'[i].asks # ByCall /\ stack'[i].in = slot'[i]
                 /\ stack'[i].had <=> i < Len(slot')
                 /\ own \/ 1 \in defined => stack'[i].in = NextAbove(stack'[i].asks)
      <4>1. /\ i + 1 \in 1..Len(slot) /\ slot'[i] = slot[i + 1] /\ stack'[i] = stack[i + 1]
            /\ i < Len(slot') <=> i + 1 < Len(slot)
        BY <1>1, <1>2, <2>1, <2>4, <3>1, <3>2
      <4>2. QED
        BY <2>1, <4>1 DEF SlotTellsStack
    <3>3. ASSUME NEW i \in (Len(slot') + 1)..Len(stack')
          PROVE  stack'[i].asks = ByCall /\ stack'[i].in = Found
      <4>1. i + 1 \in (Len(slot) + 1)..Len(stack) /\ stack'[i] = stack[i + 1]
        BY <1>1, <1>2, <2>4, <3>1, <3>3
      <4>2. QED
        BY <2>1, <4>1 DEF SlotTellsStack
    <3>4. Len(slot') < Len(stack')
      BY <1>1, <1>2, <2>1, <2>4, <3>1
    <3>5. QED
      BY <1>1, <1>2, <2>2, <3>1, <3>2, <3>3, <3>4 DEF SlotTellsStack
  <2>5. QED
    BY <1>4, <2>3, <2>4
<1>5. QED
  BY <1>3, <1>4 DEF SuperIInv

LEMMA ReturnStep ==
  ASSUME SuperIInv, Return
  PROVE  SuperIInv'
<1>1. /\ stack # <<>> /\ stack' = Tail(stack)
      /\ slot' = IF Head(stack).asks = ByCall THEN slot
                 ELSE IF Head(stack).had /\ Len(slot) > 1 THEN Tail(slot) ELSE <<>>
      /\ UNCHANGED <<defined, own, sound>>
  BY DEF Return
<1>2. /\ stack \in Seq(Frames) /\ Len(stack) \in Nat /\ Head(stack) = stack[1] /\ 1 \in 1..Len(stack)
      /\ slot \in Seq(2..Depth) /\ Len(slot) \in Nat /\ sound \in BOOLEAN
  BY <1>1 DEF SuperIInv, SuperTypeOK
<1>3. stack' = SubSeq(stack, 1 + 1, Len(stack))
  BY <1>1, <1>2
<1>4. slot' \in Seq(2..Depth)
  <2>1. Len(slot) > 1 => Tail(slot) \in Seq(2..Depth)
    BY <1>2
  <2>2. <<>> \in Seq(2..Depth)
    OBVIOUS
  <2>3. QED
    BY <1>1, <1>2, <2>1, <2>2
<1>5. ASSUME sound
      PROVE  \/ slot = <<>> /\ slot' = <<>>
             \/ slot # <<>> /\ slot' = Tail(slot)
  <2>1. SlotTellsStack
    BY <1>5 DEF SuperIInv
  <2>2. CASE slot = <<>>
    <3>1. 1 \in (Len(slot) + 1)..Len(stack)
      BY <1>2, <2>2
    <3>2. stack[1].asks = ByCall
      BY <2>1, <3>1 DEF SlotTellsStack
    <3>3. QED
      BY <1>1, <1>2, <2>2, <3>2
  <2>3. CASE slot # <<>>
    <3>1. 1 \in 1..Len(slot)
      BY <1>2, <2>3
    <3>2. stack[1].asks # ByCall /\ (stack[1].had <=> 1 < Len(slot))
      BY <2>1, <3>1 DEF SlotTellsStack
    <3>3. Len(slot) = 1 => Tail(slot) = <<>>
      <4>1. Tail(slot) \in Seq(2..Depth) /\ Len(Tail(slot)) = Len(slot) - 1
        BY <1>2, <2>3, Shortened
      <4>2. Len(Tail(slot)) = 0 => Tail(slot) = <<>>
        BY <4>1, EmptySeq
      <4>3. QED
        BY <1>2, <4>1, <4>2
    <3>4. QED
      BY <1>1, <1>2, <2>3, <3>1, <3>2, <3>3
  <2>4. QED
    BY <2>2, <2>3
<1>6. QED
  BY <1>1, <1>2, <1>3, <1>4, <1>5, CallsEnd

LEMMA ThrowStep ==
  ASSUME SuperIInv, Throw
  PROVE  SuperIInv'
<1>1. PICK n \in 1..Len(stack) :
        /\ stack' = SubSeq(stack, n + 1, Len(stack))
        /\ sound' = (sound /\ \A i \in 1..n : stack[i].asks = ByCall)
        /\ UNCHANGED <<defined, own, slot>>
  BY DEF Throw
<1>2. /\ Len(stack) \in Nat /\ sound \in BOOLEAN
      /\ slot \in Seq(2..Depth) /\ Len(slot) \in Nat
  BY DEF SuperIInv, SuperTypeOK
<1>3. ASSUME sound'
      PROVE  sound /\ slot = <<>> /\ slot' = <<>>
  <2>1. sound /\ SlotTellsStack /\ stack[1].asks = ByCall
    <3>1. sound /\ \A i \in 1..n : stack[i].asks = ByCall
      BY <1>1, <1>3, Zenon
    <3>2. 1 \in 1..n
      BY <1>2
    <3>3. QED
      BY <3>1, <3>2 DEF SuperIInv
  <2>2. 1 \notin 1..Len(slot)
    BY <2>1 DEF SlotTellsStack
  <2>3. QED
    BY <1>1, <1>2, <2>1, <2>2
<1>4. QED
  BY <1>1, <1>2, <1>3, CallsEnd

LEMMA SuperNextIInv == SuperIInv /\ [SuperNext]_superVars => SuperIInv'
<1> SUFFICES ASSUME SuperIInv, [SuperNext]_superVars PROVE SuperIInv'
  OBVIOUS
<1>1. CASE UNCHANGED superVars
  <2>1. UNCHANGED <<defined, own, stack, slot, sound>>
    BY <1>1 DEF superVars
  <2>2. SuperTypeOK'
    BY <2>1 DEF SuperIInv, SuperTypeOK
  <2>3. SlotTellsStack' = SlotTellsStack
    BY <2>1 DEF SlotTellsStack, Found, NextAbove, Least
  <2>4. QED
    BY <2>1, <2>2, <2>3 DEF SuperIInv
<1>2. QED
  BY <1>1, CallMethodStep, CallSuperStep, ReturnStep, ThrowStep DEF SuperNext

LEMMA SuperIInvSound == SuperIInv => SuperReachesNext
<1> SUFFICES ASSUME SuperIInv, sound PROVE SuperReachesNext
  BY DEF SuperReachesNext
<1>1. /\ SlotTellsStack /\ Len(slot) <= Len(stack)
      /\ stack \in Seq(Frames) /\ Len(stack) \in Nat /\ slot \in Seq(2..Depth) /\ Len(slot) \in Nat
  BY DEF SuperIInv, SuperTypeOK, SlotTellsStack
<1>2. ASSUME NEW i \in DOMAIN stack, own \/ 1 \in defined, stack[i].asks # ByCall
      PROVE  stack[i].in = NextAbove(stack[i].asks)
  <2>1. i \in 1..Len(slot) \/ i \in (Len(slot) + 1)..Len(stack)
    BY <1>1
  <2>2. QED
    BY <1>1, <1>2, <2>1 DEF SlotTellsStack
<1>3. stack = <<>> => slot = <<>>
  BY <1>1
<1>4. QED
  BY <1>2, <1>3 DEF SuperReachesNext

\* A call by super() runs the next definition above that of its caller, as long
\* as no exception passed one and the method was not called anew within it.
THEOREM SuperFindsNext == SuperSpec => []SuperReachesNext
BY SuperInitIInv, SuperNextIInv, SuperIInvSound, PTL DEF SuperSpec

-----------------------------------------------------------------------------
(* The page *)

\* A step of one part keeps the others as they are.
PageIInv == IInv /\ PollIInv /\ NetIInv /\ ClassIInv /\ SuperIInv

LEMMA PageInitIInv == PageInit => PageIInv
BY InitIInv, PollInitIInv, NetInitIInv, ClassInitIInv, SuperInitIInv DEF PageInit, PageIInv

LEMMA PageNextIInv == PageIInv /\ [PageNext]_pageVars => PageIInv'
<1> SUFFICES ASSUME PageIInv, [PageNext]_pageVars PROVE PageIInv'
  OBVIOUS
<1>1. /\ [Next]_vars /\ [PollNext]_pollVars /\ [NetNext]_netVars
      /\ [ClassNext]_classVars /\ [SuperNext]_superVars
  BY DEF PageNext, pageVars
<1>2. QED
  BY <1>1, NextIInv, PollNextIInv, NetNextIInv, ClassNextIInv, SuperNextIInv DEF PageIInv

LEMMA PageIInvSound == PageIInv => CallsSound /\ PollSound /\ NetSound /\ ClassesSound
BY IInvSound, PollIInvSound, NetIInvSound, ClassIInvSound, SuperIInvSound
   DEF PageIInv, ClassesSound

LEMMA PageAlways == PageSpec => []PageIInv
BY PageInitIInv, PageNextIInv, PTL DEF PageSpec

\* On a page that runs all its parts each call gets its own reply, is carried out
\* at most once and in the order of its turn: luci.js, rpc.js.
THEOREM PageCallsSound == PageSpec => []CallsSound
BY PageAlways, PageIInvSound, PTL

\* A polled function is not called again before it ended, and the timer, the queue
\* and the header agree: Poll of luci.js.
THEOREM PagePollSound == PageSpec => []PollSound
BY PageAlways, PageIInvSound, PTL

\* Nobody is told a network state older than the page knew when it was asked for:
\* initNetworkState() of network.js.
THEOREM PageNetSound == PageSpec => []NetSound
BY PageAlways, PageIInvSound, PTL

\* Classes are built once, after those they need, and refused for a cause; super()
\* calls the method of the next class above: require() and Class of luci.js.
THEOREM PageClassesSound == PageSpec => []ClassesSound
BY PageAlways, PageIInvSound, PTL
=============================================================================
