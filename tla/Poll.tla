-------------------------------- MODULE Poll --------------------------------
(***************************************************************************)
(* The polling loop of a page: Poll of luci.js, the functions registered   *)
(* with it, and those who start and stop it: the page when it is loaded,   *)
(* the indicator the user clicks, the status dialogs of "Save & Apply",    *)
(* the dialog of a wireless scan and the end of the login session.         *)
(*                                                                         *)
(* A function starts a request and returns a promise; its entry is not     *)
(* called again before the promise is settled.  A function that throws     *)
(* instead ends the round.                                                 *)
(***************************************************************************)
EXTENDS Naturals, SequencesExt

CONSTANTS PageFns,  \* functions the page registers while it is rendered
          Scan,     \* the function of the scan dialog
          Throws,   \* functions that may throw
          Interval, \* seconds between two calls of a function
          Wrap      \* the tick counts modulo 2^32; here a small number

ASSUME PollAssumption == /\ Scan \notin PageFns /\ Wrap \in Nat
                         /\ Throws \subseteq PageFns
                         /\ \A f \in PageFns \cup {Scan} : Interval[f] \in 1..(Wrap - 1)

VARIABLES
  entries,    \* Poll.queue: functions, and whether they may be called (r)
  timer,      \* is there an interval timer?
  tick,
  calls,      \* the calls of an entry that are pending
  orphans,    \* functions of removed entries with a call still pending
  indicator,  \* what the header says
  modal,     \* the modal dialog on show
  hideDue,    \* will a timer hide the status dialog?
  wasPolling, \* ui.changes.was_polling
  loaded      \* has initDOM() run?

pollVars == <<entries, timer, tick, calls, orphans, indicator, modal, hideDue, wasPolling, loaded>>

Fns == PageFns \cup {Scan}
Deleted == Wrap \* there is no property "tick"
Entry(f) == [fn |-> f, r |-> TRUE]
Registered == {entries[i].fn : i \in 1..Len(entries)}
EntryOf(f) == SelectInSeq(entries, LAMBDA e : e.fn = f)

PollInit == /\ entries = <<>>
            /\ timer = FALSE
            /\ tick = Deleted
            /\ calls = [f \in Fns |-> 0]
            /\ orphans = {}
            /\ indicator = "none"
            /\ modal = "none"
            /\ hideDue = FALSE
            /\ wasPolling = FALSE
            /\ loaded = FALSE

\* One round over the queue q at tick n: the entries due are called in turn,
\* up to the first that throws; then its r is never set again and the tick
\* does not move on.
Due(q, n, i) == n % Interval[q[i].fn] = 0 /\ q[i].r

\* The entries "due" are called; the one numbered t throws.
Called(q, t, due) ==
  /\ entries' = [i \in 1..Len(q) |-> IF i \in due THEN [q[i] EXCEPT !.r = FALSE] ELSE q[i]]
  /\ calls' = [f \in Fns |-> IF \E i \in due : q[i].fn = f /\ i # t THEN calls[f] + 1 ELSE calls[f]]

WholeRound(q, n) ==
  /\ Called(q, 0, {i \in 1..Len(q) : Due(q, n, i)})
  /\ tick' = (n + 1) % Wrap

BrokenRound(q, n) ==
  \E k \in 1..Len(q) : /\ Due(q, n, k) /\ q[k].fn \in Throws
                       /\ Called(q, k, {i \in 1..k : Due(q, n, i)})
                       /\ tick' = n

\* start() makes the first round before it tells the header.
Started(q) ==
  \/ /\ timer
     /\ entries' = q
     /\ UNCHANGED <<timer, tick, calls, indicator>>
  \/ /\ ~timer /\ q = <<>>
     /\ entries' = q /\ tick' = 0
     /\ UNCHANGED <<timer, calls, indicator>>
  \/ /\ ~timer /\ q # <<>> /\ timer' = TRUE
     /\ \/ WholeRound(q, 0) /\ indicator' = "refreshing"
        \/ BrokenRound(q, 0) /\ UNCHANGED indicator

KeepingTick == timer' = FALSE /\ indicator' = "paused" /\ UNCHANGED tick \* mutant
SilentlyStopped == timer' = FALSE /\ tick' = Deleted /\ UNCHANGED indicator \* mutant
Stopped == IF timer THEN timer' = FALSE /\ tick' = Deleted /\ indicator' = "paused"
           ELSE UNCHANGED <<timer, tick, indicator>>

NeverKnown(f) == FALSE \* mutant
Known(f) == f \in Registered

\* A new entry starts the loop, but not one that was stopped by stop().
Added(f) ==
  IF ~Known(f) /\ tick # Deleted THEN Started(Append(entries, Entry(f)))
  ELSE /\ entries' = IF Known(f) THEN entries ELSE Append(entries, Entry(f))
       /\ UNCHANGED <<timer, tick, calls, indicator>>

\* The pending call of a removed entry goes on.  A function has one entry at most.
Removed(f) ==
  LET rest == IF f \in Registered THEN RemoveAt(entries, EntryOf(f)) ELSE entries IN
  /\ entries' = rest
  /\ calls[f] > 0 => f \notin orphans \* bound: one orphan of a function
  /\ orphans' = IF calls[f] > 0 THEN orphans \cup {f} ELSE orphans
  /\ calls' = [calls EXCEPT ![f] = 0]
  /\ IF rest = <<>> /\ timer THEN timer' = FALSE /\ tick' = 0 /\ indicator' = "paused"
     ELSE UNCHANGED <<timer, tick, indicator>>

-----------------------------------------------------------------------------
(* The page and the loop *)

PageAdds(f) ==
  /\ f \in PageFns
  /\ Added(f)
  /\ UNCHANGED <<orphans, modal, hideDue, wasPolling, loaded>>

\* initDOM().
Loaded ==
  /\ ~loaded /\ loaded' = TRUE
  /\ Started(entries)
  /\ UNCHANGED <<orphans, modal, hideDue, wasPolling>>

Step ==
  /\ timer
  /\ WholeRound(entries, tick) \/ BrokenRound(entries, tick)
  /\ UNCHANGED <<timer, orphans, indicator, modal, hideDue, wasPolling, loaded>>

\* The promise of a call is settled, one way or the other.
Rearmed(f) == [entries EXCEPT ![EntryOf(f)].r = TRUE]
NeverRearmed(f) == entries \* mutant

Settled(f) ==
  /\ calls[f] > 0
  /\ calls' = [calls EXCEPT ![f] = @ - 1]
  /\ entries' = Rearmed(f)
  /\ UNCHANGED <<timer, tick, orphans, indicator, modal, hideDue, wasPolling, loaded>>

\* Its callback holds the entry, which the queue no longer has.
ByName(f) == IF f \in Registered THEN Rearmed(f) ELSE entries \* mutant
ByEntry(f) == entries

OrphanSettled(f) ==
  /\ f \in orphans
  /\ orphans' = orphans \ {f}
  /\ entries' = ByEntry(f)
  /\ UNCHANGED <<timer, tick, calls, indicator, modal, hideDue, wasPolling, loaded>>

-----------------------------------------------------------------------------
(* Those who start and stop it *)

\* The indicator can be clicked once it is there, but not under a dialog.
Clicked ==
  /\ indicator # "none" /\ modal = "none"
  /\ IF timer THEN Stopped /\ UNCHANGED <<entries, calls>> ELSE Started(entries)
  /\ UNCHANGED <<orphans, modal, hideDue, wasPolling, loaded>>

\* displayStatus() with a text: was_polling, once set, stays.  Some texts are
\* taken away by a timer, whatever dialog is on show then.
StatusShown ==
  /\ loaded /\ modal \in {"none", "status"} /\ ~hideDue
  /\ modal' = "status"
  /\ hideDue' \in BOOLEAN
  /\ IF wasPolling THEN UNCHANGED <<timer, tick, indicator, wasPolling>>
     ELSE wasPolling' = timer /\ Stopped
  /\ UNCHANGED <<entries, calls, orphans, loaded>>

StatusHidden ==
  /\ modal = "status" \/ hideDue
  /\ modal' = "none"
  /\ hideDue' = FALSE
  /\ IF wasPolling THEN Started(entries) ELSE UNCHANGED <<entries, timer, tick, calls, indicator>>
  /\ UNCHANGED <<orphans, wasPolling, loaded>>

\* The dialog of a wireless scan, and its button "Stop refresh" or "Start
\* refresh".
ScanOpened ==
  /\ loaded /\ modal = "none" /\ Scan \notin Registered
  /\ modal' = "scan"
  /\ Started(Append(entries, Entry(Scan)))
  /\ UNCHANGED <<orphans, hideDue, wasPolling, loaded>>

ScanButton ==
  /\ modal = "scan"
  /\ \/ Scan \in Registered /\ Removed(Scan)
     \/ Scan \notin Registered /\ Added(Scan) /\ UNCHANGED orphans
  /\ UNCHANGED <<modal, hideDue, wasPolling, loaded>>

ScanDismissed ==
  /\ modal = "scan"
  /\ modal' = "none"
  /\ Removed(Scan)
  /\ UNCHANGED <<hideDue, wasPolling, loaded>>

\* notifySessionExpiry(): its dialog takes the place of any other.
Expired ==
  /\ loaded /\ modal # "expired"
  /\ modal' = "expired"
  /\ Stopped
  /\ UNCHANGED <<entries, calls, orphans, hideDue, wasPolling, loaded>>

PollNext ==
  \/ \E f \in PageFns : PageAdds(f)
  \/ \E f \in Fns : Settled(f) \/ OrphanSettled(f)
  \/ Loaded \/ Step \/ Clicked
  \/ StatusShown \/ StatusHidden
  \/ ScanOpened \/ ScanButton \/ ScanDismissed
  \/ Expired

PollSpec == PollInit /\ [][PollNext]_pollVars

\* The timer ticks, and the requests made by a function end (RpcBatch).
PollFairness ==
  /\ WF_pollVars(Step)
  /\ \A f \in Fns : WF_pollVars(Settled(f)) /\ WF_pollVars(OrphanSettled(f))

PollFairSpec == PollSpec /\ PollFairness

-----------------------------------------------------------------------------
(* Properties *)

PollTypeOK ==
  /\ entries \in Seq([fn : Fns, r : BOOLEAN])
  /\ IsInjective([i \in 1..Len(entries) |-> entries[i].fn])
  /\ timer \in BOOLEAN /\ hideDue \in BOOLEAN /\ loaded \in BOOLEAN /\ wasPolling \in BOOLEAN
  /\ tick \in 0..Wrap
  /\ calls \in [Fns -> Nat]
  /\ orphans \subseteq Fns
  /\ indicator \in {"none", "refreshing", "paused"}
  /\ modal \in {"none", "status", "scan", "expired"}

\* A registered function has at most one call pending, also after it was
\* removed during a call and registered again (the scan dialog does so).
NoOverlap ==
  \A i \in 1..Len(entries) :
    calls[entries[i].fn] <= 1 /\ (entries[i].r => calls[entries[i].fn] = 0)

\* The timer and the tick belong together, and a running timer has something
\* to call: start() and stop() would do nothing, or too much, otherwise.
TimerUsed == /\ timer => tick # Deleted /\ entries # <<>>
             /\ entries # <<>> /\ tick # Deleted => timer

\* The header does not say that a page refreshes itself when it does not.
IndicatorTrue == indicator = "refreshing" => timer

\* While the loop runs a registered function is called again and again,
\* though another one throws, and however often the loop is started anew.
Polled ==
  \A f \in Fns \ Throws :
    timer /\ f \in Registered ~> calls[f] > 0 \/ ~timer \/ f \notin Registered

\* The loop, its entries and the header agree, whoever starts and stops it.
PollSound == PollTypeOK /\ NoOverlap /\ TimerUsed /\ IndicatorTrue
=============================================================================
