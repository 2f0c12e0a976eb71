-------------------------------- MODULE Bwc --------------------------------
(***************************************************************************)
(* Samples for the realtime graphs (luci-bwc): the first process that      *)
(* wants to dump a database starts a daemon, which writes a sample a       *)
(* second into the database, a file of fixed size whose oldest entry is    *)
(* shifted out, and ends when nobody has dumped for a while.  The page     *)
(* asks for a dump every few seconds and appends what is new to its graph. *)
(* The processes share the database and the file with the daemon's number, *)
(* without locks.  A sample is told by its time; 0 is an empty entry.      *)
(***************************************************************************)
EXTENDS Integers, SequencesExt

CONSTANTS Daemons,   \* process numbers
          Pages,     \* pages that show a graph
          Slots,     \* STEP_COUNT: entries of a database
          Patience,  \* TIMEOUT: rounds without a dump after which a daemon ends
          MaxTime,   \* bound: the time
          MaxDumps   \* bound: dumps a page asks for

ASSUME BwcAssumption == /\ Slots \in Nat \ {0} /\ Patience \in Nat
                        /\ {"none", "empty"} \cap Daemons = {}

VARIABLES
  clock,     \* time()
  pidfile,   \* the file with the daemon's number: its contents
  daemon,    \* the daemons
  database,  \* the entries of the file
  dump,      \* the process that dumps for a page
  graph,     \* the page's graph: the times of its samples, the last one seen
  overlapped \* history: were there two daemons at a time?

bwcVars == <<clock, pidfile, daemon, database, dump, graph, overlapped>>

NoFile == <<-1>>
Unused == [at |-> "unused", handler |-> FALSE, countdown |-> 0, entry |-> 0, slot |-> 0]
NoDump == [at |-> "idle", pid |-> "none", printed |-> <<>>, slot |-> 0,
           latest |-> 0, left |-> MaxDumps]

BwcInit ==
  /\ clock = 1
  /\ pidfile = "none"
  /\ daemon = [d \in Daemons |-> Unused]
  /\ database = NoFile
  /\ dump = [p \in Pages |-> NoDump]
  /\ graph = [p \in Pages |-> [times |-> <<>>, timestamp |-> 0]]
  /\ overlapped = FALSE

Serving == {d \in Daemons : daemon[d].at \notin {"unused", "exited", "killed"}}

\* A daemon at "from" takes its next step and is "q" then.
Step(d, from, q) == daemon[d].at = from /\ daemon' = [daemon EXCEPT ![d] = q]
Goes(d, from, to) == Step(d, from, [daemon[d] EXCEPT !.at = to])

-----------------------------------------------------------------------------
(* The daemon: run_daemon() *)

SetHandler(d) ==
  /\ Step(d, "forked", [daemon[d] EXCEPT !.at = "handler", !.handler = TRUE])
  /\ UNCHANGED <<clock, pidfile, database, dump, graph, overlapped>>

BeforeHandler == "forked" \* mutant
AfterHandler == "handler"

\* writepid(): the file is emptied, then written.
EmptyPid(d) ==
  /\ Goes(d, AfterHandler, "publish")
  /\ pidfile' = "empty"
  /\ UNCHANGED <<clock, database, dump, graph, overlapped>>

WritePid(d) ==
  /\ Step(d, "publish", [daemon[d] EXCEPT !.at = "sample", !.countdown = Patience])
  /\ pidfile' = d
  /\ UNCHANGED <<clock, database, dump, graph, overlapped>>

\* init_file(): the file is created empty, and filled with empty entries.
CreateFile(d) ==
  /\ database = NoFile
  /\ Goes(d, "sample", "fill")
  /\ database' = <<>>
  /\ UNCHANGED <<clock, pidfile, dump, graph, overlapped>>

FillFile(d) ==
  /\ database' = [i \in 1..Slots |-> 0]
  /\ Goes(d, "fill", "sample")
  /\ UNCHANGED <<clock, pidfile, dump, graph, overlapped>>

AnyTime(time) == TRUE \* mutant
Newer(time) == time > database[Slots]

\* update_file(): what is not newer than the last entry is dropped.
CheckEntry(d) ==
  /\ database # NoFile /\ Len(database) = Slots
  /\ Step(d, "sample", [daemon[d] EXCEPT !.at = IF Newer(clock) THEN "shift" ELSE "sleep",
                                         !.entry = clock, !.slot = 1])
  /\ UNCHANGED <<clock, pidfile, database, dump, graph, overlapped>>

\* memmove(), entry by entry, and memcpy().
Shift(d) ==
  LET slot == daemon[d].slot IN
  /\ slot < Slots
  /\ Step(d, "shift", [daemon[d] EXCEPT !.slot = slot + 1])
  /\ database' = [database EXCEPT ![slot] = database[slot + 1]]
  /\ UNCHANGED <<clock, pidfile, dump, graph, overlapped>>

Store(d) ==
  /\ daemon[d].slot = Slots
  /\ Goes(d, "shift", "sleep")
  /\ database' = [database EXCEPT ![Slots] = daemon[d].entry]
  /\ UNCHANGED <<clock, pidfile, dump, graph, overlapped>>

\* sleep(), then "countdown--", which the signal handler can come in between.
Wake(d) ==
  /\ clock # daemon[d].entry
  /\ Step(d, "sleep", [daemon[d] EXCEPT !.at = "count", !.slot = daemon[d].countdown, !.entry = 0])
  /\ UNCHANGED <<clock, pidfile, database, dump, graph, overlapped>>

CountDown(d) ==
  LET count == daemon[d].slot - 1 IN
  /\ Step(d, "count", [daemon[d] EXCEPT !.at = IF count >= 0 THEN "sample" ELSE "end",
                                        !.countdown = count])
  /\ UNCHANGED <<clock, pidfile, database, dump, graph, overlapped>>

\* unlink(), whosever number the file has.
Exit(d) ==
  /\ Step(d, "end", [Unused EXCEPT !.at = "exited"])
  /\ pidfile' = "none"
  /\ UNCHANGED <<clock, database, dump, graph, overlapped>>

-----------------------------------------------------------------------------
(* A dump: check_daemon(), run_dump_ifname() and the like *)

DumpStep(p, from, to) == dump[p].at = from /\ dump' = [dump EXCEPT ![p].at = to]

ReadPid(p) ==
  /\ dump[p].at = "idle" /\ dump[p].left > 0
  /\ dump' = [dump EXCEPT ![p].at = "ping", ![p].pid = pidfile, ![p].left = @ - 1]
  /\ UNCHANGED <<clock, pidfile, daemon, database, graph, overlapped>>

\* kill(pid, 0) fails: a daemon is started, by a fork.
StartDaemon(p) ==
  /\ dump[p].pid \notin Serving
  /\ DumpStep(p, "ping", "open")
  /\ \E d \in Daemons :
       /\ daemon[d].at = "unused"
       /\ daemon' = [daemon EXCEPT ![d].at = "forked"]
  /\ overlapped' = (overlapped \/ Serving # {})
  /\ UNCHANGED <<clock, pidfile, database, graph>>

Ping(p) ==
  /\ dump[p].pid \in Serving
  /\ DumpStep(p, "ping", "signal")
  /\ UNCHANGED <<clock, pidfile, daemon, database, graph, overlapped>>

\* SIGUSR1 resets the countdown of a daemon that has set its handler, and kills
\* any other.
Signal(p) ==
  LET d == dump[p].pid IN
  /\ IF d \in Serving THEN DumpStep(p, "signal", "open") ELSE DumpStep(p, "signal", "idle")
  /\ daemon' = IF d \notin Serving THEN daemon
               ELSE IF daemon[d].handler THEN [daemon EXCEPT ![d].countdown = Patience]
               ELSE [daemon EXCEPT ![d].at = "killed"]
  /\ UNCHANGED <<clock, pidfile, database, graph, overlapped>>

\* mmap_file().  A file that is still to be filled ends the process: SIGBUS.
OpenFile(p) ==
  /\ IF database = NoFile \/ Len(database) < Slots
     THEN DumpStep(p, "open", "idle")
     ELSE dump[p].at = "open" /\ dump' = [dump EXCEPT ![p].at = "print", ![p].slot = 1, ![p].printed = <<>>]
  /\ UNCHANGED <<clock, pidfile, daemon, database, graph, overlapped>>

PrintEntry(p) ==
  LET slot == dump[p].slot IN
  /\ dump[p].at = "print" /\ slot <= Slots
  /\ dump' = [dump EXCEPT ![p].slot = @ + 1,
                ![p].printed = IF database[slot] = 0 THEN @ ELSE Append(@, database[slot])]
  /\ UNCHANGED <<clock, pidfile, daemon, database, graph, overlapped>>

-----------------------------------------------------------------------------
(* The page: bandwidth.js *)

SeenToo(time, last) == time >= last \* mutant
Unseen(time, last) == time > last

\* The loop over the entries that were printed, an entry a step; nothing else
\* reads or writes what it works on.  Entries up to the last one seen are skipped.
\* A sample is the difference of two entries over the time between them, so the
\* first entry gives none, nor does one of the same time as the one before.
PageEntry(p) ==
  LET data == dump[p].printed
      j == dump[p].slot - Slots
      last == graph[p].timestamp
      new == (last = 0 => j > 1) /\ Unseen(data[j], last)
      sample == new /\ j > 1 /\ data[j] # data[j - 1]
  IN
  /\ j \in 1..Len(data)
  /\ dump' = [dump EXCEPT ![p].slot = @ + 1, ![p].latest = IF new THEN data[j] ELSE @]
  /\ graph' = IF sample THEN [graph EXCEPT ![p].times = Append(@, data[j])] ELSE graph
  /\ UNCHANGED <<clock, pidfile, daemon, database, overlapped>>

PageDone(p) ==
  /\ dump[p].slot = Slots + Len(dump[p].printed) + 1
  /\ dump' = [dump EXCEPT ![p] = [NoDump EXCEPT !.left = dump[p].left]]
  /\ graph' = IF dump[p].latest = 0 THEN graph ELSE [graph EXCEPT ![p].timestamp = dump[p].latest]
  /\ UNCHANGED <<clock, pidfile, daemon, database, overlapped>>

-----------------------------------------------------------------------------

\* Time goes on, or is set back.
Tick ==
  /\ clock < MaxTime
  /\ clock' = clock + 1
  /\ UNCHANGED <<pidfile, daemon, database, dump, graph, overlapped>>

SetBack ==
  /\ clock = MaxTime - 1
  /\ clock' = 1
  /\ UNCHANGED <<pidfile, daemon, database, dump, graph, overlapped>>

DaemonStep(d) ==
  \/ SetHandler(d) \/ EmptyPid(d) \/ WritePid(d) \/ CreateFile(d) \/ FillFile(d)
  \/ CheckEntry(d) \/ Shift(d) \/ Store(d) \/ Wake(d) \/ CountDown(d) \/ Exit(d)

DumpNext(p) ==
  \/ ReadPid(p) \/ StartDaemon(p) \/ Ping(p) \/ Signal(p) \/ OpenFile(p) \/ PrintEntry(p)
  \/ PageEntry(p) \/ PageDone(p)

BwcNext ==
  \/ \E d \in Daemons : DaemonStep(d)
  \/ \E p \in Pages : DumpNext(p)
  \/ Tick \/ SetBack

BwcSpec == BwcInit /\ [][BwcNext]_bwcVars

-----------------------------------------------------------------------------
(* Properties *)

Ascending(times) == \A i \in 1..(Len(times) - 1) : times[i] <= times[i + 1]
Rising(times) == \A i \in 1..(Len(times) - 1) : times[i] < times[i + 1]

\* A dump never kills the daemon it wants to keep alive: a number in the file is
\* that of a process that handles the signal.
DaemonNotKilled == \A d \in Daemons : daemon[d].at # "killed"

\* With one daemon at a time, a dump that reads the database while entries are
\* shifted prints them in the order of time, also after the clock was set back.
DumpInOrder == ~overlapped => \A p \in Pages : Ascending(dump[p].printed)

\* The page's graph has each sample once and in order, though successive dumps
\* overlap and one that reads during a shift has an entry twice.
GraphInOrder == ~overlapped => \A p \in Pages : Rising(graph[p].times)

\* The daemon is not killed, and dumps and graphs have the samples in order.
SamplesSound == DaemonNotKilled /\ DumpInOrder /\ GraphInOrder
=============================================================================
