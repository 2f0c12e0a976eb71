---------------------------- MODULE PageRuntime ----------------------------
(***************************************************************************)
(* The parts of luci.js and network.js that every page runs: calls, the    *)
(* polling loop, the class loader, calls of overridden methods, the cached *)
(* network state.  They call each other but share no state, so a behaviour *)
(* is of one of them.                                                      *)
(***************************************************************************)
EXTENDS RpcBatch, Poll, NetworkState, ClassLoader, TLC

CONSTANTS main, other, scan \* functions that are polled

VARIABLE part

Parts == {"rpc", "poll", "network", "class", "super"}
pageVars == <<part, vars, pollVars, netVars, classVars, superVars>>

PolledFns == {main, other}
ThrowingFns == {main}
Intervals == main :> 1 @@ other :> 2 @@ scan :> 3

\* A part that does not run has nothing to do, so that its fairness asks for
\* nothing.
PageInit ==
  /\ part \in Parts
  /\ Init /\ PollInit /\ NetInit
  /\ ClassInit /\ (part # "class" => requires = [c \in Classes |-> <<>>])
  /\ SuperInit /\ (part # "super" => defined = {1} /\ ~own)

PageNext ==
  \/ part = "rpc" /\ Next /\ UNCHANGED <<part, pollVars, netVars, classVars, superVars>>
  \/ part = "poll" /\ PollNext /\ UNCHANGED <<part, vars, netVars, classVars, superVars>>
  \/ part = "network" /\ NetNext /\ UNCHANGED <<part, vars, pollVars, classVars, superVars>>
  \/ part = "class" /\ ClassNext /\ UNCHANGED <<part, vars, pollVars, netVars, superVars>>
  \/ part = "super" /\ SuperNext /\ UNCHANGED <<part, vars, pollVars, netVars, classVars>>

PageSpec ==
  /\ PageInit /\ [][PageNext]_pageVars
  /\ Fairness /\ PollFairness /\ NetFairness /\ ClassFairness

\* Classes are built once and in order, and know their super classes.
ClassesSound == ClassSound /\ SuperReachesNext

\* Whoever waits is answered in the end: callers, users of the network state and
\* those who require classes; and what is registered is polled.
AllAnswered == Settles /\ Polled /\ Answers /\ AcyclicSettles
=============================================================================
