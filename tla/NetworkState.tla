---------------------------- MODULE NetworkState ----------------------------
(***************************************************************************)
(* The cache of network.js: the state of interfaces, devices and radios of *)
(* the router, fetched in a round of calls and, if radios are up, a second *)
(* call for hostapd; getters share the round under way and then the cached *)
(* state, flushCache() asks for a new round.                               *)
(*                                                                         *)
(* Every call has a default for the case that it fails, so a round always  *)
(* ends.  A round forgets itself (_init) before its second call, so that   *)
(* the next one may begin, and end, while that call is under way.          *)
(***************************************************************************)
EXTENDS Naturals, FiniteSets

CONSTANTS Getters,  \* parts of a page that ask for something of the state
          Flushers, \* those that call flushCache()
          Rounds,   \* bound: rounds under way at one time
          MaxAge    \* bound: changes on the router

ASSUME NetAssumption == MaxAge \in Nat /\ MaxAge + 1 \notin Rounds

VARIABLES
  router, \* the state of the router: how often it has changed
  init,   \* _init: the round in whose first calls one can take part
  cached, \* _state: the state of the router it tells
  round,  \* the rounds under way
  user    \* getters and flushers

netVars == <<router, init, cached, round, user>>

Users == Getters \cup Flushers
Null == MaxAge + 1
NoRound == [pc |-> "free", data |-> Null]
Idler == [pc |-> "idle", on |-> Null, least |-> 0]

NetInit == /\ router = 0
           /\ init = Null
           /\ cached = Null
           /\ round = [r \in Rounds |-> NoRound]
           /\ user = [u \in Users |-> Idler]

\* Callbacks of settled promises run before the next answer is looked at.
CallbacksDone == \A u \in Users : user[u].pc # "ready"

Changes ==
  /\ router < MaxAge
  /\ router' = router + 1
  /\ UNCHANGED <<init, cached, round, user>>

-----------------------------------------------------------------------------
(* initNetworkState() *)

KnownState == IF cached = Null THEN 0 ELSE cached

\* The caller waits for the round "on"; "least" is what was known by then.
Waits(u, r) == user' = [user EXCEPT ![u] = [pc |-> "waiting", on |-> r, least |-> KnownState]]

AlwaysAsks(u) == \E r \in Rounds : \* mutant
  /\ round[r].pc = "free" /\ init' = r
  /\ round' = [round EXCEPT ![r].pc = "asked"]
  /\ Waits(u, r)
TakesPart(u) ==
  \/ /\ init # Null
     /\ Waits(u, init)
     /\ UNCHANGED <<init, round>>
  \/ /\ init = Null
     /\ \E r \in Rounds : /\ round[r].pc = "free"
                          /\ init' = r
                          /\ round' = [round EXCEPT ![r].pc = "asked"]
                          /\ Waits(u, r)

Get(u) ==
  /\ user[u].pc = "idle"
  /\ \/ /\ cached # Null
        /\ user' = [user EXCEPT ![u] = [@ EXCEPT !.pc = "ready", !.least = cached]]
        /\ UNCHANGED <<init, round>>
     \/ cached = Null /\ TakesPart(u)
  /\ UNCHANGED <<router, cached>>

EmptiedByFlush == Null \* mutant
KeptByFlush == cached

FlushCache(u) ==
  /\ user[u].pc = "idle"
  /\ TakesPart(u)
  /\ cached' = KeptByFlush
  /\ UNCHANGED router

\* The device answers the first calls, one HTTP request.
Read(r) ==
  /\ round[r].pc = "asked"
  /\ round' = [round EXCEPT ![r] = [pc |-> "read", data |-> router]]
  /\ UNCHANGED <<router, init, cached, user>>

Ended(r) ==
  /\ cached' = round[r].data
  /\ user' = [u \in Users |-> IF user[u].pc = "waiting" /\ user[u].on = r
                              THEN [user[u] EXCEPT !.pc = "ready", !.on = Null] ELSE user[u]]

OneCallEnds(r) == cached' = round[r].data /\ UNCHANGED user \* mutant

\* The answer arrives; with a radio up hostapd is asked for.
Arrives(r) ==
  /\ round[r].pc = "read" /\ CallbacksDone
  /\ init' = Null
  /\ \/ /\ round' = [round EXCEPT ![r].pc = "list"]
        /\ UNCHANGED <<cached, user>>
     \/ /\ round' = [round EXCEPT ![r] = NoRound]
        /\ Ended(r)
  /\ UNCHANGED router

Listed(r) ==
  /\ round[r].pc = "list" /\ CallbacksDone
  /\ round' = [round EXCEPT ![r] = NoRound]
  /\ Ended(r)
  /\ UNCHANGED <<router, init>>

\* The callback of a getter uses _state, not what its promise resolved to.
Proceeds(u) ==
  /\ user[u].pc = "ready"
  /\ user' = [user EXCEPT ![u] = Idler]
  /\ UNCHANGED <<router, init, cached, round>>

NetNext ==
  \/ Changes
  \/ \E u \in Getters : Get(u)
  \/ \E u \in Flushers : FlushCache(u)
  \/ \E r \in Rounds : Read(r) \/ Arrives(r) \/ Listed(r)
  \/ \E u \in Users : Proceeds(u)

NetSpec == NetInit /\ [][NetNext]_netVars

\* Calls end (RpcBatch), and callbacks run.  Strong fairness: the event loop
\* gets to an answer though getters are called in between.
NetFairness ==
  /\ \A r \in Rounds : SF_netVars(Read(r) \/ Arrives(r) \/ Listed(r))
  /\ \A u \in Users : WF_netVars(Proceeds(u))

-----------------------------------------------------------------------------
(* Properties *)

NetTypeOK ==
  /\ router \in 0..MaxAge
  /\ init \in Rounds \cup {Null}
  /\ cached \in 0..MaxAge \cup {Null}
  /\ round \in [Rounds -> [pc : {"free", "asked", "read", "list"}, data : 0..Null]]
  /\ user \in [Users -> [pc : {"idle", "waiting", "ready"}, on : Rounds \cup {Null}, least : Nat]]
  /\ \A u \in Users : user[u].pc = "waiting" => round[user[u].on].pc # "free"

\* A round can be joined only while its first calls are under way, and there
\* is no other such round: everyone else waits for it or uses the cache.
OneFirstCall ==
  \A r \in Rounds : round[r].pc \in {"asked", "read"} <=> init = r

\* When the callback of a getter or flusher runs there is a state, and it is
\* not older than the one the page knew when it asked.
NotOlder ==
  \A u \in Users : user[u].pc = "ready" => cached # Null /\ cached >= user[u].least

\* Everyone who asks gets an answer.
Answers == \A u \in Users : user[u].pc = "waiting" ~> user[u].pc = "ready"

\* The rounds, the cache and those who wait agree: nobody is told a state older
\* than what the page knew when it asked.
NetSound == NetTypeOK /\ OneFirstCall /\ NotOlder
=============================================================================
