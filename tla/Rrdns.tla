------------------------------- MODULE Rrdns -------------------------------
(***************************************************************************)
(* The rpcd plugin that looks up the names of many addresses in one call   *)
(* (rpcd-mod-rrdns): up to a limit of queries are under way, each response *)
(* makes room for the next, and the call is answered when none is left or  *)
(* after a timeout, with the names known by then.                          *)
(***************************************************************************)
EXTENDS Naturals, Sequences, FiniteSets

CONSTANTS Addrs,      \* addresses
          Garbage,    \* a string that is no address
          Ids,        \* transaction numbers of queries, chosen at random
          MaxAddrs,   \* bound: addresses given in a call
          MaxLimit    \* bound: the limit of a call

ASSUME LimitAssumption == MaxLimit \in Nat \ {0} /\ MaxAddrs \in Nat

VARIABLES
  addrs,   \* the addresses the call was given
  limit,
  rest,    \* addr_cur: those not read so far, in the message of the call
  reused,  \* has ubus received another message into the same buffer?
  pending, \* request_ids: number and address of queries that wait for a response
  known,   \* request_addrs: addresses that were sent
  network, \* responses on their way
  names,   \* blob: the answer so far, address and the address its name is of
  ended,   \* how the call ended
  sent     \* history: all queries

dnsVars == <<addrs, limit, rest, reused, pending, known, network, names, ended, sent>>

Query(id, a) == [id |-> id, addr |-> a]

DnsInit ==
  /\ addrs \in UNION {[1..n -> Addrs \cup {Garbage}] : n \in 0..MaxAddrs}
  /\ limit \in 1..MaxLimit
  /\ rest = addrs
  /\ reused = FALSE
  /\ pending = {} /\ known = {} /\ network = {} /\ names = {} /\ sent = {}
  /\ ended = "starting"

\* rrdns_next_query(), when "entry" is next in the buffer: what is no address,
\* and what was sent before, is passed over and no other is tried in its place.
\* A number in use is not entered a second time.
NextQuery(entry, waiting, coming) ==
  IF entry \in known \cup {Garbage}
  THEN pending' = waiting /\ network' = coming /\ UNCHANGED <<known, sent>>
  ELSE \E id \in Ids :
         /\ pending' = IF \E q \in waiting : q.id = id THEN waiting
                       ELSE waiting \cup {Query(id, entry)}
         /\ network' = coming \cup {Query(id, entry)}
         /\ known' = known \cup {entry}
         /\ sent' = sent \cup {Query(id, entry)}

NoQuery(waiting, coming) ==
  pending' = waiting /\ network' = coming /\ UNCHANGED <<known, sent>>

\* The same, with what the buffer holds: once it is reused that is anything.
ReadNext(waiting, coming) ==
  IF rest = <<>> THEN NoQuery(waiting, coming) /\ UNCHANGED rest
  ELSE \/ /\ ~reused
          /\ rest' = Tail(rest)
          /\ NextQuery(Head(rest), waiting, coming)
       \/ /\ reused
          /\ rest' = Tail(rest)
          /\ \E entry \in Addrs \cup {Garbage} : NextQuery(entry, waiting, coming)
       \/ /\ reused
          /\ rest' = <<>>
          /\ NoQuery(waiting, coming)

\* rpc_rrdns_lookup(): rounds of "while (limit--)", then the call waits.
Begin ==
  /\ ended = "starting"
  /\ IF Len(addrs) - Len(rest) < limit /\ rest # <<>>
     THEN ReadNext(pending, network) /\ UNCHANGED ended
     ELSE ended' = "no" /\ UNCHANGED <<rest, pending, known, network, sent>>
  /\ UNCHANGED <<addrs, limit, reused, names>>

\* rpcd serves other calls while this one waits.
OtherCall ==
  /\ ended = "no" /\ ~reused
  /\ reused' = TRUE
  /\ UNCHANGED <<addrs, limit, rest, pending, known, network, names, ended, sent>>

AnyPending(id) == pending \* mutant
Matching(id) == {q \in pending : q.id = id}

EveryResponse(id, outcome) == TRUE \* mutant
WellFormed(id, outcome) == Matching(id) # {} /\ outcome # "malformed" \* mutant
MakesRoom(id, outcome) == Matching(id) # {}

Ended(waiting) == IF waiting = {} THEN "answered" ELSE "no"

\* rrdns_handle_response(): a response to no query is passed over; others take
\* their query out, also when they cannot be parsed, or not to their end, and the
\* next one is sent.
Respond(response, outcome) ==
  LET coming == {network, network \ {response}} \* it may come a second time
      waiting == pending \ Matching(response.id)
  IN
  /\ ended = "no" /\ response \in network
  /\ \/ outcome # "name" /\ names' = names
     \/ /\ outcome # "no such name"
        /\ names' = names \cup {<<q.addr, response.addr>> : q \in Matching(response.id)}
  /\ \E c \in coming : IF MakesRoom(response.id, outcome) THEN ReadNext(waiting, c)
                       ELSE NoQuery(waiting, c) /\ UNCHANGED rest
  /\ ended' = Ended(pending')
  /\ UNCHANGED <<addrs, limit, reused>>

Lost(response) ==
  /\ ended = "no" /\ response \in network
  /\ network' = network \ {response}
  /\ UNCHANGED <<addrs, limit, rest, reused, pending, known, names, ended, sent>>

DnsTimeout ==
  /\ ended = "no"
  /\ ended' = "timeout"
  /\ UNCHANGED <<addrs, limit, rest, reused, pending, known, network, names, sent>>

Outcomes == {"name", "no such name", "malformed"}

DnsNext ==
  \/ Begin \/ OtherCall \/ DnsTimeout
  \/ \E r \in network : Lost(r) \/ \E outcome \in Outcomes : Respond(r, outcome)

DnsSpec == DnsInit /\ [][DnsNext]_dnsVars

-----------------------------------------------------------------------------
(* Properties *)

Given == {addrs[i] : i \in DOMAIN addrs}
Proper == Garbage \notin Given /\ Cardinality(Given) = Len(addrs)
NumbersDiffer == \A q, r \in sent : q.id = r.id => q = r

\* No more queries wait than the limit of the call, though responses come twice
\* or not at all.
WindowKept == Cardinality(pending) <= limit

\* A name in the answer is the name of the address it is listed for, and that
\* address was asked for; unless two queries got the same number, or the rest
\* of the call's addresses was read from a buffer that was in use again.
OwnNames ==
  /\ NumbersDiffer => \A pair \in names : pair[1] = pair[2]
  /\ ~reused => \A pair \in names : pair[1] \in Given

\* A call that is answered before its time has run out has looked up all its
\* addresses, if those are different and well-formed: responses that cannot be
\* parsed, come twice or name nothing do not end it early.
AllLookedUp ==
  ended = "answered" /\ Proper /\ ~reused => \A a \in Given : \E q \in sent : q.addr = a

\* The lookup keeps to its window, tells true names, and tries all addresses.
LookupSound == WindowKept /\ OwnNames /\ AllLookedUp
=============================================================================
