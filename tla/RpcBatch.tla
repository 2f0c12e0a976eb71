------------------------------ MODULE RpcBatch ------------------------------
(***************************************************************************)
(* RPC calls of a page (rpc.js) on their way to the device: calls issued   *)
(* during one turn of the event loop wait in requestQueue (luci.js) for    *)
(* the next animation frame and share one HTTP request; the device carries *)
(* them out one after the other (action_ubus) and answers with a list      *)
(* whose replies are given to the calls by position.                       *)
(*                                                                         *)
(* A call denied by the device makes an interceptor ask first, with a call *)
(* of its own, whether the login session still exists.  HTTP requests of a *)
(* page overtake each other; each may be lost, or time out on the page     *)
(* while the device goes on.  Everything done for one answer is one step.  *)
(***************************************************************************)
EXTENDS Naturals, FiniteSets, SequencesExt

CONSTANTS Calls,      \* the calls the page makes
          Raising,    \* those declared with "reject"
          Restricted, \* those the access rules deny to this login
          Single,     \* those declared with "nobatch"
          Requests,   \* bound: HTTP requests under way at one time
          Faults      \* "lost": HTTP requests may fail; "expire": the session ends

ASSUME CallsAssumption == /\ IsFiniteSet(Calls)
                          /\ Raising \cup Restricted \cup Single \subseteq Calls
ASSUME FaultsAssumption == Faults \subseteq {"lost", "expire"}

VARIABLES
  state,   \* the promises of the messages
  queue,   \* luci.js: requestQueue
  http,    \* HTTP requests and what the device made of them
  session, \* rpcd: does the login session exist?
  dialog,  \* is the page showing "Session expired"?
  turns,   \* history: the calls issued, turn by turn
  done,    \* history: the calls carried out
  got      \* history: the reply each call was given

vars == <<state, queue, http, session, dialog, turns, done, got>>

Messages == [call : Calls, probe : BOOLEAN]
Own(c) == [call |-> c, probe |-> FALSE]
Probe(c) == [call |-> c, probe |-> TRUE]

Free == [pc |-> "free", heard |-> FALSE, batch |-> <<>>, replies |-> <<>>]
Sent(batch) == [pc |-> "sent", heard |-> TRUE, batch |-> batch, replies |-> <<>>]

Unheard == [of |-> Own(CHOOSE c \in Calls : TRUE), code |-> "none"]

Init == /\ state = [m \in Messages |-> "unused"]
        /\ queue = <<>>
        /\ http = [r \in Requests |-> Free]
        /\ session = TRUE
        /\ dialog = FALSE
        /\ turns = <<>>
        /\ done = <<>>
        /\ got = [c \in Calls |-> Unheard]

Unused == {c \in Calls : state[Own(c)] = "unused"}

\* One turn of the event loop issues some calls, in order.
Issue(calls) ==
  /\ calls # <<>>
  /\ state' = [m \in Messages |->
                 IF ~m.probe /\ Contains(calls, m.call) THEN "pending" ELSE state[m]]
  /\ queue' = queue \o [i \in 1..Len(calls) |-> Own(calls[i])]
  /\ turns' = Append(turns, calls)
  /\ UNCHANGED <<http, session, dialog, done, got>>

\* A call declared with "nobatch" is sent at once.
IssueSingle(c, r) ==
  /\ http[r].pc = "free"
  /\ state' = [state EXCEPT ![Own(c)] = "pending"]
  /\ http' = [http EXCEPT ![r] = Sent(<<Own(c)>>)]
  /\ UNCHANGED <<queue, session, dialog, turns, done, got>>

AllLeftInQueue == queue         \* mutant
LeftInQueue == <<>>
HeadOnly == <<Head(queue)>>     \* mutant
ReversedQueue == Reverse(queue) \* mutant
Batch == queue

\* The animation frame: flushRequestQueue().
Flush(r) ==
  /\ queue # <<>>
  /\ http[r].pc = "free"
  /\ http' = [http EXCEPT ![r] = Sent(Batch)]
  /\ queue' = LeftInQueue
  /\ UNCHANGED <<state, session, dialog, turns, done, got>>

-----------------------------------------------------------------------------
(* The device *)

\* ubus_request(): "gone" and "denied" are the same reply, -32002; "failed"
\* stands for a ubus status other than 0.
Codes(m) == IF ~session THEN {"gone"}
            ELSE IF m.probe THEN {"ok"}
            ELSE IF m.call \in Restricted THEN {"denied"}
            ELSE {"ok", "failed"}

\* The next message of a batch is carried out.
ServerCall(r) ==
  /\ http[r].pc = "sent"
  /\ LET m == http[r].batch[Len(http[r].replies) + 1] IN
     \E code \in Codes(m) :
       /\ done' = IF code = "ok" /\ ~m.probe THEN Append(done, m.call) ELSE done
       /\ http' = [http EXCEPT
            ![r].replies = Append(@, [of |-> m, code |-> code]),
            ![r].pc = IF Len(http[r].replies) + 1 = Len(http[r].batch) THEN "answered" ELSE @]
  /\ UNCHANGED <<state, queue, session, dialog, turns, got>>

Expire ==
  /\ "expire" \in Faults /\ session
  /\ session' = FALSE
  /\ UNCHANGED <<state, queue, http, dialog, turns, done, got>>

-----------------------------------------------------------------------------
(* Answers *)

\* The interceptor asks for the session, but not about its own call.
NoneDenied(m, code) == FALSE \* mutant
AnyDenied(m, code) == code \in {"denied", "gone"} \* mutant
NeedsProbe(m, code) == code \in {"denied", "gone"} /\ ~m.probe

\* parseCallReply() and handleCallReply(); "lost": there is no reply.
Outcome(m, code) ==
  CASE NeedsProbe(m, code) -> "waiting"
    [] code = "ok" \/ (code = "failed" /\ m.call \notin Raising) -> "resolved"
    [] OTHER -> "rejected"

\* The i-th message of the batch gets the i-th reply.
LastFirst(r, i) == http[r].replies[Len(http[r].replies) + 1 - i] \* mutant
ReplyTo(r, i) == http[r].replies[i]

Replied(r) == [i \in 1..Len(http[r].batch) |-> ReplyTo(r, i)]
Lost(r) == [i \in 1..Len(http[r].batch) |-> [of |-> http[r].batch[i], code |-> "lost"]]

\* Where an element is in a list.
PlaceOf(s, e) == SelectInSeq(s, LAMBDA x : x = e)

\* A probe that is rejected, for whatever reason, shows the dialog; the call
\* that waited for it is rejected either way.  New probes are queued in the
\* order of the calls they are for.
Settle(r, replies) ==
  LET batch == http[r].batch
      heard == ToSet(batch)
      reply == [m \in heard |-> replies[PlaceOf(batch, m)]]
      after == [m \in heard |-> Outcome(m, reply[m].code)]
      waits == {m \in heard : after[m] = "waiting"}
  IN
  /\ state' = [m \in Messages |->
        IF m \in heard THEN after[m]
        ELSE IF ~m.probe /\ Probe(m.call) \in heard THEN "rejected"
        ELSE IF m.probe /\ Own(m.call) \in waits THEN "pending"
        ELSE state[m]]
  /\ \E probes \in SetToSeqs({Probe(m.call) : m \in waits}) :
       /\ \A i, j \in DOMAIN probes :
            i < j => PlaceOf(batch, Own(probes[i].call)) < PlaceOf(batch, Own(probes[j].call))
       /\ queue' = queue \o probes
  /\ dialog' = (dialog \/ \E m \in heard : m.probe /\ after[m] = "rejected")
  /\ got' = [c \in Calls |-> IF Own(c) \in heard THEN reply[Own(c)] ELSE got[c]]

Answered(r) ==
  /\ http[r].pc = "answered"
  /\ \/ /\ http[r].heard
        /\ Settle(r, Replied(r))
     \/ /\ ~http[r].heard
        /\ UNCHANGED <<state, queue, dialog, got>>
  /\ http' = [http EXCEPT ![r] = Free]
  /\ UNCHANGED <<session, turns, done>>

\* The request fails, times out, or its answer is no list of replies: every
\* call of the batch is rejected.  The device may or may not go on.
Fail(r) ==
  /\ "lost" \in Faults
  /\ http[r].heard
  /\ Settle(r, Lost(r))
  /\ \/ http' = [http EXCEPT ![r] = Free]
     \/ http' = [http EXCEPT ![r].heard = FALSE]
  /\ UNCHANGED <<session, turns, done>>

Next ==
  \/ \E calls \in SetToAllKPermutations(Unused \ Single) : Issue(calls)
  \/ \E c \in Unused \cap Single, r \in Requests : IssueSingle(c, r)
  \/ \E r \in Requests : Flush(r) \/ ServerCall(r) \/ Answered(r) \/ Fail(r)
  \/ Expire

Spec == Init /\ [][Next]_vars

\* Animation frames come while the page is visible, and an XMLHttpRequest
\* ends: with its answer, an error, or the timeout rpc.js gives it.
Fairness ==
  /\ WF_vars(\E r \in Requests : Flush(r))
  /\ \A r \in Requests : WF_vars(ServerCall(r) \/ Answered(r) \/ Fail(r))

FairSpec == Spec /\ Fairness

-----------------------------------------------------------------------------
(* Properties *)

Replies == [of : Messages, code : {"ok", "failed", "denied", "gone", "lost", "none"}]
HttpRecords == [pc : {"free", "sent", "answered"}, heard : BOOLEAN,
                batch : Seq(Messages), replies : Seq(Replies)]
States == {"unused", "pending", "waiting", "resolved", "rejected"}

TypeOK == /\ state \in [Messages -> States]
          /\ \A m \in Messages : m.probe => state[m] # "waiting"
          /\ queue \in Seq(Messages)
          /\ http \in [Requests -> HttpRecords]
          /\ session \in BOOLEAN /\ dialog \in BOOLEAN
          /\ turns \in Seq(Seq(Calls))
          /\ done \in Seq(Calls)
          /\ got \in [Calls -> Replies]

\* A call that resolves was given the reply made for it, not for one of the
\* calls or probes it shared a request or the queue with.
OwnReply ==
  \A c \in Calls : state[Own(c)] = "resolved" =>
    /\ got[c].of = Own(c)
    /\ \/ got[c].code = "ok" /\ Contains(done, c)
       \/ got[c].code = "failed"

\* No call is carried out twice, whatever was lost on the way.
CarriedOutOnce == IsInjective(done)

\* The calls of one turn are carried out in the order in which they were
\* issued: uci.save() relies on it for its deletes, adds and sets.
TurnInOrder ==
  \A i \in 1..Len(turns) : \A a, b \in 1..Len(turns[i]) :
    LET at(k) == PlaceOf(done, turns[i][k]) IN
    a < b /\ at(a) # 0 /\ at(b) # 0 => at(a) < at(b)

\* A call denied because the session is gone is not rejected before the page
\* told the user so.
ExpiryTold ==
  \A c \in Calls : state[Own(c)] = "rejected" /\ got[c].code = "gone" => dialog

\* luci.js 2656: "Login session is expired": the page says so only when it is.
ExpiredIsTrue == dialog => ~session

\* Every call is settled in the end, also one that waits for its probe.  A call
\* is made once, so the time comes when none is under way.
Settles == <>[](\A c \in Calls : state[Own(c)] \notin {"pending", "waiting"})

\* Each call gets its own reply, is carried out at most once and in the order of
\* its turn, and learns of the end of the session, whatever is lost or late.
CallsSound == TypeOK /\ OwnReply /\ CarriedOutOnce /\ TurnInOrder /\ ExpiryTold
=============================================================================
