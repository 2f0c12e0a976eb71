--------------------------- MODULE RpcBatchProofs ---------------------------
(***************************************************************************)
(* Proofs about RpcBatch: each call gets its own reply, is carried out at  *)
(* most once and in the order of its turn, and learns of the end of the    *)
(* session.                                                                *)
(***************************************************************************)
EXTENDS RpcBatch, Lists

-----------------------------------------------------------------------------
(* The inductive invariant *)

InBatch(r) == ToSet(http[r].batch)

\* Of the messages of a request those the device has not come to.
Todo(r) == {http[r].batch[i] : i \in (Len(http[r].replies) + 1)..Len(http[r].batch)}

\* The replies of a request are those to the first messages of its batch.
Fits(r) ==
  /\ http[r].pc = "free" => http[r].batch = <<>> /\ http[r].replies = <<>>
  /\ http[r].pc = "sent" => Len(http[r].replies) < Len(http[r].batch)
  /\ http[r].pc = "answered" => Len(http[r].replies) = Len(http[r].batch)
  /\ IsInjective(http[r].batch)
  /\ \A i \in 1..Len(http[r].replies) : http[r].replies[i].of = http[r].batch[i]

RepliesFit == \A r \in Requests : Fits(r)

\* No message is in two places.
Apart ==
  /\ IsInjective(queue)
  /\ \A r \in Requests : ToSet(queue) \cap InBatch(r) = {}
  /\ \A r, q \in Requests : r # q => InBatch(r) \cap InBatch(q) = {}

\* Messages on their way are those whose promise is pending, but for requests
\* that were given up; and none is asked about before its call was denied.
OnTheWay ==
  /\ \A m \in ToSet(queue) : state[m] = "pending"
  /\ \A r \in Requests : \A m \in InBatch(r) :
       state[m] # "unused" /\ (http[r].heard => state[m] = "pending")
  /\ \A c \in Calls : state[Own(c)] \in {"unused", "pending"} => state[Probe(c)] = "unused"

\* A call that was carried out is behind the device.
Behind ==
  /\ IsInjective(done)
  /\ \A c \in ToSet(done) :
       /\ state[Own(c)] # "unused"
       /\ Own(c) \notin ToSet(queue)
       /\ \A r \in Requests : Own(c) \notin Todo(r)

\* What a reply says was so when it was made, and still is: a session does not
\* come back.  "gone" is said only after the end of the session, and a probe
\* that found the session was sent by a call that was not told so.
TrueReply(y) ==
  /\ ~y.of.probe /\ y.code = "ok" => y.of.call \in ToSet(done)
  /\ y.code = "gone" => ~session
  /\ y.of.probe => y.code \in {"gone", "ok"}
  /\ y.of.probe /\ y.code = "ok" => got[y.of.call].code # "gone"

RepliesTrue ==
  /\ \A r \in Requests : \A i \in 1..Len(http[r].replies) : TrueReply(http[r].replies[i])
  /\ \A c \in Calls : got[c].code = "gone" => ~session

\* Two messages are in a list both, in this order, or neither is.
Ordered(s, x, y) ==
  /\ x \in ToSet(s) <=> y \in ToSet(s)
  /\ \A i, j \in 1..Len(s) : s[i] = x /\ s[j] = y => i < j

\* Two calls of one turn stay together on their way.
Together(c, d) ==
  /\ c # d
  /\ state[Own(c)] # "unused" /\ state[Own(d)] # "unused"
  /\ Ordered(queue, Own(c), Own(d))
  /\ \A r \in Requests : Ordered(http[r].batch, Own(c), Own(d))
  /\ \A i, j \in 1..Len(done) : done[i] = c /\ done[j] = d => i < j

TurnsTogether ==
  \A n \in 1..Len(turns) : \A a, b \in 1..Len(turns[n]) :
    a < b => Together(turns[n][a], turns[n][b])

IInv ==
  /\ TypeOK /\ RepliesFit /\ Apart /\ OnTheWay /\ Behind /\ RepliesTrue /\ TurnsTogether
  /\ OwnReply /\ ExpiryTold

-----------------------------------------------------------------------------
(* Places *)

\* In a list without repetitions each element has one place.
LEMMA OnePlace ==
  ASSUME NEW S, NEW s \in Seq(S), IsInjective(s), NEW i \in 1..Len(s)
  PROVE  PlaceOf(s, s[i]) = i
<1>1. {j \in 1..Len(s) : s[j] = s[i]} = {i}
  BY DEF IsInjective
<1>2. i \in Nat
  OBVIOUS
<1>3. Min({i}) = i
  BY <1>2 DEF Min
<1>4. QED
  BY <1>1, <1>3, Zenon DEF PlaceOf, SelectInSeq

LEMMA NoPlace ==
  ASSUME NEW S, NEW s \in Seq(S), NEW e, e \notin ToSet(s)
  PROVE  PlaceOf(s, e) = 0
<1>1. {j \in 1..Len(s) : s[j] = e} = {}
  BY DEF ToSet
<1>2. QED
  BY <1>1, Zenon DEF PlaceOf, SelectInSeq

-----------------------------------------------------------------------------
(* Messages and requests *)

LEMMA Names ==
  /\ \A c, d \in Calls : /\ Own(c) \in Messages /\ Probe(c) \in Messages
                         /\ Own(c) = Own(d) => c = d
                         /\ Probe(c) = Probe(d) => c = d
                         /\ Own(c) # Probe(d)
                         /\ Own(c).call = c /\ ~Own(c).probe
                         /\ Probe(c).call = c /\ Probe(c).probe
  /\ \A m \in Messages : /\ m.call \in Calls /\ m.probe \in BOOLEAN
                         /\ m.probe => m = Probe(m.call)
                         /\ ~m.probe => m = Own(m.call)
BY DEF Messages, Own, Probe

LEMMA RequestTypes ==
  ASSUME TypeOK, NEW r \in Requests
  PROVE  /\ http[r] \in HttpRecords
         /\ http[r].batch \in Seq(Messages) /\ Len(http[r].batch) \in Nat
         /\ http[r].replies \in Seq(Replies) /\ Len(http[r].replies) \in Nat
         /\ InBatch(r) \subseteq Messages
         /\ \A i \in 1..Len(http[r].batch) : http[r].batch[i] \in InBatch(r)
         /\ \A m \in InBatch(r) : \E i \in 1..Len(http[r].batch) : http[r].batch[i] = m
<1>1. http[r] \in HttpRecords
  BY DEF TypeOK
<1>2. http[r].batch \in Seq(Messages) /\ http[r].replies \in Seq(Replies)
  BY <1>1 DEF HttpRecords
<1>3. QED
  BY <1>1, <1>2, Membership, Zenon, LenProperties DEF InBatch

LEMMA TodoInBatch ==
  ASSUME TypeOK, RepliesFit, NEW r \in Requests
  PROVE  /\ Len(http[r].replies) <= Len(http[r].batch)
         /\ Todo(r) \subseteq InBatch(r)
<1>1. Len(http[r].replies) <= Len(http[r].batch)
  <2>1. Fits(r) /\ http[r].pc \in {"free", "sent", "answered"}
    BY RequestTypes DEF RepliesFit, HttpRecords
  <2>2. QED
    BY <2>1, RequestTypes DEF Fits
<1>2. \A i \in (Len(http[r].replies) + 1)..Len(http[r].batch) : http[r].batch[i] \in InBatch(r)
  BY RequestTypes
<1>3. QED
  BY <1>1, <1>2 DEF Todo

-----------------------------------------------------------------------------
(* A request is sent *)

LEMMA Sending ==
  ASSUME TypeOK, RepliesFit, NEW r \in Requests, http[r].pc = "free",
         NEW b \in Seq(Messages), b # <<>>, IsInjective(b),
         http' = [http EXCEPT ![r] = Sent(b)]
  PROVE  /\ http' \in [Requests -> HttpRecords]
         /\ RepliesFit'
         /\ InBatch(r)' = ToSet(b) /\ Todo(r)' \subseteq ToSet(b)
         /\ http'[r].batch = b /\ Len(http'[r].replies) = 0
         /\ \A q \in Requests \ {r} :
              http'[q] = http[q] /\ InBatch(q)' = InBatch(q) /\ Todo(q)' = Todo(q)
<1>1. /\ http'[r] = Sent(b)
      /\ \A q \in Requests \ {r} : http'[q] = http[q]
  BY DEF TypeOK
<1>2. Sent(b) \in HttpRecords
  BY DEF Sent, HttpRecords
<1>3. http' \in [Requests -> HttpRecords]
  BY <1>2 DEF TypeOK
<1>4. Len(b) \in Nat /\ Len(b) > 0 /\ Len(<<>>) = 0
  OBVIOUS
<1>5. http'[r].batch = b /\ http'[r].replies = <<>> /\ http'[r].pc = "sent"
  BY <1>1 DEF Sent
<1>6. Fits(r)'
  BY <1>4, <1>5 DEF Fits
<1>7. \A q \in Requests \ {r} : Fits(q)'
  BY <1>1 DEF Fits, RepliesFit
<1>8. InBatch(r)' = ToSet(b)
  BY <1>5 DEF InBatch
<1>9. \A i \in 1..Len(b) : b[i] \in ToSet(b)
  BY Membership
<1>10. Todo(r)' \subseteq ToSet(b)
  BY <1>4, <1>5, <1>9 DEF Todo
<1>11. \A q \in Requests \ {r} : InBatch(q)' = InBatch(q) /\ Todo(q)' = Todo(q)
  BY <1>1 DEF InBatch, Todo
<1>12. QED
  BY <1>1, <1>3, <1>4, <1>5, <1>6, <1>7, <1>8, <1>10, <1>11 DEF RepliesFit

LEMMA FlushStep ==
  ASSUME IInv, NEW r \in Requests, Flush(r)
  PROVE  IInv'
<1> USE DEF IInv
<1>1. /\ queue # <<>> /\ http[r].pc = "free" /\ queue' = <<>>
      /\ http' = [http EXCEPT ![r] = Sent(queue)]
      /\ UNCHANGED <<state, session, dialog, turns, done, got>>
  BY DEF Flush, Batch, LeftInQueue
<1>2. queue \in Seq(Messages) /\ IsInjective(queue)
  BY DEF TypeOK, Apart
<1>3. /\ http' \in [Requests -> HttpRecords]
      /\ RepliesFit'
      /\ InBatch(r)' = ToSet(queue) /\ Todo(r)' \subseteq ToSet(queue)
      /\ http'[r].batch = queue /\ Len(http'[r].replies) = 0
      /\ \A q \in Requests \ {r} :
           http'[q] = http[q] /\ InBatch(q)' = InBatch(q) /\ Todo(q)' = Todo(q)
  BY <1>1, <1>2, Sending
<1>4. queue' \in Seq(Messages) /\ ToSet(queue') = {} /\ IsInjective(queue') /\ Len(queue') = 0
  BY <1>1 DEF ToSet, IsInjective
<1>5. TypeOK'
  BY <1>1, <1>3, <1>4 DEF TypeOK
<1>6. Apart'
  BY <1>3, <1>4 DEF Apart
<1>7. OnTheWay'
  BY <1>1, <1>3, <1>4 DEF OnTheWay
<1>8. Behind'
  BY <1>1, <1>3, <1>4 DEF Behind
<1>9. RepliesTrue'
  BY <1>1, <1>3 DEF RepliesTrue, TrueReply
<1>10. TurnsTogether'
  <2>1. ASSUME NEW c \in Calls, NEW d \in Calls, Together(c, d)
        PROVE  Together(c, d)'
    <3>1. Ordered(queue, Own(c), Own(d))'
      BY <1>4 DEF Ordered
    <3>2. ASSUME NEW q \in Requests
          PROVE  Ordered(http[q].batch, Own(c), Own(d))'
      BY <1>3, <2>1 DEF Together, Ordered
    <3>3. QED
      BY <1>1, <2>1, <3>1, <3>2 DEF Together
  <2>2. QED
    BY <1>1, <2>1 DEF TurnsTogether, TypeOK
<1>11. OwnReply' /\ ExpiryTold'
  BY <1>1 DEF OwnReply, ExpiryTold
<1>12. QED
  BY <1>3, <1>5, <1>6, <1>7, <1>8, <1>9, <1>10, <1>11

LEMMA IssueSingleStep ==
  ASSUME IInv, NEW c \in Unused, NEW r \in Requests, IssueSingle(c, r)
  PROVE  IInv'
<1> USE DEF IInv
<1>1. /\ c \in Calls /\ state[Own(c)] = "unused" /\ http[r].pc = "free"
      /\ state' = [state EXCEPT ![Own(c)] = "pending"]
      /\ http' = [http EXCEPT ![r] = Sent(<<Own(c)>>)]
      /\ UNCHANGED <<queue, session, dialog, turns, done, got>>
  BY DEF IssueSingle, Unused
<1>2. /\ Own(c) \in Messages
      /\ state' \in [Messages -> States]
      /\ state'[Own(c)] = "pending"
      /\ \A m \in Messages \ {Own(c)} : state'[m] = state[m]
  BY <1>1, Names DEF TypeOK, States
<1>3. /\ <<Own(c)>> \in Seq(Messages) /\ <<Own(c)>> # <<>>
      /\ IsInjective(<<Own(c)>>) /\ ToSet(<<Own(c)>>) = {Own(c)}
  BY <1>2 DEF IsInjective, ToSet
<1>4. /\ http' \in [Requests -> HttpRecords]
      /\ RepliesFit'
      /\ InBatch(r)' = {Own(c)} /\ Todo(r)' \subseteq {Own(c)}
      /\ http'[r].batch = <<Own(c)>> /\ Len(http'[r].replies) = 0
      /\ \A q \in Requests \ {r} :
           http'[q] = http[q] /\ InBatch(q)' = InBatch(q) /\ Todo(q)' = Todo(q)
  BY <1>1, <1>3, Sending
<1>5. /\ Own(c) \notin ToSet(queue)
      /\ \A q \in Requests : Own(c) \notin InBatch(q)
      /\ c \notin ToSet(done)
  BY <1>1 DEF OnTheWay, Behind
<1>6. ToSet(queue) \subseteq Messages /\ ToSet(done) \subseteq Calls
  BY Membership DEF TypeOK
<1>7. TypeOK'
  BY <1>1, <1>2, <1>4, Names DEF TypeOK
<1>8. Apart'
  BY <1>1, <1>4, <1>5 DEF Apart
<1>9. OnTheWay'
  <2>1. \A m \in ToSet(queue) : state'[m] = "pending"
    BY <1>2, <1>5, <1>6 DEF OnTheWay
  <2>2. ASSUME NEW q \in Requests, NEW m \in InBatch(q)'
        PROVE  state'[m] # "unused" /\ (http'[q].heard => state'[m] = "pending")
    <3>1. CASE q = r
      BY <1>2, <1>4, <3>1
    <3>2. CASE q # r
      BY <1>2, <1>4, <1>5, <3>2, RequestTypes DEF OnTheWay
    <3>3. QED
      BY <3>1, <3>2
  <2>3. ASSUME NEW d \in Calls, state'[Own(d)] \in {"unused", "pending"}
        PROVE  state'[Probe(d)] = "unused"
    <3>1. state[Own(d)] \in {"unused", "pending"}
      BY <1>1, <1>2, <2>3, Names
    <3>2. Probe(d) \in Messages \ {Own(c)}
      BY <1>1, Names
    <3>3. QED
      BY <1>2, <3>1, <3>2 DEF OnTheWay
  <2>4. QED
    BY <1>1, <2>1, <2>2, <2>3 DEF OnTheWay
<1>10. Behind'
  <2>1. ASSUME NEW d \in ToSet(done)
        PROVE  /\ state'[Own(d)] # "unused"
               /\ \A q \in Requests : Own(d) \notin Todo(q)'
    <3>1. d # c /\ d \in Calls /\ Own(d) # Own(c) /\ Own(d) \in Messages
      BY <1>1, <1>5, <1>6, <2>1, Names
    <3>2. QED
      BY <1>2, <1>4, <3>1 DEF Behind
  <2>2. QED
    BY <1>1, <2>1 DEF Behind
<1>11. RepliesTrue'
  BY <1>1, <1>4 DEF RepliesTrue, TrueReply
<1>12. TurnsTogether'
  <2>1. ASSUME NEW a \in Calls, NEW b \in Calls, Together(a, b)
        PROVE  Together(a, b)'
    <3>1. Own(a) # Own(c) /\ Own(b) # Own(c) /\ Own(a) \in Messages /\ Own(b) \in Messages
      BY <1>1, <2>1, Names DEF Together
    <3>2. ASSUME NEW q \in Requests
          PROVE  Ordered(http[q].batch, Own(a), Own(b))'
      <4>1. Ordered(<<Own(c)>>, Own(a), Own(b))
        BY <1>3, <3>1 DEF Ordered
      <4>2. QED
        BY <1>4, <2>1, <4>1 DEF Together, Ordered
    <3>3. QED
      BY <1>1, <1>2, <2>1, <3>1, <3>2 DEF Together, Ordered
  <2>2. QED
    BY <1>1, <2>1 DEF TurnsTogether, TypeOK
<1>13. OwnReply' /\ ExpiryTold'
  BY <1>1, <1>2, Names DEF OwnReply, ExpiryTold
<1>14. QED
  BY <1>4, <1>7, <1>8, <1>9, <1>10, <1>11, <1>12, <1>13

-----------------------------------------------------------------------------
(* A turn of the event loop *)

LEMMA OrderedInJoined ==
  ASSUME NEW S, NEW s \in Seq(S), NEW t \in Seq(S), NEW x, NEW y,
         \/ Ordered(s, x, y) /\ x \notin ToSet(t) /\ y \notin ToSet(t)
         \/ Ordered(t, x, y) /\ x \notin ToSet(s) /\ y \notin ToSet(s)
  PROVE  Ordered(s \o t, x, y)
<1>1. /\ ToSet(s \o t) = ToSet(s) \cup ToSet(t)
      /\ Len(s \o t) = Len(s) + Len(t) /\ Len(s) \in Nat /\ Len(t) \in Nat
      /\ \A i \in 1..Len(s) + Len(t) :
           (s \o t)[i] = IF i <= Len(s) THEN s[i] ELSE t[i - Len(s)]
  BY Joined, ConcatProperties, LenProperties
<1>2. ASSUME NEW i \in 1..Len(s) + Len(t)
      PROVE  /\ i <= Len(s) => i \in 1..Len(s) /\ s[i] \in ToSet(s)
             /\ i > Len(s) => i - Len(s) \in 1..Len(t) /\ t[i - Len(s)] \in ToSet(t)
  BY <1>1, Membership
<1>3. CASE Ordered(s, x, y) /\ x \notin ToSet(t) /\ y \notin ToSet(t)
  <2>1. x \in ToSet(s \o t) <=> y \in ToSet(s \o t)
    BY <1>1, <1>3 DEF Ordered
  <2>2. ASSUME NEW i \in 1..Len(s \o t), NEW j \in 1..Len(s \o t),
               (s \o t)[i] = x, (s \o t)[j] = y
        PROVE  i < j
    <3>1. i <= Len(s) /\ j <= Len(s)
      BY <1>1, <1>2, <1>3, <2>2
    <3>2. i \in 1..Len(s) /\ j \in 1..Len(s) /\ s[i] = x /\ s[j] = y
      BY <1>1, <1>2, <2>2, <3>1
    <3>3. QED
      BY <1>3, <3>2 DEF Ordered
  <2>3. QED
    BY <2>1, <2>2 DEF Ordered
<1>4. CASE Ordered(t, x, y) /\ x \notin ToSet(s) /\ y \notin ToSet(s)
  <2>1. x \in ToSet(s \o t) <=> y \in ToSet(s \o t)
    BY <1>1, <1>4 DEF Ordered
  <2>2. ASSUME NEW i \in 1..Len(s \o t), NEW j \in 1..Len(s \o t),
               (s \o t)[i] = x, (s \o t)[j] = y
        PROVE  i < j
    <3>1. i > Len(s) /\ j > Len(s)
      BY <1>1, <1>2, <1>4, <2>2
    <3>2. /\ i - Len(s) \in 1..Len(t) /\ j - Len(s) \in 1..Len(t)
          /\ t[i - Len(s)] = x /\ t[j - Len(s)] = y
      BY <1>1, <1>2, <2>2, <3>1
    <3>3. i - Len(s) < j - Len(s)
      BY <1>4, <3>2 DEF Ordered
    <3>4. QED
      BY <1>1, <3>3
  <2>3. QED
    BY <2>1, <2>2 DEF Ordered
<1>5. QED
  BY <1>3, <1>4

LEMMA IssueStep ==
  ASSUME IInv, NEW calls \in Seq(Unused), IsInjective(calls), Issue(calls)
  PROVE  IInv'
<1> USE DEF IInv
<1> DEFINE new == [i \in 1..Len(calls) |-> Own(calls[i])]
<1>1. /\ state' = [m \in Messages |->
                    IF ~m.probe /\ Contains(calls, m.call) THEN "pending" ELSE state[m]]
      /\ queue' = queue \o new
      /\ turns' = Append(turns, calls)
      /\ UNCHANGED <<http, session, dialog, done, got>>
  BY DEF Issue
<1>2. Unused \subseteq Calls /\ calls \in Seq(Calls) /\ Len(calls) \in Nat
  BY DEF Unused
<1>3. \A i \in 1..Len(calls) : calls[i] \in Unused /\ Own(calls[i]) \in Messages
  BY <1>2, Names
<1>4. /\ new \in Seq(Messages) /\ Len(new) = Len(calls)
      /\ \A i \in 1..Len(calls) : new[i] = Own(calls[i])
  BY <1>2, <1>3
<1> HIDE DEF new
<1>5. \A m : m \in ToSet(new) <=> \E i \in 1..Len(calls) : Own(calls[i]) = m
  BY <1>4, Membership
<1>6. IsInjective(new)
  BY <1>2, <1>3, <1>4, Names DEF IsInjective
<1>7. ASSUME NEW m \in Messages
      PROVE  /\ m \in ToSet(new) => ~m.probe /\ state[m] = "unused" /\ state'[m] = "pending"
             /\ m \notin ToSet(new) => state'[m] = state[m]
  <2>1. \A e : Contains(calls, e) <=> \E i \in 1..Len(calls) : calls[i] = e
    BY DEF Contains
  <2>2. CASE m \in ToSet(new)
    <3>1. PICK i \in 1..Len(calls) : Own(calls[i]) = m
      BY <1>5, <2>2
    <3>2. ~m.probe /\ m.call = calls[i] /\ state[m] = "unused"
      BY <1>2, <1>3, <3>1, Names DEF Unused
    <3>3. QED
      BY <1>1, <2>1, <2>2, <3>2
  <2>3. CASE m \notin ToSet(new)
    <3>1. ~(~m.probe /\ Contains(calls, m.call))
      BY <1>5, <2>1, <2>3, Names
    <3>2. QED
      BY <1>1, <2>3, <3>1
  <2>4. QED
    BY <2>2, <2>3
<1>8. /\ ToSet(queue) \subseteq Messages /\ ToSet(done) \subseteq Calls
      /\ ToSet(new) \subseteq Messages
  <2>1. queue \in Seq(Messages) /\ done \in Seq(Calls)
    BY DEF TypeOK
  <2>2. QED
    BY <1>4, <2>1, Membership
<1>9. /\ ToSet(new) \cap ToSet(queue) = {}
      /\ \A r \in Requests : ToSet(new) \cap InBatch(r) = {}
      /\ \A c \in ToSet(done) : Own(c) \notin ToSet(new)
  <2>1. ASSUME NEW m \in ToSet(new)
        PROVE  m \in Messages /\ ~m.probe /\ state[m] = "unused"
    BY <1>7, <1>8
  <2>2. \A r \in Requests : InBatch(r) \subseteq Messages
    BY RequestTypes
  <2>3. QED
    BY <1>8, <2>1, <2>2, Names DEF OnTheWay, Behind
<1>10. /\ queue' \in Seq(Messages)
       /\ ToSet(queue') = ToSet(queue) \cup ToSet(new)
       /\ IsInjective(queue')
  BY <1>1, <1>4, <1>6, <1>9, Joined DEF TypeOK, Apart
<1>11. \A r \in Requests : InBatch(r)' = InBatch(r) /\ Todo(r)' = Todo(r)
  BY <1>1 DEF InBatch, Todo
<1>12. TypeOK'
  <2>1. state' \in [Messages -> States] /\ \A m \in Messages : m.probe => state'[m] # "waiting"
    BY <1>1, <1>7 DEF TypeOK, States
  <2>2. turns' \in Seq(Seq(Calls))
    BY <1>1, <1>2, Appended DEF TypeOK
  <2>3. QED
    BY <1>1, <1>10, <2>1, <2>2 DEF TypeOK
<1>13. RepliesFit'
  BY <1>1 DEF RepliesFit, Fits
<1>14. Apart'
  BY <1>9, <1>10, <1>11 DEF Apart
<1>15. OnTheWay'
  <2>1. \A m \in ToSet(queue') : state'[m] = "pending"
    BY <1>7, <1>8, <1>10 DEF OnTheWay
  <2>2. \A r \in Requests : \A m \in InBatch(r)' :
          state'[m] # "unused" /\ (http'[r].heard => state'[m] = "pending")
    BY <1>1, <1>7, <1>9, <1>11, RequestTypes DEF OnTheWay
  <2>3. ASSUME NEW c \in Calls, state'[Own(c)] \in {"unused", "pending"}
        PROVE  state'[Probe(c)] = "unused"
    <3>1. state[Own(c)] \in {"unused", "pending"}
      BY <1>7, <2>3, Names
    <3>2. QED
      BY <1>7, <3>1, Names DEF OnTheWay
  <2>4. QED
    BY <2>1, <2>2, <2>3 DEF OnTheWay
<1>16. Behind'
  <2>1. ASSUME NEW c \in ToSet(done)
        PROVE  /\ state'[Own(c)] # "unused"
               /\ Own(c) \notin ToSet(queue')
               /\ \A r \in Requests : Own(c) \notin Todo(r)'
    <3>1. Own(c) \in Messages /\ Own(c) \notin ToSet(new)
      BY <1>8, <1>9, Names
    <3>2. QED
      BY <1>7, <1>10, <1>11, <3>1 DEF Behind
  <2>2. QED
    BY <1>1, <2>1 DEF Behind
<1>17. RepliesTrue'
  BY <1>1 DEF RepliesTrue, TrueReply
<1>18. TurnsTogether'
  <2>1. ASSUME NEW a \in Calls, NEW b \in Calls, Together(a, b)
        PROVE  Together(a, b)'
    <3>1. /\ Own(a) \in Messages /\ Own(b) \in Messages
          /\ Own(a) \notin ToSet(new) /\ Own(b) \notin ToSet(new)
      BY <1>7, <2>1, Names DEF Together
    <3>2. Ordered(queue', Own(a), Own(b))
      <4>1. queue \in Seq(Messages) /\ Ordered(queue, Own(a), Own(b))
        BY <2>1 DEF Together, TypeOK
      <4>2. QED
        BY <1>1, <1>4, <3>1, <4>1, OrderedInJoined
    <3>3. QED
      BY <1>1, <1>7, <2>1, <3>1, <3>2 DEF Together
  <2>2. ASSUME NEW i \in 1..Len(calls), NEW j \in 1..Len(calls), i < j
        PROVE  Together(calls[i], calls[j])'
    <3> DEFINE x == Own(calls[i])
               y == Own(calls[j])
    <3>1. calls[i] # calls[j]
      BY <1>2, <2>2 DEF IsInjective
    <3>2. x \in ToSet(new) /\ y \in ToSet(new) /\ new[i] = x /\ new[j] = y
      BY <1>4, <1>5
    <3>3. Ordered(new, x, y)
      BY <1>4, <1>6, <2>2, <3>2 DEF Ordered, IsInjective
    <3>4. Ordered(queue', x, y)
      <4>1. queue \in Seq(Messages) /\ x \notin ToSet(queue) /\ y \notin ToSet(queue)
        BY <1>9, <3>2 DEF TypeOK
      <4>2. QED
        BY <1>1, <1>4, <3>3, <4>1, OrderedInJoined
    <3>5. ASSUME NEW r \in Requests
          PROVE  Ordered(http'[r].batch, x, y)
      <4>1. x \notin InBatch(r) /\ y \notin InBatch(r)
        BY <1>9, <3>2
      <4>2. QED
        BY <1>1, <4>1, RequestTypes DEF Ordered, InBatch
    <3>6. \A n \in 1..Len(done) : done[n] # calls[i]
      BY <1>9, <3>2, Membership DEF TypeOK
    <3>7. state'[x] = "pending" /\ state'[y] = "pending"
      BY <1>7, <1>8, <3>2
    <3>8. QED
      BY <1>1, <3>1, <3>4, <3>5, <3>6, <3>7 DEF Together
  <2>3. /\ Len(turns') = Len(turns) + 1 /\ Len(turns) \in Nat
        /\ turns'[Len(turns) + 1] = calls
        /\ \A n \in 1..Len(turns) : turns'[n] = turns[n]
    <3>1. turns \in Seq(Seq(Calls))
      BY DEF TypeOK
    <3>2. QED
      BY <1>1, <1>2, <3>1, Appended
  <2>4. ASSUME NEW n \in 1..Len(turns'), NEW a \in 1..Len(turns'[n]),
               NEW b \in 1..Len(turns'[n]), a < b
        PROVE  Together(turns[n][a], turns[n][b])'
    <3>1. CASE n = Len(turns) + 1
      BY <2>2, <2>3, <2>4, <3>1
    <3>2. CASE n # Len(turns) + 1
      <4>1. n \in 1..Len(turns) /\ turns'[n] = turns[n] /\ turns[n] \in Seq(Calls)
        BY <2>3, <3>2 DEF TypeOK
      <4>2. QED
        BY <2>1, <2>4, <4>1 DEF TurnsTogether
    <3>3. QED
      BY <3>1, <3>2
  <2>5. QED
    BY <2>4 DEF TurnsTogether
<1>19. OwnReply' /\ ExpiryTold'
  BY <1>1, <1>7, Names DEF OwnReply, ExpiryTold
<1>20. QED
  BY <1>12, <1>13, <1>14, <1>15, <1>16, <1>17, <1>18, <1>19

-----------------------------------------------------------------------------
(* The device *)

LEMMA ServerCallStep ==
  ASSUME IInv, NEW r \in Requests, ServerCall(r)
  PROVE  IInv'
<1> USE DEF IInv
<1> DEFINE k == Len(http[r].replies) + 1
           m == http[r].batch[k]
<1>1. PICK code \in Codes(m) :
        /\ done' = IF code = "ok" /\ ~m.probe THEN Append(done, m.call) ELSE done
        /\ http' = [http EXCEPT
             ![r].replies = Append(@, [of |-> m, code |-> code]),
             ![r].pc = IF k = Len(http[r].batch) THEN "answered" ELSE @]
        /\ http[r].pc = "sent"
        /\ UNCHANGED <<state, queue, session, dialog, turns, got>>
  BY DEF ServerCall
<1> DEFINE new == [of |-> m, code |-> code]
<1>2. /\ http[r] \in HttpRecords
      /\ http[r].batch \in Seq(Messages) /\ Len(http[r].batch) \in Nat
      /\ http[r].replies \in Seq(Replies) /\ Len(http[r].replies) \in Nat
      /\ Fits(r) /\ Len(http[r].replies) < Len(http[r].batch)
  BY <1>1, RequestTypes DEF RepliesFit, Fits
<1>3. k \in 1..Len(http[r].batch) /\ m \in Messages /\ m \in InBatch(r) /\ m \in Todo(r)
  BY <1>2, RequestTypes DEF Todo
<1>4. /\ m.call \in Calls
      /\ ~m.probe => m = Own(m.call)
      /\ m.probe => m = Probe(m.call)
  BY <1>3, Names
<1>5. /\ new \in Replies /\ new.of = m /\ new.code = code
      /\ code = "gone" => ~session
      /\ m.probe => code \in {"gone", "ok"}
      /\ code = "ok" => session
  BY <1>1, <1>3 DEF Codes, Replies
<1> HIDE DEF new
<1>6. /\ http'[r] = [http[r] EXCEPT !.replies = Append(@, new),
                                   !.pc = IF k = Len(http[r].batch) THEN "answered" ELSE @]
      /\ \A q \in Requests \ {r} : http'[q] = http[q]
  BY <1>1 DEF TypeOK, new
<1>7. /\ http'[r].batch = http[r].batch
      /\ http'[r].heard = http[r].heard
      /\ http'[r].replies = Append(http[r].replies, new)
      /\ http'[r].pc = IF k = Len(http[r].batch) THEN "answered" ELSE "sent"
      /\ http'[r] \in HttpRecords
  <2>1. Append(http[r].replies, new) \in Seq(Replies)
    BY <1>2, <1>5, Appended
  <2>2. PICK pc \in {"sent", "answered"} :
          /\ pc = IF k = Len(http[r].batch) THEN "answered" ELSE "sent"
          /\ http'[r] = [http[r] EXCEPT !.replies = Append(@, new), !.pc = pc]
    BY <1>1, <1>6
  <2>3. QED
    BY <1>2, <2>1, <2>2 DEF HttpRecords
<1>8. /\ Len(http'[r].replies) = k
      /\ http'[r].replies[k] = new
      /\ \A i \in 1..Len(http[r].replies) : http'[r].replies[i] = http[r].replies[i]
  BY <1>2, <1>5, <1>7, Appended
<1>9. /\ \A q \in Requests : InBatch(q)' = InBatch(q) /\ http'[q].heard = http[q].heard
      /\ \A q \in Requests \ {r} : Todo(q)' = Todo(q)
  <2>1. \A q \in Requests : http'[q].batch = http[q].batch /\ http'[q].heard = http[q].heard
    BY <1>6, <1>7
  <2>2. QED
    BY <1>6, <2>1 DEF InBatch, Todo
<1>10. \A x \in Todo(r)' : x \in Todo(r) /\ x # m
  <2>1. ASSUME NEW i \in (k + 1)..Len(http[r].batch)
        PROVE  http[r].batch[i] \in Todo(r) /\ http[r].batch[i] # m
    <3>1. i \in 1..Len(http[r].batch) /\ i # k /\ i \in k..Len(http[r].batch)
      BY <1>2, <1>3
    <3>2. QED
      BY <1>2, <1>3, <3>1 DEF Todo, Fits, IsInjective
  <2>2. QED
    BY <1>7, <1>8, <2>1 DEF Todo
<1>11. /\ done' \in Seq(Calls) /\ IsInjective(done')
       /\ ToSet(done) \subseteq ToSet(done')
       /\ \A c \in ToSet(done') \ ToSet(done) : ~m.probe /\ c = m.call
       /\ code = "ok" /\ ~m.probe => m.call \in ToSet(done')
  <2>1. done \in Seq(Calls) /\ IsInjective(done)
    BY DEF TypeOK, Behind
  <2>2. ~m.probe => m.call \notin ToSet(done)
    BY <1>3, <1>4 DEF Behind
  <2>3. CASE code = "ok" /\ ~m.probe
    BY <1>1, <1>4, <2>1, <2>2, <2>3, Appended
  <2>4. CASE ~(code = "ok" /\ ~m.probe)
    BY <1>1, <2>1, <2>4
  <2>5. QED
    BY <2>3, <2>4
<1>12. TypeOK'
  <2>1. http' \in [Requests -> HttpRecords]
    BY <1>1, <1>6, <1>7 DEF TypeOK
  <2>2. QED
    BY <1>1, <1>11, <2>1 DEF TypeOK
<1>13. RepliesFit'
  <2>1. Fits(r)'
    BY <1>2, <1>3, <1>5, <1>7, <1>8 DEF Fits
  <2>2. \A q \in Requests \ {r} : Fits(q)'
    BY <1>6 DEF Fits, RepliesFit
  <2>3. QED
    BY <2>1, <2>2 DEF RepliesFit
<1>14. Apart'
  BY <1>1, <1>9 DEF Apart
<1>15. OnTheWay'
  BY <1>1, <1>9 DEF OnTheWay
<1>16. Behind'
  <2>1. ASSUME NEW c \in ToSet(done')
        PROVE  /\ state[Own(c)] # "unused"
               /\ Own(c) \notin ToSet(queue)
               /\ \A q \in Requests : Own(c) \notin Todo(q)'
    <3>1. CASE c \in ToSet(done)
      BY <1>9, <1>10, <3>1 DEF Behind
    <3>2. CASE c \notin ToSet(done)
      <4>1. Own(c) = m
        BY <1>4, <1>11, <2>1, <3>2
      <4>2. \A q \in Requests \ {r} : m \notin Todo(q)
        BY <1>3, TodoInBatch DEF Apart
      <4>3. QED
        BY <1>3, <1>9, <1>10, <4>1, <4>2 DEF OnTheWay, Apart
    <3>3. QED
      BY <3>1, <3>2
  <2>2. QED
    BY <1>1, <1>11, <2>1 DEF Behind
<1>17. RepliesTrue'
  <2>1. ASSUME NEW y \in Replies, TrueReply(y)
        PROVE  TrueReply(y)'
    BY <1>1, <1>11, <2>1 DEF TrueReply
  <2>2. PICK y : y = new
    OBVIOUS
  <2> HIDE DEF k
  <2>3. TrueReply(y)'
    BY <1>1, <1>4, <1>5, <1>11, <2>2 DEF TrueReply, RepliesTrue
  <2>4. ASSUME NEW q \in Requests, NEW i \in 1..Len(http'[q].replies)
        PROVE  TrueReply(http[q].replies[i])'
    <3>1. CASE q = r /\ i = k
      BY <1>8, <2>2, <2>3, <3>1
    <3>2. CASE q = r /\ i # k
      <4>1. i \in 1..Len(http[r].replies)
        BY <1>2, <1>8, <2>4, <3>2 DEF k
      <4>2. http[r].replies[i] \in Replies
        BY <1>2, <4>1
      <4>3. QED
        BY <1>8, <2>1, <3>2, <4>1, <4>2 DEF RepliesTrue
    <3>3. CASE q # r
      <4>1. http'[q] = http[q] /\ http[q].replies[i] \in Replies
        BY <1>6, <2>4, <3>3, RequestTypes
      <4>2. QED
        BY <2>1, <2>4, <4>1 DEF RepliesTrue
    <3>4. QED
      BY <3>1, <3>2, <3>3
  <2>5. QED
    BY <1>1, <2>4 DEF RepliesTrue
<1>18. TurnsTogether'
  <2>1. ASSUME NEW c \in Calls, NEW d \in Calls, Together(c, d)
        PROVE  Together(c, d)'
    <3>1. \A q \in Requests : http'[q].batch = http[q].batch
      BY <1>6, <1>7
    <3>2. ASSUME NEW i \in 1..Len(done'), NEW j \in 1..Len(done'), done'[i] = c, done'[j] = d
          PROVE  i < j
      <4>1. CASE done' = done
        BY <2>1, <3>2, <4>1 DEF Together
      <4>2. CASE done' # done
        <5>1. /\ ~m.probe /\ done' = Append(done, m.call)
              /\ done \in Seq(Calls) /\ Len(done) \in Nat /\ Len(done') = Len(done) + 1
              /\ \A n \in 1..Len(done) : done'[n] = done[n]
              /\ done'[Len(done) + 1] = m.call
          BY <1>1, <1>4, <4>2, Appended DEF TypeOK
        <5>2. CASE i \in 1..Len(done) /\ j \in 1..Len(done)
          BY <2>1, <3>2, <5>1, <5>2 DEF Together
        <5>3. CASE i \in 1..Len(done) /\ j = Len(done) + 1
          BY <5>1, <5>3
        <5>4. CASE i = Len(done) + 1 /\ j \in 1..Len(done)
          <6>1. Own(c) = m /\ d \in ToSet(done)
            BY <1>4, <3>2, <5>1, <5>4, Membership
          <6>2. PICK n \in 1..Len(http[r].batch) : http[r].batch[n] = Own(d)
            BY <1>3, <2>1, <6>1, RequestTypes DEF Together, Ordered, InBatch
          <6>3. k < n
            BY <1>3, <2>1, <6>1, <6>2 DEF Together, Ordered
          <6>4. Own(d) \in Todo(r)
            BY <1>2, <6>2, <6>3 DEF Todo
          <6>5. QED
            BY <6>1, <6>4 DEF Behind
        <5>5. CASE i = Len(done) + 1 /\ j = Len(done) + 1
          BY <2>1, <3>2, <5>5 DEF Together
        <5>6. QED
          BY <5>1, <5>2, <5>3, <5>4, <5>5
      <4>3. QED
        BY <4>1, <4>2
    <3>3. QED
      BY <1>1, <2>1, <3>1, <3>2 DEF Together
  <2>2. QED
    BY <1>1, <2>1 DEF TurnsTogether, TypeOK
<1>19. OwnReply' /\ ExpiryTold'
  <2>1. \A c : Contains(done, c) => Contains(done', c)
    BY <1>11, Membership DEF TypeOK
  <2>2. QED
    BY <1>1, <2>1 DEF OwnReply, ExpiryTold
<1>20. QED
  BY <1>12, <1>13, <1>14, <1>15, <1>16, <1>17, <1>18, <1>19

LEMMA ExpireStep ==
  ASSUME IInv, Expire
  PROVE  IInv'
<1>1. session' = FALSE /\ UNCHANGED <<state, queue, http, dialog, turns, done, got>>
  BY DEF Expire
<1>2. \A r : InBatch(r)' = InBatch(r) /\ Todo(r)' = Todo(r)
  BY <1>1 DEF InBatch, Todo
<1>3. TypeOK' /\ RepliesFit' /\ Apart' /\ OnTheWay' /\ Behind'
  BY <1>1, <1>2 DEF IInv, TypeOK, RepliesFit, Fits, Apart, OnTheWay, Behind
<1>4. RepliesTrue'
  BY <1>1 DEF IInv, RepliesTrue, TrueReply
<1>5. TurnsTogether' /\ OwnReply' /\ ExpiryTold'
  BY <1>1 DEF IInv, TurnsTogether, Together, OwnReply, ExpiryTold
<1>6. QED
  BY <1>3, <1>4, <1>5 DEF IInv

-----------------------------------------------------------------------------
(* Answers *)

\* A request that is over, or given up, leaves less of itself.
LEMMA Ending ==
  ASSUME TypeOK, RepliesFit, NEW r \in Requests,
         \/ http' = [http EXCEPT ![r] = Free]
         \/ http' = [http EXCEPT ![r].heard = FALSE]
  PROVE  /\ http' \in [Requests -> HttpRecords]
         /\ RepliesFit'
         /\ ~http'[r].heard
         /\ InBatch(r)' \subseteq InBatch(r) /\ Todo(r)' \subseteq Todo(r)
         /\ http'[r].batch \in {<<>>, http[r].batch}
         /\ \A i \in 1..Len(http'[r].replies) :
              i \in 1..Len(http[r].replies) /\ http'[r].replies[i] = http[r].replies[i]
         /\ \A q \in Requests \ {r} :
              http'[q] = http[q] /\ InBatch(q)' = InBatch(q) /\ Todo(q)' = Todo(q)
<1>1. \A q \in Requests \ {r} :
        http'[q] = http[q] /\ InBatch(q)' = InBatch(q) /\ Todo(q)' = Todo(q)
  BY DEF TypeOK, InBatch, Todo
<1>2. \A q \in Requests \ {r} : Fits(q)'
  BY <1>1 DEF RepliesFit, Fits
<1>3. http[r] \in HttpRecords
  BY DEF TypeOK
<1>4. CASE http' = [http EXCEPT ![r] = Free]
  <2>1. http'[r] = Free
    BY <1>4 DEF TypeOK
  <2>2. Free \in HttpRecords
    BY DEF Free, HttpRecords
  <2>3. /\ http'[r].batch = <<>> /\ http'[r].replies = <<>> /\ ~http'[r].heard
        /\ http'[r].pc = "free" /\ Len(<<>>) = 0
    BY <2>1 DEF Free
  <2>4. http' \in [Requests -> HttpRecords]
    BY <1>4, <2>2 DEF TypeOK
  <2>5. InBatch(r)' = {} /\ Todo(r)' = {}
    BY <2>3 DEF InBatch, Todo, ToSet
  <2>6. Fits(r)'
    BY <2>3 DEF Fits, IsInjective
  <2>7. QED
    BY <1>1, <1>2, <2>3, <2>4, <2>5, <2>6 DEF RepliesFit
<1>5. CASE http' = [http EXCEPT ![r].heard = FALSE]
  <2>1. http'[r] = [http[r] EXCEPT !.heard = FALSE]
    BY <1>5 DEF TypeOK
  <2>2. /\ http'[r].batch = http[r].batch /\ http'[r].replies = http[r].replies
        /\ http'[r].pc = http[r].pc /\ ~http'[r].heard /\ http'[r] \in HttpRecords
    BY <1>3, <2>1 DEF HttpRecords
  <2>3. http' \in [Requests -> HttpRecords]
    BY <1>5, <2>1, <2>2 DEF TypeOK
  <2>4. InBatch(r)' = InBatch(r) /\ Todo(r)' = Todo(r)
    BY <2>2 DEF InBatch, Todo
  <2>5. Fits(r)'
    BY <2>2 DEF RepliesFit, Fits
  <2>6. QED
    BY <1>1, <1>2, <2>2, <2>3, <2>4, <2>5 DEF RepliesFit
<1>6. QED
  BY <1>4, <1>5

\* A list of all members of a finite set.
LEMMA AsList ==
  ASSUME NEW S, IsFiniteSet(S), NEW s \in SetToSeqs(S)
  PROVE  s \in Seq(S) /\ IsInjective(s)
<1>1. Cardinality(S) \in Nat
  BY FS_CardinalityType
<1>2. s \in [1..Cardinality(S) -> S] /\ \A i, j \in 1..Cardinality(S) : i # j => s[i] # s[j]
  BY DEF SetToSeqs
<1>3. QED
  BY <1>1, <1>2 DEF IsInjective

\* What follows from the replies, or their loss, for each message of the batch,
\* the call that waits for it, the probe it makes the interceptor send, and all
\* others.
LEMMA Settling ==
  ASSUME IInv, NEW r \in Requests, http[r].heard,
         NEW replies \in Seq(Replies), Len(replies) = Len(http[r].batch),
         \A i \in 1..Len(replies) :
            /\ replies[i].of = http[r].batch[i]
            /\ replies[i].code = "lost" \/ TrueReply(replies[i]),
         Settle(r, replies)
  PROVE  /\ \A c \in Calls : Own(c) \in InBatch(r) =>
              /\ got'[c] \in Replies /\ got'[c].of = Own(c)
              /\ got'[c].code = "lost" \/ TrueReply(got'[c])
              /\ state'[Own(c)] = Outcome(Own(c), got'[c].code)
              /\ state[Own(c)] = "pending" /\ state[Probe(c)] = "unused"
              /\ Probe(c) \notin InBatch(r)
              /\ state'[Probe(c)] = IF state'[Own(c)] = "waiting" THEN "pending" ELSE "unused"
         /\ \A c \in Calls : Own(c) \notin InBatch(r) => got'[c] = got[c]
         /\ \A c \in Calls : Probe(c) \in InBatch(r) =>
              /\ Own(c) \notin InBatch(r)
              /\ state[Probe(c)] = "pending" /\ state[Own(c)] \notin {"unused", "pending"}
              /\ state'[Own(c)] = "rejected"
              /\ \/ state'[Probe(c)] = "resolved" /\ got[c].code # "gone"
                 \/ state'[Probe(c)] = "rejected" /\ dialog'
         /\ \A c \in Calls : Own(c) \notin InBatch(r) /\ Probe(c) \notin InBatch(r) =>
              state'[Own(c)] = state[Own(c)] /\ state'[Probe(c)] = state[Probe(c)]
         /\ \E probes \in Seq(Messages) :
              /\ queue' = queue \o probes /\ IsInjective(probes)
              /\ \A m \in ToSet(probes) :
                   \E c \in Calls : /\ m = Probe(c) /\ Own(c) \in InBatch(r)
                                   /\ state'[Own(c)] = "waiting"
         /\ dialog => dialog'
         /\ dialog' \in BOOLEAN
         /\ state' = [m \in Messages |-> state'[m]] /\ got' = [c \in Calls |-> got'[c]]
<1> USE DEF IInv
<1> DEFINE batch == http[r].batch
           heard == ToSet(batch)
           reply == [m \in heard |-> replies[PlaceOf(batch, m)]]
           after == [m \in heard |-> Outcome(m, reply[m].code)]
           waits == {m \in heard : after[m] = "waiting"}
<1>1. /\ state' = [m \in Messages |->
            IF m \in heard THEN after[m]
            ELSE IF ~m.probe /\ Probe(m.call) \in heard THEN "rejected"
            ELSE IF m.probe /\ Own(m.call) \in waits THEN "pending"
            ELSE state[m]]
      /\ \E probes \in SetToSeqs({Probe(m.call) : m \in waits}) : queue' = queue \o probes
      /\ dialog' = (dialog \/ \E m \in heard : m.probe /\ after[m] = "rejected")
      /\ got' = [c \in Calls |-> IF Own(c) \in heard THEN reply[Own(c)] ELSE got[c]]
  BY DEF Settle
<1>2. heard = InBatch(r) /\ heard \subseteq Messages
  BY RequestTypes DEF InBatch
<1>3. ASSUME NEW m \in heard
      PROVE  /\ reply[m] \in Replies /\ reply[m].of = m
             /\ reply[m].code = "lost" \/ TrueReply(reply[m])
             /\ after[m] = Outcome(m, reply[m].code)
  <2>1. PICK i \in 1..Len(batch) : batch[i] = m
    BY <1>2, RequestTypes
  <2>2. PlaceOf(batch, m) = i
    <3>1. batch \in Seq(Messages) /\ IsInjective(batch)
      BY RequestTypes DEF RepliesFit, Fits
    <3>2. QED
      BY <2>1, <3>1, OnePlace
  <2>3. reply[m] = replies[i] /\ i \in 1..Len(replies)
    BY <2>2
  <2>4. after[m] = Outcome(m, reply[m].code)
    OBVIOUS
  <2> HIDE DEF reply, after
  <2>5. QED
    BY <2>1, <2>3, <2>4
<1> HIDE DEF heard, reply, after
<1>4. ASSUME NEW c \in Calls
      PROVE  /\ Own(c) \in heard => /\ state[Own(c)] = "pending" /\ state[Probe(c)] = "unused"
                                    /\ Probe(c) \notin heard
             /\ Probe(c) \in heard => /\ state[Probe(c)] = "pending" /\ Own(c) \notin heard
                                      /\ state[Own(c)] \notin {"unused", "pending"}
  BY <1>2 DEF OnTheWay
<1>5. \A m \in waits : m \in heard /\ ~m.probe /\ after[m] = "waiting"
  BY <1>3 DEF Outcome, NeedsProbe
<1>6. ASSUME NEW c \in Calls, Own(c) \in heard
      PROVE  /\ got'[c] = reply[Own(c)] /\ state'[Own(c)] = after[Own(c)]
             /\ state'[Probe(c)] = IF state'[Own(c)] = "waiting" THEN "pending" ELSE "unused"
  <2>1. got'[c] = reply[Own(c)] /\ state'[Own(c)] = after[Own(c)]
    BY <1>1, <1>2, <1>6
  <2>2. Own(c) \in waits <=> state'[Own(c)] = "waiting"
    BY <1>6, <2>1
  <2>3. /\ Probe(c) \in Messages /\ Probe(c).probe /\ Probe(c).call = c
        /\ Probe(c) \notin heard /\ state[Probe(c)] = "unused"
    BY <1>4, <1>6, Names
  <2>4. QED
    BY <1>1, <2>1, <2>2, <2>3
<1>7. ASSUME NEW c \in Calls, Probe(c) \in heard
      PROVE  /\ state'[Own(c)] = "rejected" /\ state'[Probe(c)] = after[Probe(c)]
             /\ \/ after[Probe(c)] = "resolved" /\ got[c].code # "gone"
                \/ after[Probe(c)] = "rejected" /\ dialog'
  <2>1. Own(c) \notin heard /\ Own(c) \in Messages /\ ~Own(c).probe /\ Own(c).call = c
    BY <1>4, <1>7, Names
  <2>2. Probe(c).probe /\ Probe(c).call = c /\ Probe(c) \in Messages
    BY Names
  <2>3. state'[Own(c)] = "rejected" /\ state'[Probe(c)] = after[Probe(c)]
    BY <1>1, <1>7, <2>1, <2>2
  <2>4. reply[Probe(c)].code \in {"gone", "ok", "lost"}
    BY <1>3, <1>7, <2>2 DEF TrueReply
  <2>5. reply[Probe(c)].code = "ok" => got[c].code # "gone"
    BY <1>3, <1>7, <2>2 DEF TrueReply
  <2>6. CASE reply[Probe(c)].code = "ok"
    BY <1>3, <1>7, <2>2, <2>3, <2>5, <2>6 DEF Outcome, NeedsProbe
  <2>7. CASE reply[Probe(c)].code # "ok"
    <3>1. after[Probe(c)] = "rejected"
      BY <1>3, <1>7, <2>2, <2>4, <2>7 DEF Outcome, NeedsProbe
    <3>2. QED
      BY <1>1, <1>7, <2>2, <2>3, <3>1
  <2>8. QED
    BY <2>6, <2>7
<1>8. ASSUME NEW c \in Calls, Own(c) \notin heard
      PROVE  /\ got'[c] = got[c]
             /\ Probe(c) \notin heard =>
                  state'[Own(c)] = state[Own(c)] /\ state'[Probe(c)] = state[Probe(c)]
  <2>1. got'[c] = got[c]
    BY <1>1, <1>8
  <2>2. /\ Own(c) \in Messages /\ ~Own(c).probe /\ Own(c).call = c
        /\ Probe(c) \in Messages /\ Probe(c).probe /\ Probe(c).call = c
    BY Names
  <2>3. Own(c) \notin waits
    BY <1>5, <1>8
  <2>4. QED
    BY <1>1, <1>8, <2>1, <2>2, <2>3
<1>9. \E probes \in Seq(Messages) :
        /\ queue' = queue \o probes /\ IsInjective(probes)
        /\ \A m \in ToSet(probes) :
             \E c \in Calls : /\ m = Probe(c) /\ Own(c) \in heard
                             /\ state'[Own(c)] = "waiting"
  <2> DEFINE P == {Probe(m.call) : m \in waits}
  <2>1. \A m \in waits : m = Own(m.call) /\ m.call \in Calls
    BY <1>2, <1>5, Names
  <2> HIDE DEF waits
  <2>2. \A p \in P : \E c \in Calls : p = Probe(c) /\ Own(c) \in waits
    BY <2>1
  <2>3. P \subseteq {Probe(c) : c \in Calls}
    BY <2>2
  <2>4. IsFiniteSet({Probe(c) : c \in Calls})
    <3>1. [c \in Calls |-> Probe(c)] \in Surjection(Calls, {Probe(c) : c \in Calls})
      BY Zenon DEF Surjection
    <3>2. QED
      BY <3>1, CallsAssumption, FS_Surjection, Zenon
  <2>5. IsFiniteSet(P)
    BY <2>3, <2>4, FS_Subset
  <2>6. PICK probes \in SetToSeqs(P) : queue' = queue \o probes
    BY <1>1
  <2>7. probes \in Seq(P) /\ IsInjective(probes) /\ ToSet(probes) \subseteq P
    BY <2>5, AsList, Membership
  <2>8. P \subseteq Messages
    BY <2>3, Names
  <2>9. probes \in Seq(Messages)
    BY <2>7, <2>8
  <2>10. ASSUME NEW m \in ToSet(probes)
         PROVE  \E c \in Calls : m = Probe(c) /\ Own(c) \in heard /\ state'[Own(c)] = "waiting"
    <3>1. PICK c \in Calls : m = Probe(c) /\ Own(c) \in waits
      BY <2>2, <2>7
    <3>2. QED
      BY <1>5, <1>6, <3>1
  <2>11. QED
    BY <2>6, <2>7, <2>9, <2>10
<1>10. dialog' \in BOOLEAN /\ (dialog => dialog')
  BY <1>1 DEF TypeOK
<1>11. state' = [m \in Messages |-> state'[m]] /\ got' = [c \in Calls |-> got'[c]]
  BY <1>1
<1>12. \A c \in Calls : Own(c) \in heard =>
         /\ got'[c] \in Replies /\ got'[c].of = Own(c)
         /\ got'[c].code = "lost" \/ TrueReply(got'[c])
         /\ state'[Own(c)] = Outcome(Own(c), got'[c].code)
  BY <1>3, <1>6
<1> HIDE DEF waits
<1>13. /\ \A c \in Calls : Own(c) \in heard =>
            /\ state[Own(c)] = "pending" /\ state[Probe(c)] = "unused"
            /\ Probe(c) \notin heard
            /\ state'[Probe(c)] = IF state'[Own(c)] = "waiting" THEN "pending" ELSE "unused"
       /\ \A c \in Calls : Probe(c) \in heard =>
            /\ Own(c) \notin heard
            /\ state[Probe(c)] = "pending" /\ state[Own(c)] \notin {"unused", "pending"}
            /\ state'[Own(c)] = "rejected"
            /\ \/ state'[Probe(c)] = "resolved" /\ got[c].code # "gone"
               \/ state'[Probe(c)] = "rejected" /\ dialog'
  BY <1>4, <1>6, <1>7
<1>14. QED
  BY <1>2, <1>8, <1>9, <1>10, <1>11, <1>12, <1>13, Zenon

LEMMA SettleStep ==
  ASSUME IInv, NEW r \in Requests, http[r].heard,
         NEW replies \in Seq(Replies), Len(replies) = Len(http[r].batch),
         \A i \in 1..Len(replies) :
            /\ replies[i].of = http[r].batch[i]
            /\ replies[i].code = "lost" \/ TrueReply(replies[i]),
         Settle(r, replies),
         \/ http' = [http EXCEPT ![r] = Free]
         \/ http' = [http EXCEPT ![r].heard = FALSE],
         UNCHANGED <<session, turns, done>>
  PROVE  IInv'
<1> USE DEF IInv
<1>1. /\ \A c \in Calls : Own(c) \in InBatch(r) =>
           /\ got'[c] \in Replies /\ got'[c].of = Own(c)
           /\ got'[c].code = "lost" \/ TrueReply(got'[c])
           /\ state'[Own(c)] = Outcome(Own(c), got'[c].code)
           /\ state[Own(c)] = "pending" /\ state[Probe(c)] = "unused"
           /\ Probe(c) \notin InBatch(r)
           /\ state'[Probe(c)] = IF state'[Own(c)] = "waiting" THEN "pending" ELSE "unused"
      /\ \A c \in Calls : Own(c) \notin InBatch(r) => got'[c] = got[c]
      /\ \A c \in Calls : Probe(c) \in InBatch(r) =>
           /\ Own(c) \notin InBatch(r)
           /\ state[Probe(c)] = "pending" /\ state[Own(c)] \notin {"unused", "pending"}
           /\ state'[Own(c)] = "rejected"
           /\ \/ state'[Probe(c)] = "resolved" /\ got[c].code # "gone"
              \/ state'[Probe(c)] = "rejected" /\ dialog'
      /\ \A c \in Calls : Own(c) \notin InBatch(r) /\ Probe(c) \notin InBatch(r) =>
           state'[Own(c)] = state[Own(c)] /\ state'[Probe(c)] = state[Probe(c)]
  BY Settling
<1>2. PICK probes \in Seq(Messages) :
        /\ queue' = queue \o probes /\ IsInjective(probes)
        /\ \A m \in ToSet(probes) :
             \E c \in Calls : /\ m = Probe(c) /\ Own(c) \in InBatch(r)
                             /\ state'[Own(c)] = "waiting"
  BY Settling
<1>3. /\ dialog => dialog'
      /\ dialog' \in BOOLEAN
      /\ state' = [m \in Messages |-> state'[m]] /\ got' = [c \in Calls |-> got'[c]]
  BY Settling
<1>4. /\ http' \in [Requests -> HttpRecords]
      /\ RepliesFit'
      /\ ~http'[r].heard
      /\ InBatch(r)' \subseteq InBatch(r) /\ Todo(r)' \subseteq Todo(r)
      /\ http'[r].batch \in {<<>>, http[r].batch}
      /\ \A i \in 1..Len(http'[r].replies) :
           i \in 1..Len(http[r].replies) /\ http'[r].replies[i] = http[r].replies[i]
      /\ \A q \in Requests \ {r} :
           http'[q] = http[q] /\ InBatch(q)' = InBatch(q) /\ Todo(q)' = Todo(q)
  BY Ending
<1>5. \A c \in Calls : Own(c) \in InBatch(r) =>
        state'[Own(c)] \in {"waiting", "resolved", "rejected"}
  BY <1>1 DEF Outcome
<1>6. ASSUME NEW m \in Messages
      PROVE  /\ state'[m] \in States /\ (m.probe => state'[m] # "waiting")
             /\ state[m] # "unused" => state'[m] # "unused"
             /\ m \notin InBatch(r) /\ state[m] = "pending" => state'[m] = "pending"
  <2>1. PICK c \in Calls : m = Own(c) \/ m = Probe(c)
    BY Names
  <2>2. /\ Own(c) \in Messages /\ ~Own(c).probe /\ Probe(c) \in Messages /\ Probe(c).probe
        /\ state[Own(c)] \in States /\ state[Probe(c)] \in States /\ state[Probe(c)] # "waiting"
    BY Names DEF TypeOK
  <2>3. CASE Own(c) \in InBatch(r)
    BY <1>1, <1>5, <2>1, <2>2, <2>3 DEF States
  <2>4. CASE Probe(c) \in InBatch(r)
    BY <1>1, <2>1, <2>2, <2>4 DEF States
  <2>5. CASE Own(c) \notin InBatch(r) /\ Probe(c) \notin InBatch(r)
    BY <1>1, <2>1, <2>2, <2>5
  <2>6. QED
    BY <2>3, <2>4, <2>5
<1>7. /\ ToSet(queue) \subseteq Messages /\ ToSet(probes) \subseteq Messages
      /\ ToSet(done) \subseteq Calls
  BY Membership DEF TypeOK
<1>8. ASSUME NEW m \in ToSet(probes)
      PROVE  state[m] = "unused" /\ state'[m] = "pending" /\ m.probe
  BY <1>1, <1>2, Names
<1>9. /\ ToSet(probes) \cap ToSet(queue) = {}
      /\ \A q \in Requests : ToSet(probes) \cap InBatch(q) = {}
  BY <1>8 DEF OnTheWay
<1>10. /\ queue' \in Seq(Messages)
       /\ ToSet(queue') = ToSet(queue) \cup ToSet(probes)
       /\ IsInjective(queue')
  BY <1>2, <1>9, Joined DEF TypeOK, Apart
<1>11. \A q \in Requests : InBatch(q)' \subseteq InBatch(q) /\ Todo(q)' \subseteq Todo(q)
  BY <1>4
<1>12. TypeOK'
  <2>1. state' \in [Messages -> States]
    BY <1>3, <1>6
  <2>2. got' \in [Calls -> Replies]
    BY <1>1, <1>3 DEF TypeOK
  <2>3. QED
    BY <1>3, <1>4, <1>6, <1>10, <2>1, <2>2 DEF TypeOK
<1>13. Apart'
  BY <1>9, <1>10, <1>11 DEF Apart
<1>14. OnTheWay'
  <2>1. \A m \in ToSet(queue') : state'[m] = "pending"
    BY <1>6, <1>7, <1>8, <1>10 DEF OnTheWay, Apart
  <2>2. ASSUME NEW q \in Requests, NEW m \in InBatch(q)'
        PROVE  state'[m] # "unused" /\ (http'[q].heard => state'[m] = "pending")
    <3>1. m \in InBatch(q) /\ m \in Messages
      BY <1>11, RequestTypes
    <3>2. CASE q = r
      BY <1>4, <1>6, <3>1, <3>2 DEF OnTheWay
    <3>3. CASE q # r
      BY <1>4, <1>6, <3>1, <3>3 DEF OnTheWay, Apart
    <3>4. QED
      BY <3>2, <3>3
  <2>3. ASSUME NEW c \in Calls, state'[Own(c)] \in {"unused", "pending"}
        PROVE  state'[Probe(c)] = "unused"
    <3>1. Own(c) \notin InBatch(r) /\ Probe(c) \notin InBatch(r)
      BY <1>1, <1>5, <2>3
    <3>2. QED
      BY <1>1, <2>3, <3>1 DEF OnTheWay
  <2>4. QED
    BY <2>1, <2>2, <2>3 DEF OnTheWay
<1>15. Behind'
  <2>1. ASSUME NEW c \in ToSet(done)
        PROVE  /\ state'[Own(c)] # "unused"
               /\ Own(c) \notin ToSet(queue')
               /\ \A q \in Requests : Own(c) \notin Todo(q)'
    <3>1. c \in Calls /\ Own(c) \in Messages /\ ~Own(c).probe
      BY <1>7, Names
    <3>2. QED
      BY <1>6, <1>8, <1>10, <1>11, <3>1 DEF Behind
  <2>2. QED
    BY <2>1 DEF Behind
<1>16. RepliesTrue'
  <2>1. ASSUME NEW q \in Requests, NEW i \in 1..Len(http[q].replies),
               NEW y, y = http[q].replies[i]
        PROVE  TrueReply(y)'
    <3>1. TrueReply(y) /\ y \in Replies /\ y.of \in InBatch(q) /\ y.of \in Messages
      <4>1. i \in 1..Len(http[q].batch) /\ y.of = http[q].batch[i]
        BY <2>1, RequestTypes, TodoInBatch DEF RepliesFit, Fits
      <4>2. QED
        BY <2>1, <4>1, RequestTypes DEF RepliesTrue
    <3>2. ASSUME y.of.probe, y.code = "ok"
          PROVE  got'[y.of.call] = got[y.of.call]
      <4>1. PICK c \in Calls : y.of = Probe(c) /\ y.of.call = c
        BY <3>1, <3>2, Names
      <4>2. state[Probe(c)] # "unused"
        BY <3>1, <4>1 DEF OnTheWay
      <4>3. QED
        BY <1>1, <4>1, <4>2
    <3>3. QED
      BY <1>1, <3>1, <3>2 DEF TrueReply
  <2>2. ASSUME NEW q \in Requests, NEW i \in 1..Len(http'[q].replies)
        PROVE  TrueReply(http[q].replies[i])'
    BY <1>4, <2>1
  <2>3. ASSUME NEW c \in Calls, got'[c].code = "gone"
        PROVE  ~session
    BY <1>1, <2>3 DEF RepliesTrue, TrueReply
  <2>4. QED
    BY <2>2, <2>3 DEF RepliesTrue
<1>17. TurnsTogether'
  <2>1. ASSUME NEW c \in Calls, NEW d \in Calls, Together(c, d)
        PROVE  Together(c, d)'
    <3>1. /\ Own(c) \in Messages /\ Own(d) \in Messages
          /\ Own(c) \notin ToSet(probes) /\ Own(d) \notin ToSet(probes)
      BY <1>8, Names
    <3>2. Ordered(queue', Own(c), Own(d))
      BY <1>2, <2>1, <3>1, OrderedInJoined DEF Together, TypeOK
    <3>3. ASSUME NEW q \in Requests
          PROVE  Ordered(http'[q].batch, Own(c), Own(d))
      <4>1. Ordered(<<>>, Own(c), Own(d))
        BY DEF Ordered, ToSet
      <4>2. QED
        BY <1>4, <2>1, <4>1 DEF Together
    <3>4. QED
      BY <1>6, <2>1, <3>1, <3>2, <3>3 DEF Together
  <2>2. QED
    BY <2>1 DEF TurnsTogether, TypeOK
<1>18. OwnReply'
  <2>1. ASSUME NEW c \in Calls, state'[Own(c)] = "resolved"
        PROVE  /\ got'[c].of = Own(c)
               /\ (got'[c].code = "ok" /\ Contains(done, c)) \/ got'[c].code = "failed"
    <3>1. CASE Own(c) \in InBatch(r)
      <4>1. got'[c].code \in {"ok", "failed"}
        BY <1>1, <2>1, <3>1 DEF Outcome
      <4>2. got'[c].code = "ok" => c \in ToSet(done)
        BY <1>1, <3>1, Names DEF TrueReply
      <4>3. QED
        BY <1>1, <3>1, <4>1, <4>2, Membership DEF TypeOK
    <3>2. CASE Own(c) \notin InBatch(r)
      BY <1>1, <2>1, <3>2 DEF OwnReply
    <3>3. QED
      BY <3>1, <3>2
  <2>2. QED
    BY <2>1 DEF OwnReply
<1>19. ExpiryTold'
  <2>1. ASSUME NEW c \in Calls, state'[Own(c)] = "rejected", got'[c].code = "gone"
        PROVE  dialog'
    <3>1. CASE Own(c) \in InBatch(r)
      BY <1>1, <2>1, <3>1, Names DEF Outcome, NeedsProbe
    <3>2. CASE Probe(c) \in InBatch(r)
      BY <1>1, <2>1, <3>2
    <3>3. CASE Own(c) \notin InBatch(r) /\ Probe(c) \notin InBatch(r)
      BY <1>1, <1>3, <2>1, <3>3 DEF ExpiryTold
    <3>4. QED
      BY <3>1, <3>2, <3>3
  <2>2. QED
    BY <2>1 DEF ExpiryTold
<1>20. QED
  BY <1>4, <1>12, <1>13, <1>14, <1>15, <1>16, <1>17, <1>18, <1>19

LEMMA AnsweredStep ==
  ASSUME IInv, NEW r \in Requests, Answered(r)
  PROVE  IInv'
<1>1. /\ http[r].pc = "answered" /\ http' = [http EXCEPT ![r] = Free]
      /\ UNCHANGED <<session, turns, done>>
  BY DEF Answered
<1>2. /\ http[r].replies \in Seq(Replies) /\ Fits(r)
      /\ Len(http[r].replies) = Len(http[r].batch) /\ Len(http[r].batch) \in Nat
  BY <1>1, RequestTypes DEF IInv, RepliesFit, Fits
<1>3. CASE http[r].heard /\ Settle(r, Replied(r))
  <2>1. /\ Replied(r) \in Seq(Replies) /\ Len(Replied(r)) = Len(http[r].batch)
        /\ \A i \in 1..Len(Replied(r)) : Replied(r)[i] = http[r].replies[i]
    BY <1>2 DEF Replied, ReplyTo
  <2>2. \A i \in 1..Len(Replied(r)) :
          Replied(r)[i].of = http[r].batch[i] /\ TrueReply(Replied(r)[i])
    BY <1>2, <2>1 DEF IInv, RepliesTrue, Fits
  <2>3. QED
    BY <1>1, <1>3, <2>1, <2>2, SettleStep
<1>4. CASE ~http[r].heard /\ UNCHANGED <<state, queue, dialog, got>>
  <2>1. /\ http' \in [Requests -> HttpRecords]
        /\ RepliesFit'
        /\ ~http'[r].heard
        /\ http'[r].batch \in {<<>>, http[r].batch}
        /\ \A i \in 1..Len(http'[r].replies) :
             i \in 1..Len(http[r].replies) /\ http'[r].replies[i] = http[r].replies[i]
        /\ \A q \in Requests \ {r} : http'[q] = http[q]
    BY <1>1, Ending DEF IInv
  <2>2. \A q \in Requests : InBatch(q)' \subseteq InBatch(q) /\ Todo(q)' \subseteq Todo(q)
    BY <1>1, Ending DEF IInv
  <2>3. TypeOK' /\ Apart' /\ Behind'
    BY <1>1, <1>4, <2>1, <2>2 DEF IInv, TypeOK, Apart, Behind
  <2>4. OnTheWay'
    BY <1>4, <2>1, <2>2 DEF IInv, OnTheWay
  <2>5. RepliesTrue'
    BY <1>1, <1>4, <2>1 DEF IInv, RepliesTrue, TrueReply
  <2>6. TurnsTogether'
    <3>1. ASSUME NEW c \in Calls, NEW d \in Calls, Together(c, d)
          PROVE  Together(c, d)'
      <4>1. Ordered(<<>>, Own(c), Own(d))
        BY DEF Ordered, ToSet
      <4>2. \A q \in Requests : Ordered(http'[q].batch, Own(c), Own(d))
        BY <2>1, <3>1, <4>1 DEF Together
      <4>3. QED
        BY <1>1, <1>4, <3>1, <4>2 DEF Together
    <3>2. QED
      BY <1>1, <3>1 DEF IInv, TurnsTogether, TypeOK
  <2>7. OwnReply' /\ ExpiryTold'
    BY <1>1, <1>4 DEF IInv, OwnReply, ExpiryTold
  <2>8. QED
    BY <2>1, <2>3, <2>4, <2>5, <2>6, <2>7 DEF IInv
<1>5. QED
  BY <1>3, <1>4 DEF Answered

LEMMA FailStep ==
  ASSUME IInv, NEW r \in Requests, Fail(r)
  PROVE  IInv'
<1>1. /\ http[r].heard /\ Settle(r, Lost(r))
      /\ \/ http' = [http EXCEPT ![r] = Free]
         \/ http' = [http EXCEPT ![r].heard = FALSE]
      /\ UNCHANGED <<session, turns, done>>
  BY DEF Fail
<1>2. http[r].batch \in Seq(Messages) /\ Len(http[r].batch) \in Nat
  BY RequestTypes DEF IInv
<1>3. \A i \in 1..Len(http[r].batch) : [of |-> http[r].batch[i], code |-> "lost"] \in Replies
  BY <1>2 DEF Replies
<1>4. PICK replies : replies = [i \in 1..Len(http[r].batch) |->
                                 [of |-> http[r].batch[i], code |-> "lost"]]
  OBVIOUS
<1>5. replies \in Seq(Replies) /\ Len(replies) = Len(http[r].batch)
  BY <1>2, <1>3, <1>4
<1>6. \A i \in 1..Len(replies) : replies[i].of = http[r].batch[i] /\ replies[i].code = "lost"
  BY <1>4, <1>5
<1>7. Settle(r, replies)
  BY <1>1, <1>4 DEF Lost
<1>8. QED
  BY <1>1, <1>5, <1>6, <1>7, SettleStep

-----------------------------------------------------------------------------
(* The theorem *)

LEMMA InitIInv == Init => IInv
<1> SUFFICES ASSUME Init PROVE IInv
  OBVIOUS
<1>1. /\ state = [m \in Messages |-> "unused"] /\ queue = <<>>
      /\ http = [r \in Requests |-> Free] /\ session = TRUE /\ dialog = FALSE
      /\ turns = <<>> /\ done = <<>> /\ got = [c \in Calls |-> Unheard]
  BY DEF Init
<1>2. \A r \in Requests : /\ http[r].batch = <<>> /\ http[r].replies = <<>>
                          /\ http[r].pc = "free" /\ ~http[r].heard
  BY <1>1 DEF Free
<1>3. Len(<<>>) = 0 /\ ToSet(<<>>) = {} /\ IsInjective(<<>>)
  BY DEF ToSet, IsInjective
<1>4. \A r \in Requests : InBatch(r) = {} /\ Todo(r) = {}
  BY <1>2, <1>3 DEF InBatch, Todo
<1>5. \A c \in Calls : got[c].code = "none" /\ got[c] \in Replies
  BY <1>1, Names DEF Unheard, Replies
<1>6. TypeOK
  <2>1. Free \in HttpRecords
    BY DEF Free, HttpRecords
  <2>2. http \in [Requests -> HttpRecords] /\ got \in [Calls -> Replies]
    BY <1>1, <1>5, <2>1
  <2>3. /\ state \in [Messages -> States]
        /\ \A m \in Messages : m.probe => state[m] # "waiting"
    BY <1>1 DEF States
  <2>4. queue \in Seq(Messages) /\ turns \in Seq(Seq(Calls)) /\ done \in Seq(Calls)
    BY <1>1
  <2>5. session \in BOOLEAN /\ dialog \in BOOLEAN
    BY <1>1
  <2>6. QED
    BY <2>2, <2>3, <2>4, <2>5, Zenon DEF TypeOK
<1>7. RepliesFit
  BY <1>2, <1>3 DEF RepliesFit, Fits
<1>8. Apart /\ OnTheWay /\ Behind
  BY <1>1, <1>3, <1>4, Names DEF Apart, OnTheWay, Behind
<1>9. RepliesTrue /\ TurnsTogether
  BY <1>1, <1>2, <1>3, <1>5 DEF RepliesTrue, TurnsTogether
<1>10. OwnReply /\ ExpiryTold
  BY <1>1, <1>5, Names DEF OwnReply, ExpiryTold
<1>11. QED
  BY <1>6, <1>7, <1>8, <1>9, <1>10 DEF IInv

\* What a page issues in a turn is a list of calls without repetitions.
LEMMA Permuted ==
  ASSUME NEW S, IsFiniteSet(S), NEW s \in SetToAllKPermutations(S)
  PROVE  s \in Seq(S) /\ IsInjective(s)
<1>1. PICK T \in SUBSET S : s \in SetToSeqs(T)
  BY DEF SetToAllKPermutations
<1>2. IsFiniteSet(T)
  BY FS_Subset
<1>3. s \in Seq(T) /\ IsInjective(s)
  BY <1>1, <1>2, AsList
<1>4. QED
  BY <1>1, <1>3

LEMMA NextIInv == IInv /\ [Next]_vars => IInv'
<1> SUFFICES ASSUME IInv, [Next]_vars PROVE IInv'
  OBVIOUS
<1>1. CASE \E calls \in SetToAllKPermutations(Unused \ Single) : Issue(calls)
  <2>1. IsFiniteSet(Unused \ Single)
    BY CallsAssumption, FS_Subset DEF Unused
  <2>2. PICK calls \in SetToAllKPermutations(Unused \ Single) : Issue(calls)
    BY <1>1
  <2>3. calls \in Seq(Unused \ Single) /\ IsInjective(calls)
    BY <2>1, Permuted
  <2>4. calls \in Seq(Unused)
    BY <2>3
  <2>5. QED
    BY <2>2, <2>3, <2>4, IssueStep
<1>2. CASE \E c \in Unused \cap Single, r \in Requests : IssueSingle(c, r)
  BY <1>2, IssueSingleStep
<1>3. CASE \E r \in Requests : Flush(r) \/ ServerCall(r) \/ Answered(r) \/ Fail(r)
  BY <1>3, FlushStep, ServerCallStep, AnsweredStep, FailStep
<1>4. CASE Expire
  BY <1>4, ExpireStep
<1>5. CASE UNCHANGED vars
  <2>1. UNCHANGED <<state, queue, http, session, dialog, turns, done, got>>
    BY <1>5 DEF vars
  <2>2. \A r : InBatch(r)' = InBatch(r) /\ Todo(r)' = Todo(r)
    BY <2>1 DEF InBatch, Todo
  <2>3. TypeOK' /\ RepliesFit' /\ Apart' /\ OnTheWay' /\ Behind'
    BY <2>1, <2>2 DEF IInv, TypeOK, RepliesFit, Fits, Apart, OnTheWay, Behind
  <2>4. RepliesTrue' /\ TurnsTogether' /\ OwnReply' /\ ExpiryTold'
    BY <2>1 DEF IInv, RepliesTrue, TrueReply, TurnsTogether, Together, OwnReply, ExpiryTold
  <2>5. QED
    BY <2>3, <2>4 DEF IInv
<1>6. QED
  BY <1>1, <1>2, <1>3, <1>4, <1>5 DEF Next

\* In a list without repetitions the places tell the order.
LEMMA IInvSound == IInv => CallsSound
<1> SUFFICES ASSUME IInv PROVE CallsSound
  OBVIOUS
<1>1. CarriedOutOnce
  BY DEF IInv, Behind, CarriedOutOnce
<1>2. TurnInOrder
  <2> SUFFICES ASSUME NEW i \in 1..Len(turns), NEW a \in 1..Len(turns[i]), NEW b \in 1..Len(turns[i]),
                      a < b, PlaceOf(done, turns[i][a]) # 0, PlaceOf(done, turns[i][b]) # 0
               PROVE  PlaceOf(done, turns[i][a]) < PlaceOf(done, turns[i][b])
    BY DEF TurnInOrder
  <2>1. done \in Seq(Calls) /\ IsInjective(done)
    BY DEF IInv, TypeOK, Behind
  <2>2. ASSUME NEW c, PlaceOf(done, c) # 0
        PROVE  PlaceOf(done, c) \in 1..Len(done) /\ done[PlaceOf(done, c)] = c
    <3>1. c \in ToSet(done)
      BY <2>1, <2>2, NoPlace
    <3>2. PICK n \in 1..Len(done) : done[n] = c
      BY <2>1, <3>1, Membership
    <3>3. PlaceOf(done, c) = n
      BY <2>1, <3>2, OnePlace
    <3>4. QED
      BY <3>2, <3>3
  <2>3. Together(turns[i][a], turns[i][b])
    BY DEF IInv, TurnsTogether
  <2>4. QED
    BY <2>2, <2>3 DEF Together
<1>3. QED
  BY <1>1, <1>2 DEF IInv, CallsSound

\* Each call gets its own reply, is carried out at most once and in the order of
\* its turn, and learns of the end of the session: luci.js, rpc.js.
THEOREM CallsAreSound == Spec => []CallsSound
<1>1. Init => IInv
  BY InitIInv
<1>2. IInv /\ [Next]_vars => IInv'
  BY NextIInv
<1>3. IInv => CallsSound
  BY IInvSound
<1>4. QED
  BY <1>1, <1>2, <1>3, PTL DEF Spec
=============================================================================
