------------------------ MODULE ApplyRollbackProofs ------------------------
(* TLAPS proofs about ApplyRollback, for every value of its constants. *)
EXTENDS ApplyRollback, TLAPS

\* The one-line guards and values of the actions are always expanded.
USE DEF TokenAccepted, GiveUp, RpcdFree, TimerFires, Transient, StoredTime, ReplyToken

Op == Operations \cup {"none"}
ConnType == conn \in [Conns -> Connections]

-----------------------------------------------------------------------------
(* The connection table keeps its type under the operators that change it. *)

\* A free slot, a new request, a dropped and an answered request are
\* connection records.
LEMMA ConnectionTypes ==
  /\ Free \in Connections
  /\ \A op \in Operations, c \in Clients, tok \in Nat : Request(op, c, tok) \in Connections
  /\ \A r \in Connections : Dropped(r) \in Connections
  /\ \A r \in Connections, st \in Statuses :
       [r EXCEPT !.pc = "replied", !.status = st] \in Connections
<1> DEFINE Known(r) == r.op \in {"apply", "unchecked", "revert"} => r.session \in Sessions
           R == [op : Op, client : SomeClient, session : SomeSession, tok : Nat,
                 status : Statuses, todo : SUBSET Configs, pc : Steps]
<1>0. \A r : r \in Connections <=> r \in Slots /\ Known(r)
  BY DEF Connections
<1>00. Slots = R
  BY DEF Slots, Op
<1> HIDE DEF Known
<1>a. /\ "none" \in Op /\ Operations \subseteq Op
      /\ "free" \in Steps /\ "sent" \in Steps /\ "replied" \in Steps
      /\ 0 \in Statuses
      /\ None \in SomeClient /\ Clients \subseteq SomeClient
      /\ None \in SomeSession /\ Sessions \subseteq SomeSession
  BY DEF Op, Steps, Statuses, SomeClient, SomeSession
<1>1. Free \in Connections
  <2>1. Free \in Slots
    BY <1>00, <1>a DEF Free, NoToken
  <2>2. QED
    BY <1>0, <2>1 DEF Free, Known
<1>2. ASSUME NEW op \in Operations, NEW c \in Clients, NEW tok \in Nat
      PROVE  Request(op, c, tok) \in Connections
  <2>1. SessionOf[c] \in Sessions
    BY ClientsAssumption
  <2>2. Request(op, c, tok) \in Slots
    BY <1>00, <1>a, <2>1 DEF Request
  <2>3. Known(Request(op, c, tok))
    BY <2>1 DEF Request, Known
  <2>4. QED
    BY <1>0, <2>2, <2>3
<1>3. ASSUME NEW r \in Connections
      PROVE  Dropped(r) \in Connections
  <2>0. r \in R
    BY <1>0, <1>00
  <2>1. [r EXCEPT !.client = None] \in R
    BY <2>0, <1>a
  <2>2. Known([r EXCEPT !.client = None])
    BY <1>0, <1>00, <2>0 DEF Known
  <2>3. QED
    BY <1>0, <1>00, <1>1, <2>1, <2>2 DEF Dropped
<1>4. ASSUME NEW r \in Connections, NEW st \in Statuses
      PROVE  [r EXCEPT !.pc = "replied", !.status = st] \in Connections
  <2>0. r \in R
    BY <1>0, <1>00
  <2>1. [r EXCEPT !.pc = "replied", !.status = st] \in R
    BY <2>0, <1>a
  <2>2. Known([r EXCEPT !.pc = "replied", !.status = st])
    BY <1>0, <1>00, <2>0 DEF Known
  <2>3. QED
    BY <1>0, <1>00, <2>1, <2>2
<1>5. QED
  BY <1>1, <1>2, <1>3, <1>4

\* Answering, releasing and sending keep the table's type.
LEMMA TableTypes ==
  ASSUME ConnType
  PROVE  /\ \A k \in Conns : Release(k) \in [Conns -> Connections]
         /\ \A k \in Conns, st \in Statuses : Answer(k, st) => ConnType'
         /\ \A cn \in [Conns -> Connections], c \in Clients, tok \in Nat, op \in Operations :
              Send(cn, op, c, tok) => ConnType'
<1>1. ASSUME NEW k \in Conns
      PROVE  Release(k) \in [Conns -> Connections]
  BY ConnectionTypes DEF Release, ConnType
<1>2. ASSUME NEW k \in Conns, NEW st \in Statuses, Answer(k, st)
      PROVE  ConnType'
  <2>1. [conn[k] EXCEPT !.pc = "replied", !.status = st] \in Connections
    BY ConnectionTypes DEF ConnType
  <2>2. QED
    BY <1>2, <2>1, ConnectionTypes DEF ConnType, Answer
<1>3. ASSUME NEW cn \in [Conns -> Connections], NEW c \in Clients, NEW tok \in Nat,
             NEW op \in Operations, Send(cn, op, c, tok)
      PROVE  ConnType'
  <2>1. PICK k \in Unused(cn) : conn' = [cn EXCEPT ![k] = Request(op, c, tok)]
    BY <1>3 DEF Send
  <2>2. Request(op, c, tok) \in Connections
    BY ConnectionTypes
  <2>3. QED
    BY <2>1, <2>2 DEF ConnType, Unused
<1>4. QED
  BY <1>1, <1>2, <1>3

\* A field of a connection may take any value of the field's set; the session
\* of a confirm is whatever the rollback record says.
LEMMA FieldTypes ==
  /\ \A r \in Connections, x \in Steps : [r EXCEPT !.pc = x] \in Connections
  /\ \A r \in Connections, x \in Steps, n \in Nat :
       [r EXCEPT !.pc = x, !.tok = n] \in Connections
  /\ \A r \in Connections, x \in Steps, s \in SomeSession :
       r.op = "confirm" => [r EXCEPT !.pc = x, !.session = s] \in Connections
  /\ \A r \in Connections, x \in Steps, F \in SUBSET Configs :
       [r EXCEPT !.pc = x, !.todo = F] \in Connections
  /\ \A r \in Connections, F \in SUBSET Configs : [r EXCEPT !.todo = F] \in Connections
<1> DEFINE Known(r) == r.op \in {"apply", "unchecked", "revert"} => r.session \in Sessions
           R == [op : Op, client : SomeClient, session : SomeSession, tok : Nat,
                 status : Statuses, todo : SUBSET Configs, pc : Steps]
<1>0. \A r : r \in Connections <=> r \in Slots /\ Known(r)
  BY DEF Connections
<1>00. Slots = R
  BY DEF Slots, Op
<1> HIDE DEF Known
<1>1. ASSUME NEW r \in Connections, NEW x \in Steps
      PROVE  [r EXCEPT !.pc = x] \in Connections
  <2>0. r \in R
    BY <1>0, <1>00
  <2>1. [r EXCEPT !.pc = x] \in R
    BY <2>0
  <2>2. Known([r EXCEPT !.pc = x])
    BY <1>0, <1>00, <2>0 DEF Known
  <2>3. QED
    BY <1>0, <1>00, <2>1, <2>2
<1>2. ASSUME NEW r \in Connections, NEW x \in Steps, NEW n \in Nat
      PROVE  [r EXCEPT !.pc = x, !.tok = n] \in Connections
  <2>0. r \in R
    BY <1>0, <1>00
  <2>1. [r EXCEPT !.pc = x, !.tok = n] \in R
    BY <2>0
  <2>2. Known([r EXCEPT !.pc = x, !.tok = n])
    BY <1>0, <1>00, <2>0 DEF Known
  <2>3. QED
    BY <1>0, <1>00, <2>1, <2>2
<1>3. ASSUME NEW r \in Connections, NEW x \in Steps, NEW s \in SomeSession,
             r.op = "confirm"
      PROVE  [r EXCEPT !.pc = x, !.session = s] \in Connections
  <2>0. r \in R
    BY <1>0, <1>00
  <2>1. [r EXCEPT !.pc = x, !.session = s] \in R
    BY <2>0
  <2>2. Known([r EXCEPT !.pc = x, !.session = s])
    BY <1>0, <1>00, <2>0, <1>3 DEF Known
  <2>3. QED
    BY <1>0, <1>00, <2>1, <2>2
<1>4. ASSUME NEW r \in Connections, NEW x \in Steps, NEW F \in SUBSET Configs
      PROVE  [r EXCEPT !.pc = x, !.todo = F] \in Connections
  <2>0. r \in R
    BY <1>0, <1>00
  <2>1. [r EXCEPT !.pc = x, !.todo = F] \in R
    BY <2>0
  <2>2. Known([r EXCEPT !.pc = x, !.todo = F])
    BY <1>0, <1>00, <2>0 DEF Known
  <2>3. QED
    BY <1>0, <1>00, <2>1, <2>2
<1>5. ASSUME NEW r \in Connections, NEW F \in SUBSET Configs
      PROVE  [r EXCEPT !.todo = F] \in Connections
  <2>0. r \in R
    BY <1>0, <1>00
  <2>1. [r EXCEPT !.todo = F] \in R
    BY <2>0
  <2>2. Known([r EXCEPT !.todo = F])
    BY <1>0, <1>00, <2>0 DEF Known
  <2>3. QED
    BY <1>0, <1>00, <2>1, <2>2
<1>6. QED
  BY <1>1, <1>2, <1>3, <1>4, <1>5

\* Deltas and contents keep their types under the operators on them.
LEMMA DeltaTypes ==
  /\ NoDelta \in Deltas
  /\ \A base \in [Configs -> Values], d \in Deltas : Overlay(base, d) \in [Configs -> Values]
  /\ \A base \in Deltas, d \in Deltas : Overlay(base, d) \in Deltas
  /\ \A d \in Deltas : Changed(d) \subseteq Configs
  /\ NoTrial \in Trials
  /\ NoRecord \in Records
  /\ RollbackTime \in Nat
<1>1. NoDelta \in Deltas
  BY DEF NoDelta, Deltas
<1>2. \A base \in [Configs -> Values], d \in Deltas : Overlay(base, d) \in [Configs -> Values]
  BY DEF Overlay, Deltas
<1>3. \A base \in Deltas, d \in Deltas : Overlay(base, d) \in Deltas
  BY DEF Overlay, Deltas
<1>4. \A d \in Deltas : Changed(d) \subseteq Configs
  BY DEF Changed
<1>5. NoTrial \in Trials /\ NoRecord \in Records
  BY <1>1 DEF NoTrial, NoRecord, Trials, Records, SomeSession
<1>6. RollbackTime \in Nat
  BY TimeAssumption DEF RollbackTime, Larger
<1>7. QED
  BY <1>1, <1>2, <1>3, <1>4, <1>5, <1>6

\* Settling an entry keeps the ledger's type.
LEMMA SettleTypes ==
  ASSUME TypeOK
  PROVE  \A n \in Nat, o \in {"kept", "reverted"} :
           [ledger EXCEPT ![n].outcome = o] \in Seq(LedgerEntries)
<1> SUFFICES ASSUME NEW n \in Nat, NEW o \in {"kept", "reverted"}
             PROVE  [ledger EXCEPT ![n].outcome = o] \in Seq(LedgerEntries)
  OBVIOUS
<1>1. ledger \in Seq(LedgerEntries)
  BY DEF TypeOK
<1>2. \A e \in LedgerEntries : [e EXCEPT !.outcome = o] \in LedgerEntries
  BY DEF LedgerEntries
<1>3. CASE n \in 1..Len(ledger)
  <2>1. ledger[n] \in LedgerEntries
    BY <1>1, <1>3
  <2>2. [ledger EXCEPT ![n] = [ledger[n] EXCEPT !.outcome = o]] \in Seq(LedgerEntries)
    BY <1>1, <1>2, <1>3, <2>1
  <2>3. QED
    BY <1>1, <1>3, <2>2
<1>4. CASE n \notin 1..Len(ledger)
  <2>1. [ledger EXCEPT ![n].outcome = o] = ledger
    BY <1>1, <1>4
  <2>2. QED
    BY <1>1, <2>1
<1>5. QED
  BY <1>3, <1>4

-----------------------------------------------------------------------------
(* Type correctness *)

\* Confirming leaves the tab's own variables and the table well typed.
LEMMA CallTypes ==
  ASSUME TypeOK, NEW c \in Clients, NEW status \in Statuses,
         NEW cn \in [Conns -> Connections], Call(c, status, cn)
  PROVE  /\ conn' \in [Conns -> Connections]
         /\ phase' \in [Clients -> Phases]
         /\ deadline' \in [Clients -> Nat]
<1>1. ConnType
  BY DEF TypeOK, ConnType
<1>2. "confirm" \in Operations /\ auth[c] \in Nat /\ NoToken \in Nat
  BY DEF Operations, TypeOK, NoToken
<1>3. /\ Send(cn, "confirm", c, auth[c]) => ConnType'
      /\ Send(cn, "confirm", c, NoToken) => ConnType'
  BY <1>1, <1>2, TableTypes
<1>4. {"applied", "reverting", "unreachable"} \subseteq Phases
  BY DEF Phases
<1>5. phase \in [Clients -> Phases] /\ deadline \in [Clients -> Nat]
  BY DEF TypeOK
<1>6. CASE Send(cn, "confirm", c, auth[c]) /\ UNCHANGED <<phase, deadline>>
  BY <1>3, <1>5, <1>6 DEF ConnType
<1>7. CASE /\ phase' = [phase EXCEPT ![c] = "applied"]
           /\ deadline' = [deadline EXCEPT ![c] = 0]
           /\ conn' = cn
  BY <1>4, <1>5, <1>7
<1>8. CASE /\ phase' = [phase EXCEPT ![c] = "reverting"]
           /\ Send(cn, "confirm", c, NoToken)
           /\ UNCHANGED deadline
  BY <1>3, <1>4, <1>5, <1>8 DEF ConnType
<1>9. CASE /\ phase' = [phase EXCEPT ![c] = "unreachable"]
           /\ conn' = cn
           /\ UNCHANGED deadline
  BY <1>4, <1>5, <1>9
<1>10. QED
  BY <1>6, <1>7, <1>8, <1>9 DEF Call

\* What a user does keeps the types.
LEMMA UserTypes ==
  ASSUME TypeOK, NEW c \in Clients, User(c)
  PROVE  TypeOK'
<1> USE DEF ConnType
<1>1. ConnType
  BY DEF TypeOK
<1>2. /\ {"apply", "unchecked", "revert"} \subseteq Operations
      /\ {"idle", "applying", "discarding", "confirming"} \subseteq Phases
      /\ NoToken \in Nat
      /\ SessionOf[c] \in Sessions
  BY ClientsAssumption DEF Operations, Phases, NoToken
<1>3. CASE Edit(c)
  <2>1. PICK f \in Configs, v \in Values : staged' = [staged EXCEPT ![SessionOf[c]][f] = v]
    BY <1>3 DEF Edit
  <2>2. [staged[SessionOf[c]] EXCEPT ![f] = v] \in Deltas
    BY <1>2 DEF TypeOK, Deltas
  <2>3. staged' \in [Sessions -> Deltas]
    BY <1>2, <2>1, <2>2 DEF TypeOK
  <2>4. QED
    BY <1>3, <2>3 DEF Edit, TypeOK, tabVars
<1>4. ASSUME NEW chk \in BOOLEAN, Apply(c, chk)
      PROVE  TypeOK'
  <2>1. ConnType'
    BY <1>1, <1>2, <1>4, TableTypes DEF Apply
  <2>2. phase' \in [Clients -> Phases] /\ checked' \in [Clients -> BOOLEAN]
    BY <1>2, <1>4 DEF Apply, TypeOK
  <2>3. QED
    BY <1>4, <2>1, <2>2 DEF Apply, TypeOK, rpcdVars
<1>5. CASE Revert(c)
  <2>1. ConnType'
    BY <1>1, <1>2, <1>5, TableTypes DEF Revert
  <2>2. phase' \in [Clients -> Phases]
    BY <1>2, <1>5 DEF Revert, TypeOK
  <2>3. QED
    BY <1>5, <2>1, <2>2 DEF Revert, TypeOK, rpcdVars
<1>6. CASE PageLoad(c)
  <2>1. ConnType'
    BY <1>1, <1>6, ConnectionTypes DEF PageLoad
  <2>2. /\ checked' \in [Clients -> BOOLEAN]
        /\ phase' \in [Clients -> Phases]
    BY <1>2, <1>6 DEF PageLoad, TypeOK
  <2>3. record.left \in Nat /\ record.token \in Nat
    BY DEF TypeOK, Records
  <2> DEFINE h == ResumeHoldoff
  <2>4. h \in Nat
    BY <2>3, DeltaTypes, TimeAssumption DEF ResumeHoldoff
  <2>5. deadline' \in [Clients -> Nat] /\ holdoff' \in [Clients -> Nat]
        /\ auth' \in [Clients -> Nat]
    <3> HIDE DEF h
    <3>1. /\ deadline \in [Clients -> Nat] /\ holdoff \in [Clients -> Nat]
          /\ auth \in [Clients -> Nat]
      BY DEF TypeOK
    <3>2. CASE RollbackPending
      <4>1. /\ deadline' = [deadline EXCEPT ![c] = record.left]
            /\ holdoff' = [holdoff EXCEPT ![c] = h]
            /\ auth' = [auth EXCEPT ![c] = record.token]
        BY <1>6, <3>2 DEF PageLoad, h
      <4>2. QED
        BY <2>3, <2>4, <3>1, <4>1
    <3>3. CASE ~RollbackPending
      BY <1>2, <1>6, <3>1, <3>3 DEF PageLoad
    <3>4. QED
      BY <3>2, <3>3
  <2>6. QED
    BY <1>6, <2>1, <2>2, <2>5 DEF PageLoad, TypeOK, rpcdVars
<1>7. QED
  BY <1>3, <1>4, <1>5, <1>6 DEF User

\* What a tab does by itself keeps the types.
LEMMA CallbackTypes ==
  ASSUME TypeOK, NEW c \in Clients, Callback(c)
  PROVE  TypeOK'
<1> USE DEF ConnType
<1>1. ConnType
  BY DEF TypeOK
<1>2. /\ {"idle", "notice", "confirming", "rolledback", "discarded"} \subseteq Phases
      /\ NoToken \in Nat /\ 0 \in Statuses /\ "confirm" \in Operations
      /\ RollbackTime \in Nat /\ Holdoff \in Nat
  BY DeltaTypes, TimeAssumption DEF Phases, NoToken, Statuses, Operations
<1>3. \A k \in Conns : /\ Release(k) \in [Conns -> Connections]
                       /\ conn[k].tok \in Nat /\ conn[k].status \in Statuses
  BY <1>1, TableTypes DEF Connections, Slots
<1>4. CASE FirstCall(c)
  <2>1. /\ conn' \in [Conns -> Connections] /\ phase' \in [Clients -> Phases]
        /\ deadline' \in [Clients -> Nat]
    BY <1>1, <1>2, <1>4, CallTypes DEF FirstCall
  <2>2. QED
    BY <1>4, <2>1 DEF FirstCall, TypeOK, rpcdVars
<1>5. CASE Dismiss(c)
  BY <1>2, <1>5 DEF Dismiss, TypeOK, rpcdVars
<1>6. ASSUME NEW k \in Conns, ApplyReply(c, k)
      PROVE  TypeOK'
  <2>1. phase' \in [Clients -> Phases] /\ auth' \in [Clients -> Nat]
    BY <1>2, <1>3, <1>6 DEF ApplyReply, TypeOK
  <2>2. deadline' \in [Clients -> Nat] /\ holdoff' \in [Clients -> Nat]
    BY <1>2, <1>6 DEF ApplyReply, TypeOK
  <2>3. QED
    BY <1>3, <1>6, <2>1, <2>2 DEF ApplyReply, TypeOK, rpcdVars
<1>7. ASSUME NEW k \in Conns, ConfirmReply(c, k)
      PROVE  TypeOK'
  <2>1. /\ conn' \in [Conns -> Connections] /\ phase' \in [Clients -> Phases]
        /\ deadline' \in [Clients -> Nat]
    BY <1>3, <1>7, CallTypes DEF ConfirmReply
  <2>2. QED
    BY <1>7, <2>1 DEF ConfirmReply, TypeOK, rpcdVars
<1>8. ASSUME NEW k \in Conns, ConfirmReject(c, k)
      PROVE  TypeOK'
  <2>1. /\ conn' \in [Conns -> Connections] /\ phase' \in [Clients -> Phases]
        /\ deadline' \in [Clients -> Nat]
    BY <1>2, <1>3, <1>8, CallTypes DEF ConfirmReject
  <2>2. QED
    BY <1>8, <2>1 DEF ConfirmReject, TypeOK, rpcdVars
<1>9. ASSUME NEW k \in Conns, RollbackReply(c, k)
      PROVE  TypeOK'
  <2>1. Send(Release(k), "confirm", c, NoToken) => ConnType'
    BY <1>1, <1>2, <1>3, TableTypes
  <2>2. phase' \in [Clients -> Phases]
    <3>1. phase' = phase \/ phase' = [phase EXCEPT ![c] = "rolledback"]
      BY <1>9 DEF RollbackReply
    <3>2. QED
      BY <1>2, <3>1 DEF TypeOK
  <2>3. conn' \in [Conns -> Connections]
    BY <1>3, <1>9, <2>1 DEF RollbackReply
  <2>4. QED
    BY <1>9, <2>2, <2>3 DEF RollbackReply, TypeOK, rpcdVars
<1>10. ASSUME NEW k \in Conns, RevertReply(c, k)
       PROVE  TypeOK'
  <2>1. conn' \in [Conns -> Connections]
    BY <1>3, <1>10 DEF RevertReply
  <2>2. phase' \in [Clients -> Phases]
    BY <1>2, <1>10 DEF RevertReply, TypeOK
  <2>3. QED
    BY <1>10, <2>1, <2>2 DEF RevertReply, TypeOK, rpcdVars
<1>11. ASSUME NEW k \in Conns, IgnoredReject(c, k)
       PROVE  TypeOK'
  BY <1>3, <1>11 DEF IgnoredReject, TypeOK, rpcdVars, tabVars
<1>12. QED
  BY <1>4, <1>5, <1>6, <1>7, <1>8, <1>9, <1>10, <1>11 DEF Callback

\* Each ubus call of a handler keeps the types.
LEMMA ServerTypes ==
  ASSUME TypeOK, NEW k \in Conns, Server(k)
  PROVE  TypeOK'
<1> USE DEF ConnType
<1>1. ConnType
  BY DEF TypeOK
<1>2. \A st \in Statuses : Answer(k, st) => ConnType'
  BY <1>1, TableTypes
<1>3. {200, 204, 403} \subseteq Statuses /\ {"installed", "loop", "checked", "confirmed"} \subseteq Steps
  BY DEF Statuses, Steps
<1>4. conn[k] \in Connections
  BY <1>1
<1>5. /\ conn[k].tok \in Nat /\ conn[k].session \in SomeSession
      /\ conn[k].todo \in SUBSET Configs
      /\ conn[k].op \in {"apply", "unchecked", "revert"} => conn[k].session \in Sessions
  BY <1>4 DEF Connections, Slots
<1>6. /\ \A s \in Sessions : staged[s] \in Deltas /\ Changed(staged[s]) \in SUBSET Configs
      /\ \A s \in Sessions : Overlay(installed, staged[s]) \in [Configs -> Values]
  BY DeltaTypes DEF TypeOK
<1>7. \A s : [staged EXCEPT ![s] = NoDelta] \in [Sessions -> Deltas]
  BY DeltaTypes DEF TypeOK
<1>8. CASE ApplyInstall(k)
  <2> DEFINE s == conn[k].session
             no == Len(ledger) + 1
             files == [f \in Configs |-> IF staged[s][f] = None THEN None ELSE installed[f]]
  <2>1. s \in Sessions /\ no \in Nat
    BY <1>5, <1>8 DEF ApplyInstall, TypeOK
  <2>2. files \in Deltas
    BY DEF Deltas, TypeOK
  <2> HIDE DEF s, no, files
  <2>3. CASE UNCHANGED <<rpcdVars, ledger>> /\ \E st \in Statuses : Answer(k, st)
    BY <1>2, <1>8, <2>3 DEF ApplyInstall, TypeOK, rpcdVars, tabVars
  <2>4. CASE /\ trial' = [no |-> no, sid |-> s, left |-> RollbackTime, delta |-> staged[s],
                          files |-> files]
             /\ installed' = Overlay(installed, staged[s])
             /\ staged' = [staged EXCEPT ![s] = NoDelta]
             /\ ledger' = Append(ledger, [owner |-> s, outcome |-> "trial"])
             /\ conn' = [conn EXCEPT ![k].pc = "installed", ![k].tok = no]
    <3>1. trial' \in Trials
      BY <1>6, <2>1, <2>2, <2>4, DeltaTypes DEF Trials, SomeSession
    <3>2. installed' \in [Configs -> Values] /\ staged' \in [Sessions -> Deltas]
      BY <1>6, <1>7, <2>1, <2>4
    <3>3. ledger' \in Seq(LedgerEntries)
      <4>1. [owner |-> s, outcome |-> "trial"] \in LedgerEntries
        BY <2>1 DEF LedgerEntries
      <4>2. QED
        BY <2>4, <4>1 DEF TypeOK
    <3>4. conn' \in [Conns -> Connections]
      <4>1. [conn[k] EXCEPT !.pc = "installed", !.tok = no] \in Connections
        BY <1>3, <1>4, <2>1, FieldTypes
      <4>2. conn' = [conn EXCEPT ![k] = [conn[k] EXCEPT !.pc = "installed", !.tok = no]]
        BY <1>1, <2>4
      <4>3. QED
        BY <1>1, <4>1, <4>2
    <3>5. QED
      BY <1>8, <3>1, <3>2, <3>3, <3>4 DEF ApplyInstall, TypeOK, tabVars
  <2>5. QED
    BY <1>3, <1>8, <2>3, <2>4 DEF ApplyInstall, s, no, files

<1>9. CASE ApplyRecord(k)
  <2>1. record' \in Records
    BY <1>5, <1>9, TimeAssumption DEF ApplyRecord, Records
  <2>2. QED
    BY <1>2, <1>3, <1>9, <2>1 DEF ApplyRecord, TypeOK, rpcdVars, tabVars
<1>10. ASSUME \/ UncheckedList(k)
              \/ RevertList(k)
       PROVE  TypeOK'
  <2>1. conn[k].session \in Sessions
    BY <1>5, <1>10 DEF UncheckedList, RevertList
  <2>2. /\ [conn[k] EXCEPT !.pc = "loop", !.todo = Changed(staged[conn[k].session])] \in Connections
        /\ conn' = [conn EXCEPT ![k] =
             [conn[k] EXCEPT !.pc = "loop", !.todo = Changed(staged[conn[k].session])]]
    BY <1>1, <1>3, <1>4, <1>6, <1>10, <2>1, FieldTypes DEF UncheckedList, RevertList
  <2>3. conn' \in [Conns -> Connections]
    BY <1>1, <2>2
  <2>4. QED
    BY <1>10, <2>3 DEF UncheckedList, RevertList, TypeOK, rpcdVars, tabVars
<1>11. \A f \in Configs :
         /\ conn[k].session \in Sessions =>
              [staged EXCEPT ![conn[k].session][f] = None] \in [Sessions -> Deltas]
         /\ [conn EXCEPT ![k].todo = @ \ {f}] \in [Conns -> Connections]
  <2> SUFFICES ASSUME NEW f \in Configs
               PROVE  /\ conn[k].session \in Sessions =>
                           [staged EXCEPT ![conn[k].session][f] = None] \in [Sessions -> Deltas]
                      /\ [conn EXCEPT ![k].todo = @ \ {f}] \in [Conns -> Connections]
    OBVIOUS
  <2>1. \A d \in Deltas : [d EXCEPT ![f] = None] \in Deltas
    BY DEF Deltas
  <2>2. [conn[k] EXCEPT !.todo = conn[k].todo \ {f}] \in Connections
    <3>1. conn[k].todo \ {f} \in SUBSET Configs
      BY <1>5
    <3>2. QED
      BY <1>4, <3>1, FieldTypes
  <2>3. [conn EXCEPT ![k].todo = @ \ {f}] = [conn EXCEPT ![k] = [conn[k] EXCEPT !.todo = conn[k].todo \ {f}]]
    BY <1>1
  <2>4. QED
    BY <1>1, <2>1, <2>2, <2>3 DEF TypeOK
<1>12. CASE UncheckedCommit(k)
  <2>1. conn[k].session \in Sessions
    BY <1>5, <1>12 DEF UncheckedCommit
  <2>2. PICK f \in conn[k].todo :
          \/ /\ installed' = [installed EXCEPT ![f] =
                                Overlay(installed, staged[conn[k].session])[f]]
             /\ staged' = [staged EXCEPT ![conn[k].session][f] = None]
             /\ conn' = [conn EXCEPT ![k].todo = @ \ {f}]
          \/ Answer(k, 403) /\ UNCHANGED <<installed, staged>>
    BY <1>12 DEF UncheckedCommit
  <2>3. f \in Configs
    BY <1>5
  <2>4. Overlay(installed, staged[conn[k].session])[f] \in Values
    BY <1>6, <2>1, <2>3
  <2>5. /\ installed' \in [Configs -> Values]
        /\ staged' \in [Sessions -> Deltas]
        /\ conn' \in [Conns -> Connections]
    BY <1>2, <1>3, <1>11, <2>1, <2>2, <2>3, <2>4 DEF TypeOK
  <2>6. QED
    BY <1>12, <2>5 DEF UncheckedCommit, TypeOK, tabVars
<1>13. CASE UncheckedApply(k)
  <2>1. conn[k].session \in Sessions
    BY <1>5, <1>13 DEF UncheckedApply
  <2>2. conn' \in [Conns -> Connections]
    BY <1>2, <1>3, <1>13 DEF UncheckedApply
  <2>3. installed' \in [Configs -> Values] /\ staged' \in [Sessions -> Deltas]
    BY <1>6, <1>7, <1>13, <2>1 DEF UncheckedApply
  <2>4. QED
    BY <1>13, <2>2, <2>3 DEF UncheckedApply, TypeOK, tabVars
<1>14. CASE ConfirmCheck(k)
  <2>1. conn' \in [Conns -> Connections]
    <3>1. record.session \in SomeSession
      BY DEF TypeOK, Records
    <3>2. [conn[k] EXCEPT !.pc = "checked", !.session = record.session] \in Connections
      BY <1>3, <1>4, <1>14, <3>1, FieldTypes DEF ConfirmCheck
    <3>3. \/ \E st \in Statuses : Answer(k, st)
          \/ conn' = [conn EXCEPT ![k] =
                        [conn[k] EXCEPT !.pc = "checked", !.session = record.session]]
      BY <1>1, <1>3, <1>14 DEF ConfirmCheck
    <3>4. QED
      BY <1>1, <1>2, <3>2, <3>3
  <2>2. QED
    BY <1>14, <2>1 DEF ConfirmCheck, TypeOK, rpcdVars, tabVars
<1>15. CASE ConfirmTrial(k)
  <2>1. conn' \in [Conns -> Connections]
    <3>1. [conn[k] EXCEPT !.pc = "confirmed"] \in Connections
      BY <1>3, <1>4, FieldTypes
    <3>2. \/ \E st \in Statuses : Answer(k, st)
          \/ conn' = [conn EXCEPT ![k] = [conn[k] EXCEPT !.pc = "confirmed"]]
      BY <1>1, <1>3, <1>15 DEF ConfirmTrial
    <3>3. QED
      BY <1>1, <1>2, <3>1, <3>2
  <2>2. ledger' \in Seq(LedgerEntries)
    BY <1>15, SettleTypes DEF ConfirmTrial, TypeOK, Trials
  <2>3. trial' \in Trials
    BY <1>15, DeltaTypes DEF ConfirmTrial, TypeOK
  <2>4. QED
    BY <1>15, <2>1, <2>2, <2>3 DEF ConfirmTrial, TypeOK, tabVars
<1>16. CASE ConfirmClear(k)
  BY <1>2, <1>3, <1>16, DeltaTypes DEF ConfirmClear, TypeOK, rpcdVars, tabVars
<1>17. CASE RevertFile(k)
  <2>1. conn[k].session \in Sessions
    BY <1>5, <1>17 DEF RevertFile
  <2>2. ASSUME NEW f \in conn[k].todo,
               staged' = [staged EXCEPT ![conn[k].session][f] = None],
               conn' = [conn EXCEPT ![k].todo = @ \ {f}]
        PROVE  staged' \in [Sessions -> Deltas] /\ conn' \in [Conns -> Connections]
    <3>1. f \in Configs
      BY <1>5
    <3>2. QED
      BY <1>11, <2>1, <2>2, <3>1
  <2>3. ASSUME Answer(k, 403) \/ Answer(k, 200), UNCHANGED staged
        PROVE  staged' \in [Sessions -> Deltas] /\ conn' \in [Conns -> Connections]
    BY <1>2, <1>3, <2>3 DEF TypeOK
  <2>4. staged' \in [Sessions -> Deltas] /\ conn' \in [Conns -> Connections]
    BY <1>17, <2>2, <2>3 DEF RevertFile
  <2>5. QED
    BY <1>17, <2>4 DEF RevertFile, TypeOK, tabVars
<1>18. QED
  BY <1>8, <1>9, <1>10, <1>12, <1>13, <1>14, <1>15, <1>16, <1>17 DEF Server

\* rpcd's timer, the network and the clock keep the types.
LEMMA EnvironmentTypes ==
  ASSUME TypeOK, RollbackTimer \/ Tick \/ \E k \in Conns : Lose(k)
  PROVE  TypeOK'
<1>1. CASE RollbackTimer
  <2>1. trial.files \in Deltas /\ trial.delta \in Deltas
    BY DEF TypeOK, Trials
  <2>2. installed' \in [Configs -> Values]
    BY <1>1, <2>1, DeltaTypes DEF RollbackTimer, TypeOK
  <2>3. staged' \in [Sessions -> Deltas]
    BY <1>1, <2>1, DeltaTypes DEF RollbackTimer, TypeOK
  <2>4. ledger' \in Seq(LedgerEntries)
    BY <1>1, SettleTypes DEF RollbackTimer, TypeOK, Trials
  <2>5. QED
    BY <1>1, <2>2, <2>3, <2>4, DeltaTypes DEF RollbackTimer, TypeOK, tabVars
<1>2. CASE Tick
  <2>1. \A n \in Nat : Down(n) \in Nat
    BY DEF Down
  <2>2. trial' \in Trials /\ record' \in Records
    BY <1>2, <2>1 DEF Tick, TypeOK, Trials, Records
  <2>3. deadline' \in [Clients -> Nat] /\ holdoff' \in [Clients -> Nat]
    BY <1>2, <2>1 DEF Tick, TypeOK
  <2>4. QED
    BY <1>2, <2>2, <2>3 DEF Tick, TypeOK
<1>3. ASSUME NEW k \in Conns, Lose(k)
      PROVE  TypeOK'
  <2>1. "lost" \in Steps /\ conn[k] \in Connections
    BY DEF Steps, TypeOK
  <2>2. [conn[k] EXCEPT !.pc = "lost"] \in Connections
    BY <2>1, FieldTypes
  <2>3. conn' \in [Conns -> Connections]
    BY <1>3, <2>2, ConnectionTypes DEF Lose, TypeOK
  <2>4. QED
    BY <1>3, <2>3 DEF Lose, TypeOK, rpcdVars, tabVars
<1>4. QED
  BY <1>1, <1>2, <1>3

\* Every variable keeps to its type, whatever the configured timeout, the
\* number of tabs, sessions and files, and however requests interleave.
THEOREM TypeCorrect == Spec => []TypeOK
<1>1. Init => TypeOK
  <2> SUFFICES ASSUME Init
               PROVE  TypeOK
    OBVIOUS
  <2>1. conn \in [Conns -> Connections]
    BY ConnectionTypes DEF Init
  <2>2. phase \in [Clients -> Phases]
    BY DEF Init, Phases
  <2>3. ledger \in Seq(LedgerEntries)
    BY DEF Init
  <2>4. QED
    BY <2>1, <2>2, <2>3, DeltaTypes DEF Init, TypeOK, NoToken
<1>2. TypeOK /\ [Next]_vars => TypeOK'
  <2>1. ASSUME TypeOK, Next
        PROVE  TypeOK'
    BY <2>1, UserTypes, CallbackTypes, ServerTypes, EnvironmentTypes DEF Next
  <2>2. ASSUME TypeOK, UNCHANGED vars
        PROVE  TypeOK'
    BY <2>2 DEF TypeOK, vars, rpcdVars, tabVars
  <2>3. QED
    BY <2>1, <2>2
<1>3. QED
  BY <1>1, <1>2, PTL DEF Spec
=============================================================================
