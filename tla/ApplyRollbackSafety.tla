----------------------- MODULE ApplyRollbackSafety -----------------------
(* TLAPS proofs of the safety properties of ApplyRollback.  Types are proved *)
(* in ApplyRollbackProofs; here the bookkeeping invariants, which speak of   *)
(* the ledger, rpcd's trial, the rollback record and the handlers at once.   *)
EXTENDS ApplyRollbackProofs

USE DEF TokenAccepted, GiveUp, RpcdFree, TimerFires, Transient, StoredTime, ReplyToken

\* What every step does to the ledger: at most one entry is added, owners
\* stay, and only the entry on trial may be settled.
LedgerStep ==
  /\ Len(ledger) <= Len(ledger') /\ Len(ledger') \in Nat
  /\ \A n \in 1..Len(ledger) :
       /\ ledger'[n].owner = ledger[n].owner
       /\ ledger[n].outcome = "kept" => ledger'[n].outcome = "kept"

LEMMA UnchangedLedger ==
  ASSUME TypeOK, UNCHANGED ledger
  PROVE  LedgerStep
BY DEF LedgerStep, TypeOK

\* What is true of a request stays true of it while the ledger advances.
LEMMA LedgerStable ==
  ASSUME TypeOK, LedgerStep, NEW r \in Connections
  PROVE  /\ TokenOwned(r) => TokenOwned(r)'
         /\ (Confirmed(r) => r.tok \in Applies /\ KeptSince(r.tok))
              => (Confirmed(r) => r.tok \in Applies /\ KeptSince(r.tok))'
<1>1. Len(ledger) \in Nat /\ Applies \subseteq Applies'
  BY DEF LedgerStep, Applies, TypeOK
<1>2. TokenOwned(r) => TokenOwned(r)'
  BY <1>1 DEF TokenOwned, LedgerStep, Applies
<1>3. ASSUME Confirmed(r), r.tok \in Applies, KeptSince(r.tok)
      PROVE  (r.tok \in Applies /\ KeptSince(r.tok))'
  <2>1. PICK m \in Applies : /\ m >= r.tok
                             /\ ledger[m].owner = ledger[r.tok].owner
                             /\ ledger[m].outcome = "kept"
    BY <1>3 DEF KeptSince
  <2>2. /\ ledger'[m].owner = ledger'[r.tok].owner
        /\ ledger'[m].outcome = "kept"
    BY <1>3, <2>1 DEF LedgerStep, Applies
  <2>3. QED
    BY <1>1, <1>3, <2>1, <2>2 DEF KeptSince
<1>4. QED
  BY <1>2, <1>3 DEF Confirmed

\* A slot claims nothing new: it is untouched, dropped, or at a step that
\* speaks neither of a token's owner nor of a confirmed trial.
Harmless(r, old) ==
  \/ r = old
  \/ r = Dropped(old)
  \/ r.pc \notin {"installed", "checked"} /\ ~Confirmed(r)

LEMMA DroppedClaims ==
  ASSUME NEW r \in Connections
  PROVE  /\ TokenOwned(r) => TokenOwned(Dropped(r))
         /\ Confirmed(Dropped(r)) => Confirmed(r) /\ Dropped(r).tok = r.tok
<1>1. CASE r.pc \in {"lost", "replied"}
  BY <1>1 DEF Dropped, Free, TokenOwned, Confirmed
<1>2. CASE r.pc \notin {"lost", "replied"}
  <2>1. Dropped(r) = [r EXCEPT !.client = None]
    BY <1>2 DEF Dropped
  <2>2. /\ Dropped(r).pc = r.pc /\ Dropped(r).tok = r.tok /\ Dropped(r).op = r.op
        /\ Dropped(r).session = r.session /\ Dropped(r).status = r.status
    BY <2>1 DEF Connections, Slots
  <2>3. QED
    BY <2>2 DEF TokenOwned, Confirmed
<1>3. QED
  BY <1>1, <1>2

\* The table's two invariants survive a step in which every slot is harmless
\* or satisfies them anew.
LEMMA TableStep ==
  ASSUME TypeOK, TypeOK', TokensOnLedger, ConfirmHonest, LedgerStep,
         \A k \in Conns :
           \/ Harmless(conn[k]', conn[k])
           \/ /\ TokenOwned(conn[k])'
              /\ (Confirmed(conn[k]) => conn[k].tok \in Applies /\ KeptSince(conn[k].tok))'
  PROVE  TokensOnLedger' /\ ConfirmHonest'
<1> SUFFICES ASSUME NEW k \in Conns
             PROVE  /\ TokenOwned(conn[k])'
                    /\ (Confirmed(conn[k]) => conn[k].tok \in Applies /\ KeptSince(conn[k].tok))'
  BY DEF TokensOnLedger, ConfirmHonest
<1>1. conn[k] \in Connections
  BY DEF TypeOK
<1>2. /\ TokenOwned(conn[k])
      /\ Confirmed(conn[k]) => conn[k].tok \in Applies /\ KeptSince(conn[k].tok)
  BY DEF TokensOnLedger, ConfirmHonest
<1>3. CASE conn[k]' = conn[k]
  BY <1>1, <1>2, <1>3, LedgerStable DEF TokenOwned, Confirmed, KeptSince
<1>4. CASE conn[k]' = Dropped(conn[k])
  <2>1. Dropped(conn[k]) \in Connections
    BY <1>1, ConnectionTypes
  <2>2. /\ TokenOwned(Dropped(conn[k]))
        /\ Confirmed(Dropped(conn[k])) =>
             /\ Dropped(conn[k]).tok \in Applies
             /\ KeptSince(Dropped(conn[k]).tok)
    BY <1>1, <1>2, DroppedClaims
  <2> DEFINE r == Dropped(conn[k])
  <2>3. \A q \in Connections :
          /\ TokenOwned(q) => TokenOwned(q)'
          /\ (Confirmed(q) => q.tok \in Applies /\ KeptSince(q.tok))
               => (Confirmed(q) => q.tok \in Applies /\ KeptSince(q.tok))'
    BY LedgerStable
  <2>4. QED
    BY <1>4, <2>1, <2>2, <2>3 DEF TokenOwned, Confirmed, KeptSince
<1>5. CASE conn[k]'.pc \notin {"installed", "checked"} /\ ~Confirmed(conn[k]')
  BY <1>5 DEF TokenOwned, Confirmed
<1>6. QED
  BY <1>3, <1>4, <1>5 DEF Harmless

AllHarmless == \A j \in Conns : Harmless(conn[j]', conn[j])

\* Releasing, sending and refusing are harmless.
LEMMA TableHarmless ==
  ASSUME TypeOK
  PROVE  /\ \A k, j \in Conns : Harmless(Release(k)[j], conn[j])
         /\ \A op, c, tok : \A cn \in [Conns -> Connections] :
              /\ \A j \in Conns : Harmless(cn[j], conn[j])
              /\ Send(cn, op, c, tok)
              => AllHarmless
         /\ \A k \in Conns, st \in Statuses :
              Answer(k, st) /\ (conn[k].op = "confirm" => st # 200) => AllHarmless
<1>1. ASSUME NEW k \in Conns, NEW j \in Conns
      PROVE  Harmless(Release(k)[j], conn[j])
  BY DEF Release, Harmless, TypeOK
<1>2. ASSUME NEW cn \in [Conns -> Connections], NEW op, NEW c, NEW tok,
             \A j \in Conns : Harmless(cn[j], conn[j]),
             Send(cn, op, c, tok)
      PROVE  AllHarmless
  <2>1. PICK k \in Unused(cn) : conn' = [cn EXCEPT ![k] = Request(op, c, tok)]
    BY <1>2 DEF Send
  <2>2. Request(op, c, tok).pc = "sent"
    BY DEF Request
  <2>3. \A r : r.pc = "sent" => Harmless(r, conn[k])
    BY DEF Harmless, Confirmed
  <2>4. QED
    BY <1>2, <2>1, <2>2, <2>3 DEF AllHarmless, Unused
<1>3. ASSUME NEW k \in Conns, NEW st \in Statuses, Answer(k, st),
             conn[k].op = "confirm" => st # 200
      PROVE  AllHarmless
  <2> DEFINE a == [conn[k] EXCEPT !.pc = "replied", !.status = st]
  <2>1. conn[k] \in Connections
    BY DEF TypeOK
  <2>2. a.pc = "replied" /\ a.op = conn[k].op /\ a.status = st
    BY <2>1 DEF Connections, Slots
  <2>3. Harmless(a, conn[k])
    BY <1>3, <2>2 DEF Harmless, Confirmed
  <2>4. Harmless(Free, conn[k])
    BY DEF Harmless, Confirmed, Free
  <2> HIDE DEF a
  <2>5. conn' = [conn EXCEPT ![k] = IF conn[k].client = None THEN Free ELSE a]
    BY <1>3 DEF Answer, a
  <2>6. \A j \in Conns : j # k => conn[j]' = conn[j]
    BY <2>5 DEF TypeOK
  <2>7. conn[k]' = Free \/ conn[k]' = a
    BY <2>5 DEF TypeOK
  <2>8. QED
    BY <2>3, <2>4, <2>6, <2>7 DEF AllHarmless, Harmless
<1>4. QED
  BY <1>1, <1>2, <1>3

\* A harmless step that leaves trial, record and ledger alone keeps all the
\* bookkeeping invariants.
LEMMA QuietStep ==
  ASSUME ApplyInv, TypeOK', AllHarmless, UNCHANGED <<trial, record, ledger>>
  PROVE  ApplyInv'
<1>1. LedgerStep
  BY UnchangedLedger DEF ApplyInv
<1>2. TokensOnLedger' /\ ConfirmHonest'
  BY <1>1, TableStep DEF ApplyInv, AllHarmless
<1>3. TrialOnLedger' /\ RecordOnLedger'
  BY DEF ApplyInv, TrialOnLedger, RecordOnLedger, Applies
<1>4. QED
  BY <1>2, <1>3 DEF ApplyInv

-----------------------------------------------------------------------------
(* The inductive invariant *)

LEMMA UserInv ==
  ASSUME ApplyInv, NEW c \in Clients, User(c)
  PROVE  ApplyInv'
<1>1. TypeOK /\ TypeOK'
  BY UserTypes DEF ApplyInv
<1>2. conn \in [Conns -> Connections] /\ \A j \in Conns : Harmless(conn[j], conn[j])
  BY <1>1 DEF TypeOK, Harmless
<1>3. UNCHANGED <<trial, record, ledger>>
  BY DEF User, Edit, Apply, Revert, PageLoad, rpcdVars
<1>4. Edit(c) => AllHarmless
  BY <1>2 DEF Edit, AllHarmless, Harmless
<1>5. (\E chk \in BOOLEAN : Apply(c, chk)) => AllHarmless
  BY <1>1, <1>2, TableHarmless DEF Apply
<1>6. Revert(c) => AllHarmless
  BY <1>1, <1>2, TableHarmless DEF Revert
<1>7. PageLoad(c) => AllHarmless
  <2> SUFFICES ASSUME PageLoad(c), NEW j \in Conns
               PROVE  conn'[j] = conn[j] \/ conn'[j] = Dropped(conn[j])
    BY DEF AllHarmless, Harmless
  <2>1. conn'[j] = IF conn[j].client = c THEN Dropped(conn[j]) ELSE conn[j]
    BY DEF PageLoad
  <2>2. QED
    BY <2>1
<1>8. AllHarmless
  BY <1>4, <1>5, <1>6, <1>7 DEF User
<1>9. QED
  BY <1>1, <1>3, <1>8, QuietStep

LEMMA CallbackInv ==
  ASSUME ApplyInv, NEW c \in Clients, Callback(c)
  PROVE  ApplyInv'
<1>1. TypeOK /\ TypeOK' /\ conn \in [Conns -> Connections]
  BY CallbackTypes DEF ApplyInv, TypeOK
<1>2. /\ \A j \in Conns : Harmless(conn[j], conn[j])
      /\ \A k \in Conns : /\ Release(k) \in [Conns -> Connections]
                          /\ \A j \in Conns : Harmless(Release(k)[j], conn[j])
  BY <1>1, TableHarmless, TableTypes DEF Harmless, ConnType
<1>3. UNCHANGED <<trial, record, ledger>>
  BY DEF Callback, FirstCall, Dismiss, ApplyReply, ConfirmReply, ConfirmReject,
         RollbackReply, RevertReply, IgnoredReject, rpcdVars
<1>4. ASSUME NEW cn \in [Conns -> Connections], NEW st, Call(c, st, cn),
             \A j \in Conns : Harmless(cn[j], conn[j])
      PROVE  AllHarmless
  <2>1. conn' = cn \/ \E tok : Send(cn, "confirm", c, tok)
    BY <1>4 DEF Call
  <2>2. QED
    BY <1>1, <1>4, <2>1, TableHarmless DEF AllHarmless
<1>5. FirstCall(c) => AllHarmless
  BY <1>1, <1>2, <1>4 DEF FirstCall
<1>6. Dismiss(c) => AllHarmless
  BY <1>2 DEF Dismiss, AllHarmless, Harmless
<1>7. ASSUME NEW k \in Conns, conn' = Release(k)
      PROVE  AllHarmless
  BY <1>2, <1>7 DEF AllHarmless
<1>8. ASSUME NEW k \in Conns, ConfirmReply(c, k) \/ ConfirmReject(c, k)
      PROVE  AllHarmless
  BY <1>2, <1>4, <1>8 DEF ConfirmReply, ConfirmReject
<1>9. ASSUME NEW k \in Conns, RollbackReply(c, k)
      PROVE  AllHarmless
  BY <1>1, <1>2, <1>7, <1>9, TableHarmless DEF RollbackReply
<1>10. AllHarmless
  BY <1>5, <1>6, <1>7, <1>8, <1>9 DEF Callback, ApplyReply, RevertReply, IgnoredReject
<1>11. QED
  BY <1>1, <1>3, <1>10, QuietStep

\* A slot alone changes: the table invariants follow from its own claims.
LEMMA OneSlot ==
  ASSUME ApplyInv, TypeOK', LedgerStep, NEW k \in Conns,
         \A j \in Conns \ {k} : conn[j]' = conn[j],
         TokenOwned(conn[k])',
         (Confirmed(conn[k]) => conn[k].tok \in Applies /\ KeptSince(conn[k].tok))'
  PROVE  TokensOnLedger' /\ ConfirmHonest'
<1>1. \A j \in Conns :
        \/ Harmless(conn[j]', conn[j])
        \/ /\ TokenOwned(conn[j])'
           /\ (Confirmed(conn[j]) => conn[j].tok \in Applies /\ KeptSince(conn[j].tok))'
  BY DEF Harmless
<1>2. QED
  BY <1>1, TableStep DEF ApplyInv

\* rpcd installs a trial: the ledger gains its entry, the slot its token.
LEMMA ApplyInstallInv ==
  ASSUME ApplyInv, NEW k \in Conns, ApplyInstall(k)
  PROVE  ApplyInv'
<1>1. TypeOK /\ TypeOK' /\ conn[k] \in Connections
  BY ServerTypes DEF ApplyInv, Server, TypeOK
<1>2. /\ Len(ledger) \in Nat /\ ledger \in Seq(LedgerEntries)
      /\ conn[k].session \in Sessions
      /\ {204, 403} \subseteq Statuses
  BY <1>1 DEF TypeOK, ApplyInstall, Connections, Statuses
<1>3. CASE /\ Answer(k, 403) \/ Answer(k, 204)
           /\ UNCHANGED <<rpcdVars, ledger>>
  <2>1. AllHarmless
    BY <1>1, <1>2, <1>3, TableHarmless DEF ApplyInstall
  <2>2. QED
    BY <1>1, <1>3, <2>1, QuietStep DEF ApplyInstall, rpcdVars
<1>4. CASE /\ trial.no = 0
           /\ trial'.no = Len(ledger) + 1
           /\ trial'.sid = conn[k].session
           /\ ledger' = Append(ledger, [owner |-> conn[k].session, outcome |-> "trial"])
           /\ conn' = [conn EXCEPT ![k].pc = "installed", ![k].tok = Len(ledger) + 1]
  <2> DEFINE no == Len(ledger) + 1
  <2>1. /\ Len(ledger') = no /\ no \in Nat
        /\ ledger'[no] = [owner |-> conn[k].session, outcome |-> "trial"]
        /\ \A n \in 1..Len(ledger) : ledger'[n] = ledger[n]
    BY <1>2, <1>4
  <2>2. LedgerStep
    BY <1>2, <2>1 DEF LedgerStep
  <2>3. /\ conn'[k].pc = "installed" /\ conn'[k].tok = no
        /\ conn'[k].session = conn[k].session /\ conn'[k].op = conn[k].op
        /\ \A j \in Conns \ {k} : conn'[j] = conn[j]
    BY <1>1, <1>4 DEF TypeOK, Connections, Slots
  <2>4. TokenOwned(conn[k])'
    BY <1>2, <2>1, <2>3 DEF TokenOwned, Applies
  <2>5. ~Confirmed(conn[k])'
    BY <2>3 DEF Confirmed
  <2>6. TokensOnLedger' /\ ConfirmHonest'
    BY <1>1, <2>2, <2>3, <2>4, <2>5, OneSlot
  <2>7. TrialOnLedger'
    <3>1. \A n \in 1..Len(ledger) : ledger[n].outcome # "trial"
      BY <1>4 DEF ApplyInv, TrialOnLedger, Applies
    <3>2. \A n \in 1..no : n \in 1..Len(ledger) \/ n = no
      BY <1>2
    <3>3. QED
      BY <1>2, <1>4, <2>1, <3>1, <3>2 DEF TrialOnLedger, Applies
  <2>8. RecordOnLedger'
    BY <1>2, <2>1 DEF ApplyInv, RecordOnLedger, Applies, ApplyInstall
  <2>9. QED
    BY <1>1, <2>6, <2>7, <2>8 DEF ApplyInv
<1>5. QED
  BY <1>3, <1>4 DEF ApplyInstall

\* The record takes the token of the slot, whose session began that trial.
LEMMA ApplyRecordInv ==
  ASSUME ApplyInv, NEW k \in Conns, ApplyRecord(k)
  PROVE  ApplyInv'
<1>1. TypeOK /\ TypeOK'
  BY ServerTypes DEF ApplyInv, Server
<1>2. AllHarmless
  BY <1>1, TableHarmless DEF ApplyRecord, Statuses
<1>3. LedgerStep
  BY <1>1, UnchangedLedger DEF ApplyRecord
<1>4. TokensOnLedger' /\ ConfirmHonest'
  BY <1>1, <1>2, <1>3, TableStep DEF ApplyInv, AllHarmless
<1>5. TrialOnLedger'
  BY DEF ApplyInv, TrialOnLedger, Applies, ApplyRecord, rpcdVars
<1>6. RecordOnLedger'
  <2>1. conn[k].tok \in Applies /\ ledger[conn[k].tok].owner = conn[k].session
    BY DEF ApplyInv, TokensOnLedger, TokenOwned, ApplyRecord
  <2>2. /\ record'.token = conn[k].tok /\ record'.session = conn[k].session
        /\ ledger' = ledger
    BY DEF ApplyRecord
  <2>3. conn[k].tok # 0
    BY <2>1 DEF Applies
  <2>4. QED
    BY <2>1, <2>2, <2>3 DEF RecordOnLedger, Applies
<1>7. QED
  BY <1>1, <1>4, <1>5, <1>6 DEF ApplyInv

\* Handlers that neither begin nor settle a trial.
LEMMA ListingInv ==
  ASSUME ApplyInv, NEW k \in Conns,
         \/ UncheckedList(k) \/ UncheckedCommit(k) \/ UncheckedApply(k)
         \/ RevertList(k) \/ RevertFile(k)
  PROVE  ApplyInv'
<1>1. TypeOK /\ TypeOK' /\ conn[k] \in Connections /\ {200, 204, 403} \subseteq Statuses
  BY ServerTypes DEF ApplyInv, Server, TypeOK, Statuses
<1>2. UNCHANGED <<trial, record, ledger>>
  BY DEF UncheckedList, UncheckedCommit, UncheckedApply, RevertList, RevertFile, rpcdVars
<1>3. conn[k].op # "confirm"
  BY DEF UncheckedList, UncheckedCommit, UncheckedApply, RevertList, RevertFile
<1>4. \/ \E st \in Statuses : Answer(k, st)
      \/ /\ conn'[k].pc = "loop"
         /\ \A j \in Conns \ {k} : conn'[j] = conn[j]
  <2>1. CASE UncheckedList(k) \/ RevertList(k)
    BY <1>1, <2>1 DEF UncheckedList, RevertList, TypeOK, Connections, Slots
  <2>2. CASE UncheckedCommit(k)
    BY <1>1, <2>2 DEF UncheckedCommit, TypeOK, Connections, Slots
  <2>3. CASE UncheckedApply(k)
    BY <1>1, <2>3 DEF UncheckedApply
  <2>4. CASE RevertFile(k)
    BY <1>1, <2>4 DEF RevertFile, TypeOK, Connections, Slots
  <2>5. QED
    BY <2>1, <2>2, <2>3, <2>4
<1>5. AllHarmless
  <2>1. CASE \E st \in Statuses : Answer(k, st)
    BY <1>1, <1>3, <2>1, TableHarmless
  <2>2. CASE conn'[k].pc = "loop" /\ \A j \in Conns \ {k} : conn'[j] = conn[j]
    BY <2>2 DEF AllHarmless, Harmless, Confirmed
  <2>3. QED
    BY <1>4, <2>1, <2>2
<1>6. QED
  BY <1>1, <1>2, <1>5, QuietStep

\* confirm, first call: a slot past the check holds the token on record.
LEMMA ConfirmCheckInv ==
  ASSUME ApplyInv, NEW k \in Conns, ConfirmCheck(k)
  PROVE  ApplyInv'
<1>1. TypeOK /\ TypeOK' /\ conn[k] \in Connections /\ {204, 403} \subseteq Statuses
  BY ServerTypes DEF ApplyInv, Server, TypeOK, Statuses
<1>2. UNCHANGED <<trial, record, ledger>>
  BY DEF ConfirmCheck, rpcdVars
<1>3. CASE Answer(k, 204) \/ Answer(k, 403)
  <2>1. AllHarmless
    BY <1>1, <1>3, TableHarmless
  <2>2. QED
    BY <1>1, <1>2, <2>1, QuietStep
<1>4. CASE /\ RollbackPending /\ conn[k].tok = record.token
           /\ conn' = [conn EXCEPT ![k].pc = "checked", ![k].session = record.session]
  <2>1. /\ conn'[k].pc = "checked" /\ conn'[k].tok = record.token
        /\ conn'[k].session = record.session
        /\ \A j \in Conns \ {k} : conn'[j] = conn[j]
    BY <1>1, <1>4 DEF TypeOK, Connections, Slots
  <2>2. record.token \in Applies /\ ledger[record.token].owner = record.session
    BY <1>4 DEF ApplyInv, RecordOnLedger, RollbackPending
  <2>3. TokenOwned(conn[k])' /\ ~Confirmed(conn[k])'
    BY <1>2, <2>1, <2>2 DEF TokenOwned, Confirmed, Applies
  <2>4. TokensOnLedger' /\ ConfirmHonest'
    BY <1>1, <1>2, <2>1, <2>3, OneSlot, UnchangedLedger
  <2>5. TrialOnLedger' /\ RecordOnLedger'
    BY <1>2 DEF ApplyInv, TrialOnLedger, RecordOnLedger, Applies
  <2>6. QED
    BY <1>1, <2>4, <2>5 DEF ApplyInv
<1>5. QED
  BY <1>3, <1>4 DEF ConfirmCheck

\* Settling the trial keeps the ledger and rpcd in agreement.
LEMMA SettleInv ==
  ASSUME ApplyInv, NEW o \in {"kept", "reverted"}, trial.no # 0,
         trial' = NoTrial, record' = record,
         ledger' = [ledger EXCEPT ![trial.no].outcome = o]
  PROVE  /\ LedgerStep /\ TrialOnLedger' /\ RecordOnLedger'
         /\ trial.no \in Applies /\ Len(ledger') = Len(ledger)
         /\ ledger'[trial.no].outcome = o
         /\ \A n \in Applies : ledger'[n].owner = ledger[n].owner
<1>1. /\ ledger \in Seq(LedgerEntries) /\ Len(ledger) \in Nat
      /\ \A n \in Applies : ledger[n] \in LedgerEntries
  BY DEF ApplyInv, TypeOK, Applies
<1>2. /\ trial.no \in Applies
      /\ \A n \in Applies : ledger[n].outcome = "trial" <=> trial.no = n
  BY <1>1 DEF ApplyInv, TrialOnLedger, TypeOK, Trials, Applies
<1>3. /\ Len(ledger') = Len(ledger)
      /\ \A n \in Applies : n # trial.no => ledger'[n] = ledger[n]
      /\ ledger'[trial.no] = [ledger[trial.no] EXCEPT !.outcome = o]
  BY <1>1, <1>2 DEF Applies
<1>4. ledger'[trial.no].outcome = o /\ ledger'[trial.no].owner = ledger[trial.no].owner
  BY <1>1, <1>2, <1>3 DEF LedgerEntries
<1>5. \A n \in Applies : ledger'[n].owner = ledger[n].owner
  BY <1>3, <1>4
<1>6. LedgerStep
  BY <1>1, <1>2, <1>3, <1>5 DEF LedgerStep, Applies
<1>7. TrialOnLedger'
  <2>1. trial'.no = 0
    BY DEF NoTrial
  <2>2. \A n \in Applies : ledger'[n].outcome # "trial"
    BY <1>2, <1>3, <1>4
  <2>3. QED
    BY <1>3, <2>1, <2>2 DEF TrialOnLedger, Applies
<1>8. RecordOnLedger'
  BY <1>3, <1>5 DEF ApplyInv, RecordOnLedger, Applies
<1>9. QED
  BY <1>2, <1>3, <1>4, <1>5, <1>6, <1>7, <1>8

\* confirm, second call: what rpcd keeps was begun by the session on record,
\* and not before the token the slot presented.
LEMMA ConfirmTrialInv ==
  ASSUME ApplyInv, NEW k \in Conns, ConfirmTrial(k)
  PROVE  ApplyInv'
<1>1. TypeOK /\ TypeOK' /\ conn[k] \in Connections /\ {204, 403} \subseteq Statuses
  BY ServerTypes DEF ApplyInv, Server, TypeOK, Statuses
<1>2. CASE (Answer(k, 204) \/ Answer(k, 403)) /\ UNCHANGED <<trial, ledger>>
  <2>1. AllHarmless
    BY <1>1, <1>2, TableHarmless
  <2>2. QED
    BY <1>1, <1>2, <2>1, QuietStep DEF ConfirmTrial
<1>3. CASE /\ trial.no # 0 /\ trial.sid = conn[k].session
           /\ ledger' = [ledger EXCEPT ![trial.no].outcome = "kept"]
           /\ trial' = NoTrial
           /\ conn' = [conn EXCEPT ![k].pc = "confirmed"]
  <2>1. /\ LedgerStep /\ TrialOnLedger' /\ RecordOnLedger'
        /\ trial.no \in Applies /\ Len(ledger') = Len(ledger)
        /\ ledger'[trial.no].outcome = "kept"
        /\ \A n \in Applies : ledger'[n].owner = ledger[n].owner
    BY <1>3, SettleInv DEF ConfirmTrial
  <2>2. /\ conn'[k].pc = "confirmed" /\ conn'[k].tok = conn[k].tok
        /\ \A j \in Conns \ {k} : conn'[j] = conn[j]
    BY <1>1, <1>3 DEF TypeOK, Connections, Slots
  <2>3. /\ conn[k].tok \in Applies
        /\ ledger[conn[k].tok].owner = conn[k].session
    BY DEF ApplyInv, TokensOnLedger, TokenOwned, ConfirmTrial
  <2>4. trial.no >= conn[k].tok /\ ledger[trial.no].owner = trial.sid
    BY <1>1, <1>3, <2>3 DEF ApplyInv, TrialOnLedger, Applies, TypeOK
  <2>5. (conn[k].tok \in Applies /\ KeptSince(conn[k].tok))'
    BY <1>3, <2>1, <2>2, <2>3, <2>4 DEF KeptSince, Applies
  <2>6. TokenOwned(conn[k])'
    BY <2>2 DEF TokenOwned
  <2>7. TokensOnLedger' /\ ConfirmHonest'
    BY <1>1, <2>1, <2>2, <2>5, <2>6, OneSlot
  <2>8. QED
    BY <1>1, <2>1, <2>7 DEF ApplyInv
<1>4. QED
  BY <1>2, <1>3 DEF ConfirmTrial

\* confirm, third call: the empty record claims nothing.
LEMMA ConfirmClearInv ==
  ASSUME ApplyInv, NEW k \in Conns, ConfirmClear(k)
  PROVE  ApplyInv'
<1>1. TypeOK /\ TypeOK' /\ conn[k] \in Connections
  BY ServerTypes DEF ApplyInv, Server, TypeOK
<1>2. UNCHANGED <<trial, ledger>> /\ record' = NoRecord /\ Answer(k, 200)
  BY DEF ConfirmClear, rpcdVars
<1>3. conn[k].tok \in Applies /\ KeptSince(conn[k].tok)
  BY DEF ApplyInv, ConfirmHonest, Confirmed, ConfirmClear
<1> DEFINE a == [conn[k] EXCEPT !.pc = "replied", !.status = 200]
<1>4. a.pc = "replied" /\ a.tok = conn[k].tok
  BY <1>1 DEF Connections, Slots
<1>5. Free.pc = "free"
  BY DEF Free
<1> HIDE DEF a
<1>6. conn' = [conn EXCEPT ![k] = IF conn[k].client = None THEN Free ELSE a]
  BY <1>2 DEF Answer, a
<1>7. \A j \in Conns \ {k} : conn'[j] = conn[j]
  BY <1>6, <1>1 DEF TypeOK
<1>8. conn'[k] = Free \/ conn'[k] = a
  BY <1>6, <1>1 DEF TypeOK
<1>9. /\ TokenOwned(conn[k])'
      /\ (Confirmed(conn[k]) => conn[k].tok \in Applies /\ KeptSince(conn[k].tok))'
  BY <1>2, <1>3, <1>4, <1>5, <1>8 DEF TokenOwned, Confirmed, KeptSince, Applies
<1>10. TokensOnLedger' /\ ConfirmHonest'
  BY <1>1, <1>2, <1>7, <1>9, OneSlot, UnchangedLedger
<1>11. TrialOnLedger' /\ RecordOnLedger'
  BY <1>2 DEF ApplyInv, TrialOnLedger, RecordOnLedger, NoRecord, Applies
<1>12. QED
  BY <1>1, <1>10, <1>11 DEF ApplyInv

LEMMA EnvironmentInv ==
  ASSUME ApplyInv, RollbackTimer \/ Tick \/ \E k \in Conns : Lose(k)
  PROVE  ApplyInv'
<1>1. TypeOK /\ TypeOK'
  BY EnvironmentTypes DEF ApplyInv
<1>2. CASE RollbackTimer
  <2>1. LedgerStep /\ TrialOnLedger' /\ RecordOnLedger'
    BY <1>2, SettleInv DEF RollbackTimer
  <2>2. \A j \in Conns : Harmless(conn[j]', conn[j])
    BY <1>2 DEF RollbackTimer, Harmless
  <2>3. QED
    BY <1>1, <2>1, <2>2, TableStep DEF ApplyInv
<1>3. CASE Tick
  <2>1. /\ UNCHANGED <<conn, ledger>>
        /\ trial'.no = trial.no /\ trial'.sid = trial.sid
        /\ record'.token = record.token /\ record'.session = record.session
        /\ record'.left > 0 => record.left > 0
    BY <1>1, <1>3 DEF Tick, TypeOK, Trials, Records, Down
  <2>2. TrialOnLedger' /\ RecordOnLedger'
    BY <2>1 DEF ApplyInv, TrialOnLedger, RecordOnLedger, Applies
  <2>3. \A j \in Conns : Harmless(conn[j]', conn[j])
    BY <2>1 DEF Harmless
  <2>4. QED
    BY <1>1, <2>1, <2>2, <2>3, TableStep, UnchangedLedger DEF ApplyInv
<1>4. ASSUME NEW k \in Conns, Lose(k)
      PROVE  ApplyInv'
  <2>1. \A j \in Conns : \/ conn'[j] = conn[j] \/ conn'[j] = Free
                         \/ conn'[j] = [conn[j] EXCEPT !.pc = "lost"]
    BY <1>1, <1>4 DEF Lose, TypeOK
  <2>2. \A j \in Conns : [conn[j] EXCEPT !.pc = "lost"].pc = "lost"
    BY <1>1 DEF TypeOK, Connections, Slots
  <2>3. Free.pc = "free"
    BY DEF Free
  <2>4. AllHarmless
    BY <2>1, <2>2, <2>3 DEF AllHarmless, Harmless, Confirmed
  <2>5. QED
    BY <1>1, <1>4, <2>4, QuietStep DEF Lose, rpcdVars
<1>5. QED
  BY <1>2, <1>3, <1>4

\* The inductive invariant: types, the ledger against rpcd's trial and the
\* session database, and what every handler between two ubus calls relies on.
THEOREM Bookkeeping == Spec => []ApplyInv
<1>1. Init => ApplyInv
  <2> SUFFICES ASSUME Init
               PROVE  ApplyInv
    OBVIOUS
  <2>1. TypeOK
    <3>1. conn \in [Conns -> Connections]
      BY ConnectionTypes DEF Init
    <3>2. phase \in [Clients -> Phases]
      BY DEF Init, Phases
    <3>3. ledger \in Seq(LedgerEntries)
      BY DEF Init
    <3>4. QED
      BY <3>1, <3>2, <3>3, DeltaTypes DEF Init, TypeOK, NoToken
  <2>2. TrialOnLedger /\ RecordOnLedger
    BY DEF Init, TrialOnLedger, RecordOnLedger, NoTrial, NoRecord, Applies
  <2>3. TokensOnLedger /\ ConfirmHonest
    BY DEF Init, TokensOnLedger, ConfirmHonest, TokenOwned, Confirmed, Free
  <2>4. QED
    BY <2>1, <2>2, <2>3 DEF ApplyInv
<1>2. ApplyInv /\ [Next]_vars => ApplyInv'
  <2>1. ASSUME ApplyInv, Next
        PROVE  ApplyInv'
    <3>1. ASSUME NEW k \in Conns, Server(k)
          PROVE  ApplyInv'
      BY <2>1, <3>1, ApplyInstallInv, ApplyRecordInv, ListingInv, ConfirmCheckInv,
         ConfirmTrialInv, ConfirmClearInv DEF Server
    <3>2. QED
      BY <2>1, <3>1, UserInv, CallbackInv, EnvironmentInv DEF Next
  <2>2. ASSUME ApplyInv, UNCHANGED vars
        PROVE  ApplyInv'
    BY <2>2 DEF ApplyInv, TypeOK, TrialOnLedger, RecordOnLedger, TokensOnLedger,
                ConfirmHonest, TokenOwned, Confirmed, KeptSince, Applies,
                vars, rpcdVars, tabVars
  <2>3. QED
    BY <2>1, <2>2
<1>3. QED
  BY <1>1, <1>2, PTL DEF Spec

\* rpcd's trial, the stored record and the tokens that handlers carry from call to
\* call agree with the ledger of outcomes.
THEOREM LedgerAgrees == Spec => []OnLedger
<1>1. ApplyInv => OnLedger
  BY DEF ApplyInv, OnLedger
<1>2. QED
  BY <1>1, Bookkeeping, PTL

\* A confirm answered 200 made a trial of its token's session permanent, one
\* no older than the token, however the handlers' calls interleave.
THEOREM ConfirmIsHonest == Spec => []ConfirmHonest
<1>1. ApplyInv => ConfirmHonest
  BY DEF ApplyInv
<1>2. QED
  BY <1>1, Bookkeeping, PTL

-----------------------------------------------------------------------------
(* What a step may do to the ledger *)

\* Only three actions write the ledger.
LEMMA LedgerWriters ==
  ASSUME Next
  PROVE  \/ UNCHANGED ledger
         \/ RollbackTimer
         \/ \E k \in Conns : ApplyInstall(k) \/ ConfirmTrial(k)
<1>1. ASSUME NEW c \in Clients, User(c) \/ Callback(c)
      PROVE  UNCHANGED ledger
  BY <1>1 DEF User, Edit, Apply, Revert, PageLoad, Callback, FirstCall, Dismiss, ApplyReply,
     ConfirmReply, ConfirmReject, RollbackReply, RevertReply, IgnoredReject
<1>2. ASSUME NEW k \in Conns, Server(k)
      PROVE  UNCHANGED ledger \/ ApplyInstall(k) \/ ConfirmTrial(k)
  BY <1>2 DEF Server, ApplyRecord, UncheckedList, UncheckedCommit, UncheckedApply,
     ConfirmCheck, ConfirmClear, RevertList, RevertFile
<1>3. QED
  BY <1>1, <1>2 DEF Next, Lose, Tick

\* How each of the three changes the entries there already are.
LEMMA EntryStep ==
  ASSUME ApplyInv, Next, NEW n \in Applies
  PROVE  \/ ledger'[n] = ledger[n]
         \/ n = trial.no /\ RollbackTimer /\ ledger'[n].outcome = "reverted"
         \/ \E k \in Conns : n = trial.no /\ ConfirmTrial(k) /\ conn'[k].pc = "confirmed"
<1>1. ledger \in Seq(LedgerEntries) /\ Len(ledger) \in Nat
  BY DEF ApplyInv, TypeOK
<1>2. CASE RollbackTimer
  <2>1. ledger'[n] = IF n = trial.no THEN [ledger[n] EXCEPT !.outcome = "reverted"] ELSE ledger[n]
    BY <1>1, <1>2 DEF RollbackTimer, Applies
  <2>2. ledger[n] \in LedgerEntries
    BY <1>1 DEF Applies
  <2>3. QED
    BY <1>2, <2>1, <2>2 DEF LedgerEntries
<1>3. ASSUME NEW k \in Conns, ApplyInstall(k)
      PROVE  ledger'[n] = ledger[n]
  BY <1>1, <1>3 DEF ApplyInstall, Applies
<1>4. ASSUME NEW k \in Conns, ConfirmTrial(k)
      PROVE  \/ ledger'[n] = ledger[n]
             \/ n = trial.no /\ conn'[k].pc = "confirmed"
  BY <1>1, <1>4 DEF ConfirmTrial, Applies, ApplyInv, TypeOK, Connections, Slots
<1>5. QED
  BY <1>2, <1>3, <1>4, LedgerWriters

\* No token of another session ever makes a trial permanent.
THEOREM OnlyOwnToken == Spec => OwnTokenKeeps
<1>1. ASSUME ApplyInv, Next, NEW n \in Applies,
             ledger[n].outcome = "trial", ledger'[n].outcome = "kept"
      PROVE  \E k \in Conns : /\ conn[k].pc = "checked" /\ conn'[k].pc = "confirmed"
                              /\ conn[k].tok \in Applies
                              /\ ledger[conn[k].tok].owner = ledger[n].owner
  <2>1. PICK k \in Conns : n = trial.no /\ ConfirmTrial(k) /\ conn'[k].pc = "confirmed"
    BY <1>1, EntryStep
  <2>2. ledger'[n] # ledger[n]
    BY <1>1
  <2>3. conn[k].pc = "checked" /\ trial.sid = conn[k].session
    BY <2>1, <2>2 DEF ConfirmTrial
  <2>4. conn[k].tok \in Applies /\ ledger[conn[k].tok].owner = conn[k].session
    BY <1>1, <2>3 DEF ApplyInv, TokensOnLedger, TokenOwned
  <2>5. ledger[n].owner = trial.sid
    BY <1>1, <2>1 DEF ApplyInv, TrialOnLedger, Applies
  <2>6. QED
    BY <2>1, <2>3, <2>4, <2>5
<1>2. ASSUME ApplyInv, [Next]_vars
      PROVE  [\A n \in Applies : ledger[n].outcome = "trial" /\ ledger'[n].outcome = "kept" =>
                \E k \in Conns : /\ conn[k].pc = "checked" /\ conn'[k].pc = "confirmed"
                                 /\ conn[k].tok \in Applies
                                 /\ ledger[conn[k].tok].owner = ledger[n].owner]_vars
  BY <1>1, <1>2
<1>3. QED
  BY <1>2, Bookkeeping, PTL DEF Spec, OwnTokenKeeps

-----------------------------------------------------------------------------
(* The rollback record against rpcd's timer *)

\* Both run down together; a trial is given the time the record stores.
Outlives == RecordOutlivesTrial /\ trial.left <= RollbackTime

LEMMA OutlivesStep ==
  ASSUME ConfRollback >= MinRollback, ApplyInv, Outlives, Next
  PROVE  Outlives'
<1>1. RollbackTime = ConfRollback /\ ConfRollback \in Nat
  BY TimeAssumption DEF RollbackTime, Larger
<1>2. /\ trial.no \in Nat /\ trial.left \in Nat /\ record.left \in Nat /\ record.token \in Nat
      /\ Len(ledger) \in Nat
  BY DEF ApplyInv, TypeOK, Trials, Records
<1>3. CASE UNCHANGED <<trial, record>>
  BY <1>3 DEF Outlives, RecordOutlivesTrial, RollbackTime
<1>4. ASSUME NEW k \in Conns, ApplyInstall(k)
      PROVE  Outlives'
  <2>1. CASE UNCHANGED trial
    BY <1>3, <1>4, <2>1 DEF ApplyInstall
  <2>2. CASE trial'.no = Len(ledger) + 1 /\ trial'.left = RollbackTime
    <3>1. record'.token <= Len(ledger) /\ record' = record
      BY <1>2, <1>4 DEF ApplyInstall, ApplyInv, RecordOnLedger, Applies
    <3>2. QED
      BY <1>1, <1>2, <2>2, <3>1 DEF Outlives, RecordOutlivesTrial, RollbackTime
  <2>3. QED
    BY <1>4, <2>1, <2>2 DEF ApplyInstall, rpcdVars
<1>5. ASSUME NEW k \in Conns, ApplyRecord(k)
      PROVE  Outlives'
  <2>1. trial' = trial /\ record'.left = ConfRollback
    BY <1>5 DEF ApplyRecord, rpcdVars
  <2>2. QED
    BY <1>1, <1>2, <2>1 DEF Outlives, RecordOutlivesTrial, RollbackTime
<1>6. CASE trial' = NoTrial
  BY <1>1, <1>6 DEF NoTrial, Outlives, RecordOutlivesTrial, RollbackTime
<1>7. ASSUME NEW k \in Conns, ConfirmTrial(k)
      PROVE  Outlives'
  BY <1>3, <1>6, <1>7 DEF ConfirmTrial
<1>8. ASSUME NEW k \in Conns, ConfirmClear(k)
      PROVE  Outlives'
  BY <1>1, <1>2, <1>8 DEF ConfirmClear, NoRecord, rpcdVars, Outlives, RecordOutlivesTrial,
     RollbackTime
<1>9. CASE Tick
  <2>1. /\ trial'.no = trial.no /\ trial'.left = Down(trial.left)
        /\ record'.token = record.token /\ record'.left = Down(record.left)
    BY <1>9 DEF Tick, ApplyInv, TypeOK, Trials, Records
  <2>2. /\ Down(trial.left) <= trial.left /\ Down(trial.left) \in Nat
        /\ record.left >= trial.left => Down(record.left) >= Down(trial.left)
    BY <1>2 DEF Down
  <2>3. QED
    BY <1>1, <1>2, <2>1, <2>2 DEF Outlives, RecordOutlivesTrial, RollbackTime
<1>10. ASSUME NEW c \in Clients, User(c) \/ Callback(c)
       PROVE  UNCHANGED <<trial, record>>
  BY <1>10 DEF User, Edit, Apply, Revert, PageLoad, Callback, FirstCall, Dismiss, ApplyReply,
     ConfirmReply, ConfirmReject, RollbackReply, RevertReply, IgnoredReject, rpcdVars
<1>11. ASSUME NEW k \in Conns,
              \/ UncheckedList(k) \/ UncheckedCommit(k) \/ UncheckedApply(k)
              \/ ConfirmCheck(k) \/ RevertList(k) \/ RevertFile(k) \/ Lose(k)
       PROVE  UNCHANGED <<trial, record>>
  BY <1>11 DEF UncheckedList, UncheckedCommit, UncheckedApply, ConfirmCheck, RevertList,
     RevertFile, Lose, rpcdVars
<1>12. QED
  BY <1>3, <1>4, <1>5, <1>6, <1>7, <1>8, <1>9, <1>10, <1>11 DEF Next, Server, RollbackTimer

\* With a timeout configured at or above the minimum, the stored expiry never
\* runs out before rpcd's timer does.
THEOREM RecordOutlives ==
  ASSUME ConfRollback >= MinRollback
  PROVE  Spec => []RecordOutlivesTrial
<1>1. Init => Outlives
  BY TimeAssumption DEF Init, Outlives, RecordOutlivesTrial, NoTrial, RollbackTime, Larger
<1>2. ASSUME ApplyInv, Outlives, [Next]_vars
      PROVE  Outlives'
  <2>1. CASE Next
    BY <1>2, <2>1, OutlivesStep
  <2>2. CASE UNCHANGED vars
    BY <1>2, <2>2 DEF Outlives, RecordOutlivesTrial, RollbackTime, vars, rpcdVars
  <2>3. QED
    BY <1>2, <2>1, <2>2
<1>3. Outlives => RecordOutlivesTrial
  BY DEF Outlives
<1>4. QED
  BY <1>1, <1>2, <1>3, Bookkeeping, PTL DEF Spec

-----------------------------------------------------------------------------
(* Refinement: the device keeps the promise of TrialConfig *)

\* Without a trial there is nothing to put back; with one there is something,
\* and it covers exactly the files of the trial's delta.
FallbackInv == /\ trial.no = 0 => trial.files = NoDelta
               /\ FallbackComplete

LEMMA DeviceStep ==
  ASSUME ApplyInv, FallbackInv, Next
  PROVE  /\ FallbackInv'
         /\ Device!Next \/ UNCHANGED <<installed, trial.files>>
<1>1. /\ TypeOK /\ installed \in [Configs -> Values]
      /\ trial \in Trials /\ trial.files \in Deltas /\ trial.delta \in Deltas
      /\ Device!NoTrial = NoDelta
  BY DEF ApplyInv, TypeOK, Trials, Device!NoTrial, NoDelta
<1>2. CASE UNCHANGED <<installed, trial>>
  BY <1>2 DEF FallbackInv, FallbackComplete
<1>3. ASSUME NEW c \in Clients, User(c) \/ Callback(c)
      PROVE  UNCHANGED <<installed, trial>>
  BY <1>3 DEF User, Edit, Apply, Revert, PageLoad, Callback, FirstCall, Dismiss, ApplyReply,
     ConfirmReply, ConfirmReject, RollbackReply, RevertReply, IgnoredReject, rpcdVars
<1>4. ASSUME NEW k \in Conns,
             \/ ApplyRecord(k) \/ UncheckedList(k) \/ ConfirmCheck(k) \/ ConfirmClear(k)
             \/ RevertList(k) \/ RevertFile(k) \/ Lose(k)
      PROVE  UNCHANGED <<installed, trial>>
  BY <1>4 DEF ApplyRecord, UncheckedList, ConfirmCheck, ConfirmClear, RevertList,
     RevertFile, Lose, rpcdVars
<1>5. CASE Tick
  <2>1. /\ installed' = installed /\ trial'.files = trial.files
        /\ trial'.delta = trial.delta /\ trial'.no = trial.no
    BY <1>1, <1>5 DEF Tick, Trials
  <2>2. QED
    BY <2>1 DEF FallbackInv, FallbackComplete
<1>6. ASSUME NEW k \in Conns, UncheckedCommit(k) \/ UncheckedApply(k)
      PROVE  /\ UNCHANGED trial
             /\ Device!Next \/ UNCHANGED installed
  <2> DEFINE s == conn[k].session
  <2>1. s \in Sessions /\ conn[k].todo \subseteq Configs
    BY <1>1, <1>6 DEF UncheckedCommit, UncheckedApply, TypeOK, Connections, Slots
  <2>2. staged[s] \in Deltas /\ Overlay(installed, staged[s]) \in [Configs -> Values]
    BY <1>1, <2>1, DeltaTypes DEF TypeOK
  <2> DEFINE new == Overlay(installed, staged[s])
  <2>3. UNCHANGED trial
    BY <1>6 DEF UncheckedCommit, UncheckedApply
  <2>4. CASE UncheckedCommit(k)
    <3>1. \/ UNCHANGED installed
          \/ \E f \in conn[k].todo : installed' = [installed EXCEPT ![f] = new[f]]
      BY <2>4 DEF UncheckedCommit
    <3> HIDE DEF new
    <3>2. ASSUME NEW f \in Configs, installed' = [installed EXCEPT ![f] = new[f]]
          PROVE  Device!Next
      <4>1. installed' = [g \in Configs |-> IF g \in {f} THEN new[g] ELSE installed[g]]
        BY <1>1, <3>2
      <4>2. Device!Overwrite({f}, new)
        BY <2>3, <4>1 DEF Device!Overwrite
      <4>3. new \in [Configs -> Values] /\ {f} \in SUBSET Configs
        BY <2>2 DEF new
      <4>4. QED
        BY <4>2, <4>3 DEF Device!Next
    <3>3. QED
      BY <2>1, <2>3, <3>1, <3>2
  <2>5. CASE UncheckedApply(k)
    <3>1. installed' = [g \in Configs |-> IF g \in Configs THEN new[g] ELSE installed[g]]
      BY <1>1, <2>2, <2>5 DEF UncheckedApply
    <3>2. Device!Overwrite(Configs, new)
      BY <2>3, <3>1 DEF Device!Overwrite
    <3>3. QED
      BY <2>2, <2>3, <3>2 DEF Device!Next
  <2>6. QED
    BY <1>6, <2>4, <2>5
<1>7. ASSUME NEW k \in Conns, ApplyInstall(k)
      PROVE  /\ FallbackInv'
             /\ Device!Next \/ UNCHANGED <<installed, trial.files>>
  <2> DEFINE d == staged[conn[k].session]
             files == [f \in Configs |-> IF d[f] = None THEN None ELSE installed[f]]
  <2>1. CASE UNCHANGED <<installed, trial>>
    BY <1>2, <2>1
  <2>2. CASE /\ trial.no = 0 /\ Changed(d) # {}
             /\ trial'.no = Len(ledger) + 1 /\ trial'.files = files /\ trial'.delta = d
             /\ installed' = Overlay(installed, d)
    <3>1. d \in Deltas /\ Overlay(installed, d) \in [Configs -> Values]
      <4>1. conn[k].session \in Sessions
        BY <1>1, <1>7 DEF ApplyInstall, TypeOK, Connections
      <4>2. QED
        BY <1>1, <4>1, DeltaTypes DEF TypeOK
    <3>2. \A f \in Configs : d[f] = None <=> files[f] = None
      BY <1>1, NoneAssumption
    <3>3. Changed(files) = Changed(d)
      BY <3>2 DEF Changed
    <3>4. FallbackInv'
      <4>1. trial'.no # 0
        BY <1>1, <2>2 DEF TypeOK
      <4>2. Changed(trial.files)' = Changed(trial.delta)' /\ Changed(trial.files)' # {}
        BY <2>2, <3>3 DEF Changed
      <4>3. QED
        BY <4>1, <4>2 DEF FallbackInv, FallbackComplete
    <3>5. Device!Begin(Changed(d), Overlay(installed, d))
      <4>1. trial.files = Device!NoTrial
        BY <1>1, <2>2 DEF FallbackInv
      <4>2. installed' = [f \in Configs |-> IF f \in Changed(d) THEN Overlay(installed, d)[f]
                                            ELSE installed[f]]
        BY <2>2, <3>1 DEF Overlay, Changed
      <4>3. files = [f \in Configs |-> IF f \in Changed(d) THEN installed[f] ELSE None]
        BY DEF Changed
      <4>4. QED
        BY <2>2, <4>1, <4>2, <4>3 DEF Device!Begin
    <3>6. Changed(d) \in SUBSET Configs
      BY DEF Changed
    <3>7. QED
      BY <3>1, <3>4, <3>5, <3>6 DEF Device!Next
  <2>3. QED
    BY <1>7, <2>1, <2>2 DEF ApplyInstall, rpcdVars
<1>8. ASSUME trial.no # 0, trial' = NoTrial
      PROVE  /\ FallbackInv' /\ trial.files # Device!NoTrial /\ trial'.files = Device!NoTrial
  <2>1. Changed(NoDelta) = {}
    BY DEF Changed, NoDelta
  <2>2. QED
    BY <1>1, <1>8, <2>1 DEF FallbackInv, FallbackComplete, NoTrial
<1>9. ASSUME NEW k \in Conns, ConfirmTrial(k)
      PROVE  /\ FallbackInv'
             /\ Device!Next \/ UNCHANGED <<installed, trial.files>>
  <2>1. CASE UNCHANGED trial
    BY <1>2, <1>9, <2>1 DEF ConfirmTrial
  <2>2. CASE trial.no # 0 /\ trial' = NoTrial
    BY <1>8, <1>9, <2>2 DEF ConfirmTrial, Device!Next, Device!Keep
  <2>3. QED
    BY <1>9, <2>1, <2>2 DEF ConfirmTrial
<1>10. CASE RollbackTimer
  <2>1. installed' = Device!Safe
    BY <1>10 DEF RollbackTimer, Overlay, Device!Safe
  <2>2. QED
    BY <1>8, <1>10, <2>1 DEF RollbackTimer, Device!Next, Device!PutBack
<1>11. QED
  BY <1>2, <1>3, <1>4, <1>5, <1>6, <1>7, <1>9, <1>10 DEF Next, Server, FallbackInv, FallbackComplete

\* Whatever tabs, handlers and the network do, the files of the device go
\* live, stay and are put back as TrialConfig says.
THEOREM DeviceKeepsPromise == Spec => TrialPromise
<1>1. Init => FallbackInv /\ Device!Init
  BY DEF Init, FallbackInv, FallbackComplete, NoTrial, NoDelta, Device!Init, Device!NoTrial
<1>2. ASSUME ApplyInv, FallbackInv, [Next]_vars
      PROVE  FallbackInv' /\ [Device!Next]_<<installed, trial.files>>
  <2>1. CASE Next
    BY <1>2, <2>1, DeviceStep
  <2>2. CASE UNCHANGED vars
    BY <1>2, <2>2 DEF FallbackInv, FallbackComplete, vars, rpcdVars
  <2>3. QED
    BY <1>2, <2>1, <2>2
<1>3. QED
  BY <1>1, <1>2, Bookkeeping, PTL DEF Spec, TrialPromise, Device!Spec

\* What a rollback puts back covers every file of the trial.
THEOREM FallbackIsComplete == Spec => []FallbackComplete
<1>1. Init => FallbackInv
  BY DEF Init, FallbackInv, FallbackComplete, NoTrial
<1>2. ASSUME ApplyInv, FallbackInv, [Next]_vars
      PROVE  FallbackInv'
  <2>1. CASE Next
    BY <1>2, <2>1, DeviceStep
  <2>2. CASE UNCHANGED vars
    BY <1>2, <2>2 DEF FallbackInv, FallbackComplete, vars, rpcdVars
  <2>3. QED
    BY <1>2, <2>1, <2>2
<1>3. FallbackInv => FallbackComplete
  BY DEF FallbackInv
<1>4. QED
  BY <1>1, <1>2, <1>3, Bookkeeping, PTL DEF Spec

-----------------------------------------------------------------------------
(* A tab that reaches the device in time.  It is the only one, nothing is    *)
(* lost, the tab and the handlers outrun the clock, the page is not reloaded *)
(* by hand; the configured timeout is no less than the minimum, so that both *)
(* ends use the same, and longer than the holdoff.                           *)

InTime(c) ==
  /\ Clients = {c} /\ ~Lossy /\ Prompt /\ "reload" \notin Buttons
  /\ ConfRollback >= MinRollback /\ Holdoff < ConfRollback

\* Nothing is on trial, nor said to be.
Quiet == trial.no = 0 /\ record.left = 0

Kept(n) == n \in Applies /\ ledger[n].outcome = "kept"

\* What is left of the timeout: only the holdoff takes time.
Left(c) == ConfRollback - Holdoff + holdoff[c]

OnTrial(c) ==
  /\ trial.no # 0 /\ trial.no = auth[c] /\ record.token = trial.no
  /\ trial.left = Left(c) /\ record.left = Left(c)

JustBegun(r) == trial.no # 0 /\ r.tok = trial.no /\ trial.left = ConfRollback

\* How far a request is, and what it has done so far.
ApplyFits(r) ==
  \/ r.pc = "sent" /\ Quiet
  \/ r.pc = "installed" /\ JustBegun(r) /\ record.left = 0
  \/ /\ r.pc = "replied" /\ r.status = 200 /\ JustBegun(r)
     /\ record.token = trial.no /\ record.left = ConfRollback
  \/ r.pc = "replied" /\ r.status # 200 /\ Quiet

ConfirmFits(c, r) ==
  \/ r.pc \in {"sent", "checked"} /\ checked[c] /\ OnTrial(c)
  \/ r.pc = "confirmed" /\ checked[c] /\ trial.no = 0 /\ Kept(auth[c])
  \/ r.pc = "replied" /\ r.status = 200 /\ checked[c] /\ Quiet /\ Kept(auth[c])
  \/ r.pc = "sent" /\ ~checked[c] /\ Quiet
  \/ r.pc = "replied" /\ r.status = 204 /\ ~checked[c] /\ Quiet

RequestFits(c, r) ==
  \/ phase[c] = "applying" /\ checked[c] /\ r.op = "apply" /\ ApplyFits(r)
  \/ /\ phase[c] = "applying" /\ ~checked[c] /\ r.op = "unchecked"
     /\ Quiet /\ r.pc \in {"sent", "loop", "replied"}
  \/ /\ phase[c] = "discarding" /\ r.op = "revert"
     /\ Quiet /\ r.pc \in {"sent", "loop", "replied"}
  \/ /\ phase[c] = "confirming" /\ r.op = "confirm" /\ r.tok = auth[c]
     /\ ConfirmFits(c, r)

NoRequest == [k \in Conns |-> Free]
Only(k, r) == [j \in Conns |-> IF j = k THEN r ELSE Free]

\* There is one request, and the phase of the tab and the trial go with it ...
Serving(c) ==
  \E k \in Conns : /\ conn = Only(k, conn[k]) /\ conn[k].client = c
                   /\ RequestFits(c, conn[k])

\* ... or none, as before the first confirm or at the end.
Resting(c) ==
  /\ conn = NoRequest
  /\ \/ /\ phase[c] \in {"idle", "notice", "applied", "discarded"} /\ Quiet
        /\ phase[c] = "applied" /\ checked[c] => Kept(auth[c])
     \/ phase[c] = "confirming" /\ IF checked[c] THEN OnTrial(c) ELSE Quiet

InTimeInv(c) ==
  /\ ReachableNotReverted
  /\ phase[c] = "confirming" => deadline[c] = Left(c)
  /\ Serving(c) \/ Resting(c)

\* The table of requests when there is at most one.
LEMMA OneRequest ==
  ASSUME TypeOK, NEW k \in Conns, NEW r \in Connections, conn = Only(k, r)
  PROVE  /\ conn[k] = r
         /\ \A x : [conn EXCEPT ![k] = x] = Only(k, x)
         /\ r.pc \in {"replied", "lost"} => Release(k) = NoRequest
         /\ \A j \in Conns : conn[j].pc # "free" => j = k
BY DEF Only, NoRequest, Release, Dropped, Free

LEMMA SentOnly ==
  ASSUME NEW op, NEW c, NEW tok, Send(NoRequest, op, c, tok)
  PROVE  \E k \in Conns : conn' = Only(k, Request(op, c, tok)) /\ conn'[k] = Request(op, c, tok)
BY DEF Send, NoRequest, Only, Unused

LEMMA InTimeUser ==
  ASSUME NEW c, InTime(c), ApplyInv, TypeOK', InTimeInv(c), User(c)
  PROVE  InTimeInv(c)'
<1>1. /\ c \in Clients /\ c # None /\ TypeOK /\ RollbackTime = ConfRollback
      /\ conn \in [Conns -> Connections] /\ phase \in [Clients -> Phases]
      /\ checked \in [Clients -> BOOLEAN] /\ record.left \in Nat
  BY TimeAssumption, NoneAssumption DEF InTime, ApplyInv, TypeOK, RollbackTime, Larger, Records
<1>2. UNCHANGED <<installed, trial, record, ledger>>
  BY DEF User, Edit, Apply, Revert, PageLoad, rpcdVars
<1>3. ReachableNotReverted'
  BY <1>2 DEF InTimeInv, ReachableNotReverted, Applies
<1>4. CASE Edit(c)
  BY <1>1, <1>2, <1>3, <1>4
     DEF Edit, InTimeInv, Serving, Resting, RequestFits, Quiet, tabVars
<1>5. ASSUME NEW op \in {"apply", "unchecked", "revert"}, Send(conn, op, c, NoToken),
             phase[c] \in {"idle", "rolledback"}
      PROVE  /\ Quiet
             /\ \E k \in Conns : conn' = Only(k, conn'[k]) /\ conn'[k] = Request(op, c, NoToken)
  <2>1. conn = NoRequest /\ Quiet
    BY <1>5 DEF InTimeInv, Serving, Resting, RequestFits
  <2>2. QED
    BY <1>5, <2>1, SentOnly
<1>6. ASSUME NEW chk \in BOOLEAN, Apply(c, chk)
      PROVE  InTimeInv(c)'
  <2> DEFINE op == IF chk THEN "apply" ELSE "unchecked"
  <2>1. /\ Send(conn, op, c, NoToken) /\ phase[c] \in {"idle", "rolledback"}
        /\ phase'[c] = "applying" /\ checked'[c] = chk
    BY <1>1, <1>6 DEF Apply
  <2>2. PICK k \in Conns : conn' = Only(k, conn'[k]) /\ conn'[k] = Request(op, c, NoToken)
    BY <1>5, <2>1
  <2>3. Quiet'
    BY <1>2, <1>5, <2>1 DEF Quiet
  <2>4. RequestFits(c, conn[k])' /\ conn'[k].client = c
    BY <2>1, <2>2, <2>3 DEF Request, RequestFits, ApplyFits
  <2>5. QED
    BY <1>3, <2>1, <2>2, <2>4 DEF InTimeInv, Serving, Only
<1>7. CASE Revert(c)
  <2>1. /\ Send(conn, "revert", c, NoToken) /\ phase[c] \in {"idle", "rolledback"}
        /\ phase'[c] = "discarding"
    BY <1>1, <1>7 DEF Revert
  <2>2. PICK k \in Conns : conn' = Only(k, conn'[k]) /\ conn'[k] = Request("revert", c, NoToken)
    BY <1>5, <2>1
  <2>3. Quiet'
    BY <1>2, <1>5, <2>1 DEF Quiet
  <2>4. RequestFits(c, conn[k])' /\ conn'[k].client = c
    BY <2>1, <2>2, <2>3 DEF Request, RequestFits
  <2>5. QED
    BY <1>3, <2>1, <2>2, <2>4 DEF InTimeInv, Serving, Only
<1>8. CASE PageLoad(c)
  <2>1. conn = NoRequest /\ Quiet
    BY <1>8 DEF PageLoad, InTime, InTimeInv, Serving, Resting, RequestFits
  <2>2. conn' = NoRequest
    BY <1>1, <1>8, <2>1 DEF PageLoad, NoRequest, Free
  <2>3. phase'[c] = "idle"
    BY <1>1, <1>8, <2>1 DEF PageLoad, Quiet, RollbackPending
  <2>4. QED
    BY <1>2, <1>3, <2>1, <2>2, <2>3 DEF InTimeInv, Resting, Quiet, NoRequest
<1>9. QED
  BY <1>4, <1>6, <1>7, <1>8 DEF User

\* The tab asks for a confirm when nothing is under way, or it was just answered.
LEMMA InTimeCall ==
  ASSUME NEW c, InTime(c), ApplyInv, TypeOK', InTimeInv(c), phase[c] = "confirming",
         NEW status \in Statuses, Call(c, status, NoRequest),
         UNCHANGED <<rpcdVars, record, checked, holdoff, auth, ledger>>,
         \/ status = 0 /\ Resting(c)
         \/ status \in {200, 204} /\ Quiet /\ (checked[c] => Kept(auth[c]))
  PROVE  InTimeInv(c)'
<1>1. /\ c \in Clients /\ TypeOK /\ phase \in [Clients -> Phases] /\ deadline[c] = Left(c)
      /\ holdoff[c] \in Nat /\ ConfRollback \in Nat /\ Holdoff \in Nat
  BY TimeAssumption DEF InTime, ApplyInv, TypeOK, InTimeInv
<1>2. /\ ~GiveUp(c) /\ Left(c)' = Left(c) /\ ReachableNotReverted'
      /\ (Quiet => Quiet') /\ (OnTrial(c) => OnTrial(c)')
      /\ \A n : Kept(n) => Kept(n)'
  BY <1>1 DEF InTime, Left, InTimeInv, ReachableNotReverted, Applies, Quiet, OnTrial, Kept, rpcdVars
<1>3. CASE status = 0 /\ Resting(c)
  <2>1. /\ Send(NoRequest, "confirm", c, auth[c]) /\ UNCHANGED <<phase, deadline>>
    BY <1>2, <1>3 DEF Call
  <2>2. PICK k \in Conns : /\ conn' = Only(k, conn'[k])
                           /\ conn'[k] = Request("confirm", c, auth[c])
    BY <2>1, SentOnly
  <2>3. IF checked[c] THEN OnTrial(c) ELSE Quiet
    BY <1>3 DEF Resting
  <2>4. RequestFits(c, conn[k])' /\ conn'[k].client = c
    BY <1>1, <1>2, <2>1, <2>2, <2>3 DEF Request, RequestFits, ConfirmFits
  <2>5. QED
    BY <1>1, <1>2, <2>1, <2>2, <2>4 DEF InTimeInv, Serving, Only
<1>4. CASE status \in {200, 204} /\ Quiet /\ (checked[c] => Kept(auth[c]))
  <2>1. phase'[c] = "applied" /\ conn' = NoRequest
    BY <1>1, <1>2, <1>4 DEF Call
  <2>2. QED
    BY <1>2, <1>4, <2>1 DEF InTimeInv, Resting, NoRequest
<1>5. QED
  BY <1>3, <1>4

\* The answer the tab reads is the one request there is.
LEMMA InTimeAnswer ==
  ASSUME NEW c, InTime(c), ApplyInv, InTimeInv(c), NEW k \in Conns,
         conn[k].client = c, conn[k].pc = "replied"
  PROVE  /\ RequestFits(c, conn[k]) /\ Release(k) = NoRequest
         /\ conn[k] \in Connections /\ conn[k].status \in Statuses
<1>1. TypeOK /\ conn \in [Conns -> Connections]
  BY DEF ApplyInv, TypeOK
<1>2. conn # NoRequest
  BY DEF NoRequest, Free
<1>3. PICK j \in Conns : conn = Only(j, conn[j]) /\ RequestFits(c, conn[j])
  BY <1>2 DEF InTimeInv, Serving, Resting
<1>4. j = k
  BY <1>1, <1>3, OneRequest
<1>5. QED
  BY <1>1, <1>3, <1>4, OneRequest DEF Connections, Slots

LEMMA InTimeCallback ==
  ASSUME NEW c, InTime(c), ApplyInv, TypeOK', InTimeInv(c), Callback(c)
  PROVE  InTimeInv(c)'
<1>1. /\ c \in Clients /\ TypeOK /\ RollbackTime = ConfRollback
      /\ conn \in [Conns -> Connections] /\ phase \in [Clients -> Phases]
      /\ checked \in [Clients -> BOOLEAN] /\ auth \in [Clients -> Nat]
      /\ deadline \in [Clients -> Nat] /\ holdoff \in [Clients -> Nat]
      /\ ConfRollback \in Nat /\ Holdoff \in Nat
  BY TimeAssumption DEF InTime, ApplyInv, TypeOK, RollbackTime, Larger
<1>2. UNCHANGED <<rpcdVars, record, checked, ledger>>
  BY DEF Callback, FirstCall, Dismiss, ApplyReply, ConfirmReply, ConfirmReject, RollbackReply,
         RevertReply, IgnoredReject, tabVars
<1>3. /\ ReachableNotReverted' /\ (Quiet => Quiet')
      /\ \A n : Kept(n) => Kept(n)'
  BY <1>2 DEF InTimeInv, ReachableNotReverted, Applies, Quiet, Kept, rpcdVars
<1>4. CASE FirstCall(c)
  <2>1. conn = NoRequest /\ Resting(c)
    BY <1>4 DEF FirstCall, Waiting, InTimeInv, Serving, Resting
  <2>2. 0 \in Statuses
    BY DEF Statuses
  <2>3. QED
    BY <1>2, <1>4, <2>1, <2>2, InTimeCall DEF FirstCall
<1>5. CASE Dismiss(c)
  <2>1. /\ conn = NoRequest /\ Quiet /\ conn' = NoRequest /\ phase'[c] = "idle"
    BY <1>1, <1>5 DEF Dismiss, InTimeInv, Serving, Resting, RequestFits, NoRequest
  <2>2. QED
    BY <1>3, <2>1 DEF InTimeInv, Resting, NoRequest
<1>6. ASSUME NEW k \in Conns, ApplyReply(c, k)
      PROVE  InTimeInv(c)'
  <2>1. /\ conn[k].client = c /\ conn[k].pc = "replied" /\ phase[c] = "applying"
        /\ conn' = Release(k)
    BY <1>6 DEF ApplyReply
  <2>2. RequestFits(c, conn[k]) /\ conn' = NoRequest
    BY <2>1, InTimeAnswer
  <2> DEFINE ok == conn[k].status = IF checked[c] THEN 200 ELSE 204
  <2>3. CASE ~ok
    <3>1. phase'[c] = "notice" /\ Quiet
      BY <1>1, <1>6, <2>1, <2>2, <2>3 DEF ApplyReply, RequestFits, ApplyFits
    <3>2. QED
      BY <1>3, <2>2, <3>1 DEF InTimeInv, Resting, NoRequest
  <2>4. CASE ok
    <3>1. /\ phase'[c] = "confirming" /\ deadline'[c] = ConfRollback /\ holdoff'[c] = Holdoff
          /\ auth'[c] = IF checked[c] THEN conn[k].tok ELSE auth[c]
      BY <1>1, <1>6, <2>1, <2>4 DEF ApplyReply
    <3>2. Left(c)' = ConfRollback
      BY <1>1, <3>1 DEF Left, InTime
    <3>3. IF checked[c]
          THEN /\ JustBegun(conn[k]) /\ record.token = trial.no /\ record.left = ConfRollback
          ELSE Quiet
      BY <2>1, <2>2, <2>4 DEF RequestFits, ApplyFits
    <3>4. IF checked'[c] THEN OnTrial(c)' ELSE Quiet'
      BY <1>2, <1>3, <3>1, <3>2, <3>3 DEF JustBegun, OnTrial, rpcdVars
    <3>5. QED
      BY <1>3, <2>2, <3>1, <3>2, <3>4 DEF InTimeInv, Resting, NoRequest
  <2>5. QED
    BY <2>3, <2>4
<1>7. ASSUME NEW k \in Conns, ConfirmReply(c, k)
      PROVE  InTimeInv(c)'
  <2>1. /\ conn[k].client = c /\ conn[k].pc = "replied" /\ phase[c] = "confirming"
    BY <1>7 DEF ConfirmReply
  <2>2. /\ RequestFits(c, conn[k]) /\ Release(k) = NoRequest /\ conn[k].status \in Statuses
    BY <2>1, InTimeAnswer
  <2>3. conn[k].status \in {200, 204} /\ Quiet /\ (checked[c] => Kept(auth[c]))
    BY <2>1, <2>2 DEF RequestFits, ConfirmFits
  <2>4. Call(c, conn[k].status, NoRequest) /\ UNCHANGED <<holdoff, auth>>
    BY <1>7, <2>2 DEF ConfirmReply
  <2> HIDE DEF Call
  <2>5. QED
    BY <1>2, <2>1, <2>2, <2>3, <2>4, InTimeCall
<1>8. ASSUME NEW k \in Conns, RevertReply(c, k)
      PROVE  InTimeInv(c)'
  <2>1. /\ conn[k].client = c /\ conn[k].pc = "replied" /\ phase[c] = "discarding"
        /\ conn' = Release(k) /\ phase'[c] \in {"discarded", "notice"}
    BY <1>1, <1>8 DEF RevertReply
  <2>2. conn' = NoRequest /\ Quiet
    BY <2>1, InTimeAnswer DEF RequestFits
  <2>3. QED
    BY <1>3, <2>1, <2>2 DEF InTimeInv, Resting, NoRequest
<1>9. ASSUME NEW k \in Conns
      PROVE  ~RollbackReply(c, k) /\ ~ConfirmReject(c, k) /\ ~IgnoredReject(c, k)
  BY DEF RollbackReply, ConfirmReject, IgnoredReject, InTime, InTimeInv, Serving, Resting, RequestFits
<1>10. QED
  BY <1>4, <1>5, <1>6, <1>7, <1>8, <1>9 DEF Callback

\* What a handler does next is what its request says.
LEMMA InTimeServer ==
  ASSUME NEW c, InTime(c), ApplyInv, TypeOK', InTimeInv(c), NEW k \in Conns, Server(k)
  PROVE  InTimeInv(c)'
<1>1. /\ c \in Clients /\ c # None /\ TypeOK /\ RollbackTime = ConfRollback
      /\ conn \in [Conns -> Connections] /\ trial \in Trials /\ record \in Records
      /\ ConfRollback \in Nat /\ Holdoff \in Nat /\ holdoff[c] \in Nat
      /\ MinRollback \in Nat \ {0}
      /\ ledger \in Seq(LedgerEntries) /\ staged \in [Sessions -> Deltas]
  BY TimeAssumption, NoneAssumption DEF InTime, ApplyInv, TypeOK, RollbackTime, Larger
<1> DEFINE r == conn[k]
<1>2. r.pc # "free" /\ r \in Connections
  BY <1>1 DEF Server, ApplyInstall, ApplyRecord, UncheckedList, UncheckedCommit, UncheckedApply,
     ConfirmCheck, ConfirmTrial, ConfirmClear, RevertList, RevertFile
<1>3. conn = Only(k, r) /\ r.client = c /\ RequestFits(c, r)
  <2>1. conn # NoRequest
    BY <1>2 DEF NoRequest, Free
  <2>2. PICK j \in Conns : conn = Only(j, conn[j]) /\ conn[j].client = c /\ RequestFits(c, conn[j])
    BY <2>1 DEF InTimeInv, Serving, Resting
  <2>3. j = k
    BY <1>1, <1>2, <2>2, OneRequest
  <2>4. QED
    BY <2>2, <2>3
<1>4. UNCHANGED tabVars
  BY DEF Server, ApplyInstall, ApplyRecord, UncheckedList, UncheckedCommit, UncheckedApply,
     ConfirmCheck, ConfirmTrial, ConfirmClear, RevertList, RevertFile
<1>5. ASSUME NEW x, conn' = [conn EXCEPT ![k] = x]
      PROVE  conn' = Only(k, conn'[k]) /\ conn'[k] = x
  <2>1. conn' = Only(k, x)
    BY <1>1, <1>2, <1>3, <1>5, OneRequest
  <2>2. QED
    BY <2>1 DEF Only
<1>6. ASSUME conn' = Only(k, conn'[k]), conn'[k].client = c, RequestFits(c, conn[k])',
             ReachableNotReverted'
      PROVE  InTimeInv(c)'
  <2>2. Serving(c)'
    BY <1>6 DEF Serving, Only
  <2>3. (phase[c] = "confirming" => deadline[c] = Left(c))'
    BY <1>4 DEF InTimeInv, tabVars, Left
  <2>4. QED
    BY <1>6, <2>2, <2>3 DEF InTimeInv
<1>7. ASSUME NEW st \in Statuses, Answer(k, st)
      PROVE  /\ conn' = Only(k, conn'[k])
             /\ conn'[k].client = c /\ conn'[k].op = r.op /\ conn'[k].tok = r.tok
             /\ conn'[k].pc = "replied" /\ conn'[k].status = st
  <2>1. conn' = [conn EXCEPT ![k] = [r EXCEPT !.pc = "replied", !.status = st]]
    BY <1>1, <1>3, <1>7 DEF Answer
  <2>2. conn' = Only(k, conn'[k]) /\ conn'[k] = [r EXCEPT !.pc = "replied", !.status = st]
    BY <1>5, <2>1
  <2>3. QED
    BY <1>2, <1>3, <2>2 DEF Connections, Slots
<1>8. /\ UNCHANGED ledger => ReachableNotReverted'
      /\ UNCHANGED <<trial, record>> => (Quiet => Quiet')
      /\ UNCHANGED ledger => \A n : Kept(n) => Kept(n)'
      /\ UNCHANGED <<trial, record>> => (OnTrial(c) => OnTrial(c)')
  BY <1>4 DEF InTimeInv, ReachableNotReverted, Applies, Quiet, Kept, OnTrial, Left, tabVars
<1>9. {200, 204, 403} \subseteq Statuses
  BY DEF Statuses
<1>10. CASE ApplyInstall(k)
  <2>1. phase[c] = "applying" /\ checked[c] /\ Quiet /\ UNCHANGED record
    BY <1>3, <1>10 DEF ApplyInstall, RequestFits, ApplyFits
  <2>2. CASE Answer(k, 204) /\ UNCHANGED <<rpcdVars, ledger>>
    <3>1. RequestFits(c, conn[k])'
      BY <1>3, <1>4, <1>7, <1>8, <1>9, <1>10, <2>1, <2>2
         DEF ApplyInstall, RequestFits, ApplyFits, tabVars, rpcdVars
    <3>2. QED
      BY <1>6, <1>7, <1>8, <1>9, <2>2, <3>1
  <2>3. CASE /\ trial'.no = Len(ledger) + 1 /\ trial'.left = RollbackTime
             /\ ledger' = Append(ledger, [owner |-> r.session, outcome |-> "trial"])
             /\ conn' = [conn EXCEPT ![k].pc = "installed", ![k].tok = Len(ledger) + 1]
    <3> DEFINE x == [r EXCEPT !.pc = "installed", !.tok = Len(ledger) + 1]
    <3>1. conn' = [conn EXCEPT ![k] = x]
      BY <1>1, <2>3
    <3>2. conn' = Only(k, conn'[k]) /\ conn'[k] = x
      BY <1>5, <3>1
    <3>3. /\ conn'[k].client = c /\ conn'[k].op = r.op
          /\ conn'[k].pc = "installed" /\ conn'[k].tok = trial'.no
      <4>1. x.client = r.client /\ x.op = r.op /\ x.pc = "installed" /\ x.tok = Len(ledger) + 1
        BY <1>2 DEF Connections, Slots
      <4>2. QED
        BY <1>3, <2>3, <3>2, <4>1
    <3>4. RequestFits(c, conn[k])'
      BY <1>1, <1>4, <1>10, <2>1, <2>3, <3>3
         DEF RequestFits, ApplyFits, JustBegun, Quiet, tabVars, ApplyInstall
    <3>5. ReachableNotReverted'
      BY <1>1, <2>3 DEF InTimeInv, ReachableNotReverted, Applies, LedgerEntries
    <3> HIDE DEF x
    <3>6. QED
      BY <1>6, <3>2, <3>3, <3>4, <3>5
  <2>4. QED
    BY <1>10, <2>1, <2>2, <2>3 DEF ApplyInstall, Quiet
<1>11. CASE ApplyRecord(k)
  <2>1. phase[c] = "applying" /\ checked[c] /\ JustBegun(r) /\ r.op = "apply"
    BY <1>3, <1>11 DEF ApplyRecord, RequestFits, ApplyFits
  <2>2. RequestFits(c, conn[k])'
    BY <1>4, <1>7, <1>9, <1>11, <2>1
       DEF ApplyRecord, RequestFits, ApplyFits, JustBegun, tabVars, rpcdVars
  <2>3. QED
    BY <1>6, <1>7, <1>8, <1>9, <1>11, <2>2 DEF ApplyRecord
<1>12. ASSUME \/ UncheckedList(k) \/ UncheckedCommit(k) \/ UncheckedApply(k)
              \/ RevertList(k) \/ RevertFile(k)
       PROVE  InTimeInv(c)'
  <2>1. UNCHANGED <<trial, record, ledger>> /\ Quiet
    BY <1>3, <1>12 DEF UncheckedList, UncheckedCommit, UncheckedApply, RevertList, RevertFile,
                       RequestFits, rpcdVars
  <2>2. /\ conn' = Only(k, conn'[k]) /\ conn'[k].client = c /\ conn'[k].op = r.op
        /\ conn'[k].pc \in {"loop", "replied"}
    <3>1. \/ \E st \in {200, 204, 403} : Answer(k, st)
          \/ \E t : conn' = [conn EXCEPT ![k].pc = "loop", ![k].todo = t]
          \/ r.pc = "loop" /\ \E t : conn' = [conn EXCEPT ![k].todo = t]
      BY <1>12 DEF UncheckedList, UncheckedCommit, UncheckedApply, RevertList, RevertFile
    <3>2. ASSUME NEW st \in {200, 204, 403}, Answer(k, st)
          PROVE  /\ conn' = Only(k, conn'[k]) /\ conn'[k].client = c /\ conn'[k].op = r.op
                 /\ conn'[k].pc \in {"loop", "replied"}
      BY <1>7, <1>9, <3>2
    <3>3. ASSUME NEW t, conn' = [conn EXCEPT ![k].pc = "loop", ![k].todo = t]
          PROVE  /\ conn' = Only(k, conn'[k]) /\ conn'[k].client = c /\ conn'[k].op = r.op
                 /\ conn'[k].pc \in {"loop", "replied"}
      <4>1. conn' = [conn EXCEPT ![k] = [r EXCEPT !.pc = "loop", !.todo = t]]
        BY <1>1, <3>3
      <4>2. conn' = Only(k, conn'[k]) /\ conn'[k] = [r EXCEPT !.pc = "loop", !.todo = t]
        BY <1>5, <4>1
      <4>3. QED
        BY <1>2, <1>3, <4>2 DEF Connections, Slots
    <3>4. ASSUME NEW t, r.pc = "loop", conn' = [conn EXCEPT ![k].todo = t]
          PROVE  /\ conn' = Only(k, conn'[k]) /\ conn'[k].client = c /\ conn'[k].op = r.op
                 /\ conn'[k].pc \in {"loop", "replied"}
      <4>1. conn' = [conn EXCEPT ![k] = [r EXCEPT !.todo = t]]
        BY <1>1, <3>4
      <4>2. conn' = Only(k, conn'[k]) /\ conn'[k] = [r EXCEPT !.todo = t]
        BY <1>5, <4>1
      <4>3. QED
        BY <1>2, <1>3, <3>4, <4>2 DEF Connections, Slots
    <3>5. QED
      BY <3>1, <3>2, <3>3, <3>4
  <2>3. r.op \in {"unchecked", "revert"}
    BY <1>12 DEF UncheckedList, UncheckedCommit, UncheckedApply, RevertList, RevertFile
  <2>4. RequestFits(c, conn[k])'
    BY <1>3, <1>4, <1>8, <2>1, <2>2, <2>3 DEF RequestFits, tabVars
  <2>5. QED
    BY <1>6, <1>8, <2>1, <2>2, <2>4
<1>13. CASE ConfirmCheck(k)
  <2>1. /\ UNCHANGED <<rpcdVars, record, ledger>> /\ phase[c] = "confirming" /\ r.tok = auth[c]
        /\ r.op = "confirm" /\ IF checked[c] THEN OnTrial(c) ELSE Quiet
    BY <1>3, <1>13 DEF ConfirmCheck, RequestFits, ConfirmFits
  <2>2. CASE ~checked[c]
    <3>1. Answer(k, 204)
      BY <1>13, <2>1, <2>2 DEF ConfirmCheck, RollbackPending, Quiet
    <3>2. RequestFits(c, conn[k])'
      BY <1>4, <1>7, <1>8, <1>9, <2>1, <2>2, <3>1 DEF RequestFits, ConfirmFits, tabVars, rpcdVars
    <3>3. QED
      BY <1>6, <1>7, <1>8, <1>9, <2>1, <3>1, <3>2
  <2>3. CASE checked[c]
    <3>1. record.left > 0 /\ record.token = r.tok
      BY <1>1, <2>1, <2>3 DEF OnTrial, Left, InTime
    <3>2. conn' = [conn EXCEPT ![k].pc = "checked", ![k].session = record.session]
      BY <1>13, <3>1 DEF ConfirmCheck, RollbackPending
    <3> DEFINE x == [r EXCEPT !.pc = "checked", !.session = record.session]
    <3>3. conn' = [conn EXCEPT ![k] = x]
      BY <1>1, <3>2
    <3>4. conn' = Only(k, conn'[k]) /\ conn'[k] = x
      BY <1>5, <3>3
    <3>5. /\ conn'[k].client = c /\ conn'[k].pc = "checked"
          /\ conn'[k].tok = r.tok /\ conn'[k].op = r.op
      BY <1>2, <1>3, <3>4 DEF Connections, Slots
    <3> HIDE DEF x
    <3>6. RequestFits(c, conn[k])'
      BY <1>4, <1>8, <2>1, <2>3, <3>5 DEF RequestFits, ConfirmFits, tabVars, rpcdVars
    <3>7. QED
      BY <1>6, <1>8, <2>1, <3>4, <3>5, <3>6
  <2>4. QED
    BY <1>1, <2>2, <2>3 DEF TypeOK
<1>14. CASE ConfirmTrial(k)
  <2>1. /\ UNCHANGED record /\ phase[c] = "confirming" /\ r.tok = auth[c] /\ checked[c]
        /\ r.op = "confirm" /\ OnTrial(c) /\ r.pc = "checked"
    BY <1>3, <1>14 DEF ConfirmTrial, RequestFits, ConfirmFits
  <2>2. trial.no # 0 /\ trial.sid = r.session /\ trial.no \in Applies /\ trial.no = auth[c]
    <3>1. r.tok \in Applies /\ ledger[r.tok].owner = r.session
      BY <2>1 DEF ApplyInv, TokensOnLedger, TokenOwned
    <3>2. QED
      BY <2>1, <3>1 DEF OnTrial, ApplyInv, TrialOnLedger
  <2>3. /\ ledger' = [ledger EXCEPT ![trial.no].outcome = "kept"] /\ trial' = NoTrial
        /\ conn' = [conn EXCEPT ![k].pc = "confirmed"]
    BY <1>14, <2>2 DEF ConfirmTrial
  <2> DEFINE x == [r EXCEPT !.pc = "confirmed"]
  <2>4. conn' = [conn EXCEPT ![k] = x]
    BY <1>1, <2>3
  <2>5. conn' = Only(k, conn'[k]) /\ conn'[k] = x
    BY <1>5, <2>4
  <2>6. /\ conn'[k].client = c /\ conn'[k].pc = "confirmed"
        /\ conn'[k].tok = r.tok /\ conn'[k].op = r.op
    BY <1>2, <1>3, <2>5 DEF Connections, Slots
  <2> HIDE DEF x
  <2>7. /\ Len(ledger') = Len(ledger) /\ ledger'[trial.no].outcome = "kept"
        /\ \A n \in Applies : n # trial.no => ledger'[n] = ledger[n]
    BY <1>1, <2>2, <2>3 DEF Applies, LedgerEntries
  <2>8. Kept(auth[c])' /\ ReachableNotReverted'
    BY <1>4, <2>2, <2>7 DEF Kept, Applies, InTimeInv, ReachableNotReverted, tabVars
  <2>9. RequestFits(c, conn[k])'
    BY <1>4, <2>1, <2>3, <2>6, <2>8 DEF RequestFits, ConfirmFits, tabVars, NoTrial
  <2>10. QED
    BY <1>6, <2>5, <2>6, <2>8, <2>9
<1>15. CASE ConfirmClear(k)
  <2>1. /\ phase[c] = "confirming" /\ r.tok = auth[c] /\ checked[c]
        /\ r.op = "confirm" /\ trial.no = 0 /\ Kept(auth[c])
        /\ UNCHANGED <<trial, ledger>> /\ record'.left = 0 /\ Answer(k, 200)
    BY <1>3, <1>15 DEF ConfirmClear, RequestFits, ConfirmFits, rpcdVars, NoRecord
  <2>2. RequestFits(c, conn[k])'
    BY <1>4, <1>7, <1>8, <1>9, <2>1 DEF RequestFits, ConfirmFits, Quiet, tabVars
  <2>3. QED
    BY <1>6, <1>7, <1>8, <1>9, <2>1, <2>2
<1>16. QED
  BY <1>10, <1>11, <1>12, <1>13, <1>14, <1>15 DEF Server

LEMMA InTimeClock ==
  ASSUME NEW c, InTime(c), ApplyInv, TypeOK', InTimeInv(c), Tick
  PROVE  InTimeInv(c)'
<1>1. /\ c \in Clients /\ TypeOK /\ trial \in Trials /\ record \in Records
      /\ conn \in [Conns -> Connections]
      /\ deadline \in [Clients -> Nat] /\ holdoff \in [Clients -> Nat]
      /\ ConfRollback \in Nat /\ Holdoff \in Nat
  BY TimeAssumption DEF InTime, ApplyInv, TypeOK
<1>2. UNCHANGED <<conn, phase, checked, auth, ledger>>
  BY DEF Tick
<1>3. /\ trial'.no = trial.no /\ trial'.left = Down(trial.left)
      /\ record'.token = record.token /\ record'.left = Down(record.left)
      /\ deadline'[c] = Down(deadline[c]) /\ holdoff'[c] = Down(holdoff[c])
  BY <1>1 DEF Tick, Trials, Records
<1>4. /\ ReachableNotReverted' /\ (Quiet => Quiet')
      /\ \A n : Kept(n) => Kept(n)'
  BY <1>2, <1>3 DEF InTimeInv, ReachableNotReverted, Applies, Quiet, Kept, Down
<1>5. ~Serving(c)
  <2>1. \A k \in Conns : conn[k].pc = "free"
    BY DEF Tick, InTime, Unused
  <2>2. QED
    BY <2>1 DEF Serving, RequestFits, ApplyFits, ConfirmFits
<1>6. phase[c] = "confirming" => Left(c)' = Left(c) - 1 /\ Left(c) \in Nat \ {0}
  <2>1. phase[c] = "confirming" => holdoff[c] > 0
    BY <1>1 DEF Tick, InTime
  <2>2. QED
    BY <1>1, <1>3, <2>1 DEF Left, InTime, Down
<1>7. phase[c] = "confirming" => deadline'[c] = Left(c)' /\ (OnTrial(c) => OnTrial(c)')
  BY <1>1, <1>2, <1>3, <1>6 DEF InTimeInv, OnTrial, Down, Trials, Records
<1>8. Resting(c)'
  BY <1>2, <1>4, <1>5, <1>7 DEF InTimeInv, Resting, NoRequest
<1>9. QED
  BY <1>2, <1>4, <1>7, <1>8 DEF InTimeInv

\* rpcd's timer does not fire: a trial ends before its time is up.
LEMMA InTimeTrial ==
  ASSUME NEW c, InTime(c), ApplyInv, InTimeInv(c)
  PROVE  /\ trial.no # 0 => trial.left > 0
         /\ trial.no # 0 /\ (\A k \in Conns : conn[k].pc # "installed") => record.left > 0
         /\ phase[c] = "applied" /\ checked[c] => Kept(auth[c])
<1>1. /\ ConfRollback \in Nat /\ Holdoff \in Nat /\ holdoff[c] \in Nat /\ ConfRollback > 0
  BY TimeAssumption DEF InTime, ApplyInv, TypeOK
<1>2. OnTrial(c) \/ Quiet => /\ trial.no # 0 => trial.left > 0 /\ record.left > 0
  BY <1>1 DEF OnTrial, Quiet, Left, InTime
<1>3. CASE Serving(c)
  BY <1>1, <1>2, <1>3 DEF Serving, RequestFits, ApplyFits, ConfirmFits, JustBegun
<1>4. CASE Resting(c)
  BY <1>2, <1>4 DEF Resting
<1>5. QED
  BY <1>3, <1>4 DEF InTimeInv

LEMMA InTimeStep ==
  ASSUME NEW c, InTime(c), ApplyInv, TypeOK', InTimeInv(c), [Next]_vars
  PROVE  InTimeInv(c)'
<1>1. ASSUME NEW d \in Clients, User(d) \/ Callback(d)
      PROVE  InTimeInv(c)'
  <2>1. d = c
    BY DEF InTime
  <2>2. QED
    BY <1>1, <2>1, InTimeUser, InTimeCallback
<1>2. ASSUME NEW k \in Conns
      PROVE  ~Lose(k)
  BY DEF Lose, InTime
<1>3. ~RollbackTimer
  BY InTimeTrial DEF RollbackTimer
<1>4. CASE UNCHANGED vars
  BY <1>4 DEF vars, rpcdVars, tabVars, InTimeInv, ReachableNotReverted, Applies, Left, Serving, Only,
     Resting, NoRequest, RequestFits, ApplyFits, ConfirmFits, JustBegun, OnTrial, Quiet, Kept
<1>5. QED
  BY <1>1, <1>2, <1>3, <1>4, InTimeServer, InTimeClock DEF Next

LEMMA InTimeInit ==
  ASSUME NEW c, InTime(c), Init
  PROVE  InTimeInv(c)
BY DEF InTime, Init, InTimeInv, ReachableNotReverted, Applies, Resting, NoRequest, Quiet, NoTrial, NoRecord

\* A tab that reaches the device in time: no trial of its is rolled back, and the
\* device reports each as long as it runs (luci.js and uci.lua).
THEOREM ServedInTime ==
  ASSUME NEW c, InTime(c)
  PROVE  Spec => []ReachableServed
<1>1. Init => InTimeInv(c)
  BY InTimeInit
<1>2. ApplyInv /\ ApplyInv' /\ InTimeInv(c) /\ [Next]_vars => InTimeInv(c)'
  BY InTimeStep DEF ApplyInv
<1>3. ApplyInv /\ InTimeInv(c) => ReachableServed
  BY InTimeTrial DEF ReachableServed, PendingReported, RollbackPending, InTimeInv
<1>4. QED
  BY <1>1, <1>2, <1>3, Bookkeeping, PTL DEF Spec

\* And what its dialog says was applied is kept (changes.confirm of ui.js).
THEOREM AppliedMeansKept ==
  ASSUME NEW c, InTime(c)
  PROVE  Spec => []AppliedIsKept
<1>1. Init => InTimeInv(c)
  BY InTimeInit
<1>2. ApplyInv /\ ApplyInv' /\ InTimeInv(c) /\ [Next]_vars => InTimeInv(c)'
  BY InTimeStep DEF ApplyInv
<1>3. ApplyInv /\ InTimeInv(c) => AppliedIsKept
  <2>1. SUFFICES ASSUME ApplyInv, InTimeInv(c) PROVE AppliedIsKept
    OBVIOUS
  <2>2. Clients = {c}
    BY DEF InTime
  <2>3. QED
    BY <2>1, <2>2, InTimeTrial DEF AppliedIsKept, Kept
<1>4. QED
  BY <1>1, <1>2, <1>3, Bookkeeping, PTL DEF Spec

=============================================================================
