--------------------------- MODULE ApplyRollback ---------------------------
(***************************************************************************)
(* The checked configuration apply of LuCI.                                *)
(*                                                                         *)
(* A browser tab (ui.js, class "changes") asks the device to apply the     *)
(* staged changes of its session.  The server side (controller/admin/uci,  *)
(* model/uci) asks rpcd to install them on trial, stores a rollback record *)
(* with a token in the session database and answers the token.  The tab    *)
(* then polls "confirm" until the device answers or its own deadline       *)
(* passes; a trial nobody confirms is undone by rpcd's timer.              *)
(*                                                                         *)
(* rpcd is not part of the repository: its answers are modelled from how   *)
(* model/uci.lua and ui.js use them.  Each ubus call is one step, so the   *)
(* handlers of concurrent HTTP requests interleave between their calls.    *)
(* Time is counted down in ticks: no variable holds an absolute clock.     *)
(***************************************************************************)
EXTENDS Naturals, Sequences, FiniteSets

CONSTANTS Clients,        \* browser tabs
          Sessions,       \* login sessions; two tabs may share one
          SessionOf,      \* the session a tab is logged in with
          Configs,        \* files below /etc/config
          Values,         \* contents a file may have
          Conns,          \* HTTP requests that may exist at one time
          None,
          ConfRollback,   \* luci.apply.rollback as configured
          MinRollback,    \* the 30 seconds both ends clamp it to
          Holdoff,        \* luci.apply.holdoff
          MaxApplies,     \* bound: checked applies a behaviour starts
          Buttons,        \* bound: what the users press
          Lossy,          \* may requests and replies be lost or time out?
          Prompt          \* do the tab and the server outrun the clock?

ASSUME ClientsAssumption == SessionOf \in [Clients -> Sessions]
ASSUME NoneAssumption == None \notin Values \cup Sessions \cup Clients
ASSUME TimeAssumption == /\ ConfRollback \in Nat
                         /\ MinRollback \in Nat \ {0}
                         /\ Holdoff \in Nat
ASSUME SwitchAssumption == Lossy \in BOOLEAN /\ Prompt \in BOOLEAN
ASSUME BoundAssumption == MaxApplies \in Nat

VARIABLES
  installed,  \* rpcd: contents of the files in /etc/config
  staged,     \* rpcd: the uncommitted delta of each session
  trial,      \* rpcd: the apply its rollback timer is running for
  record,     \* session database: the "rollback" value of the null session
  conn,       \* requests in flight, at the server, or answered
  phase,      \* tab: what the status dialog shows
  checked,    \* tab: argument of the apply the dialog is about
  deadline,   \* tab: ticks left until it gives up confirming
  holdoff,    \* tab: ticks left until the first confirm
  auth,       \* tab: confirm_auth, the token it confirms with
  ledger      \* history: owner and outcome of every trial begun

rpcdVars == <<installed, staged, trial>>
tabVars == <<phase, checked, deadline, holdoff, auth>>
vars == <<rpcdVars, record, conn, tabVars, ledger>>

-----------------------------------------------------------------------------
(* Data *)

Larger(m, n) == IF m > n THEN m ELSE n

\* The timer rpcd is given, and the deadline the page computes with.
RollbackTimeLate == Larger(ConfRollback, MinRollback) + 1 \* mutant
RollbackTime == Larger(ConfRollback, MinRollback)

\* The expiry the session database is given.
StoredTimeEarly == ConfRollback - 1 \* mutant
StoredTime == ConfRollback

NoDelta == [f \in Configs |-> None]
Changed(delta) == {f \in Configs : delta[f] # None}
Overlay(base, delta) ==
  [f \in Configs |-> IF delta[f] = None THEN base[f] ELSE delta[f]]

NoTrial == [no |-> 0, sid |-> None, left |-> 0, files |-> NoDelta, delta |-> NoDelta]
NoRecordLater == [token |-> 0, session |-> None, left |-> StoredTime] \* mutant
NoRecord == [token |-> 0, session |-> None, left |-> 0]

\* L.env.token and an unset confirm_auth: never equal to a rollback token.
NoToken == 0

Free == [op |-> "none", client |-> None, session |-> None, tok |-> NoToken,
         pc |-> "free", status |-> 0, todo |-> {}]

Request(op, c, tok) ==
  [op |-> op, client |-> c, tok |-> tok, pc |-> "sent", status |-> 0, todo |-> {},
   session |-> IF op = "confirm" THEN None ELSE SessionOf[c]]

Waiting(c) == {k \in Conns : conn[k].client = c}
Unused(cn) == {k \in Conns : cn[k].pc = "free"}

\* The tab stops listening to k; a request the device may still see lives on.
Dropped(r) == IF r.pc \in {"lost", "replied"} THEN Free ELSE [r EXCEPT !.client = None]
Release(k) == [conn EXCEPT ![k] = Dropped(@)]

Send(cn, op, c, tok) ==
  \E k \in Unused(cn) : conn' = [cn EXCEPT ![k] = Request(op, c, tok)]

\* The handler of k ends; nobody reads the answer to a dropped request.
Answer(k, st) ==
  conn' = [conn EXCEPT ![k] = IF @.client = None THEN Free
                              ELSE [@ EXCEPT !.pc = "replied", !.status = st]]

RollbackPendingShort == record.left > 1 \* mutant
RollbackPending == record.left > 0

Init ==
  /\ installed \in [Configs -> Values]
  /\ staged = [s \in Sessions |-> NoDelta]
  /\ trial = NoTrial
  /\ record = NoRecord
  /\ conn = [k \in Conns |-> Free]
  /\ phase = [c \in Clients |-> "idle"]
  /\ checked = [c \in Clients |-> TRUE]
  /\ deadline = [c \in Clients |-> 0]
  /\ holdoff = [c \in Clients |-> 0]
  /\ auth = [c \in Clients |-> NoToken]
  /\ ledger = <<>>

-----------------------------------------------------------------------------
(* The tab *)

\* Saving a form stages changes in the session (uci.js, over rpcd).
Edit(c) ==
  /\ phase[c] = "idle"
  /\ \E f \in Configs, v \in Values :
       staged' = [staged EXCEPT ![SessionOf[c]][f] = v]
  /\ UNCHANGED <<installed, trial, record, conn, tabVars, ledger>>

\* changes.apply(chk): from the page, or "Apply unchecked" after a rollback.
Apply(c, chk) ==
  /\ (IF chk THEN "apply" ELSE "unchecked") \in Buttons
  /\ \/ phase[c] = "idle"
     \/ phase[c] = "rolledback" /\ ~chk
  /\ chk => Len(ledger) + Cardinality({k \in Conns : conn[k].op = "apply"}) < MaxApplies
  /\ Send(conn, IF chk THEN "apply" ELSE "unchecked", c, NoToken)
  /\ phase' = [phase EXCEPT ![c] = "applying"]
  /\ checked' = [checked EXCEPT ![c] = chk]
  /\ UNCHANGED <<rpcdVars, record, deadline, holdoff, auth, ledger>>

\* confirm_auth once the apply request is answered.
ReplyTokenUnread(c, k) == auth[c] \* mutant
ReplyToken(c, k) == IF checked[c] THEN conn[k].tok ELSE auth[c]

\* The answer of the apply request: on success changes.confirm() begins.
ApplyReply(c, k) ==
  /\ phase[c] = "applying" /\ conn[k].client = c /\ conn[k].pc = "replied"
  /\ LET ok == conn[k].status = IF checked[c] THEN 200 ELSE 204 IN
     /\ phase' = [phase EXCEPT ![c] = IF ok THEN "confirming" ELSE "notice"]
     /\ auth' = [auth EXCEPT ![c] = IF ok THEN ReplyToken(c, k) ELSE @]
     /\ deadline' = [deadline EXCEPT ![c] = IF ok THEN RollbackTime ELSE @]
     /\ holdoff' = [holdoff EXCEPT ![c] = IF ok THEN Holdoff ELSE @]
  /\ conn' = Release(k)
  /\ UNCHANGED <<rpcdVars, record, checked, ledger>>

GiveUpNever(c) == FALSE \* mutant
GiveUp(c) == deadline[c] = 0

\* "call" in changes.confirm(), with the connections cn the tab has by then:
\* give up at the deadline, be done at 200 or 204, ask again otherwise.
Call(c, status, cn) ==
  \/ /\ ~GiveUp(c) /\ status \notin {200, 204}
     /\ Send(cn, "confirm", c, auth[c])
     /\ UNCHANGED <<phase, deadline>>
  \/ /\ ~GiveUp(c) /\ status \in {200, 204}
     /\ phase' = [phase EXCEPT ![c] = "applied"]
     /\ deadline' = [deadline EXCEPT ![c] = 0]
     /\ conn' = cn
  \/ /\ GiveUp(c) /\ checked[c]
     /\ phase' = [phase EXCEPT ![c] = "reverting"]
     /\ Send(cn, "confirm", c, NoToken)
     /\ UNCHANGED deadline
  \/ /\ GiveUp(c) /\ ~checked[c]
     /\ phase' = [phase EXCEPT ![c] = "unreachable"]
     /\ conn' = cn
     /\ UNCHANGED deadline

\* The holdoff timer of confirm() ends without any request sent yet.
FirstCall(c) ==
  /\ phase[c] = "confirming" /\ Waiting(c) = {} /\ holdoff[c] = 0
  /\ Call(c, 0, conn)
  /\ UNCHANGED <<rpcdVars, record, checked, holdoff, auth, ledger>>

ConfirmReply(c, k) ==
  /\ phase[c] = "confirming" /\ conn[k].client = c /\ conn[k].pc = "replied"
  /\ Call(c, conn[k].status, Release(k))
  /\ UNCHANGED <<rpcdVars, record, checked, holdoff, auth, ledger>>

\* The request is lost or times out: confirm() treats that as no success.
ConfirmReject(c, k) ==
  /\ Lossy
  /\ phase[c] = "confirming" /\ conn[k].client = c
  /\ Call(c, 0, Release(k))
  /\ UNCHANGED <<rpcdVars, record, checked, holdoff, auth, ledger>>

\* "call" in changes.rollback(): only 204 ends the wait.
RollbackReply(c, k) ==
  /\ phase[c] = "reverting" /\ conn[k].client = c /\ conn[k].pc = "replied"
  /\ \/ /\ conn[k].status = 204
        /\ phase' = [phase EXCEPT ![c] = "rolledback"]
        /\ conn' = Release(k)
     \/ /\ conn[k].status # 204
        /\ phase' = phase
        /\ Send(Release(k), "confirm", c, NoToken)
  /\ UNCHANGED <<rpcdVars, record, checked, deadline, holdoff, auth, ledger>>

\* changes.revert(), from the page or after a rollback, and its answer.
Revert(c) ==
  /\ "revert" \in Buttons
  /\ phase[c] \in {"idle", "rolledback"}
  /\ Send(conn, "revert", c, NoToken)
  /\ phase' = [phase EXCEPT ![c] = "discarding"]
  /\ UNCHANGED <<rpcdVars, record, checked, deadline, holdoff, auth, ledger>>

RevertReply(c, k) ==
  /\ phase[c] = "discarding" /\ conn[k].client = c /\ conn[k].pc = "replied"
  /\ phase' = [phase EXCEPT ![c] = IF conn[k].status = 200 THEN "discarded" ELSE "notice"]
  /\ conn' = Release(k)
  /\ UNCHANGED <<rpcdVars, record, checked, deadline, holdoff, auth, ledger>>

\* Elsewhere nothing handles a rejected request: the dialog stays as it is.
IgnoredReject(c, k) ==
  /\ Lossy
  /\ conn[k].client = c
  /\ \/ phase[c] = "reverting"
     \/ phase[c] \in {"applying", "discarding"} /\ conn[k].pc = "lost"
  /\ conn' = Release(k)
  /\ UNCHANGED <<rpcdVars, record, tabVars, ledger>>

Transient == {"notice", "rolledback"}

\* A notice closes by itself, the rollback message by its Dismiss button.
Dismiss(c) ==
  /\ phase[c] \in Transient
  /\ phase' = [phase EXCEPT ![c] = "idle"]
  /\ UNCHANGED <<rpcdVars, record, conn, checked, deadline, holdoff, auth, ledger>>

\* What is left of the holdoff when a loaded page resumes confirming.
ResumeHoldoffUnbounded == Holdoff + record.left - RollbackTime \* mutant
ResumeHoldoff ==
  IF RollbackTime > record.left + Holdoff THEN 0 ELSE Holdoff + record.left - RollbackTime

\* The page is loaded (again): by the tab after a success, or by the user.
\* footer.htm resumes the confirmation of a trial still on record.
PageLoad(c) ==
  /\ "reload" \in Buttons \/ phase[c] \in {"applied", "discarded"}
  /\ conn' = [k \in Conns |-> IF conn[k].client = c THEN Dropped(conn[k]) ELSE conn[k]]
  /\ checked' = [checked EXCEPT ![c] = TRUE]
  /\ IF RollbackPending
     THEN /\ phase' = [phase EXCEPT ![c] = "confirming"]
          /\ deadline' = [deadline EXCEPT ![c] = record.left]
          /\ holdoff' = [holdoff EXCEPT ![c] = ResumeHoldoff]
          /\ auth' = [auth EXCEPT ![c] = record.token]
     ELSE /\ phase' = [phase EXCEPT ![c] = "idle"]
          /\ deadline' = [deadline EXCEPT ![c] = 0]
          /\ holdoff' = [holdoff EXCEPT ![c] = 0]
          /\ auth' = [auth EXCEPT ![c] = NoToken]
  /\ UNCHANGED <<rpcdVars, record, ledger>>

-----------------------------------------------------------------------------
(* The server: one action per ubus call of a handler *)

\* rpcd runs one trial at a time.
RpcdFreeAlways == TRUE \* mutant
RpcdFree == trial.no = 0

\* model.uci apply(true), first call: rpcd "apply" with rollback = true.
ApplyInstall(k) ==
  /\ conn[k].op = "apply" /\ conn[k].pc = "sent"
  /\ LET s == conn[k].session
         no == Len(ledger) + 1
     IN
     \/ /\ ~RpcdFree
        /\ Answer(k, 403)
        /\ UNCHANGED <<rpcdVars, ledger>>
     \/ /\ RpcdFree /\ Changed(staged[s]) = {}
        /\ Answer(k, 204)
        /\ UNCHANGED <<rpcdVars, ledger>>
     \/ /\ RpcdFree /\ Changed(staged[s]) # {}
        /\ trial' = [no |-> no, sid |-> s, left |-> RollbackTime, delta |-> staged[s],
                     files |-> [f \in Configs |-> IF staged[s][f] = None THEN None
                                                  ELSE installed[f]]]
        /\ installed' = Overlay(installed, staged[s])
        /\ staged' = [staged EXCEPT ![s] = NoDelta]
        /\ ledger' = Append(ledger, [owner |-> s, outcome |-> "trial"])
        /\ conn' = [conn EXCEPT ![k].pc = "installed", ![k].tok = no]
  /\ UNCHANGED <<record, tabVars>>

\* Second call: the token and when it expires go into the session database.
ApplyRecord(k) ==
  /\ conn[k].op = "apply" /\ conn[k].pc = "installed"
  /\ record' = [token |-> conn[k].tok, session |-> conn[k].session, left |-> StoredTime]
  /\ Answer(k, 200)
  /\ UNCHANGED <<rpcdVars, tabVars, ledger>>

\* model.uci apply(false): list the changes, ...
UncheckedList(k) ==
  /\ conn[k].op = "unchecked" /\ conn[k].pc = "sent"
  /\ conn' = [conn EXCEPT ![k].pc = "loop", ![k].todo = Changed(staged[conn[k].session])]
  /\ UNCHANGED <<rpcdVars, record, tabVars, ledger>>

\* ... commit them file by file up to the first error, ...
UncheckedCommit(k) ==
  /\ conn[k].op = "unchecked" /\ conn[k].pc = "loop"
  /\ \E f \in conn[k].todo :
       \/ /\ installed' = [installed EXCEPT ![f] =
                             Overlay(installed, staged[conn[k].session])[f]]
          /\ staged' = [staged EXCEPT ![conn[k].session][f] = None]
          /\ conn' = [conn EXCEPT ![k].todo = @ \ {f}]
       \/ /\ Answer(k, 403)
          /\ UNCHANGED <<installed, staged>>
  /\ UNCHANGED <<trial, record, tabVars, ledger>>

\* ... and have rpcd apply what is staged by then, which should be nothing.
UncheckedApply(k) ==
  /\ conn[k].op = "unchecked" /\ conn[k].pc = "loop" /\ conn[k].todo = {}
  /\ LET s == conn[k].session IN
     /\ installed' = Overlay(installed, staged[s])
     /\ staged' = [staged EXCEPT ![s] = NoDelta]
     /\ Answer(k, IF Changed(staged[s]) = {} THEN 204 ELSE 200)
  /\ UNCHANGED <<trial, record, tabVars, ledger>>

TokenAcceptedAlways(k) == TRUE \* mutant
TokenAccepted(k) == conn[k].tok = record.token

\* model.uci confirm(token): rollback_pending() and the token check, ...
ConfirmCheck(k) ==
  /\ conn[k].op = "confirm" /\ conn[k].pc = "sent"
  /\ \/ /\ ~RollbackPending
        /\ Answer(k, 204)
     \/ /\ RollbackPending /\ ~TokenAccepted(k)
        /\ Answer(k, 403)
     \/ /\ RollbackPending /\ TokenAccepted(k)
        /\ conn' = [conn EXCEPT ![k].pc = "checked", ![k].session = record.session]
  /\ UNCHANGED <<rpcdVars, record, tabVars, ledger>>

\* ... rpcd "confirm" for the session on record, ...
ConfirmTrial(k) ==
  /\ conn[k].op = "confirm" /\ conn[k].pc = "checked"
  /\ \/ /\ trial.no = 0
        /\ Answer(k, 204)
        /\ UNCHANGED <<trial, ledger>>
     \/ /\ trial.no # 0 /\ trial.sid # conn[k].session
        /\ Answer(k, 403)
        /\ UNCHANGED <<trial, ledger>>
     \/ /\ trial.no # 0 /\ trial.sid = conn[k].session
        /\ ledger' = [ledger EXCEPT ![trial.no].outcome = "kept"]
        /\ trial' = NoTrial
        /\ conn' = [conn EXCEPT ![k].pc = "confirmed"]
  /\ UNCHANGED <<installed, staged, record, tabVars>>

\* ... and an empty rollback record once rpcd agreed.
ConfirmClear(k) ==
  /\ conn[k].op = "confirm" /\ conn[k].pc = "confirmed"
  /\ record' = NoRecord
  /\ Answer(k, 200)
  /\ UNCHANGED <<rpcdVars, tabVars, ledger>>

\* action_revert(): list the changes, revert file by file up to an error.
RevertList(k) ==
  /\ conn[k].op = "revert" /\ conn[k].pc = "sent"
  /\ conn' = [conn EXCEPT ![k].pc = "loop", ![k].todo = Changed(staged[conn[k].session])]
  /\ UNCHANGED <<rpcdVars, record, tabVars, ledger>>

RevertFile(k) ==
  /\ conn[k].op = "revert" /\ conn[k].pc = "loop"
  /\ \/ \E f \in conn[k].todo :
          /\ staged' = [staged EXCEPT ![conn[k].session][f] = None]
          /\ conn' = [conn EXCEPT ![k].todo = @ \ {f}]
     \/ /\ conn[k].todo # {}
        /\ Answer(k, 403)
        /\ UNCHANGED staged
     \/ /\ conn[k].todo = {}
        /\ Answer(k, 200)
        /\ UNCHANGED staged
  /\ UNCHANGED <<installed, trial, record, tabVars, ledger>>

-----------------------------------------------------------------------------
(* rpcd's timer, the network, time *)

TimerFiresOnRecord == trial.left = 0 /\ RollbackPending \* mutant
TimerFires == trial.left = 0

\* The rollback timer fires: files and delta of the trial are put back.
RollbackTimer ==
  /\ trial.no # 0 /\ TimerFires
  /\ installed' = Overlay(installed, trial.files)
  /\ staged' = [staged EXCEPT ![trial.sid] = Overlay(@, trial.delta)]
  /\ ledger' = [ledger EXCEPT ![trial.no].outcome = "reverted"]
  /\ trial' = NoTrial
  /\ UNCHANGED <<record, conn, tabVars>>

\* A request that did not reach its handler, or an answer, is lost.
Lose(k) ==
  /\ Lossy
  /\ conn[k].pc \in {"sent", "replied"}
  /\ conn' = [conn EXCEPT ![k] = IF @.client = None THEN Free ELSE [@ EXCEPT !.pc = "lost"]]
  /\ UNCHANGED <<rpcdVars, record, tabVars, ledger>>

Down(n) == IF n = 0 THEN 0 ELSE n - 1

\* rpcd's timer is never late; everybody else may be, unless Prompt.
Tick ==
  /\ trial.no # 0 => trial.left > 0
  /\ \/ trial.left > 0
     \/ record.left > 0
     \/ \E c \in Clients : deadline[c] > 0 \/ holdoff[c] > 0
  /\ Prompt => /\ Unused(conn) = Conns
               /\ \A c \in Clients : phase[c] = "confirming" => holdoff[c] > 0
  /\ trial' = [trial EXCEPT !.left = Down(@)]
  /\ record' = [record EXCEPT !.left = Down(@)]
  /\ deadline' = [c \in Clients |-> Down(deadline[c])]
  /\ holdoff' = [c \in Clients |-> Down(holdoff[c])]
  /\ UNCHANGED <<installed, staged, conn, phase, checked, auth, ledger>>

-----------------------------------------------------------------------------
Server(k) == \/ ApplyInstall(k) \/ ApplyRecord(k)
             \/ UncheckedList(k) \/ UncheckedCommit(k) \/ UncheckedApply(k)
             \/ ConfirmCheck(k) \/ ConfirmTrial(k) \/ ConfirmClear(k)
             \/ RevertList(k) \/ RevertFile(k)

User(c) == \/ Edit(c) \/ Revert(c) \/ PageLoad(c)
           \/ \E chk \in BOOLEAN : Apply(c, chk)

\* What the tab does by itself: callbacks and timers.
Callback(c) == \/ FirstCall(c)
               \/ Dismiss(c)
               \/ \E k \in Conns : \/ ApplyReply(c, k)
                                   \/ ConfirmReply(c, k)
                                   \/ ConfirmReject(c, k)
                                   \/ RollbackReply(c, k)
                                   \/ RevertReply(c, k)
                                   \/ IgnoredReject(c, k)

Next == \/ \E c \in Clients : User(c) \/ Callback(c)
        \/ \E k \in Conns : Server(k) \/ Lose(k)
        \/ RollbackTimer
        \/ Tick

Spec == Init /\ [][Next]_vars

\* The device and the tab keep working; nothing obliges the user.
Fairness ==
  /\ WF_vars(Tick)
  /\ WF_vars(RollbackTimer)
  /\ \A k \in Conns : WF_vars(Server(k))
  /\ \A c \in Clients : /\ WF_vars(Callback(c))
                        /\ WF_vars(phase[c] \in {"applied", "discarded"} /\ PageLoad(c))

FairSpec == Spec /\ Fairness

-----------------------------------------------------------------------------
(* Properties *)

Deltas == [Configs -> Values \cup {None}]
SomeClient == Clients \cup {None}
SomeSession == Sessions \cup {None}
Operations == {"apply", "unchecked", "confirm", "revert"}
Steps == {"free", "sent", "installed", "loop", "checked", "confirmed", "replied", "lost"}
Statuses == {0, 200, 204, 403}
Phases == {"idle", "applying", "notice", "confirming", "applied", "reverting",
           "rolledback", "unreachable", "discarding", "discarded"}
Trials == [no : Nat, sid : SomeSession, left : Nat, files : Deltas, delta : Deltas]
Records == [token : Nat, session : SomeSession, left : Nat]
Slots == [op : Operations \cup {"none"}, client : SomeClient, session : SomeSession,
          tok : Nat, status : Statuses, todo : SUBSET Configs, pc : Steps]
\* Only confirm is served without a login (menu.d/luci-base.json).
Connections ==
  {r \in Slots : r.op \in {"apply", "unchecked", "revert"} => r.session \in Sessions}
LedgerEntries == [owner : Sessions, outcome : {"trial", "kept", "reverted"}]

TypeOK ==
  /\ installed \in [Configs -> Values]
  /\ staged \in [Sessions -> Deltas]
  /\ trial \in Trials
  /\ record \in Records
  /\ conn \in [Conns -> Connections]
  /\ phase \in [Clients -> Phases]
  /\ checked \in [Clients -> BOOLEAN]
  /\ deadline \in [Clients -> Nat]
  /\ holdoff \in [Clients -> Nat]
  /\ auth \in [Clients -> Nat]
  /\ ledger \in Seq(LedgerEntries)

Applies == 1..Len(ledger)

\* Every trial ever begun is the one rpcd's timer runs for, or was settled:
\* the ledger of outcomes and rpcd's single trial slot never disagree.
TrialOnLedger ==
  /\ trial.no # 0 => trial.no = Len(ledger) /\ ledger[trial.no].owner = trial.sid
  /\ \A n \in Applies : ledger[n].outcome = "trial" <=> trial.no = n

\* What the session database stores is a trial's token with the session that
\* began it, also when another handler's write replaced or emptied it.
RecordOnLedger ==
  /\ record.left > 0 => record.token # 0
  /\ record.token # 0 => /\ record.token \in Applies
                         /\ ledger[record.token].owner = record.session

\* Between two ubus calls of a handler: its token is one its session began.
TokenOwned(r) ==
  r.pc \in {"installed", "checked"} =>
    r.tok \in Applies /\ ledger[r.tok].owner = r.session

TokensOnLedger == \A k \in Conns : TokenOwned(conn[k])

\* rpcd's trial, the record and the tokens of handlers agree with the history of
\* trials.
OnLedger == TrialOnLedger /\ RecordOnLedger /\ TokensOnLedger

Confirmed(r) ==
  r.op = "confirm" /\ (r.pc = "confirmed" \/ (r.pc = "replied" /\ r.status = 200))

KeptSince(n) ==
  \E m \in Applies : /\ m >= n
                     /\ ledger[m].owner = ledger[n].owner
                     /\ ledger[m].outcome = "kept"

\* A confirm answered 200 did make a trial permanent, one its token's session
\* began, and not an earlier one: the check of the token and the confirm are
\* separate calls, and a rollback and a new apply may fall between them.
ConfirmHonest ==
  \A k \in Conns : Confirmed(conn[k]) => conn[k].tok \in Applies /\ KeptSince(conn[k].tok)

\* The inductive invariant of the proofs.
ApplyInv == TypeOK /\ TrialOnLedger /\ RecordOnLedger /\ TokensOnLedger /\ ConfirmHonest

\* The expiry stored beside the token never runs out before rpcd's timer: with
\* the timeout configured at or above the minimum, the device can tell that a
\* rollback is pending as long as one is.
RecordOutlivesTrial ==
  trial.no # 0 /\ record.token = trial.no => record.left >= trial.left

\* What rpcd falls back to while a trial is pending covers every file the
\* trial changed: putting it back leaves no trace of an unconfirmed value.
FallbackComplete ==
  trial.no # 0 => /\ Changed(trial.files) = Changed(trial.delta)
                  /\ Changed(trial.files) # {}

\* Only a confirm that presented a token of the session owning the trial makes
\* it permanent: no other session's token does, however requests interleave.
OwnTokenKeeps ==
  [][\A n \in Applies : ledger[n].outcome = "trial" /\ ledger'[n].outcome = "kept" =>
       \E k \in Conns : /\ conn[k].pc = "checked" /\ conn'[k].pc = "confirmed"
                        /\ conn[k].tok \in Applies
                        /\ ledger[conn[k].tok].owner = ledger[n].owner]_vars

\* The device treats its files as TrialConfig promises: trials do not overlap,
\* begin from what is live, and are kept or put back whole.
Device == INSTANCE TrialConfig WITH live <- installed, fallback <- trial.files
TrialPromise == Device!Spec

\* ui.js: a tab that reaches the device in time never has it roll back.
ReachableNotReverted == \A n \in Applies : ledger[n].outcome # "reverted"

\* A pending trial is settled in the end, whatever is lost.
TrialEnds == trial.no # 0 ~> trial.no = 0

\* The confirm loop of a tab ends by its deadline even if nothing answers.
ConfirmEnds == \A c \in Clients : phase[c] = "confirming" ~> phase[c] # "confirming"

\* Without losses the dialog comes to an end the user sees: the page reloaded,
\* a notice that closes, or a message with buttons.
DialogEnds ==
  \A c \in Clients :
    phase[c] # "idle" ~> phase[c] \in {"idle", "rolledback", "unreachable"}

\* ui.js 4191: the view is reloaded "once the apply process is complete"; so
\* "Configuration changes applied." is shown for a trial that was kept.
AppliedIsKept ==
  \A c \in Clients :
    phase[c] = "applied" /\ checked[c] /\ auth[c] \in Applies
      => ledger[auth[c]].outcome = "kept"

\* uci.luadoc: rollback_pending is true from apply(true) until the trial is
\* confirmed or rolled back.
PendingReported ==
  /\ trial.no # 0 /\ trial.left > 0
  /\ \A k \in Conns : conn[k].pc # "installed"
  => RollbackPending
\* In time, a trial is reported as long as it runs, and none is reverted.
ReachableServed == ReachableNotReverted /\ PendingReported
=============================================================================
