------------------------------- MODULE IfaceRows -------------------------------
(***************************************************************************)
(* The table of the interfaces: its buttons restart an interface or stop   *)
(* it.  A press only marks the row; the page's poll, every five seconds,   *)
(* carries out the marks and shows the state of the interfaces.  Before an *)
(* interface is stopped the router is asked whether this is the one that   *)
(* the browser comes through, and in that case the user is.                *)
(***************************************************************************)
EXTENDS Naturals, FiniteSets

CONSTANTS Ifaces,    \* interfaces in the table
          NoRow,     \* no row
          MaxPresses \* bound: presses of a button

\* A row, as it was drawn.
Row == [iface : Ifaces, drawn : {0, 1}]
ASSUME IfaceAssumption == MaxPresses \in Nat /\ NoRow \notin Row

VARIABLES
  row,      \* mark: attributes reconnect and disconnect, each "none", "set" or "done";
            \* spinning, disabled: buttons; drawn: times the table was drawn since the start
  up,       \* interfaces that are up
  inbound,  \* interfaces that the browser comes through
  asking,   \* answers of luci-peeraddr under way: interfaces and rows
  question, \* "Confirm disconnect": the interface and row it is about
  poll,     \* "idle", "tasks": commands are run, or "answer": states are under way
  states,   \* the states that are under way
  wish,     \* history: commands that the user has asked for and that are still due
  agreed,   \* history: interfaces that the user has agreed to stop, or that nothing is known of
  commands, \* history: has a command been run that was not due?
  replaced, \* history: a question came up in the place of another
  presses   \* bound

rowVars == <<row, up, inbound, asking, question, poll, states, wish, agreed, commands, replaced, presses>>

Buttons == {"reconnect", "down"}
Fresh(isUp, n) == [reconnect |-> "none", disconnect |-> "none", spinning |-> {},
                   disabled |-> IF isUp THEN {} ELSE {"down"}, drawn |-> n]

RowsInit ==
  /\ up \in SUBSET Ifaces /\ inbound \in SUBSET up
  /\ row = [i \in Ifaces |-> Fresh(i \in up, 0)]
  /\ asking = {} /\ question = NoRow /\ poll = "idle" /\ states = {}
  /\ wish = [i \in Ifaces |-> "none"] /\ agreed = {} /\ commands = TRUE /\ replaced = FALSE
  /\ presses = 0

Pressed(i, button) ==
  [row EXCEPT ![i].spinning = @ \cup {button}, ![i].disabled = Buttons]
MayPress(i, button) ==
  /\ question = NoRow /\ button \notin row[i].disabled
  /\ presses < MaxPresses

PressReconnect(i) ==
  /\ MayPress(i, "reconnect")
  /\ row' = [Pressed(i, "reconnect") EXCEPT ![i].reconnect = "set"]
  /\ wish' = [wish EXCEPT ![i] = "up"]
  /\ presses' = presses + 1
  /\ UNCHANGED <<up, inbound, asking, question, poll, states, agreed, commands, replaced>>

PressDown(i) ==
  /\ MayPress(i, "down")
  /\ row' = Pressed(i, "down")
  /\ asking' = asking \cup {[iface |-> i, drawn |-> row[i].drawn]}
  /\ presses' = presses + 1
  /\ agreed' = agreed \ {i}
  /\ UNCHANGED <<up, inbound, question, poll, states, wish, commands, replaced>>

\* The handlers keep the row they were called for, which may be gone.
StillDrawn(a) == row[a.iface].drawn = a.drawn
Marked(a) == IF StillDrawn(a) THEN [row EXCEPT ![a.iface].disconnect = "set"] ELSE row
Wished(a) == IF StillDrawn(a) THEN [wish EXCEPT ![a.iface] = "down"] ELSE wish

NeverInbound(i) == FALSE \* mutant
IsInbound(i) == i \in inbound

\* The answer of luci-peeraddr; if the call fails the interface is not taken for
\* the one in use.
PeerAddr(a) ==
  /\ a \in asking
  /\ asking' = asking \ {a}
  /\ IF IsInbound(a.iface)
     THEN /\ question' = a /\ replaced' = (replaced \/ question # NoRow)
          /\ UNCHANGED <<row, wish>>
     ELSE /\ row' = Marked(a) /\ wish' = Wished(a)
          /\ UNCHANGED <<question, replaced>>
  /\ UNCHANGED <<up, inbound, poll, states, agreed, commands, presses>>

Unheard(a) ==
  /\ a \in asking
  /\ asking' = asking \ {a}
  /\ row' = Marked(a) /\ wish' = Wished(a)
  /\ agreed' = agreed \cup {a.iface}
  /\ UNCHANGED <<up, inbound, question, poll, states, commands, replaced, presses>>

Disconnect ==
  /\ question # NoRow
  /\ question' = NoRow
  /\ row' = Marked(question) /\ wish' = Wished(question) /\ agreed' = agreed \cup {question.iface}
  /\ UNCHANGED <<up, inbound, asking, poll, states, commands, replaced, presses>>

CancelStop ==
  /\ question # NoRow
  /\ question' = NoRow
  /\ row' = IF StillDrawn(question)
            THEN [row EXCEPT ![question.iface].spinning = @ \ {"down"}, ![question.iface].disabled = {}]
            ELSE row
  /\ UNCHANGED <<up, inbound, asking, poll, states, wish, agreed, commands, replaced, presses>>

\* The table is drawn again, after a dialog was saved: the rows are new.
DrawAgain ==
  /\ question = NoRow
  /\ \E i \in Ifaces : row[i].drawn = 0
  /\ row' = [i \in Ifaces |-> Fresh(i \in up, 1)]
  /\ wish' = [i \in Ifaces |-> "none"]
  /\ UNCHANGED <<up, inbound, asking, question, poll, states, agreed, commands, replaced, presses>>

MarkAgain(r) == r \* mutant
Carried(r) ==
  CASE r.reconnect = "set" -> [r EXCEPT !.reconnect = "done"]
    [] r.reconnect # "set" /\ r.disconnect = "set" -> [r EXCEPT !.disconnect = "done"]
    [] r.reconnect = "done" /\ r.disconnect # "set" ->
         [r EXCEPT !.reconnect = "none", !.spinning = @ \ {"reconnect"}, !.disabled = @ \ {"reconnect"}]
    [] r.reconnect = "none" /\ r.disconnect = "done" ->
         [r EXCEPT !.disconnect = "none", !.spinning = @ \ {"down"}, !.disabled = @ \ {"down"}]
    [] OTHER -> r
Starts(r) == r.reconnect = "set"
Stops(r) == r.reconnect # "set" /\ r.disconnect = "set"

\* The poll runs ifup and ifdown for the rows that are marked.
PollRows ==
  /\ poll = "idle"
  /\ poll' = "tasks"
  /\ row' = [i \in Ifaces |-> Carried(row[i])]
  /\ up' = (up \ {i \in Ifaces : Stops(row[i])}) \cup {i \in Ifaces : Starts(row[i])}
  /\ commands' = (commands /\ \A i \in Ifaces : /\ Starts(row[i]) => wish[i] = "up"
                                                /\ Stops(row[i]) => wish[i] = "down"
                                                /\ Stops(row[i]) /\ i \in inbound => i \in agreed)
  /\ wish' = [i \in Ifaces |-> IF Starts(row[i]) \/ Stops(row[i]) THEN "none" ELSE wish[i]]
  /\ agreed' = agreed \ {i \in Ifaces : Stops(row[i])}
  /\ UNCHANGED <<inbound, asking, question, states, replaced, presses>>

\* getNetworks(): the states, then poll_status() with them.
ReadStates ==
  /\ poll = "tasks"
  /\ poll' = "answer" /\ states' = up
  /\ UNCHANGED <<row, up, inbound, asking, question, wish, agreed, commands, replaced, presses>>

Shown(r, isUp) ==
  [r EXCEPT !.disabled = IF r.spinning # {} THEN Buttons ELSE IF isUp THEN {} ELSE {"down"}]

PollStatus ==
  /\ poll = "answer"
  /\ poll' = "idle" /\ states' = {}
  /\ row' = [i \in Ifaces |-> Shown(row[i], i \in states)]
  /\ UNCHANGED <<up, inbound, asking, question, wish, agreed, commands, replaced, presses>>

RowsNext ==
  \/ \E i \in Ifaces : PressReconnect(i) \/ PressDown(i)
  \/ \E a \in asking : PeerAddr(a) \/ Unheard(a)
  \/ Disconnect \/ CancelStop \/ DrawAgain \/ PollRows \/ ReadStates \/ PollStatus

-----------------------------------------------------------------------------

\* Each command that is run was asked for and is run once, and the interface that the
\* browser comes through is only stopped if the user agrees, or the router cannot tell.
CommandsWanted == commands

\* A row never has two commands due.
OneCommand == \A i \in Ifaces : row[i].reconnect = "none" \/ row[i].disconnect = "none"

\* A row that is busy has a command due or done, or an answer or the user's consent
\* is still to come: it does not stay busy for nothing, unless a question took the
\* place of another.
BusyForCause ==
  ~replaced =>
    \A i \in Ifaces : row[i].spinning # {} =>
      LET here == [iface |-> i, drawn |-> row[i].drawn]
      IN  row[i].reconnect # "none" \/ row[i].disconnect # "none" \/ here \in asking \/ question = here

\* What the user has asked for is due: the row is marked.
WishIsMarked ==
  \A i \in Ifaces : /\ wish[i] = "up" => row[i].reconnect = "set"
                    /\ wish[i] = "down" => row[i].disconnect = "set"

RowsSound == CommandsWanted /\ OneCommand /\ BusyForCause /\ WishIsMarked
=============================================================================
