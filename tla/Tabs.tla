-------------------------------- MODULE Tabs --------------------------------
(***************************************************************************)
(* A group of tabs (ui.js: tabs) over the panes of a form that is rendered *)
(* again and again, on each visit, save and reset.  Panes come and go with *)
(* the dependencies of the options in them; here a pane has one option.    *)
(* Which tab was last chosen is kept in the session storage of the browser *)
(* as a position, for the page last visited.                               *)
(***************************************************************************)
EXTENDS Naturals, Sequences, FiniteSets

CONSTANTS Layouts, \* sequences of names: the panes the page may render
          NoPane   \* no pane

\* The pages of the repository give the tabs of a group different names.
TabNames == UNION {{l[i] : i \in DOMAIN l} : l \in Layouts}
ASSUME TabAssumption ==
  /\ Layouts \subseteq Seq(TabNames) /\ <<>> \notin Layouts /\ NoPane \notin TabNames
  /\ \A l \in Layouts : Len(l) = Cardinality({l[i] : i \in DOMAIN l})

VARIABLES
  panes,   \* the names, in their order; empty before the first rendering
  option,  \* of each name: is its option active, is it invalid?
  menu,    \* of each name: is it current, is it hidden, has it a count of errors?
  opened,  \* data-tab-active: the panes to be seen
  kept,    \* the position kept in the session storage, 0 being the first, or none
  chosen,  \* history: what was current last on this page, in which layout
  refused, \* was the last thing done to save the form, and was it refused?
  thrown   \* did initTabGroup() fail?

tabVars == <<panes, option, menu, opened, kept, chosen, refused, thrown>>

Unchosen == [layout |-> <<>>, name |-> NoPane]
Off == [on |-> FALSE, bad |-> FALSE]
NoEntry == [current |-> FALSE, hidden |-> FALSE, errors |-> FALSE]

TabsInit ==
  /\ panes = <<>> /\ opened = {} /\ kept = 0
  /\ option = [n \in TabNames |-> Off] /\ menu = [n \in TabNames |-> NoEntry]
  /\ chosen = Unchosen /\ refused = FALSE /\ thrown = FALSE

NamesOf(l) == {l[i] : i \in DOMAIN l}

\* isEmptyPane()
Hidden(o, n) == ~o[n].on

\* updateTabs()
MenuOf(m, o) ==
  [n \in TabNames |-> IF n \in NamesOf(panes')
                      THEN [m[n] EXCEPT !.hidden = Hidden(o, n), !.errors = o[n].bad]
                      ELSE NoEntry]

\* switchTab() and initTabGroup(): the entry and the pane of that name, no other.
Current(m, n) == [x \in TabNames |-> [m[x] EXCEPT !.current = (x = n)]]

\* An option is validated when it becomes active and when it is edited.
Revalidated(o, n, on) ==
  {p \in [on : BOOLEAN, bad : BOOLEAN] :
     /\ p.on = on
     /\ (on /\ ~o[n].on) \/ p.bad = o[n].bad}
OptionStates == {o \in [TabNames -> [on : BOOLEAN, bad : BOOLEAN]] :
              \A n \in TabNames : o[n].bad => o[n].on}

\* The first pane that is not empty; the position kept where all are.
KeptFirst(l, o) == kept + 1 \* mutant
Selected(l, o) ==
  IF kept + 1 \in DOMAIN l /\ o[l[kept + 1]].on THEN kept + 1
  ELSE LET filled == {i \in DOMAIN l : o[l[i]].on} IN
       IF filled = {} THEN kept + 1
       ELSE CHOOSE i \in filled : \A j \in filled : i <= j

\* The form is rendered, all of it anew: renderContents().
Render ==
  \E l \in Layouts, o \in OptionStates :
    LET i == Selected(l, o) IN
    /\ \A n \in TabNames \ NamesOf(l) : o[n] = Off
    /\ panes' = l /\ option' = o /\ refused' = FALSE
    /\ thrown' = (i \notin DOMAIN l)
    /\ IF i \in DOMAIN l
       THEN /\ opened' = {l[i]} /\ kept' = i - 1
            /\ menu' = MenuOf(Current(menu, l[i]), o)
            /\ chosen' = [layout |-> l, name |-> l[i]]
       ELSE /\ opened' = {}
            /\ menu' = [n \in TabNames |-> [NoEntry EXCEPT !.hidden = n \in NamesOf(l)]]
            /\ UNCHANGED <<kept, chosen>>

\* The user types into the option of the pane that is seen: validation only.
TypeInto ==
  \E n \in opened :
    /\ option[n].on
    /\ \E b \in BOOLEAN : option' = [option EXCEPT ![n].bad = b]
    /\ refused' = FALSE
    /\ UNCHANGED <<panes, menu, opened, kept, chosen, thrown>>

\* A widget has changed: checkDepends(), which updates the tabs in the end.
Change ==
  /\ panes # <<>> /\ ~thrown
  /\ \E n \in NamesOf(panes), on \in BOOLEAN : \E p \in Revalidated(option, n, on) :
       option' = [option EXCEPT ![n] = p]
  /\ panes' = panes /\ menu' = MenuOf(menu, option')
  /\ refused' = FALSE
  /\ UNCHANGED <<opened, kept, chosen, thrown>>

\* switchTab(): an entry of the menu that is to be seen and not the current one.
OtherToo(n) == opened \cup {n} \* mutant
OpenedBy(n) == {n}
PositionFromOne(n) == CHOOSE i \in DOMAIN panes : panes[i] = n \* mutant
Position(n) == (CHOOSE i \in DOMAIN panes : panes[i] = n) - 1
Switch(n) ==
  /\ ~thrown /\ n \in NamesOf(panes)
  /\ ~menu[n].current /\ ~menu[n].hidden
  /\ menu' = Current(menu, n) /\ opened' = OpenedBy(n)
  /\ kept' = Position(n)
  /\ chosen' = [layout |-> panes, name |-> n]
  /\ refused' = FALSE
  /\ UNCHANGED <<panes, option, thrown>>

\* Map.save(): checkDepends(), then the options that are active are parsed.
SaveTabs ==
  /\ panes # <<>> /\ ~thrown
  /\ panes' = panes /\ menu' = MenuOf(menu, option)
  /\ refused' = \E n \in NamesOf(panes) : option[n].on /\ option[n].bad
  /\ UNCHANGED <<option, opened, kept, chosen, thrown>>

\* Another page: one with tabs drops what was kept for this one.
Elsewhere ==
  /\ panes' = <<>> /\ opened' = {}
  /\ option' = [n \in TabNames |-> Off] /\ menu' = [n \in TabNames |-> NoEntry]
  /\ refused' = FALSE /\ thrown' = FALSE
  /\ \/ kept' = 0 /\ chosen' = Unchosen
     \/ UNCHANGED <<kept, chosen>>

TabsNext == Render \/ TypeInto \/ Change \/ (\E n \in TabNames : Switch(n)) \/ SaveTabs \/ Elsewhere
TabsSpec == TabsInit /\ [][TabsNext]_tabVars

-----------------------------------------------------------------------------
(* Properties *)

\* One pane is to be seen, and the entry of the menu that is current is its own.
OneTab ==
  panes # <<>> /\ ~thrown =>
    /\ Cardinality(opened) = 1
    /\ {n \in TabNames : menu[n].current} = opened

\* What cannot be saved is pointed at: an entry that is seen counts the errors.
RefusedIsSeen == refused => \E n \in NamesOf(panes) : ~menu[n].hidden /\ menu[n].errors

\* A pane with something in it can be reached.
Reachable ==
  ~thrown => \A n \in NamesOf(panes) : option[n].on => ~menu[n].hidden

\* The page fails to come up only with nothing in any of its panes.
FailsEmpty == thrown => \A n \in NamesOf(panes) : ~option[n].on

TabsSound == OneTab /\ RefusedIsSeen /\ Reachable /\ FailsEmpty

\* A page rendered again, in the same layout, opens the tab that was seen last, if
\* that one has something in it.
TabRestored ==
  [][(panes = <<>> \/ option' # option) /\ panes' # <<>>
       /\ panes' = chosen.layout /\ option'[chosen.name].on
     => opened' = {chosen.name}]_tabVars
=============================================================================
