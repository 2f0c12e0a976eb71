------------------------------- MODULE Widgets -------------------------------
(***************************************************************************)
(* Dropdowns (ui.js: UIDropdown, UICombobox, UIDynamicList).  What is      *)
(* selected is an attribute of the items; the value of the widget is in    *)
(* hidden inputs that saveValues() writes, with an event each time.  A     *)
(* dynamic list has a dropdown whose event puts what was selected into the *)
(* list, deselects it, which raises the event again, and marks it so that  *)
(* it cannot be selected while it is listed.                               *)
(***************************************************************************)
EXTENDS SequencesExt, FiniteSets

CONSTANTS Offered,     \* values to choose from, in their order
          Customs,     \* values that may be typed in, or added later
          Placeholder  \* the item "-- Please choose --"

ASSUME WidgetAssumption == /\ Placeholder \notin ToSet(Offered) \cup Customs
                           /\ Offered # <<>> /\ IsInjective(Offered)

VARIABLES
  kind,    \* the kind of widget
  widget   \* its state

widgetVars == <<kind, widget>>

Kinds == {"select",      \* one value, which must be selected
          "combobox",    \* one value or none, may be typed in
          "checklist",   \* some values, at least one
          "checkcombo",  \* the same, may be typed in
          "checkset",    \* some values or none
          "dynlist"}     \* a list, with a combobox to add to it
Multiple == kind \in {"checklist", "checkcombo", "checkset"}
Optional == kind \in {"combobox", "checkset", "dynlist"}
Creates == kind \in {"combobox", "checkcombo", "dynlist"}
AllValues == ToSet(Offered) \cup Customs

Items(w) == ToSet(w.items)
\* querySelectorAll('li[selected]'), in the order of the items.
Selection(w) == SelectSeq(w.items, LAMBDA v : v \in w.selected)

\* bind(): where one value must be selected and none is, the first item is.
WidgetInit ==
  /\ kind \in Kinds
  /\ \E chosen \in SUBSET ToSet(Offered), listed \in SeqOf(AllValues, 2) :
       LET shown == IF Multiple THEN chosen
                    ELSE IF chosen # {} THEN chosen
                    ELSE IF Optional THEN {Placeholder} ELSE {Offered[1]}
       IN
       /\ Multiple \/ Cardinality(chosen) <= 1
       /\ Multiple /\ ~Optional => chosen # {}
       /\ IF kind = "dynlist" THEN chosen = {} /\ IsInjective(listed) ELSE listed = <<>>
       /\ widget = [items |-> Offered, selected |-> shown,
                    value |-> SelectSeq(Offered, LAMBDA v : v \in shown),
                    barred |-> {}, created |-> {}, custom |-> {},
                    listed |-> listed, open |-> FALSE]

-----------------------------------------------------------------------------
(* saveValues() and its event *)

AddTwice(listed, v) == Append(listed, v) \* mutant
AddItem(listed, v) == IF v \in ToSet(listed) THEN listed ELSE Append(listed, v)

\* handleDropdownChange(): deselecting saves again, an event without a value.
TakenOver(w, v) ==
  [w EXCEPT !.selected = {Placeholder}, !.value = <<>>,
            !.barred = @ \cup {v},
            !.custom = IF v \in w.created THEN @ \cup {v} ELSE @,
            !.created = @ \ {v},
            !.listed = AddItem(@, v)]

NotSaved(w) == w \* mutant
SavedValues(w) ==
  LET sel == Selection(w) IN
  IF kind = "dynlist" /\ sel # <<>> THEN TakenOver(w, sel[1])
  ELSE [w EXCEPT !.value = sel]

SavedAtClose(w) ==
  LET sel == Selection(w) IN
  IF kind = "dynlist" /\ sel # <<>> THEN TakenOver([w EXCEPT !.open = FALSE], sel[1])
  ELSE [w EXCEPT !.value = sel, !.open = FALSE]

\* closeDropdown()
Closed(w) == IF w.open THEN SavedAtClose(w) ELSE w

-----------------------------------------------------------------------------
(* toggleItem() *)

MayAlways(w) == TRUE \* mutant
MayDeselect(w) == Optional \/ Cardinality(w.selected) > 1

\* "way" is what force_state says: on, off or either.
Toggled(w, v, way) ==
  IF v \in w.barred THEN w
  ELSE IF ~Multiple THEN SavedValues(Closed([w EXCEPT !.selected = {v}]))
  ELSE IF v \in w.selected
  THEN IF way # "on" /\ MayDeselect(w) THEN SavedValues([w EXCEPT !.selected = @ \ {v}]) ELSE SavedValues(w)
  ELSE IF way # "off" THEN SavedValues([w EXCEPT !.selected = @ \cup {v}]) ELSE SavedValues(w)

\* createItems(), for one value.  A widget with one value keeps one created
\* item; what is not used is taken out, selected or not.
WithoutItems(w, gone) ==
  [w EXCEPT !.items = SelectSeq(@, LAMBDA v : v \notin gone), !.selected = @ \ gone,
            !.barred = @ \ gone, !.created = @ \ gone, !.custom = @ \ gone]

WithCreated(w, v) ==
  LET old == IF Multiple THEN w ELSE WithoutItems(w, w.created)
      new == [old EXCEPT !.items = Append(@, v),
                         !.created = IF Multiple THEN @ ELSE {v}]
  IN Toggled(IF v \in Items(w) THEN w ELSE new, v, "on")

-----------------------------------------------------------------------------
(* setValues(): new items first, then each item in its order *)

NoneCreated(w, values) == w \* mutant
FirstCreated(w, values) ==
  IF Creates THEN FoldSet(LAMBDA v, x : WithCreated(x, v), w, values) ELSE w

SetMultiple(w, values) ==
  FoldLeft(LAMBDA x, v : Toggled(x, v, IF v \in values THEN "on" ELSE "off"), w, w.items)

SetSingle(w, values) ==
  LET reset == IF Optional THEN Toggled(w, Placeholder, "either") ELSE w IN
  FoldLeft(LAMBDA x, v : IF v \in values THEN Toggled(x, v, "either") ELSE x, reset, reset.items)

SetValue(values) ==
  /\ kind # "dynlist"
  /\ Multiple \/ Cardinality(values) <= 1
  /\ ~Creates => values \subseteq Items(widget)
  /\ LET w == FirstCreated(widget, values) IN
     widget' = IF Multiple THEN SetMultiple(w, values) ELSE SetSingle(w, values)
  /\ UNCHANGED kind

-----------------------------------------------------------------------------
(* The user *)

Open ==
  /\ ~widget.open
  /\ widget' = [widget EXCEPT !.open = TRUE]
  /\ UNCHANGED kind

Close ==
  /\ widget.open
  /\ widget' = Closed(widget)
  /\ UNCHANGED kind

Pickable(v) ==
  /\ widget.open
  /\ v \in Items(widget) \/ (v = Placeholder /\ ~Multiple /\ Optional)

\* With a click, or the space bar.
Pick(v) ==
  /\ Pickable(v)
  /\ widget' = Toggled(widget, v, "either")
  /\ UNCHANGED kind

\* The enter key selects, and closes.
PickAndClose(v) ==
  /\ Pickable(v)
  /\ widget' = Closed(IF v \in widget.selected THEN widget ELSE Toggled(widget, v, "either"))
  /\ UNCHANGED kind

TypeIn(v) ==
  /\ widget.open /\ Creates
  /\ widget' = WithCreated(widget, v)
  /\ UNCHANGED kind

StillBarred(w, v) == [w EXCEPT !.listed = SelectSeq(@, LAMBDA u : u # v)] \* mutant
Unlisted(w, v) ==
  LET free == IF v \in w.custom THEN WithoutItems(w, {v}) ELSE [w EXCEPT !.barred = @ \ {v}] IN
  [free EXCEPT !.listed = SelectSeq(@, LAMBDA u : u # v)]

RemoveItem(v) ==
  /\ v \in ToSet(widget.listed)
  /\ widget' = Unlisted(widget, v)
  /\ UNCHANGED kind

-----------------------------------------------------------------------------
(* The page *)

ListSetValue(values) ==
  LET bare == FoldLeft(LAMBDA w, v : Unlisted(w, v), widget, widget.listed) IN
  /\ kind = "dynlist"
  /\ widget' = [bare EXCEPT !.listed = FoldLeft(AddItem, <<>>, values)]
  /\ UNCHANGED kind

\* A new choice comes before the last child: the field to type in, or an item.
AddChoice(v) ==
  /\ v \notin Items(widget)
  /\ widget' = [widget EXCEPT !.items =
                  IF Creates \/ @ = <<>> THEN Append(@, v) ELSE Front(@) \o <<v, Last(@)>>]
  /\ UNCHANGED kind

\* clearChoices(): all but those that are the value.
ClearChoices ==
  /\ widget' = WithoutItems(widget, Items(widget) \ ToSet(widget.value))
  /\ UNCHANGED kind

WidgetNext ==
  \/ Open \/ Close \/ ClearChoices
  \/ \E v \in AllValues \cup {Placeholder} : Pick(v) \/ PickAndClose(v)
  \/ \E v \in AllValues : TypeIn(v) \/ RemoveItem(v) \/ AddChoice(v)
  \/ \E values \in SUBSET AllValues : SetValue(values)
  \/ \E values \in SeqOf(AllValues, 2) : ListSetValue(values)

WidgetSpec == WidgetInit /\ [][WidgetNext]_widgetVars

-----------------------------------------------------------------------------
(* Properties *)

\* A widget that is not a list has as its value what it shows as selected:
\* items come and go and are selected in many ways, and the hidden inputs are
\* a copy of it.
ValueShown == widget.value = Selection(widget)

\* Where a value must be selected there always is one, and where one can be
\* selected there are not two, also after the choices were cleared and made
\* anew, or an item that was typed in gave way to another.
OneSelected ==
  /\ ~Optional => widget.selected # {}
  /\ ~Multiple => Cardinality(widget.selected) = 1

\* setValue() makes the value what was asked for, where something was.  Without
\* creating items, a widget that must have a value turns off what is selected
\* before it turns on what is not, and keeps the last of it.
SetAsAsked ==
  [][ \A values \in (SUBSET AllValues) \ {{}} :
        widget' # widget /\ SetValue(values) /\ (Optional \/ Creates \/ ~Multiple)
          => ToSet(widget'.value) = values ]_widgetVars

\* What cannot be selected is in the list: what was taken out of it can be
\* selected again, however it got there and whatever became of the choices.
BarredAreListed == widget.barred \subseteq ToSet(widget.listed)

\* The list has no value twice, though the dropdown's event comes more than once
\* for a selection and what is listed from the start can be selected.
ListedOnce == IsInjective(widget.listed)

\* Items, hidden inputs and the list of a widget agree.
WidgetSound == ValueShown /\ OneSelected /\ BarredAreListed /\ ListedOnce
=============================================================================
