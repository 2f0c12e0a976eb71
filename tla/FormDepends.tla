---------------------------- MODULE FormDepends ----------------------------
(***************************************************************************)
(* Dependencies between the options of a form (form.js): an option is      *)
(* shown while the options it depends on are shown and have the values it  *)
(* asks for.  checkDepends() goes through the options in their order,      *)
(* hides and shows them, and goes through them once more if it changed     *)
(* something: a second time, not until nothing changes.  What is hidden    *)
(* when the form is saved is removed from the configuration.               *)
(***************************************************************************)
EXTENDS Naturals, FiniteSets, Relation

CONSTANTS Options,  \* numbered in the order in which they were added
          MaxNeeds  \* bound: options one option depends on

ASSUME OptionsAssumption == Options = 1..Cardinality(Options)

VARIABLES
  needs,   \* deps: the options that must be shown and on for an option to be shown
  on,      \* the options whose widgets have the value that others ask for
  visible, \* the options that are not hidden
  checked  \* did checkDepends() run since the form was rendered?

depVars == <<needs, on, visible, checked>>

Satisfied(o, shown, set) == needs[o] \subseteq shown \cap set

\* One pass: what it hides or shows counts for the options that follow.
Pass(shown, set) ==
  LET after[n \in {0} \cup Options] ==
        IF n = 0 THEN shown
        ELSE IF Satisfied(n, after[n - 1], set) THEN after[n - 1] \cup {n}
        ELSE after[n - 1] \ {n}
  IN after[Cardinality(Options)]

OnePass(shown, set) == Pass(shown, set) \* mutant
CheckDepends(shown, set) == Pass(Pass(shown, set), set)

DepInit ==
  /\ needs \in [Options -> {S \in SUBSET Options : Cardinality(S) <= MaxNeeds}]
  /\ \A o \in Options : o \notin needs[o]
  /\ on \in SUBSET Options
  /\ visible = {o \in Options : needs[o] = {}}
  /\ checked = FALSE

\* renderContents() ends with a check.
Rendered ==
  /\ ~checked
  /\ visible' = CheckDepends(visible, on)
  /\ checked' = TRUE
  /\ UNCHANGED <<needs, on>>

\* The user changes a widget, which sends "widget-change".
DepChange(o) ==
  LET set == IF o \in on THEN on \ {o} ELSE on \cup {o} IN
  /\ checked /\ o \in visible
  /\ on' = set
  /\ visible' = CheckDepends(visible, set)
  /\ UNCHANGED <<needs, checked>>

DepNext == Rendered \/ \E o \in Options : DepChange(o)
DepSpec == DepInit /\ [][DepNext]_depVars

-----------------------------------------------------------------------------
(* Properties *)

\* Each chain of dependencies has at most one option that depends on a later one,
\* and no chain comes back to where it began.
OneStepBack ==
  LET leads == TransitiveClosure([e \in Options \X Options |-> e[2] \in needs[e[1]]], Options)
      back == {e \in Options \X Options : e[2] \in needs[e[1]] /\ e[2] > e[1]}
  IN /\ \A o \in Options : ~leads[o, o]
     /\ \A s, t \in back : ~(t[1] = s[2] \/ leads[s[2], t[1]])

\* After a check an option is shown exactly when its dependencies are
\* satisfied, whatever was shown before.
ShownIfSatisfied ==
  checked /\ (\E o \in Options : (o \in visible) # Satisfied(o, visible, on)) => ~OneStepBack
=============================================================================
