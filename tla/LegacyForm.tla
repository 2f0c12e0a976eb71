----------------------------- MODULE LegacyForm -----------------------------
(***************************************************************************)
(* Forms of the legacy framework: the fields in the browser (cbi.js), and  *)
(* what the router makes of the form (cbi.lua).                            *)
(***************************************************************************)
EXTENDS Naturals, SequencesExt

-----------------------------------------------------------------------------
(***************************************************************************)
(* Fields of a legacy form that depend on others (cbi.js).  A field whose  *)
(* conditions are not met is taken out of the document, which makes its    *)
(* value empty for those that depend on it, and is put back when they are. *)
(* All fields are looked at one after the other, in rounds, until a round  *)
(* changes nothing.                                                        *)
(***************************************************************************)

CONSTANTS LastField,   \* fields are numbered in the order of the page
          FieldTexts,  \* what a field may hold
          NoText       \* the value of a field that is not there

VARIABLES
  conditions, \* cbi_d: for each field the alternatives, one of which must hold
  content,    \* what the fields hold, in the document or not
  shown,      \* the fields that are in the document
  updating,   \* is cbi_d_update() to go through the fields (again)?
  rounds      \* how often it did since the last change

dependVars == <<conditions, content, shown, updating, rounds>>

PageFields == 1..LastField
Alternatives(f) == [on : PageFields \ {f}, is : FieldTexts \cup {NoText}, reverse : BOOLEAN]

\* Nothing depends on itself through others.
WithoutCircle(conds) ==
  \E rank \in [PageFields -> PageFields] :
    \A f \in PageFields : \A a \in conds[f] : rank[a.on] < rank[f]

\* cbi_init(): all fields are in the document, and are looked at once.
DependInit ==
  /\ conditions \in {c \in [PageFields -> UNION {{{a}, {}} : a \in UNION {Alternatives(f) : f \in PageFields}}] :
                       (\A f \in PageFields : c[f] \subseteq Alternatives(f)) /\ WithoutCircle(c)}
  /\ content \in [PageFields -> FieldTexts]
  /\ shown = PageFields
  /\ updating = TRUE /\ rounds = 0

-----------------------------------------------------------------------------
(* cbi_d_checkvalue(), cbi_d_check(), cbi_d_update() *)

ContentOf(f, there) == IF f \in there THEN content[f] ELSE NoText

ConditionMet(f, there) ==
  conditions[f] = {} \/ \E a \in conditions[f] : (ContentOf(a.on, there) = a.is) # a.reverse

\* cbi_d_add() puts a field before those it has: the last one comes first.
Updated(there) ==
  FoldLeft(LAMBDA now, f : IF ConditionMet(f, now) THEN now \cup {f} ELSE now \ {f},
           there, [i \in PageFields |-> LastField + 1 - i])

OneRound(before, after) == FALSE \* mutant
AnotherRound(before, after) == before # after

Update ==
  /\ updating
  /\ shown' = Updated(shown)
  /\ updating' = AnotherRound(shown, shown')
  /\ rounds' = rounds + 1
  /\ UNCHANGED <<conditions, content>>

\* The user changes a field, whose event starts an update.
ChangeField(f, v) ==
  /\ ~updating /\ f \in shown /\ v # content[f]
  /\ content' = [content EXCEPT ![f] = v]
  /\ updating' = TRUE /\ rounds' = 0
  /\ UNCHANGED <<conditions, shown>>

DependNext == Update \/ \E f \in PageFields, v \in FieldTexts : ChangeField(f, v)
DependSpec == DependInit /\ [][DependNext]_dependVars

-----------------------------------------------------------------------------
(* Properties *)

\* Whenever the fields come to rest, those in the document are the ones whose
\* conditions are met by what is in the document, however long the chain of
\* fields that make each other appear or disappear; and without circles they do
\* come to rest, after no more rounds than there are fields and one that changes
\* nothing.
Settled ==
  IF updating THEN rounds <= LastField
  ELSE \A f \in PageFields : f \in shown <=> ConditionMet(f, shown)

-----------------------------------------------------------------------------
(***************************************************************************)
(* A page of the legacy framework (cbi.lua: Map with a TypedSection): the  *)
(* router renders the sections of a configuration as a form, and parses    *)
(* the form when it is submitted, option by option.  Its UCI cursor        *)
(* (model/uci.lua) keeps nothing: each set or delete is staged with a call *)
(* of its own, so between two of them other pages change the sections too. *)
(***************************************************************************)

CONSTANTS Parts,      \* sections that exist or may be added, in their order
          Fields,     \* options of a section, in their order
          Required,   \* those that must not be empty: rmempty is off
          Flags,      \* check boxes
          Texts,      \* values of the others
          Wrong,      \* input that is not valid
          NotSent,     \* an empty input, or one not sent as the option is hidden
          Unset,      \* an option that is not set
          Gone,       \* no section
          MaxOthers   \* bound: changes by others

ASSUME LegacyAssumption == /\ MaxOthers \in Nat
                           /\ "0" \notin {Wrong, NotSent, Unset} /\ Wrong \notin {NotSent, Unset}

VARIABLES
  staged,   \* the sections, with what the session has staged
  page,     \* the sections on the rendered page
  post,     \* the request that parses it
  others,   \* changes by others so far
  quiet,    \* history: did others change nothing since the page was rendered?
  found     \* history: what was staged when the request began

legacyVars == <<staged, page, post, others, quiet, found>>

PartSet == ToSet(Parts)
FieldSet == ToSet(Fields)
Default(o) == IF o \in Flags THEN "0" ELSE Unset
FieldValues(o) == IF o \in Flags THEN {"0", "1"} ELSE Texts
PartSettings == [FieldSet -> (UNION {FieldValues(o) : o \in FieldSet}) \cup {Unset}]
ASSUME GoneAssumption == Gone \notin PartSettings
WellTyped(sec) == \A o \in FieldSet : sec[o] \in FieldValues(o) \cup {Unset}
Created == [o \in FieldSet |-> Default(o)]
Present(config) == {s \in PartSet : config[s] # Gone}

NoPost == [at |-> "none"]

LegacyInit ==
  /\ staged \in [PartSet -> {sec \in PartSettings : WellTyped(sec)} \cup {Gone}]
  /\ page = Present(staged)
  /\ post = NoPost
  /\ others = 0
  /\ quiet = TRUE
  /\ found = staged

-----------------------------------------------------------------------------
(* The page and its submission *)

RenderPage ==
  /\ post = NoPost
  /\ page' = Present(staged)
  /\ quiet' = TRUE
  /\ UNCHANGED <<staged, post, others, found>>

\* What a form may send for an option: a check box is sent as unchecked where
\* it is shown, and neither as checked nor unchecked where it is hidden.
FieldInput(o) == FieldValues(o) \cup {NotSent} \cup (IF o \in Flags THEN {} ELSE {Wrong})
FieldInputs == {sec \in [FieldSet -> UNION {FieldInput(o) : o \in FieldSet}] : \A o \in FieldSet : sec[o] \in FieldInput(o)}
NoneSent == [o \in FieldSet |-> NotSent]

\* With the button of the form, or the one to remove or to add a section.
Submit(button, part, apply) ==
  /\ post = NoPost
  /\ button = "save" => part \in page
  /\ button = "remove" => part \in page
  /\ button = "add" => part \notin page
  /\ button # "save" => ~apply
  /\ \E sent \in [page -> FieldInputs] :
       post' = [at |-> "remove", button |-> button, part |-> part, apply |-> apply,
                sent |-> [s \in PartSet |-> IF s \in page THEN sent[s] ELSE NoneSent],
                todo |-> {}, again |-> FALSE,
                save |-> TRUE, proceed |-> FALSE, changed |-> FALSE]
  /\ found' = staged
  /\ UNCHANGED <<staged, page, others, quiet>>

-----------------------------------------------------------------------------
(* Map.parse() *)

\* The sections that are parsed are those there are after the removal, whether
\* the page showed them or not: one after the other, each option by option.
ToParse(config) == Present(config) \X FieldSet

RankIn(list, x) == CHOOSE i \in DOMAIN list : list[i] = x
IsFirst(e, todo) ==
  \A d \in todo : \/ RankIn(Parts, e[1]) < RankIn(Parts, d[1])
                 \/ /\ e[1] = d[1]
                    /\ RankIn(Fields, e[2]) <= RankIn(Fields, d[2])

Quietly == FALSE \* mutant
Proceeds == TRUE

RemovePart ==
  LET hit == post.button = "remove" /\ staged[post.part] # Gone
      config == IF hit THEN [staged EXCEPT ![post.part] = Gone] ELSE staged
  IN
  /\ post.at = "remove"
  /\ staged' = config
  /\ post' = [post EXCEPT !.at = "options", !.todo = ToParse(config),
                          !.proceed = IF hit THEN Proceeds ELSE @]
  /\ UNCHANGED <<page, others, quiet, found>>

\* AbstractValue.parse() and Flag.parse(): the value that is written, or Unset;
\* or Wrong, if it is refused.
KeptIfHidden(o, input, old) == IF input = NotSent THEN old ELSE input \* mutant
Outcome(o, input, old) ==
  IF o \in Flags THEN IF input = Default(o) \/ input = NotSent THEN Unset ELSE input
  ELSE IF input = NotSent THEN IF o \notin Required \/ old = Unset THEN Unset ELSE Wrong
  ELSE input

\* What an option means: an unset check box is not checked.
Meaning(o, value) == IF o \in Flags /\ value = Unset THEN "0" ELSE value

\* What is reported as a change: for a check box also if it is hidden, for
\* others if staging it succeeds.
ToldChange(o, input, new, old, staging) ==
  IF o \in Flags THEN input = NotSent \/ Meaning(o, new) # Meaning(o, old)
  ELSE staging /\ new # old

\* A section that was removed meanwhile takes no value.
ParseOption(s, o) ==
  LET there == staged[s] # Gone
      old == IF there THEN staged[s][o] ELSE Unset
      new == Outcome(o, post.sent[s][o], old)
      staging == there /\ new # Wrong
  IN
  /\ post.at = "options" /\ <<s, o>> \in post.todo /\ IsFirst(<<s, o>>, post.todo)
  /\ staged' = IF staging THEN [staged EXCEPT ![s][o] = new] ELSE staged
  /\ post' = [post EXCEPT
       !.todo = @ \ {<<s, o>>},
       !.save = @ /\ (new # Wrong \/ post.again),
       !.changed = @ \/ ToldChange(o, post.sent[s][o], new, old, staging)]
  /\ UNCHANGED <<page, others, quiet, found>>

\* Then the section that is to be added, and the map's hooks.  After an apply
\* the form is parsed once more.
CreatePart ==
  LET hit == post.button = "add" /\ staged[post.part] = Gone IN
  /\ post.at = "options" /\ post.todo = {}
  /\ staged' = IF hit THEN [staged EXCEPT ![post.part] = Created] ELSE staged
  /\ post' = [post EXCEPT
       !.at = IF post.save /\ post.apply /\ ~post.again THEN "remove" ELSE "done",
       !.again = TRUE,
       !.proceed = IF hit THEN Proceeds ELSE @]
  /\ UNCHANGED <<page, others, quiet, found>>

FormState ==
  IF ~post.save THEN "INVALID"
  ELSE IF post.proceed THEN "PROCEED"
  ELSE IF post.changed THEN "CHANGED" ELSE "VALID"

\* The answer is the page rendered anew.
Answered ==
  /\ post.at = "done"
  /\ post' = NoPost
  /\ page' = Present(staged)
  /\ quiet' = TRUE
  /\ found' = staged
  /\ UNCHANGED <<staged, others>>

\* Another page of the session, or one who edits the files.
OthersChange(s) ==
  /\ others < MaxOthers
  /\ \/ staged[s] = Gone /\ staged' = [staged EXCEPT ![s] = Created]
     \/ staged[s] # Gone /\ staged' = [staged EXCEPT ![s] = Gone]
     \/ /\ staged[s] # Gone
        /\ \E o \in FieldSet : \E v \in FieldValues(o) : staged' = [staged EXCEPT ![s][o] = v]
  /\ others' = others + 1
  /\ quiet' = FALSE
  /\ UNCHANGED <<page, post, found>>

LegacyNext ==
  \/ RenderPage
  \/ \E button \in {"save", "remove", "add"}, s \in PartSet, apply \in BOOLEAN : Submit(button, s, apply)
  \/ RemovePart \/ CreatePart \/ Answered
  \/ \E s \in PartSet, o \in FieldSet : ParseOption(s, o)
  \/ \E s \in PartSet : OthersChange(s)

LegacySpec == LegacyInit /\ [][LegacyNext]_legacyVars

-----------------------------------------------------------------------------
(* Properties *)

SameMeaning(config1, config2) ==
  /\ Present(config1) = Present(config2)
  /\ \A s \in Present(config1), o \in FieldSet :
       Meaning(o, config1[s][o]) = Meaning(o, config2[s][o])

\* A request that reports a form without changes changed nothing: neither by
\* its buttons nor by its options, in the first parse or the second.
ValidChangedNothing ==
  post # NoPost =>
    (post.at = "done" /\ FormState = "VALID" /\ quiet => SameMeaning(staged, found))

\* If others changed nothing since the page was rendered, a form that is not
\* refused leaves every option as it was sent: hidden ones are unset.
SentIsStaged ==
  post # NoPost =>
    (post.at = "done" /\ FormState # "INVALID" /\ quiet =>
       \A s \in Present(staged) \cap page, o \in FieldSet :
         Meaning(o, staged[s][o]) =
           Meaning(o, IF post.sent[s][o] = NotSent THEN Unset ELSE post.sent[s][o]))

\* What the state of a form says of its changes is what happened to the sections.
StateTrue == ValidChangedNothing /\ SentIsStaged
=============================================================================
