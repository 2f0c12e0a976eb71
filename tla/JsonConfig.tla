------------------------------ MODULE JsonConfig ------------------------------
(***************************************************************************)
(* The data of a form that is not in UCI (form.js: CBIJSONConfig).  A page *)
(* gives lists of objects, each list a type of section; they are kept in   *)
(* one table by name and ordered by an index.  What is in a section does   *)
(* not matter here.                                                        *)
(***************************************************************************)
EXTENDS Naturals, FiniteSets, SequencesExt

CONSTANTS SectionTypes,     \* types of sections, in the order of the page: a sequence
          MaxItems,  \* bound: objects of a type given by the page
          MaxNumber, \* bound: the number in a name
          MaxIndex   \* bound: the index of a section that is added

ASSUME JsonAssumption == /\ SectionTypes # <<>> /\ MaxItems \in Nat /\ MaxNumber \in Nat \ {0}
                         /\ MaxIndex \in Nat

VARIABLES
  items,   \* this.data: name -> section
  order,   \* history: the names in the order asked for
  raised   \* did the last call raise an exception?

jsonVars == <<items, order, raised>>

\* A name: made up from a type and a number, or given and looking like that.
Name(type, number) == <<type, number>>
AnyNames == {Name(SectionTypes[k], i) : k \in DOMAIN SectionTypes, i \in 0..MaxNumber}

Section(type, index) == [type |-> type, index |-> index]
With(t, n, s) == [x \in DOMAIN t \cup {n} |-> IF x = n THEN s ELSE t[x]]
Without(t, n) == [x \in DOMAIN t \ {n} |-> t[x]]

\* sections(), for all types: by index.
Below(t, n) == {x \in DOMAIN t : t[x].index < t[n].index}
ByIndex(t) == [i \in 1..Cardinality(DOMAIN t) |-> CHOOSE n \in DOMAIN t : Cardinality(Below(t, n)) = i - 1]
Indexed(t, names) == [n \in DOMAIN t |-> [t[n] EXCEPT !.index = SelectInSeq(names, LAMBDA x : x = n) - 1]]

\* __init__(): an object may have a name; the others are numbered through.  A
\* second object by the same name takes the place of the first.
GivenName == Name(SectionTypes[1], 1) \* the one name that pages give here
GivenLists == SeqOf({"named", "unnamed"}, MaxItems)
Filed(all) ==
  FoldLeft(LAMBDA t, i : With(t, IF all[i].item = "named" THEN GivenName ELSE Name(all[i].type, i - 1),
                              Section(all[i].type, i - 1)),
           <<>>, [i \in DOMAIN all |-> i])

JsonInit ==
  \E lists \in [DOMAIN SectionTypes -> GivenLists] :
    LET all == FlattenSeq([k \in DOMAIN SectionTypes |->
                 [i \in DOMAIN lists[k] |-> [type |-> SectionTypes[k], item |-> lists[k][i]]]])
    IN /\ order = ByIndex(Filed(all))
       /\ items = Indexed(Filed(all), order)
       /\ raised = FALSE

\* add(): the number is how many there are of the type.  There may be a section of
\* that name: it is returned as if it were new.
Replaces(n) == TRUE \* mutant
IsNew(n) == n \notin DOMAIN items
Highest == LET indexes == {items[n].index : n \in DOMAIN items} IN
           IF indexes = {} THEN 0 ELSE CHOOSE i \in indexes : \A j \in indexes : j <= i
AddSection(type) ==
  LET n == Name(type, Cardinality({x \in DOMAIN items : items[x].type = type})) IN
  /\ n[2] <= MaxNumber /\ Highest < MaxIndex
  /\ IF IsNew(n)
     THEN items' = With(items, n, Section(type, Highest + 1)) /\ order' = Append(order, n)
     ELSE UNCHANGED <<items, order>>
  /\ raised' = FALSE

RemoveSection(n) ==
  /\ n \in DOMAIN items
  /\ items' = Without(items, n)
  /\ order' = SelectSeq(order, LAMBDA x : x # n)
  /\ raised' = FALSE

\* move(), borrowed from uci.js: in the end it makes a note in this.state, which
\* this object does not have.  Where the place is not found nothing is changed.
AlwaysPast(after) == 1 \* mutant
Offset(after) == IF after THEN 1 ELSE 0
PutAt(names, place, n, after) == InsertAt(names, SelectInSeq(names, LAMBDA x : x = place) + Offset(after), n)
MoveSection(n, place, after) ==
  /\ n \in DOMAIN items
  /\ IF place \in DOMAIN items \ {n}
     THEN /\ items' = Indexed(items, PutAt(SelectSeq(ByIndex(items), LAMBDA x : x # n), place, n, after))
          /\ order' = FlattenSeq([i \in DOMAIN order |->
                        IF order[i] = n THEN <<>>
                        ELSE IF order[i] # place THEN <<order[i]>>
                        ELSE IF after THEN <<place, n>> ELSE <<n, place>>])
          /\ raised' = TRUE
     ELSE UNCHANGED <<items, order>> /\ raised' = FALSE

JsonNext ==
  \/ \E n \in AnyNames : \/ RemoveSection(n)
                         \/ \E place \in AnyNames, after \in BOOLEAN : MoveSection(n, place, after)
  \/ \E k \in DOMAIN SectionTypes : AddSection(SectionTypes[k])
JsonSpec == JsonInit /\ [][JsonNext]_jsonVars

-----------------------------------------------------------------------------
(* Properties *)

\* The sections are listed in the order in which they were given, added and
\* moved, whatever was removed between: no two of them have the same index, and
\* adding one by a name there is already changes nothing.
ListedInOrder == ByIndex(items) = order
=============================================================================
