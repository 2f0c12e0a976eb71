------------------------------ MODULE UciFile ------------------------------
(***************************************************************************)
(* The contents of one UCI configuration file as rpcd keeps it for a login *)
(* session: sections in order and the options set in each.  A value is a   *)
(* non-empty string or list; section types are left out.                   *)
(*                                                                         *)
(* rpcd is not part of the repository: what its calls do is modelled from  *)
(* how uci.js uses them.  The same operators say what an edit on the page  *)
(* should make of the file it shows.                                       *)
(***************************************************************************)
EXTENDS Naturals, FiniteSets, SequencesExt

CONSTANTS Named,    \* names a section may be given
          Pool,     \* the cfgXXXXXX identifiers of anonymous sections
          Temps,    \* the newXXXXXX identifiers of the page
          Options, Values, None

ASSUME DisjointAssumption ==
  /\ Named \cap Pool = {} /\ Named \cap Temps = {} /\ Pool \cap Temps = {}
ASSUME FiniteAssumption == IsFiniteSet(Named) /\ IsFiniteSet(Pool) /\ IsFiniteSet(Temps)
ASSUME NoneAssumption == None \notin Named \cup Pool \cup Temps \cup Values

Stored == Named \cup Pool
Sids == Stored \cup Temps

Blank == [o \in Options |-> None]
Sections == [Options -> Values \cup {None}]
Empty == [secs |-> <<>>, opts |-> [s \in Sids |-> Blank]]

Has(file, sid) == Contains(file.secs, sid)

\* Of the list s the elements at the places in I, in their order.
Picked(s, I) ==
  [n \in 1..Cardinality(I) |-> s[CHOOSE i \in I : Cardinality({j \in I : j <= i}) = n]]

Kept(s, T) == Picked(s, {i \in 1..Len(s) : s[i] \in T})
Without(s, e) == Kept(s, ToSet(s) \ {e})

\* The options of new that are set replace those of old.
Merge(old, new) == [o \in Options |-> IF new[o] = None THEN old[o] ELSE new[o]]

SetIn(file, sid, new) ==
  IF Has(file, sid) THEN [file EXCEPT !.opts[sid] = Merge(@, new)] ELSE file

UnsetIn(file, sid, gone) ==
  [file EXCEPT !.opts[sid] = [o \in Options |-> IF o \in gone THEN None ELSE @[o]]]

AddTo(file, sid, new) ==
  IF Has(file, sid) THEN SetIn(file, sid, new)
  ELSE [secs |-> Append(file.secs, sid), opts |-> [file.opts EXCEPT ![sid] = new]]

DropFrom(file, sid) ==
  [secs |-> Without(file.secs, sid), opts |-> [file.opts EXCEPT ![sid] = Blank]]

\* The sections named come first, in that order; names not known are skipped,
\* and the last place counts of a name that is there twice.
OrderIn(file, names) ==
  LET known == {i \in 1..Len(names) : /\ Has(file, names[i])
                                      /\ \A j \in (i + 1)..Len(names) : names[j] # names[i]}
  IN [file EXCEPT !.secs = Picked(names, known) \o Kept(@, ToSet(@) \ ToSet(names))]

PlaceIn(s, e) == SelectInSeq(s, LAMBDA x : x = e)

\* sid taken out and put before or after ref, or at the end without a ref.
Placed(secs, sid, ref, after) ==
  LET rest == Without(secs, sid)
      at == PlaceIn(rest, ref)
  IN IF ref = None THEN Append(rest, sid)
     ELSE InsertAt(rest, IF after THEN at + 1 ELSE at, sid)

Identifier(name) == IF name \in Temps THEN None ELSE name

\* got holds what want holds, new sections under whatever identifier.
SameUpToNew(want, got) ==
  /\ Len(got.secs) = Len(want.secs)
  /\ \A i \in 1..Len(want.secs) :
       /\ Identifier(want.secs[i]) \in {None, got.secs[i]}
       /\ got.opts[got.secs[i]] = want.opts[want.secs[i]]
=============================================================================
