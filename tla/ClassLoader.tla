----------------------------- MODULE ClassLoader -----------------------------
(***************************************************************************)
(* Classes of luci.js: require(), which loads them, and super().           *)
(***************************************************************************)
EXTENDS Naturals, SequencesExt

-----------------------------------------------------------------------------
(***************************************************************************)
(* require() of luci.js: a class is fetched once, whoever asks first; the  *)
(* classes its file requires are asked for when the file arrives, and the  *)
(* class is built when all of them are.  A class that is known, fetched or *)
(* still under way, is refused if it is in the chain of classes on whose   *)
(* behalf it is asked for.                                                 *)
(***************************************************************************)

CONSTANTS Classes,
          MaxDeps \* bound: require statements of one file

ASSUME ClassAssumption == MaxDeps \in Nat

VARIABLES
  requires, \* what the files say: the classes each requires, in order
  class,    \* classes: where each is, and the chain it was asked for on
  built,    \* history: the classes in the order in which they were built
  refused   \* history: the classes whose file could not be fetched or run

classVars == <<requires, class, built, refused>>

Unknown == [pc |-> "unknown", chain |-> <<>>]
Fetched(chain) == [pc |-> "fetched", chain |-> chain]

ClassInit == /\ requires \in [Classes -> {s \in SeqOf(Classes, MaxDeps) : IsInjective(s)}]
             /\ class = [c \in Classes |-> Unknown]
             /\ built = <<>>
             /\ refused = {}

Failed(c) == class[c].pc = "failed"

\* The page asks for a class; what is known of it is used.
Require(c) ==
  /\ class[c].pc = "unknown"
  /\ class' = [class EXCEPT ![c] = Fetched(<<c>>)]
  /\ UNCHANGED <<requires, built, refused>>

FetchFails(c) ==
  /\ class[c].pc = "fetched"
  /\ class' = [class EXCEPT ![c].pc = "failed"]
  /\ refused' = refused \cup {c}
  /\ UNCHANGED <<requires, built>>

\* The first of the required classes that closes a circle.
AnyPending(c, d) == class[d].pc \in {"fetched", "waiting"} \* mutant
Circular(c, d) == class[d].pc # "unknown" /\ Contains(class[c].chain, d)

Circle(c) ==
  LET circular == {i \in 1..Len(requires[c]) : Circular(c, requires[c][i])} IN
  IF circular = {} THEN 0 ELSE Min(circular)

NotAskedYet == {d \in Classes : class[d].pc = "unknown"}

ParentChain(d, c) == class[c].chain \* mutant
Chain(d, c) == <<d>> \o class[c].chain

\* The file arrives: its require statements are carried out up to the first
\* that throws.
Compile(c) ==
  LET asked == IF Circle(c) = 0 THEN ToSet(requires[c])
               ELSE ToSet(SubSeq(requires[c], 1, Circle(c) - 1))
      after == IF Circle(c) = 0 THEN "waiting" ELSE "failed"
  IN
  /\ class[c].pc = "fetched"
  /\ class' = [d \in Classes |->
       CASE d = c -> [class[c] EXCEPT !.pc = after]
         [] d # c /\ d \in asked \cap NotAskedYet -> Fetched(Chain(d, c))
         [] OTHER -> class[d]]
  /\ UNCHANGED <<requires, built, refused>>

AnyReady(c) == \E d \in ToSet(requires[c]) : class[d].pc = "ready" \* mutant
AllReady(c) == \A d \in ToSet(requires[c]) : class[d].pc = "ready"

Build(c) ==
  /\ class[c].pc = "waiting" /\ AllReady(c)
  /\ \/ /\ class' = [class EXCEPT ![c].pc = "ready"]
        /\ built' = Append(built, c)
        /\ UNCHANGED refused
     \/ /\ class' = [class EXCEPT ![c].pc = "failed"] \* its code throws
        /\ refused' = refused \cup {c}
        /\ UNCHANGED built
  /\ UNCHANGED requires

\* The promise of a class is rejected with the first of those it waits for.
FailureIgnored(c) == FALSE \* mutant
SomeFailed(c) == \E d \in ToSet(requires[c]) : Failed(d)

GiveUp(c) ==
  /\ class[c].pc = "waiting" /\ SomeFailed(c)
  /\ class' = [class EXCEPT ![c].pc = "failed"]
  /\ UNCHANGED <<requires, built, refused>>

ClassNext ==
  \E c \in Classes : Require(c) \/ FetchFails(c) \/ Compile(c) \/ Build(c) \/ GiveUp(c)

ClassSpec == ClassInit /\ [][ClassNext]_classVars

\* Requests for files end, and callbacks run.
ClassFairness ==
  \A c \in Classes : WF_classVars(FetchFails(c) \/ Compile(c) \/ Build(c) \/ GiveUp(c))

ClassFairSpec == ClassSpec /\ ClassFairness

-----------------------------------------------------------------------------
(* Properties *)

\* The classes a class needs, directly or not: those in every set that has what
\* it requires and what any of its members does.
HasAllNeeded(S) == \A d \in S : ToSet(requires[d]) \subseteq S
Needs(c) ==
  {d \in Classes :
     \A S \in SUBSET Classes : ToSet(requires[c]) \subseteq S /\ HasAllNeeded(S) => d \in S}

OnCircle(c) == c \in Needs(c)
InCircle(c) == OnCircle(c) \/ \E d \in Needs(c) : OnCircle(d)

ClassTypeOK ==
  /\ class \in [Classes -> [pc : {"unknown", "fetched", "waiting", "ready", "failed"},
                            chain : Seq(Classes)]]
  /\ \A c \in Classes : class[c].pc # "unknown" => Head(class[c].chain) = c
  /\ built \in Seq(Classes)
  /\ refused \subseteq Classes

\* No class is built twice, or before all it needs, whoever asked for them
\* and in whatever order the files arrived.
BuiltInOrder ==
  /\ IsInjective(built)
  /\ \A i \in 1..Len(built) : Needs(built[i]) \subseteq ToSet(SubSeq(built, 1, i - 1))

\* A class is refused as circular only if it needs itself, or what it needs
\* does: asking twice at the same time is no circle.
RefusedForCause ==
  \A c \in Classes : Failed(c) => InCircle(c) \/ ({c} \cup Needs(c)) \cap refused # {}

\* Without circles every class asked for is built or refused in the end: the
\* time comes when none is under way.
AcyclicSettles ==
  (\A c \in Classes : ~OnCircle(c)) =>
    <>[](\A c \in Classes : class[c].pc \notin {"fetched", "waiting"})

\* Classes are built once, after what they need, and refused for a cause only.
ClassSound == ClassTypeOK /\ BuiltInOrder /\ RefusedForCause

-----------------------------------------------------------------------------
(***************************************************************************)
(* super() of luci.js: a method calls the one it overrides.  A method does *)
(* not know in which class it was defined, so super() keeps a stack of the *)
(* classes it has come to, in a slot for each class and name of a method:  *)
(* objects of one class share it.  Here the one slot of a class and a      *)
(* method, with calls, calls by super(), returns and exceptions in any     *)
(* order.                                                                  *)
(***************************************************************************)

CONSTANTS Depth,   \* classes: 1 is that of the objects, Depth the base class
          MaxCalls \* bound: calls under way at a time

ASSUME SuperAssumption == Depth \in Nat \ {0} /\ MaxCalls \in Nat

VARIABLES
  defined, \* the classes that define the method
  own,     \* does the object called have a function of its own by that name?
  stack,   \* the calls under way, the last one first
  slot,    \* superContext[slotIdx]: classes, empty if there is none
  sound    \* history: no exception has left a call by super() so far, and the
           \* method was not called anew within one

superVars == <<defined, own, stack, slot, sound>>

\* A function of the object itself counts as class 0.
OwnFunction == 0
Absent == Depth + 1

Least(S) == IF S = {} THEN Absent ELSE CHOOSE c \in S : \A d \in S : c <= d

\* The method that a call finds.
Found == IF own THEN OwnFunction ELSE Least(defined)

\* The next definition above a class, those of the object's class not counted.
NextAbove(c) == Least({d \in defined : d > c /\ d > 1})

SuperInit ==
  /\ defined \in {S \in SUBSET (1..Depth) : S # {}}
  /\ own \in BOOLEAN
  /\ stack = <<>> /\ slot = <<>> /\ sound = TRUE

\* "asks" is the class whose method called super(), "had" whether there was a
\* stack of classes by then.
Frame(in, asks, had) == [in |-> in, asks |-> asks, had |-> had]
ByCall == Depth + 2

\* Any code, also that of the method, calls the method of an object of the class.
CallMethod ==
  /\ Len(stack) < MaxCalls
  /\ stack' = <<Frame(Found, ByCall, FALSE)>> \o stack
  /\ sound' = (sound /\ slot = <<>>)
  /\ UNCHANGED <<defined, own, slot>>

FromObject(classes) == 1 \* mutant
StartsAbove(classes) == IF classes # <<>> THEN Head(classes) ELSE 1

\* super(key, args): where no class defines the method nothing is called.
CallSuper ==
  LET next == Least({d \in defined : d > StartsAbove(slot)}) IN
  /\ stack # <<>> /\ Len(stack) < MaxCalls
  /\ next # Absent
  /\ stack' = <<Frame(next, Head(stack).in, slot # <<>>)>> \o stack
  /\ slot' = <<next>> \o slot
  /\ UNCHANGED <<defined, own, sound>>

\* The method returns to super(), or to other code.
Return ==
  /\ stack # <<>>
  /\ stack' = Tail(stack)
  /\ slot' = IF Head(stack).asks = ByCall THEN slot
             ELSE IF Head(stack).had /\ Len(slot) > 1 THEN Tail(slot) ELSE <<>>
  /\ UNCHANGED <<defined, own, sound>>

\* An exception passes the last "n" calls before it is caught.
Throw ==
  \E n \in 1..Len(stack) :
    /\ stack' = SubSeq(stack, n + 1, Len(stack))
    /\ sound' = (sound /\ \A i \in 1..n : stack[i].asks = ByCall)
    /\ UNCHANGED <<defined, own, slot>>

SuperNext == CallMethod \/ CallSuper \/ Return \/ Throw
SuperSpec == SuperInit /\ [][SuperNext]_superVars

-----------------------------------------------------------------------------
(* Properties *)

\* As long as no exception passed super(), and the method was not called anew
\* within super(), a call by super() runs the next definition above that of its
\* caller, for objects whose class defines the method or which do themselves;
\* and the slot is empty when no call is under way.
SuperReachesNext ==
  sound =>
    /\ \A i \in DOMAIN stack :
         (own \/ 1 \in defined) /\ stack[i].asks # ByCall => stack[i].in = NextAbove(stack[i].asks)
    /\ stack = <<>> => slot = <<>>
=============================================================================
