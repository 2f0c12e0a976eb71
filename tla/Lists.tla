-------------------------------- MODULE Lists --------------------------------
(***************************************************************************)
(* Facts about lists that the proofs of several modules rest on: what is   *)
(* in a list, and what is in it after elements were added or taken away;   *)
(* and that sets of numbers have a least element.                          *)
(***************************************************************************)
EXTENDS Integers, SequencesExt, SequenceTheorems, FiniteSetTheorems,
        WellFoundedInduction, TLAPS

-----------------------------------------------------------------------------
(* What is in a list *)

\* Who is in a list stands at one of its places, and conversely.
LEMMA Membership ==
  ASSUME NEW S, NEW s \in Seq(S)
  PROVE  /\ \A e : e \in ToSet(s) <=> \E i \in 1..Len(s) : s[i] = e
         /\ ToSet(s) \subseteq S
         /\ \A e : Contains(s, e) <=> e \in ToSet(s)
         /\ \A i \in 1..Len(s) : s[i] \in ToSet(s)
         /\ s = <<>> <=> ToSet(s) = {}
BY DEF ToSet, Contains

\* Lists of one and of two.
LEMMA ShortLists ==
  ASSUME NEW x, NEW y
  PROVE  /\ Head(<<x>>) = x /\ Tail(<<x>>) = <<>> /\ Append(<<>>, x) = <<x>>
         /\ Head(<<x, y>>) = x /\ Tail(<<x, y>>) = <<y>> /\ Append(<<x>>, y) = <<x, y>>
         /\ <<>> \o <<>> = <<>> /\ <<x>> \o <<>> = <<x>> /\ <<>> \o <<y>> = <<y>>
         /\ <<x>> \o <<y>> = <<x, y>>
<1> DEFINE S == {x, y}
<1>1. /\ Head(<<x>>) = x /\ Tail(<<x>>) = <<>> /\ Append(<<>>, x) = <<x>>
      /\ Head(<<x, y>>) = x /\ Tail(<<x, y>>) = <<y>>
      /\ <<>> \o <<>> = <<>> /\ <<x>> \o <<>> = <<x>> /\ <<>> \o <<y>> = <<y>>
  OBVIOUS
<1>2. /\ <<x>> \in Seq(S) /\ <<y>> \in Seq(S) /\ <<x, y>> \in Seq(S)
      /\ Len(<<x>>) = 1 /\ Len(<<y>>) = 1 /\ Len(<<x, y>>) = 2
      /\ <<x>>[1] = x /\ <<y>>[1] = y /\ <<x, y>>[1] = x /\ <<x, y>>[2] = y
  OBVIOUS
<1>3. <<x>> \o <<y>> = <<x, y>>
  <2>1. /\ <<x>> \o <<y>> \in Seq(S) /\ Len(<<x>> \o <<y>>) = 2
        /\ (<<x>> \o <<y>>)[1] = x /\ (<<x>> \o <<y>>)[2] = y
    BY <1>2, ConcatProperties
  <2>2. \A i \in 1..2 : (<<x>> \o <<y>>)[i] = <<x, y>>[i]
    BY <1>2, <2>1
  <2>3. QED
    BY <1>2, <2>1, <2>2, SeqEqual
<1>4. Append(<<x>>, y) = <<x, y>>
  <2>1. Append(<<x>>, y) = <<x>> \o <<y>>
    BY <1>2, AppendIsConcat
  <2>2. QED
    BY <1>3, <2>1
<1>5. QED
  BY <1>1, <1>3, <1>4

-----------------------------------------------------------------------------
(* Lists that grow and shrink *)

LEMMA Joined ==
  ASSUME NEW S, NEW s \in Seq(S), NEW t \in Seq(S)
  PROVE  /\ s \o t \in Seq(S)
         /\ ToSet(s \o t) = ToSet(s) \cup ToSet(t)
         /\ IsInjective(s) /\ IsInjective(t) /\ ToSet(s) \cap ToSet(t) = {}
              => IsInjective(s \o t)
<1>1. /\ s \o t \in Seq(S)
      /\ Len(s \o t) = Len(s) + Len(t)
      /\ \A i \in 1..Len(s) + Len(t) :
           (s \o t)[i] = IF i <= Len(s) THEN s[i] ELSE t[i - Len(s)]
  BY ConcatProperties
<1>2. Len(s) \in Nat /\ Len(t) \in Nat
  OBVIOUS
<1>3. ToSet(s \o t) = ToSet(s) \cup ToSet(t)
  <2>1. ASSUME NEW e \in ToSet(s \o t)
        PROVE  e \in ToSet(s) \cup ToSet(t)
    <3>1. PICK i \in 1..Len(s) + Len(t) : (s \o t)[i] = e
      BY <1>1, Membership
    <3>2. CASE i <= Len(s)
      BY <1>1, <1>2, <3>1, <3>2, Membership
    <3>3. CASE i > Len(s)
      <4>1. i - Len(s) \in 1..Len(t) /\ t[i - Len(s)] = e
        BY <1>1, <1>2, <3>1, <3>3
      <4>2. QED
        BY <4>1, Membership
    <3>4. QED
      BY <1>2, <3>2, <3>3
  <2>2. ASSUME NEW e \in ToSet(s)
        PROVE  e \in ToSet(s \o t)
    <3>1. PICK i \in 1..Len(s) : s[i] = e
      BY Membership
    <3>2. i \in 1..Len(s \o t) /\ (s \o t)[i] = e
      BY <1>1, <1>2, <3>1
    <3>3. QED
      BY <1>1, <3>2, Membership
  <2>3. ASSUME NEW e \in ToSet(t)
        PROVE  e \in ToSet(s \o t)
    <3>1. PICK i \in 1..Len(t) : t[i] = e
      BY Membership
    <3>2. Len(s) + i \in 1..Len(s \o t) /\ (s \o t)[Len(s) + i] = e
      BY <1>1, <1>2, <3>1
    <3>3. QED
      BY <1>1, <3>2, Membership
  <2>4. QED
    BY <2>1, <2>2, <2>3
<1>4. ASSUME IsInjective(s), IsInjective(t), ToSet(s) \cap ToSet(t) = {}
      PROVE  IsInjective(s \o t)
  <2> SUFFICES ASSUME NEW i \in 1..Len(s) + Len(t), NEW j \in 1..Len(s) + Len(t),
                      (s \o t)[i] = (s \o t)[j]
               PROVE  i = j
    BY <1>1, <1>2 DEF IsInjective
  <2>1. CASE i <= Len(s) /\ j <= Len(s)
    BY <1>1, <1>2, <1>4, <2>1 DEF IsInjective
  <2>2. CASE i > Len(s) /\ j > Len(s)
    <3>1. i - Len(s) \in 1..Len(t) /\ j - Len(s) \in 1..Len(t)
      BY <1>2, <2>2
    <3>2. t[i - Len(s)] = t[j - Len(s)]
      BY <1>1, <1>2, <2>2
    <3>3. i - Len(s) = j - Len(s)
      BY <1>4, <3>1, <3>2 DEF IsInjective
    <3>4. QED
      BY <1>2, <3>3
  <2>3. CASE i <= Len(s) /\ j > Len(s)
    BY <1>1, <1>2, <1>4, <2>3, Membership
  <2>4. CASE i > Len(s) /\ j <= Len(s)
    BY <1>1, <1>2, <1>4, <2>4, Membership
  <2>5. QED
    BY <1>2, <2>1, <2>2, <2>3, <2>4
<1>5. QED
  BY <1>1, <1>3, <1>4

LEMMA Appended ==
  ASSUME NEW S, NEW s \in Seq(S), NEW e \in S
  PROVE  /\ Append(s, e) \in Seq(S)
         /\ Len(Append(s, e)) = Len(s) + 1
         /\ \A i \in 1..Len(s) : Append(s, e)[i] = s[i]
         /\ Append(s, e)[Len(s) + 1] = e
         /\ ToSet(Append(s, e)) = ToSet(s) \cup {e}
         /\ IsInjective(s) /\ e \notin ToSet(s) => IsInjective(Append(s, e))
<1>1. /\ Append(s, e) \in Seq(S)
      /\ Len(Append(s, e)) = Len(s) + 1
      /\ \A i \in 1..Len(s) : Append(s, e)[i] = s[i]
      /\ Append(s, e)[Len(s) + 1] = e
      /\ Append(s, e) = s \o <<e>> /\ <<e>> \in Seq(S)
  OBVIOUS
<1>2. PICK t \in Seq(S) : t = <<e>>
  BY <1>1
<1>3. ToSet(t) = {e} /\ IsInjective(t)
  BY <1>2 DEF ToSet, IsInjective
<1>4. Append(s, e) = s \o t
  BY <1>1, <1>2
<1>5. QED
  BY <1>1, <1>3, <1>4, Joined

LEMMA Shortened ==
  ASSUME NEW S, NEW s \in Seq(S), s # <<>>
  PROVE  /\ Tail(s) \in Seq(S)
         /\ Len(Tail(s)) = Len(s) - 1
         /\ \A i \in 1..Len(s) - 1 : Tail(s)[i] = s[i + 1]
         /\ Head(s) = s[1]
         /\ ToSet(Tail(s)) \subseteq ToSet(s)
         /\ IsInjective(s) => Head(s) \notin ToSet(Tail(s)) /\ IsInjective(Tail(s))
<1>1. /\ Tail(s) \in Seq(S)
      /\ Len(Tail(s)) = Len(s) - 1
      /\ \A i \in 1..Len(s) - 1 : Tail(s)[i] = s[i + 1]
      /\ Head(s) = s[1]
      /\ Len(s) \in Nat \ {0}
  BY HeadTailProperties
<1>2. \A i \in 1..Len(Tail(s)) : i + 1 \in 1..Len(s) /\ i + 1 # 1
  BY <1>1
<1>3. ASSUME NEW e \in ToSet(Tail(s))
      PROVE  \E i \in 1..Len(Tail(s)) : s[i + 1] = e /\ i + 1 \in 1..Len(s) /\ i + 1 # 1
  BY <1>1, <1>2, Membership
<1>4. ToSet(Tail(s)) \subseteq ToSet(s)
  BY <1>3, Membership
<1>5. ASSUME IsInjective(s)
      PROVE  Head(s) \notin ToSet(Tail(s)) /\ IsInjective(Tail(s))
  <2>1. \A i, j \in 1..Len(s) : s[i] = s[j] => i = j
    BY <1>5 DEF IsInjective
  <2>2. 1 \in 1..Len(s)
    BY <1>1
  <2>3. Head(s) \notin ToSet(Tail(s))
    BY <1>1, <1>3, <2>1, <2>2
  <2>4. \A i, j \in 1..Len(Tail(s)) : Tail(s)[i] = Tail(s)[j] => i = j
    BY <1>1, <1>2, <2>1
  <2>5. QED
    BY <1>1, <2>3, <2>4 DEF IsInjective
<1>6. QED
  BY <1>1, <1>4, <1>5

\* A list with an element put in front of it.
LEMMA Prepended ==
  ASSUME NEW S, NEW s \in Seq(S), NEW e \in S
  PROVE  /\ <<e>> \o s \in Seq(S)
         /\ Len(<<e>> \o s) = Len(s) + 1
         /\ (<<e>> \o s)[1] = e
         /\ \A i \in 1..Len(s) : (<<e>> \o s)[i + 1] = s[i]
         /\ Head(<<e>> \o s) = e
         /\ Tail(<<e>> \o s) = s
         /\ ToSet(<<e>> \o s) = {e} \cup ToSet(s)
<1>1. PICK t \in Seq(S) : t = <<e>>
  <2>1. <<e>> \in Seq(S)
    OBVIOUS
  <2>2. QED
    BY <2>1, Zenon
<1>2. Len(t) = 1 /\ t[1] = e /\ ToSet(t) = {e}
  BY <1>1 DEF ToSet
<1>3. /\ t \o s \in Seq(S) /\ Len(t \o s) = Len(t) + Len(s)
      /\ \A i \in 1..Len(t) + Len(s) : (t \o s)[i] = IF i <= Len(t) THEN t[i] ELSE s[i - Len(t)]
  BY ConcatProperties
<1>4. Len(s) \in Nat
  OBVIOUS
<1>5. /\ Len(t \o s) = Len(s) + 1 /\ (t \o s)[1] = e
      /\ \A i \in 1..Len(s) : (t \o s)[i + 1] = s[i]
  BY <1>2, <1>3, <1>4
<1>6. t \o s # <<>>
  BY <1>3, <1>4, <1>5
<1>7. /\ Head(t \o s) = e /\ Tail(t \o s) \in Seq(S) /\ Len(Tail(t \o s)) = Len(s)
      /\ \A i \in 1..Len(s) : Tail(t \o s)[i] = s[i]
  BY <1>3, <1>4, <1>5, <1>6, HeadTailProperties
<1>8. Tail(t \o s) = s
  BY <1>7, SeqEqual
<1>9. ToSet(t \o s) = {e} \cup ToSet(s)
  BY <1>2, Joined
<1>10. QED
  BY <1>1, <1>3, <1>5, <1>7, <1>8, <1>9

\* What is left of a list when one element is removed.
LEMMA OneRemoved ==
  ASSUME NEW S, NEW s \in Seq(S), NEW i \in 1..Len(s)
  PROVE  /\ RemoveAt(s, i) \in Seq(S)
         /\ Len(RemoveAt(s, i)) = Len(s) - 1
         /\ \A j \in 1..Len(s) - 1 : RemoveAt(s, i)[j] = IF j < i THEN s[j] ELSE s[j + 1]
<1> DEFINE a == SubSeq(s, 1, i - 1)
           b == SubSeq(s, i + 1, Len(s))
<1>1. Len(s) \in Nat /\ i \in Int /\ 1 <= i /\ i <= Len(s)
  OBVIOUS
<1>2. /\ a \in Seq(S) /\ Len(a) = i - 1
      /\ \A j \in 1..(i - 1) : a[j] = s[j]
  BY <1>1
<1>3. /\ b \in Seq(S) /\ Len(b) = Len(s) - i
      /\ \A j \in 1..(Len(s) - i) : b[j] = s[j + i]
  BY <1>1
<1>4. RemoveAt(s, i) = a \o b
  BY DEF RemoveAt
<1> HIDE DEF a, b
<1>5. /\ a \o b \in Seq(S) /\ Len(a \o b) = Len(a) + Len(b)
      /\ \A j \in 1..Len(a) + Len(b) : (a \o b)[j] = IF j <= Len(a) THEN a[j] ELSE b[j - Len(a)]
  BY <1>2, <1>3, ConcatProperties
<1>6. ASSUME NEW j \in 1..Len(s) - 1
      PROVE  (a \o b)[j] = IF j < i THEN s[j] ELSE s[j + 1]
  <2>1. CASE j < i
    BY <1>1, <1>2, <1>3, <1>5, <2>1
  <2>2. CASE ~(j < i)
    <3>1. j - (i - 1) \in 1..(Len(s) - i) /\ (a \o b)[j] = b[j - (i - 1)]
      BY <1>1, <1>2, <1>3, <1>5, <2>2
    <3>2. b[j - (i - 1)] = s[j - (i - 1) + i] /\ j - (i - 1) + i = j + 1
      BY <1>1, <1>3, <3>1
    <3>3. QED
      BY <2>2, <3>1, <3>2
  <2>3. QED
    BY <2>1, <2>2
<1>7. QED
  BY <1>1, <1>2, <1>3, <1>4, <1>5, <1>6

\* What is in the first part of a list.
LEMMA FirstPart ==
  ASSUME NEW S, NEW s \in Seq(S), NEW n \in 0..Len(s)
  PROVE  /\ SubSeq(s, 1, n) \in Seq(S)
         /\ Len(SubSeq(s, 1, n)) = n
         /\ \A i \in 1..n : SubSeq(s, 1, n)[i] = s[i]
         /\ ToSet(SubSeq(s, 1, n)) = {s[i] : i \in 1..n}
         /\ ToSet(SubSeq(s, 1, n)) \subseteq ToSet(s)
<1> DEFINE t == SubSeq(s, 1, n)
<1>1. /\ t \in Seq(S) /\ Len(t) = n /\ n \in Nat /\ Len(s) \in Nat /\ n <= Len(s)
      /\ \A i \in 1..n : t[i] = s[i]
  OBVIOUS
<1> HIDE DEF t
<1>2. \A e : e \in ToSet(t) <=> \E i \in 1..n : t[i] = e
  BY <1>1, Membership
<1>3. ToSet(t) = {s[i] : i \in 1..n}
  BY <1>1, <1>2
<1>4. \A i \in 1..n : s[i] \in ToSet(s)
  BY <1>1, Membership
<1>5. QED
  BY <1>1, <1>3, <1>4 DEF t

-----------------------------------------------------------------------------
(* Numbers *)

LessThan == {ss \in Nat \X Nat : ss[1] < ss[2]}

LEMMA BelowWellFounded == IsWellFoundedOn(LessThan, Nat)
BY NatLessThanWellFounded, Zenon DEF OpToRel, LessThan

\* A set of natural numbers that is not empty has a least element.
LEMMA LeastNumber ==
  ASSUME NEW T \in SUBSET Nat, T # {}
  PROVE  \E n \in T : \A m \in T : n <= m
<1>1. \E x \in T : \A y \in T : ~(<<y, x>> \in LessThan)
  BY WFMin, BelowWellFounded
<1>2. \A x, y \in Nat : y < x => <<y, x>> \in LessThan
  BY DEF LessThan
<1>3. PICK x \in T : \A y \in T : ~(<<y, x>> \in LessThan)
  BY <1>1
<1>4. ASSUME NEW y \in T
      PROVE  x <= y
  <2>1. x \in Nat /\ y \in Nat
    OBVIOUS
  <2>2. ~(y < x)
    BY <1>2, <1>3, <2>1, Zenon
  <2>3. QED
    BY <2>1, <2>2
<1>5. QED
  BY <1>4
=============================================================================
