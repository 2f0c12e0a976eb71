--------------------------- MODULE UciCacheProofs ---------------------------
(***************************************************************************)
(* Proofs about UciCache: the notes of a page and the lists of its         *)
(* sections never contradict each other, and an edit shows in what the     *)
(* page tells of the file.                                                 *)
(***************************************************************************)
EXTENDS UciCache, Lists

-----------------------------------------------------------------------------
(* Lists of sections *)

LEMMA PickedFacts ==
  ASSUME NEW S, NEW s \in Seq(S), NEW places \in SUBSET (1..Len(s))
  PROVE  /\ Picked(s, places) \in Seq(S)
         /\ \A e : e \in ToSet(Picked(s, places)) <=> \E i \in places : s[i] = e
         /\ (\A i, j \in places : s[i] = s[j] => i = j) => IsInjective(Picked(s, places))
<1> DEFINE upto(i) == {j \in places : j <= i}
           rank(i) == Cardinality(upto(i))
           c == Cardinality(places)
           nth(n) == CHOOSE i \in places : rank(i) = n
           t == Picked(s, places)
<1>1. Len(s) \in Nat /\ places \subseteq 1..Len(s) /\ \A i \in places : i \in Int
  OBVIOUS
<1>2. IsFiniteSet(places) /\ c \in Nat
  <2>1. IsFiniteSet(1..Len(s))
    BY <1>1, FS_Interval
  <2>2. QED
    BY <1>1, <2>1, FS_Subset, FS_CardinalityType
<1>3. ASSUME NEW i \in places
      PROVE  IsFiniteSet(upto(i)) /\ rank(i) \in 1..c
  <2>1. upto(i) \subseteq places /\ i \in upto(i)
    BY <1>1
  <2>2. IsFiniteSet(upto(i)) /\ rank(i) \in Nat /\ rank(i) <= c
    BY <1>2, <2>1, FS_Subset, FS_CardinalityType
  <2>3. rank(i) # 0
    BY <2>1, <2>2, FS_EmptySet
  <2> HIDE DEF c, rank
  <2>4. QED
    BY <1>2, <2>2, <2>3
<1>4. ASSUME NEW i \in places, NEW j \in places, i < j
      PROVE  rank(i) < rank(j)
  <2>1. upto(i) \subseteq upto(j) /\ upto(i) # upto(j)
    <3>1. j \in upto(j) /\ j \notin upto(i)
      BY <1>1, <1>4
    <3>2. ASSUME NEW k \in places, k <= i PROVE k <= j
      <4>1. i \in Int /\ j \in Int /\ k \in Int
        BY <1>1
      <4>2. QED
        BY <1>4, <3>2, <4>1
    <3>3. upto(i) \subseteq upto(j)
      BY <3>2
    <3>4. QED
      BY <3>1, <3>3
  <2>2. IsFiniteSet(upto(j)) /\ rank(i) \in Nat /\ rank(j) \in Nat
    <3>1. IsFiniteSet(upto(j)) /\ rank(i) \in 1..c /\ rank(j) \in 1..c
      BY <1>3
    <3> HIDE DEF rank, upto, c
    <3>2. QED
      BY <1>2, <3>1
  <2> HIDE DEF upto
  <2>3. rank(i) <= rank(j) /\ rank(i) # rank(j)
    BY <2>1, <2>2, FS_Subset
  <2> HIDE DEF rank
  <2>4. QED
    BY <2>2, <2>3
<1> DEFINE ranks == {rank(i) : i \in places}
<1>5. \A i, j \in places : rank(i) = rank(j) => i = j
  <2> SUFFICES ASSUME NEW i \in places, NEW j \in places, i # j
               PROVE  rank(i) # rank(j)
    OBVIOUS
  <2>1. i < j \/ j < i
    BY <1>1
  <2>2. rank(i) < rank(j) \/ rank(j) < rank(i)
    BY <1>4, <2>1
  <2>3. rank(i) \in 1..c /\ rank(j) \in 1..c
    BY <1>3
  <2> HIDE DEF rank, c
  <2>4. QED
    BY <2>2, <2>3
<1>6. \A n \in 1..c : \E i \in places : rank(i) = n
  <2>1. ranks \subseteq 1..c
    BY <1>3
  <2>2. IsFiniteSet(ranks) /\ Cardinality(ranks) = c
    <3> DEFINE f == [i \in places |-> rank(i)]
    <3> HIDE DEF rank
    <3>1. f \in Bijection(places, ranks)
      BY <1>5 DEF Bijection, Injection, Surjection, IsInjective
    <3>2. ExistsBijection(places, ranks)
      BY <3>1 DEF ExistsBijection
    <3>3. QED
      BY <1>2, <3>2, FS_Bijection
  <2>3. IsFiniteSet(1..c) /\ Cardinality(1..c) = c
    <3> HIDE DEF c
    <3>1. QED
      BY <1>2, FS_Interval
  <2>4. ranks = 1..c
    <3> HIDE DEF c, ranks
    <3>1. QED
      BY <2>1, <2>2, <2>3, FS_Subset
  <2>5. QED
    BY <2>4
<1>7. ASSUME NEW n \in 1..c PROVE nth(n) \in places /\ rank(nth(n)) = n
  BY <1>6
<1>8. t = [n \in 1..c |-> s[nth(n)]]
  BY DEF Picked
<1> HIDE DEF c, rank, nth, t
<1>9. ASSUME NEW n \in 1..c PROVE s[nth(n)] \in S
  <2>1. nth(n) \in 1..Len(s)
    BY <1>7
  <2>2. QED
    BY <2>1, ElementOfSeq
<1>10. t \in Seq(S) /\ Len(t) = c /\ \A n \in 1..c : t[n] = s[nth(n)]
  BY <1>2, <1>8, <1>9
<1>11. \A e : e \in ToSet(t) <=> \E i \in places : s[i] = e
  <2> SUFFICES ASSUME NEW e PROVE e \in ToSet(t) <=> \E i \in places : s[i] = e
    OBVIOUS
  <2>1. ASSUME e \in ToSet(t) PROVE \E i \in places : s[i] = e
    <3>1. PICK n \in 1..c : t[n] = e
      BY <1>10, <2>1, Membership
    <3>2. nth(n) \in places /\ s[nth(n)] = e
      BY <1>7, <1>10, <3>1
    <3>3. QED
      BY <3>2
  <2>2. ASSUME NEW i \in places, s[i] = e PROVE e \in ToSet(t)
    <3>1. rank(i) \in 1..c /\ nth(rank(i)) = i
      BY <1>3, <1>5, <1>7
    <3>2. t[rank(i)] = e
      BY <1>10, <2>2, <3>1
    <3>3. QED
      BY <1>10, <3>1, <3>2, Membership
  <2>3. QED
    BY <2>1, <2>2
<1>12. ASSUME \A i, j \in places : s[i] = s[j] => i = j
       PROVE  IsInjective(t)
  <2>1. ASSUME NEW m \in 1..c, NEW n \in 1..c, t[m] = t[n] PROVE nth(m) = nth(n)
    <3>1. nth(m) \in places /\ nth(n) \in places
      BY <1>7
    <3>2. s[nth(m)] = s[nth(n)]
      BY <1>10, <2>1
    <3>3. QED
      BY <1>12, <3>1, <3>2
  <2>2. \A m, n \in 1..c : t[m] = t[n] => m = n
    BY <1>7, <2>1
  <2>3. DOMAIN t = 1..c
    BY <1>10
  <2>4. QED
    BY <2>2, <2>3 DEF IsInjective
<1>13. QED
  BY <1>10, <1>11, <1>12 DEF t

LEMMA KeptFacts ==
  ASSUME NEW S, NEW s \in Seq(S), NEW T
  PROVE  /\ Kept(s, T) \in Seq(S)
         /\ ToSet(Kept(s, T)) = ToSet(s) \cap T
         /\ IsInjective(s) => IsInjective(Kept(s, T))
<1> DEFINE I == {i \in 1..Len(s) : s[i] \in T}
<1>1. I \in SUBSET (1..Len(s))
  OBVIOUS
<1>2. \A e : e \in ToSet(Kept(s, T)) <=> \E i \in I : s[i] = e
  BY <1>1, PickedFacts DEF Kept
<1>3. \A e : e \in ToSet(s) <=> \E i \in 1..Len(s) : s[i] = e
  BY Membership
<1>4. ToSet(Kept(s, T)) = ToSet(s) \cap T
  <2>1. \A e : e \in ToSet(Kept(s, T)) <=> e \in ToSet(s) \cap T
    BY <1>2, <1>3
  <2>2. QED
    BY <2>1
<1>5. IsInjective(s) => \A i, j \in I : s[i] = s[j] => i = j
  BY <1>1 DEF IsInjective
<1> HIDE DEF I
<1>6. Kept(s, T) = Picked(s, I)
  BY DEF Kept, I
<1>7. QED
  BY <1>1, <1>4, <1>5, <1>6, PickedFacts

LEMMA WithoutFacts ==
  ASSUME NEW S, NEW s \in Seq(S), NEW e
  PROVE  /\ Without(s, e) \in Seq(S)
         /\ ToSet(Without(s, e)) = ToSet(s) \ {e}
         /\ IsInjective(s) => IsInjective(Without(s, e))
<1>1. ToSet(s) \cap (ToSet(s) \ {e}) = ToSet(s) \ {e}
  OBVIOUS
<1>2. QED
  BY <1>1, KeptFacts DEF Without

LEMMA Narrowed ==
  ASSUME NEW S, NEW s \in Seq(S), NEW T, ToSet(s) \subseteq T
  PROVE  s \in Seq(T)
<1>1. \A i \in 1..Len(s) : s[i] \in T
  BY Membership
<1>2. QED
  BY <1>1

LEMMA PlaceFound ==
  ASSUME NEW S, NEW s \in Seq(S), NEW e, e \in ToSet(s)
  PROVE  PlaceIn(s, e) \in 1..Len(s)
<1> DEFINE I == {i \in 1..Len(s) : s[i] = e}
<1>1. I \in SUBSET Nat /\ I # {}
  BY LenProperties, Membership
<1>2. PICK n \in I : \A m \in I : n <= m
  <2> HIDE DEF I
  <2>1. QED
    BY <1>1, LeastNumber
<1>3. Min(I) \in I
  <2>1. \E x \in I : \A y \in I : x <= y
    BY <1>2
  <2> HIDE DEF I
  <2>2. QED
    BY <2>1, Zenon DEF Min
<1>4. PlaceIn(s, e) = Min(I)
  BY <1>1, Zenon DEF PlaceIn, SelectInSeq
<1>5. QED
  BY <1>3, <1>4

LEMMA Inserted ==
  ASSUME NEW S, NEW s \in Seq(S), NEW e \in S, NEW n \in 1..(Len(s) + 1)
  PROVE  /\ InsertAt(s, n, e) \in Seq(S)
         /\ ToSet(InsertAt(s, n, e)) = ToSet(s) \cup {e}
         /\ IsInjective(s) /\ e \notin ToSet(s) => IsInjective(InsertAt(s, n, e))
<1> DEFINE t == InsertAt(s, n, e)
           a == SubSeq(s, 1, n - 1)
           b == SubSeq(s, n, Len(s))
<1>1. Len(s) \in Nat /\ n \in Int /\ 1 <= n /\ n <= Len(s) + 1
  OBVIOUS
<1>2. a \in Seq(S) /\ Len(a) = n - 1 /\ \A i \in 1..(n - 1) : a[i] = s[i]
  BY <1>1
<1>3. b \in Seq(S) /\ Len(b) = Len(s) - n + 1 /\ \A i \in 1..(Len(s) - n + 1) : b[i] = s[i + n - 1]
  BY <1>1
<1>4. t = a \o <<e>> \o b
  BY DEF InsertAt
<1> HIDE DEF a, b, t
<1>5. \A i \in 1..Len(s) : \/ i \in 1..(n - 1)
                          \/ (i - n + 1 \in 1..(Len(s) - n + 1) /\ i = (i - n + 1) + n - 1)
  BY <1>1
<1>6. ToSet(s) = ToSet(a) \cup ToSet(b)
  <2>1. ASSUME NEW x PROVE x \in ToSet(s) <=> x \in ToSet(a) \/ x \in ToSet(b)
    <3>1. ASSUME x \in ToSet(s) PROVE x \in ToSet(a) \/ x \in ToSet(b)
      <4>1. PICK i \in 1..Len(s) : s[i] = x
        BY <3>1, Membership
      <4>2. CASE i \in 1..(n - 1)
        BY <1>2, <4>1, <4>2, Membership
      <4>3. CASE i - n + 1 \in 1..(Len(s) - n + 1) /\ i = (i - n + 1) + n - 1
        <5>1. b[i - n + 1] = x
          BY <1>3, <4>1, <4>3
        <5>2. QED
          BY <1>3, <4>3, <5>1, Membership
      <4>4. QED
        BY <1>5, <4>2, <4>3
    <3>2. ASSUME x \in ToSet(a) PROVE x \in ToSet(s)
      <4>1. PICK i \in 1..(n - 1) : s[i] = x
        BY <1>2, <3>2, Membership
      <4>2. i \in 1..Len(s)
        BY <1>1
      <4>3. QED
        BY <4>1, <4>2, Membership
    <3>3. ASSUME x \in ToSet(b) PROVE x \in ToSet(s)
      <4>1. PICK i \in 1..(Len(s) - n + 1) : s[i + n - 1] = x
        BY <1>3, <3>3, Membership
      <4>2. i + n - 1 \in 1..Len(s)
        BY <1>1
      <4>3. QED
        BY <4>1, <4>2, Membership
    <3>4. QED
      BY <3>1, <3>2, <3>3
  <2>2. QED
    BY <2>1
<1>7. ASSUME IsInjective(s)
      PROVE  IsInjective(a) /\ IsInjective(b) /\ ToSet(a) \cap ToSet(b) = {}
  <2>1. \A i, j \in 1..Len(s) : s[i] = s[j] => i = j
    BY <1>7 DEF IsInjective
  <2>2. DOMAIN a = 1..(n - 1) /\ DOMAIN b = 1..(Len(s) - n + 1)
    BY <1>2, <1>3
  <2>3. ASSUME NEW i \in 1..(n - 1), NEW j \in 1..(n - 1), a[i] = a[j] PROVE i = j
    BY <1>1, <1>2, <2>1, <2>3
  <2>4. ASSUME NEW i \in 1..(Len(s) - n + 1), NEW j \in 1..(Len(s) - n + 1), b[i] = b[j] PROVE i = j
    <3>1. /\ i + n - 1 \in 1..Len(s) /\ j + n - 1 \in 1..Len(s)
          /\ s[i + n - 1] = s[j + n - 1]
      BY <1>1, <1>3, <2>4
    <3>2. i + n - 1 = j + n - 1
      BY <2>1, <3>1
    <3>3. QED
      BY <1>1, <3>2
  <2>5. ASSUME NEW i \in 1..(n - 1), NEW j \in 1..(Len(s) - n + 1) PROVE a[i] # b[j]
    <3>1. i \in 1..Len(s) /\ j + n - 1 \in 1..Len(s) /\ i # j + n - 1
      BY <1>1
    <3>2. s[i] # s[j + n - 1]
      BY <2>1, <3>1
    <3>3. QED
      BY <1>2, <1>3, <3>2
  <2>6. ToSet(a) \cap ToSet(b) = {}
    <3>1. ASSUME NEW x, x \in ToSet(a), x \in ToSet(b) PROVE FALSE
      <4>1. PICK i \in 1..(n - 1) : a[i] = x
        BY <1>2, <3>1, Membership
      <4>2. PICK j \in 1..(Len(s) - n + 1) : b[j] = x
        BY <1>3, <3>1, Membership
      <4>3. QED
        BY <2>5, <4>1, <4>2
    <3>2. QED
      BY <3>1
  <2>7. QED
    BY <2>2, <2>3, <2>4, <2>6 DEF IsInjective
<1>8. PICK one \in Seq(S) : one = <<e>>
  <2>1. <<e>> \in Seq(S)
    OBVIOUS
  <2>2. QED
    BY <2>1
<1>9. ToSet(one) = {e} /\ IsInjective(one)
  BY <1>8 DEF ToSet, IsInjective
<1>10. /\ a \o one \in Seq(S)
       /\ ToSet(a \o one) = ToSet(a) \cup {e}
       /\ IsInjective(a) /\ e \notin ToSet(a) => IsInjective(a \o one)
  <2>1. e \notin ToSet(a) => ToSet(a) \cap ToSet(one) = {}
    BY <1>9
  <2>2. QED
    BY <1>2, <1>9, <2>1, Joined
<1>11. t = (a \o one) \o b
  BY <1>4, <1>8
<1>12. /\ t \in Seq(S)
       /\ ToSet(t) = ToSet(a \o one) \cup ToSet(b)
       /\ IsInjective(a \o one) /\ IsInjective(b) /\ ToSet(a \o one) \cap ToSet(b) = {} => IsInjective(t)
  <2>1. PICK u \in Seq(S) : u = a \o one
    BY <1>10
  <2>2. t = u \o b
    BY <1>11, <2>1
  <2>3. QED
    BY <1>3, <2>1, <2>2, Joined
<1>13. ASSUME IsInjective(s), e \notin ToSet(s) PROVE IsInjective(t)
  <2>1. IsInjective(a) /\ IsInjective(b) /\ ToSet(a) \cap ToSet(b) = {}
    BY <1>7, <1>13
  <2>2. IsInjective(a \o one) /\ ToSet(a \o one) \cap ToSet(b) = {}
    BY <1>6, <1>10, <1>13, <2>1
  <2>3. QED
    BY <1>12, <2>1, <2>2
<1>14. QED
  BY <1>6, <1>10, <1>12, <1>13 DEF t

-----------------------------------------------------------------------------
(* Files *)

\* A file lists stored sections, each once, and has options of these only.
FileOK(f) ==
  /\ f \in Files
  /\ IsInjective(f.secs)
  /\ ToSet(f.secs) \subseteq Stored
  /\ \A s \in Sids \ ToSet(f.secs) : f.opts[s] = Blank

LEMMA BlankType == Blank \in Sections
BY DEF Blank, Sections

LEMMA MergeType ==
  ASSUME NEW old \in Sections, NEW new \in Sections
  PROVE  Merge(old, new) \in Sections
BY DEF Merge, Sections

LEMMA HasFacts ==
  ASSUME NEW f \in Files, NEW s
  PROVE  Has(f, s) <=> s \in ToSet(f.secs)
<1>1. f.secs \in Seq(Sids)
  BY DEF Files
<1>2. QED
  BY <1>1, Membership DEF Has

\* A file is what its two parts are.
LEMMA FileParts ==
  ASSUME NEW secs \in Seq(Sids), NEW opts \in [Sids -> Sections],
         IsInjective(secs), ToSet(secs) \subseteq Stored,
         \A s \in Sids \ ToSet(secs) : opts[s] = Blank
  PROVE  FileOK([secs |-> secs, opts |-> opts])
BY DEF FileOK, Files

LEMMA EmptyOK == FileOK(Empty)
<1>1. <<>> \in Seq(Sids) /\ IsInjective(<<>>) /\ ToSet(<<>>) = {}
  BY DEF IsInjective, ToSet
<1>2. [s \in Sids |-> Blank] \in [Sids -> Sections]
  BY BlankType
<1>3. \A s \in Sids : [t \in Sids |-> Blank][s] = Blank
  OBVIOUS
<1>4. QED
  BY <1>1, <1>2, <1>3, FileParts DEF Empty

LEMMA SetInOK ==
  ASSUME NEW f, FileOK(f), NEW sid \in Sids, NEW new \in Sections
  PROVE  FileOK(SetIn(f, sid, new))
<1>1. /\ f \in Files /\ f.secs \in Seq(Sids) /\ f.opts \in [Sids -> Sections]
      /\ f = [secs |-> f.secs, opts |-> f.opts]
  BY DEF FileOK, Files
<1>2. CASE ~Has(f, sid)
  BY <1>2 DEF SetIn
<1>3. CASE Has(f, sid)
  <2> DEFINE opts == [f.opts EXCEPT ![sid] = Merge(f.opts[sid], new)]
  <2>1. SetIn(f, sid, new) = [secs |-> f.secs, opts |-> opts]
    BY <1>1, <1>3 DEF SetIn
  <2>2. opts \in [Sids -> Sections] /\ \A s \in Sids \ {sid} : opts[s] = f.opts[s]
    BY <1>1, MergeType
  <2>3. sid \in ToSet(f.secs)
    BY <1>1, <1>3, HasFacts
  <2> HIDE DEF opts
  <2>4. \A s \in Sids \ ToSet(f.secs) : opts[s] = Blank
    BY <2>2, <2>3 DEF FileOK
  <2>5. QED
    BY <1>1, <2>1, <2>2, <2>4, FileParts DEF FileOK
<1>4. QED
  BY <1>2, <1>3

LEMMA UnsetInOK ==
  ASSUME NEW f, FileOK(f), NEW sid \in Sids, NEW gone
  PROVE  FileOK(UnsetIn(f, sid, gone))
<1>1. /\ f \in Files /\ f.secs \in Seq(Sids) /\ f.opts \in [Sids -> Sections]
      /\ f = [secs |-> f.secs, opts |-> f.opts]
  BY DEF FileOK, Files
<1> DEFINE new == [o \in Options |-> IF o \in gone THEN None ELSE f.opts[sid][o]]
           opts == [f.opts EXCEPT ![sid] = new]
<1>2. UnsetIn(f, sid, gone) = [secs |-> f.secs, opts |-> opts]
  BY <1>1 DEF UnsetIn
<1>3. new \in Sections /\ (f.opts[sid] = Blank => new = Blank)
  <2>1. f.opts[sid] \in Sections
    BY <1>1
  <2>2. QED
    BY <2>1 DEF Sections, Blank
<1> HIDE DEF new
<1>4. opts \in [Sids -> Sections] /\ opts[sid] = new /\ \A s \in Sids \ {sid} : opts[s] = f.opts[s]
  BY <1>1, <1>3
<1> HIDE DEF opts
<1>5. \A s \in Sids \ ToSet(f.secs) : opts[s] = Blank
  BY <1>3, <1>4 DEF FileOK
<1>6. QED
  BY <1>1, <1>2, <1>4, <1>5, FileParts DEF FileOK

LEMMA AddToOK ==
  ASSUME NEW f, FileOK(f), NEW sid \in Stored, NEW new \in Sections
  PROVE  FileOK(AddTo(f, sid, new))
<1>1. /\ f \in Files /\ f.secs \in Seq(Sids) /\ f.opts \in [Sids -> Sections] /\ sid \in Sids
  BY DEF FileOK, Files, Sids
<1>2. CASE Has(f, sid)
  BY <1>1, <1>2, SetInOK DEF AddTo
<1>3. CASE ~Has(f, sid)
  <2> DEFINE opts == [f.opts EXCEPT ![sid] = new]
             secs == Append(f.secs, sid)
  <2>1. AddTo(f, sid, new) = [secs |-> secs, opts |-> opts]
    BY <1>3 DEF AddTo
  <2>2. opts \in [Sids -> Sections] /\ \A s \in Sids \ {sid} : opts[s] = f.opts[s]
    BY <1>1
  <2>3. sid \notin ToSet(f.secs)
    BY <1>1, <1>3, HasFacts
  <2>4. /\ secs \in Seq(Sids) /\ IsInjective(secs)
        /\ ToSet(secs) = ToSet(f.secs) \cup {sid}
    BY <1>1, <2>3, Appended DEF FileOK
  <2> HIDE DEF opts, secs
  <2>5. \A s \in Sids \ ToSet(secs) : opts[s] = Blank
    BY <2>2, <2>4 DEF FileOK
  <2>6. ToSet(secs) \subseteq Stored
    BY <2>4 DEF FileOK
  <2>7. QED
    BY <2>1, <2>2, <2>4, <2>5, <2>6, FileParts
<1>4. QED
  BY <1>2, <1>3

LEMMA DropFromOK ==
  ASSUME NEW f, FileOK(f), NEW sid \in Sids
  PROVE  FileOK(DropFrom(f, sid))
<1>1. /\ f.secs \in Seq(Sids) /\ f.opts \in [Sids -> Sections]
  BY DEF FileOK, Files
<1> DEFINE opts == [f.opts EXCEPT ![sid] = Blank]
           secs == Without(f.secs, sid)
<1>2. DropFrom(f, sid) = [secs |-> secs, opts |-> opts]
  BY DEF DropFrom
<1>3. /\ opts \in [Sids -> Sections] /\ opts[sid] = Blank
      /\ \A s \in Sids \ {sid} : opts[s] = f.opts[s]
  BY <1>1, BlankType
<1>4. /\ secs \in Seq(Sids) /\ IsInjective(secs)
      /\ ToSet(secs) = ToSet(f.secs) \ {sid}
  BY <1>1, WithoutFacts DEF FileOK
<1> HIDE DEF opts, secs
<1>5. \A s \in Sids \ ToSet(secs) : opts[s] = Blank
  BY <1>3, <1>4 DEF FileOK
<1>6. ToSet(secs) \subseteq Stored
  BY <1>4 DEF FileOK
<1>7. QED
  BY <1>2, <1>3, <1>4, <1>5, <1>6, FileParts

\* In a new order a file has the sections it had.
LEMMA OrderInOK ==
  ASSUME NEW f, FileOK(f), NEW names \in Seq(Names)
  PROVE  FileOK(OrderIn(f, names)) /\ ToSet(OrderIn(f, names).secs) = ToSet(f.secs)
<1>1. /\ f \in Files /\ f.secs \in Seq(Sids) /\ f.opts \in [Sids -> Sections]
      /\ f = [secs |-> f.secs, opts |-> f.opts]
  BY DEF FileOK, Files
<1> DEFINE known == {i \in 1..Len(names) : /\ Has(f, names[i])
                                           /\ \A j \in (i + 1)..Len(names) : names[j] # names[i]}
           first == Picked(names, known)
           others == Kept(f.secs, ToSet(f.secs) \ ToSet(names))
           secs == first \o others
<1>2. OrderIn(f, names) = [secs |-> secs, opts |-> f.opts]
  <2>1. OrderIn(f, names) = [f EXCEPT !.secs = secs]
    BY Zenon DEF OrderIn
  <2> HIDE DEF secs
  <2>2. QED
    BY <1>1, <2>1
<1>3. known \in SUBSET (1..Len(names)) /\ \A i \in known : names[i] \in ToSet(f.secs)
  <2>1. \A s : Has(f, s) <=> s \in ToSet(f.secs)
    BY <1>1, HasFacts
  <2>2. QED
    BY <2>1
<1>4. \A i, j \in known : names[i] = names[j] => i = j
  <2> SUFFICES ASSUME NEW i \in known, NEW j \in known, i < j PROVE names[i] # names[j]
    BY <1>3
  <2>1. j \in (i + 1)..Len(names)
    BY <1>3
  <2>2. QED
    BY <2>1
<1> HIDE DEF known
<1>5. /\ first \in Seq(Names) /\ IsInjective(first)
      /\ \A e : e \in ToSet(first) <=> \E i \in known : names[i] = e
  BY <1>3, <1>4, PickedFacts
<1>6. ToSet(first) = ToSet(f.secs) \cap ToSet(names)
  <2>1. ASSUME NEW e, e \in ToSet(first) PROVE e \in ToSet(f.secs) \cap ToSet(names)
    <3>1. PICK i \in known : names[i] = e
      BY <1>5, <2>1
    <3>2. i \in 1..Len(names)
      BY <1>3
    <3>3. QED
      BY <1>3, <3>1, <3>2, Membership
  <2>2. ASSUME NEW e \in ToSet(f.secs), e \in ToSet(names) PROVE e \in ToSet(first)
    <3> DEFINE at == {Len(names) - i : i \in {j \in 1..Len(names) : names[j] = e}}
    <3>1. PICK k \in 1..Len(names) : names[k] = e
      BY <2>2, Membership
    <3>2. at \in SUBSET Nat /\ at # {}
      BY <3>1
    <3>3. PICK m \in at : \A n \in at : m <= n
      <4> HIDE DEF at
      <4>1. QED
        BY <3>2, LeastNumber
    <3>4. PICK i \in 1..Len(names) : names[i] = e /\ m = Len(names) - i
      BY <3>3
    <3>5. ASSUME NEW j \in (i + 1)..Len(names), names[j] = e PROVE FALSE
      <4>1. j \in 1..Len(names) /\ Len(names) - j \in at
        BY <3>5
      <4>2. Len(names) - i <= Len(names) - j
        BY <3>3, <3>4, <4>1
      <4>3. QED
        BY <3>5, <4>1, <4>2
    <3>6. i \in known
      BY <1>1, <2>2, <3>4, <3>5, HasFacts DEF known
    <3>7. QED
      BY <1>5, <3>4, <3>6
  <2>3. QED
    BY <2>1, <2>2
<1>7. first \in Seq(Sids)
  <2>1. ToSet(first) \subseteq Sids
    BY <1>1, <1>6, Membership
  <2>2. QED
    BY <1>5, <2>1, Narrowed
<1>8. /\ others \in Seq(Sids) /\ IsInjective(others)
      /\ ToSet(others) = ToSet(f.secs) \ ToSet(names)
  BY <1>1, KeptFacts DEF FileOK
<1> HIDE DEF first, others
<1>9. secs \in Seq(Sids) /\ IsInjective(secs) /\ ToSet(secs) = ToSet(f.secs)
  <2>1. ToSet(first) \cap ToSet(others) = {} /\ ToSet(first) \cup ToSet(others) = ToSet(f.secs)
    BY <1>6, <1>8
  <2>2. /\ secs \in Seq(Sids) /\ ToSet(secs) = ToSet(first) \cup ToSet(others)
        /\ IsInjective(first) /\ IsInjective(others) /\ ToSet(first) \cap ToSet(others) = {}
             => IsInjective(secs)
    BY <1>7, <1>8, Joined
  <2>3. QED
    BY <1>5, <1>8, <2>1, <2>2
<1> HIDE DEF secs
<1>10. QED
  BY <1>1, <1>2, <1>9, FileParts DEF FileOK

-----------------------------------------------------------------------------
(* The page: what each edit makes of its parts *)

LEMMA PageParts ==
  ASSUME NEW p \in Pages
  PROVE  /\ p.loaded \in BOOLEAN /\ p.touched \in BOOLEAN /\ p.reorder \in BOOLEAN
         /\ p.base \in Files /\ p.base.secs \in Seq(Sids) /\ p.base.opts \in [Sids -> Sections]
         /\ p.fresh \in Seq(Named \cup Temps) /\ p.order \in Seq(Sids)
         /\ p.creates \in [Sids -> Sections] /\ p.names \in [Sids -> Names]
         /\ p.changes \in [Sids -> Sections] /\ p.deletes \in [Sids -> SUBSET Options]
         /\ p.removed \subseteq Stored
BY DEF Pages, Files

LEMMA FreshFacts ==
  ASSUME NEW p \in Pages, NEW s
  PROVE  /\ Fresh(p, s) <=> s \in ToSet(p.fresh)
         /\ Contains(p.order, s) <=> s \in ToSet(p.order)
         /\ Has(p.base, s) <=> s \in ToSet(p.base.secs)
<1>1. p.fresh \in Seq(Named \cup Temps) /\ p.order \in Seq(Sids) /\ p.base \in Files
  BY PageParts
<1>2. Fresh(p, s) <=> s \in ToSet(p.fresh)
  BY <1>1, Membership DEF Fresh
<1>3. Contains(p.order, s) <=> s \in ToSet(p.order)
  BY <1>1, Membership
<1>4. QED
  BY <1>1, <1>2, <1>3, HasFacts

\* q is p after the option was set, and after it was taken back.
OptionSet(p, q, sid, o, v) ==
  /\ q \in Pages
  /\ q.loaded = p.loaded /\ q.base = p.base /\ q.fresh = p.fresh
  /\ q.order = p.order /\ q.removed = p.removed
  /\ \A s \in Sids \ {sid} : /\ q.creates[s] = p.creates[s] /\ q.changes[s] = p.changes[s]
                             /\ q.deletes[s] = p.deletes[s]
  /\ Fresh(p, sid) => /\ q.creates[sid] = [p.creates[sid] EXCEPT ![o] = v]
                      /\ q.changes = p.changes /\ q.deletes = p.deletes
  /\ ~Fresh(p, sid) => q.creates = p.creates
  /\ ~Fresh(p, sid) /\ (sid \in p.removed \/ ~Has(p.base, sid))
       => q.changes = p.changes /\ q.deletes = p.deletes
  /\ ~Fresh(p, sid) /\ ~(sid \in p.removed \/ ~Has(p.base, sid))
       => /\ q.changes[sid] = [p.changes[sid] EXCEPT ![o] = v]
          /\ q.deletes[sid] = p.deletes[sid] \ {o}

Unsettable(p, sid, o) ==
  /\ sid \notin p.removed
  /\ p.base.opts[sid][o] # None \/ p.changes[sid][o] # None

OptionUnset(p, q, sid, o) ==
  /\ q \in Pages
  /\ q.loaded = p.loaded /\ q.base = p.base /\ q.fresh = p.fresh
  /\ q.order = p.order /\ q.removed = p.removed /\ q.changes = p.changes
  /\ \A s \in Sids \ {sid} : q.creates[s] = p.creates[s] /\ q.deletes[s] = p.deletes[s]
  /\ Fresh(p, sid) => /\ q.creates[sid] = [p.creates[sid] EXCEPT ![o] = None]
                      /\ q.deletes = p.deletes
  /\ ~Fresh(p, sid) => q.creates = p.creates
  /\ ~Unsettable(p, sid, o) => q.deletes = p.deletes
  /\ ~Fresh(p, sid) /\ Unsettable(p, sid, o) => q.deletes[sid] = p.deletes[sid] \cup {o}

LEMMA SetOptionParts ==
  ASSUME NEW p \in Pages, NEW sid \in Sids, NEW o \in Options, NEW v \in Values
  PROVE  OptionSet(p, SetOption(p, sid, o, v), sid, o, v)
<1>1. /\ p.creates \in [Sids -> Sections] /\ p.changes \in [Sids -> Sections]
      /\ p.deletes \in [Sids -> SUBSET Options]
  BY PageParts
<1>2. /\ [p.creates[sid] EXCEPT ![o] = v] \in Sections
      /\ [p.changes[sid] EXCEPT ![o] = v] \in Sections
      /\ p.deletes[sid] \ {o} \in SUBSET Options
  BY <1>1 DEF Sections
<1>3. CASE Fresh(p, sid)
  <2> DEFINE creates == [p.creates EXCEPT ![sid] = [p.creates[sid] EXCEPT ![o] = v]]
             q == [p EXCEPT !.creates = creates]
  <2>1. SetOption(p, sid, o, v) = q
    BY <1>3 DEF SetOption, Pages
  <2>2. /\ creates \in [Sids -> Sections] /\ creates[sid] = [p.creates[sid] EXCEPT ![o] = v]
        /\ \A s \in Sids \ {sid} : creates[s] = p.creates[s]
    BY <1>1, <1>2
  <2> HIDE DEF creates
  <2>3. q \in Pages
    BY <2>2 DEF Pages
  <2>4. /\ q.loaded = p.loaded /\ q.base = p.base /\ q.fresh = p.fresh
        /\ q.order = p.order /\ q.removed = p.removed /\ q.creates = creates
        /\ q.changes = p.changes /\ q.deletes = p.deletes
    BY DEF Pages
  <2> HIDE DEF q
  <2>5. OptionSet(p, q, sid, o, v)
    BY <1>3, <2>2, <2>3, <2>4 DEF OptionSet
  <2>6. QED
    BY <2>1, <2>5
<1>4. CASE ~Fresh(p, sid) /\ (sid \in p.removed \/ ~Has(p.base, sid))
  <2>1. SetOption(p, sid, o, v) = p
    BY <1>4 DEF SetOption
  <2>2. OptionSet(p, p, sid, o, v)
    BY <1>4 DEF OptionSet
  <2>3. QED
    BY <2>1, <2>2
<1>5. CASE ~Fresh(p, sid) /\ ~(sid \in p.removed \/ ~Has(p.base, sid))
  <2> DEFINE changes == [p.changes EXCEPT ![sid] = [p.changes[sid] EXCEPT ![o] = v]]
             deletes == [p.deletes EXCEPT ![sid] = p.deletes[sid] \ {o}]
             q == [p EXCEPT !.changes = changes, !.deletes = deletes, !.touched = TRUE]
  <2>1. SetOption(p, sid, o, v) = q
    BY <1>5 DEF SetOption, Undelete, Pages
  <2>2. /\ changes \in [Sids -> Sections] /\ changes[sid] = [p.changes[sid] EXCEPT ![o] = v]
        /\ \A s \in Sids \ {sid} : changes[s] = p.changes[s]
    BY <1>1, <1>2
  <2>3. /\ deletes \in [Sids -> SUBSET Options] /\ deletes[sid] = p.deletes[sid] \ {o}
        /\ \A s \in Sids \ {sid} : deletes[s] = p.deletes[s]
    BY <1>1, <1>2
  <2> HIDE DEF changes, deletes
  <2>4. q \in Pages
    BY <2>2, <2>3 DEF Pages
  <2>5. /\ q.loaded = p.loaded /\ q.base = p.base /\ q.fresh = p.fresh
        /\ q.order = p.order /\ q.removed = p.removed /\ q.creates = p.creates
        /\ q.changes = changes /\ q.deletes = deletes
    BY DEF Pages
  <2> HIDE DEF q
  <2>6. OptionSet(p, q, sid, o, v)
    BY <1>5, <2>2, <2>3, <2>4, <2>5 DEF OptionSet
  <2>7. QED
    BY <2>1, <2>6
<1>6. QED
  BY <1>3, <1>4, <1>5

LEMMA UnsetOptionParts ==
  ASSUME NEW p \in Pages, NEW sid \in Sids, NEW o \in Options
  PROVE  OptionUnset(p, UnsetOption(p, sid, o), sid, o)
<1>1. p.creates \in [Sids -> Sections] /\ p.deletes \in [Sids -> SUBSET Options]
  BY PageParts
<1>2. /\ [p.creates[sid] EXCEPT ![o] = None] \in Sections
      /\ p.deletes[sid] \cup {o} \in SUBSET Options
  BY <1>1 DEF Sections
<1>3. CASE Fresh(p, sid)
  <2> DEFINE creates == [p.creates EXCEPT ![sid] = [p.creates[sid] EXCEPT ![o] = None]]
             q == [p EXCEPT !.creates = creates]
  <2>1. UnsetOption(p, sid, o) = q
    BY <1>3 DEF UnsetOption, Pages
  <2>2. /\ creates \in [Sids -> Sections] /\ creates[sid] = [p.creates[sid] EXCEPT ![o] = None]
        /\ \A s \in Sids \ {sid} : creates[s] = p.creates[s]
    BY <1>1, <1>2
  <2> HIDE DEF creates
  <2>3. q \in Pages
    BY <2>2 DEF Pages
  <2>4. /\ q.loaded = p.loaded /\ q.base = p.base /\ q.fresh = p.fresh
        /\ q.order = p.order /\ q.removed = p.removed /\ q.creates = creates
        /\ q.changes = p.changes /\ q.deletes = p.deletes
    BY DEF Pages
  <2> HIDE DEF q
  <2>5. OptionUnset(p, q, sid, o)
    BY <1>3, <2>2, <2>3, <2>4 DEF OptionUnset
  <2>6. QED
    BY <2>1, <2>5
<1>4. CASE ~Fresh(p, sid) /\ ~Unsettable(p, sid, o)
  <2>1. UnsetOption(p, sid, o) = p
    BY <1>4 DEF UnsetOption, Unsettable
  <2>2. OptionUnset(p, p, sid, o)
    BY <1>4 DEF OptionUnset
  <2>3. QED
    BY <2>1, <2>2
<1>5. CASE ~Fresh(p, sid) /\ Unsettable(p, sid, o)
  <2> DEFINE deletes == [p.deletes EXCEPT ![sid] = p.deletes[sid] \cup {o}]
             q == [p EXCEPT !.deletes = deletes, !.touched = TRUE]
  <2>1. UnsetOption(p, sid, o) = q
    BY <1>5 DEF UnsetOption, Unsettable, Pages
  <2>2. /\ deletes \in [Sids -> SUBSET Options] /\ deletes[sid] = p.deletes[sid] \cup {o}
        /\ \A s \in Sids \ {sid} : deletes[s] = p.deletes[s]
    BY <1>1, <1>2
  <2> HIDE DEF deletes
  <2>3. q \in Pages
    BY <2>2 DEF Pages
  <2>4. /\ q.loaded = p.loaded /\ q.base = p.base /\ q.fresh = p.fresh
        /\ q.order = p.order /\ q.removed = p.removed /\ q.creates = p.creates
        /\ q.changes = p.changes /\ q.deletes = deletes
    BY DEF Pages
  <2> HIDE DEF q
  <2>5. OptionUnset(p, q, sid, o)
    BY <1>5, <2>2, <2>3, <2>4 DEF OptionUnset
  <2>6. QED
    BY <2>1, <2>5
<1>6. QED
  BY <1>3, <1>4, <1>5

LEMMA AddSectionParts ==
  ASSUME NEW p \in Pages, NEW sid \in Named \cup Temps
  PROVE  LET q == AddSection(p, sid) IN
         /\ q \in Pages
         /\ q.loaded = p.loaded /\ q.base = p.base /\ q.removed = p.removed
         /\ q.fresh = Append(p.fresh, sid) /\ q.order = Append(p.order, sid)
         /\ q.changes = p.changes /\ q.deletes = p.deletes
         /\ q.creates[sid] = Blank /\ \A s \in Sids \ {sid} : q.creates[s] = p.creates[s]
<1>1. /\ p.creates \in [Sids -> Sections] /\ p.names \in [Sids -> Names] /\ sid \in Sids
      /\ p.fresh \in Seq(Named \cup Temps) /\ p.order \in Seq(Sids)
  BY PageParts DEF Sids, Stored
<1> DEFINE fresh == Append(p.fresh, sid)
           order == Append(p.order, sid)
           creates == [p.creates EXCEPT ![sid] = Blank]
           q == [p EXCEPT !.fresh = fresh, !.creates = creates, !.order = order,
                          !.names = [p.names EXCEPT ![sid] = sid], !.touched = TRUE]
<1>2. /\ fresh \in Seq(Named \cup Temps) /\ order \in Seq(Sids)
  BY <1>1, Appended
<1>3. /\ creates \in [Sids -> Sections] /\ [p.names EXCEPT ![sid] = sid] \in [Sids -> Names]
      /\ creates[sid] = Blank /\ \A s \in Sids \ {sid} : creates[s] = p.creates[s]
  BY <1>1, BlankType DEF Names
<1>4. AddSection(p, sid) = q
  BY DEF AddSection, Pages
<1> HIDE DEF fresh, order, creates
<1>5. q \in Pages
  BY <1>2, <1>3 DEF Pages
<1>6. /\ q.loaded = p.loaded /\ q.base = p.base /\ q.removed = p.removed
      /\ q.fresh = fresh /\ q.order = order /\ q.creates = creates
      /\ q.changes = p.changes /\ q.deletes = p.deletes
  BY DEF Pages
<1> HIDE DEF q
<1>7. QED
  BY <1>3, <1>4, <1>5, <1>6 DEF fresh, order

LEMMA RemoveSectionParts ==
  ASSUME NEW p \in Pages, NEW sid \in Sids,
         Has(p.base, sid) => sid \in Stored
  PROVE  LET q == RemoveSection(p, sid) IN
         /\ q \in Pages
         /\ q.loaded = p.loaded /\ q.base = p.base
         /\ \A s \in Sids \ {sid} : /\ q.creates[s] = p.creates[s] /\ q.changes[s] = p.changes[s]
                                    /\ q.deletes[s] = p.deletes[s]
         /\ IF Fresh(p, sid)
            THEN /\ q.fresh = Without(p.fresh, sid) /\ q.order = Without(p.order, sid)
                 /\ q.changes = p.changes /\ q.deletes = p.deletes /\ q.removed = p.removed
            ELSE IF ~Has(p.base, sid) THEN q = p
            ELSE /\ q.fresh = p.fresh /\ q.order = Without(p.order, sid)
                 /\ q.changes[sid] = Blank /\ q.deletes[sid] = {}
                 /\ q.removed = p.removed \cup {sid}
<1>1. /\ p.creates \in [Sids -> Sections] /\ p.names \in [Sids -> Names]
      /\ p.changes \in [Sids -> Sections] /\ p.deletes \in [Sids -> SUBSET Options]
      /\ p.fresh \in Seq(Named \cup Temps) /\ p.order \in Seq(Sids) /\ p.removed \subseteq Stored
  BY PageParts
<1> DEFINE fresh == Without(p.fresh, sid)
           order == Without(p.order, sid)
<1>2. fresh \in Seq(Named \cup Temps) /\ order \in Seq(Sids)
  BY <1>1, WithoutFacts
<1>3. CASE Fresh(p, sid)
  <2> DEFINE creates == [p.creates EXCEPT ![sid] = Blank]
             q == [p EXCEPT !.fresh = fresh, !.creates = creates,
                            !.names = [p.names EXCEPT ![sid] = sid], !.order = order]
  <2>1. RemoveSection(p, sid) = q
    BY <1>3 DEF RemoveSection, Pages
  <2>2. /\ creates \in [Sids -> Sections] /\ [p.names EXCEPT ![sid] = sid] \in [Sids -> Names]
        /\ \A s \in Sids \ {sid} : creates[s] = p.creates[s]
    BY <1>1, BlankType DEF Names
  <2> HIDE DEF fresh, order, creates
  <2>3. q \in Pages
    BY <1>2, <2>2 DEF Pages
  <2>4. /\ q.loaded = p.loaded /\ q.base = p.base /\ q.removed = p.removed
        /\ q.fresh = fresh /\ q.order = order /\ q.creates = creates
        /\ q.changes = p.changes /\ q.deletes = p.deletes
    BY DEF Pages
  <2> HIDE DEF q
  <2>5. QED
    BY <1>3, <2>1, <2>2, <2>3, <2>4 DEF fresh, order
<1>4. CASE ~Fresh(p, sid) /\ ~Has(p.base, sid)
  BY <1>4 DEF RemoveSection
<1>5. CASE ~Fresh(p, sid) /\ Has(p.base, sid)
  <2> DEFINE changes == [p.changes EXCEPT ![sid] = Blank]
             deletes == [p.deletes EXCEPT ![sid] = {}]
             q == [p EXCEPT !.changes = changes, !.deletes = deletes,
                            !.removed = p.removed \cup {sid}, !.order = order, !.touched = TRUE]
  <2>1. RemoveSection(p, sid) = q
    BY <1>5 DEF RemoveSection, ChangesLeft, Pages
  <2>2. /\ changes \in [Sids -> Sections] /\ deletes \in [Sids -> SUBSET Options]
        /\ changes[sid] = Blank /\ deletes[sid] = {}
        /\ \A s \in Sids \ {sid} : changes[s] = p.changes[s] /\ deletes[s] = p.deletes[s]
    BY <1>1, BlankType
  <2> HIDE DEF fresh, order, changes, deletes
  <2>3. q \in Pages
    BY <1>1, <1>2, <1>5, <2>2 DEF Pages
  <2>4. /\ q.loaded = p.loaded /\ q.base = p.base /\ q.removed = p.removed \cup {sid}
        /\ q.fresh = p.fresh /\ q.order = order /\ q.creates = p.creates
        /\ q.changes = changes /\ q.deletes = deletes
    BY DEF Pages
  <2> HIDE DEF q
  <2>5. QED
    BY <1>5, <2>1, <2>2, <2>3, <2>4 DEF order
<1>6. QED
  BY <1>3, <1>4, <1>5

\* A section is put in another place among the same ones.
LEMMA MoveSectionParts ==
  ASSUME NEW p \in Pages, NEW sid \in Sids, NEW ref \in Sids \cup {None}, NEW after \in BOOLEAN,
         Contains(p.order, sid), ref # sid, ref # None => Contains(p.order, ref)
  PROVE  LET q == MoveSection(p, sid, ref, after) IN
         /\ q \in Pages
         /\ q.loaded = p.loaded /\ q.base = p.base /\ q.fresh = p.fresh /\ q.removed = p.removed
         /\ q.changes = p.changes /\ q.deletes = p.deletes
         /\ ToSet(q.order) = ToSet(p.order) /\ (IsInjective(p.order) => IsInjective(q.order))
<1> DEFINE rest == Without(p.order, sid)
           order == Placed(p.order, sid, ref, after)
           q == [p EXCEPT !.order = order, !.reorder = TRUE]
<1>1. p.order \in Seq(Sids) /\ sid \in ToSet(p.order)
  BY PageParts, FreshFacts
<1>2. /\ rest \in Seq(Sids) /\ ToSet(rest) = ToSet(p.order) \ {sid}
      /\ IsInjective(p.order) => IsInjective(rest)
  BY <1>1, WithoutFacts
<1> HIDE DEF rest
<1>3. /\ order \in Seq(Sids) /\ ToSet(order) = ToSet(p.order)
      /\ IsInjective(p.order) => IsInjective(order)
  <2>1. CASE ref = None
    <3>1. order = Append(rest, sid)
      BY <2>1, Zenon DEF Placed, rest
    <3> HIDE DEF order
    <3>2. /\ Append(rest, sid) \in Seq(Sids)
          /\ ToSet(Append(rest, sid)) = ToSet(rest) \cup {sid}
          /\ IsInjective(rest) => IsInjective(Append(rest, sid))
      BY <1>2, Appended
    <3>3. QED
      BY <1>1, <1>2, <3>1, <3>2
  <2>2. CASE ref # None
    <3>1. ref \in ToSet(rest)
      BY <1>2, <2>2, FreshFacts
    <3>3. PICK i \in 1..Len(rest) : PlaceIn(rest, ref) = i
      BY <1>2, <3>1, PlaceFound
    <3>4. order = InsertAt(rest, IF after THEN PlaceIn(rest, ref) + 1 ELSE PlaceIn(rest, ref), sid)
      BY <2>2, Zenon DEF Placed, rest
    <3>5. PICK n \in 1..(Len(rest) + 1) : n = IF after THEN i + 1 ELSE i
      <4>1. Len(rest) \in Nat
        BY <1>2, LenProperties
      <4>2. QED
        BY <4>1
    <3> HIDE DEF order
    <3>6. order = InsertAt(rest, n, sid)
      BY <3>3, <3>4, <3>5
    <3>7. /\ InsertAt(rest, n, sid) \in Seq(Sids)
          /\ ToSet(InsertAt(rest, n, sid)) = ToSet(rest) \cup {sid}
          /\ IsInjective(rest) => IsInjective(InsertAt(rest, n, sid))
      BY <1>2, Inserted
    <3>8. QED
      BY <1>1, <1>2, <3>6, <3>7
  <2>3. QED
    BY <2>1, <2>2
<1> HIDE DEF order
<1>4. q \in Pages
  BY <1>3 DEF Pages
<1>5. /\ q.loaded = p.loaded /\ q.base = p.base /\ q.fresh = p.fresh /\ q.removed = p.removed
      /\ q.changes = p.changes /\ q.deletes = p.deletes /\ q.order = order
  BY DEF Pages
<1>6. MoveSection(p, sid, ref, after) = q
  BY DEF MoveSection, order
<1> HIDE DEF q
<1>7. QED
  BY <1>3, <1>4, <1>5, <1>6

LEMMA UnloadedOK == Unloaded \in Pages
<1>1. /\ [s \in Sids |-> Blank] \in [Sids -> Sections] /\ [s \in Sids |-> s] \in [Sids -> Names]
      /\ [s \in Sids |-> {}] \in [Sids -> SUBSET Options]
  BY BlankType DEF Names
<1>2. Empty \in Files /\ <<>> \in Seq(Sids) /\ <<>> \in Seq(Named \cup Temps)
  BY EmptyOK DEF FileOK
<1>3. QED
  BY <1>1, <1>2 DEF Unloaded, Pages

LEMMA UnloadParts ==
  ASSUME NEW p \in Pages
  PROVE  LET q == Unload(p) IN
         /\ q \in Pages
         /\ q.loaded = FALSE /\ q.base = Empty /\ q.fresh = <<>> /\ q.order = <<>>
         /\ q.removed = {} /\ q.changes = [s \in Sids |-> Blank] /\ q.deletes = [s \in Sids |-> {}]
<1>1. p.reorder \in BOOLEAN
  BY PageParts
<1>2. Unload(p) \in Pages
  BY <1>1, UnloadedOK DEF Unload, Pages
<1>3. QED
  BY <1>2 DEF Unload, Unloaded

LEMMA InstallParts ==
  ASSUME NEW p \in Pages, NEW file, FileOK(file)
  PROVE  LET q == Install(p, file) IN
         /\ q \in Pages
         /\ q.loaded = TRUE /\ q.base = file /\ q.fresh = p.fresh /\ q.removed = p.removed
         /\ q.changes = p.changes /\ q.deletes = p.deletes
         /\ ToSet(q.order) = (ToSet(file.secs) \ p.removed) \cup ToSet(p.fresh)
         /\ /\ IsInjective(p.fresh)
            /\ (ToSet(file.secs) \ p.removed) \cap ToSet(p.fresh) = {}
            => IsInjective(q.order)
<1>1. /\ file \in Files /\ file.secs \in Seq(Sids) /\ IsInjective(file.secs)
      /\ ToSet(file.secs) \subseteq Sids
  BY Membership DEF FileOK, Files
<1> DEFINE listed == Kept(file.secs, Sids \ p.removed)
           order == listed \o p.fresh
           q == [p EXCEPT !.loaded = TRUE, !.base = file, !.order = order]
<1>2. /\ listed \in Seq(Sids) /\ IsInjective(listed)
      /\ ToSet(listed) = ToSet(file.secs) \cap (Sids \ p.removed)
  BY <1>1, KeptFacts
<1>3. ToSet(listed) = ToSet(file.secs) \ p.removed
  BY <1>1, <1>2
<1>4. p.fresh \in Seq(Sids)
  <2>1. p.fresh \in Seq(Named \cup Temps) /\ Named \cup Temps \subseteq Sids
    BY PageParts DEF Sids, Stored
  <2>2. ToSet(p.fresh) \subseteq Sids
    BY <2>1, Membership
  <2>3. QED
    BY <2>1, <2>2, Narrowed
<1> HIDE DEF listed
<1>5. /\ order \in Seq(Sids) /\ ToSet(order) = ToSet(listed) \cup ToSet(p.fresh)
      /\ IsInjective(listed) /\ IsInjective(p.fresh) /\ ToSet(listed) \cap ToSet(p.fresh) = {}
           => IsInjective(order)
  BY <1>2, <1>4, Joined
<1>6. Install(p, file) = q
  BY DEF Install, listed
<1> HIDE DEF order
<1>7. q \in Pages
  BY <1>1, <1>5 DEF Pages
<1>8. /\ q.loaded = TRUE /\ q.base = file /\ q.fresh = p.fresh /\ q.removed = p.removed
      /\ q.changes = p.changes /\ q.deletes = p.deletes /\ q.order = order
  BY DEF Pages
<1> HIDE DEF q
<1>9. QED
  BY <1>2, <1>3, <1>5, <1>6, <1>7, <1>8

-----------------------------------------------------------------------------
(* Saves *)

LEMMA SetAsList ==
  ASSUME NEW S, IsFiniteSet(S)
  PROVE  SetToSeq(S) \in Seq(S) /\ ToSet(SetToSeq(S)) \subseteq S
<1>1. PICK f \in [1..Cardinality(S) -> S] : IsInjective(f)
  BY FS_CardinalityType DEF ExistsBijection, Bijection, Injection
<1>2. SetToSeq(S) \in [1..Cardinality(S) -> S]
  BY <1>1, Zenon DEF SetToSeq
<1>3. Cardinality(S) \in Nat
  BY FS_CardinalityType
<1>4. SetToSeq(S) \in Seq(S)
  BY <1>2, <1>3
<1>5. QED
  BY <1>4, Membership

LEMMA SetCallsMade ==
  ASSUME NEW p \in Pages
  PROVE  /\ SetCalls(p) \in Seq(CallRecords)
         /\ \A i \in 1..Len(SetCalls(p)) : SetCalls(p)[i].op # "add"
<1> DEFINE T == {t \in Stored : p.changes[t] # Blank}
           S == {Call("set", s, p.changes[s], {}) : s \in T}
           f == [s \in T |-> Call("set", s, p.changes[s], {})]
<1>1. IsFiniteSet(Stored) /\ T \subseteq Stored
  BY FiniteAssumption, FS_Union DEF Stored
<1>2. IsFiniteSet(T)
  <2> HIDE DEF T
  <2>1. QED
    BY <1>1, FS_Subset
<1>3. f \in Surjection(T, S)
  BY DEF Surjection
<1>4. S \subseteq CallRecords
  <2> SUFFICES ASSUME NEW s \in T PROVE Call("set", s, p.changes[s], {}) \in CallRecords
    OBVIOUS
  <2>1. s \in Sids /\ p.changes[s] \in Sections
    BY PageParts DEF Sids
  <2>2. QED
    BY <2>1 DEF Call, CallRecords
<1>5. IsFiniteSet(S)
  <2> HIDE DEF S, T, f
  <2>1. QED
    BY <1>2, <1>3, FS_Surjection
<1>6. SetCalls(p) = SetToSeq(S)
  BY DEF SetCalls
<1> HIDE DEF S
<1>7. SetCalls(p) \in Seq(S)
  BY <1>5, <1>6, SetAsList
<1>8. \A c \in S : c.op # "add"
  BY DEF S, Call
<1>9. \A i \in 1..Len(SetCalls(p)) : SetCalls(p)[i] \in S
  BY <1>7, ElementOfSeq
<1>10. QED
  BY <1>4, <1>7, <1>8, <1>9

LEMMA DeleteCallsMade ==
  ASSUME NEW p \in Pages
  PROVE  /\ DeleteCalls(p) \in Seq(CallRecords)
         /\ \A i \in 1..Len(DeleteCalls(p)) : DeleteCalls(p)[i].op # "add"
<1> DEFINE T == {t \in Stored : p.deletes[t] # {}}
           U == {Call("unset", s, Blank, p.deletes[s]) : s \in T}
           D == {Call("drop", s, Blank, {}) : s \in p.removed}
           f == [s \in T |-> Call("unset", s, Blank, p.deletes[s])]
           g == [s \in p.removed |-> Call("drop", s, Blank, {})]
<1>1. IsFiniteSet(Stored) /\ T \subseteq Stored /\ p.removed \subseteq Stored
  <2>1. IsFiniteSet(Stored)
    BY FiniteAssumption, FS_Union DEF Stored
  <2>2. QED
    BY <2>1, PageParts
<1>2. IsFiniteSet(T) /\ IsFiniteSet(p.removed)
  <2> HIDE DEF T
  <2>1. QED
    BY <1>1, FS_Subset
<1>3. f \in Surjection(T, U) /\ g \in Surjection(p.removed, D)
  BY DEF Surjection
<1>4. U \subseteq CallRecords
  <2> SUFFICES ASSUME NEW s \in T PROVE Call("unset", s, Blank, p.deletes[s]) \in CallRecords
    OBVIOUS
  <2>1. s \in Sids /\ p.deletes[s] \in SUBSET Options
    BY PageParts DEF Sids
  <2>2. QED
    BY <2>1, BlankType DEF Call, CallRecords
<1>5. D \subseteq CallRecords
  <2> SUFFICES ASSUME NEW s \in p.removed PROVE Call("drop", s, Blank, {}) \in CallRecords
    OBVIOUS
  <2>1. s \in Sids
    BY <1>1 DEF Sids
  <2>2. QED
    BY <2>1, BlankType DEF Call, CallRecords
<1>6. IsFiniteSet(U) /\ IsFiniteSet(D)
  <2> HIDE DEF U, D, T, f, g
  <2>1. QED
    BY <1>2, <1>3, FS_Surjection
<1>7. DeleteCalls(p) = SetToSeq(D \cup U)
  BY DEF DeleteCalls
<1> HIDE DEF U, D
<1>8. DeleteCalls(p) \in Seq(D \cup U)
  <2>1. IsFiniteSet(D \cup U)
    BY <1>6, FS_Union
  <2>2. QED
    BY <1>7, <2>1, SetAsList
<1>9. \A c \in D \cup U : c.op # "add"
  BY DEF D, U, Call
<1>10. \A i \in 1..Len(DeleteCalls(p)) : DeleteCalls(p)[i] \in D \cup U
  BY <1>8, ElementOfSeq
<1>11. QED
  BY <1>4, <1>5, <1>8, <1>9, <1>10

LEMMA AddCallsMade ==
  ASSUME NEW p \in Pages
  PROVE  /\ AddCalls(p) \in Seq(CallRecords) /\ Len(AddCalls(p)) = Len(p.fresh)
         /\ \A i \in 1..Len(p.fresh) : AddCalls(p)[i].sid = p.fresh[i]
<1>1. p.fresh \in Seq(Named \cup Temps) /\ Len(p.fresh) \in Nat
  BY PageParts, LenProperties
<1>2. ASSUME NEW i \in 1..Len(p.fresh)
      PROVE  Call("add", p.fresh[i], p.creates[p.fresh[i]], {}) \in CallRecords
  <2>1. p.fresh[i] \in Sids
    BY <1>1, ElementOfSeq DEF Sids, Stored
  <2>2. p.creates[p.fresh[i]] \in Sections
    BY <2>1, PageParts
  <2>3. QED
    BY <2>1, <2>2 DEF Call, CallRecords
<1>3. AddCalls(p) \in Seq(CallRecords) /\ Len(AddCalls(p)) = Len(p.fresh)
  BY <1>1, <1>2 DEF AddCalls
<1>4. ASSUME NEW i \in 1..Len(p.fresh) PROVE AddCalls(p)[i].sid = p.fresh[i]
  <2>1. AddCalls(p)[i] = Call("add", p.fresh[i], p.creates[p.fresh[i]], {})
    BY DEF AddCalls
  <2>2. QED
    BY <2>1 DEF Call
<1>5. QED
  BY <1>3, <1>4

\* A save makes a call for each section it is to create, and once.
AddsDiffer(calls) ==
  \A i, j \in 1..Len(calls) :
    calls[i].op = "add" /\ calls[j].op = "add" /\ calls[i].sid = calls[j].sid => i = j

LEMMA CallsMade ==
  ASSUME NEW p \in Pages
  PROVE  /\ Calls(p) \in Seq(CallRecords)
         /\ Len(Calls(p)) \in Nat
         /\ Len(p.fresh) <= Len(Calls(p))
         /\ \A i \in 1..Len(Calls(p)) :
              Calls(p)[i].op = "add" => Calls(p)[i].sid \in ToSet(p.fresh)
         /\ IsInjective(p.fresh) => AddsDiffer(Calls(p))
<1>1. PICK d \in Seq(CallRecords) : d = DeleteCalls(p)
  BY DeleteCallsMade
<1>2. PICK a \in Seq(CallRecords) : a = AddCalls(p)
  BY AddCallsMade
<1>3. PICK c \in Seq(CallRecords) : c = SetCalls(p)
  BY SetCallsMade
<1>4. Calls(p) = d \o a \o c
  BY <1>1, <1>2, <1>3 DEF Calls
<1>5. /\ d \o a \o c \in Seq(CallRecords)
      /\ Len(d \o a \o c) = Len(d) + Len(a) + Len(c)
      /\ Len(d) \in Nat /\ Len(a) \in Nat /\ Len(c) \in Nat
  OBVIOUS
<1>6. Len(a) = Len(p.fresh) /\ \A i \in 1..Len(p.fresh) : a[i].sid = p.fresh[i]
  BY <1>2, AddCallsMade
<1>7. PICK all : all = d \o a \o c
  OBVIOUS
<1>8. /\ all \in Seq(CallRecords) /\ Len(all) = Len(d) + Len(a) + Len(c)
      /\ \A i \in 1..Len(d) : all[i] = d[i]
      /\ \A i \in 1..Len(c) : all[i + Len(d) + Len(a)] = c[i]
      /\ \A i \in 1..Len(a) : all[i + Len(d)] = a[i]
  BY <1>5, <1>7
<1>9. ASSUME NEW i \in 1..Len(all), all[i].op = "add"
      PROVE  i - Len(d) \in 1..Len(p.fresh) /\ all[i].sid = p.fresh[i - Len(d)]
  <2>1. \A j \in 1..Len(d) : d[j].op # "add"
    BY <1>1, DeleteCallsMade
  <2>2. \A j \in 1..Len(c) : c[j].op # "add"
    BY <1>3, SetCallsMade
  <2>3. \/ i \in 1..Len(d)
        \/ i - Len(d) \in 1..Len(a)
        \/ i - Len(d) - Len(a) \in 1..Len(c)
    BY <1>5, <1>8
  <2>4. i \notin 1..Len(d)
    BY <1>8, <1>9, <2>1
  <2>5. i - Len(d) - Len(a) \notin 1..Len(c)
    <3>1. ASSUME NEW j \in 1..Len(c), j = i - Len(d) - Len(a) PROVE FALSE
      <4>1. all[j + Len(d) + Len(a)] = c[j] /\ j + Len(d) + Len(a) = i
        BY <1>5, <1>8, <3>1
      <4>2. QED
        BY <1>9, <2>2, <4>1
    <3>2. QED
      BY <3>1
  <2>6. PICK j \in 1..Len(a) : j = i - Len(d)
    BY <2>3, <2>4, <2>5
  <2>7. all[j + Len(d)] = a[j] /\ j + Len(d) = i
    <3>1. i \in Int /\ j \in Int /\ Len(d) \in Int
      BY <1>5, <1>8
    <3>2. j + Len(d) = i
      BY <2>6, <3>1
    <3>3. all[j + Len(d)] = a[j]
      BY <1>8
    <3>4. QED
      BY <3>2, <3>3
  <2>8. QED
    BY <1>6, <2>6, <2>7
<1>10. \A i \in 1..Len(all) : all[i].op = "add" => all[i].sid \in ToSet(p.fresh)
  BY <1>9, PageParts, Membership
<1>11. ASSUME IsInjective(p.fresh) PROVE AddsDiffer(all)
  <2>1. ASSUME NEW i \in 1..Len(all), NEW j \in 1..Len(all),
               all[i].op = "add", all[j].op = "add", all[i].sid = all[j].sid
        PROVE  i = j
    <3>1. /\ i - Len(d) \in 1..Len(p.fresh) /\ j - Len(d) \in 1..Len(p.fresh)
          /\ p.fresh[i - Len(d)] = p.fresh[j - Len(d)]
      BY <1>9, <2>1
    <3>2. i - Len(d) = j - Len(d)
      <4>1. \A m, n \in 1..Len(p.fresh) : p.fresh[m] = p.fresh[n] => m = n
        <5>1. DOMAIN p.fresh = 1..Len(p.fresh)
          BY PageParts, LenProperties
        <5>2. QED
          BY <1>11, <5>1 DEF IsInjective
      <4>2. QED
        BY <3>1, <4>1
    <3>3. QED
      BY <1>5, <3>2
  <2>2. QED
    BY <2>1 DEF AddsDiffer
<1>12. Calls(p) = all
  BY <1>4, <1>7
<1>13. QED
  BY <1>5, <1>6, <1>8, <1>10, <1>11, <1>12

LEMMA SaveParts ==
  ASSUME NEW s \in SaveRecords
  PROVE  /\ s.pc \in Steps /\ s.calls \in Seq(CallRecords) /\ s.replies \in Seq(Names)
         /\ s.snew \in Seq(Named \cup Temps) /\ s.dirty \in BOOLEAN /\ s.names \in Seq(Names)
         /\ s.file \in Files /\ s.want \in Files /\ s.clean \in BOOLEAN /\ s.plain \in BOOLEAN
BY DEF SaveRecords

LEMMA IdleOK == Idle \in SaveRecords
<1>1. Empty \in Files
  BY EmptyOK DEF FileOK
<1>2. <<>> \in Seq(CallRecords) /\ <<>> \in Seq(Names) /\ <<>> \in Seq(Named \cup Temps)
  OBVIOUS
<1>3. QED
  BY <1>1, <1>2 DEF Idle, SaveRecords, Steps

LEMMA SpoilParts ==
  ASSUME NEW s \in SaveRecords
  PROVE  /\ Spoil(s) \in SaveRecords
         /\ Spoil(s).pc = s.pc /\ Spoil(s).calls = s.calls /\ Spoil(s).replies = s.replies
         /\ Spoil(s).snew = s.snew /\ Spoil(s).file = s.file /\ Spoil(s).dirty = s.dirty
<1>1. Empty \in Files
  BY EmptyOK DEF FileOK
<1>2. QED
  BY <1>1 DEF Spoil, SaveRecords

LEMMA ViewType ==
  ASSUME NEW p \in Pages
  PROVE  View(p) \in Files
<1>1. ASSUME NEW s \in Sids, NEW o \in Options PROVE Get(p, s, o) \in Values \cup {None}
  <2>1. /\ p.creates[s] \in Sections /\ p.base.opts[s] \in Sections /\ p.changes[s] \in Sections
    BY PageParts
  <2>2. Merge(p.base.opts[s], p.changes[s]) \in Sections
    BY <2>1, MergeType
  <2>3. QED
    BY <2>1, <2>2 DEF Get, Sections
<1>2. [s \in Sids |-> [o \in Options |-> Get(p, s, o)]] \in [Sids -> Sections]
  BY <1>1 DEF Sections
<1>3. p.order \in Seq(Sids)
  BY PageParts
<1>4. QED
  BY <1>2, <1>3 DEF View, Files

\* The page has the same sections and notes.
SameNotes(p, q) ==
  /\ q.loaded = p.loaded /\ q.base = p.base /\ q.fresh = p.fresh /\ q.order = p.order
  /\ q.removed = p.removed /\ q.changes = p.changes /\ q.deletes = p.deletes
  /\ q.touched = p.touched

\* The page has no sections and no notes.
Forgotten(q) ==
  /\ q.loaded = FALSE /\ q.base = Empty /\ q.fresh = <<>> /\ q.order = <<>>
  /\ q.removed = {} /\ q.changes = [s \in Sids |-> Blank] /\ q.deletes = [s \in Sids |-> {}]

LEMMA RenamedParts ==
  ASSUME NEW p \in Pages, NEW s \in SaveRecords, Len(s.snew) <= Len(s.replies)
  PROVE  Renamed(p, s) \in Pages /\ SameNotes(p, Renamed(p, s))
<1>1. /\ s.snew \in Seq(Named \cup Temps) /\ s.replies \in Seq(Names) /\ p.names \in [Sids -> Names]
      /\ Len(s.snew) \in Nat /\ Len(s.replies) \in Nat
  BY SaveParts, PageParts, LenProperties
<1> DEFINE names == [sid \in Sids |->
                       IF Fresh(p, sid) /\ Contains(s.snew, sid)
                       THEN s.replies[PlaceIn(s.snew, sid)]
                       ELSE p.names[sid]]
           q == [p EXCEPT !.names = names]
<1>2. ASSUME NEW sid \in Sids, Contains(s.snew, sid)
      PROVE  PlaceIn(s.snew, sid) \in 1..Len(s.snew)
  BY <1>1, <1>2, Membership, PlaceFound
<1>3. ASSUME NEW sid \in Sids, Contains(s.snew, sid)
      PROVE  s.replies[PlaceIn(s.snew, sid)] \in Names
  <2>1. PICK n \in 1..Len(s.replies) : n = PlaceIn(s.snew, sid)
    BY <1>1, <1>2, <1>3
  <2>2. s.replies[n] \in Names
    BY <1>1, ElementOfSeq
  <2>3. QED
    BY <2>1, <2>2
<1>4. names \in [Sids -> Names]
  BY <1>1, <1>3
<1>5. Renamed(p, s) = q
  BY DEF Renamed, Pages
<1> HIDE DEF names
<1>6. QED
  BY <1>4, <1>5 DEF Pages, SameNotes

LEMMA NamesListed ==
  ASSUME NEW p \in Pages
  PROVE  NamesInOrder(p) \in Seq(Names)
<1>1. p.order \in Seq(Sids) /\ Len(p.order) \in Nat /\ p.names \in [Sids -> Names]
  BY PageParts, LenProperties
<1>2. \A i \in 1..Len(p.order) : p.names[p.order[i]] \in Names
  BY <1>1, ElementOfSeq
<1>3. QED
  BY <1>1, <1>2 DEF NamesInOrder

LEMMA ReloadStep ==
  ASSUME save \in [Slots -> SaveRecords], NEW k \in Slots, NEW s \in SaveRecords, NEW p \in Pages,
         Reload(k, s, p)
  PROVE  /\ page' \in Pages /\ save' \in [Slots -> SaveRecords]
         /\ \A j \in Slots \ {k} : save'[j] = save[j]
         /\ \/ SameNotes(p, page') /\ save'[k] = Idle /\ ~s.dirty
            \/ Forgotten(page') /\ save'[k] = [s EXCEPT !.pc = "load"] /\ s.dirty
<1>1. CASE s.dirty
  <2>1. [s EXCEPT !.pc = "load"] \in SaveRecords
    BY DEF SaveRecords, Steps
  <2>2. page' = Unload(p) /\ save' = [save EXCEPT ![k] = [s EXCEPT !.pc = "load"]]
    BY <1>1 DEF Reload
  <2>3. Unload(p) \in Pages /\ Forgotten(Unload(p))
    BY UnloadParts DEF Forgotten
  <2>4. QED
    BY <1>1, <2>1, <2>2, <2>3
<1>2. CASE ~s.dirty
  BY <1>2, IdleOK DEF Reload, SameNotes
<1>3. QED
  BY <1>1, <1>2

\* What becomes of a save that Continue carries on.
Ends(k, s, p) ==
  \/ SameNotes(p, page') /\ save'[k] = Idle /\ ~s.dirty
  \/ SameNotes(p, page') /\ save'[k] = [s EXCEPT !.pc = "order", !.names = NamesInOrder(p)]
  \/ Forgotten(page') /\ save'[k] = [s EXCEPT !.pc = "load"] /\ s.dirty

LEMMA ContinueStep ==
  ASSUME save \in [Slots -> SaveRecords], NEW k \in Slots, NEW s \in SaveRecords, NEW p \in Pages,
         Continue(k, s, p)
  PROVE  /\ page' \in Pages /\ save' \in [Slots -> SaveRecords]
         /\ \A j \in Slots \ {k} : save'[j] = save[j]
         /\ Ends(k, s, p)
<1> DEFINE q == [p EXCEPT !.reorder = FALSE]
<1>1. q \in Pages /\ SameNotes(p, q)
  BY DEF Pages, SameNotes
<1>2. CASE Reload(k, s, q)
  <2> HIDE DEF q
  <2>1. /\ page' \in Pages /\ save' \in [Slots -> SaveRecords]
        /\ \A j \in Slots \ {k} : save'[j] = save[j]
        /\ \/ SameNotes(q, page') /\ save'[k] = Idle /\ ~s.dirty
           \/ Forgotten(page') /\ save'[k] = [s EXCEPT !.pc = "load"] /\ s.dirty
    BY <1>1, <1>2, ReloadStep
  <2>2. QED
    BY <1>1, <2>1 DEF SameNotes, Ends
<1>3. CASE page' = q /\ save' = [save EXCEPT ![k] = [s EXCEPT !.pc = "order", !.names = NamesInOrder(p)]]
  <2>1. [s EXCEPT !.pc = "order", !.names = NamesInOrder(p)] \in SaveRecords
    BY NamesListed DEF SaveRecords, Steps
  <2> HIDE DEF q
  <2>2. QED
    BY <1>1, <1>3, <2>1 DEF Ends
<1>4. QED
  BY <1>2, <1>3 DEF Continue

-----------------------------------------------------------------------------
(* Notes *)

\* The page lists what it loaded and did not remove, and what it created; a
\* section it created anew was removed before; there are no other notes on what
\* was removed or not loaded.
NotesOK(p) ==
  /\ IsInjective(p.order) /\ IsInjective(p.fresh)
  /\ ToSet(p.order) = (ToSet(p.base.secs) \ p.removed) \cup ToSet(p.fresh)
  /\ ToSet(p.fresh) \cap ToSet(p.base.secs) \subseteq p.removed
  /\ \A s \in Sids : s \in p.removed \/ s \notin ToSet(p.base.secs)
                       => p.changes[s] = Blank /\ p.deletes[s] = {}
  /\ ~p.loaded => p.base = Empty /\ p.removed = {} /\ ToSet(p.fresh) \subseteq Temps

LEMMA NotesStay ==
  ASSUME NEW p, NEW q, NotesOK(p), SameNotes(p, q)
  PROVE  NotesOK(q)
BY DEF NotesOK, SameNotes

LEMMA NoNotes ==
  ASSUME NEW q, Forgotten(q)
  PROVE  NotesOK(q)
<1>1. IsInjective(<<>>) /\ ToSet(<<>>) = {}
  BY DEF IsInjective, ToSet
<1>2. ToSet(Empty.secs) = {}
  BY <1>1 DEF Empty
<1>3. QED
  BY <1>1, <1>2 DEF NotesOK, Forgotten

LEMMA SetOptionNotes ==
  ASSUME NEW p \in Pages, NotesOK(p), NEW sid \in Sids, NEW o \in Options, NEW v \in Values
  PROVE  NotesOK(SetOption(p, sid, o, v))
<1>1. PICK q : q = SetOption(p, sid, o, v)
  OBVIOUS
<1>2. /\ q.loaded = p.loaded /\ q.base = p.base /\ q.fresh = p.fresh
      /\ q.order = p.order /\ q.removed = p.removed
      /\ \A s \in Sids \ {sid} : q.changes[s] = p.changes[s] /\ q.deletes[s] = p.deletes[s]
      /\ sid \in p.removed \/ ~Has(p.base, sid)
           => q.changes = p.changes /\ q.deletes = p.deletes
  <2>1. OptionSet(p, q, sid, o, v)
    BY <1>1, SetOptionParts
  <2>2. QED
    BY <2>1 DEF OptionSet
<1>3. Has(p.base, sid) <=> sid \in ToSet(p.base.secs)
  BY FreshFacts
<1>4. ASSUME NEW s \in Sids, s \in q.removed \/ s \notin ToSet(q.base.secs)
      PROVE  q.changes[s] = Blank /\ q.deletes[s] = {}
  <2>1. p.changes[s] = Blank /\ p.deletes[s] = {}
    BY <1>2, <1>4 DEF NotesOK
  <2>2. CASE s = sid
    BY <1>2, <1>3, <1>4, <2>1, <2>2
  <2>3. CASE s # sid
    BY <1>2, <2>1, <2>3
  <2>4. QED
    BY <2>2, <2>3
<1>5. QED
  BY <1>1, <1>2, <1>4 DEF NotesOK

LEMMA UnsetOptionNotes ==
  ASSUME NEW p \in Pages, FileOK(p.base), NotesOK(p), NEW sid \in Sids, NEW o \in Options
  PROVE  NotesOK(UnsetOption(p, sid, o))
<1>1. PICK q : q = UnsetOption(p, sid, o)
  OBVIOUS
<1>2. /\ q.loaded = p.loaded /\ q.base = p.base /\ q.fresh = p.fresh
      /\ q.order = p.order /\ q.removed = p.removed /\ q.changes = p.changes
      /\ \A s \in Sids \ {sid} : q.deletes[s] = p.deletes[s]
      /\ \/ sid \in p.removed
         \/ p.base.opts[sid][o] = None /\ p.changes[sid][o] = None
         => q.deletes = p.deletes
  <2>1. OptionUnset(p, q, sid, o)
    BY <1>1, UnsetOptionParts
  <2>2. QED
    BY <2>1 DEF OptionUnset, Unsettable
<1>3. sid \notin ToSet(p.base.secs) => p.base.opts[sid] = Blank /\ p.changes[sid] = Blank
  BY DEF FileOK, NotesOK
<1>4. Blank[o] = None
  BY DEF Blank
<1>5. ASSUME NEW s \in Sids, s \in q.removed \/ s \notin ToSet(q.base.secs)
      PROVE  q.changes[s] = Blank /\ q.deletes[s] = {}
  <2>1. p.changes[s] = Blank /\ p.deletes[s] = {} /\ q.changes[s] = p.changes[s]
    BY <1>2, <1>5 DEF NotesOK
  <2>2. CASE s = sid
    <3>1. s \in p.removed \/ s \notin ToSet(p.base.secs)
      BY <1>2, <1>5
    <3>2. q.deletes = p.deletes
      BY <1>2, <1>3, <1>4, <2>2, <3>1
    <3>3. QED
      BY <2>1, <3>2
  <2>3. CASE s # sid
    BY <1>2, <2>1, <2>3
  <2>4. QED
    BY <2>2, <2>3
<1>6. QED
  BY <1>1, <1>2, <1>5 DEF NotesOK

LEMMA AddSectionNotes ==
  ASSUME NEW p \in Pages, FileOK(p.base), NotesOK(p), NEW sid \in Named \cup Temps,
         \/ sid \in Temps /\ ~Fresh(p, sid)
         \/ sid \in Named /\ p.loaded /\ ~Contains(p.order, sid)
  PROVE  NotesOK(AddSection(p, sid)) /\ sid \notin ToSet(p.order) /\ ~Fresh(p, sid)
<1>1. PICK q : q = AddSection(p, sid)
  OBVIOUS
<1>2. /\ q.loaded = p.loaded /\ q.base = p.base /\ q.removed = p.removed
      /\ q.fresh = Append(p.fresh, sid) /\ q.order = Append(p.order, sid)
      /\ q.changes = p.changes /\ q.deletes = p.deletes
  BY <1>1, AddSectionParts
<1>3. sid \in Temps => sid \notin ToSet(p.base.secs)
  BY DisjointAssumption DEF FileOK, Stored
<1>4. sid \notin ToSet(p.order) /\ sid \notin ToSet(p.fresh)
  <2>1. /\ Fresh(p, sid) <=> sid \in ToSet(p.fresh)
        /\ Contains(p.order, sid) <=> sid \in ToSet(p.order)
    BY FreshFacts
  <2>2. QED
    BY <1>3, <2>1 DEF NotesOK
<1>5. sid \in ToSet(p.base.secs) => sid \in p.removed
  BY <1>4 DEF NotesOK
<1>6. p.fresh \in Seq(Named \cup Temps) /\ p.order \in Seq(Sids) /\ sid \in Sids
  BY PageParts DEF Sids, Stored
<1>7. /\ ToSet(q.fresh) = ToSet(p.fresh) \cup {sid} /\ IsInjective(q.fresh)
      /\ ToSet(q.order) = ToSet(p.order) \cup {sid} /\ IsInjective(q.order)
  BY <1>2, <1>4, <1>6, Appended DEF NotesOK
<1>8. ~p.loaded => sid \in Temps
  OBVIOUS
<1>9. NotesOK(q)
  BY <1>2, <1>5, <1>7, <1>8 DEF NotesOK
<1>10. QED
  BY <1>1, <1>4, <1>9, FreshFacts

LEMMA RemoveSectionNotes ==
  ASSUME NEW p \in Pages, FileOK(p.base), NotesOK(p), NEW sid \in Sids
  PROVE  NotesOK(RemoveSection(p, sid))
<1>1. PICK q : q = RemoveSection(p, sid)
  OBVIOUS
<1>2. /\ Has(p.base, sid) <=> sid \in ToSet(p.base.secs)
      /\ Fresh(p, sid) <=> sid \in ToSet(p.fresh)
      /\ p.fresh \in Seq(Named \cup Temps) /\ p.order \in Seq(Sids)
  BY FreshFacts, PageParts
<1>3. Has(p.base, sid) => sid \in Stored
  BY <1>2 DEF FileOK
<1>4. /\ ToSet(Without(p.fresh, sid)) = ToSet(p.fresh) \ {sid}
      /\ ToSet(Without(p.order, sid)) = ToSet(p.order) \ {sid}
      /\ IsInjective(Without(p.fresh, sid)) /\ IsInjective(Without(p.order, sid))
  BY <1>2, WithoutFacts DEF NotesOK
<1>5. CASE Fresh(p, sid)
  <2>1. /\ q.loaded = p.loaded /\ q.base = p.base /\ q.removed = p.removed
        /\ q.fresh = Without(p.fresh, sid) /\ q.order = Without(p.order, sid)
        /\ q.changes = p.changes /\ q.deletes = p.deletes
    BY <1>1, <1>3, <1>5, RemoveSectionParts
  <2>2. QED
    BY <1>1, <1>2, <1>4, <1>5, <2>1 DEF NotesOK
<1>6. CASE ~Fresh(p, sid) /\ ~Has(p.base, sid)
  <2>1. q = p
    BY <1>1, <1>6, RemoveSectionParts
  <2>2. QED
    BY <1>1, <2>1
<1>7. CASE ~Fresh(p, sid) /\ Has(p.base, sid)
  <2>1. /\ q.loaded = p.loaded /\ q.base = p.base /\ q.removed = p.removed \cup {sid}
        /\ q.fresh = p.fresh /\ q.order = Without(p.order, sid)
        /\ q.changes[sid] = Blank /\ q.deletes[sid] = {}
        /\ \A s \in Sids \ {sid} : q.changes[s] = p.changes[s] /\ q.deletes[s] = p.deletes[s]
    BY <1>1, <1>3, <1>7, RemoveSectionParts
  <2>2. p.loaded
    <3>1. ToSet(Empty.secs) = {}
      BY DEF Empty, ToSet
    <3>2. QED
      BY <1>2, <1>7, <3>1 DEF NotesOK
  <2>3. QED
    BY <1>1, <1>2, <1>4, <1>7, <2>1, <2>2 DEF NotesOK
<1>8. QED
  BY <1>5, <1>6, <1>7

LEMMA MoveSectionNotes ==
  ASSUME NEW p \in Pages, NotesOK(p),
         NEW sid \in Sids, NEW ref \in Sids \cup {None}, NEW after \in BOOLEAN,
         Contains(p.order, sid), ref # sid, ref # None => Contains(p.order, ref)
  PROVE  NotesOK(MoveSection(p, sid, ref, after))
<1>1. PICK q : q = MoveSection(p, sid, ref, after)
  OBVIOUS
<1>2. /\ q.loaded = p.loaded /\ q.base = p.base /\ q.fresh = p.fresh /\ q.removed = p.removed
      /\ q.changes = p.changes /\ q.deletes = p.deletes
      /\ IsInjective(q.order) /\ ToSet(q.order) = ToSet(p.order)
  BY <1>1, MoveSectionParts DEF NotesOK
<1>3. QED
  BY <1>1, <1>2 DEF NotesOK

\* What was loaded replaces a page that has no notes but on sections it created.
LEMMA InstallNotes ==
  ASSUME NEW p \in Pages, NotesOK(p), ~p.loaded, NEW file, FileOK(file)
  PROVE  NotesOK(Install(p, file))
<1>1. PICK q : q = Install(p, file)
  OBVIOUS
<1>2. /\ p.base = Empty /\ p.removed = {} /\ ToSet(p.fresh) \subseteq Temps
      /\ IsInjective(p.fresh) /\ ToSet(Empty.secs) = {}
  BY DEF NotesOK, Empty, ToSet
<1>3. ToSet(file.secs) \cap ToSet(p.fresh) = {}
  BY <1>2, DisjointAssumption DEF FileOK, Stored
<1>4. \A s \in Sids : p.changes[s] = Blank /\ p.deletes[s] = {}
  BY <1>2 DEF NotesOK
<1>5. /\ q.loaded = TRUE /\ q.base = file /\ q.fresh = p.fresh /\ q.removed = p.removed
      /\ q.changes = p.changes /\ q.deletes = p.deletes
      /\ ToSet(q.order) = (ToSet(file.secs) \ p.removed) \cup ToSet(p.fresh)
      /\ IsInjective(q.order)
  BY <1>1, <1>2, <1>3, InstallParts
<1>6. QED
  BY <1>1, <1>2, <1>3, <1>4, <1>5 DEF NotesOK

-----------------------------------------------------------------------------
(* The inductive invariant *)

\* A save waits for as many answers as it still needs names, and holds a file
\* rpcd could have answered.
SaveOK(s) ==
  /\ s \in SaveRecords /\ FileOK(s.file)
  /\ s.pc = "calls" => s.calls # <<>> /\ Len(s.snew) <= Len(s.calls) + Len(s.replies)
  /\ s.pc = "answered" => Len(s.snew) <= Len(s.replies)

CacheInv ==
  /\ FileOK(remote)
  /\ page \in Pages /\ FileOK(page.base)
  /\ save \in [Slots -> SaveRecords] /\ \A k \in Slots : SaveOK(save[k])
  /\ origin \in [Pool -> Temps \cup {None}]

LEMMA IdleSaveOK == SaveOK(Idle)
BY IdleOK, EmptyOK DEF SaveOK, Idle

LEMMA SpoilOK ==
  ASSUME NEW s, SaveOK(s)
  PROVE  SaveOK(Spoil(s))
BY SpoilParts DEF SaveOK

LEMMA SpoiledOK ==
  ASSUME CacheInv
  PROVE  /\ Spoiled \in [Slots -> SaveRecords]
         /\ \A k \in Slots : SaveOK(Spoiled[k]) /\ Spoiled[k].pc = save[k].pc
<1>1. ASSUME NEW k \in Slots
      PROVE  /\ SaveOK(Spoiled[k]) /\ Spoiled[k].pc = save[k].pc
             /\ Spoiled[k] \in SaveRecords
  <2>1. SaveOK(save[k]) /\ save[k] \in SaveRecords
    BY DEF CacheInv, SaveOK
  <2>2. Spoiled[k] = IF save[k].pc = "idle" THEN Idle ELSE Spoil(save[k])
    BY DEF Spoiled
  <2>3. Idle.pc = "idle" /\ SaveOK(Idle) /\ Idle \in SaveRecords
    BY IdleSaveOK, IdleOK DEF Idle
  <2>4. Spoil(save[k]).pc = save[k].pc /\ SaveOK(Spoil(save[k])) /\ Spoil(save[k]) \in SaveRecords
    BY <2>1, SpoilOK, SpoilParts
  <2>5. QED
    BY <2>2, <2>3, <2>4
<1>2. Spoiled = [k \in Slots |-> Spoiled[k]]
  BY DEF Spoiled
<1>3. QED
  BY <1>1, <1>2

LEMMA ReplyOK ==
  ASSUME NEW s, SaveOK(s), s.pc = "calls", NEW name \in Names
  PROVE  /\ SaveOK(Replied(s, name)) /\ Replied(s, name).pc \in {"calls", "answered"}
         /\ Head(s.calls) \in CallRecords
<1> DEFINE rest == Tail(s.calls)
           replies == Append(s.replies, name)
           pc == IF rest = <<>> THEN "answered" ELSE s.pc
           r == [s EXCEPT !.calls = rest, !.replies = replies, !.pc = pc]
<1>1. /\ s \in SaveRecords /\ s.calls \in Seq(CallRecords) /\ s.calls # <<>>
      /\ s.replies \in Seq(Names) /\ s.snew \in Seq(Named \cup Temps)
      /\ Len(s.snew) <= Len(s.calls) + Len(s.replies) /\ FileOK(s.file)
  BY SaveParts DEF SaveOK
<1>2. /\ rest \in Seq(CallRecords) /\ Len(rest) = Len(s.calls) - 1
      /\ Head(s.calls) \in CallRecords
  BY <1>1, Shortened
<1>3. replies \in Seq(Names) /\ Len(replies) = Len(s.replies) + 1
  BY <1>1, Appended
<1>4. Len(s.snew) \in Nat /\ Len(s.calls) \in Nat /\ Len(s.replies) \in Nat
  BY <1>1, LenProperties
<1>5. pc \in {"calls", "answered"} /\ (pc = "calls" => rest # <<>>) /\ (pc = "answered" => rest = <<>>)
  BY <1>1
<1> HIDE DEF rest, replies, pc
<1>6. r \in SaveRecords
  BY <1>1, <1>2, <1>3, <1>5 DEF SaveRecords, Steps
<1>7. /\ r.pc = pc /\ r.calls = rest /\ r.replies = replies /\ r.snew = s.snew
      /\ r.file = s.file
  BY <1>1 DEF SaveRecords
<1> HIDE DEF r
<1>8. SaveOK(r)
  <2>1. Len(s.snew) <= Len(rest) + Len(replies)
    <3>1. \A a, b, c \in Nat : a <= b + c => a <= (b - 1) + (c + 1)
      OBVIOUS
    <3>2. Len(s.snew) <= (Len(s.calls) - 1) + (Len(s.replies) + 1)
      BY <1>1, <1>4, <3>1
    <3>3. QED
      BY <1>2, <1>3, <3>2
  <2>2. ASSUME rest = <<>> PROVE Len(s.snew) <= Len(replies)
    <3>1. Len(rest) = 0
      BY <1>2, <2>2, EmptySeq
    <3>2. QED
      BY <1>3, <1>4, <2>1, <3>1
  <2>3. QED
    BY <1>1, <1>5, <1>6, <1>7, <2>1, <2>2 DEF SaveOK
<1>9. QED
  BY <1>2, <1>5, <1>7, <1>8 DEF rest, replies, pc, r, Replied

\* Where the page or a save may be left by the second half of a save.
LEMMA ContinueInv ==
  ASSUME CacheInv, NEW k \in Slots, NEW s \in SaveRecords, FileOK(s.file),
         NEW p \in Pages, FileOK(p.base), Continue(k, s, p)
  PROVE  /\ page' \in Pages /\ FileOK(page'.base)
         /\ save' \in [Slots -> SaveRecords] /\ \A j \in Slots : SaveOK(save'[j])
<1>1. s \in SaveRecords
  OBVIOUS
<1>2. /\ page' \in Pages /\ save' \in [Slots -> SaveRecords]
      /\ \A j \in Slots \ {k} : save'[j] = save[j]
      /\ \/ SameNotes(p, page') /\ save'[k] = Idle
         \/ /\ SameNotes(p, page')
            /\ save'[k] = [s EXCEPT !.pc = "order", !.names = NamesInOrder(p)]
         \/ Forgotten(page') /\ save'[k] = [s EXCEPT !.pc = "load"]
  BY <1>1, ContinueStep DEF CacheInv, Ends
<1>3. FileOK(page'.base)
  BY <1>2, EmptyOK DEF SameNotes, Forgotten
<1>4. save'[k] \in SaveRecords
  BY <1>2
<1>5. CASE save'[k] = Idle
  BY <1>2, <1>3, <1>5, IdleSaveOK DEF CacheInv
<1>6. CASE save'[k] = [s EXCEPT !.pc = "order", !.names = NamesInOrder(p)]
  <2>1. save'[k].pc = "order" /\ save'[k].file = s.file
    BY <1>1, <1>6 DEF SaveRecords
  <2>2. SaveOK(save'[k])
    BY <1>4, <2>1 DEF SaveOK
  <2>3. QED
    BY <1>2, <1>3, <2>2 DEF CacheInv
<1>7. CASE save'[k] = [s EXCEPT !.pc = "load"]
  <2>1. save'[k].pc = "load" /\ save'[k].file = s.file
    BY <1>1, <1>7 DEF SaveRecords
  <2>2. SaveOK(save'[k])
    BY <1>4, <2>1 DEF SaveOK
  <2>3. QED
    BY <1>2, <1>3, <2>2 DEF CacheInv
<1>8. QED
  BY <1>2, <1>5, <1>6, <1>7

LEMMA CacheInit == Init => CacheInv
<1> SUFFICES ASSUME Init PROVE CacheInv
  OBVIOUS
<1>1. PICK secs \in {<<>>} \cup (Named \X Pool), opts \in [Stored -> Sections] :
        remote = FirstFile(secs, opts)
  BY DEF Init
<1>2. secs \in Seq(Sids) /\ IsInjective(secs) /\ ToSet(secs) \subseteq Stored
  <2>1. CASE secs = <<>>
    BY <2>1 DEF IsInjective, ToSet
  <2>2. ASSUME NEW s \in Named, NEW u \in Pool, secs = <<s, u>>
        PROVE  secs \in Seq(Sids) /\ IsInjective(secs) /\ ToSet(secs) \subseteq Stored
    <3>1. s # u /\ s \in Sids /\ u \in Sids /\ s \in Stored /\ u \in Stored
      BY DisjointAssumption DEF Sids, Stored
    <3>2. <<s, u>> \in Seq(Sids)
      BY <3>1
    <3>3. IsInjective(<<s, u>>)
      BY <3>1 DEF IsInjective
    <3>4. ToSet(<<s, u>>) \subseteq Stored
      BY <3>1 DEF ToSet
    <3>5. QED
      BY <2>2, <3>2, <3>3, <3>4
  <2>3. QED
    BY <2>1, <2>2
<1> DEFINE all == [s \in Sids |-> IF Contains(secs, s) THEN opts[s] ELSE Blank]
<1>3. all \in [Sids -> Sections] /\ \A s \in Sids \ ToSet(secs) : all[s] = Blank
  <2>1. \A s : Contains(secs, s) <=> s \in ToSet(secs)
    BY <1>2, Membership
  <2>2. QED
    BY <1>2, <2>1, BlankType
<1> HIDE DEF all
<1>4. FileOK(remote)
  <2>1. FileOK([secs |-> secs, opts |-> all])
    BY <1>2, <1>3, FileParts
  <2>2. QED
    BY <1>1, <2>1 DEF all, FirstFile
<1>5. page = Install(Unloaded, remote) /\ save = [k \in Slots |-> Idle]
      /\ origin = [s \in Pool |-> None]
  BY DEF Init
<1>6. page \in Pages /\ page.base = remote
  <2>1. PICK p \in Pages : p = Unloaded
    BY UnloadedOK
  <2>2. Install(p, remote) \in Pages /\ Install(p, remote).base = remote
    BY <1>4, InstallParts
  <2>3. QED
    BY <1>5, <2>1, <2>2
<1>7. QED
  BY <1>4, <1>5, <1>6, IdleSaveOK, IdleOK DEF CacheInv

\* Edits: the saves under way are spoiled, the rest is as before.
LEMMA EditInv ==
  ASSUME CacheInv, page' \in Pages, page'.base = page.base, save' = Spoiled,
         remote' = remote, origin' \in [Pool -> Temps \cup {None}]
  PROVE  CacheInv'
<1>1. /\ Spoiled \in [Slots -> SaveRecords] /\ \A k \in Slots : SaveOK(Spoiled[k])
  BY SpoiledOK
<1>2. QED
  BY <1>1 DEF CacheInv

LEMMA AddInv ==
  ASSUME CacheInv, NEW sid \in Sids, PageAdd(sid)
  PROVE  CacheInv'
<1>1. /\ sid \in Named \cup Temps /\ page' = AddSection(page, sid) /\ save' = Spoiled
      /\ remote' = remote
      /\ origin' = [s \in Pool |-> IF origin[s] = sid THEN None ELSE origin[s]]
  BY DEF PageAdd
<1>2. page' \in Pages /\ page'.base = page.base
  BY <1>1, AddSectionParts DEF CacheInv
<1>3. origin' \in [Pool -> Temps \cup {None}]
  BY <1>1 DEF CacheInv
<1>4. QED
  BY <1>1, <1>2, <1>3, EditInv

LEMMA RemoveInv ==
  ASSUME CacheInv, NEW sid \in Sids, PageRemove(sid)
  PROVE  CacheInv'
<1>1. /\ page' = RemoveSection(page, sid) /\ save' = Spoiled
      /\ remote' = remote /\ origin' = origin
  BY DEF PageRemove, Editing
<1>2. Has(page.base, sid) => sid \in Stored
  BY HasFacts DEF CacheInv, FileOK
<1>3. page' \in Pages /\ page'.base = page.base
  BY <1>1, <1>2, RemoveSectionParts DEF CacheInv
<1>4. QED
  BY <1>1, <1>3, EditInv DEF CacheInv

LEMMA SetInv ==
  ASSUME CacheInv, NEW sid \in Sids, NEW o \in Options, NEW v \in Values, PageSet(sid, o, v)
  PROVE  CacheInv'
<1>1. /\ page' = SetOption(page, sid, o, v) /\ save' = Spoiled
      /\ remote' = remote /\ origin' = origin
  BY DEF PageSet, Editing
<1>2. OptionSet(page, page', sid, o, v)
  BY <1>1, SetOptionParts DEF CacheInv
<1>3. QED
  BY <1>1, <1>2, EditInv DEF CacheInv, OptionSet

LEMMA UnsetInv ==
  ASSUME CacheInv, NEW sid \in Sids, NEW o \in Options, PageUnset(sid, o)
  PROVE  CacheInv'
<1>1. /\ page' = UnsetOption(page, sid, o) /\ save' = Spoiled
      /\ remote' = remote /\ origin' = origin
  BY DEF PageUnset, Editing
<1>2. OptionUnset(page, page', sid, o)
  BY <1>1, UnsetOptionParts DEF CacheInv
<1>3. QED
  BY <1>1, <1>2, EditInv DEF CacheInv, OptionUnset

LEMMA SaveStartInv ==
  ASSUME CacheInv, NEW k \in Slots, SaveStart(k)
  PROVE  CacheInv'
<1> DEFINE s == [Idle EXCEPT !.pc = "calls", !.calls = Calls(page), !.snew = page.fresh,
                             !.dirty = Dirty(page), !.want = View(page),
                             !.plain = Faithful(page)]
           t == IF page.loaded /\ Active = {} THEN s ELSE Spoil(s)
<1>1. /\ Calls(page) \in Seq(CallRecords) /\ Len(Calls(page)) \in Nat
      /\ Len(page.fresh) <= Len(Calls(page)) /\ page.fresh \in Seq(Named \cup Temps)
      /\ View(page) \in Files /\ Dirty(page) \in BOOLEAN
  BY CallsMade, PageParts, ViewType DEF CacheInv, Dirty
<1>2. Faithful(page) \in BOOLEAN
  BY DEF Faithful
<1>3. s \in SaveRecords
  BY <1>1, <1>2, IdleOK DEF SaveRecords, Steps
<1>4. /\ s.calls = Calls(page) /\ s.pc = "calls" /\ s.snew = page.fresh
      /\ s.replies = <<>> /\ s.file = Empty
  BY DEF Idle
<1> HIDE DEF s
<1>5. /\ t \in SaveRecords /\ t.calls = Calls(page) /\ t.pc = "calls" /\ t.snew = page.fresh
      /\ t.replies = <<>> /\ t.file = Empty
  BY <1>3, <1>4, SpoilParts
<1>6. /\ IF s.calls = <<>> THEN Continue(k, t, page)
         ELSE page' = page /\ save' = [Spoiled EXCEPT ![k] = t]
      /\ remote' = remote /\ origin' = origin
  BY DEF SaveStart, s
<1> HIDE DEF t
<1>7. CASE s.calls = <<>>
  <2>1. Continue(k, t, page) /\ FileOK(t.file)
    BY <1>5, <1>6, <1>7, EmptyOK
  <2>2. /\ page' \in Pages /\ FileOK(page'.base)
        /\ save' \in [Slots -> SaveRecords] /\ \A j \in Slots : SaveOK(save'[j])
    BY <1>5, <2>1, ContinueInv DEF CacheInv
  <2>3. QED
    BY <1>6, <2>2 DEF CacheInv
<1>8. CASE s.calls # <<>>
  <2>1. SaveOK(t)
    <3>1. Len(t.replies) = 0
      BY <1>5
    <3>2. Len(t.snew) <= Len(t.calls) + Len(t.replies)
      BY <1>1, <1>5, <3>1
    <3>3. QED
      BY <1>4, <1>5, <1>8, <3>2, EmptyOK DEF SaveOK
  <2>2. /\ Spoiled \in [Slots -> SaveRecords] /\ \A j \in Slots : SaveOK(Spoiled[j])
    BY SpoiledOK
  <2>3. page' = page /\ save' = [Spoiled EXCEPT ![k] = t]
    BY <1>6, <1>8
  <2>4. /\ save' \in [Slots -> SaveRecords] /\ \A j \in Slots : SaveOK(save'[j])
    BY <1>5, <2>1, <2>2, <2>3
  <2>5. QED
    BY <1>6, <2>3, <2>4 DEF CacheInv
<1>9. QED
  BY <1>7, <1>8

LEMMA CallInv ==
  ASSUME CacheInv, NEW k \in Slots, ServerCall(k)
  PROVE  CacheInv'
<1> DEFINE c == Head(save[k].calls)
           with(name) == Replied(save[k], name)
<1>1. SaveOK(save[k]) /\ save[k].pc = "calls" /\ FileOK(remote) /\ save \in [Slots -> SaveRecords]
  BY DEF CacheInv, ServerCall
<1>2. ASSUME NEW name \in Names
      PROVE  c \in CallRecords /\ SaveOK(with(name)) /\ SaveOK(Spoil(with(name)))
  BY <1>1, ReplyOK, SpoilOK
<1>3. c.sid \in Sids /\ c.new \in Sections /\ c.op \in {"drop", "unset", "add", "set"}
  <2>1. None \in Names
    BY DEF Names
  <2>2. QED
    BY <1>2, <2>1 DEF CallRecords
<1>4. /\ page' = page
      /\ \E name \in Names : save' = [save EXCEPT ![k] = with(name)]
                             \/ save' = [save EXCEPT ![k] = Spoil(with(name))]
      /\ \/ remote' \in {DropFrom(remote, c.sid), UnsetIn(remote, c.sid, c.gone),
                         SetIn(remote, c.sid, c.new), remote} /\ origin' = origin
         \/ c.sid \in Named /\ remote' = AddTo(remote, c.sid, c.new) /\ origin' = origin
         \/ \E id \in Pool : /\ remote' = AddTo(remote, id, c.new) /\ c.sid \in Temps
                             /\ origin' = [origin EXCEPT ![id] = c.sid]
  <2>1. None \in Names /\ (\A id \in Pool : id \in Names) /\ \A id \in Named : id \in Names
    BY DEF Names, Sids, Stored
  <2>2. page' = page
    BY DEF ServerCall
  <2> DEFINE reply(name) == [save EXCEPT ![k] = Replied(save[k], name)]
  <2>3. \/ /\ remote' = DropFrom(remote, c.sid) /\ save' = reply(None) /\ origin' = origin
        \/ /\ remote' = UnsetIn(remote, c.sid, c.gone) /\ save' = reply(None) /\ origin' = origin
        \/ /\ remote' = SetIn(remote, c.sid, c.new) /\ save' = reply(None) /\ origin' = origin
        \/ /\ c.sid \in Named /\ remote' = AddTo(remote, c.sid, c.new)
           /\ save' = reply(c.sid) /\ origin' = origin
        \/ /\ c.sid \in Temps
           /\ \E id \in Pool : /\ remote' = AddTo(remote, id, c.new) /\ save' = reply(id)
                               /\ origin' = [origin EXCEPT ![id] = c.sid]
        \/ /\ save' = [save EXCEPT ![k] = Spoil(Replied(save[k], None))]
           /\ remote' = remote /\ origin' = origin
    BY DEF ServerCall, NoName
  <2> HIDE DEF c
  <2>4. QED
    BY <2>1, <2>2, <2>3
<1>5. FileOK(remote')
  <2>1. \A id \in Stored : FileOK(AddTo(remote, id, c.new))
    BY <1>1, <1>3, AddToOK
  <2>2. FileOK(DropFrom(remote, c.sid))
    BY <1>1, <1>3, DropFromOK
  <2>3. FileOK(UnsetIn(remote, c.sid, c.gone))
    BY <1>1, <1>3, UnsetInOK
  <2>4. FileOK(SetIn(remote, c.sid, c.new))
    BY <1>1, <1>3, SetInOK
  <2>5. QED
    BY <1>1, <1>4, <2>1, <2>2, <2>3, <2>4 DEF Stored
<1>6. origin' \in [Pool -> Temps \cup {None}]
  BY <1>4 DEF CacheInv
<1> HIDE DEF with, c
<1>7. save' \in [Slots -> SaveRecords] /\ \A j \in Slots : SaveOK(save'[j])
  <2>1. PICK name \in Names : save' = [save EXCEPT ![k] = with(name)]
                              \/ save' = [save EXCEPT ![k] = Spoil(with(name))]
    BY <1>4
  <2>2. PICK r : SaveOK(r) /\ save' = [save EXCEPT ![k] = r]
    BY <1>2, <2>1
  <2>3. r \in SaveRecords
    BY <2>2 DEF SaveOK
  <2>4. QED
    BY <1>1, <2>2, <2>3 DEF CacheInv
<1>8. QED
  BY <1>4, <1>5, <1>6, <1>7 DEF CacheInv

LEMMA MoveInv ==
  ASSUME CacheInv, NEW sid \in Sids, NEW ref \in Sids \cup {None}, NEW after \in BOOLEAN,
         PageMove(sid, ref, after)
  PROVE  CacheInv'
<1>1. /\ page' = MoveSection(page, sid, ref, after) /\ save' = Spoiled
      /\ remote' = remote /\ origin' = origin
      /\ Contains(page.order, sid) /\ ref # sid /\ (ref # None => Contains(page.order, ref))
  BY DEF PageMove, Editing
<1>2. page' \in Pages /\ page'.base = page.base
  BY <1>1, MoveSectionParts DEF CacheInv
<1>3. QED
  BY <1>1, <1>2, EditInv DEF CacheInv

LEMMA AnsweredInv ==
  ASSUME CacheInv, NEW k \in Slots, Answered(k)
  PROVE  CacheInv'
<1>1. /\ SaveOK(save[k]) /\ save[k].pc = "answered"
      /\ Continue(k, save[k], Renamed(page, save[k])) /\ remote' = remote /\ origin' = origin
  BY DEF CacheInv, Answered
<1>2. /\ save[k] \in SaveRecords /\ FileOK(save[k].file)
      /\ Len(save[k].snew) <= Len(save[k].replies)
  BY <1>1 DEF SaveOK
<1>3. PICK p \in Pages : p = Renamed(page, save[k]) /\ SameNotes(page, p)
  BY <1>2, RenamedParts DEF CacheInv
<1>4. FileOK(p.base)
  BY <1>3 DEF CacheInv, SameNotes
<1>5. /\ page' \in Pages /\ FileOK(page'.base)
      /\ save' \in [Slots -> SaveRecords] /\ \A j \in Slots : SaveOK(save'[j])
  BY <1>1, <1>2, <1>3, <1>4, ContinueInv
<1>6. QED
  BY <1>1, <1>5 DEF CacheInv

\* One save goes on, the page stays.
LEMMA SlotInv ==
  ASSUME CacheInv, NEW k \in Slots, NEW s, SaveOK(s), save' = [save EXCEPT ![k] = s],
         page' = page, FileOK(remote'), origin' = origin
  PROVE  CacheInv'
<1>1. s \in SaveRecords
  BY DEF SaveOK
<1>2. QED
  BY <1>1 DEF CacheInv

LEMMA OrderInv ==
  ASSUME CacheInv, NEW k \in Slots, ServerOrder(k)
  PROVE  CacheInv'
<1> DEFINE s == [save[k] EXCEPT !.pc = "ordered"]
           t == [Spoil(save[k]) EXCEPT !.pc = "ordered"]
<1>1. /\ SaveOK(save[k]) /\ save[k] \in SaveRecords /\ save \in [Slots -> SaveRecords]
      /\ Spoil(save[k]) \in SaveRecords /\ FileOK(Spoil(save[k]).file)
      /\ FileOK(save[k].file) /\ FileOK(remote)
  BY SpoilOK DEF CacheInv, SaveOK
<1>2. SaveOK(s) /\ SaveOK(t)
  BY <1>1 DEF SaveOK, SaveRecords, Steps
<1>3. /\ page' = page /\ origin' = origin
      /\ \/ remote' = OrderIn(remote, save[k].names) /\ save' = [save EXCEPT ![k] = s]
         \/ remote' = remote /\ save' = [save EXCEPT ![k] = t]
  BY <1>1 DEF ServerOrder
<1>4. FileOK(OrderIn(remote, save[k].names))
  BY <1>1, SaveParts, OrderInOK
<1> HIDE DEF s, t
<1>5. QED
  BY <1>1, <1>2, <1>3, <1>4, SlotInv

LEMMA OrderedInv ==
  ASSUME CacheInv, NEW k \in Slots, Ordered(k)
  PROVE  CacheInv'
<1>1. /\ save[k] \in SaveRecords /\ SaveOK(save[k]) /\ save \in [Slots -> SaveRecords]
      /\ Reload(k, save[k], page)
      /\ page \in Pages /\ FileOK(page.base) /\ remote' = remote /\ origin' = origin
  BY DEF CacheInv, Ordered
<1>2. /\ page' \in Pages /\ save' \in [Slots -> SaveRecords]
      /\ \A j \in Slots \ {k} : save'[j] = save[j]
      /\ \/ SameNotes(page, page') /\ save'[k] = Idle
         \/ Forgotten(page') /\ save'[k] = [save[k] EXCEPT !.pc = "load"]
  BY <1>1, ReloadStep
<1>3. FileOK(page'.base)
  BY <1>1, <1>2, EmptyOK DEF SameNotes, Forgotten
<1>4. SaveOK([save[k] EXCEPT !.pc = "load"])
  BY <1>1 DEF SaveOK, SaveRecords, Steps
<1>5. \A j \in Slots : SaveOK(save'[j])
  BY <1>2, <1>4, IdleSaveOK DEF CacheInv
<1>6. QED
  BY <1>1, <1>2, <1>3, <1>5 DEF CacheInv

LEMMA GetInv ==
  ASSUME CacheInv, NEW k \in Slots, ServerGet(k)
  PROVE  CacheInv'
<1> DEFINE s == [save[k] EXCEPT !.pc = "loaded", !.file = remote]
<1>1. /\ save[k] \in SaveRecords /\ save \in [Slots -> SaveRecords] /\ FileOK(remote) /\ remote \in Files
  BY DEF CacheInv, FileOK
<1>2. SaveOK(s)
  BY <1>1 DEF SaveOK, SaveRecords, Steps
<1>3. save' = [save EXCEPT ![k] = s] /\ page' = page /\ remote' = remote /\ origin' = origin
  BY <1>1 DEF ServerGet
<1> HIDE DEF s
<1>4. QED
  BY <1>1, <1>2, <1>3, SlotInv

LEMMA LoadedInv ==
  ASSUME CacheInv, NEW k \in Slots, Loaded(k)
  PROVE  CacheInv'
<1>1. /\ save' = [save EXCEPT ![k] = Idle] /\ page' = Install(page, save[k].file)
      /\ remote' = remote /\ origin' = origin /\ FileOK(save[k].file) /\ page \in Pages
  BY DEF CacheInv, SaveOK, Loaded
<1>2. page' \in Pages /\ page'.base = save[k].file
  BY <1>1, InstallParts
<1>3. QED
  BY <1>1, <1>2, IdleOK, IdleSaveOK DEF CacheInv

LEMMA RejectedInv ==
  ASSUME CacheInv, NEW k \in Slots, Rejected(k)
  PROVE  CacheInv'
BY IdleSaveOK, SlotInv DEF Rejected, CacheInv

LEMMA CacheStep ==
  ASSUME CacheInv, [Next]_vars
  PROVE  CacheInv'
<1>1. ASSUME NEW sid \in Sids, PageAdd(sid) PROVE CacheInv'
  BY <1>1, AddInv
<1>2. ASSUME NEW sid \in Sids, PageRemove(sid) PROVE CacheInv'
  BY <1>2, RemoveInv
<1>3. ASSUME NEW sid \in Sids, NEW o \in Options, PageUnset(sid, o) PROVE CacheInv'
  BY <1>3, UnsetInv
<1>4. ASSUME NEW sid \in Sids, NEW o \in Options, NEW v \in Values, PageSet(sid, o, v)
      PROVE  CacheInv'
  BY <1>4, SetInv
<1>5. ASSUME NEW sid \in Sids, NEW ref \in Sids \cup {None}, NEW after \in BOOLEAN,
             PageMove(sid, ref, after)
      PROVE  CacheInv'
  BY <1>5, MoveInv
<1>6. ASSUME NEW k \in Slots, SaveStart(k) \/ Save(k) \/ Rejected(k)
      PROVE  CacheInv'
  BY <1>6, SaveStartInv, CallInv, AnsweredInv, OrderInv, OrderedInv, GetInv, LoadedInv,
     RejectedInv DEF Save
<1>7. CASE UNCHANGED vars
  BY <1>7 DEF vars, CacheInv
<1>8. QED
  BY <1>1, <1>2, <1>3, <1>4, <1>5, <1>6, <1>7 DEF Next, Page

LEMMA Invariant == Spec => []CacheInv
<1>1. CacheInv /\ [Next]_vars => CacheInv'
  BY CacheStep
<1>2. QED
  BY CacheInit, <1>1, PTL DEF Spec

\* The page, the saves and what rpcd keeps stay what the rest of the code takes
\* them for: a name is there for every section a batch created, also where a
\* call of the batch failed, and where two saves are under way.
THEOREM CacheTyped == Spec => []TypeOK
<1>1. CacheInv => TypeOK
  BY DEF CacheInv, TypeOK, FileOK
<1>2. QED
  BY Invariant, <1>1, PTL

-----------------------------------------------------------------------------
(* Notes that agree *)

\* One save at a time.  Two saves at once may list a section twice: the second
\* loads the file after the page took back, by its name, a section the first
\* one had sent.
OneSave == \A k, l \in Slots : k = l

\* Nothing but sections created since is on a page that loads the file.
NotesInv ==
  /\ NotesOK(page)
  /\ \A k \in Slots : save[k].pc \in {"load", "loaded"} => ~page.loaded

LEMMA NotesInit == Init => NotesInv
<1> SUFFICES ASSUME Init PROVE NotesInv
  OBVIOUS
<1>1. FileOK(remote) /\ page = Install(Unloaded, remote) /\ save = [k \in Slots |-> Idle]
  BY CacheInit DEF Init, CacheInv, Install
<1>2. PICK p \in Pages : p = Unloaded
  BY UnloadedOK
<1>3. NotesOK(p) /\ ~p.loaded
  BY <1>2, NoNotes DEF Forgotten, Unloaded
<1>4. NotesOK(Install(p, remote))
  BY <1>1, <1>3, InstallNotes
<1>5. QED
  BY <1>1, <1>2, <1>4 DEF NotesInv, Idle

LEMMA EditNotes ==
  ASSUME CacheInv, NotesInv, NotesOK(page'), page'.loaded = page.loaded, save' = Spoiled
  PROVE  NotesInv'
<1>1. \A k \in Slots : save'[k].pc = save[k].pc
  BY SpoiledOK
<1>2. QED
  BY <1>1 DEF NotesInv

LEMMA AddNotes ==
  ASSUME CacheInv, NotesInv, NEW sid \in Sids, PageAdd(sid)
  PROVE  NotesInv'
<1>1. /\ page' = AddSection(page, sid) /\ save' = Spoiled
      /\ sid \in Named \cup Temps
      /\ \/ sid \in Temps /\ ~Fresh(page, sid)
         \/ sid \in Named /\ page.loaded /\ ~Contains(page.order, sid)
  BY DEF PageAdd
<1>2. page \in Pages /\ FileOK(page.base) /\ NotesOK(page)
  BY DEF CacheInv, NotesInv
<1>3. NotesOK(AddSection(page, sid))
  BY <1>1, <1>2, AddSectionNotes
<1>4. AddSection(page, sid).loaded = page.loaded
  BY <1>1, <1>2, AddSectionParts
<1>5. QED
  BY <1>1, <1>3, <1>4, EditNotes

LEMMA RemoveNotes ==
  ASSUME CacheInv, NotesInv, NEW sid \in Sids, PageRemove(sid)
  PROVE  NotesInv'
<1>1. page' = RemoveSection(page, sid) /\ save' = Spoiled
  BY DEF PageRemove, Editing
<1>2. page \in Pages /\ FileOK(page.base) /\ NotesOK(page)
  BY DEF CacheInv, NotesInv
<1>3. NotesOK(RemoveSection(page, sid))
  BY <1>2, RemoveSectionNotes
<1>4. RemoveSection(page, sid).loaded = page.loaded
  <2>1. Has(page.base, sid) => sid \in Stored
    BY <1>2, HasFacts DEF FileOK
  <2>2. QED
    BY <1>2, <2>1, RemoveSectionParts
<1>5. QED
  BY <1>1, <1>3, <1>4, EditNotes

LEMMA SetNotes ==
  ASSUME CacheInv, NotesInv, NEW sid \in Sids, NEW o \in Options, NEW v \in Values,
         PageSet(sid, o, v)
  PROVE  NotesInv'
<1>1. page' = SetOption(page, sid, o, v) /\ save' = Spoiled
  BY DEF PageSet, Editing
<1>2. page \in Pages /\ NotesOK(page)
  BY DEF CacheInv, NotesInv
<1>3. NotesOK(page') /\ OptionSet(page, page', sid, o, v)
  BY <1>1, <1>2, SetOptionNotes, SetOptionParts
<1>4. QED
  BY <1>1, <1>3, EditNotes DEF OptionSet

LEMMA UnsetNotes ==
  ASSUME CacheInv, NotesInv, NEW sid \in Sids, NEW o \in Options, PageUnset(sid, o)
  PROVE  NotesInv'
<1>1. page' = UnsetOption(page, sid, o) /\ save' = Spoiled
  BY DEF PageUnset, Editing
<1>2. page \in Pages /\ FileOK(page.base) /\ NotesOK(page)
  BY DEF CacheInv, NotesInv
<1>3. NotesOK(page') /\ OptionUnset(page, page', sid, o)
  BY <1>1, <1>2, UnsetOptionNotes, UnsetOptionParts
<1>4. QED
  BY <1>1, <1>3, EditNotes DEF OptionUnset

LEMMA MoveNotes ==
  ASSUME CacheInv, NotesInv, NEW sid \in Sids, NEW ref \in Sids \cup {None}, NEW after \in BOOLEAN,
         PageMove(sid, ref, after)
  PROVE  NotesInv'
<1>1. /\ page' = MoveSection(page, sid, ref, after) /\ save' = Spoiled
      /\ Contains(page.order, sid) /\ ref # sid /\ (ref # None => Contains(page.order, ref))
  BY DEF PageMove, Editing
<1>2. page \in Pages /\ NotesOK(page)
  BY DEF CacheInv, NotesInv
<1>3. NotesOK(MoveSection(page, sid, ref, after))
  BY <1>1, <1>2, MoveSectionNotes
<1>4. MoveSection(page, sid, ref, after).loaded = page.loaded
  BY <1>1, <1>2, MoveSectionParts
<1>5. QED
  BY <1>1, <1>3, <1>4, EditNotes

\* The second half of the only save there is.
LEMMA ContinueNotes ==
  ASSUME OneSave, CacheInv, NEW k \in Slots, NEW s \in SaveRecords, NEW p \in Pages, NotesOK(p),
         Continue(k, s, p)
  PROVE  NotesInv'
<1>1. \/ SameNotes(p, page') /\ save'[k] = Idle
      \/ SameNotes(p, page') /\ save'[k] = [s EXCEPT !.pc = "order", !.names = NamesInOrder(p)]
      \/ Forgotten(page') /\ save'[k] = [s EXCEPT !.pc = "load"]
  BY ContinueStep DEF CacheInv, Ends
<1>2. NotesOK(page')
  BY <1>1, NotesStay, NoNotes
<1>3. save'[k].pc \in {"load", "loaded"} => ~page'.loaded
  <2>1. CASE save'[k] = Idle
    BY <2>1 DEF Idle
  <2>2. CASE save'[k] = [s EXCEPT !.pc = "order", !.names = NamesInOrder(p)]
    <3>1. save'[k].pc = "order"
      BY <2>2 DEF SaveRecords
    <3>2. QED
      BY <3>1
  <2>3. CASE Forgotten(page')
    BY <2>3 DEF Forgotten
  <2>4. QED
    BY <1>1, <2>1, <2>2, <2>3
<1>4. QED
  BY <1>2, <1>3 DEF NotesInv, OneSave

LEMMA SaveStartNotes ==
  ASSUME OneSave, CacheInv, NotesInv, NEW k \in Slots, SaveStart(k)
  PROVE  NotesInv'
<1> DEFINE s == [Idle EXCEPT !.pc = "calls", !.calls = Calls(page), !.snew = page.fresh,
                             !.dirty = Dirty(page), !.want = View(page),
                             !.plain = Faithful(page)]
           t == IF page.loaded /\ Active = {} THEN s ELSE Spoil(s)
<1>1. s \in SaveRecords /\ s.pc = "calls"
  <2>1. /\ Calls(page) \in Seq(CallRecords) /\ page.fresh \in Seq(Named \cup Temps)
        /\ View(page) \in Files /\ Dirty(page) \in BOOLEAN
    BY CallsMade, PageParts, ViewType DEF CacheInv, Dirty
  <2>2. Faithful(page) \in BOOLEAN
    BY DEF Faithful
  <2>3. QED
    BY <2>1, <2>2, IdleOK DEF SaveRecords, Steps
<1>2. IF s.calls = <<>> THEN Continue(k, t, page)
      ELSE page' = page /\ save' = [Spoiled EXCEPT ![k] = t]
  BY DEF SaveStart
<1> HIDE DEF s
<1>3. t \in SaveRecords /\ t.pc = "calls"
  BY <1>1, SpoilParts
<1>4. page \in Pages /\ NotesOK(page)
  BY DEF CacheInv, NotesInv
<1> HIDE DEF t
<1>5. CASE Continue(k, t, page)
  BY <1>3, <1>4, <1>5, ContinueNotes
<1>6. CASE page' = page /\ save' = [Spoiled EXCEPT ![k] = t]
  <2>1. Spoiled \in [Slots -> SaveRecords] /\ \A j \in Slots : j = k
    BY SpoiledOK DEF OneSave
  <2>2. \A j \in Slots : save'[j].pc = "calls"
    BY <1>3, <1>6, <2>1
  <2>3. QED
    BY <1>4, <1>6, <2>2 DEF NotesInv
<1>7. QED
  BY <1>2, <1>5, <1>6

LEMMA AnsweredNotes ==
  ASSUME OneSave, CacheInv, NotesInv, NEW k \in Slots, Answered(k)
  PROVE  NotesInv'
<1>1. /\ SaveOK(save[k]) /\ save[k].pc = "answered" /\ page \in Pages /\ NotesOK(page)
      /\ Continue(k, save[k], Renamed(page, save[k]))
  BY DEF CacheInv, NotesInv, Answered
<1>2. save[k] \in SaveRecords /\ Len(save[k].snew) <= Len(save[k].replies)
  BY <1>1 DEF SaveOK
<1>3. PICK p \in Pages : p = Renamed(page, save[k]) /\ SameNotes(page, p)
  BY <1>1, <1>2, RenamedParts
<1>4. NotesOK(p)
  BY <1>1, <1>3, NotesStay
<1>5. QED
  BY <1>1, <1>2, <1>3, <1>4, ContinueNotes

LEMMA OrderedNotes ==
  ASSUME OneSave, CacheInv, NotesInv, NEW k \in Slots, Ordered(k)
  PROVE  NotesInv'
<1>1. /\ save[k] \in SaveRecords /\ save \in [Slots -> SaveRecords] /\ page \in Pages
      /\ NotesOK(page) /\ Reload(k, save[k], page)
  BY DEF CacheInv, NotesInv, Ordered
<1>2. \/ SameNotes(page, page') /\ save'[k] = Idle
      \/ Forgotten(page') /\ save'[k] = [save[k] EXCEPT !.pc = "load"]
  BY <1>1, ReloadStep
<1>3. NotesOK(page')
  BY <1>1, <1>2, NotesStay, NoNotes
<1>4. save'[k] # Idle => ~page'.loaded
  BY <1>2 DEF Forgotten
<1>5. save'[k] = Idle => save'[k].pc = "idle"
  BY DEF Idle
<1>6. QED
  BY <1>3, <1>4, <1>5 DEF NotesInv, OneSave

\* Steps of a save that leave the page alone.
LEMMA QuietNotes ==
  ASSUME OneSave, CacheInv, NotesInv, NEW k \in Slots, page' = page,
         save'[k].pc \in {"load", "loaded"} => save[k].pc \in {"load", "loaded"}
  PROVE  NotesInv'
BY DEF NotesInv, OneSave

LEMMA LoadedNotes ==
  ASSUME OneSave, CacheInv, NotesInv, NEW k \in Slots, Loaded(k)
  PROVE  NotesInv'
<1>1. /\ save' = [save EXCEPT ![k] = Idle] /\ page' = Install(page, save[k].file)
      /\ FileOK(save[k].file) /\ page \in Pages /\ save[k].pc = "loaded"
      /\ save \in [Slots -> SaveRecords]
  BY DEF CacheInv, SaveOK, Loaded
<1>2. NotesOK(page) /\ ~page.loaded
  BY <1>1 DEF NotesInv
<1>3. NotesOK(Install(page, save[k].file))
  BY <1>1, <1>2, InstallNotes
<1>4. \A j \in Slots : save'[j] = Idle
  BY <1>1 DEF OneSave
<1>5. QED
  BY <1>1, <1>3, <1>4 DEF NotesInv, Idle

LEMMA CallNotes ==
  ASSUME OneSave, CacheInv, NotesInv, NEW k \in Slots, ServerCall(k)
  PROVE  NotesInv'
<1>1. /\ SaveOK(save[k]) /\ save[k].pc = "calls" /\ page' = page
      /\ save \in [Slots -> SaveRecords]
  BY DEF CacheInv, ServerCall
<1>2. PICK name : \/ save' = [save EXCEPT ![k] = Replied(save[k], name)]
                  \/ save' = [save EXCEPT ![k] = Spoil(Replied(save[k], name))]
  BY DEF ServerCall
<1>3. Replied(save[k], name).pc \in {"calls", "answered"}
  BY <1>1 DEF SaveOK, SaveRecords, Replied
<1>4. Spoil(Replied(save[k], name)).pc = Replied(save[k], name).pc
  BY DEF Spoil
<1>5. save'[k].pc \in {"calls", "answered"}
  BY <1>1, <1>2, <1>3, <1>4
<1>6. QED
  BY <1>1, <1>5, QuietNotes

LEMMA NotesStep ==
  ASSUME OneSave, CacheInv, NotesInv, [Next]_vars
  PROVE  NotesInv'
<1>1. ASSUME NEW sid \in Sids, PageAdd(sid) \/ PageRemove(sid) PROVE NotesInv'
  BY <1>1, AddNotes, RemoveNotes
<1>2. ASSUME NEW sid \in Sids, NEW o \in Options, PageUnset(sid, o) PROVE NotesInv'
  BY <1>2, UnsetNotes
<1>3. ASSUME NEW sid \in Sids, NEW o \in Options, NEW v \in Values, PageSet(sid, o, v)
      PROVE  NotesInv'
  BY <1>3, SetNotes
<1>4. ASSUME NEW sid \in Sids, NEW ref \in Sids \cup {None}, NEW after \in BOOLEAN,
             PageMove(sid, ref, after)
      PROVE  NotesInv'
  BY <1>4, MoveNotes
<1>5. ASSUME NEW k \in Slots, \/ SaveStart(k) \/ ServerCall(k) \/ Answered(k) \/ Ordered(k)
                              \/ Loaded(k)
      PROVE  NotesInv'
  BY <1>5, SaveStartNotes, CallNotes, AnsweredNotes, OrderedNotes, LoadedNotes
<1>6. ASSUME NEW k \in Slots, ServerOrder(k) \/ ServerGet(k) \/ Rejected(k)
      PROVE  NotesInv'
  <2>1. save[k] \in SaveRecords /\ save \in [Slots -> SaveRecords] /\ page' = page
    BY <1>6 DEF CacheInv, ServerOrder, ServerGet, Rejected
  <2>2. CASE ServerOrder(k)
    <3>1. save'[k].pc = "ordered"
      BY <2>1, <2>2 DEF ServerOrder, Spoil, SaveRecords
    <3>2. QED
      BY <2>1, <3>1, QuietNotes
  <2>3. CASE ServerGet(k)
    <3>1. save[k].pc = "load"
      BY <2>3 DEF ServerGet
    <3>2. QED
      BY <2>1, <3>1, QuietNotes
  <2>4. CASE Rejected(k)
    <3>1. save'[k].pc = "idle"
      BY <2>1, <2>4 DEF Rejected, Idle
    <3>2. QED
      BY <2>1, <3>1, QuietNotes
  <2>5. QED
    BY <1>6, <2>2, <2>3, <2>4
<1>7. CASE UNCHANGED vars
  BY <1>7 DEF vars, NotesInv
<1>8. QED
  BY <1>1, <1>2, <1>3, <1>4, <1>5, <1>6, <1>7 DEF Next, Page, Save

LEMMA NotesInvariant ==
  ASSUME OneSave
  PROVE  Spec => [](CacheInv /\ NotesInv)
<1>1. CacheInv /\ NotesInv /\ [Next]_vars => (CacheInv /\ NotesInv)'
  BY CacheStep, NotesStep
<1>2. QED
  BY CacheInit, NotesInit, <1>1, PTL DEF Spec

\* While no two saves are under way at once, the notes of uci.js never
\* contradict each other and no section is listed twice, whatever is edited
\* between the steps of a save and whichever of its requests is lost.
THEOREM NotesNeverContradict ==
  ASSUME OneSave
  PROVE  Spec => []NotesAgree
<1>1. CacheInv /\ NotesInv => NotesAgree
  <2> SUFFICES ASSUME CacheInv, NotesInv PROVE NotesAgree
    OBVIOUS
  <2>1. page \in Pages /\ NotesOK(page) /\ page.removed \subseteq Sids
        /\ page.fresh \in Seq(Named \cup Temps)
    BY PageParts DEF CacheInv, NotesInv, Sids
  <2>2. ASSUME NEW s \in page.removed, Contains(page.order, s) PROVE Fresh(page, s)
    BY <2>1, <2>2, FreshFacts DEF NotesOK
  <2>3. ASSUME NEW i \in 1..Len(page.fresh) PROVE Contains(page.order, page.fresh[i])
    <3>1. page.fresh[i] \in ToSet(page.fresh)
      BY <2>1, Membership
    <3>2. QED
      BY <2>1, <3>1, FreshFacts DEF NotesOK
  <2>4. QED
    BY <2>1, <2>2, <2>3 DEF NotesAgree, NotesOK
<1>2. QED
  BY NotesInvariant, <1>1, PTL

-----------------------------------------------------------------------------
(* What an edit shows *)

LEMMA ViewFacts ==
  ASSUME NEW p \in Pages
  PROVE  /\ View(p) = [secs |-> p.order, opts |-> View(p).opts]
         /\ View(p).secs = p.order
         /\ \A s \in Sids, o \in Options : View(p).opts[s][o] = Get(p, s, o)
         /\ View(p).opts \in [Sids -> Sections]
<1>1. View(p).opts \in [Sids -> Sections]
  BY ViewType DEF Files
<1>2. QED
  BY <1>1 DEF View

LEMMA ShownAs ==
  ASSUME NEW q \in Pages, NEW opts \in [Sids -> Sections],
         \A s \in Sids, o \in Options : Get(q, s, o) = opts[s][o]
  PROVE  View(q) = [secs |-> q.order, opts |-> opts]
<1>1. View(q).opts \in [Sids -> Sections]
  BY ViewFacts
<1>2. ASSUME NEW s \in Sids PROVE View(q).opts[s] = opts[s]
  <2>1. /\ View(q).opts[s] \in [Options -> Values \cup {None}]
        /\ opts[s] \in [Options -> Values \cup {None}]
    BY <1>1 DEF Sections
  <2>2. \A o \in Options : View(q).opts[s][o] = opts[s][o]
    BY ViewFacts
  <2>3. QED
    BY <2>1, <2>2
<1>3. View(q).opts = opts
  BY <1>1, <1>2
<1>4. QED
  BY <1>3, ViewFacts

\* What get() tells depends on the notes on the section only.
LEMMA SameGet ==
  ASSUME NEW p, NEW q, NEW s, NEW o,
         Fresh(p, s) <=> Fresh(q, s), q.creates[s] = p.creates[s],
         s \in q.removed <=> s \in p.removed,
         q.base = p.base, q.changes[s] = p.changes[s], q.deletes[s] = p.deletes[s]
  PROVE  Get(q, s, o) = Get(p, s, o)
BY DEF Get

LEMMA SetShown ==
  ASSUME NEW p \in Pages, NotesOK(p), NEW sid \in Sids, NEW o \in Options, NEW v \in Values,
         Contains(p.order, sid), NEW q, OptionSet(p, q, sid, o, v)
  PROVE  View(q) = SetIn(View(p), sid, [Blank EXCEPT ![o] = v])
<1> DEFINE new == [Blank EXCEPT ![o] = v]
           opts == [View(p).opts EXCEPT ![sid] = Merge(View(p).opts[sid], new)]
<1>1. new \in Sections /\ new[o] = v /\ \A u \in Options \ {o} : new[u] = None
  BY DEF Sections, Blank
<1>2. v # None
  BY NoneAssumption
<1>3. View(p).opts \in [Sids -> Sections] /\ View(p).opts[sid] \in Sections
  BY ViewFacts
<1> HIDE DEF new
<1>4. Merge(View(p).opts[sid], new) \in Sections
  BY <1>1, <1>3, MergeType
<1>5. opts \in [Sids -> Sections] /\ opts[sid] = Merge(View(p).opts[sid], new)
      /\ \A s \in Sids \ {sid} : opts[s] = View(p).opts[s]
  BY <1>3, <1>4
<1>6. \A u \in Options : opts[sid][u] = IF u = o THEN v ELSE Get(p, sid, u)
  BY <1>1, <1>2, <1>5, ViewFacts DEF Merge
<1>7. /\ q \in Pages /\ q.base = p.base /\ q.fresh = p.fresh /\ q.order = p.order
      /\ q.removed = p.removed
      /\ \A s \in Sids \ {sid} : /\ q.creates[s] = p.creates[s] /\ q.changes[s] = p.changes[s]
                                 /\ q.deletes[s] = p.deletes[s]
  BY DEF OptionSet
<1>8. \A s : Fresh(p, s) <=> Fresh(q, s)
  BY <1>7 DEF Fresh
<1> HIDE DEF opts
<1>9. ASSUME NEW s \in Sids \ {sid}, NEW u \in Options PROVE Get(q, s, u) = opts[s][u]
  <2>1. Get(q, s, u) = Get(p, s, u)
    BY <1>7, <1>8, SameGet
  <2>2. QED
    BY <1>5, <2>1, ViewFacts
<1>10. ASSUME NEW u \in Options PROVE Get(q, sid, u) = opts[sid][u]
  <2>1. /\ p.creates[sid] \in [Options -> Values \cup {None}]
        /\ p.changes[sid] \in [Options -> Values \cup {None}]
    BY PageParts DEF Sections
  <2>2. CASE Fresh(p, sid)
    <3>1. q.creates[sid] = [p.creates[sid] EXCEPT ![o] = v]
      BY <2>2 DEF OptionSet
    <3>2. Get(q, sid, u) = q.creates[sid][u] /\ Get(p, sid, u) = p.creates[sid][u]
      BY <1>8, <2>2 DEF Get
    <3>3. QED
      BY <1>6, <2>1, <3>1, <3>2
  <2>3. CASE ~Fresh(p, sid)
    <3>1. sid \notin p.removed /\ Has(p.base, sid)
      BY <2>3, FreshFacts DEF NotesOK
    <3>2. /\ q.changes[sid] = [p.changes[sid] EXCEPT ![o] = v]
          /\ q.deletes[sid] = p.deletes[sid] \ {o}
      BY <2>3, <3>1 DEF OptionSet
    <3>3. /\ Get(q, sid, u) = IF u \in q.deletes[sid] THEN None
                              ELSE Merge(p.base.opts[sid], q.changes[sid])[u]
          /\ Get(p, sid, u) = IF u \in p.deletes[sid] THEN None
                              ELSE Merge(p.base.opts[sid], p.changes[sid])[u]
      BY <1>7, <1>8, <2>3, <3>1 DEF Get
    <3>4. /\ Merge(p.base.opts[sid], q.changes[sid])[u]
               = IF q.changes[sid][u] = None THEN p.base.opts[sid][u] ELSE q.changes[sid][u]
          /\ Merge(p.base.opts[sid], p.changes[sid])[u]
               = IF p.changes[sid][u] = None THEN p.base.opts[sid][u] ELSE p.changes[sid][u]
      BY DEF Merge
    <3>5. q.changes[sid][u] = IF u = o THEN v ELSE p.changes[sid][u]
      BY <2>1, <3>2
    <3>6. u \in q.deletes[sid] <=> u \in p.deletes[sid] /\ u # o
      BY <3>2
    <3>7. QED
      BY <1>2, <1>6, <3>3, <3>4, <3>5, <3>6
  <2>4. QED
    BY <2>2, <2>3
<1>11. View(q) = [secs |-> p.order, opts |-> opts]
  BY <1>5, <1>7, <1>9, <1>10, ShownAs
<1>12. SetIn(View(p), sid, new) = [secs |-> p.order, opts |-> opts]
  <2>1. Has(View(p), sid)
    BY ViewFacts DEF Has
  <2>2. SetIn(View(p), sid, new) = [View(p) EXCEPT !.opts = opts]
    BY <2>1, ViewType DEF SetIn, opts, Files
  <2>3. QED
    BY <2>2, ViewFacts
<1>13. QED
  BY <1>11, <1>12 DEF new

LEMMA UnsetShown ==
  ASSUME NEW p \in Pages, NotesOK(p), NEW sid \in Sids, NEW o \in Options,
         NEW q, OptionUnset(p, q, sid, o)
  PROVE  View(q) = UnsetIn(View(p), sid, {o})
<1> DEFINE rest == [u \in Options |-> IF u \in {o} THEN None ELSE View(p).opts[sid][u]]
           opts == [View(p).opts EXCEPT ![sid] = rest]
<1>1. View(p).opts \in [Sids -> Sections] /\ View(p).opts[sid] \in Sections
  BY ViewFacts
<1>2. rest \in Sections /\ \A u \in Options : rest[u] = IF u = o THEN None ELSE Get(p, sid, u)
  BY <1>1, ViewFacts DEF Sections
<1> HIDE DEF rest
<1>3. opts \in [Sids -> Sections] /\ opts[sid] = rest
      /\ \A s \in Sids \ {sid} : opts[s] = View(p).opts[s]
  BY <1>1, <1>2
<1>4. /\ q \in Pages /\ q.base = p.base /\ q.fresh = p.fresh /\ q.order = p.order
      /\ q.removed = p.removed /\ q.changes = p.changes
      /\ \A s \in Sids \ {sid} : q.creates[s] = p.creates[s] /\ q.deletes[s] = p.deletes[s]
  BY DEF OptionUnset
<1>5. \A s : Fresh(p, s) <=> Fresh(q, s)
  BY <1>4 DEF Fresh
<1> HIDE DEF opts
<1>6. ASSUME NEW s \in Sids \ {sid}, NEW u \in Options PROVE Get(q, s, u) = opts[s][u]
  <2>1. Get(q, s, u) = Get(p, s, u)
    BY <1>4, <1>5, SameGet
  <2>2. QED
    BY <1>3, <2>1, ViewFacts
<1>7. ASSUME NEW u \in Options PROVE Get(q, sid, u) = IF u = o THEN None ELSE Get(p, sid, u)
  <2>1. p.creates[sid] \in [Options -> Values \cup {None}]
    BY PageParts DEF Sections
  <2>2. CASE Fresh(p, sid)
    <3>1. q.creates[sid] = [p.creates[sid] EXCEPT ![o] = None]
      BY <2>2 DEF OptionUnset
    <3>2. Get(q, sid, u) = q.creates[sid][u] /\ Get(p, sid, u) = p.creates[sid][u]
      BY <1>5, <2>2 DEF Get
    <3>3. QED
      BY <2>1, <3>1, <3>2
  <2>3. CASE ~Fresh(p, sid) /\ Unsettable(p, sid, o)
    <3>1. q.deletes[sid] = p.deletes[sid] \cup {o}
      BY <2>3 DEF OptionUnset
    <3>2. QED
      BY <1>4, <1>5, <2>3, <3>1 DEF Get
  <2>4. CASE ~Fresh(p, sid) /\ ~Unsettable(p, sid, o)
    <3>1. q.deletes = p.deletes /\ q.creates = p.creates
      BY <2>4 DEF OptionUnset
    <3>2. Get(q, sid, u) = Get(p, sid, u)
      BY <1>4, <1>5, <3>1, SameGet
    <3>3. Get(p, sid, o) = None
      <4>1. CASE sid \in p.removed
        BY <2>4, <4>1 DEF Get
      <4>2. CASE p.base.opts[sid][o] = None /\ p.changes[sid][o] = None
        BY <2>4, <4>2 DEF Get, Merge
      <4>3. QED
        BY <2>4, <4>1, <4>2 DEF Unsettable
    <3>4. QED
      BY <3>2, <3>3
  <2>5. QED
    BY <2>2, <2>3, <2>4
<1>8. \A s \in Sids, u \in Options : Get(q, s, u) = opts[s][u]
  BY <1>2, <1>3, <1>6, <1>7
<1>9. View(q) = [secs |-> p.order, opts |-> opts]
  BY <1>3, <1>4, <1>8, ShownAs
<1>10. UnsetIn(View(p), sid, {o}) = [secs |-> p.order, opts |-> opts]
  <2>1. UnsetIn(View(p), sid, {o}) = [View(p) EXCEPT !.opts = opts]
    BY ViewType DEF UnsetIn, opts, rest, Files
  <2>2. QED
    BY <2>1, ViewFacts
<1>11. QED
  BY <1>9, <1>10

LEMMA AddShown ==
  ASSUME NEW p \in Pages, NEW sid \in Named \cup Temps, sid \notin ToSet(p.order)
  PROVE  View(AddSection(p, sid)) = AddTo(View(p), sid, Blank)
<1> DEFINE opts == [View(p).opts EXCEPT ![sid] = Blank]
<1>1. PICK q : q = AddSection(p, sid)
  OBVIOUS
<1>2. /\ q \in Pages /\ q.base = p.base /\ q.removed = p.removed
      /\ q.fresh = Append(p.fresh, sid) /\ q.order = Append(p.order, sid)
      /\ q.changes = p.changes /\ q.deletes = p.deletes
      /\ q.creates[sid] = Blank /\ \A s \in Sids \ {sid} : q.creates[s] = p.creates[s]
  BY <1>1, AddSectionParts
<1>3. \A s : Fresh(q, s) <=> Fresh(p, s) \/ s = sid
  <2>1. p.fresh \in Seq(Named \cup Temps)
    BY PageParts
  <2>2. ToSet(q.fresh) = ToSet(p.fresh) \cup {sid}
    BY <1>2, <2>1, Appended
  <2>3. QED
    BY <1>2, <2>2, FreshFacts
<1>4. sid \in Sids /\ View(p).opts \in [Sids -> Sections]
  BY ViewFacts DEF Sids, Stored
<1>5. /\ opts \in [Sids -> Sections] /\ opts[sid] = Blank
      /\ \A s \in Sids \ {sid} : opts[s] = View(p).opts[s]
  BY <1>4, BlankType
<1> HIDE DEF opts
<1>6. ASSUME NEW s \in Sids, NEW u \in Options PROVE Get(q, s, u) = opts[s][u]
  <2>1. CASE s = sid
    BY <1>2, <1>3, <1>5, <2>1 DEF Get
  <2>2. CASE s # sid
    <3>1. Get(q, s, u) = Get(p, s, u)
      BY <1>2, <1>3, <2>2, SameGet
    <3>2. QED
      BY <1>5, <2>2, <3>1, ViewFacts
  <2>3. QED
    BY <2>1, <2>2
<1>7. View(q) = [secs |-> Append(p.order, sid), opts |-> opts]
  BY <1>2, <1>5, <1>6, ShownAs
<1>8. AddTo(View(p), sid, Blank) = [secs |-> Append(p.order, sid), opts |-> opts]
  <2>1. ~Has(View(p), sid)
    BY ViewFacts, FreshFacts DEF Has
  <2>2. QED
    BY <2>1, ViewFacts DEF AddTo, opts
<1>9. QED
  BY <1>1, <1>7, <1>8

LEMMA RemoveShown ==
  ASSUME NEW p \in Pages, FileOK(p.base), NotesOK(p), NEW sid \in Sids, Contains(p.order, sid)
  PROVE  View(RemoveSection(p, sid)) = DropFrom(View(p), sid)
<1> DEFINE opts == [View(p).opts EXCEPT ![sid] = Blank]
<1>1. PICK q : q = RemoveSection(p, sid)
  OBVIOUS
<1>2. Has(p.base, sid) => sid \in Stored
  BY HasFacts DEF FileOK
<1>3. /\ q \in Pages /\ q.base = p.base
      /\ \A s \in Sids \ {sid} : /\ q.creates[s] = p.creates[s] /\ q.changes[s] = p.changes[s]
                                 /\ q.deletes[s] = p.deletes[s]
  BY <1>1, <1>2, RemoveSectionParts
<1>4. Fresh(p, sid) \/ (sid \notin p.removed /\ Has(p.base, sid))
  BY FreshFacts DEF NotesOK
<1>5. /\ q.order = Without(p.order, sid) /\ ~Fresh(q, sid)
      /\ \A s : s # sid => /\ Fresh(q, s) <=> Fresh(p, s)
                           /\ s \in q.removed <=> s \in p.removed
      /\ \A u \in Options : Get(q, sid, u) = None
  <2>1. CASE Fresh(p, sid)
    <3>1. /\ q.fresh = Without(p.fresh, sid) /\ q.order = Without(p.order, sid)
          /\ q.changes = p.changes /\ q.deletes = p.deletes /\ q.removed = p.removed
      BY <1>1, <1>2, <2>1, RemoveSectionParts
    <3>2. p.fresh \in Seq(Named \cup Temps)
      BY PageParts
    <3>3. ToSet(q.fresh) = ToSet(p.fresh) \ {sid}
      BY <3>1, <3>2, WithoutFacts
    <3>4. \A s : Fresh(q, s) <=> Fresh(p, s) /\ s # sid
      BY <1>3, <3>3, FreshFacts
    <3>5. ASSUME NEW u \in Options PROVE Get(q, sid, u) = None
      <4>1. sid \in p.removed \/ sid \notin ToSet(p.base.secs)
        BY <2>1, FreshFacts DEF NotesOK
      <4>2. CASE sid \in p.removed
        BY <3>1, <3>4, <4>2 DEF Get
      <4>3. CASE sid \notin ToSet(p.base.secs)
        <5>1. p.base.opts[sid] = Blank /\ p.changes[sid] = Blank
          BY <4>3 DEF FileOK, NotesOK
        <5>2. Merge(Blank, Blank)[u] = None
          BY DEF Merge, Blank
        <5>3. QED
          BY <1>3, <3>1, <3>4, <5>1, <5>2 DEF Get
      <4>4. QED
        BY <4>1, <4>2, <4>3
    <3>6. QED
      BY <3>1, <3>4, <3>5
  <2>2. CASE ~Fresh(p, sid) /\ Has(p.base, sid)
    <3>1. /\ q.fresh = p.fresh /\ q.order = Without(p.order, sid)
          /\ q.removed = p.removed \cup {sid}
      BY <1>1, <1>2, <2>2, RemoveSectionParts
    <3>2. \A s : Fresh(q, s) <=> Fresh(p, s)
      BY <3>1 DEF Fresh
    <3>3. \A u \in Options : Get(q, sid, u) = None
      BY <2>2, <3>1, <3>2 DEF Get
    <3>4. QED
      BY <2>2, <3>1, <3>2, <3>3
  <2>3. QED
    BY <1>4, <2>1, <2>2
<1>6. View(p).opts \in [Sids -> Sections]
  BY ViewFacts
<1>7. /\ opts \in [Sids -> Sections] /\ opts[sid] = Blank
      /\ \A s \in Sids \ {sid} : opts[s] = View(p).opts[s]
  BY <1>6, BlankType
<1> HIDE DEF opts
<1>8. ASSUME NEW s \in Sids, NEW u \in Options PROVE Get(q, s, u) = opts[s][u]
  <2>1. CASE s = sid
    BY <1>5, <1>7, <2>1 DEF Blank
  <2>2. CASE s # sid
    <3>1. Get(q, s, u) = Get(p, s, u)
      BY <1>3, <1>5, <2>2, SameGet
    <3>2. QED
      BY <1>7, <2>2, <3>1, ViewFacts
  <2>3. QED
    BY <2>1, <2>2
<1>9. View(q) = [secs |-> Without(p.order, sid), opts |-> opts]
  BY <1>3, <1>5, <1>7, <1>8, ShownAs
<1>10. DropFrom(View(p), sid) = [secs |-> Without(p.order, sid), opts |-> opts]
  BY ViewFacts DEF DropFrom, opts
<1>11. QED
  BY <1>1, <1>9, <1>10

\* While no two saves are under way at once, an option set is the option that
\* get() of uci.js tells next, and an edit changes nothing else of what get()
\* and sections() tell: whatever the section was created from, whatever was
\* noted on it before, and between whichever steps of a save the edit comes.
THEOREM EditsShow ==
  ASSUME OneSave
  PROVE  Spec => EditShown
<1> DEFINE Shown ==
      \A sid \in Sids, o \in Options :
        /\ \A v \in Values :
             PageSet(sid, o, v)
               => View(page)' = SetIn(View(page), sid, [Blank EXCEPT ![o] = v])
        /\ PageUnset(sid, o) => View(page)' = UnsetIn(View(page), sid, {o})
        /\ PageAdd(sid) => View(page)' = AddTo(View(page), sid, Blank)
        /\ PageRemove(sid) => View(page)' = DropFrom(View(page), sid)
<1>1. CacheInv /\ NotesInv => Shown
  <2> SUFFICES ASSUME CacheInv, NotesInv, NEW sid \in Sids, NEW o \in Options
               PROVE  /\ \A v \in Values :
                           PageSet(sid, o, v)
                             => View(page)' = SetIn(View(page), sid, [Blank EXCEPT ![o] = v])
                      /\ PageUnset(sid, o) => View(page)' = UnsetIn(View(page), sid, {o})
                      /\ PageAdd(sid) => View(page)' = AddTo(View(page), sid, Blank)
                      /\ PageRemove(sid) => View(page)' = DropFrom(View(page), sid)
    OBVIOUS
  <2>1. page \in Pages /\ FileOK(page.base) /\ NotesOK(page)
    BY DEF CacheInv, NotesInv
  <2>2. ASSUME NEW v \in Values, PageSet(sid, o, v)
        PROVE  View(page)' = SetIn(View(page), sid, [Blank EXCEPT ![o] = v])
    <3>1. Contains(page.order, sid) /\ OptionSet(page, page', sid, o, v)
      BY <2>1, <2>2, SetOptionParts DEF PageSet, Editing
    <3>2. View(page') = SetIn(View(page), sid, [Blank EXCEPT ![o] = v])
      BY <2>1, <3>1, SetShown
    <3>3. QED
      BY <3>2
  <2>3. ASSUME PageUnset(sid, o)
        PROVE  View(page)' = UnsetIn(View(page), sid, {o})
    <3>1. OptionUnset(page, page', sid, o)
      BY <2>1, <2>3, UnsetOptionParts DEF PageUnset
    <3>2. View(page') = UnsetIn(View(page), sid, {o})
      BY <2>1, <3>1, UnsetShown
    <3>3. QED
      BY <3>2
  <2>4. ASSUME PageAdd(sid)
        PROVE  View(page)' = AddTo(View(page), sid, Blank)
    <3>1. /\ sid \in Named \cup Temps /\ page' = AddSection(page, sid)
          /\ \/ sid \in Temps /\ ~Fresh(page, sid)
             \/ sid \in Named /\ page.loaded /\ ~Contains(page.order, sid)
      BY <2>4 DEF PageAdd
    <3>2. sid \notin ToSet(page.order)
      BY <2>1, <3>1, AddSectionNotes
    <3>3. View(AddSection(page, sid)) = AddTo(View(page), sid, Blank)
      BY <2>1, <3>1, <3>2, AddShown
    <3>4. QED
      BY <3>1, <3>3
  <2>5. ASSUME PageRemove(sid)
        PROVE  View(page)' = DropFrom(View(page), sid)
    <3>1. page' = RemoveSection(page, sid) /\ Contains(page.order, sid)
      BY <2>5 DEF PageRemove, Editing
    <3>2. View(RemoveSection(page, sid)) = DropFrom(View(page), sid)
      BY <2>1, <3>1, RemoveShown
    <3>3. QED
      BY <3>1, <3>2
  <2>6. QED
    BY <2>2, <2>3, <2>4, <2>5
<1>2. QED
  BY NotesInvariant, <1>1, PTL DEF EditShown

-----------------------------------------------------------------------------
(* Sections added once *)

LEMMA TouchedStays ==
  ASSUME NEW p \in Pages, p.touched
  PROVE  /\ \A sid, o, v : SetOption(p, sid, o, v).touched
         /\ \A sid, o : UnsetOption(p, sid, o).touched
         /\ \A sid : RemoveSection(p, sid).touched
         /\ \A sid, ref, after : MoveSection(p, sid, ref, after).touched
         /\ \A file : Install(p, file).touched
<1>1. \A sid, o, v : SetOption(p, sid, o, v).touched
  BY DEF SetOption, Pages
<1>2. \A sid, o : UnsetOption(p, sid, o).touched
  BY DEF UnsetOption, Pages
<1>3. \A sid : RemoveSection(p, sid).touched
  BY DEF RemoveSection, Pages
<1>4. \A sid, ref, after : MoveSection(p, sid, ref, after).touched
  BY DEF MoveSection, Pages
<1>5. \A file : Install(p, file).touched
  BY DEF Install, Pages
<1>6. QED
  BY <1>1, <1>2, <1>3, <1>4, <1>5

LEMMA AddTouches ==
  ASSUME NEW p \in Pages, NEW sid
  PROVE  AddSection(p, sid).touched
BY DEF AddSection, Pages

\* No section of the device has this identifier of the page as its origin.
Unknown(x) == \A t \in Pool : origin[t] # x

\* A save knows the identifiers it sends, and the device none of those it has
\* not carried out; it loads the file anew once it has sent any.
SendsOnce(s) ==
  /\ s.pc = "idle" => s.snew = <<>>
  /\ s.snew # <<>> => s.dirty
  /\ s.pc \in {"load", "loaded"} => ToSet(page.fresh) \cap ToSet(s.snew) = {}
  /\ s.pc = "calls" =>
       /\ AddsDiffer(s.calls)
       /\ \A i \in 1..Len(s.calls) :
            s.calls[i].op = "add" /\ s.calls[i].sid \in Temps
              => s.calls[i].sid \in ToSet(s.snew) /\ Unknown(s.calls[i].sid)

\* The device does not know what the page created and no save has sent yet.
AddsInv ==
  /\ page.fresh # <<>> => page.touched
  /\ \A k \in Slots : SendsOnce(save[k])
  /\ \A x \in Temps \cap ToSet(page.fresh) :
       (\A k \in Slots : x \notin ToSet(save[k].snew)) => Unknown(x)
  /\ AddedOnce

LEMMA NothingSent ==
  /\ Idle.snew = <<>> /\ Idle.pc = "idle"
  /\ ToSet(<<>>) = {}
BY DEF Idle, ToSet

LEMMA AddsInit == Init => AddsInv
<1> SUFFICES ASSUME Init PROVE AddsInv
  OBVIOUS
<1>1. /\ page = Install(Unloaded, remote) /\ save = [k \in Slots |-> Idle]
      /\ origin = [s \in Pool |-> None]
  BY DEF Init
<1>2. page.fresh = <<>>
  BY <1>1 DEF Install, Unloaded
<1>3. \A k \in Slots : SendsOnce(save[k])
  BY <1>1, NothingSent DEF SendsOnce
<1>4. AddedOnce
  BY <1>1 DEF AddedOnce
<1>5. QED
  BY <1>2, <1>3, <1>4, NothingSent DEF AddsInv

LEMMA SpoiledSends ==
  ASSUME CacheInv
  PROVE  \A k \in Slots : /\ Spoiled[k].pc = save[k].pc
                          /\ save[k].pc # "idle" => /\ Spoiled[k].snew = save[k].snew
                                                    /\ Spoiled[k].dirty = save[k].dirty
                                                    /\ Spoiled[k].calls = save[k].calls
                          /\ save[k].pc = "idle" => Spoiled[k].snew = <<>>
<1> SUFFICES ASSUME NEW k \in Slots
             PROVE  /\ Spoiled[k].pc = save[k].pc
                    /\ save[k].pc # "idle" => /\ Spoiled[k].snew = save[k].snew
                                              /\ Spoiled[k].dirty = save[k].dirty
                                              /\ Spoiled[k].calls = save[k].calls
                    /\ save[k].pc = "idle" => Spoiled[k].snew = <<>>
  OBVIOUS
<1>1. Spoiled[k] = IF save[k].pc = "idle" THEN Idle ELSE Spoil(save[k])
  BY DEF Spoiled
<1>2. save[k] \in SaveRecords
  BY DEF CacheInv
<1>3. QED
  BY <1>1, <1>2, SpoilParts, NothingSent

\* An edit that creates nothing.
LEMMA EditAdds ==
  ASSUME CacheInv, AddsInv, save' = Spoiled, remote' = remote, origin' = origin,
         ToSet(page'.fresh) \subseteq ToSet(page.fresh),
         page'.fresh # <<>> => page'.touched
  PROVE  AddsInv'
<1>1. \A k \in Slots : SendsOnce(save[k])
  BY DEF AddsInv
<1>2. ASSUME NEW k \in Slots
      PROVE  ToSet(save'[k].snew) = ToSet(save[k].snew) /\ SendsOnce(save[k])'
  <2>1. CASE save[k].pc = "idle"
    <3>1. save[k].snew = <<>> /\ save'[k].snew = <<>> /\ save'[k].pc = "idle"
      BY <1>1, <2>1, SpoiledSends DEF SendsOnce
    <3>2. QED
      BY <3>1 DEF SendsOnce
  <2>2. CASE save[k].pc # "idle"
    <3>1. /\ save'[k].pc = save[k].pc /\ save'[k].snew = save[k].snew
          /\ save'[k].dirty = save[k].dirty /\ save'[k].calls = save[k].calls
      BY <2>2, SpoiledSends
    <3>2. SendsOnce(save[k])
      BY <1>1
    <3>3. QED
      BY <3>1, <3>2 DEF SendsOnce, Unknown
  <2>3. QED
    BY <2>1, <2>2
<1>3. AddedOnce'
  BY DEF AddsInv, AddedOnce
<1>4. ASSUME NEW x \in Temps \cap ToSet(page'.fresh),
             \A k \in Slots : x \notin ToSet(save'[k].snew)
      PROVE  Unknown(x)'
  BY <1>2, <1>4 DEF AddsInv, Unknown
<1>5. QED
  BY <1>2, <1>3, <1>4 DEF AddsInv

LEMMA SomeElement ==
  ASSUME NEW S, NEW s \in Seq(S), s # <<>>
  PROVE  ToSet(s) # {}
<1>1. Len(s) # 0 /\ Len(s) \in Nat
  BY EmptySeq, LenProperties
<1>2. 1 \in 1..Len(s)
  BY <1>1
<1>3. s[1] \in ToSet(s)
  BY <1>2, Membership
<1>4. QED
  BY <1>3

LEMMA ChangeAdds ==
  ASSUME CacheInv, AddsInv, NEW sid \in Sids,
         \/ \E o \in Options : PageUnset(sid, o) \/ \E v \in Values : PageSet(sid, o, v)
         \/ \E ref \in Sids \cup {None}, after \in BOOLEAN : PageMove(sid, ref, after)
  PROVE  AddsInv'
<1>1. save' = Spoiled /\ remote' = remote /\ origin' = origin /\ page \in Pages
  BY DEF CacheInv, PageUnset, PageSet, PageMove, Editing
<1>2. page'.fresh = page.fresh /\ (page.touched => page'.touched)
  <2>1. ASSUME NEW o \in Options, PageUnset(sid, o)
        PROVE  page'.fresh = page.fresh /\ (page.touched => page'.touched)
    <3>1. page' = UnsetOption(page, sid, o)
      BY <2>1 DEF PageUnset
    <3>2. OptionUnset(page, page', sid, o)
      BY <1>1, <3>1, UnsetOptionParts
    <3>3. QED
      BY <1>1, <3>1, <3>2, TouchedStays DEF OptionUnset
  <2>2. ASSUME NEW o \in Options, NEW v \in Values, PageSet(sid, o, v)
        PROVE  page'.fresh = page.fresh /\ (page.touched => page'.touched)
    <3>1. page' = SetOption(page, sid, o, v)
      BY <2>2 DEF PageSet
    <3>2. OptionSet(page, page', sid, o, v)
      BY <1>1, <3>1, SetOptionParts
    <3>3. QED
      BY <1>1, <3>1, <3>2, TouchedStays DEF OptionSet
  <2>3. ASSUME NEW ref \in Sids \cup {None}, NEW after \in BOOLEAN, PageMove(sid, ref, after)
        PROVE  page'.fresh = page.fresh /\ (page.touched => page'.touched)
    <3>1. /\ page' = MoveSection(page, sid, ref, after) /\ Contains(page.order, sid)
          /\ ref # sid /\ (ref # None => Contains(page.order, ref))
      BY <2>3 DEF PageMove, Editing
    <3>2. MoveSection(page, sid, ref, after).fresh = page.fresh
      BY <1>1, <3>1, MoveSectionParts
    <3>3. QED
      BY <1>1, <3>1, <3>2, TouchedStays
  <2>4. QED
    BY <2>1, <2>2, <2>3
<1>3. page'.fresh # <<>> => page'.touched
  BY <1>2 DEF AddsInv
<1>4. QED
  BY <1>1, <1>2, <1>3, EditAdds

LEMMA RemoveAdds ==
  ASSUME CacheInv, AddsInv, NEW sid \in Sids, PageRemove(sid)
  PROVE  AddsInv'
<1>1. /\ save' = Spoiled /\ remote' = remote /\ origin' = origin /\ page \in Pages
      /\ page' = RemoveSection(page, sid) /\ FileOK(page.base)
  BY DEF CacheInv, PageRemove, Editing
<1>2. Has(page.base, sid) => sid \in Stored
  BY <1>1, HasFacts DEF FileOK
<1>3. page'.fresh = page.fresh \/ page'.fresh = Without(page.fresh, sid)
  <2>1. CASE Fresh(page, sid)
    BY <1>1, <1>2, <2>1, RemoveSectionParts
  <2>2. CASE ~Fresh(page, sid) /\ ~Has(page.base, sid)
    BY <1>1, <1>2, <2>2, RemoveSectionParts
  <2>3. CASE ~Fresh(page, sid) /\ Has(page.base, sid)
    BY <1>1, <1>2, <2>3, RemoveSectionParts
  <2>4. QED
    BY <2>1, <2>2, <2>3
<1>4. page.fresh \in Seq(Named \cup Temps)
  BY <1>1, PageParts
<1>5. page'.fresh \in Seq(Named \cup Temps) /\ ToSet(page'.fresh) \subseteq ToSet(page.fresh)
  BY <1>3, <1>4, WithoutFacts
<1>6. page'.fresh # <<>> => page.fresh # <<>>
  BY <1>4, <1>5, SomeElement, NothingSent
<1>7. page.touched => page'.touched
  BY <1>1, TouchedStays
<1>8. page'.fresh # <<>> => page'.touched
  BY <1>6, <1>7 DEF AddsInv
<1>9. QED
  BY <1>1, <1>5, <1>8, EditAdds

\* What is created has an identifier no save under way sends and, if the device
\* knew it, knows no longer.
LEMMA CreateAdds ==
  ASSUME CacheInv, NotesInv, AddsInv, NEW sid \in Sids, PageAdd(sid)
  PROVE  AddsInv'
<1>1. /\ save' = Spoiled /\ remote' = remote /\ page \in Pages /\ sid \in Named \cup Temps
      /\ page' = AddSection(page, sid)
      /\ origin' = [s \in Pool |-> IF origin[s] = sid THEN None ELSE origin[s]]
      /\ \/ sid \in Temps /\ \A k \in Slots : ~Contains(save[k].snew, sid)
         \/ sid \in Named /\ page.loaded
  BY DEF CacheInv, PageAdd
<1>2. page.fresh \in Seq(Named \cup Temps)
  BY <1>1, PageParts
<1>3. ToSet(page'.fresh) = ToSet(page.fresh) \cup {sid} /\ page'.touched
  <2>1. AddSection(page, sid).fresh = Append(page.fresh, sid)
    BY <1>1, AddSectionParts
  <2>2. ToSet(Append(page.fresh, sid)) = ToSet(page.fresh) \cup {sid}
    BY <1>1, <1>2, Appended
  <2>3. QED
    BY <1>1, <2>1, <2>2, AddTouches
<1>4. \A t \in Pool : origin'[t] = None \/ (origin'[t] = origin[t] /\ origin[t] # sid)
  BY <1>1
<1>5. \A x \in Temps : Unknown(x) => Unknown(x)'
  BY <1>4, NoneAssumption DEF Unknown
<1>6. sid \in Temps => Unknown(sid)'
  BY <1>4, NoneAssumption DEF Unknown
<1>7. ASSUME NEW k \in Slots
      PROVE  ToSet(save'[k].snew) = ToSet(save[k].snew) /\ SendsOnce(save[k])'
  <2>1. CASE save[k].pc = "idle"
    <3>1. save[k].snew = <<>> /\ save'[k].snew = <<>> /\ save'[k].pc = "idle"
      BY <1>1, <2>1, SpoiledSends DEF AddsInv, SendsOnce
    <3>2. QED
      BY <3>1 DEF SendsOnce
  <2>2. CASE save[k].pc # "idle"
    <3>1. /\ save'[k].pc = save[k].pc /\ save'[k].snew = save[k].snew
          /\ save'[k].dirty = save[k].dirty /\ save'[k].calls = save[k].calls
      BY <1>1, <2>2, SpoiledSends
    <3>2. SendsOnce(save[k]) /\ save[k] \in SaveRecords
      BY DEF AddsInv, CacheInv
    <3>3. ASSUME save[k].pc \in {"load", "loaded"} PROVE sid \notin ToSet(save[k].snew)
      <4>1. ~page.loaded
        BY <3>3 DEF NotesInv
      <4>2. save[k].snew \in Seq(Named \cup Temps)
        BY <3>2, SaveParts
      <4>3. QED
        BY <1>1, <4>1, <4>2, Membership
    <3>4. save'[k].pc \in {"load", "loaded"} => ToSet(page'.fresh) \cap ToSet(save'[k].snew) = {}
      BY <1>3, <3>1, <3>2, <3>3 DEF SendsOnce
    <3>5. QED
      BY <1>5, <3>1, <3>2, <3>4 DEF SendsOnce
  <2>3. QED
    BY <2>1, <2>2
<1>8. AddedOnce'
  <2>1. \A s, t \in Pool : origin'[s] = origin'[t] /\ origin'[s] # None => origin[s] = origin[t] /\ origin[s] # None
    BY <1>4
  <2>2. QED
    BY <1>1, <2>1 DEF AddsInv, AddedOnce
<1>9. ASSUME NEW x \in Temps \cap ToSet(page'.fresh),
             \A k \in Slots : x \notin ToSet(save'[k].snew)
      PROVE  Unknown(x)'
  <2>1. CASE x = sid
    BY <1>6, <2>1
  <2>2. CASE x # sid
    <3>1. x \in ToSet(page.fresh) /\ \A k \in Slots : x \notin ToSet(save[k].snew)
      BY <1>3, <1>7, <1>9, <2>2
    <3>2. QED
      BY <1>5, <3>1 DEF AddsInv
  <2>3. QED
    BY <2>1, <2>2
<1>10. QED
  BY <1>3, <1>7, <1>8, <1>9 DEF AddsInv

\* Steps of the only save there is that leave the device alone.
LEMMA SaveAdds ==
  ASSUME OneSave, AddsInv, NEW k \in Slots, SendsOnce(save[k])',
         remote' = remote, origin' = origin,
         page'.fresh # <<>> => page'.touched,
         \A x \in Temps \cap ToSet(page'.fresh) : x \notin ToSet(save'[k].snew) => Unknown(x)
  PROVE  AddsInv'
<1>1. \A j \in Slots : j = k
  BY DEF OneSave
<1>2. AddedOnce'
  BY DEF AddsInv, AddedOnce
<1>3. \A x : Unknown(x) => Unknown(x)'
  BY DEF Unknown
<1>4. QED
  BY <1>1, <1>2, <1>3 DEF AddsInv

LEMMA ReloadAdds ==
  ASSUME OneSave, CacheInv, AddsInv, NEW k \in Slots, NEW s \in SaveRecords,
         s.snew # <<>> => s.dirty, ToSet(save[k].snew) \subseteq ToSet(s.snew),
         NEW p \in Pages, p.fresh = page.fresh, p.touched = page.touched,
         remote' = remote, origin' = origin,
         \/ SameNotes(p, page') /\ save'[k] = Idle /\ ~s.dirty
         \/ SameNotes(p, page') /\ save'[k] = [s EXCEPT !.pc = "order", !.names = NamesInOrder(p)]
         \/ Forgotten(page') /\ save'[k] = [s EXCEPT !.pc = "load"] /\ s.dirty
  PROVE  AddsInv'
<1>1. page.fresh # <<>> => page.touched
  BY DEF AddsInv
<1>2. ASSUME NEW x \in Temps \cap ToSet(page.fresh), x \notin ToSet(s.snew) PROVE Unknown(x)
  <2>1. \A j \in Slots : x \notin ToSet(save[j].snew)
    BY <1>2 DEF OneSave
  <2>2. QED
    BY <2>1 DEF AddsInv
<1>3. CASE SameNotes(p, page') /\ save'[k] = Idle /\ ~s.dirty
  <2>1. SendsOnce(save[k])'
    BY <1>3, NothingSent DEF SendsOnce
  <2>2. ToSet(s.snew) = {}
    BY <1>3, NothingSent
  <2>3. QED
    BY <1>1, <1>2, <1>3, <2>1, <2>2, SaveAdds DEF SameNotes
<1>4. CASE /\ SameNotes(p, page')
           /\ save'[k] = [s EXCEPT !.pc = "order", !.names = NamesInOrder(p)]
  <2>1. save'[k].pc = "order" /\ save'[k].snew = s.snew /\ save'[k].dirty = s.dirty
    BY <1>4 DEF SaveRecords
  <2>2. SendsOnce(save[k])'
    BY <2>1 DEF SendsOnce
  <2>3. QED
    BY <1>1, <1>2, <1>4, <2>1, <2>2, SaveAdds DEF SameNotes
<1>5. CASE Forgotten(page') /\ save'[k] = [s EXCEPT !.pc = "load"] /\ s.dirty
  <2>1. save'[k].pc = "load" /\ save'[k].snew = s.snew /\ save'[k].dirty = s.dirty
    BY <1>5 DEF SaveRecords
  <2>2. page'.fresh = <<>> /\ ToSet(page'.fresh) = {}
    BY <1>5, NothingSent DEF Forgotten
  <2>3. SendsOnce(save[k])'
    BY <1>5, <2>1, <2>2 DEF SendsOnce
  <2>4. QED
    BY <2>2, <2>3, SaveAdds
<1>6. QED
  BY <1>3, <1>4, <1>5

LEMMA SaveStartAdds ==
  ASSUME OneSave, CacheInv, NotesInv, AddsInv, NEW k \in Slots, SaveStart(k)
  PROVE  AddsInv'
<1> DEFINE s == [Idle EXCEPT !.pc = "calls", !.calls = Calls(page), !.snew = page.fresh,
                             !.dirty = Dirty(page), !.want = View(page),
                             !.plain = Faithful(page)]
           t == IF page.loaded /\ Active = {} THEN s ELSE Spoil(s)
<1>1. /\ s \in SaveRecords /\ s.pc = "calls" /\ s.calls = Calls(page) /\ s.snew = page.fresh
      /\ s.dirty = Dirty(page)
  <2>1. /\ Calls(page) \in Seq(CallRecords) /\ page.fresh \in Seq(Named \cup Temps)
        /\ View(page) \in Files /\ Dirty(page) \in BOOLEAN
    BY CallsMade, PageParts, ViewType DEF CacheInv, Dirty
  <2>2. Faithful(page) \in BOOLEAN
    BY DEF Faithful
  <2>3. s \in SaveRecords
    BY <2>1, <2>2, IdleOK DEF SaveRecords, Steps
  <2>4. QED
    BY <2>3 DEF Idle
<1>2. /\ IF s.calls = <<>> THEN Continue(k, t, page)
         ELSE page' = page /\ save' = [Spoiled EXCEPT ![k] = t]
      /\ save[k].pc = "idle" /\ remote' = remote /\ origin' = origin
  BY DEF SaveStart
<1> HIDE DEF s
<1>3. /\ t \in SaveRecords /\ t.pc = "calls" /\ t.calls = Calls(page) /\ t.snew = page.fresh
      /\ t.dirty = Dirty(page)
  BY <1>1, SpoilParts
<1>4. page \in Pages /\ IsInjective(page.fresh)
  BY DEF CacheInv, NotesInv, NotesOK
<1> HIDE DEF t
<1>5. t.snew # <<>> => t.dirty
  BY <1>3 DEF AddsInv, Dirty
<1>6. save[k].snew = <<>> /\ ToSet(save[k].snew) = {}
  BY <1>2, NothingSent DEF AddsInv, SendsOnce
<1>7. CASE s.calls = <<>>
  <2>1. Ends(k, t, page)
    <3>1. save \in [Slots -> SaveRecords] /\ Continue(k, t, page) /\ t \in SaveRecords
          /\ page \in Pages
      BY <1>2, <1>3, <1>7 DEF CacheInv
    <3>2. QED
      BY <3>1, ContinueStep, Zenon
  <2>2. QED
    BY <1>2, <1>3, <1>4, <1>5, <1>6, <2>1, ReloadAdds DEF Ends
<1>8. CASE s.calls # <<>>
  <2>1. page' = page /\ save'[k] = t
    <3>1. Spoiled \in [Slots -> SaveRecords]
      BY SpoiledOK
    <3>2. QED
      BY <1>2, <1>8, <3>1
  <2>2. \A x \in Temps \cap ToSet(page.fresh) : Unknown(x)
    BY <1>6 DEF AddsInv, OneSave
  <2>3. AddsDiffer(t.calls)
    BY <1>3, <1>4, CallsMade
  <2>4. ASSUME NEW i \in 1..Len(t.calls), t.calls[i].op = "add", t.calls[i].sid \in Temps
        PROVE  t.calls[i].sid \in ToSet(t.snew) /\ Unknown(t.calls[i].sid)
    BY <1>3, <1>4, <2>2, <2>4, CallsMade
  <2>5. SendsOnce(save[k])'
    BY <1>2, <1>3, <1>5, <2>1, <2>3, <2>4 DEF SendsOnce, Unknown
  <2>6. page'.fresh # <<>> => page'.touched
    BY <2>1 DEF AddsInv
  <2>7. QED
    BY <1>2, <2>1, <2>2, <2>5, <2>6, SaveAdds
<1>9. QED
  BY <1>7, <1>8

LEMMA AnsweredAdds ==
  ASSUME OneSave, CacheInv, AddsInv, NEW k \in Slots, Answered(k)
  PROVE  AddsInv'
<1>1. /\ SaveOK(save[k]) /\ save[k].pc = "answered" /\ page \in Pages
      /\ Continue(k, save[k], Renamed(page, save[k])) /\ remote' = remote /\ origin' = origin
  BY DEF CacheInv, Answered
<1>2. save[k] \in SaveRecords /\ Len(save[k].snew) <= Len(save[k].replies)
  BY <1>1 DEF SaveOK
<1>3. PICK p \in Pages : p = Renamed(page, save[k]) /\ SameNotes(page, p)
  BY <1>1, <1>2, RenamedParts
<1>4. \/ SameNotes(p, page') /\ save'[k] = Idle /\ ~save[k].dirty
      \/ SameNotes(p, page') /\ save'[k] = [save[k] EXCEPT !.pc = "order", !.names = NamesInOrder(p)]
      \/ Forgotten(page') /\ save'[k] = [save[k] EXCEPT !.pc = "load"] /\ save[k].dirty
  <2>1. save \in [Slots -> SaveRecords] /\ Continue(k, save[k], p)
    BY <1>1, <1>3 DEF CacheInv
  <2>2. QED
    BY <1>2, <2>1, ContinueStep, Zenon DEF Ends
<1>5. save[k].snew # <<>> => save[k].dirty
  BY DEF AddsInv, SendsOnce
<1>6. p.fresh = page.fresh /\ p.touched = page.touched
  BY <1>3 DEF SameNotes
<1>7. QED
  BY <1>1, <1>2, <1>4, <1>5, <1>6, ReloadAdds

LEMMA OrderedAdds ==
  ASSUME OneSave, CacheInv, AddsInv, NEW k \in Slots, Ordered(k)
  PROVE  AddsInv'
<1>1. /\ save[k] \in SaveRecords /\ save \in [Slots -> SaveRecords] /\ page \in Pages
      /\ Reload(k, save[k], page) /\ remote' = remote /\ origin' = origin
  BY DEF CacheInv, Ordered
<1>2. \/ SameNotes(page, page') /\ save'[k] = Idle /\ ~save[k].dirty
      \/ Forgotten(page') /\ save'[k] = [save[k] EXCEPT !.pc = "load"] /\ save[k].dirty
  BY <1>1, ReloadStep
<1>3. save[k].snew # <<>> => save[k].dirty
  BY DEF AddsInv, SendsOnce
<1>4. QED
  BY <1>1, <1>2, <1>3, ReloadAdds

LEMMA LoadedAdds ==
  ASSUME OneSave, CacheInv, AddsInv, NEW k \in Slots, Loaded(k)
  PROVE  AddsInv'
<1>1. /\ save' = [save EXCEPT ![k] = Idle] /\ page' = Install(page, save[k].file)
      /\ FileOK(save[k].file) /\ page \in Pages /\ save[k].pc = "loaded"
      /\ save \in [Slots -> SaveRecords] /\ remote' = remote /\ origin' = origin
  BY DEF CacheInv, SaveOK, Loaded
<1>2. page'.fresh = page.fresh /\ (page.touched => page'.touched)
  <2>1. Install(page, save[k].file).fresh = page.fresh
    BY <1>1, InstallParts
  <2>2. QED
    BY <1>1, <2>1, TouchedStays
<1>3. save'[k] = Idle
  BY <1>1
<1>4. SendsOnce(save[k])'
  BY <1>3, NothingSent DEF SendsOnce
<1>5. ASSUME NEW x \in Temps \cap ToSet(page.fresh) PROVE Unknown(x)
  <2>1. ToSet(page.fresh) \cap ToSet(save[k].snew) = {}
    BY <1>1 DEF AddsInv, SendsOnce
  <2>2. \A j \in Slots : x \notin ToSet(save[j].snew)
    BY <2>1 DEF OneSave
  <2>3. QED
    BY <2>2 DEF AddsInv
<1>6. page'.fresh # <<>> => page'.touched
  BY <1>2 DEF AddsInv
<1>7. QED
  BY <1>1, <1>2, <1>4, <1>5, <1>6, SaveAdds

LEMMA GetAdds ==
  ASSUME OneSave, CacheInv, AddsInv, NEW k \in Slots, ServerGet(k)
  PROVE  AddsInv'
<1>1. /\ save[k] \in SaveRecords /\ save \in [Slots -> SaveRecords] /\ save[k].pc = "load"
      /\ save' = [save EXCEPT ![k].pc = "loaded", ![k].file = remote]
      /\ page' = page /\ remote' = remote /\ origin' = origin
  BY DEF CacheInv, ServerGet
<1>2. save'[k].pc = "loaded" /\ save'[k].snew = save[k].snew /\ save'[k].dirty = save[k].dirty
  BY <1>1 DEF SaveRecords
<1>3. SendsOnce(save[k])'
  BY <1>1, <1>2 DEF AddsInv, SendsOnce
<1>4. QED
  BY <1>1, <1>2, <1>3, SaveAdds DEF AddsInv, OneSave

\* The order the sections are put in does not change which there are.
LEMMA OrderAdds ==
  ASSUME OneSave, CacheInv, AddsInv, NEW k \in Slots, ServerOrder(k)
  PROVE  AddsInv'
<1>1. /\ save[k] \in SaveRecords /\ save \in [Slots -> SaveRecords]
      /\ page' = page /\ origin' = origin /\ FileOK(remote)
      /\ remote' = remote \/ remote' = OrderIn(remote, save[k].names)
  BY DEF CacheInv, ServerOrder
<1>2. /\ save'[k].pc = "ordered" /\ save'[k].snew = save[k].snew
      /\ save'[k].dirty = save[k].dirty
  <2>1. CASE save' = [save EXCEPT ![k].pc = "ordered"]
    BY <1>1, <2>1 DEF SaveRecords
  <2>2. CASE save' = [save EXCEPT ![k] = [Spoil(@) EXCEPT !.pc = "ordered"]]
    BY <1>1, <2>2, SpoilParts DEF SaveRecords
  <2>3. QED
    BY <2>1, <2>2 DEF ServerOrder
<1>3. SendsOnce(save[k])'
  BY <1>1, <1>2 DEF AddsInv, SendsOnce
<1>4. \A s : Has(remote', s) => Has(remote, s)
  <2>1. PICK f : f = OrderIn(remote, save[k].names)
    OBVIOUS
  <2>2. FileOK(f) /\ ToSet(f.secs) = ToSet(remote.secs)
    BY <1>1, <2>1, SaveParts, OrderInOK
  <2>3. QED
    BY <1>1, <2>1, <2>2, HasFacts DEF FileOK
<1>5. AddedOnce'
  BY <1>1, <1>4 DEF AddsInv, AddedOnce
<1>6. \A j \in Slots : j = k
  BY DEF OneSave
<1>7. ASSUME NEW x \in Temps \cap ToSet(page'.fresh), \A j \in Slots : x \notin ToSet(save'[j].snew)
      PROVE  Unknown(x)'
  BY <1>1, <1>2, <1>6, <1>7 DEF AddsInv, Unknown
<1>8. QED
  BY <1>1, <1>3, <1>5, <1>6, <1>7 DEF AddsInv

LEMMA HasAfter ==
  ASSUME NEW f, FileOK(f), NEW sid \in Sids, NEW new \in Sections, NEW gone, NEW s
  PROVE  /\ Has(DropFrom(f, sid), s) => Has(f, s)
         /\ Has(UnsetIn(f, sid, gone), s) => Has(f, s)
         /\ Has(SetIn(f, sid, new), s) => Has(f, s)
         /\ sid \in Stored => (Has(AddTo(f, sid, new), s) => Has(f, s) \/ s = sid)
<1>1. f \in Files /\ f.secs \in Seq(Sids)
  BY DEF FileOK, Files
<1>2. Has(DropFrom(f, sid), s) => Has(f, s)
  <2>1. PICK g : g = DropFrom(f, sid)
    OBVIOUS
  <2>2. g \in Files /\ g.secs = Without(f.secs, sid)
    BY <2>1, DropFromOK DEF DropFrom, FileOK
  <2>3. QED
    BY <1>1, <2>1, <2>2, HasFacts, WithoutFacts
<1>3. Has(UnsetIn(f, sid, gone), s) => Has(f, s)
  <2>1. UnsetIn(f, sid, gone).secs = f.secs
    BY <1>1 DEF UnsetIn, Files
  <2>2. QED
    BY <2>1 DEF Has
<1>4. SetIn(f, sid, new).secs = f.secs
  BY <1>1 DEF SetIn, Files
<1>5. ASSUME sid \in Stored, Has(AddTo(f, sid, new), s) PROVE Has(f, s) \/ s = sid
  <2>1. CASE Has(f, sid)
    BY <1>4, <1>5, <2>1 DEF AddTo, Has
  <2>2. CASE ~Has(f, sid)
    <3>1. PICK g : g = AddTo(f, sid, new)
      OBVIOUS
    <3>2. g \in Files /\ g.secs = Append(f.secs, sid)
      BY <1>5, <2>2, <3>1, AddToOK DEF AddTo, FileOK
    <3>3. ToSet(g.secs) = ToSet(f.secs) \cup {sid}
      BY <1>1, <3>2, Appended
    <3>4. QED
      BY <1>1, <1>5, <3>1, <3>2, <3>3, HasFacts
  <2>3. QED
    BY <2>1, <2>2
<1>6. QED
  BY <1>2, <1>3, <1>4, <1>5 DEF Has

\* What the answer of one call leaves of a save.
Shorter(s, r) ==
  /\ r.calls = Tail(s.calls) /\ r.snew = s.snew /\ r.dirty = s.dirty
  /\ r.pc \in {"calls", "answered"}

LEMMA RepliedShorter ==
  ASSUME NEW s, SaveOK(s), s.pc = "calls", NEW name \in Names
  PROVE  Shorter(s, Replied(s, name)) /\ Shorter(s, Spoil(Replied(s, name)))
<1>1. PICK r : r = Replied(s, name)
  OBVIOUS
<1>2. r \in SaveRecords /\ s \in SaveRecords /\ r.pc \in {"calls", "answered"}
  BY <1>1, ReplyOK DEF SaveOK
<1>3. r.calls = Tail(s.calls) /\ r.snew = s.snew /\ r.dirty = s.dirty
  BY <1>1, <1>2 DEF Replied, SaveRecords
<1>4. QED
  BY <1>1, <1>2, <1>3, SpoilParts DEF Shorter

\* The device carries out the first call of a batch, or fails it.
Done(c) ==
  \/ origin' = origin /\ \A s \in Pool : Has(remote', s) => Has(remote, s)
  \/ \E id \in Pool : /\ c.op = "add" /\ c.sid \in Temps /\ ~Has(remote, id)
                      /\ origin' = [origin EXCEPT ![id] = c.sid]
                      /\ \A s \in Pool : Has(remote', s) => Has(remote, s) \/ s = id

LEMMA CallDone ==
  ASSUME CacheInv, NEW k \in Slots, ServerCall(k)
  PROVE  Done(Head(save[k].calls))
<1>1. PICK c : c = Head(save[k].calls)
  OBVIOUS
<1>2. SaveOK(save[k]) /\ save[k].pc = "calls" /\ FileOK(remote)
  BY DEF CacheInv, ServerCall
<1>3. c.sid \in Sids /\ c.new \in Sections /\ Named \subseteq Stored /\ Pool \subseteq Sids
      /\ Pool \subseteq Stored
  <2>1. None \in Names
    BY DEF Names
  <2>2. c \in CallRecords
    BY <1>1, <1>2, <2>1, ReplyOK
  <2>3. QED
    BY <2>2 DEF CallRecords, Stored, Sids
<1>4. \/ remote' \in {DropFrom(remote, c.sid), UnsetIn(remote, c.sid, c.gone),
                      SetIn(remote, c.sid, c.new), remote} /\ origin' = origin
      \/ c.sid \in Named /\ remote' = AddTo(remote, c.sid, c.new) /\ origin' = origin
      \/ \E id \in Pool : /\ c.op = "add" /\ c.sid \in Temps /\ ~Has(remote, id)
                          /\ remote' = AddTo(remote, id, c.new)
                          /\ origin' = [origin EXCEPT ![id] = c.sid]
  BY <1>1 DEF ServerCall
<1>5. CASE remote' \in {DropFrom(remote, c.sid), UnsetIn(remote, c.sid, c.gone),
                        SetIn(remote, c.sid, c.new), remote} /\ origin' = origin
  BY <1>1, <1>2, <1>3, <1>5, HasAfter DEF Done
<1>6. CASE c.sid \in Named /\ remote' = AddTo(remote, c.sid, c.new) /\ origin' = origin
  <2>1. ASSUME NEW s \in Pool, Has(remote', s) PROVE Has(remote, s)
    BY <1>2, <1>3, <1>6, <2>1, HasAfter, DisjointAssumption
  <2>2. QED
    BY <1>1, <1>6, <2>1 DEF Done
<1>7. ASSUME NEW id \in Pool, c.op = "add", c.sid \in Temps, ~Has(remote, id),
             remote' = AddTo(remote, id, c.new), origin' = [origin EXCEPT ![id] = c.sid]
      PROVE  Done(c)
  <2>1. ASSUME NEW s \in Pool, Has(remote', s) PROVE Has(remote, s) \/ s = id
    BY <1>2, <1>3, <1>7, <2>1, HasAfter
  <2>2. QED
    BY <1>7, <2>1 DEF Done
<1>8. QED
  BY <1>1, <1>4, <1>5, <1>6, <1>7

LEMMA CallAdds ==
  ASSUME OneSave, CacheInv, AddsInv, NEW k \in Slots, ServerCall(k)
  PROVE  AddsInv'
<1> DEFINE s == save[k]
<1>1. PICK c : c = Head(s.calls)
  OBVIOUS
<1>2. /\ SaveOK(s) /\ s.pc = "calls" /\ page' = page /\ save \in [Slots -> SaveRecords]
      /\ origin \in [Pool -> Temps \cup {None}] /\ SendsOnce(s)
  BY DEF CacheInv, AddsInv, ServerCall
<1>3. Shorter(s, save'[k])
  <2>1. /\ None \in Names /\ (\A id \in Pool : id \in Names) /\ \A id \in Named : id \in Names
    BY DEF Names, Sids, Stored
  <2>2. \E name \in Names : save' = [save EXCEPT ![k] = Replied(s, name)]
                            \/ save' = [save EXCEPT ![k] = Spoil(Replied(s, name))]
    BY <2>1 DEF ServerCall, NoName
  <2>3. PICK r : Shorter(s, r) /\ save' = [save EXCEPT ![k] = r]
    BY <1>2, <2>2, RepliedShorter
  <2>4. QED
    BY <1>2, <2>3
<1>4. PICK calls \in Seq(CallRecords) : calls = s.calls /\ calls # <<>>
  <2>1. s \in SaveRecords /\ s.calls # <<>>
    BY <1>2 DEF SaveOK
  <2>2. s.calls \in Seq(CallRecords)
    BY <2>1, SaveParts
  <2>3. QED
    BY <2>1, <2>2
<1>5. PICK rest \in Seq(CallRecords) :
           /\ rest = Tail(calls) /\ Len(rest) = Len(calls) - 1 /\ c = calls[1]
           /\ \A i \in 1..Len(calls) - 1 : rest[i] = calls[i + 1]
  <2>1. /\ Tail(calls) \in Seq(CallRecords) /\ Len(Tail(calls)) = Len(calls) - 1
        /\ Head(calls) = calls[1]
        /\ \A i \in 1..Len(calls) - 1 : Tail(calls)[i] = calls[i + 1]
    BY <1>4, Shortened
  <2>2. PICK u : u = Tail(calls)
    OBVIOUS
  <2>3. c = Head(calls)
    BY <1>1, <1>4
  <2>4. QED
    BY <2>1, <2>2, <2>3
<1>6. Len(calls) \in Nat \ {0} /\ Len(rest) \in Nat
  <2>1. Len(calls) \in Nat /\ Len(rest) \in Nat
    BY LenProperties
  <2>2. Len(calls) # 0
    BY <1>4, EmptySeq
  <2>3. QED
    BY <2>1, <2>2
<1>7. \A i \in 1..Len(rest) : i + 1 \in 1..Len(calls) /\ rest[i] = calls[i + 1]
  BY <1>5, <1>6
<1>8. AddsDiffer(calls) /\ 1 \in 1..Len(calls)
  BY <1>2, <1>4, <1>6 DEF SendsOnce
<1>9. AddsDiffer(rest)
  <2> SUFFICES ASSUME NEW i \in 1..Len(rest), NEW j \in 1..Len(rest), rest[i].op = "add",
                      rest[j].op = "add", rest[i].sid = rest[j].sid
               PROVE  i = j
    BY DEF AddsDiffer
  <2>1. i + 1 = j + 1
    BY <1>7, <1>8 DEF AddsDiffer
  <2>2. QED
    BY <1>6, <2>1
<1>10. ASSUME NEW i \in 1..Len(rest), rest[i].op = "add", c.op = "add"
       PROVE  rest[i].sid # c.sid
  <2>1. i + 1 # 1
    BY <1>6
  <2>2. QED
    BY <1>5, <1>7, <1>8, <1>10, <2>1 DEF AddsDiffer
<1>11. ASSUME NEW i \in 1..Len(rest), rest[i].op = "add", rest[i].sid \in Temps
       PROVE  rest[i].sid \in ToSet(s.snew) /\ Unknown(rest[i].sid)
  BY <1>2, <1>4, <1>7, <1>11 DEF SendsOnce
<1>12. c.op = "add" /\ c.sid \in Temps => c.sid \in ToSet(s.snew) /\ Unknown(c.sid)
  BY <1>2, <1>4, <1>5, <1>8 DEF SendsOnce
<1>13. Done(c)
  BY <1>1, CallDone
<1>14. /\ AddedOnce'
       /\ \A x : Unknown(x) /\ (c.op = "add" => x # c.sid) => Unknown(x)'
  <2>1. CASE origin' = origin /\ \A t \in Pool : Has(remote', t) => Has(remote, t)
    BY <2>1 DEF AddsInv, AddedOnce, Unknown
  <2>2. ASSUME NEW id \in Pool, c.op = "add", c.sid \in Temps, ~Has(remote, id),
               origin' = [origin EXCEPT ![id] = c.sid],
               \A t \in Pool : Has(remote', t) => Has(remote, t) \/ t = id
        PROVE  /\ AddedOnce'
               /\ \A x : Unknown(x) /\ (c.op = "add" => x # c.sid) => Unknown(x)'
    <3>1. /\ origin'[id] = c.sid /\ \A t \in Pool \ {id} : origin'[t] = origin[t]
          /\ \A t \in Pool : origin[t] # c.sid
      BY <1>2, <1>12, <2>2 DEF Unknown
    <3>2. AddedOnce'
      BY <2>2, <3>1 DEF AddsInv, AddedOnce
    <3>3. QED
      BY <2>2, <3>1, <3>2 DEF Unknown
  <2>3. QED
    BY <1>13, <2>1, <2>2 DEF Done
<1>15. ASSUME NEW i \in 1..Len(rest), rest[i].op = "add", rest[i].sid \in Temps
       PROVE  rest[i].sid \in ToSet(s.snew) /\ Unknown(rest[i].sid)'
  BY <1>10, <1>11, <1>14, <1>15
<1>16. SendsOnce(save[k])'
  <2>1. /\ save'[k].calls = rest /\ save'[k].snew = s.snew /\ save'[k].dirty = s.dirty
        /\ save'[k].pc \in {"calls", "answered"}
    BY <1>3, <1>4, <1>5 DEF Shorter
  <2>2. QED
    BY <1>2, <1>9, <1>15, <2>1 DEF SendsOnce
<1>17. \A j \in Slots : j = k
  BY DEF OneSave
<1>18. ASSUME NEW x \in Temps \cap ToSet(page'.fresh),
              \A j \in Slots : x \notin ToSet(save'[j].snew)
       PROVE  Unknown(x)'
  <2>1. x \notin ToSet(s.snew)
    BY <1>3, <1>18 DEF Shorter
  <2>2. Unknown(x)
    BY <1>2, <1>17, <2>1 DEF AddsInv
  <2>3. c.op = "add" => x # c.sid
    BY <1>12, <2>1
  <2>4. QED
    BY <1>14, <2>2, <2>3
<1>19. QED
  BY <1>2, <1>14, <1>16, <1>17, <1>18 DEF AddsInv

LEMMA AddsStep ==
  ASSUME OneSave, "lost" \notin Faults, CacheInv, NotesInv, AddsInv, [Next]_vars
  PROVE  AddsInv'
<1>1. ASSUME NEW sid \in Sids, PageAdd(sid) \/ PageRemove(sid) PROVE AddsInv'
  BY <1>1, CreateAdds, RemoveAdds
<1>2. ASSUME NEW sid \in Sids,
             \/ \E o \in Options : PageUnset(sid, o) \/ \E v \in Values : PageSet(sid, o, v)
             \/ \E ref \in Sids \cup {None}, after \in BOOLEAN : PageMove(sid, ref, after)
      PROVE  AddsInv'
  BY <1>2, ChangeAdds
<1>3. ASSUME NEW k \in Slots, SaveStart(k) \/ Save(k) PROVE AddsInv'
  BY <1>3, SaveStartAdds, CallAdds, AnsweredAdds, OrderAdds, OrderedAdds, GetAdds, LoadedAdds
     DEF Save
<1>4. \A k \in Slots : ~Rejected(k)
  BY DEF Rejected
<1>5. CASE UNCHANGED vars
  BY <1>5 DEF vars, AddsInv, SendsOnce, Unknown, AddedOnce
<1>6. QED
  BY <1>1, <1>2, <1>3, <1>4, <1>5 DEF Next, Page

\* While no two saves are under way at once and no request is lost, a section
\* that the page added once is created once on the device: whatever is edited
\* between the steps of a save, and whichever calls of a batch fail.
THEOREM AddedOnceOnly ==
  ASSUME OneSave, "lost" \notin Faults
  PROVE  Spec => []AddedOnce
<1>1. Init => AddsInv
  BY AddsInit
<1>2. CacheInv /\ NotesInv /\ AddsInv /\ [Next]_vars => AddsInv'
  BY AddsStep
<1>3. AddsInv => AddedOnce
  BY DEF AddsInv
<1>4. Spec => [](CacheInv /\ NotesInv)
  BY NotesInvariant
<1>5. QED
  BY <1>1, <1>2, <1>3, <1>4, PTL DEF Spec
=============================================================================
