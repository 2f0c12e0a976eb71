----------------------------- MODULE Packages -----------------------------
(***************************************************************************)
(* The page of software packages (opkg.js): the order of versions, and what*)
(* an installation needs.                                                  *)
(***************************************************************************)
EXTENDS Integers, SequencesExt

-----------------------------------------------------------------------------
(***************************************************************************)
(* The order of package versions (opkg.js: compareVersion()), computed by  *)
(* going through both strings at once, against its definition: a version   *)
(* is cut into parts that are alternately not of digits and of digits, and *)
(* the first parts that differ decide, digits by their number and others   *)
(* character by character, where "~" comes even before the end.            *)
(***************************************************************************)

CONSTANTS Digits,    \* digits, as numbers
          Signs,     \* other characters, as what orderOf() makes of them
          MaxLength  \* bound: characters of a version

ASSUME VersionAssumption == /\ Digits \subseteq 0..9
                            /\ Signs \subseteq Int \ (0..9)

VARIABLES
  val, ref, \* the versions compared
  order     \* what compareVersion() returned, if it did

versionVars == <<val, ref, order>>

Versions == SeqOf(Digits \cup Signs, MaxLength)

IsDigit(s, i) == i <= Len(s) /\ s[i] \in Digits
\* orderOf(), 0 for a digit and for the end.
OrderOf(s, i) == IF i > Len(s) \/ IsDigit(s, i) THEN 0 ELSE s[i]

SkipNone(s, i) == i \* mutant
SkipZeros(s, i) ==
  LET next == {j \in i..(Len(s) + 1) : \A k \in i..(j - 1) : s[k] = 0} IN
  CHOOSE j \in next : \A k \in next : k <= j

\* From a difference of two digits on, while both have digits.
FirstDiff(s, i, t, j, n) ==
  LET diffs == {k \in 0..(n - 1) : s[i + k] # t[j + k]} IN
  IF diffs = {} THEN 0
  ELSE LET k == CHOOSE k \in diffs : \A l \in diffs : k <= l IN s[i + k] - t[j + k]

CommonDigits(s, i, t, j) ==
  LET n == {k \in 0..Len(s) : \A l \in 0..(k - 1) : IsDigit(s, i + l) /\ IsDigit(t, j + l)} IN
  CHOOSE k \in n : \A l \in n : l <= k

Compare(s, t) ==
  LET \* the loop over characters that are no digits
      Sign[i \in 1..(Len(s) + MaxLength + 1), j \in 1..(Len(t) + MaxLength + 1)] ==
        IF (i <= Len(s) /\ ~IsDigit(s, i)) \/ (j <= Len(t) /\ ~IsDigit(t, j))
        THEN IF OrderOf(s, i) # OrderOf(t, j) THEN [diff |-> OrderOf(s, i) - OrderOf(t, j), i |-> i, j |-> j]
             ELSE Sign[i + 1, j + 1]
        ELSE [diff |-> 0, i |-> i, j |-> j]
      Loop[i \in 1..(Len(s) + MaxLength + 1), j \in 1..(Len(t) + MaxLength + 1)] ==
        LET sign == Sign[i, j]
            si == SkipZeros(s, sign.i)
            tj == SkipZeros(t, sign.j)
            n == CommonDigits(s, si, t, tj)
            diff == FirstDiff(s, si, t, tj, n)
        IN IF i > Len(s) /\ j > Len(t) THEN 0
           ELSE IF sign.diff # 0 THEN sign.diff
           ELSE IF IsDigit(s, si + n) THEN 1
           ELSE IF IsDigit(t, tj + n) THEN -1
           ELSE IF diff # 0 THEN diff
           ELSE Loop[si + n, tj + n]
  IN IF s = t THEN 0 ELSE Loop[1, 1]

VersionInit == val = <<>> /\ ref = <<>> /\ order = <<>>

CompareVersion(s, t) ==
  /\ order = <<>>
  /\ val' = s /\ ref' = t
  /\ order' = <<Compare(s, t)>>

VersionNext == \E s, t \in Versions : CompareVersion(s, t)
VersionSpec == VersionInit /\ [][VersionNext]_versionVars

-----------------------------------------------------------------------------
(* The definition *)

PrefixLength(s, digits) ==
  LET n == {k \in 0..Len(s) : \A l \in 1..k : (s[l] \in Digits) = digits} IN
  CHOOSE k \in n : \A l \in n : l <= k

\* The parts: characters, then a number, and so on.
VersionParts[s \in Versions] ==
  IF s = <<>> THEN <<>>
  ELSE LET text == PrefixLength(s, FALSE)
           rest == SubSeq(s, text + 1, Len(s))
           number == PrefixLength(rest, TRUE)
       IN <<SubSeq(s, 1, text),
            FoldLeft(LAMBDA n, d : 10 * n + d, 0, SubSeq(rest, 1, number))>>
          \o VersionParts[SubSeq(rest, number + 1, Len(rest))]

\* The end of a text counts as 0, and so does a missing number.
TextBefore(a, b) ==
  LET at(s, k) == IF k \in DOMAIN s THEN s[k] ELSE 0 IN
  \E k \in 1..(MaxLength + 1) : at(a, k) < at(b, k) /\ \A l \in 1..(k - 1) : at(a, l) = at(b, l)

PartAt(parts, k) ==
  IF k \in DOMAIN parts THEN parts[k] ELSE IF k % 2 = 1 THEN <<>> ELSE 0

VersionBefore(s, t) ==
  LET a == VersionParts[s]
      b == VersionParts[t]
      less(k) == IF k % 2 = 1 THEN TextBefore(PartAt(a, k), PartAt(b, k)) ELSE PartAt(a, k) < PartAt(b, k)
  IN \E k \in 1..(2 * MaxLength) :
       less(k) /\ \A l \in 1..(k - 1) : PartAt(a, l) = PartAt(b, l)

\* compareVersion() puts any two versions in the order of their parts, and says
\* that they are equal only if all parts are: numbers with leading zeros, texts
\* of which one begins like the other, and what comes before the end included.
OrderedByParts ==
  \A o \in ToSet(order) :
    /\ o < 0 <=> VersionBefore(val, ref)
    /\ o > 0 <=> VersionBefore(ref, val)

-----------------------------------------------------------------------------
(***************************************************************************)
(* What the page of software packages (opkg.js) says an installation       *)
(* needs: the lists of packages are read, then the dependencies are gone   *)
(* through depth first, each name once, with every package that provides   *)
(* it.  What is not installed is noted to be installed, and an error is    *)
(* noted for what no repository has, or not in the version asked for.       *)
(***************************************************************************)

CONSTANTS PkgNames,    \* packages that others may depend on
          Versioned,   \* those that may be asked for in a version
          Libc,        \* a name that is not looked at
          NoSuch,      \* a name that no package has or provides
          MaxDepends,  \* bound: dependencies of a package
          MaxInstalled \* bound: packages of them that are installed

VARIABLES
  catalog,  \* packages: what parseList() made of the two lists
  opened,   \* was the button to install it pressed?
  todo,     \* dependencies to look at, the next one first
  seen,     \* info.seen: the names looked at
  install,  \* info.install: <<list, name>> of packages
  errors,   \* info.errors: the names
  wanted    \* the dependencies of the package to be installed

pkgVars == <<catalog, opened, todo, seen, install, errors, wanted>>

Lists == {"installed", "available"}

\* "strict": there is a condition on the version.
Mentions == [on : PkgNames \cup {Libc, NoSuch}, strict : {FALSE}] \cup [on : Versioned, strict : {TRUE}]
DependLists == {d \in SeqOf(Mentions, MaxDepends) : IsInjective(d)}

\* "fits": its version is the one asked for, where one is.
PkgEntries(name) ==
  [name : {name}, depends : DependLists, provides : SUBSET (PkgNames \ {name}),
   fits : IF name \in Versioned THEN BOOLEAN ELSE {TRUE}]

\* A list has a package once, and lists come sorted or not.
Listings(most) ==
  UNION {{[i \in 1..Len(chosen) |-> pick[chosen[i]]] :
            pick \in {f \in [ToSet(chosen) -> UNION {PkgEntries(n) : n \in PkgNames}] :
                        \A n \in ToSet(chosen) : f[n] \in PkgEntries(n)}} :
         chosen \in {o \in SeqOf(PkgNames, most) : IsInjective(o)}}

EmptyCatalog == [pkgs |-> <<>>, providers |-> [n \in PkgNames \cup {NoSuch} |-> <<>>]]

-----------------------------------------------------------------------------
(* parseList() *)

\* A package provides its own name unless another before it does.
Provided(cat, entry) ==
  entry.provides \cup IF cat.providers[entry.name] # <<>> THEN {} ELSE {entry.name}

WithEntry(cat, entry) ==
  [pkgs |-> Append(cat.pkgs, entry),
   providers |-> [n \in DOMAIN cat.providers |->
     IF n \in Provided(cat, entry) THEN Append(cat.providers[n], entry.name) ELSE cat.providers[n]]]

ParseList(list) == FoldLeft(WithEntry, EmptyCatalog, list)

PkgInit ==
  /\ catalog = [l \in Lists |-> EmptyCatalog]
  /\ opened = FALSE /\ wanted = <<>>
  /\ todo = <<>> /\ seen = {} /\ install = <<>> /\ errors = {}

\* updateLists()
UpdateLists ==
  /\ ~opened /\ \A l \in Lists : catalog[l] = EmptyCatalog
  /\ \E installed \in Listings(MaxInstalled), available \in Listings(Cardinality(PkgNames)) :
       catalog' = [l \in Lists |-> ParseList(IF l = "installed" THEN installed ELSE available)]
  /\ UNCHANGED <<opened, todo, seen, install, errors, wanted>>

-----------------------------------------------------------------------------
(* renderDependencies(), renderDependencyItem(), pkgStatus() *)

Has(l, name) == \E i \in DOMAIN catalog[l].pkgs : catalog[l].pkgs[i].name = name
EntryOf(l, name) == LET p == catalog[l].pkgs IN p[CHOOSE i \in DOMAIN p : p[i].name = name]

\* Providers of either list, and of those the installed one is looked at.
ProvidersOf(name) ==
  LET here == catalog["installed"].providers[name] IN
  here \o SelectSeq(catalog["available"].providers[name], LAMBDA p : p \notin ToSet(here))
WhereIs(name) == IF Has("installed", name) THEN "installed" ELSE "available"

\* An available package provides "name" and fits: the installed one is replaced.
Replacements(name) ==
  SelectSeq(catalog["available"].providers[name], LAMBDA p : EntryOf("available", p).fits)

StatusInstall(name, strict) ==
  LET fits == ~strict \/ EntryOf(WhereIs(name), name).fits IN
  IF Has("installed", name)
  THEN IF fits \/ Replacements(name) = <<>> THEN <<>> ELSE <<<<"available", Head(Replacements(name))>>>>
  ELSE IF fits THEN <<<<"available", name>>>> ELSE <<>>
StatusErrors(name, strict) ==
  IF strict /\ ~EntryOf(WhereIs(name), name).fits
     /\ (Has("installed", name) => Replacements(name) = <<>>) THEN {name} ELSE {}

\* The dependencies of all providers, each once.
OfOneOnly(providers) == \* mutant
  IF providers = <<>> THEN <<>> ELSE EntryOf(WhereIs(providers[1]), providers[1]).depends
SubDepends(providers) ==
  FoldLeft(LAMBDA acc, p :
             acc \o SelectSeq(EntryOf(WhereIs(p), p).depends, LAMBDA d : d \notin ToSet(acc)),
           <<>>, providers)

HandleInstall ==
  /\ ~opened
  /\ opened' = TRUE
  /\ wanted' \in DependLists
  /\ todo' = wanted'
  /\ UNCHANGED <<catalog, seen, install, errors>>

Skip ==
  /\ todo # <<>> /\ Head(todo).on \in seen \cup {Libc}
  /\ todo' = Tail(todo)
  /\ UNCHANGED <<catalog, opened, seen, install, errors, wanted>>

RenderDependency ==
  LET d == Head(todo)
      providers == ProvidersOf(d.on)
  IN
  /\ todo # <<>> /\ d.on \notin seen \cup {Libc}
  /\ seen' = seen \cup {d.on}
  /\ install' = install \o FlattenSeq([i \in DOMAIN providers |-> StatusInstall(providers[i], d.strict)])
  /\ errors' = errors \cup IF providers = <<>> THEN {d.on}
                           ELSE UNION {StatusErrors(p, d.strict) : p \in ToSet(providers)}
  /\ todo' = SubDepends(providers) \o Tail(todo)
  /\ UNCHANGED <<catalog, opened, wanted>>

PkgNext == UpdateLists \/ HandleInstall \/ Skip \/ RenderDependency
PkgSpec == PkgInit /\ [][PkgNext]_pkgVars

-----------------------------------------------------------------------------
(* Properties *)

IsInstalled(name) == Has("installed", name) \/ \E i \in DOMAIN install : install[i][2] = name
HasProvider(d) == d.on = Libc \/ \E p \in ToSet(ProvidersOf(d.on)) : IsInstalled(p)

\* When the page names no problem, what it will install is enough: whatever the
\* package depends on, and whatever the packages that are new with it depend on,
\* has a provider that is installed or will be, through circles, and through
\* names that several packages provide.  (A package that takes the place of an
\* installed one may depend on more.)
NoneMissing ==
  opened /\ todo = <<>> /\ errors = {} =>
    /\ \A d \in ToSet(wanted) : HasProvider(d)
    /\ \A i \in DOMAIN install :
         ~Has("installed", install[i][2]) =>
           \A d \in ToSet(EntryOf("available", install[i][2]).depends) : HasProvider(d)
=============================================================================
