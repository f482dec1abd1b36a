-------------------------- MODULE Catalog_proofs --------------------------
(***************************************************************************)
(* The version order and the catalog's reads, with any packs, versions,    *)
(* accounts and changes between the statements of a read.                  *)
(***************************************************************************)
EXTENDS Catalog, FiniteSetTheorems, SequenceTheorems, WellFoundedInduction, TLAPS

\* A non-empty set of numbers has a least one.
LEMMA MinOf ==
    ASSUME NEW I \in SUBSET Nat, I # {}
    PROVE  Min(I) \in I /\ \A i \in I : Min(I) <= i
<1> DEFINE R == OpToRel(<, Nat)
<1>1. IsWellFoundedOn(R, Nat)
  BY NatLessThanWellFounded
<1>2. \A i, j \in Nat : <<i, j>> \in R <=> i < j
  BY DEF OpToRel
<1> HIDE DEF R
<1>3. PICK i \in I : \A j \in I : ~(<<j, i>> \in R)
  BY <1>1, WFMin
<1>4. \A j \in I : ~(j < i)
  BY <1>2, <1>3
<1>5. \A j \in I : i <= j
  BY <1>4
<1> QED
  BY <1>5 DEF Min

-----------------------------------------------------------------------------
(* Semver: compareSemver is an order                                        *)

LEMMA NatOrder ==
    ASSUME NEW a \in Int, NEW b \in Int
    PROVE  /\ CompareNat(a, b) \in {-1, 0, 1}
           /\ CompareNat(a, b) = -1 <=> a < b
           /\ CompareNat(a, b) = 0 <=> a = b
           /\ CompareNat(a, b) = 1 <=> b < a
BY DEF CompareNat

\* Identifiers are totally ordered: the numbers, then the words.
LEMMA IdentOrder ==
    ASSUME NEW a \in Ident, NEW b \in Ident
    PROVE  /\ ComparePrereleaseIdents(a, b) \in {-1, 0, 1}
           /\ ComparePrereleaseIdents(a, b) = 0 <=> a = b
           /\ ComparePrereleaseIdents(b, a) = -ComparePrereleaseIdents(a, b)
<1>1. a.rank \in Int /\ b.rank \in Int /\ a.numeric \in BOOLEAN /\ b.numeric \in BOOLEAN
  BY DEF Ident
<1>2. a = b <=> a.rank = b.rank /\ a.numeric = b.numeric
  BY DEF Ident
<1> QED
  BY <1>1, <1>2, NatOrder DEF ComparePrereleaseIdents

LEMMA IdentTransitive ==
    ASSUME NEW a \in Ident, NEW b \in Ident, NEW c \in Ident,
           ComparePrereleaseIdents(a, b) = -1, ComparePrereleaseIdents(b, c) = -1
    PROVE  ComparePrereleaseIdents(a, c) = -1
<1>1. /\ a.rank \in Int /\ b.rank \in Int /\ c.rank \in Int
      /\ a.numeric \in BOOLEAN /\ b.numeric \in BOOLEAN /\ c.numeric \in BOOLEAN
  BY DEF Ident
<1> QED
  BY <1>1 DEF ComparePrereleaseIdents, CompareNat

\* One list is before another where they first differ, or as its beginning; a
\* release, which has no list, is after all.
Differ(a, b, i) ==
    /\ i \in 1..Len(a) /\ i \in 1..Len(b)
    /\ \A j \in 1..(i - 1) : a[j] = b[j]
    /\ ComparePrereleaseIdents(a[i], b[i]) = -1
Begins(a, b) == Len(a) < Len(b) /\ \A j \in 1..Len(a) : a[j] = b[j]
ListBefore(a, b) == a # <<>> /\ (b = <<>> \/ Begins(a, b) \/ \E i \in Nat : Differ(a, b, i))

\* The first difference of two lists, if there is one.
LEMMA FirstDiffers ==
    ASSUME NEW a \in Seq(Ident), NEW b \in Seq(Ident)
    PROVE  \/ /\ FirstDifference(a, b) = 0
              /\ \A i \in 1..Len(a) : i <= Len(b) => a[i] = b[i]
           \/ \E i \in Nat :
                /\ i \in 1..Len(a) /\ i \in 1..Len(b)
                /\ \A j \in 1..(i - 1) : a[j] = b[j]
                /\ a[i] # b[i]
                /\ FirstDifference(a, b) = ComparePrereleaseIdents(a[i], b[i])
<1> DEFINE common == 1..(IF Len(a) < Len(b) THEN Len(a) ELSE Len(b))
           differ == {i \in common : ComparePrereleaseIdents(a[i], b[i]) # 0}
<1>1. Len(a) \in Nat /\ Len(b) \in Nat /\ common \subseteq Nat
  OBVIOUS
<1>2. \A i \in Nat : i \in common <=> i \in 1..Len(a) /\ i \in 1..Len(b)
  BY <1>1
<1>3. \A i \in common : a[i] \in Ident /\ b[i] \in Ident
  BY <1>1, <1>2
<1>4. FirstDifference(a, b) =
        IF differ = {} THEN 0 ELSE ComparePrereleaseIdents(a[Min(differ)], b[Min(differ)])
  BY DEF FirstDifference
<1>5. \A i \in Nat : i \in differ <=> i \in common /\ a[i] # b[i]
  BY <1>1, <1>3, IdentOrder
<1> HIDE DEF common
<1>6. differ \subseteq Nat
  BY <1>1
<1> HIDE DEF differ
<1>7. CASE differ = {}
  BY <1>1, <1>2, <1>4, <1>5, <1>7
<1>8. CASE differ # {}
  <2> DEFINE i == Min(differ)
  <2>1. i \in differ /\ \A j \in differ : i <= j
    BY <1>6, <1>8, MinOf
  <2>2. FirstDifference(a, b) = ComparePrereleaseIdents(a[i], b[i])
    BY <1>4, <1>8
  <2> HIDE DEF i
  <2>3. i \in Nat /\ i \in 1..Len(a) /\ i \in 1..Len(b) /\ a[i] # b[i]
    BY <1>2, <1>5, <1>6, <2>1
  <2>4. ASSUME NEW j \in 1..(i - 1) PROVE a[j] = b[j]
    <3>1. j \in Nat /\ j \in 1..Len(a) /\ j \in 1..Len(b) /\ j < i
      BY <1>1, <2>3
    <3> QED
      BY <1>2, <1>5, <2>1, <2>3, <3>1
  <2> QED
    BY <2>2, <2>3, <2>4
<1> QED
  BY <1>7, <1>8

\* What comparePrereleaseLists returns.
LEMMA ListOrder ==
    ASSUME NEW a \in Seq(Ident), NEW b \in Seq(Ident)
    PROVE  /\ ComparePrereleaseLists(a, b) \in {-1, 0, 1}
           /\ ComparePrereleaseLists(a, b) = -1 <=> ListBefore(a, b)
           /\ ComparePrereleaseLists(a, b) = 0 <=> a = b
           /\ ComparePrereleaseLists(a, b) = 1 <=> ListBefore(b, a)
<1>1. /\ Len(a) \in Nat /\ Len(b) \in Nat
      /\ a = <<>> <=> Len(a) = 0
      /\ b = <<>> <=> Len(b) = 0
  OBVIOUS
<1>2. CASE a = <<>> \/ b = <<>>
  <2>1. ComparePrereleaseLists(a, b) = CompareNat(Len(b), Len(a))
    BY <1>2 DEF ComparePrereleaseLists
  <2>2. (ListBefore(a, b) <=> Len(b) < Len(a)) /\ (ListBefore(b, a) <=> Len(a) < Len(b))
    BY <1>1, <1>2 DEF ListBefore, Begins, Differ
  <2> QED
    BY <1>1, <1>2, <2>1, <2>2, NatOrder
<1>3. CASE /\ a # <<>> /\ b # <<>> /\ FirstDifference(a, b) = 0
           /\ \A i \in 1..Len(a) : i <= Len(b) => a[i] = b[i]
  <2>1. ComparePrereleaseLists(a, b) = CompareNat(Len(a), Len(b))
    BY <1>3 DEF ComparePrereleaseLists
  <2>2. a = b <=> Len(a) = Len(b)
    BY <1>1, <1>3, SeqEqual
  <2>3. \A i \in Nat : ~Differ(a, b, i) /\ ~Differ(b, a, i)
    <3> SUFFICES ASSUME NEW i \in Nat, i \in 1..Len(a), i \in 1..Len(b)
                 PROVE  /\ ComparePrereleaseIdents(a[i], b[i]) # -1
                        /\ ComparePrereleaseIdents(b[i], a[i]) # -1
      BY DEF Differ
    <3>1. a[i] = b[i] /\ a[i] \in Ident
      BY <1>1, <1>3
    <3> QED
      BY <3>1, IdentOrder
  <2>4. (Begins(a, b) <=> Len(a) < Len(b)) /\ (Begins(b, a) <=> Len(b) < Len(a))
    BY <1>1, <1>3 DEF Begins
  <2> QED
    BY <1>1, <1>3, <2>1, <2>2, <2>3, <2>4, NatOrder DEF ListBefore
<1>4. CASE /\ a # <<>> /\ b # <<>>
           /\ \E i \in Nat :
                /\ i \in 1..Len(a) /\ i \in 1..Len(b)
                /\ \A j \in 1..(i - 1) : a[j] = b[j]
                /\ a[i] # b[i]
                /\ FirstDifference(a, b) = ComparePrereleaseIdents(a[i], b[i])
  <2>1. PICK i \in Nat :
          /\ i \in 1..Len(a) /\ i \in 1..Len(b)
          /\ \A j \in 1..(i - 1) : a[j] = b[j]
          /\ a[i] # b[i]
          /\ FirstDifference(a, b) = ComparePrereleaseIdents(a[i], b[i])
    BY <1>4
  <2>2. /\ a[i] \in Ident /\ b[i] \in Ident
        /\ ComparePrereleaseIdents(a[i], b[i]) \in {-1, 1}
        /\ ComparePrereleaseIdents(b[i], a[i]) = -ComparePrereleaseIdents(a[i], b[i])
    BY <1>1, <2>1, IdentOrder
  <2>3. ComparePrereleaseLists(a, b) = ComparePrereleaseIdents(a[i], b[i])
    BY <1>4, <2>1, <2>2 DEF ComparePrereleaseLists
  <2>4. ~Begins(a, b) /\ ~Begins(b, a) /\ a # b
    BY <1>1, <2>1 DEF Begins
  <2>5. ASSUME NEW k \in Nat, Differ(a, b, k) \/ Differ(b, a, k) PROVE k = i
    <3>1. /\ k \in 1..Len(a) /\ k \in 1..Len(b)
          /\ \A j \in 1..(k - 1) : a[j] = b[j]
      BY <2>5 DEF Differ
    <3>2. a[k] # b[k]
      <4>1. a[k] \in Ident /\ b[k] \in Ident
        BY <1>1, <3>1
      <4> QED
        BY <2>5, <4>1, IdentOrder DEF Differ
    <3>3. ~(k < i) /\ ~(i < k)
      BY <1>1, <2>1, <3>1, <3>2
    <3> QED
      BY <3>3
  <2>6. (\E k \in Nat : Differ(a, b, k)) <=> ComparePrereleaseIdents(a[i], b[i]) = -1
    BY <2>1, <2>5 DEF Differ
  <2>7. (\E k \in Nat : Differ(b, a, k)) <=> ComparePrereleaseIdents(b[i], a[i]) = -1
    BY <2>1, <2>5 DEF Differ
  <2> QED
    BY <1>4, <2>2, <2>3, <2>4, <2>6, <2>7 DEF ListBefore
<1> QED
  BY <1>2, <1>3, <1>4, FirstDiffers

LEMMA ListTransitive ==
    ASSUME NEW a \in Seq(Ident), NEW b \in Seq(Ident), NEW c \in Seq(Ident),
           ListBefore(a, b), ListBefore(b, c)
    PROVE  ListBefore(a, c)
<1>1. /\ Len(a) \in Nat /\ Len(b) \in Nat /\ Len(c) \in Nat
      /\ \A j \in 1..Len(a) : a[j] \in Ident
      /\ \A j \in 1..Len(b) : b[j] \in Ident
      /\ \A j \in 1..Len(c) : c[j] \in Ident
  OBVIOUS
<1>2. a # <<>> /\ b # <<>>
  BY DEF ListBefore
<1> SUFFICES ASSUME c # <<>> PROVE Begins(a, c) \/ \E i \in Nat : Differ(a, c, i)
  BY <1>2 DEF ListBefore
<1>3. CASE Begins(a, b) /\ Begins(b, c)
  BY <1>1, <1>3 DEF Begins
<1>4. ASSUME Begins(a, b), NEW k \in Nat, Differ(b, c, k)
      PROVE  Begins(a, c) \/ Differ(a, c, k)
  BY <1>1, <1>4 DEF Begins, Differ
<1>5. ASSUME NEW i \in Nat, Differ(a, b, i), Begins(b, c)
      PROVE  Differ(a, c, i)
  BY <1>1, <1>5 DEF Begins, Differ
<1>6. ASSUME NEW i \in Nat, Differ(a, b, i), NEW k \in Nat, Differ(b, c, k)
      PROVE  Differ(a, c, i) \/ Differ(a, c, k)
  <2>1. CASE i < k
    BY <1>1, <1>6, <2>1 DEF Differ
  <2>2. CASE k < i
    BY <1>1, <1>6, <2>2 DEF Differ
  <2>3. CASE i = k
    BY <1>1, <1>6, <2>3, IdentTransitive DEF Differ
  <2> QED
    BY <2>1, <2>2, <2>3
<1> QED
  BY <1>2, <1>3, <1>4, <1>5, <1>6 DEF ListBefore

\* One version is before another by its core, or by its pre-release.
CoreBefore(v, w) ==
    \E i \in 1..3 : v.core[i] < w.core[i] /\ \A j \in 1..(i - 1) : v.core[j] = w.core[j]
SameCore(v, w) == \A i \in 1..3 : v.core[i] = w.core[i]
Before(v, w) ==
    CoreBefore(v, w) \/ (SameCore(v, w) /\ ListBefore(v.prerelease, w.prerelease))

LEMMA SameFunction ==
    ASSUME NEW S, NEW T, NEW f \in [S -> T], NEW g \in [S -> T], \A x \in S : f[x] = g[x]
    PROVE  f = g
OBVIOUS

\* What compareSemver returns.
LEMMA VersionOrder ==
    ASSUME NEW v \in ParsedVersion, NEW w \in ParsedVersion
    PROVE  /\ CompareSemver(v, w) \in {-1, 0, 1}
           /\ CompareSemver(v, w) = -1 <=> Before(v, w)
           /\ CompareSemver(v, w) = 0 <=> v = w
           /\ CompareSemver(v, w) = 1 <=> Before(w, v)
<1> DEFINE differ == {i \in 1..3 : v.core[i] # w.core[i]}
<1>1. /\ v.core \in [1..3 -> Nat] /\ w.core \in [1..3 -> Nat]
      /\ v.prerelease \in Seq(Ident) /\ w.prerelease \in Seq(Ident)
      /\ v = w <=> v.core = w.core /\ v.prerelease = w.prerelease
  BY DEF ParsedVersion
<1>2. CompareSemver(v, w) =
        IF differ # {} THEN CompareNat(v.core[Min(differ)], w.core[Min(differ)])
        ELSE ComparePrereleaseLists(v.prerelease, w.prerelease)
  BY DEF CompareSemver
<1>3. differ \subseteq Nat /\ \A i \in Nat : i \in differ <=> i \in 1..3 /\ v.core[i] # w.core[i]
  OBVIOUS
<1> HIDE DEF differ
<1>4. CASE differ = {}
  <2>1. SameCore(v, w) /\ SameCore(w, v) /\ ~CoreBefore(v, w) /\ ~CoreBefore(w, v)
    BY <1>1, <1>3, <1>4 DEF SameCore, CoreBefore
  <2>2. v.core = w.core
    BY <1>1, <2>1, SameFunction DEF SameCore
  <2>3. /\ CompareSemver(v, w) = ComparePrereleaseLists(v.prerelease, w.prerelease)
        /\ Before(v, w) <=> ListBefore(v.prerelease, w.prerelease)
        /\ Before(w, v) <=> ListBefore(w.prerelease, v.prerelease)
    BY <1>2, <1>4, <2>1 DEF Before
  <2> QED
    BY <1>1, <2>2, <2>3, ListOrder
<1>5. CASE differ # {}
  <2> DEFINE i == Min(differ)
  <2>1. i \in differ /\ \A j \in differ : i <= j
    BY <1>3, <1>5, MinOf
  <2>2. CompareSemver(v, w) = CompareNat(v.core[i], w.core[i])
    BY <1>2, <1>5
  <2> HIDE DEF i
  <2>3. /\ i \in 1..3 /\ v.core[i] # w.core[i]
        /\ \A j \in 1..(i - 1) : v.core[j] = w.core[j]
    BY <1>3, <2>1
  <2>4. ~SameCore(v, w) /\ ~SameCore(w, v) /\ v # w
    BY <1>1, <2>3 DEF SameCore
  <2>5. v.core[i] \in Nat /\ w.core[i] \in Nat
    BY <1>1, <2>3
  <2>6. ASSUME NEW k \in 1..3, v.core[k] # w.core[k],
               \A j \in 1..(k - 1) : v.core[j] = w.core[j]
        PROVE  k = i
    <3>1. ~(k < i)
      BY <2>3, <2>6
    <3>2. ~(i < k)
      BY <2>3, <2>6
    <3> QED
      BY <2>3, <3>1, <3>2
  <2>7. CoreBefore(v, w) <=> v.core[i] < w.core[i]
    BY <1>1, <2>3, <2>6 DEF CoreBefore
  <2>8. CoreBefore(w, v) <=> w.core[i] < v.core[i]
    BY <1>1, <2>3, <2>6 DEF CoreBefore
  <2> QED
    BY <2>2, <2>3, <2>4, <2>5, <2>7, <2>8, NatOrder DEF Before
<1> QED
  BY <1>4, <1>5

LEMMA BeforeTransitive ==
    ASSUME NEW u \in ParsedVersion, NEW v \in ParsedVersion, NEW w \in ParsedVersion,
           Before(u, v), Before(v, w)
    PROVE  Before(u, w)
<1>1. /\ u.core \in [1..3 -> Nat] /\ v.core \in [1..3 -> Nat] /\ w.core \in [1..3 -> Nat]
      /\ u.prerelease \in Seq(Ident) /\ v.prerelease \in Seq(Ident) /\ w.prerelease \in Seq(Ident)
  BY DEF ParsedVersion
<1>2. CASE CoreBefore(u, v) \/ CoreBefore(v, w)
  <2>1. /\ \A i \in 1..3 : u.core[i] \in Nat /\ v.core[i] \in Nat /\ w.core[i] \in Nat
        /\ CoreBefore(u, v) \/ SameCore(u, v)
        /\ CoreBefore(v, w) \/ SameCore(v, w)
    BY <1>1 DEF Before
  <2>2. ASSUME CoreBefore(u, v), CoreBefore(v, w) PROVE CoreBefore(u, w)
    <3>1. PICK i \in 1..3 : u.core[i] < v.core[i] /\ \A j \in 1..(i - 1) : u.core[j] = v.core[j]
      BY <2>2 DEF CoreBefore
    <3>2. PICK k \in 1..3 : v.core[k] < w.core[k] /\ \A j \in 1..(k - 1) : v.core[j] = w.core[j]
      BY <2>2 DEF CoreBefore
    <3>3. ASSUME NEW m \in 1..3, m <= i, m <= k, m = i \/ m = k PROVE CoreBefore(u, w)
      <4>1. u.core[m] < w.core[m]
        <5>1. /\ u.core[m] \in Nat /\ v.core[m] \in Nat /\ w.core[m] \in Nat
              /\ u.core[m] <= v.core[m] /\ v.core[m] <= w.core[m]
              /\ u.core[m] < v.core[m] \/ v.core[m] < w.core[m]
          BY <2>1, <3>1, <3>2, <3>3
        <5> QED
          BY <5>1
      <4>2. \A j \in 1..(m - 1) : u.core[j] = w.core[j]
        BY <3>1, <3>2, <3>3
      <4> QED
        BY <4>1, <4>2 DEF CoreBefore
    <3> QED
      <4>1. i <= k \/ k <= i
        OBVIOUS
      <4> QED
        BY <3>3, <4>1
  <2>3. ASSUME SameCore(u, v), CoreBefore(v, w) PROVE CoreBefore(u, w)
    <3>1. PICK k \in 1..3 : v.core[k] < w.core[k] /\ \A j \in 1..(k - 1) : v.core[j] = w.core[j]
      BY <2>3 DEF CoreBefore
    <3>2. u.core[k] < w.core[k] /\ \A j \in 1..(k - 1) : u.core[j] = w.core[j]
      BY <2>3, <3>1 DEF SameCore
    <3> QED
      BY <3>2 DEF CoreBefore
  <2>4. ASSUME CoreBefore(u, v), SameCore(v, w) PROVE CoreBefore(u, w)
    <3>1. PICK k \in 1..3 : u.core[k] < v.core[k] /\ \A j \in 1..(k - 1) : u.core[j] = v.core[j]
      BY <2>4 DEF CoreBefore
    <3>2. u.core[k] < w.core[k] /\ \A j \in 1..(k - 1) : u.core[j] = w.core[j]
      BY <2>4, <3>1 DEF SameCore
    <3> QED
      BY <3>2 DEF CoreBefore
  <2>5. CoreBefore(u, w)
    BY <1>2, <2>1, <2>2, <2>3, <2>4
  <2> QED
    BY <2>5 DEF Before
<1>3. CASE ~CoreBefore(u, v) /\ ~CoreBefore(v, w)
  <2>1. SameCore(u, w)
    BY <1>3 DEF Before, SameCore
  <2>2. ListBefore(u.prerelease, w.prerelease)
    BY <1>1, <1>3, ListTransitive DEF Before
  <2> QED
    BY <2>1, <2>2 DEF Before
<1> QED
  BY <1>2, <1>3

\* compareSemver (semver-compare.ts:119) is a total order of what splitSemver
\* leaves of a version: swapping its arguments turns the sign, it is 0 of equal
\* ones alone, and it is transitive.
THEOREM SemverOrder ==
    ASSUME NEW u \in ParsedVersion, NEW v \in ParsedVersion, NEW w \in ParsedVersion
    PROVE  /\ CompareSemver(v, u) = -CompareSemver(u, v)
           /\ CompareSemver(u, v) = 0 <=> u = v
           /\ CompareSemver(u, v) <= 0 /\ CompareSemver(v, w) <= 0 => CompareSemver(u, w) <= 0
<1>1. /\ CompareSemver(u, v) \in {-1, 0, 1} /\ CompareSemver(v, u) \in {-1, 0, 1}
      /\ CompareSemver(v, w) \in {-1, 0, 1} /\ CompareSemver(u, w) \in {-1, 0, 1}
      /\ CompareSemver(u, v) = 0 <=> u = v
      /\ CompareSemver(v, w) = 0 <=> v = w
      /\ CompareSemver(u, v) = -1 <=> Before(u, v)
      /\ CompareSemver(v, u) = -1 <=> Before(v, u)
      /\ CompareSemver(v, w) = -1 <=> Before(v, w)
      /\ CompareSemver(u, w) = -1 <=> Before(u, w)
      /\ CompareSemver(u, v) = 1 <=> Before(v, u)
      /\ CompareSemver(v, u) = 1 <=> Before(u, v)
      /\ CompareSemver(v, u) = 0 <=> v = u
  BY VersionOrder
<1>2. Before(u, v) /\ Before(v, w) => Before(u, w)
  BY BeforeTransitive
<1> QED
  BY <1>1, <1>2

-----------------------------------------------------------------------------
(* Loops: what maxSemver and the filter of the ready rows compute           *)

\* Induction, for a set of numbers.
LEMMA UpTo ==
    ASSUME NEW m \in Nat, NEW n \in Nat, NEW S, m \in S,
           \A i \in m..n : i \in S /\ i < n => i + 1 \in S
    PROVE  \A i \in m..n : i \in S
<1> DEFINE out == {i \in m..n : i \notin S}
<1> SUFFICES ASSUME out # {} PROVE FALSE
  OBVIOUS
<1>1. out \subseteq Nat
  OBVIOUS
<1> DEFINE first == Min(out)
<1>2. first \in out /\ \A i \in out : first <= i
  BY <1>1, MinOf
<1> HIDE DEF first
<1>3. first - 1 \in m..n /\ first - 1 \notin out
  BY <1>2
<1> QED
  BY <1>2, <1>3

\* The best so far, after each turn of the loop of maxSemver.
Better(list, best, n) ==
    IF n = 1 THEN 1
    ELSE IF CompareSemver(list[n], list[best[n-1]]) > 0 THEN n ELSE best[n-1]

LEMMA BestExists ==
    ASSUME NEW list, Len(list) \in Nat, Len(list) > 0
    PROVE  \E best : best = [n \in 1..Len(list) |-> Better(list, best, n)]
<1> DEFINE S == {k \in Nat : \E best : best = [n \in 1..k |-> Better(list, best, n)]}
<1>1. 1 \in S
  <2> DEFINE best == [n \in 1..1 |-> 1]
  <2>1. best = [n \in 1..1 |-> Better(list, best, n)]
    BY DEF Better
  <2> QED
    BY <2>1
<1>2. ASSUME NEW k \in Nat, k >= 1, k \in S PROVE k + 1 \in S
  <2>1. PICK best : best = [n \in 1..k |-> Better(list, best, n)]
    BY <1>2
  <2> DEFINE next == [n \in 1..(k + 1) |-> IF n = k + 1 THEN Better(list, best, k + 1) ELSE best[n]]
  <2>2. ASSUME NEW n \in 1..(k + 1) PROVE next[n] = Better(list, next, n)
    <3>1. n # 1 => next[n - 1] = best[n - 1]
      BY <1>2
    <3>2. Better(list, next, n) = Better(list, best, n)
      BY <3>1 DEF Better
    <3>3. n # k + 1 => best[n] = Better(list, best, n)
      BY <2>1
    <3> QED
      BY <3>2, <3>3
  <2>3. next = [n \in 1..(k + 1) |-> next[n]]
    OBVIOUS
  <2> HIDE DEF next
  <2>4. next = [n \in 1..(k + 1) |-> Better(list, next, n)]
    BY <2>2, <2>3
  <2> QED
    BY <2>4
<1> HIDE DEF S
<1>3. Len(list) \in S
  <2>1. \A i \in 1..Len(list) : i \in S /\ i < Len(list) => i + 1 \in S
    BY <1>2
  <2>2. \A i \in 1..Len(list) : i \in S
    BY <1>1, <2>1, UpTo
  <2> QED
    BY <2>2
<1> QED
  BY <1>3 DEF S

\* The loop of maxSemver (semver-compare.ts:150) ends at a version of its list
\* that no other is above, for lists of any length.
THEOREM MaxSemverIsHighest ==
    ASSUME NEW list \in Seq(ParsedVersion), list # <<>>
    PROVE  /\ MaxSemver(list) \in 1..Len(list)
           /\ \A i \in 1..Len(list) : CompareSemver(list[i], list[MaxSemver(list)]) <= 0
<1>1. Len(list) \in Nat /\ Len(list) > 0 /\ \A i \in 1..Len(list) : list[i] \in ParsedVersion
  OBVIOUS
<1> DEFINE best == CHOOSE best : best = [n \in 1..Len(list) |-> Better(list, best, n)]
           Highest(n) == /\ best[n] \in 1..n
                         /\ \A i \in 1..n : CompareSemver(list[i], list[best[n]]) <= 0
           S == {n \in 1..Len(list) : Highest(n)}
<1>2. MaxSemver(list) = best[Len(list)]
  BY DEF MaxSemver, Better
<1>3. best = [n \in 1..Len(list) |-> Better(list, best, n)]
  BY <1>1, BestExists
<1> HIDE DEF best
<1>4. \A n \in 1..Len(list) : best[n] = Better(list, best, n)
  BY <1>3
<1>5. 1 \in S
  <2>1. best[1] = 1
    BY <1>1, <1>4 DEF Better
  <2>2. CompareSemver(list[1], list[1]) = 0
    BY <1>1, SemverOrder
  <2> QED
    BY <1>1, <2>1, <2>2
<1>6. ASSUME NEW n \in 1..Len(list), n \in S, n < Len(list) PROVE n + 1 \in S
  <2>1. /\ n + 1 \in 1..Len(list) /\ best[n] \in 1..n
        /\ \A i \in 1..n : CompareSemver(list[i], list[best[n]]) <= 0
        /\ list[n + 1] \in ParsedVersion /\ list[best[n]] \in ParsedVersion
    BY <1>1, <1>6
  <2>2. best[n + 1] = IF CompareSemver(list[n + 1], list[best[n]]) > 0 THEN n + 1 ELSE best[n]
    BY <1>4, <2>1 DEF Better
  <2>3. CASE CompareSemver(list[n + 1], list[best[n]]) > 0
    <3>1. best[n + 1] = n + 1
      BY <2>2, <2>3
    <3>2. ASSUME NEW i \in 1..(n + 1) PROVE CompareSemver(list[i], list[n + 1]) <= 0
      <4>1. CASE i = n + 1
        BY <2>1, <4>1, SemverOrder
      <4>2. CASE i # n + 1
        <5>1. i \in 1..n /\ list[i] \in ParsedVersion
          BY <1>1, <2>1, <4>2
        <5>2. CompareSemver(list[best[n]], list[n + 1]) = -CompareSemver(list[n + 1], list[best[n]])
          BY <2>1, SemverOrder
        <5>3. /\ CompareSemver(list[best[n]], list[n + 1]) \in {-1, 0, 1}
              /\ CompareSemver(list[n + 1], list[best[n]]) \in {-1, 0, 1}
          BY <2>1, VersionOrder
        <5>4. CompareSemver(list[best[n]], list[n + 1]) <= 0
          BY <2>3, <5>2, <5>3
        <5> QED
          BY <2>1, <5>1, <5>4, SemverOrder
      <4> QED
        BY <4>1, <4>2
    <3> QED
      BY <1>1, <2>1, <3>1, <3>2
  <2>4. CASE ~(CompareSemver(list[n + 1], list[best[n]]) > 0)
    <3>1. best[n + 1] = best[n]
      BY <2>2, <2>4
    <3>2. CompareSemver(list[n + 1], list[best[n]]) \in {-1, 0, 1}
      BY <2>1, VersionOrder
    <3>3. ASSUME NEW i \in 1..(n + 1) PROVE CompareSemver(list[i], list[best[n]]) <= 0
      BY <2>1, <2>4, <3>2
    <3> QED
      BY <1>1, <2>1, <3>1, <3>3
  <2> QED
    BY <2>3, <2>4
<1> HIDE DEF S
<1>7. Len(list) \in S
  <2>1. \A i \in 1..Len(list) : i \in S /\ i < Len(list) => i + 1 \in S
    BY <1>1, <1>6
  <2>2. \A i \in 1..Len(list) : i \in S
    BY <1>1, <1>5, <2>1, UpTo
  <2> QED
    BY <2>2, <1>1
<1> QED
  BY <1>2, <1>7 DEF S

-----------------------------------------------------------------------------
(* Catalog: what is served, and to whom                                     *)

VersionRow == [tag : Versions, status : {"pending", "ready", "failed"}]
States == {"idle", "slugs", "rows", "row", "gate", "rest", "done"}

TypeOK ==
    /\ rows \in 0..MaxRows
    /\ row \in [Packs -> [id : 0..MaxRows, visibility : {"org", "public"}, removed : BOOLEAN]]
    /\ \A p \in Packs : row[p].id <= rows
    /\ version \in [1..MaxRows -> Seq(VersionRow)]
    /\ member \in [Packs -> SUBSET Users]
    /\ DOMAIN reader = DOMAIN Idle
    /\ reader.pc \in States /\ reader.kind \in Kinds /\ reader.user \in Users \union {None}
    /\ reader.pc \in {"row", "gate", "rest"} => reader.pack \in Packs

\* The ready tags among the first rows.
ReadyTo(all, ready, n) ==
    IF n = 0 THEN << >>
    ELSE IF all[n].status = "ready" THEN Append(ready[n-1], all[n].tag) ELSE ready[n-1]

\* The tags of the ready rows are a list of versions.
LEMMA ReadyAreVersions ==
    ASSUME TypeOK, NEW id \in 0..MaxRows
    PROVE  ReadyTags(id) \in Seq(Versions)
<1> DEFINE all == VersionsOf(id)
<1>1. MaxRows \in Nat
  BY CatalogAssumption
<1>2. all \in Seq(VersionRow)
  <2>1. CASE id = 0
    BY <2>1 DEF VersionsOf
  <2>2. CASE id # 0
    BY <1>1, <2>2 DEF VersionsOf, TypeOK
  <2> QED
    BY <2>1, <2>2
<1> HIDE DEF all
<1>3. Len(all) \in Nat /\ \A n \in 1..Len(all) : all[n].tag \in Versions
  <2>1. Len(all) \in Nat /\ \A n \in 1..Len(all) : all[n] \in VersionRow
    BY <1>2
  <2> QED
    BY <2>1 DEF VersionRow
<1> DEFINE Made == {k \in Nat : \E ready : ready = [n \in 0..k |-> ReadyTo(all, ready, n)]}
<1>4. \E ready : ready = [n \in 0..Len(all) |-> ReadyTo(all, ready, n)]
  <2>1. 0 \in Made
    <3> DEFINE ready == [n \in 0..0 |-> << >>]
    <3>1. ready = [n \in 0..0 |-> ReadyTo(all, ready, n)]
      BY DEF ReadyTo
    <3> QED
      BY <3>1
  <2>2. ASSUME NEW k \in Nat, k \in Made PROVE k + 1 \in Made
    <3>1. PICK ready : ready = [n \in 0..k |-> ReadyTo(all, ready, n)]
      BY <2>2
    <3> DEFINE more == [n \in 0..(k + 1) |-> IF n = k + 1 THEN ReadyTo(all, ready, k + 1) ELSE ready[n]]
    <3>2. ASSUME NEW n \in 0..(k + 1) PROVE more[n] = ReadyTo(all, more, n)
      <4>1. n # 0 => more[n - 1] = ready[n - 1]
        OBVIOUS
      <4>2. ReadyTo(all, more, n) = ReadyTo(all, ready, n)
        BY <4>1 DEF ReadyTo
      <4>3. n # k + 1 => ready[n] = ReadyTo(all, ready, n)
        BY <3>1
      <4> QED
        BY <4>2, <4>3
    <3>3. more = [n \in 0..(k + 1) |-> more[n]]
      OBVIOUS
    <3> HIDE DEF more
    <3>4. more = [n \in 0..(k + 1) |-> ReadyTo(all, more, n)]
      BY <3>2, <3>3
    <3> QED
      BY <3>4
  <2> HIDE DEF Made
  <2>3. \A k \in 0..Len(all) : k \in Made
    <3>1. \A k \in 0..Len(all) : k \in Made /\ k < Len(all) => k + 1 \in Made
      BY <2>2
    <3> QED
      BY <1>3, <2>1, <3>1, UpTo
  <2>4. Len(all) \in Made
    BY <1>3, <2>3
  <2> QED
    BY <2>4 DEF Made
<1> DEFINE ready == CHOOSE ready : ready = [n \in 0..Len(all) |-> ReadyTo(all, ready, n)]
<1>5. ReadyTags(id) = ready[Len(all)]
  BY DEF ReadyTags, ReadyTo, all
<1>6. ready = [n \in 0..Len(all) |-> ReadyTo(all, ready, n)]
  BY <1>4
<1> HIDE DEF ready
<1>7. \A n \in 0..Len(all) : ready[n] = ReadyTo(all, ready, n)
  BY <1>6
<1> DEFINE Typed == {n \in 0..Len(all) : ready[n] \in Seq(Versions)}
<1>8. 0 \in Typed
  <2>1. 0 \in 0..Len(all) /\ << >> \in Seq(Versions)
    BY <1>3
  <2>2. ready[0] = << >>
    BY <1>7, <2>1 DEF ReadyTo
  <2> QED
    BY <2>1, <2>2
<1>9. ASSUME NEW n \in 0..Len(all), n \in Typed, n < Len(all) PROVE n + 1 \in Typed
  <2>1. /\ ready[n] \in Seq(Versions) /\ n + 1 \in 1..Len(all) /\ n + 1 \in 0..Len(all)
        /\ all[n + 1].tag \in Versions
    BY <1>3, <1>9
  <2>2. ready[n + 1] = IF all[n + 1].status = "ready" THEN Append(ready[n], all[n + 1].tag)
                       ELSE ready[n]
    BY <1>7, <2>1 DEF ReadyTo
  <2>3. ready[n + 1] \in Seq(Versions)
    BY <2>1, <2>2
  <2> QED
    BY <2>1, <2>3
<1> HIDE DEF Typed
<1>10. \A n \in 0..Len(all) : n \in Typed
  BY <1>3, <1>8, <1>9, UpTo
<1>11. Len(all) \in Typed
  BY <1>3, <1>10
<1> QED
  BY <1>5, <1>11 DEF Typed

\* The rows of a list in any order: they are those of the list.
LEMMA OrdersKeep ==
    ASSUME NEW S, NEW list \in Seq(S), NEW order \in Orders(list)
    PROVE  /\ order \in Seq(S) /\ Len(order) = Len(list)
           /\ \A i \in 1..Len(list) : \E j \in 1..Len(order) : order[j] = list[i]
           /\ \A j \in 1..Len(order) : \E i \in 1..Len(list) : order[j] = list[i]
<1>1. Len(list) \in Nat /\ DOMAIN list = 1..Len(list) /\ \A i \in 1..Len(list) : list[i] \in S
  OBVIOUS
<1> DEFINE D == 1..Len(list)
<1>2. PICK f \in [D -> D] : /\ \A i, j \in D : f[i] = f[j] => i = j
                            /\ order = [i \in D |-> list[f[i]]]
  BY <1>1 DEF Orders
<1>3. IsFiniteSet(D)
  BY <1>1, FS_Interval
<1>4. f \in Surjection(D, D)
  <2>1. f \in Injection(D, D)
    BY <1>2 DEF Injection, IsInjective
  <2> QED
    BY <1>3, <2>1, FS_Injection
<1>5. \A i \in D : \E j \in D : f[j] = i
  BY <1>4 DEF Surjection
<1>6. order \in [1..Len(list) -> S]
  BY <1>1, <1>2
<1>7. order \in Seq(S) /\ Len(order) = Len(list)
  BY <1>1, <1>6
<1> QED
  BY <1>1, <1>2, <1>5, <1>7

LEMMA OrderExists ==
    ASSUME NEW S, NEW list \in Seq(S)
    PROVE  list \in Orders(list)
<1> DEFINE f == [i \in DOMAIN list |-> i]
<1>1. f \in [DOMAIN list -> DOMAIN list] /\ \A i, j \in DOMAIN list : f[i] = f[j] => i = j
  OBVIOUS
<1>2. list = [i \in DOMAIN list |-> list[f[i]]]
  OBVIOUS
<1> HIDE DEF f
<1> QED
  BY <1>1, <1>2 DEF Orders

\* The latest version of a pack is a highest one, in whatever order its ready
\* rows come.
LEMMA HighestOfReady == TypeOK => LatestIsHighest
<1> SUFFICES ASSUME TypeOK, NEW p \in Packs
             PROVE  LET ready == ReadyTags(row[p].id)
                        found == {Best(order) : order \in Orders(ready)}
                    IN  IF ready = << >> THEN found = {None}
                        ELSE /\ found \subseteq ToSet(ready)
                             /\ \A v \in found, w \in found : CompareSemver(v, w) = 0
                             /\ \A v \in found : \A i \in DOMAIN ready : CompareSemver(ready[i], v) <= 0
  BY DEF LatestIsHighest
<1> DEFINE ready == ReadyTags(row[p].id)
           found == {Best(order) : order \in Orders(ready)}
<1>1. ready \in Seq(Versions) /\ Versions \subseteq ParsedVersion
  BY ReadyAreVersions, CatalogAssumption DEF TypeOK
<1> HIDE DEF ready
<1>2. CASE ready = << >>
  <2>1. ASSUME NEW order \in Orders(ready) PROVE order = << >>
    <3>1. order \in Seq(Versions) /\ Len(order) = Len(ready)
      BY <1>1, OrdersKeep
    <3> QED
      BY <1>2, <3>1
  <2>2. << >> \in Orders(ready)
    BY <1>1, <1>2, OrderExists
  <2>3. Best(<< >>) = None
    BY DEF Best
  <2>4. found = {None}
    BY <2>1, <2>2, <2>3
  <2> QED
    BY <1>2, <2>4 DEF ready
<1>3. CASE ready # << >>
  <2>1. ASSUME NEW order \in Orders(ready)
        PROVE  /\ Best(order) \in Versions
               /\ \A i \in 1..Len(ready) : CompareSemver(ready[i], Best(order)) <= 0
               /\ Best(order) \in ToSet(ready)
    <3>1. /\ order \in Seq(Versions) /\ Len(order) = Len(ready)
          /\ \A i \in 1..Len(ready) : \E j \in 1..Len(order) : order[j] = ready[i]
          /\ \A j \in 1..Len(order) : \E i \in 1..Len(ready) : order[j] = ready[i]
      BY <1>1, OrdersKeep
    <3>2. order \in Seq(ParsedVersion) /\ order # << >>
      BY <1>1, <1>3, <3>1
    <3>3. /\ MaxSemver(order) \in 1..Len(order)
          /\ \A j \in 1..Len(order) : CompareSemver(order[j], order[MaxSemver(order)]) <= 0
      BY <3>2, MaxSemverIsHighest
    <3>4. Best(order) = order[MaxSemver(order)]
      BY <3>2 DEF Best
    <3>5. Best(order) \in Versions
      BY <3>1, <3>3, <3>4
    <3>6. ASSUME NEW i \in 1..Len(ready) PROVE CompareSemver(ready[i], Best(order)) <= 0
      BY <3>1, <3>3, <3>4
    <3>7. Best(order) \in ToSet(ready)
      <4>1. PICK i \in 1..Len(ready) : Best(order) = ready[i]
        BY <3>1, <3>3, <3>4
      <4>2. i \in DOMAIN ready
        BY <1>1
      <4> QED
        BY <4>1, <4>2 DEF ToSet
    <3> QED
      BY <3>5, <3>6, <3>7
  <2>2. ASSUME NEW v \in found, NEW w \in found PROVE CompareSemver(v, w) = 0
    <3>1. /\ v \in ParsedVersion /\ w \in ParsedVersion
          /\ CompareSemver(v, w) <= 0 /\ CompareSemver(w, v) <= 0
      <4>1. ASSUME NEW x \in found PROVE x \in Versions /\ x \in ToSet(ready)
        BY <2>1
      <4>2. ASSUME NEW x \in found, NEW y \in ToSet(ready) PROVE CompareSemver(y, x) <= 0
        <5>1. PICK i \in 1..Len(ready) : y = ready[i]
          BY <1>1 DEF ToSet
        <5> QED
          BY <2>1, <5>1
      <4> QED
        BY <1>1, <4>1, <4>2
    <3>2. CompareSemver(w, v) = -CompareSemver(v, w) /\ CompareSemver(v, w) \in {-1, 0, 1}
      BY <3>1, SemverOrder, VersionOrder
    <3> QED
      BY <3>1, <3>2
  <2>3. /\ found \subseteq ToSet(ready)
        /\ \A v \in found : \A i \in DOMAIN ready : CompareSemver(ready[i], v) <= 0
    BY <1>1, <2>1
  <2> HIDE DEF found
  <2> QED
    BY <1>3, <2>2, <2>3 DEF ready, found
<1> QED
  BY <1>2, <1>3

\* What a read in flight has found out its caller may know, and what it has
\* given away.
Informed ==
    /\ reader.pc \in {"slugs", "rows"} => reader.kind = "list"
    /\ reader.pc \in {"row", "gate", "rest"} => reader.kind # "list"
    /\ At("rows") => reader.slugs \subseteq visible
    /\ At("rest") => reader.pack \in visible
    /\ ServedWasVisible

\* What a read in flight has found out is so, as long as nothing changes.
UpToDate ==
    /\ quiet /\ At("gate") =>
         /\ Row(reader.pack) /\ row[reader.pack].visibility # "public"
         /\ reader.removed = row[reader.pack].removed
    /\ quiet /\ At("rest") =>
         reader.pack \in Listed({p \in Packs : MemberNow(reader.user, p)})
    /\ SurfacesAgree

\* A change of the database, seen from a read in flight.
LEMMA BesideRead ==
    ASSUME Informed, UpToDate, Beside
    PROVE  Informed' /\ UpToDate'
<1>1. /\ reader' = reader
      /\ reader.pc # "idle" => visible \subseteq visible'
      /\ reader.pc # "idle" /\ quiet' => quiet /\ row' = row /\ member' = member
  BY DEF Beside, Watch, dbVars
<1>2. CASE At("idle")
  <2>1. reader'.pc = "idle"
    BY <1>1, <1>2 DEF At
  <2>2. Disclosed' = {}
    BY <2>1 DEF Disclosed, At
  <2> QED
    BY <2>1, <2>2 DEF Informed, UpToDate, ServedWasVisible, SurfacesAgree, At
<1>3. CASE ~At("idle")
  <2>1. Informed'
    <3>1. Disclosed' = Disclosed
      BY <1>1 DEF Disclosed, At
    <3>2. visible \subseteq visible'
      BY <1>1, <1>3 DEF At
    <3>3. ServedWasVisible'
      BY <3>1, <3>2 DEF Informed, ServedWasVisible
    <3> QED
      BY <1>1, <3>2, <3>3 DEF Informed, At
  <2>2. UpToDate'
    <3> SUFFICES ASSUME quiet' PROVE UpToDate'
      BY DEF UpToDate, SurfacesAgree
    <3>1. quiet /\ row' = row /\ member' = member
      BY <1>1, <1>3 DEF At
    <3> QED
      BY <1>1, <3>1 DEF UpToDate, SurfacesAgree, Listed, MemberNow, Row, At
  <2> QED
    BY <2>1, <2>2
<1> QED
  BY <1>2, <1>3

\* A step of a read adds what its caller can see to the history.
LEMMA ReadWatched ==
    ASSUME Reads, reader'.pc # "idle", reader'.user = reader.user
    PROVE  /\ visible' = visible \union CallerSees
           /\ quiet' => quiet
           /\ row' = row /\ member' = member
BY DEF Reads, Watch, dbVars, CallerSees, MemberNow, Row

\* The fields of a read after each kind of assignment.
LEMMA Replied ==
    ASSUME TypeOK, NEW a, Reply(a)
    PROVE  /\ reader'.pc = "done" /\ reader'.answer = a /\ reader'.kind = reader.kind
           /\ reader'.user = reader.user /\ reader'.pack = reader.pack
           /\ DOMAIN reader' = DOMAIN Idle
BY DEF TypeOK, Reply, Idle

CatalogInv == TypeOK /\ Informed /\ UpToDate

LEMMA CatalogStart == Init => CatalogInv
<1> SUFFICES ASSUME Init PROVE CatalogInv
  OBVIOUS
<1>1. MaxRows \in Nat
  BY CatalogAssumption
<1>2. reader.pc = "idle" /\ reader.user = None /\ reader.kind = "list" /\ reader = Idle
  BY DEF Init, Idle
<1>3. TypeOK
  BY <1>1, <1>2 DEF Init, TypeOK, NoRow, States, Kinds
<1>4. Disclosed = {}
  BY <1>2 DEF Disclosed, At
<1> QED
  BY <1>2, <1>3, <1>4 DEF CatalogInv, Informed, UpToDate, ServedWasVisible, SurfacesAgree, At

\* Publishes, removals, the worker and changes of membership.
LEMMA DatabaseTypes ==
    ASSUME TypeOK, NEW p \in Packs, NEW v \in Versions,
           \/ \E visibility \in {"org", "public"} : PublishPack(p, visibility, v)
           \/ PublishVersion(p, v)
           \/ Settle(p, v, "failed", {})
           \/ \E shown \in SUBSET Recipes : Settle(p, v, "ready", shown)
    PROVE  TypeOK'
<1>1. MaxRows \in Nat /\ rows \in 0..MaxRows
  BY CatalogAssumption DEF TypeOK
<1>2. reader' = reader /\ member' = member
  BY DEF PublishPack, PublishVersion, Settle, Beside
<1>3. ASSUME NEW visibility \in {"org", "public"}, PublishPack(p, visibility, v) PROVE TypeOK'
  <2>1. rows' = rows + 1 /\ rows' \in 0..MaxRows
    BY <1>1, <1>3 DEF PublishPack
  <2>2. row' = [row EXCEPT ![p] = [id |-> rows + 1, visibility |-> visibility, removed |-> FALSE]]
    BY <1>3 DEF PublishPack
  <2>3. /\ row' \in [Packs -> [id : 0..MaxRows, visibility : {"org", "public"}, removed : BOOLEAN]]
        /\ \A q \in Packs : row'[q].id <= rows'
    <3>1. [id |-> rows + 1, visibility |-> visibility, removed |-> FALSE] \in
            [id : 0..MaxRows, visibility : {"org", "public"}, removed : BOOLEAN]
      BY <2>1
    <3>2. \A q \in Packs : row'[q] = IF q = p THEN [id |-> rows + 1, visibility |-> visibility,
                                                     removed |-> FALSE] ELSE row[q]
      BY <2>2 DEF TypeOK
    <3>3. \A q \in Packs : row[q].id \in 0..MaxRows /\ row[q].id <= rows
      BY DEF TypeOK
    <3>4. \A q \in Packs : row'[q].id <= rows'
      BY <1>1, <2>1, <3>2, <3>3
    <3> QED
      BY <2>2, <3>1, <3>4 DEF TypeOK
  <2>4. version' \in [1..MaxRows -> Seq(VersionRow)]
    <3>1. <<[tag |-> v, status |-> "pending"]>> \in Seq(VersionRow) /\ << >> \in Seq(VersionRow)
      <4>1. [tag |-> v, status |-> "pending"] \in VersionRow
        BY DEF VersionRow
      <4> QED
        BY <4>1
    <3>2. version' = [i \in 1..MaxRows |->
                        IF i = rows + 1 THEN <<[tag |-> v, status |-> "pending"]>>
                        ELSE IF i = row[p].id THEN << >> ELSE version[i]]
      BY <1>3 DEF PublishPack, TypeOK
    <3> QED
      BY <3>1, <3>2 DEF TypeOK
  <2> QED
    BY <1>2, <2>1, <2>3, <2>4 DEF TypeOK
<1>4. CASE PublishVersion(p, v)
  <2>1. version' = [version EXCEPT ![row[p].id] = Append(version[row[p].id],
                                                         [tag |-> v, status |-> "pending"])]
        /\ UNCHANGED <<row, rows>> /\ row[p].id # 0
    BY <1>4 DEF PublishVersion, Row
  <2>2. row[p].id \in 1..MaxRows
    BY <1>1, <2>1 DEF TypeOK
  <2>3. Append(version[row[p].id], [tag |-> v, status |-> "pending"]) \in Seq(VersionRow)
    <3>1. [tag |-> v, status |-> "pending"] \in VersionRow
      BY DEF VersionRow
    <3>2. version[row[p].id] \in Seq(VersionRow)
      BY <2>2 DEF TypeOK
    <3> QED
      BY <3>1, <3>2
  <2>4. version' \in [1..MaxRows -> Seq(VersionRow)]
    BY <2>1, <2>3 DEF TypeOK
  <2> QED
    BY <1>2, <2>1, <2>4 DEF TypeOK
<1>5. ASSUME NEW status \in {"ready", "failed"}, NEW shown, Settle(p, v, status, shown) PROVE TypeOK'
  <2> DEFINE id == row[p].id
             old == version[id]
             settled == [i \in DOMAIN old |->
                           IF old[i].tag = v THEN [old[i] EXCEPT !.status = status] ELSE old[i]]
  <2>1. version' = [version EXCEPT ![id] = settled] /\ UNCHANGED <<row, rows>> /\ id # 0
    BY <1>5 DEF Settle, Row
  <2>2. id \in 1..MaxRows
    BY <1>1, <2>1 DEF TypeOK
  <2>3. old \in Seq(VersionRow)
    BY <2>2 DEF TypeOK
  <2> HIDE DEF old, id
  <2>4. Len(old) \in Nat /\ DOMAIN old = 1..Len(old) /\ \A i \in 1..Len(old) : old[i] \in VersionRow
    BY <2>3
  <2>5. \A i \in 1..Len(old) : [old[i] EXCEPT !.status = status] \in VersionRow
    <3> SUFFICES ASSUME NEW e \in VersionRow PROVE [e EXCEPT !.status = status] \in VersionRow
      BY <2>4
    <3> QED
      BY DEF VersionRow
  <2>6. \A i \in 1..Len(old) : settled[i] \in VersionRow
    BY <2>4, <2>5
  <2>7. settled = [i \in 1..Len(old) |-> settled[i]]
    BY <2>4
  <2> HIDE DEF settled
  <2>8. settled \in Seq(VersionRow)
    BY <2>4, <2>6, <2>7
  <2>9. version' \in [1..MaxRows -> Seq(VersionRow)]
    BY <2>1, <2>8 DEF TypeOK
  <2> QED
    BY <1>2, <2>1, <2>9 DEF TypeOK
<1> QED
  BY <1>3, <1>4, <1>5

LEMMA MembershipTypes ==
    ASSUME TypeOK, NEW p \in Packs, Unpublish(p) \/ \E u \in Users : Leave(u, p)
    PROVE  TypeOK'
<1>1. CASE Unpublish(p)
  <2>1. UNCHANGED <<rows, version, member, reader>> /\ row' = [row EXCEPT ![p].removed = TRUE]
    BY <1>1 DEF Unpublish, Beside
  <2>2. row[p] \in [id : 0..MaxRows, visibility : {"org", "public"}, removed : BOOLEAN]
    BY DEF TypeOK
  <2>3. /\ [row[p] EXCEPT !.removed = TRUE] \in
             [id : 0..MaxRows, visibility : {"org", "public"}, removed : BOOLEAN]
        /\ [row[p] EXCEPT !.removed = TRUE].id = row[p].id
    BY <2>2
  <2>4. row' = [q \in Packs |-> IF q = p THEN [row[p] EXCEPT !.removed = TRUE] ELSE row[q]]
    BY <2>1 DEF TypeOK
  <2>5. /\ row' \in [Packs -> [id : 0..MaxRows, visibility : {"org", "public"}, removed : BOOLEAN]]
        /\ \A q \in Packs : row'[q].id = row[q].id
    BY <2>3, <2>4 DEF TypeOK
  <2> QED
    BY <2>1, <2>5 DEF TypeOK
<1>2. ASSUME NEW u \in Users, Leave(u, p) PROVE TypeOK'
  <2>1. UNCHANGED <<row, rows, version, reader>> /\ member' = [member EXCEPT ![p] = @ \ {u}]
    BY <1>2 DEF Leave, Beside, dbVars
  <2>2. member' \in [Packs -> SUBSET Users]
    BY <2>1 DEF TypeOK
  <2> QED
    BY <2>1, <2>2 DEF TypeOK
<1> QED
  BY <1>1, <1>2

\* The pack of the read is one the catalog lists to its caller now.
IsListed == reader.pack \in Listed({p \in Packs : MemberNow(reader.user, p)})

\* An answer to a read of one pack: what it gives away its caller may know, and
\* it says what the catalog says.
LEMMA Answered ==
    ASSUME CatalogInv, NEW a, Reply(a), Reads, reader.kind # "list",
           a # NotFound => reader.pack \in visible \union CallerSees,
           quiet /\ a.status = 200 => IsListed,
           quiet /\ IsListed /\ reader.kind \in {"detail", "versions"} => a.status = 200
    PROVE  CatalogInv'
<1>1. /\ reader'.pc = "done" /\ reader'.answer = a /\ reader'.kind = reader.kind
      /\ reader'.user = reader.user /\ reader'.pack = reader.pack
      /\ DOMAIN reader' = DOMAIN Idle
  BY Replied DEF CatalogInv
<1>2. /\ visible' = visible \union CallerSees
      /\ quiet' => quiet
      /\ row' = row /\ member' = member
  BY <1>1, ReadWatched
<1>3. UNCHANGED <<rows, version>>
  BY DEF Reads, dbVars
<1>4. TypeOK'
  BY <1>1, <1>2, <1>3 DEF CatalogInv, TypeOK, States
<1>5. Disclosed' = IF a = NotFound THEN {} ELSE {reader.pack}
  BY <1>1 DEF Disclosed, At, NotFound
<1>6. Informed'
  BY <1>1, <1>2, <1>5 DEF Informed, ServedWasVisible, At
<1>7. IsListed' <=> IsListed
  BY <1>1, <1>2 DEF IsListed, Listed, MemberNow, Row
<1>8. UpToDate'
  BY <1>1, <1>2, <1>7 DEF UpToDate, SurfacesAgree, IsListed, At
<1> QED
  BY <1>4, <1>6, <1>8 DEF CatalogInv

\* A read of one pack that goes on: what it keeps of the rows is so.
LEMMA GoesOn ==
    ASSUME CatalogInv, Reads, reader.kind # "list", reader.pack \in Packs,
           DOMAIN reader' = DOMAIN Idle, reader'.pc \in {"row", "gate", "rest"},
           reader'.kind = reader.kind, reader'.user = reader.user, reader'.pack = reader.pack,
           reader'.pc = "rest" => reader.pack \in visible \union CallerSees,
           quiet /\ reader'.pc = "rest" => IsListed,
           quiet /\ reader'.pc = "gate" =>
             /\ Row(reader.pack) /\ row[reader.pack].visibility # "public"
             /\ reader'.removed = row[reader.pack].removed
    PROVE  CatalogInv'
<1>1. /\ visible' = visible \union CallerSees
      /\ quiet' => quiet
      /\ row' = row /\ member' = member
  BY ReadWatched
<1>2. UNCHANGED <<rows, version>>
  BY DEF Reads, dbVars
<1>3. TypeOK'
  BY <1>1, <1>2 DEF CatalogInv, TypeOK, States
<1>4. Disclosed' = {}
  BY DEF Disclosed, At
<1>5. Informed'
  BY <1>1, <1>4 DEF Informed, ServedWasVisible, At
<1>6. IsListed' <=> IsListed
  BY <1>1 DEF IsListed, Listed, MemberNow, Row
<1>7. UpToDate'
  BY <1>1, <1>6 DEF UpToDate, SurfacesAgree, IsListed, At, Row
<1> QED
  BY <1>3, <1>5, <1>7 DEF CatalogInv

LEMMA ReceiveKeeps ==
    ASSUME CatalogInv, NEW u \in Users \union {None}, NEW kind \in Kinds, NEW p \in Packs,
           NEW v, NEW r, ReceiveRead(u, kind, p, v, r)
    PROVE  CatalogInv'
<1>1. /\ reader'.pc = (IF kind = "list" THEN "slugs" ELSE "row") /\ reader'.kind = kind
      /\ reader'.user = u /\ reader'.pack = p /\ DOMAIN reader' = DOMAIN Idle
  BY DEF ReceiveRead, Idle
<1>2. UNCHANGED <<row, rows, version, member>>
  BY DEF ReceiveRead, dbVars
<1>3. TypeOK'
  BY <1>1, <1>2 DEF CatalogInv, TypeOK, States
<1>4. Disclosed' = {}
  BY <1>1 DEF Disclosed, At
<1> QED
  BY <1>1, <1>3, <1>4 DEF CatalogInv, Informed, UpToDate, ServedWasVisible, SurfacesAgree, At

LEMMA SlugsKeep ==
    ASSUME CatalogInv, LoadMemberSlugs
    PROVE  CatalogInv'
<1> DEFINE mine == {p \in Packs : MemberNow(reader.user, p)}
<1>1. Reads /\ At("slugs") /\ reader.kind = "list"
  BY DEF LoadMemberSlugs, CatalogInv, Informed, At
<1>2. /\ reader'.pc = "rows" /\ reader'.slugs = mine /\ reader'.kind = reader.kind
      /\ reader'.user = reader.user /\ DOMAIN reader' = DOMAIN Idle
  <2>1. reader' = [reader EXCEPT !.pc = "rows", !.slugs = mine]
    BY DEF LoadMemberSlugs
  <2> HIDE DEF mine
  <2> QED
    BY <2>1 DEF CatalogInv, TypeOK, Idle
<1>3. /\ visible' = visible \union CallerSees
      /\ row' = row /\ member' = member
  BY <1>1, <1>2, ReadWatched
<1>4. UNCHANGED <<rows, version>>
  BY <1>1 DEF Reads, dbVars
<1>5. TypeOK'
  BY <1>2, <1>3, <1>4 DEF CatalogInv, TypeOK, States
<1>6. mine \subseteq CallerSees
  BY DEF CallerSees
<1>7. Disclosed' = {}
  BY <1>2 DEF Disclosed, At
<1> QED
  BY <1>1, <1>2, <1>3, <1>5, <1>6, <1>7
     DEF CatalogInv, Informed, UpToDate, ServedWasVisible, SurfacesAgree, At

LEMMA ListKeeps ==
    ASSUME CatalogInv, ListPacks
    PROVE  CatalogInv'
<1>1. Reads /\ At("rows") /\ reader.kind = "list" /\ reader.slugs \subseteq visible
  BY DEF ListPacks, CatalogInv, Informed, At
<1>2. PICK order : Reply(Answer(200, {<<p, Best(order[p])>> : p \in Listed(reader.slugs)}))
  BY DEF ListPacks
<1> DEFINE shows == {<<p, Best(order[p])>> : p \in Listed(reader.slugs)}
<1> HIDE DEF shows
<1>3. /\ reader'.pc = "done" /\ reader'.answer = Answer(200, shows) /\ reader'.kind = reader.kind
      /\ reader'.user = reader.user /\ DOMAIN reader' = DOMAIN Idle
  BY <1>2, Replied DEF CatalogInv, shows
<1>4. /\ visible' = visible \union CallerSees
      /\ row' = row /\ member' = member
  BY <1>1, <1>3, ReadWatched
<1>5. UNCHANGED <<rows, version>>
  BY <1>1 DEF Reads, dbVars
<1>6. TypeOK'
  BY <1>3, <1>4, <1>5 DEF CatalogInv, TypeOK, States
<1>7. Disclosed' \subseteq {entry[1] : entry \in shows}
  BY <1>1, <1>3 DEF Disclosed, Answer
<1>8. \A entry \in shows : entry[1] \in Listed(reader.slugs)
  BY DEF shows
<1>9. Listed(reader.slugs) \subseteq visible \union CallerSees
  BY <1>1 DEF Listed, CallerSees
<1>10. ServedWasVisible'
  BY <1>4, <1>7, <1>8, <1>9 DEF ServedWasVisible
<1> QED
  BY <1>1, <1>3, <1>6, <1>10 DEF CatalogInv, Informed, UpToDate, SurfacesAgree, At

LEMMA RowKeeps ==
    ASSUME CatalogInv, ReadRow
    PROVE  CatalogInv'
<1> DEFINE p == reader.pack
           status == StatusOf(row[p].id, reader.tag)
<1>1. Reads /\ At("row") /\ reader.kind # "list" /\ p \in Packs /\ DOMAIN reader = DOMAIN Idle
  BY DEF ReadRow, CatalogInv, Informed, TypeOK, At
<1>2. Row(p) /\ row[p].visibility = "public" => p \in CallerSees
  BY <1>1 DEF CallerSees
<1>3. IsListed => Row(p) /\ ~row[p].removed
  BY DEF IsListed, Listed
<1>4. CASE ~Row(p) \/ (reader.kind \in {"version", "download"} /\ status = "none")
  <2>1. Reply(NotFound)
    BY <1>4 DEF ReadRow
  <2> QED
    BY <1>1, <1>3, <1>4, <2>1, Answered DEF NotFound, Answer
<1>5. CASE /\ ~(~Row(p) \/ (reader.kind \in {"version", "download"} /\ status = "none"))
           /\ row[p].visibility = "public"
  <2>1. PastGate(row[p].removed, status) /\ p \in CallerSees
    BY <1>2, <1>5 DEF ReadRow
  <2>2. CASE row[p].removed
    <3>1. Reply(Answer(410, {p}))
      BY <2>1, <2>2 DEF PastGate
    <3>2. Answer(410, {p}).status = 410
      BY DEF Answer
    <3> QED
      BY <1>1, <1>3, <2>1, <2>2, <3>1, <3>2, Answered
  <2>3. CASE ~row[p].removed /\ reader.kind \in OfVersion /\ status = "none"
    <3>1. Reply(NotFound) /\ reader.kind \notin {"detail", "versions"}
      BY <2>1, <2>3 DEF PastGate, OfVersion
    <3> QED
      BY <1>1, <3>1, Answered DEF NotFound, Answer
  <2>4. CASE ~row[p].removed /\ ~(reader.kind \in OfVersion /\ status = "none")
    <3>1. reader' = [reader EXCEPT !.pc = "rest", !.id = row[p].id, !.status = status]
      BY <2>1, <2>4 DEF PastGate
    <3> HIDE DEF status
    <3>2. /\ DOMAIN reader' = DOMAIN Idle /\ reader'.pc = "rest" /\ reader'.kind = reader.kind
          /\ reader'.user = reader.user /\ reader'.pack = reader.pack
      BY <1>1, <3>1 DEF Idle
    <3>3. IsListed
      BY <1>1, <1>5, <2>4 DEF IsListed, Listed
    <3> QED
      BY <1>1, <2>1, <3>2, <3>3, GoesOn
  <2> QED
    BY <2>2, <2>3, <2>4
<1>6. CASE /\ ~(~Row(p) \/ (reader.kind \in {"version", "download"} /\ status = "none"))
           /\ row[p].visibility # "public"
  <2>1. reader' = [reader EXCEPT !.pc = "gate", !.id = row[p].id,
                                 !.removed = row[p].removed, !.status = status]
    BY <1>6 DEF ReadRow
  <2>2. Row(p)
    BY <1>6
  <2> HIDE DEF status
  <2>3. /\ DOMAIN reader' = DOMAIN Idle /\ reader'.pc = "gate" /\ reader'.kind = reader.kind
        /\ reader'.user = reader.user /\ reader'.pack = reader.pack
        /\ reader'.removed = row[p].removed
    BY <1>1, <2>1 DEF Idle
  <2> QED
    BY <1>1, <1>6, <2>2, <2>3, GoesOn
<1> QED
  BY <1>4, <1>5, <1>6

LEMMA GateKeeps ==
    ASSUME CatalogInv, CheckOrgMembership
    PROVE  CatalogInv'
<1> DEFINE p == reader.pack
<1>1. Reads /\ At("gate") /\ reader.kind # "list" /\ p \in Packs /\ DOMAIN reader = DOMAIN Idle
  BY DEF CheckOrgMembership, CatalogInv, Informed, TypeOK, At
<1>2. quiet => Row(p) /\ row[p].visibility # "public" /\ reader.removed = row[p].removed
  BY <1>1 DEF CatalogInv, UpToDate
<1>3. MemberNow(reader.user, p) => p \in CallerSees
  BY <1>1 DEF CallerSees
<1>4. CASE ~MemberNow(reader.user, p)
  <2>1. Reply(NotFound)
    BY <1>4 DEF CheckOrgMembership
  <2>2. quiet => ~IsListed
    BY <1>2, <1>4 DEF IsListed, Listed
  <2> QED
    BY <1>1, <2>1, <2>2, Answered DEF NotFound, Answer
<1>5. CASE MemberNow(reader.user, p) /\ reader.removed
  <2>1. Reply(Answer(410, {p}))
    BY <1>5 DEF CheckOrgMembership
  <2>2. quiet => ~IsListed
    BY <1>2, <1>5 DEF IsListed, Listed
  <2>3. Answer(410, {p}).status = 410
    BY DEF Answer
  <2> QED
    BY <1>1, <1>3, <1>5, <2>1, <2>2, <2>3, Answered
<1>6. CASE MemberNow(reader.user, p) /\ ~reader.removed
  <2>1. CASE reader.kind \in OfVersion /\ reader.status = "none"
    <3>1. Reply(NotFound) /\ reader.kind \notin {"detail", "versions"}
      BY <1>6, <2>1 DEF CheckOrgMembership, OfVersion
    <3> QED
      BY <1>1, <3>1, Answered DEF NotFound, Answer
  <2>2. CASE ~(reader.kind \in OfVersion /\ reader.status = "none")
    <3>1. reader' = [reader EXCEPT !.pc = "rest"]
      BY <1>6, <2>2 DEF CheckOrgMembership
    <3>2. /\ DOMAIN reader' = DOMAIN Idle /\ reader'.pc = "rest" /\ reader'.kind = reader.kind
          /\ reader'.user = reader.user /\ reader'.pack = reader.pack
      BY <1>1, <3>1 DEF Idle
    <3>3. quiet => IsListed
      BY <1>1, <1>2, <1>6 DEF IsListed, Listed
    <3> QED
      BY <1>1, <1>3, <1>6, <3>2, <3>3, GoesOn
  <2> QED
    BY <2>1, <2>2
<1> QED
  BY <1>4, <1>5, <1>6

\* The last statement of a read of one pack: the caller may know of the pack,
\* and the pack is listed if nothing moved.
LEMMA RestKeeps ==
    ASSUME CatalogInv,
           ReadDetail \/ ReadVersionList \/ ReadVersion \/ Download \/ ReadPreviewList \/ ReadPreview
    PROVE  CatalogInv'
<1>1. Reads /\ At("rest") /\ reader.kind # "list" /\ reader.pack \in visible
  BY DEF ReadDetail, ReadVersionList, ReadVersion, Download, ReadPreviewList, ReadPreview,
         CatalogInv, Informed, At
<1>2. quiet => IsListed
  BY <1>1 DEF CatalogInv, UpToDate, IsListed
<1>3. \E a : /\ Reply(a)
             /\ reader.kind \in {"detail", "versions"} => a.status = 200
  <2>1. ASSUME NEW shows PROVE Answer(200, shows).status = 200
    BY DEF Answer
  <2>2. ReadDetail \/ ReadVersionList \/ ReadVersion \/ ReadPreviewList =>
          \E shows : Reply(Answer(200, shows))
    BY DEF ReadDetail, ReadVersionList, ReadVersion, ReadPreviewList
  <2>3. Download \/ ReadPreview =>
          reader.kind \notin {"detail", "versions"} /\ \E a : Reply(a)
    BY DEF Download, ReadPreview
  <2> QED
    BY <2>1, <2>2, <2>3
<1>4. PICK a : Reply(a) /\ (reader.kind \in {"detail", "versions"} => a.status = 200)
  BY <1>3
<1> QED
  BY <1>1, <1>2, <1>4, Answered

LEMMA EndKeeps ==
    ASSUME CatalogInv, EndRead
    PROVE  CatalogInv'
<1>1. reader' = Idle /\ UNCHANGED <<row, rows, version, member>>
  BY DEF EndRead, Reads, dbVars
<1>2. /\ reader'.pc = "idle" /\ reader'.kind = "list" /\ reader'.user = None
      /\ DOMAIN reader' = DOMAIN Idle
  BY <1>1 DEF Idle
<1>3. TypeOK'
  BY <1>1, <1>2 DEF CatalogInv, TypeOK, States, Kinds
<1>4. Disclosed' = {}
  BY <1>2 DEF Disclosed, At
<1> QED
  BY <1>2, <1>3, <1>4 DEF CatalogInv, Informed, UpToDate, ServedWasVisible, SurfacesAgree, At

LEMMA CatalogStep == CatalogInv /\ [Next]_vars => CatalogInv'
<1> SUFFICES ASSUME CatalogInv, [Next]_vars PROVE CatalogInv'
  OBVIOUS
<1>1. ASSUME NEW p \in Packs, NEW v \in Versions,
             \/ \E visibility \in {"org", "public"} : PublishPack(p, visibility, v)
             \/ PublishVersion(p, v)
             \/ Settle(p, v, "failed", {})
             \/ \E shown \in SUBSET Recipes : Settle(p, v, "ready", shown)
      PROVE  CatalogInv'
  <2>1. TypeOK'
    BY <1>1, DatabaseTypes DEF CatalogInv
  <2>2. Beside
    BY <1>1 DEF PublishPack, PublishVersion, Settle
  <2> QED
    BY <2>1, <2>2, BesideRead DEF CatalogInv
<1>2. ASSUME NEW p \in Packs, Unpublish(p) \/ \E u \in Users : Leave(u, p)
      PROVE  CatalogInv'
  <2>1. TypeOK'
    BY <1>2, MembershipTypes DEF CatalogInv
  <2>2. Beside
    BY <1>2 DEF Unpublish, Leave
  <2> QED
    BY <2>1, <2>2, BesideRead DEF CatalogInv
<1>3. ASSUME NEW u \in Users \union {None}, NEW p \in Packs,
             \/ \E kind \in Kinds \ OfVersion : ReceiveRead(u, kind, p, None, None)
             \/ \E kind \in OfVersion, v \in Versions, r \in Recipes : ReceiveRead(u, kind, p, v, r)
      PROVE  CatalogInv'
  BY <1>3, ReceiveKeeps DEF Kinds, OfVersion
<1>4. CASE LoadMemberSlugs
  BY <1>4, SlugsKeep
<1>5. CASE ListPacks
  BY <1>5, ListKeeps
<1>6. CASE ReadRow
  BY <1>6, RowKeeps
<1>7. CASE CheckOrgMembership
  BY <1>7, GateKeeps
<1>8. CASE ReadDetail \/ ReadVersionList \/ ReadVersion \/ Download \/ ReadPreviewList \/ ReadPreview
  BY <1>8, RestKeeps
<1>9. CASE EndRead
  BY <1>9, EndKeeps
<1>10. CASE UNCHANGED vars
  BY <1>10 DEF vars, dbVars, CatalogInv, TypeOK, Informed, UpToDate, ServedWasVisible, SurfacesAgree,
               Disclosed, Listed, MemberNow, Row, At
<1> QED
  BY <1>1, <1>2, <1>3, <1>4, <1>5, <1>6, <1>7, <1>8, <1>9, <1>10 DEF Next

\* However publishes, removals, the worker and changes of membership come
\* between the statements of a read, what the read has found out its caller may
\* know, and it is so as long as nothing has moved.
THEOREM CatalogInvariant == Spec => []CatalogInv
BY CatalogStart, CatalogStep, PTL DEF Spec

\* An org pack answers like a missing one: what a read gives away (a listing, a
\* tombstone, a version, a preview, a tarball) is of a pack its caller could
\* see at some moment of the request (catalog/routes.ts:37-40).
THEOREM ReadsGiveNothingAway == Spec => []ServedWasVisible
<1>1. CatalogInv => ServedWasVisible
  BY DEF CatalogInv, Informed
<1> QED
  BY <1>1, CatalogInvariant, PTL

\* While nothing changes, the detail and the version list answer for exactly
\* the packs the catalog lists, and the reads of a version only for those.
THEOREM TheSurfacesAgree == Spec => []SurfacesAgree
<1>1. CatalogInv => SurfacesAgree
  BY DEF CatalogInv, UpToDate
<1> QED
  BY <1>1, CatalogInvariant, PTL

\* The version the listing and the detail call the latest is a highest ready
\* one by the order of semver, in whatever order the rows come
\* (semver-compare.ts:2).
THEOREM LatestFollowsSemver == Spec => []LatestIsHighest
<1>1. CatalogInv => LatestIsHighest
  BY HighestOfReady DEF CatalogInv
<1> QED
  BY <1>1, CatalogInvariant, PTL
=============================================================================
