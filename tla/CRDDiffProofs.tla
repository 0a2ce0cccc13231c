---------------------------- MODULE CRDDiffProofs ----------------------------
(***************************************************************************)
(* Theorems about crddiff, for any CRDs with any versions and schemas of   *)
(* any depth: that sortVersions sorts, what is left of the diff of two     *)
(* schemas and what is reported of that, and with both, what the command   *)
(* compares, reports and exits with.                                       *)
(***************************************************************************)
EXTENDS CRDCompatibility, FiniteSetTheorems, TLAPS

-----------------------------------------------------------------------------
(* Induction, as a fact about sets of numbers.                             *)

NatOrder == {p \in Nat \X Nat : p[1] < p[2]}

LEMMA NatOrderWellFounded == IsWellFoundedOn(NatOrder, Nat)
<1>1. IsWellFoundedOn(OpToRel(<, Nat), Nat)
  BY NatLessThanWellFounded
<1>2. OpToRel(<, Nat) = NatOrder
  BY DEF OpToRel, NatOrder
<1> QED  BY <1>1, <1>2

LEMMA SetInduction ==
  ASSUME NEW S \in SUBSET Nat, 0 \in S, \A n \in S : n + 1 \in S
  PROVE  S = Nat
<1> SUFFICES ASSUME Nat \ S # {} PROVE FALSE
  OBVIOUS
<1>1. PICK n \in Nat \ S : \A m \in Nat \ S : <<m, n>> \notin NatOrder
  BY NatOrderWellFounded, WFMin
<1>2. n # 0 /\ n - 1 \in Nat /\ n - 1 < n
  OBVIOUS
<1>3. <<n - 1, n>> \in NatOrder
  BY <1>2 DEF NatOrder
<1>4. n - 1 \in S
  BY <1>1, <1>2, <1>3
<1> QED  BY <1>4, <1>2

-----------------------------------------------------------------------------
(* The order of semver.Sort on names is Before, a strict total order.      *)

LEMMA LexLessShort ==
  ASSUME NEW x \in 0..99, NEW y \in 0..99, NEW u \in 0..9, NEW z \in 0..9
  PROVE  /\ LexLess(<<x>>, <<y>>) <=> x < y
         /\ LexLess(<<x>>, <<y, z>>) <=> x < y \/ x = y
         /\ LexLess(<<x, u>>, <<y>>) <=> x < y
         /\ LexLess(<<x, u>>, <<y, z>>) <=> x < y \/ (x = y /\ u < z)
<1>1. LexLess(<<x>>, <<y>>) <=> x < y
  BY DEF LexLess
<1>2. LexLess(<<x>>, <<y, z>>) <=> x < y \/ x = y
  BY DEF LexLess
<1>3. LexLess(<<x, u>>, <<y>>) <=> x < y
  BY DEF LexLess
<1>4. LexLess(<<x, u>>, <<y, z>>) <=> x < y \/ (x = y /\ u < z)
  BY DEF LexLess
<1> QED  BY <1>1, <1>2, <1>3, <1>4

LEMMA DigitsInOrder ==
  ASSUME NEW a \in 0..99, NEW b \in 0..99
  PROVE  LexLess(Digits(a), Digits(b)) <=> NumberPlace(a) < NumberPlace(b)
<1>1. PICK x \in 0..9, u \in 0..9 : x = a \div 10 /\ u = a % 10 /\ a = 10 * x + u
  OBVIOUS
<1>2. PICK y \in 0..9, z \in 0..9 : y = b \div 10 /\ z = b % 10 /\ b = 10 * y + z
  OBVIOUS
<1>0. x \in 0..99 /\ y \in 0..99
  OBVIOUS
<1>3. CASE a < 10 /\ b < 10
  <2>1. LexLess(<<a>>, <<b>>) <=> a < b
    BY <1>0, LexLessShort
  <2> QED  BY <2>1, <1>3 DEF Digits, NumberPlace
<1>4. CASE a < 10 /\ ~(b < 10)
  <2>1. LexLess(<<a>>, <<y, z>>) <=> a < y \/ a = y
    BY <1>0, LexLessShort
  <2>2. Digits(b) = <<y, z>> /\ NumberPlace(b) = 11 * y + z + 1
    BY <1>2, <1>4 DEF Digits, NumberPlace
  <2> QED  BY <2>1, <2>2, <1>4 DEF Digits, NumberPlace
<1>5. CASE ~(a < 10) /\ b < 10
  <2>1. LexLess(<<x, u>>, <<b>>) <=> x < b
    BY <1>0, LexLessShort
  <2>2. Digits(a) = <<x, u>> /\ NumberPlace(a) = 11 * x + u + 1
    BY <1>1, <1>5 DEF Digits, NumberPlace
  <2> QED  BY <2>1, <2>2, <1>5 DEF Digits, NumberPlace
<1>6. CASE ~(a < 10) /\ ~(b < 10)
  <2>1. LexLess(<<x, u>>, <<y, z>>) <=> x < y \/ (x = y /\ u < z)
    BY <1>0, LexLessShort
  <2>2. Digits(a) = <<x, u>> /\ NumberPlace(a) = 11 * x + u + 1
    BY <1>1, <1>6 DEF Digits, NumberPlace
  <2>3. Digits(b) = <<y, z>> /\ NumberPlace(b) = 11 * y + z + 1
    BY <1>2, <1>6 DEF Digits, NumberPlace
  <2> QED  BY <2>1, <2>2, <2>3
<1> QED  BY <1>3, <1>4, <1>5, <1>6

LEMMA SemverLessIsBefore ==
  ASSUME NEW v \in Names, NEW w \in Names
  PROVE  SemverLess(v, w) <=> Before(v, w)
<1>1. /\ v.major \in 1..9 /\ v.stage \in 0..2 /\ v.n \in 0..99
      /\ w.major \in 1..9 /\ w.stage \in 0..2 /\ w.n \in 0..99
  BY DEF Names
<1>2. LexLess(Digits(v.n), Digits(w.n)) <=> NumberPlace(v.n) < NumberPlace(w.n)
  BY <1>1, DigitsInOrder
<1> QED  BY <1>1, <1>2 DEF SemverLess, NameLess, Valid, Before

LEMMA NumberPlaceDistinct ==
  ASSUME NEW a \in 0..99, NEW b \in 0..99, NumberPlace(a) = NumberPlace(b)
  PROVE  a = b
<1>1. PICK x \in 0..9, u \in 0..9 : x = a \div 10 /\ u = a % 10 /\ a = 10 * x + u
  OBVIOUS
<1>2. PICK y \in 0..9, z \in 0..9 : y = b \div 10 /\ z = b % 10 /\ b = 10 * y + z
  OBVIOUS
<1> QED  BY <1>1, <1>2 DEF NumberPlace

LEMMA BeforeIsTotalOrder ==
  /\ \A v \in Names : ~Before(v, v)
  /\ \A u, v, w \in Names : Before(u, v) /\ Before(v, w) => Before(u, w)
  /\ \A v, w \in Names : v = w \/ Before(v, w) \/ Before(w, v)
<1>1. \A v \in Names : /\ v.major \in 1..9 /\ v.stage \in 0..2 /\ v.n \in 0..99
                       /\ NumberPlace(v.n) \in Nat
                       /\ v = [major |-> v.major, stage |-> v.stage, n |-> v.n]
  BY DEF Names, NumberPlace
<1>2. \A v \in Names : ~Before(v, v)
  BY <1>1 DEF Before
<1>3. ASSUME NEW u \in Names, NEW v \in Names, NEW w \in Names, Before(u, v), Before(v, w)
      PROVE  Before(u, w)
  BY <1>1, <1>3 DEF Before
<1>4. ASSUME NEW v \in Names, NEW w \in Names, ~Before(v, w), ~Before(w, v)
      PROVE  v = w
  <2>1. /\ v.major = w.major /\ v.stage = w.stage
        /\ NumberPlace(v.n) = NumberPlace(w.n)
    BY <1>1, <1>4 DEF Before
  <2>2. v.n = w.n
    BY <1>1, <2>1, NumberPlaceDistinct
  <2> QED  BY <1>1, <2>1, <2>2
<1> QED  BY <1>2, <1>3, <1>4

-----------------------------------------------------------------------------
(* SortedNames: the rank of a name is its place in the order.              *)

RankIn(S) == [v \in S |-> Cardinality({w \in S : SemverLess(w, v)}) + 1]

LEMMA RankOrders ==
  ASSUME NEW S \in SUBSET Names, IsFiniteSet(S)
  PROVE  /\ RankIn(S) \in [S -> 1..Cardinality(S)]
         /\ \A v, w \in S : Before(v, w) <=> RankIn(S)[v] < RankIn(S)[w]
         /\ \A k \in 1..Cardinality(S) : \E v \in S : RankIn(S)[v] = k
<1> DEFINE Below(v) == {w \in S : SemverLess(w, v)}
           rank == RankIn(S)
<1>1. \A v, w \in S : SemverLess(v, w) <=> Before(v, w)
  BY SemverLessIsBefore
<1>2. \A v \in S : /\ Below(v) \in SUBSET S /\ v \notin Below(v)
                   /\ IsFiniteSet(Below(v)) /\ Cardinality(Below(v)) \in Nat
  <2> SUFFICES ASSUME NEW v \in S
               PROVE  /\ Below(v) \in SUBSET S /\ v \notin Below(v)
                      /\ IsFiniteSet(Below(v)) /\ Cardinality(Below(v)) \in Nat
    OBVIOUS
  <2>1. Below(v) \in SUBSET S /\ v \notin Below(v)
    BY <1>1, BeforeIsTotalOrder
  <2>2. IsFiniteSet(Below(v))
    BY <2>1, FS_Subset
  <2> HIDE DEF Below
  <2> QED  BY <2>1, <2>2, FS_CardinalityType
<1>3. \A v \in S : rank[v] = Cardinality(Below(v)) + 1
  BY DEF RankIn
<1>4. Cardinality(S) \in Nat
  BY FS_CardinalityType
<1>5. ASSUME NEW v \in S PROVE Cardinality(Below(v)) < Cardinality(S)
  <2> HIDE DEF Below
  <2>1. Cardinality(Below(v)) <= Cardinality(S) /\ Cardinality(S) # Cardinality(Below(v))
    BY <1>2, FS_Subset
  <2> QED  BY <2>1, <1>2, <1>4
<1>6. ASSUME NEW v \in S, NEW w \in S, Before(v, w)
      PROVE  Cardinality(Below(v)) < Cardinality(Below(w))
  <2>1. Below(v) \subseteq Below(w) /\ v \in Below(w) /\ v \notin Below(v)
    BY <1>1, <1>2, <1>6, BeforeIsTotalOrder
  <2> HIDE DEF Below
  <2>2. /\ Cardinality(Below(v)) <= Cardinality(Below(w))
        /\ Cardinality(Below(w)) # Cardinality(Below(v))
    BY <2>1, <1>2, FS_Subset
  <2> QED  BY <2>2, <1>2
<1>7. rank = [v \in S |-> rank[v]]
  BY DEF RankIn
<1> HIDE DEF Below, rank
<1>8. rank \in [S -> 1..Cardinality(S)]
  <2>1. \A v \in S : rank[v] \in 1..Cardinality(S)
    BY <1>2, <1>3, <1>4, <1>5
  <2> QED  BY <2>1, <1>7
<1>9. \A v, w \in S : Before(v, w) <=> rank[v] < rank[w]
  <2>1. \A v, w \in S : Before(v, w) => rank[v] < rank[w]
    BY <1>2, <1>3, <1>6
  <2>2. \A v, w \in S : v = w \/ Before(v, w) \/ Before(w, v)
    BY BeforeIsTotalOrder
  <2>3. \A v \in S : rank[v] \in Nat
    BY <1>8, <1>4
  <2> QED  BY <2>1, <2>2, <2>3
<1>10. rank \in Injection(S, 1..Cardinality(S))
  <2>1. \A v, w \in S : rank[v] = rank[w] => v = w
    <3>1. \A v \in S : rank[v] \in Nat
      BY <1>8, <1>4
    <3>2. \A v, w \in S : v = w \/ Before(v, w) \/ Before(w, v)
      BY BeforeIsTotalOrder
    <3> QED  BY <3>1, <3>2, <1>9
  <2> QED  BY <2>1, <1>8 DEF Injection, IsInjective
<1>11. rank \in Surjection(S, 1..Cardinality(S))
  <2>1. IsFiniteSet(1..Cardinality(S)) /\ Cardinality(1..Cardinality(S)) = Cardinality(S)
    BY <1>4, FS_Interval
  <2> QED  BY <2>1, <1>10, FS_Injection
<1> QED  BY <1>8, <1>9, <1>11 DEF Surjection, rank

LEMMA CRDShape ==
  ASSUME NEW docs, IsCRD(docs)
  PROVE  /\ Len(docs) \in Nat \ {0} /\ DOMAIN docs = 1..Len(docs)
         /\ VersionsOf(docs) \in SUBSET Names /\ IsFiniteSet(VersionsOf(docs))
         /\ Cardinality(VersionsOf(docs)) = Len(docs)
<1>1. Len(docs) \in Nat \ {0} /\ DOMAIN docs = 1..Len(docs)
  BY DEF IsCRD
<1>2. VersionsOf(docs) \in SUBSET Names
  BY DEF IsCRD, VersionsOf
<1> DEFINE at == [i \in 1..Len(docs) |-> docs[i].version]
<1>3. at \in Bijection(1..Len(docs), VersionsOf(docs))
  <2>1. at \in [1..Len(docs) -> VersionsOf(docs)]
    BY <1>1 DEF VersionsOf
  <2>2. \A i, j \in 1..Len(docs) : at[i] = at[j] => i = j
    BY <1>1 DEF IsCRD
  <2>3. \A v \in VersionsOf(docs) : \E i \in 1..Len(docs) : at[i] = v
    BY <1>1 DEF VersionsOf
  <2> QED  BY <2>1, <2>2, <2>3 DEF Bijection, Injection, IsInjective, Surjection
<1>4. ExistsBijection(1..Len(docs), VersionsOf(docs))
  BY <1>3 DEF ExistsBijection
<1>5. Cardinality(VersionsOf(docs)) = Len(docs)
  BY <1>1, <1>4, FS_CountingElements
<1>6. IsFiniteSet(VersionsOf(docs))
  BY <1>1, <1>4, FS_NatBijection
<1> QED  BY <1>1, <1>2, <1>5, <1>6

(* names holds each version of docs once, in order. *)
Enumerates(names, docs) ==
    /\ DOMAIN names = 1..Len(docs)
    /\ \A k \in 1..Len(docs) : names[k] \in VersionsOf(docs)
    /\ \A v \in VersionsOf(docs) : \E k \in 1..Len(docs) : names[k] = v
    /\ \A j, k \in 1..Len(docs) : j < k <=> Before(names[j], names[k])

LEMMA SortedNamesEnumerate ==
  ASSUME NEW docs, IsCRD(docs)
  PROVE  Enumerates(SortedNames(docs), docs)
<1> DEFINE S == VersionsOf(docs)
           n == Len(docs)
           rank == RankIn(S)
           names == SortedNames(docs)
<1>1. /\ n \in Nat \ {0} /\ DOMAIN docs = 1..n /\ S \in SUBSET Names
      /\ IsFiniteSet(S) /\ Cardinality(S) = n
  BY CRDShape
<1>2. /\ rank \in [S -> 1..n]
      /\ \A v, w \in S : Before(v, w) <=> rank[v] < rank[w]
      /\ \A k \in 1..n : \E v \in S : rank[v] = k
  <2> HIDE DEF S, n
  <2> QED  BY <1>1, RankOrders
<1>3. names = [k \in DOMAIN docs |->
                 CHOOSE v \in S : Cardinality({w \in S : SemverLess(w, v)}) + 1 = k]
  BY DEF SortedNames, VersionsOf
<1>4. DOMAIN names = 1..n /\ \A k \in 1..n : names[k] \in S /\ rank[names[k]] = k
  <2>1. \A v \in S : rank[v] = Cardinality({w \in S : SemverLess(w, v)}) + 1
    BY DEF RankIn
  <2> HIDE DEF S, n, rank, names
  <2>2. ASSUME NEW k \in 1..n PROVE names[k] \in S /\ rank[names[k]] = k
    <3>1. \E v \in S : Cardinality({w \in S : SemverLess(w, v)}) + 1 = k
      BY <1>2, <2>1
    <3>2. names[k] = CHOOSE v \in S : Cardinality({w \in S : SemverLess(w, v)}) + 1 = k
      BY <1>1, <1>3
    <3>3. /\ names[k] \in S
          /\ Cardinality({w \in S : SemverLess(w, names[k])}) + 1 = k
      BY <3>1, <3>2
    <3> QED  BY <3>3, <2>1
  <2> QED  BY <1>1, <1>3, <2>2
<1> HIDE DEF S, n, rank, names
<1>5. \A v \in S : rank[v] \in 1..n /\ names[rank[v]] = v
  <2>1. \A v, w \in S : rank[v] = rank[w] => v = w
    <3>1. \A v \in S : rank[v] \in Nat
      BY <1>1, <1>2
    <3>2. \A v, w \in S : v = w \/ Before(v, w) \/ Before(w, v)
      BY <1>1, BeforeIsTotalOrder
    <3> QED  BY <3>1, <3>2, <1>2
  <2> QED  BY <2>1, <1>2, <1>4
<1> QED  BY <1>2, <1>4, <1>5 DEF Enumerates, S, n, names

-----------------------------------------------------------------------------
(* sortVersions: the loop keeps the documents and sorts them.              *)

Documents(docs) == {docs[i] : i \in 1..Len(docs)}

(* d has the documents of docs, and those of the first i names in place.   *)
SortedTo(d, docs, names, i) ==
    /\ d \in [1..Len(docs) -> Documents(docs)]
    /\ \A j, k \in 1..Len(docs) : d[j].version = d[k].version => j = k
    /\ \A v \in VersionsOf(docs) : \E k \in 1..Len(docs) : d[k].version = v
    /\ \A k \in 1..i : d[k].version = names[k]

LEMMA PlaceSorts ==
  ASSUME NEW docs, IsCRD(docs), NEW names, Enumerates(names, docs), NEW d,
         NEW i \in 0..(Len(docs) - 1), SortedTo(d, docs, names, i)
  PROVE  SortedTo(Place(d, i + 1, names[i + 1]), docs, names, i + 1)
<1> DEFINE n == Len(docs)
           v == names[i + 1]
           j == CHOOSE m \in DOMAIN d : /\ d[m].version = v
                                        /\ \A k \in 1..(m - 1) : d[k].version # v
           new == Place(d, i + 1, v)
<1>1. n \in Nat \ {0} /\ i + 1 \in 1..n /\ v \in VersionsOf(docs)
  BY CRDShape DEF Enumerates
<1>2. /\ d \in [1..n -> Documents(docs)]
      /\ \A l, k \in 1..n : d[l].version = d[k].version => l = k
      /\ \A w \in VersionsOf(docs) : \E k \in 1..n : d[k].version = w
      /\ \A k \in 1..i : d[k].version = names[k]
  BY DEF SortedTo
<1>3. j \in 1..n /\ d[j].version = v
  <2>1. PICK m \in 1..n : d[m].version = v
    BY <1>1, <1>2
  <2>2. \A k \in 1..(m - 1) : d[k].version # v
    BY <1>1, <1>2, <2>1
  <2> HIDE DEF v
  <2> QED  BY <1>2, <2>1, <2>2
<1>4. new = [d EXCEPT ![i + 1] = d[j], ![j] = d[i + 1]]
  BY DEF Place, Swap
<1> HIDE DEF n, v, j, new
<1>5. /\ new \in [1..n -> Documents(docs)]
      /\ new[i + 1] = d[j] /\ new[j] = d[i + 1]
      /\ \A k \in 1..n : k # i + 1 /\ k # j => new[k] = d[k]
  BY <1>1, <1>2, <1>3, <1>4
<1>6. \A l, k \in 1..n : new[l].version = new[k].version => l = k
  BY <1>1, <1>2, <1>3, <1>5
<1>7. \A w \in VersionsOf(docs) : \E k \in 1..n : new[k].version = w
  BY <1>1, <1>2, <1>3, <1>5
<1>8. ASSUME NEW k \in 1..(i + 1) PROVE new[k].version = names[k]
  <2>1. CASE k = i + 1
    BY <2>1, <1>3, <1>5 DEF v
  <2>2. CASE k \in 1..i
    <3>1. k \in 1..n /\ k # i + 1
      BY <2>2, <1>1
    <3>2. names[k] # v
      <4>1. Before(names[k], v)
        BY <2>2, <3>1, <1>1 DEF Enumerates, n, v
      <4>2. v \in Names
        BY <1>1, CRDShape
      <4> QED  BY <4>1, <4>2, BeforeIsTotalOrder
    <3>3. k # j
      BY <2>2, <3>2, <1>2, <1>3
    <3> QED  BY <2>2, <3>1, <3>3, <1>2, <1>5
  <2> QED  BY <2>1, <2>2
<1> QED  BY <1>5, <1>6, <1>7, <1>8 DEF SortedTo, n, new, v

(* after is the recursive function of sortVersions, up to n. *)
PlacedUpTo(after, docs, names, n) ==
    /\ DOMAIN after = 0..n
    /\ after[0] = docs
    /\ \A i \in 1..n : after[i] = Place(after[i - 1], i, names[i])

LEMMA PlacedExists ==
  ASSUME NEW docs, NEW names, NEW n \in Nat
  PROVE  \E after : /\ after = [i \in DOMAIN after |-> after[i]]
                    /\ PlacedUpTo(after, docs, names, n)
<1> DEFINE S == {m \in Nat : \E after : /\ after = [i \in DOMAIN after |-> after[i]]
                                        /\ PlacedUpTo(after, docs, names, m)}
<1>1. 0 \in S
  <2>1. PlacedUpTo([i \in 0..0 |-> docs], docs, names, 0)
    BY DEF PlacedUpTo
  <2> QED  BY <2>1
<1>2. ASSUME NEW m \in S PROVE m + 1 \in S
  <2>1. PICK after : PlacedUpTo(after, docs, names, m)
    OBVIOUS
  <2> DEFINE more == [i \in 0..(m + 1) |->
                        IF i \in 0..m THEN after[i] ELSE Place(after[m], m + 1, names[m + 1])]
  <2>2. more[0] = docs /\ DOMAIN more = 0..(m + 1)
    BY <2>1 DEF PlacedUpTo
  <2>3. ASSUME NEW i \in 1..(m + 1)
        PROVE  more[i] = Place(more[i - 1], i, names[i])
    <3>1. CASE i \in 1..m
      <4>1. more[i] = after[i] /\ more[i - 1] = after[i - 1]
        BY <3>1
      <4> QED  BY <4>1, <3>1, <2>1 DEF PlacedUpTo
    <3>2. CASE i = m + 1
      <4>1. more[i - 1] = after[m]
        BY <3>2
      <4>2. more[i] = Place(after[m], m + 1, names[m + 1])
        BY <3>2
      <4> QED  BY <4>1, <4>2, <3>2
    <3> QED  BY <3>1, <3>2
  <2>4. PlacedUpTo(more, docs, names, m + 1)
    BY <2>2, <2>3 DEF PlacedUpTo
  <2>5. more = [i \in DOMAIN more |-> more[i]]
    OBVIOUS
  <2> HIDE DEF more
  <2> QED  BY <2>4, <2>5
<1>3. S = Nat
  <2> HIDE DEF S
  <2>1. S \in SUBSET Nat  BY DEF S
  <2> QED  BY <1>1, <1>2, <2>1, SetInduction
<1> QED  BY <1>3

LEMMA SortVersionsPlaces ==
  ASSUME NEW docs, Len(docs) \in Nat
  PROVE  \E after : /\ PlacedUpTo(after, docs, SortedNames(docs), Len(docs))
                    /\ sortVersions(docs) = after[Len(docs)]
<1> DEFINE names == SortedNames(docs)
           Step(f, i) == IF i = 0 THEN docs ELSE Place(f[i - 1], i, names[i])
           after == CHOOSE f : f = [i \in 0..Len(docs) |-> Step(f, i)]
<1>1. PICK g : g = [i \in DOMAIN g |-> g[i]] /\ PlacedUpTo(g, docs, names, Len(docs))
  BY PlacedExists
<1>2. g = [i \in 0..Len(docs) |-> Step(g, i)]
  <2>1. DOMAIN g = 0..Len(docs)
    BY <1>1 DEF PlacedUpTo
  <2>2. ASSUME NEW i \in 0..Len(docs) PROVE g[i] = Step(g, i)
    <3>1. i = 0 \/ (i \in 1..Len(docs) /\ i # 0)
      OBVIOUS
    <3> QED  BY <3>1, <1>1, Zenon DEF PlacedUpTo
  <2> QED  BY <1>1, <2>1, <2>2
<1>3. after = [i \in 0..Len(docs) |-> Step(after, i)]
  BY <1>2, Zenon
<1>4. sortVersions(docs) = after[Len(docs)]
  BY DEF sortVersions
<1>5. PlacedUpTo(after, docs, names, Len(docs))
  <2> HIDE DEF after
  <2>1. \A i \in 0..Len(docs) : after[i] = Step(after, i)
    BY <1>3, Zenon
  <2>2. ASSUME NEW i \in 1..Len(docs)
        PROVE  after[i] = Place(after[i - 1], i, names[i])
    <3>1. i \in 0..Len(docs) /\ i # 0
      OBVIOUS
    <3> QED  BY <2>1, <3>1, Zenon
  <2>3. 0 \in 0..Len(docs)
    OBVIOUS
  <2>4. after[0] = docs
    BY <2>1, <2>3, Zenon
  <2>5. DOMAIN after = 0..Len(docs)
    BY <1>3, Zenon
  <2> QED  BY <2>2, <2>4, <2>5, Zenon DEF PlacedUpTo
<1> QED  BY <1>4, <1>5

(***************************************************************************)
(* sortVersions returns the documents, each version's as it was, in the    *)
(* order of semver.Sort: the loop of swaps (295-315) loses and doubles     *)
(* none.                                                                   *)
(***************************************************************************)
THEOREM SortVersionsSorts ==
  ASSUME NEW docs, IsCRD(docs)
  PROVE  SortedTo(sortVersions(docs), docs, SortedNames(docs), Len(docs))
<1> DEFINE names == SortedNames(docs)
           n == Len(docs)
<1>1. n \in Nat \ {0} /\ DOMAIN docs = 1..n /\ Enumerates(names, docs)
  BY CRDShape, SortedNamesEnumerate
<1>2. PICK after : PlacedUpTo(after, docs, names, n) /\ sortVersions(docs) = after[n]
  BY <1>1, SortVersionsPlaces
<1> DEFINE S == {i \in Nat : i <= n => SortedTo(after[i], docs, names, i)}
<1>3. 0 \in S
  <2>1. after[0] = docs
    BY <1>2 DEF PlacedUpTo
  <2>2. docs \in [1..n -> Documents(docs)]
    <3>1. docs = [i \in 1..n |-> docs[i]]
      BY <1>1 DEF IsCRD
    <3> QED  BY <3>1 DEF Documents
  <2> QED  BY <2>1, <2>2, <1>1 DEF SortedTo, IsCRD, VersionsOf
<1>4. ASSUME NEW i \in S PROVE i + 1 \in S
  <2> SUFFICES ASSUME i + 1 <= n PROVE SortedTo(after[i + 1], docs, names, i + 1)
    OBVIOUS
  <2>1. i \in 0..(n - 1) /\ i + 1 \in 1..n /\ SortedTo(after[i], docs, names, i)
    BY <1>1
  <2>2. (i + 1) - 1 = i
    OBVIOUS
  <2>3. after[i + 1] = Place(after[i], i + 1, names[i + 1])
    BY <2>1, <2>2, <1>2 DEF PlacedUpTo
  <2> HIDE DEF n, names
  <2> QED  BY <2>1, <2>3, <1>1, PlaceSorts DEF n
<1>5. S = Nat
  <2> HIDE DEF S
  <2>1. S \in SUBSET Nat  BY DEF S
  <2> QED  BY <1>3, <1>4, <2>1, SetInduction
<1> QED  BY <1>1, <1>2, <1>5

-----------------------------------------------------------------------------
(* SelfDiff: the pairs of versions that follow each other.                 *)

LEMMA IndexOfVersion ==
  ASSUME NEW docs, IsCRD(docs), NEW i \in DOMAIN docs
  PROVE  IndexOf(docs, docs[i].version) = i
BY DEF IsCRD, IndexOf

LEMMA SortedPlaces ==
  ASSUME NEW docs, IsCRD(docs), NEW k \in 1..Len(docs)
  PROVE  /\ sortVersions(docs)[k].version = SortedNames(docs)[k]
         /\ sortVersions(docs)[k] = docs[IndexOf(docs, SortedNames(docs)[k])]
         /\ IndexOf(sortVersions(docs), SortedNames(docs)[k]) = k
<1> DEFINE names == SortedNames(docs)
           sorted == sortVersions(docs)
<1>1. SortedTo(sorted, docs, names, Len(docs)) /\ DOMAIN docs = 1..Len(docs)
  BY SortVersionsSorts, CRDShape
<1> HIDE DEF names, sorted
<1>2. /\ sorted[k].version = names[k] /\ sorted[k] \in Documents(docs)
      /\ DOMAIN sorted = 1..Len(docs)
      /\ \A j, l \in 1..Len(docs) : sorted[j].version = sorted[l].version => j = l
  BY <1>1 DEF SortedTo
<1>3. PICK i \in DOMAIN docs : sorted[k] = docs[i]
  BY <1>1, <1>2 DEF Documents
<1>4. IndexOf(docs, names[k]) = i
  BY <1>2, <1>3, IndexOfVersion
<1>5. IndexOf(sorted, names[k]) = k
  BY <1>2 DEF IndexOf
<1> QED  BY <1>2, <1>3, <1>4, <1>5 DEF names, sorted

LEMMA PrecedesIsNext ==
  ASSUME NEW docs, IsCRD(docs), NEW v \in VersionsOf(docs), NEW w \in VersionsOf(docs)
  PROVE  Precedes(docs, v, w) <=>
           \E k \in 2..Len(docs) : v = SortedNames(docs)[k - 1] /\ w = SortedNames(docs)[k]
<1> DEFINE names == SortedNames(docs)
           n == Len(docs)
<1>1. n \in Nat \ {0} /\ Enumerates(names, docs)
  BY CRDShape, SortedNamesEnumerate
<1> HIDE DEF names
<1>2. PICK j \in 1..n, k \in 1..n : v = names[j] /\ w = names[k]
  BY <1>1 DEF Enumerates
<1>3. /\ \A l \in 1..n : names[l] \in VersionsOf(docs)
      /\ \A u \in VersionsOf(docs) : \E l \in 1..n : names[l] = u
      /\ \A i, l \in 1..n : i < l <=> Before(names[i], names[l])
  BY <1>1 DEF Enumerates
<1>4. Precedes(docs, v, w) <=> j < k /\ ~\E l \in 1..n : j < l /\ l < k
  BY <1>2, <1>3 DEF Precedes
<1>5. Precedes(docs, v, w) <=> k = j + 1
  <2>1. CASE k = j + 1
    BY <2>1, <1>4
  <2>2. CASE j < k /\ k # j + 1
    <3>1. j + 1 \in 1..n /\ j < j + 1 /\ j + 1 < k
      BY <2>2
    <3> QED  BY <3>1, <2>2, <1>4
  <2>3. CASE ~(j < k)
    BY <2>3, <1>4
  <2> QED  BY <2>1, <2>2, <2>3
<1>6. ASSUME NEW l \in 2..n, v = names[l - 1], w = names[l] PROVE k = j + 1
  <2>1. \A i, m \in 1..n : names[i] = names[m] => i = m
    <3>1. \A i \in 1..n : names[i] \in Names
      BY <1>3, CRDShape
    <3>2. \A i \in 1..n : ~Before(names[i], names[i])
      BY <3>1, BeforeIsTotalOrder
    <3> SUFFICES ASSUME NEW i \in 1..n, NEW m \in 1..n, names[i] = names[m], i # m
                 PROVE  FALSE
      OBVIOUS
    <3>3. i < m \/ m < i
      OBVIOUS
    <3> QED  BY <3>2, <3>3, <1>3
  <2>2. l \in 1..n /\ l - 1 \in 1..n
    OBVIOUS
  <2>3. j = l - 1 /\ k = l
    BY <2>1, <2>2, <1>2, <1>6
  <2> QED  BY <2>3
<1>7. ASSUME k = j + 1
      PROVE  \E l \in 2..n : v = names[l - 1] /\ w = names[l]
  <2>1. k \in 2..n /\ k - 1 = j
    BY <1>7
  <2> QED  BY <2>1, <1>2
<1> QED  BY <1>5, <1>6, <1>7 DEF names

LEMMA SelfDiffCompares ==
  ASSUME NEW docs, IsCRD(docs)
  PROVE  /\ DOMAIN SelfDiff(docs) =
              {w \in VersionsOf(docs) : \E v \in VersionsOf(docs) : Precedes(docs, v, w)}
         /\ \A v, w \in VersionsOf(docs) : Precedes(docs, v, w) =>
              SelfDiff(docs)[w] = schemaDiff(docs[IndexOf(docs, v)], docs[IndexOf(docs, w)])
<1> DEFINE names == SortedNames(docs)
           sorted == sortVersions(docs)
           n == Len(docs)
           later == {names[k] : k \in 2..n}
<1>1. n \in Nat \ {0} /\ Enumerates(names, docs) /\ SortedTo(sorted, docs, names, n)
  BY CRDShape, SortedNamesEnumerate, SortVersionsSorts
<1>2. \A k \in 1..n : /\ sorted[k].version = names[k]
                      /\ sorted[k] = docs[IndexOf(docs, names[k])]
                      /\ IndexOf(sorted, names[k]) = k
  BY SortedPlaces
<1>3. VersionsOf(Tail(sorted)) = later
  <2> HIDE DEF names, sorted, n
  <2>1. sorted \in Seq(Documents(docs)) /\ Len(sorted) = n
    BY <1>1 DEF SortedTo, n
  <2>2. /\ DOMAIN Tail(sorted) = 1..(n - 1)
        /\ \A i \in 1..(n - 1) : Tail(sorted)[i] = sorted[i + 1]
    BY <2>1, <1>1
  <2>3. \A i \in 1..(n - 1) : Tail(sorted)[i].version = names[i + 1]
    <3>1. \A i \in 1..(n - 1) : i + 1 \in 1..n
      BY <1>1
    <3> QED  BY <3>1, <2>2, <1>2
  <2>4. \A k \in 2..n : k - 1 \in 1..(n - 1) /\ (k - 1) + 1 = k
    BY <1>1
  <2>5. \A i \in 1..(n - 1) : i + 1 \in 2..n
    BY <1>1
  <2>6. VersionsOf(Tail(sorted)) = {names[i + 1] : i \in 1..(n - 1)}
    BY <2>2, <2>3 DEF VersionsOf
  <2> QED  BY <2>4, <2>5, <2>6
<1>4. SelfDiff(docs) =
        [v \in later |-> schemaDiff(sorted[IndexOf(sorted, v) - 1],
                                    sorted[IndexOf(sorted, v)])]
  BY <1>3 DEF SelfDiff
<1> HIDE DEF names, sorted, n
<1>5. \A k \in 2..n : k \in 1..n /\ k - 1 \in 1..n
  BY <1>1
<1>6. \A k \in 1..n : names[k] \in VersionsOf(docs)
  BY <1>1 DEF Enumerates, n
<1>7. later = {w \in VersionsOf(docs) : \E v \in VersionsOf(docs) : Precedes(docs, v, w)}
  <2>1. \A v, w \in VersionsOf(docs) : Precedes(docs, v, w) <=>
          \E k \in 2..n : v = names[k - 1] /\ w = names[k]
    BY PrecedesIsNext DEF n, names
  <2>2. ASSUME NEW k \in 2..n
        PROVE  names[k] \in VersionsOf(docs)
               /\ \E v \in VersionsOf(docs) : Precedes(docs, v, names[k])
    <3>1. names[k - 1] \in VersionsOf(docs) /\ names[k] \in VersionsOf(docs)
      BY <1>5, <1>6
    <3>2. Precedes(docs, names[k - 1], names[k])
      BY <2>1, <3>1
    <3> QED  BY <3>1, <3>2
  <2>3. ASSUME NEW w \in VersionsOf(docs), NEW v \in VersionsOf(docs), Precedes(docs, v, w)
        PROVE  w \in later
    BY <2>1, <2>3
  <2> QED  BY <2>2, <2>3
<1>8. ASSUME NEW v \in VersionsOf(docs), NEW w \in VersionsOf(docs), Precedes(docs, v, w)
      PROVE  SelfDiff(docs)[w] = schemaDiff(docs[IndexOf(docs, v)], docs[IndexOf(docs, w)])
  <2>1. PICK k \in 2..n : v = names[k - 1] /\ w = names[k]
    BY <1>8, PrecedesIsNext DEF n, names
  <2>2. w \in later
    BY <2>1
  <2>3. SelfDiff(docs)[w] = schemaDiff(sorted[k - 1], sorted[k])
    BY <2>1, <2>2, <1>2, <1>4, <1>5
  <2>4. sorted[k - 1] = docs[IndexOf(docs, v)] /\ sorted[k] = docs[IndexOf(docs, w)]
    BY <2>1, <1>2, <1>5
  <2> QED  BY <2>3, <2>4
<1>9. DOMAIN SelfDiff(docs) = later
  BY <1>4
<1> QED  BY <1>7, <1>8, <1>9

-----------------------------------------------------------------------------
(* Diffs of schemas.                                                       *)

(* oasdiff finds a difference exactly if there is one. *)
Exact(x, y) == Diff(x, y) = Nil <=> x = y

ExactParts(old, new) ==
    /\ \A n \in DOMAIN old.props \cap DOMAIN new.props : Exact(old.props[n], new.props[n])
    /\ Exact(old.items, new.items) /\ Exact(old.extra, new.extra)

LEMMA NotNil ==
  /\ \A x, y : [added |-> x, deleted |-> y] # Nil
  /\ \A x, y, z : [added |-> x, deleted |-> y, modified |-> z] # Nil
  /\ \A s \in Schemas : s # Nil
  /\ \A sd : "added" \in DOMAIN sd => sd # Nil
<1>1. DOMAIN Nil = {"nil"}
  BY DEF Nil
<1>2. \A x, y : DOMAIN [added |-> x, deleted |-> y] = {"added", "deleted"}
  OBVIOUS
<1>3. \A x, y, z : DOMAIN [added |-> x, deleted |-> y, modified |-> z]
                     = {"added", "deleted", "modified"}
  OBVIOUS
<1>4. \A s \in Schemas : "type" \in DOMAIN s
  <2> SUFFICES ASSUME NEW s \in Schemas PROVE "type" \in DOMAIN s
    OBVIOUS
  <2>1. s = [type |-> s.type, enum |-> s.enum, props |-> s.props, required |-> s.required,
             items |-> s.items, extra |-> s.extra, rules |-> s.rules]
    BY SchemasAssumption DEF IsSchema
  <2> QED  BY <2>1
<1>5. \A sd : "added" \in DOMAIN sd => sd # Nil
  BY <1>1
<1> QED  BY <1>1, <1>2, <1>3, <1>4, <1>5

LEMMA SetDiffIs ==
  ASSUME NEW old, NEW new
  PROVE  /\ SetDiff(old, new) = Nil <=> old = new
         /\ old # new => /\ SetDiff(old, new).added = new \ old
                         /\ SetDiff(old, new).deleted = old \ new
BY NotNil DEF SetDiff

(* The diff of the types of two schemas. *)
TypeDiff(old, new) == SetDiff({old.type}, {new.type})

LEMMA TypeDiffIs ==
  ASSUME NEW old, NEW new
  PROVE  /\ TypeDiff(old, new) = Nil <=> old.type = new.type
         /\ old.type # new.type => /\ TypeDiff(old, new).added = {new.type}
                                   /\ TypeDiff(old, new).deleted = {old.type}
<1>1. {old.type} = {new.type} <=> old.type = new.type
  OBVIOUS
<1>2. old.type # new.type => /\ {new.type} \ {old.type} = {new.type}
                             /\ {old.type} \ {new.type} = {old.type}
  OBVIOUS
<1> QED  BY <1>1, <1>2, NotNil DEF TypeDiff, SetDiff

LEMMA DiffOfNil ==
  ASSUME NEW s \in Schemas
  PROVE  /\ Diff(Nil, Nil) = Nil
         /\ Diff(Nil, s) = [NoChange EXCEPT !.added = TRUE]
         /\ Diff(s, Nil) = [NoChange EXCEPT !.deleted = TRUE]
BY RecursionAssumption, NotNil DEF Diff, DiffBody

LEMMA NilDiff == Diff(Nil, Nil) = Nil
BY RecursionAssumption DEF Diff, DiffBody

LEMMA NoChangeIs ==
  /\ DOMAIN NoChange = {"added", "deleted", "type", "enum", "required", "props", "items",
                        "extra", "rules"}
  /\ [NoChange EXCEPT !.added = TRUE].added
  /\ [NoChange EXCEPT !.deleted = TRUE].deleted
  /\ NoChange.added = FALSE /\ NoChange.deleted = FALSE
  /\ [NoChange EXCEPT !.added = TRUE] # Nil /\ [NoChange EXCEPT !.deleted = TRUE] # Nil
  /\ [NoChange EXCEPT !.added = TRUE] # NoChange
  /\ [NoChange EXCEPT !.deleted = TRUE] # NoChange
<1>1. DOMAIN NoChange = {"added", "deleted", "type", "enum", "required", "props", "items",
                         "extra", "rules"}
  BY DEF NoChange
<1>2. NoChange.added = FALSE /\ NoChange.deleted = FALSE
  BY DEF NoChange
<1>3. [NoChange EXCEPT !.added = TRUE].added /\ "added" \in DOMAIN [NoChange EXCEPT !.added = TRUE]
  BY <1>1
<1>4. [NoChange EXCEPT !.deleted = TRUE].deleted /\ "added" \in DOMAIN [NoChange EXCEPT !.deleted = TRUE]
  BY <1>1
<1>5. [NoChange EXCEPT !.added = TRUE] # Nil /\ [NoChange EXCEPT !.deleted = TRUE] # Nil
  BY <1>3, <1>4, NotNil
<1>6. /\ [NoChange EXCEPT !.added = TRUE] # NoChange
      /\ [NoChange EXCEPT !.deleted = TRUE] # NoChange
  BY <1>2, <1>3, <1>4
<1> QED  BY <1>1, <1>2, <1>3, <1>4, <1>5, <1>6

LEMMA DiffIsCompared ==
  ASSUME NEW old \in Schemas, NEW new \in Schemas
  PROVE  Diff(old, new) = IF Compared(DiffOf, old, new) = NoChange THEN Nil ELSE Compared(DiffOf, old, new)
<1>1. old # Nil /\ new # Nil
  BY NotNil
<1>2. Diff(old, new) = DiffBody(DiffOf, old, new)
  BY RecursionAssumption
<1> QED  BY <1>1, <1>2 DEF Diff, DiffBody, IsEmpty

Changed(old, new) == {n \in DOMAIN old \cap DOMAIN new : Diff(old[n], new[n]) # Nil}

LEMMA PropertiesDiffIs ==
  ASSUME NEW old, NEW new,
         old \in [DOMAIN old -> Schemas], new \in [DOMAIN new -> Schemas],
         \A n \in DOMAIN old \cap DOMAIN new : Exact(old[n], new[n])
  PROVE  /\ PropertiesDiff(DiffOf, old, new) = Nil <=> old = new
         /\ PropertiesDiff(DiffOf, old, new) # Nil =>
              PropertiesDiff(DiffOf, old, new) =
                [added |-> DOMAIN new \ DOMAIN old, deleted |-> DOMAIN old \ DOMAIN new,
                 modified |-> [n \in Changed(old, new) |-> Diff(old[n], new[n])]]
         /\ PropertiesDiff(DiffOf, old, new) = Nil <=>
              DOMAIN new = DOMAIN old /\ Changed(old, new) = {}
<1> DEFINE D == DOMAIN old
           E == DOMAIN new
           changed == Changed(old, new)
           pd == [added |-> E \ D, deleted |-> D \ E,
                  modified |-> [n \in changed |-> Diff(old[n], new[n])]]
<1>0. changed = {n \in D \cap E : Diff(old[n], new[n]) # Nil}
  BY DEF Changed
<1>1. PropertiesDiff(DiffOf, old, new) = IF NoProperties(pd) THEN Nil ELSE pd
  BY DEF Diff, PropertiesDiff, Changed
<1>2. pd # Nil
  BY NotNil
<1> HIDE DEF changed
<1>3. NoProperties(pd) <=> E \ D = {} /\ D \ E = {} /\ changed = {}
  BY DEF NoProperties
<1>4. old = new <=> E \ D = {} /\ D \ E = {} /\ changed = {}
  <2>1. ASSUME E \ D = {}, D \ E = {}, changed = {} PROVE old = new
    <3>1. D = E /\ \A n \in D : old[n] = new[n]
      BY <1>0, <2>1 DEF Exact
    <3> QED  BY <3>1
  <2>2. ASSUME old = new PROVE E \ D = {} /\ D \ E = {} /\ changed = {}
    <3>1. D = E
      BY <2>2
    <3>2. \A n \in D \cap E : Diff(old[n], new[n]) = Nil
      BY <2>2 DEF Exact
    <3> QED  BY <1>0, <3>1, <3>2
  <2> QED  BY <2>1, <2>2
<1> QED  BY <1>1, <1>2, <1>3, <1>4 DEF changed

LEMMA ComparedIs ==
  ASSUME NEW old \in Schemas, NEW new \in Schemas, ExactParts(old, new)
  PROVE  Compared(DiffOf, old, new) = NoChange <=> old = new
<1>1. /\ old.props \in [DOMAIN old.props -> Schemas]
      /\ new.props \in [DOMAIN new.props -> Schemas]
      /\ old = [type |-> old.type, enum |-> old.enum, props |-> old.props,
                required |-> old.required, items |-> old.items, extra |-> old.extra,
                rules |-> old.rules]
      /\ new = [type |-> new.type, enum |-> new.enum, props |-> new.props,
                required |-> new.required, items |-> new.items, extra |-> new.extra,
                rules |-> new.rules]
  BY SchemasAssumption DEF IsSchema
<1>2. Compared(DiffOf, old, new) = NoChange <=>
        /\ TypeDiff(old, new) = Nil /\ SetDiff(old.enum, new.enum) = Nil
        /\ SetDiff(old.required, new.required) = Nil
        /\ PropertiesDiff(DiffOf, old.props, new.props) = Nil
        /\ Diff(old.items, new.items) = Nil /\ Diff(old.extra, new.extra) = Nil
        /\ SetDiff(old.rules, new.rules) = Nil
  BY DEF Diff, Compared, NoChange, TypeDiff
<1>3. PropertiesDiff(DiffOf, old.props, new.props) = Nil <=> old.props = new.props
  BY <1>1, PropertiesDiffIs DEF ExactParts
<1>4. Compared(DiffOf, old, new) = NoChange <=>
        /\ old.type = new.type /\ old.enum = new.enum /\ old.required = new.required
        /\ old.props = new.props /\ old.items = new.items /\ old.extra = new.extra
        /\ old.rules = new.rules
  BY <1>2, <1>3, SetDiffIs, TypeDiffIs DEF ExactParts, Exact
<1> QED  BY <1>1, <1>4

THEOREM DiffsAreExact ==
  ASSUME NEW old \in Schemas, NEW new \in Schemas
  PROVE  Diff(old, new) = Nil <=> old = new
<1> DEFINE S == {n \in Nat : \A x, y \in Schemas : Height(x) < n => Exact(x, y)}
<1>1. 0 \in S
  BY SchemasAssumption
<1>2. ASSUME NEW n \in S PROVE n + 1 \in S
  <2> SUFFICES ASSUME NEW x \in Schemas, NEW y \in Schemas, Height(x) < n + 1
               PROVE  Exact(x, y)
    OBVIOUS
  <2>1. \A t \in PartsOf(x) : t \in Schemas /\ Height(t) < n
    <3>1. IsSchema(x) /\ Height(x) \in Nat /\ \A t \in PartsOf(x) : Height(t) < Height(x)
      BY SchemasAssumption
    <3>2. \A t \in PartsOf(x) : t \in Schemas
      BY <3>1 DEF PartsOf, IsSchema
    <3>3. \A t \in PartsOf(x) : Height(t) \in Nat
      BY <3>2, SchemasAssumption
    <3> QED  BY <3>1, <3>2, <3>3
  <2>2. IsSchema(x) /\ IsSchema(y)
    BY SchemasAssumption
  <2>3. ASSUME NEW s \in Schemas \cup {Nil}, NEW t \in Schemas \cup {Nil},
               s # Nil => Height(s) < n
        PROVE  Exact(s, t)
    BY <2>3, DiffOfNil, NilDiff, NoChangeIs, NotNil DEF Exact
  <2>4. ExactParts(x, y)
    BY <2>1, <2>2, <2>3 DEF ExactParts, PartsOf, IsSchema
  <2>5. Compared(DiffOf, x, y) = NoChange <=> x = y
    BY <2>4, ComparedIs
  <2>6. Compared(DiffOf, x, y) # Nil
    BY NotNil DEF Diff, Compared
  <2> QED  BY <2>5, <2>6, DiffIsCompared DEF Exact
<1>3. S = Nat
  <2> HIDE DEF S
  <2>1. S \in SUBSET Nat  BY DEF S
  <2> QED  BY <1>1, <1>2, <2>1, SetInduction
<1>4. Height(old) \in Nat /\ Height(old) + 1 \in Nat /\ Height(old) < Height(old) + 1
  BY SchemasAssumption
<1> QED  BY <1>3, <1>4 DEF Exact

-----------------------------------------------------------------------------
(* The filter.                                                             *)

Filter(x, y) == ignoreOptionalNewProperties(Diff(x, y))

(* What is left of the properties: those that are new and newly required,  *)
(* those that are gone, and those whose own diff does not become empty.    *)
News(x, y) == (DOMAIN y.props \ DOMAIN x.props) \cap (y.required \ x.required)

Gone(x, y) == DOMAIN x.props \ DOMAIN y.props

Touched(x, y) ==
    {n \in Changed(x.props, y.props) : Filter(x.props[n], y.props[n]) # NoChange}

LeftOfProps(x, y) ==
    [added |-> News(x, y), deleted |-> Gone(x, y),
     modified |-> [n \in Touched(x, y) |-> Filter(x.props[n], y.props[n])]]

LEMMA PartsExact ==
  ASSUME NEW x \in Schemas, NEW y \in Schemas
  PROVE  /\ IsSchema(x) /\ IsSchema(y)
         /\ \A n \in DOMAIN x.props : x.props[n] \in Schemas
         /\ \A n \in DOMAIN y.props : y.props[n] \in Schemas
         /\ x.props \in [DOMAIN x.props -> Schemas]
         /\ y.props \in [DOMAIN y.props -> Schemas]
         /\ \A n \in DOMAIN x.props \cap DOMAIN y.props : Exact(x.props[n], y.props[n])
BY SchemasAssumption, DiffsAreExact DEF IsSchema, Exact

LEMMA NilFilter == ignoreOptionalNewProperties(Nil) = Nil
<1>1. Nil \in DiffsOf(Schemas)
  BY NilDiff DEF DiffsOf
<1> QED  BY <1>1, RecursionAssumption DEF ignoreOptionalNewProperties, ignoreOptionalNewPropertiesBody

LEMMA NilItems == Items(FilterOf, Nil) = Nil
BY NilFilter DEF ignoreOptionalNewProperties, Items

(* ignoreOptionalNewProperties on a diff that is not empty. *)
Rest(sd) == [sd EXCEPT !.props = ignorePropertiesDiff(FilterOf, sd), !.items = Items(FilterOf, sd.items)]

LEMMA FilterBody ==
  ASSUME NEW sd \in DiffsOf(Schemas) \cup FilteredDiffsOf(Schemas), sd # Nil
  PROVE  /\ sd = NoChange => ignoreOptionalNewProperties(sd) = sd
         /\ sd # NoChange => ignoreOptionalNewProperties(sd) = Rest(sd)
BY RecursionAssumption DEF ignoreOptionalNewProperties, ignoreOptionalNewPropertiesBody, Rest, IsEmpty

(* A schema that is only there before or after. *)
LEMMA OneSided ==
  ASSUME NEW sd \in {[NoChange EXCEPT !.added = TRUE], [NoChange EXCEPT !.deleted = TRUE]}
  PROVE  Rest(sd) = sd
<1>1. /\ DOMAIN sd = DOMAIN NoChange /\ sd.props = Nil /\ sd.items = Nil
      /\ sd = [f \in DOMAIN sd |-> sd[f]]
  BY DEF NoChange
<1>2. ignorePropertiesDiff(FilterOf, sd) = Nil
  BY <1>1 DEF ignoreOptionalNewProperties, ignorePropertiesDiff
<1>3. Items(FilterOf, sd.items) = Nil
  BY <1>1, NilItems
<1>4. Rest(sd) = [sd EXCEPT !.props = Nil, !.items = Nil]
  BY <1>2, <1>3 DEF Rest
<1> QED  BY <1>1, <1>4

LEMMA OneSidedFilter ==
  ASSUME NEW s \in Schemas
  PROVE  /\ Filter(Nil, s) = [NoChange EXCEPT !.added = TRUE]
         /\ Filter(s, Nil) = [NoChange EXCEPT !.deleted = TRUE]
         /\ ignoreOptionalNewProperties(Filter(Nil, s)) = Filter(Nil, s)
         /\ ignoreOptionalNewProperties(Filter(s, Nil)) = Filter(s, Nil)
<1>1. Diff(Nil, s) \in DiffsOf(Schemas) /\ Diff(s, Nil) \in DiffsOf(Schemas)
  BY DEF DiffsOf
<1>2. Filter(Nil, s) = [NoChange EXCEPT !.added = TRUE]
  BY <1>1, DiffOfNil, NoChangeIs, FilterBody, OneSided DEF Filter
<1>3. Filter(s, Nil) = [NoChange EXCEPT !.deleted = TRUE]
  BY <1>1, DiffOfNil, NoChangeIs, FilterBody, OneSided DEF Filter
<1> QED  BY <1>2, <1>3, DiffOfNil DEF Filter

LEMMA PropsFiltered ==
  ASSUME NEW x \in Schemas, NEW y \in Schemas
  PROVE  LET left == ignorePropertiesDiff(FilterOf, Compared(DiffOf, x, y))
         IN  /\ left = Nil <=> News(x, y) = {} /\ Gone(x, y) = {} /\ Touched(x, y) = {}
             /\ left # Nil => left = LeftOfProps(x, y)
<1> DEFINE sd == Compared(DiffOf, x, y)
           D == DOMAIN x.props
           E == DOMAIN y.props
           changed == Changed(x.props, y.props)
           Modified(n) == ignoreOptionalNewProperties(sd.props.modified[n])
           modified == [n \in {n \in DOMAIN sd.props.modified : ~IsEmpty(Modified(n))} |->
                           Modified(n)]
           pd == [sd.props EXCEPT !.added = keepOptionalNewFieldsDiff(sd), !.modified = modified]
<1>1. ignorePropertiesDiff(FilterOf, sd) = IF sd.props = Nil \/ empty(pd) THEN Nil ELSE pd
  BY DEF ignoreOptionalNewProperties, ignorePropertiesDiff
<1>2. sd.props = PropertiesDiff(DiffOf, x.props, y.props) /\ sd.required = SetDiff(x.required, y.required)
  BY DEF Diff, Compared
<1> HIDE DEF sd
<1>3. CASE sd.props = Nil
  <2>1. E = D /\ changed = {}
    BY <1>2, <1>3, PartsExact, PropertiesDiffIs
  <2> QED  BY <2>1, <1>1, <1>3 DEF News, Gone, Touched, sd
<1>4. CASE sd.props # Nil
  <2>1. sd.props = [added |-> E \ D, deleted |-> D \ E,
                    modified |-> [n \in changed |-> Diff(x.props[n], y.props[n])]]
    BY <1>2, <1>4, PartsExact, PropertiesDiffIs
  <2>2. keepOptionalNewFieldsDiff(sd) = News(x, y)
    BY <1>2, <2>1, SetDiffIs DEF keepOptionalNewFieldsDiff, News
  <2>3. {n \in DOMAIN sd.props.modified : ~IsEmpty(Modified(n))} = Touched(x, y)
    BY <2>1 DEF Touched, Filter, IsEmpty
  <2>4. modified = [n \in Touched(x, y) |-> Filter(x.props[n], y.props[n])]
    BY <2>1, <2>3 DEF Touched, Filter
  <2> HIDE DEF modified
  <2>5. pd = LeftOfProps(x, y)
    <3>1. /\ DOMAIN sd.props = {"added", "deleted", "modified"}
          /\ sd.props.deleted = Gone(x, y)
      BY <2>1 DEF Gone
    <3>2. /\ DOMAIN pd = {"added", "deleted", "modified"} /\ pd = [a \in DOMAIN pd |-> pd[a]]
          /\ pd.added = News(x, y) /\ pd.deleted = Gone(x, y) /\ pd.modified = modified
      BY <2>2, <3>1
    <3> HIDE DEF pd
    <3>3. pd = [added |-> pd.added, deleted |-> pd.deleted, modified |-> pd.modified]
      BY <3>2
    <3> QED  BY <2>4, <3>2, <3>3 DEF LeftOfProps
  <2>6. empty(pd) <=> News(x, y) = {} /\ Gone(x, y) = {} /\ Touched(x, y) = {}
    BY <2>5 DEF empty, NoProperties, LeftOfProps
  <2>7. pd # Nil
    BY <2>5, NotNil DEF LeftOfProps
  <2> HIDE DEF pd
  <2> QED  BY <1>1, <1>4, <2>5, <2>6, <2>7 DEF sd
<1> QED  BY <1>3, <1>4

(* What is left of the diff of the items. *)
LeftOfItems(x, y) ==
    IF Diff(x.items, y.items) = Nil \/ Filter(x.items, y.items) = NoChange THEN Nil
    ELSE Filter(x.items, y.items)

LEMMA ItemsFiltered ==
  ASSUME NEW x \in Schemas, NEW y \in Schemas
  PROVE  Items(FilterOf, Compared(DiffOf, x, y).items) = LeftOfItems(x, y)
<1>1. Compared(DiffOf, x, y).items = Diff(x.items, y.items)
  BY DEF Diff, Compared
<1> QED  BY <1>1, NilItems DEF ignoreOptionalNewProperties, Items, LeftOfItems, Filter, IsEmpty

LEMMA FilterIs ==
  ASSUME NEW x \in Schemas, NEW y \in Schemas, Diff(x, y) # Nil
  PROVE  LET f == Filter(x, y)
         IN  /\ DOMAIN f = DOMAIN NoChange /\ f = [a \in DOMAIN f |-> f[a]]
             /\ f.added = FALSE /\ f.deleted = FALSE
             /\ f.type = TypeDiff(x, y) /\ f.enum = SetDiff(x.enum, y.enum)
             /\ f.required = SetDiff(x.required, y.required)
             /\ f.props = ignorePropertiesDiff(FilterOf, Compared(DiffOf, x, y))
             /\ f.items = LeftOfItems(x, y)
             /\ f.extra = Diff(x.extra, y.extra) /\ f.rules = SetDiff(x.rules, y.rules)
<1> DEFINE sd == Compared(DiffOf, x, y)
           f == Filter(x, y)
<1>1. Diff(x, y) = sd /\ sd # NoChange /\ Diff(x, y) \in DiffsOf(Schemas)
  BY DiffIsCompared DEF DiffsOf
<1>2. f = Rest(sd)
  BY <1>1, FilterBody DEF Filter
<1>3. /\ DOMAIN sd = DOMAIN NoChange
      /\ sd.added = FALSE /\ sd.deleted = FALSE
      /\ sd.type = TypeDiff(x, y) /\ sd.enum = SetDiff(x.enum, y.enum)
      /\ sd.required = SetDiff(x.required, y.required)
      /\ sd.extra = Diff(x.extra, y.extra) /\ sd.rules = SetDiff(x.rules, y.rules)
  BY DEF Diff, Compared, NoChange, TypeDiff
<1> HIDE DEF sd, f
<1>4. f = [sd EXCEPT !.props = ignorePropertiesDiff(FilterOf, sd), !.items = LeftOfItems(x, y)]
  BY <1>2, ItemsFiltered DEF Rest, sd
<1>5. /\ DOMAIN f = DOMAIN sd /\ f = [a \in DOMAIN f |-> f[a]]
      /\ \A a \in DOMAIN sd : a # "props" /\ a # "items" => f[a] = sd[a]
      /\ f.props = ignorePropertiesDiff(FilterOf, sd) /\ f.items = LeftOfItems(x, y)
  BY <1>3, <1>4, NoChangeIs
<1> QED  BY <1>3, <1>5, NoChangeIs DEF sd, f

-----------------------------------------------------------------------------
(* A second filtering changes nothing.                                     *)

Idempotent(x, y) ==
    Diff(x, y) # Nil => ignoreOptionalNewProperties(Filter(x, y)) = Filter(x, y)

IdempotentParts(x, y) ==
    /\ \A n \in DOMAIN x.props \cap DOMAIN y.props : Idempotent(x.props[n], y.props[n])
    /\ Idempotent(x.items, y.items)

LEMMA PropsFilteredTwice ==
  ASSUME NEW x \in Schemas, NEW y \in Schemas, Diff(x, y) # Nil, IdempotentParts(x, y)
  PROVE  ignorePropertiesDiff(FilterOf, Filter(x, y)) = Filter(x, y).props
<1> DEFINE f == Filter(x, y)
           Modified(n) == ignoreOptionalNewProperties(f.props.modified[n])
           modified == [n \in {n \in DOMAIN f.props.modified : ~IsEmpty(Modified(n))} |->
                           Modified(n)]
           pd == [f.props EXCEPT !.added = keepOptionalNewFieldsDiff(f), !.modified = modified]
<1>1. ignorePropertiesDiff(FilterOf, f) = IF f.props = Nil \/ empty(pd) THEN Nil ELSE pd
  BY DEF ignoreOptionalNewProperties, ignorePropertiesDiff
<1>2. /\ f.props = ignorePropertiesDiff(FilterOf, Compared(DiffOf, x, y))
      /\ f.required = SetDiff(x.required, y.required)
  BY FilterIs
<1> HIDE DEF f
<1>3. CASE f.props = Nil
  BY <1>1, <1>3 DEF f
<1>4. CASE f.props # Nil
  <2>1. f.props = LeftOfProps(x, y)
    BY <1>2, <1>4, PropsFiltered
  <2>2. /\ f.props.added = News(x, y) /\ f.props.deleted = Gone(x, y)
        /\ DOMAIN f.props.modified = Touched(x, y)
        /\ \A n \in Touched(x, y) : f.props.modified[n] = Filter(x.props[n], y.props[n])
        /\ f.props.modified = [n \in Touched(x, y) |-> f.props.modified[n]]
        /\ f.props = [added |-> f.props.added, deleted |-> f.props.deleted,
                      modified |-> f.props.modified]
    BY <2>1 DEF LeftOfProps
  <2>3. keepOptionalNewFieldsDiff(f) = News(x, y)
    BY <1>2, <2>2, SetDiffIs DEF keepOptionalNewFieldsDiff, News
  <2>4. \A n \in Touched(x, y) : Modified(n) = f.props.modified[n] /\ ~IsEmpty(Modified(n))
    BY <2>2 DEF Touched, Changed, IdempotentParts, Idempotent, IsEmpty
  <2>5. modified = f.props.modified
    BY <2>2, <2>4
  <2> HIDE DEF modified
  <2>6. pd = f.props
    <3>1. pd = [f.props EXCEPT !.added = f.props.added, !.modified = f.props.modified]
      BY <2>2, <2>3, <2>5
    <3> QED  BY <2>2, <3>1
  <2>7. ~empty(f.props)
    <3>1. ~(News(x, y) = {} /\ Gone(x, y) = {} /\ Touched(x, y) = {})
      BY <1>2, <1>4, PropsFiltered
    <3> QED  BY <2>2, <3>1 DEF empty, NoProperties
  <2> HIDE DEF pd
  <2> QED  BY <1>1, <1>4, <2>6, <2>7 DEF f
<1> QED  BY <1>3, <1>4

LEMMA FilteredTwice ==
  ASSUME NEW x \in Schemas, NEW y \in Schemas, IdempotentParts(x, y)
  PROVE  Idempotent(x, y)
<1> DEFINE f == Filter(x, y)
<1> SUFFICES ASSUME Diff(x, y) # Nil PROVE ignoreOptionalNewProperties(f) = f
  BY DEF Idempotent
<1>1. f \in FilteredDiffsOf(Schemas)
  BY DEF Filter, FilteredDiffsOf, DiffsOf
<1>2. "added" \in DOMAIN f /\ f = [a \in DOMAIN f |-> f[a]] /\ f.items = LeftOfItems(x, y)
  BY FilterIs, NoChangeIs
<1>3. f # Nil
  BY <1>2, NotNil
<1>4. ignorePropertiesDiff(FilterOf, f) = f.props
  BY PropsFilteredTwice
<1>5. Items(FilterOf, f.items) = f.items
  BY <1>2, NilItems DEF ignoreOptionalNewProperties, LeftOfItems, Items, IdempotentParts, Idempotent, IsEmpty
<1> HIDE DEF f
<1>6. Rest(f) = [f EXCEPT !.props = f.props, !.items = f.items]
  BY <1>4, <1>5 DEF Rest
<1>7. Rest(f) = f
  BY <1>2, <1>6
<1> QED  BY <1>1, <1>3, <1>7, FilterBody DEF f

-----------------------------------------------------------------------------
(* What the filter leaves, and what is reported of it.                     *)

LEMMA ExactOrNil ==
  ASSUME NEW s \in Schemas \cup {Nil}, NEW t \in Schemas \cup {Nil}
  PROVE  Diff(s, t) = Nil <=> s = t
BY DiffsAreExact, DiffOfNil, NilDiff, NoChangeIs, NotNil

LEMMA FilterNotNil ==
  ASSUME NEW s \in Schemas \cup {Nil}, NEW t \in Schemas \cup {Nil}, Diff(s, t) # Nil
  PROVE  Filter(s, t) # Nil
<1>1. CASE s \in Schemas /\ t \in Schemas
  <2>1. "added" \in DOMAIN Filter(s, t)
    BY <1>1, FilterIs, NoChangeIs
  <2> QED  BY <2>1, NotNil
<1>2. CASE s = Nil \/ t = Nil
  BY <1>2, ExactOrNil, OneSidedFilter, NoChangeIs
<1> QED  BY <1>1, <1>2

(* The filter empties exactly the diffs of an extension. *)
ExtendsExactly(x, y) == Extends(x, y) <=> Diff(x, y) = Nil \/ Filter(x, y) = NoChange

(* A change is reported of what the filter leaves exactly if a field breaks. *)
BreaksExactly(x, y) ==
    FieldsBreak(x, y) <=> Diff(x, y) # Nil /\ walkSchemaDiff(Filter(x, y)) # {}

LEMMA FilterEmpty ==
  ASSUME NEW x \in Schemas, NEW y \in Schemas, Diff(x, y) # Nil
  PROVE  Filter(x, y) = NoChange <=>
           /\ x.type = y.type /\ x.enum = y.enum /\ x.required = y.required
           /\ Gone(x, y) = {} /\ Touched(x, y) = {}
           /\ LeftOfItems(x, y) = Nil /\ x.extra = y.extra /\ x.rules = y.rules
<1> DEFINE f == Filter(x, y)
           left == ignorePropertiesDiff(FilterOf, Compared(DiffOf, x, y))
<1>1. /\ DOMAIN f = DOMAIN NoChange /\ f = [a \in DOMAIN f |-> f[a]]
      /\ f.added = FALSE /\ f.deleted = FALSE
      /\ f.type = TypeDiff(x, y) /\ f.enum = SetDiff(x.enum, y.enum)
      /\ f.required = SetDiff(x.required, y.required)
      /\ f.props = left /\ f.items = LeftOfItems(x, y)
      /\ f.extra = Diff(x.extra, y.extra) /\ f.rules = SetDiff(x.rules, y.rules)
  BY FilterIs
<1>2. left = Nil <=> News(x, y) = {} /\ Gone(x, y) = {} /\ Touched(x, y) = {}
  BY PropsFiltered
<1> HIDE DEF f, left
<1>3. f = NoChange <=>
        /\ f.type = Nil /\ f.enum = Nil /\ f.required = Nil /\ f.props = Nil
        /\ f.items = Nil /\ f.extra = Nil /\ f.rules = Nil
  <2>1. f = NoChange => /\ f.type = Nil /\ f.enum = Nil /\ f.required = Nil /\ f.props = Nil
                        /\ f.items = Nil /\ f.extra = Nil /\ f.rules = Nil
    BY DEF NoChange
  <2>2. f = [added |-> f.added, deleted |-> f.deleted, type |-> f.type, enum |-> f.enum,
             required |-> f.required, props |-> f.props, items |-> f.items,
             extra |-> f.extra, rules |-> f.rules]
    BY <1>1, NoChangeIs
  <2> QED  BY <1>1, <2>1, <2>2 DEF NoChange
<1>4. x.required = y.required => News(x, y) = {}
  BY DEF News
<1>5. Diff(x.extra, y.extra) = Nil <=> x.extra = y.extra
  BY PartsExact, ExactOrNil DEF IsSchema
<1>6. f.type = Nil <=> x.type = y.type
  BY <1>1, TypeDiffIs
<1>7. /\ f.enum = Nil <=> x.enum = y.enum
      /\ f.required = Nil <=> x.required = y.required
      /\ f.rules = Nil <=> x.rules = y.rules
  BY <1>1, SetDiffIs
<1> QED  BY <1>1, <1>2, <1>3, <1>4, <1>5, <1>6, <1>7 DEF f

LEMMA ItemsEmpty ==
  ASSUME NEW x \in Schemas, NEW y \in Schemas
  PROVE  /\ x.items \in Schemas \cup {Nil} /\ y.items \in Schemas \cup {Nil}
         /\ LeftOfItems(x, y) = Nil <=>
              Diff(x.items, y.items) = Nil \/ Filter(x.items, y.items) = NoChange
         /\ (x.items = Nil) # (y.items = Nil) => LeftOfItems(x, y) # Nil
<1>1. x.items \in Schemas \cup {Nil} /\ y.items \in Schemas \cup {Nil}
  BY PartsExact DEF IsSchema
<1>2. LeftOfItems(x, y) = Nil <=>
        Diff(x.items, y.items) = Nil \/ Filter(x.items, y.items) = NoChange
  BY <1>1, FilterNotNil DEF LeftOfItems
<1>3. (x.items = Nil) # (y.items = Nil) => LeftOfItems(x, y) # Nil
  BY <1>1, <1>2, ExactOrNil, OneSidedFilter, NoChangeIs, NotNil
<1> QED  BY <1>1, <1>2, <1>3

LEMMA ExtendsStep ==
  ASSUME NEW x \in Schemas, NEW y \in Schemas,
         \A n \in DOMAIN x.props \cap DOMAIN y.props : ExtendsExactly(x.props[n], y.props[n]),
         x.items # Nil /\ y.items # Nil => ExtendsExactly(x.items, y.items)
  PROVE  ExtendsExactly(x, y)
<1>1. Extends(x, y) <=> ExtendsBody(ExtendsOf, x, y)
  BY RelationsAssumption
<1>2. \A n \in DOMAIN x.props \cap DOMAIN y.props :
         Extends(x.props[n], y.props[n]) <=> n \notin Touched(x, y)
  BY DEF ExtendsExactly, Touched, Changed
<1>3. LeftOfItems(x, y) = Nil <=>
        /\ x.items = Nil <=> y.items = Nil
        /\ x.items # Nil => Extends(x.items, y.items)
  <2>1. CASE x.items = Nil /\ y.items = Nil
    BY <2>1, ItemsEmpty, NilDiff
  <2>2. CASE x.items # Nil /\ y.items # Nil
    BY <2>2, ItemsEmpty DEF ExtendsExactly
  <2>3. CASE (x.items = Nil) # (y.items = Nil)
    BY <2>3, ItemsEmpty
  <2> QED  BY <2>1, <2>2, <2>3
<1>4. Touched(x, y) \subseteq DOMAIN x.props \cap DOMAIN y.props
  BY DEF Touched, Changed
<1>5. ExtendsBody(ExtendsOf, x, y) <=>
        /\ x.type = y.type /\ x.enum = y.enum /\ x.required = y.required
        /\ Gone(x, y) = {} /\ Touched(x, y) = {}
        /\ LeftOfItems(x, y) = Nil /\ x.extra = y.extra /\ x.rules = y.rules
  BY <1>2, <1>3, <1>4 DEF Extends, ExtendsBody, OptionalAdditions, Gone
<1>6. CASE Diff(x, y) # Nil
  BY <1>1, <1>5, <1>6, FilterEmpty DEF ExtendsExactly
<1>7. CASE Diff(x, y) = Nil
  <2>1. x = y
    BY <1>7, ExactOrNil
  <2>2. Gone(x, y) = {}
    BY <2>1 DEF Gone
  <2>3. Touched(x, y) = {}
    BY <2>1, PartsExact, ExactOrNil DEF Touched, Changed
  <2>4. LeftOfItems(x, y) = Nil
    BY <2>1, ItemsEmpty, ExactOrNil
  <2> QED  BY <1>1, <1>5, <1>7, <2>1, <2>2, <2>3, <2>4 DEF ExtendsExactly
<1> QED  BY <1>6, <1>7

LEMMA WalkNoChange ==
  ASSUME NoChange \in FilteredDiffsOf(Schemas)
  PROVE  walkSchemaDiff(NoChange) = {}
<1>1. /\ ~NoChange.added /\ ~NoChange.deleted
      /\ NoChange.props = Nil /\ NoChange.type = Nil /\ NoChange.items = Nil
  BY DEF NoChange
<1>2. NoChange # Nil
  BY NoChangeIs, NotNil
<1>3. walkSchemaDiff(NoChange) = walkSchemaDiffBody(WalkOf, NoChange)
  BY <1>2, RecursionAssumption
<1> QED  BY <1>1, <1>3 DEF walkSchemaDiff, walkSchemaDiffBody, extractPropertyChanges, extractTypeChanges,
            extractItemsChanges

LEMMA WithinEmpty ==
  ASSUME NEW name, NEW changes
  PROVE  Within(name, changes) = {} <=> changes = {}
BY DEF Within

LEMMA SkipIs ==
  ASSUME NEW x \in Schemas, NEW y \in Schemas, Diff(x, y) # Nil
  PROVE  shouldSkipDueToArrayObjectConversion(Filter(x, y)) <=> BecameObject(x, y)
<1> DEFINE f == Filter(x, y)
<1>1. f.type = TypeDiff(x, y) /\ f.items = LeftOfItems(x, y)
  BY FilterIs
<1> HIDE DEF f
<1>2. f.type # Nil <=> x.type # y.type
  BY <1>1, TypeDiffIs
<1>3. x.type # y.type => f.type.added = {y.type} /\ f.type.deleted = {x.type}
  BY <1>1, TypeDiffIs
<1>4. ASSUME BecameObject(x, y) PROVE f.items # Nil /\ f.items.deleted
  <2>1. x.items # Nil /\ y.items = Nil /\ x.items \in Schemas
    BY <1>4, PartsExact DEF BecameObject, IsSchema
  <2>2. Filter(x.items, Nil) = [NoChange EXCEPT !.deleted = TRUE]
    BY <2>1, OneSidedFilter
  <2>3. LeftOfItems(x, y) # Nil
    BY <2>1, ItemsEmpty
  <2>4. LeftOfItems(x, y) = Filter(x.items, y.items)
    BY <2>3 DEF LeftOfItems
  <2> QED  BY <1>1, <2>1, <2>2, <2>3, <2>4, NoChangeIs
<1> QED  BY <1>2, <1>3, <1>4 DEF shouldSkipDueToArrayObjectConversion, BecameObject, f

LEMMA BreaksStep ==
  ASSUME NEW x \in Schemas, NEW y \in Schemas,
         \A n \in DOMAIN x.props \cap DOMAIN y.props : BreaksExactly(x.props[n], y.props[n]),
         x.items # Nil /\ y.items # Nil => BreaksExactly(x.items, y.items)
  PROVE  BreaksExactly(x, y)
<1> DEFINE f == Filter(x, y)
           both == DOMAIN x.props \cap DOMAIN y.props
           left == ignorePropertiesDiff(FilterOf, Compared(DiffOf, x, y))
<1>1. FieldsBreak(x, y) <=> FieldsBreakBody(FieldsBreakOf, x, y)
  BY RelationsAssumption
<1>2. ASSUME NEW s \in Schemas \cup {Nil}, NEW t \in Schemas \cup {Nil},
             Diff(s, t) # Nil, walkSchemaDiff(Filter(s, t)) # {}
      PROVE  Filter(s, t) # NoChange
  <2>1. Filter(s, t) \in FilteredDiffsOf(Schemas)
    BY DEF Filter, FilteredDiffsOf, DiffsOf
  <2> QED  BY <1>2, <2>1, WalkNoChange
<1>3. \A n \in both : /\ n \in Touched(x, y) <=>
                           /\ Diff(x.props[n], y.props[n]) # Nil
                           /\ Filter(x.props[n], y.props[n]) # NoChange
                      /\ x.props[n] \in Schemas /\ y.props[n] \in Schemas
  BY PartsExact DEF Touched, Changed
<1>4. (\E n \in both : FieldsBreak(x.props[n], y.props[n])) <=>
        \E n \in Touched(x, y) : walkSchemaDiff(Filter(x.props[n], y.props[n])) # {}
  <2>1. Touched(x, y) \subseteq both
    BY DEF Touched, Changed
  <2> QED  BY <1>2, <1>3, <2>1 DEF BreaksExactly
<1>5. CASE Diff(x, y) = Nil
  <2>1. x = y
    BY <1>5, ExactOrNil
  <2>2. \A n \in both : ~FieldsBreak(x.props[n], y.props[n])
    BY <2>1, <1>3, ExactOrNil DEF BreaksExactly
  <2>3. ~(x.items # Nil /\ y.items # Nil /\ FieldsBreak(x.items, y.items))
    BY <2>1, ItemsEmpty, ExactOrNil DEF BreaksExactly
  <2> QED  BY <1>1, <1>5, <2>1, <2>2, <2>3 DEF FieldsBreak, BreaksExactly, FieldsBreakBody
<1>6. CASE Diff(x, y) # Nil
  <2>1. /\ f.added = FALSE /\ f.deleted = FALSE
        /\ f.type = TypeDiff(x, y)
        /\ f.props = left /\ f.items = LeftOfItems(x, y)
    BY <1>6, FilterIs
  <2>2. f \in FilteredDiffsOf(Schemas) /\ f # Nil
    BY <1>6, FilterNotNil DEF Filter, FilteredDiffsOf, DiffsOf
  <2>3. left = Nil <=> News(x, y) = {} /\ Gone(x, y) = {} /\ Touched(x, y) = {}
    BY PropsFiltered
  <2>4. left # Nil => left = LeftOfProps(x, y)
    BY PropsFiltered
  <2>5. shouldSkipDueToArrayObjectConversion(f) <=> BecameObject(x, y)
    BY <1>6, SkipIs
  <2> HIDE DEF f, left
  <2>6. walkSchemaDiff(f) # {} <=> \/ extractPropertyChanges(WalkOf, f) # {}
                                   \/ extractTypeChanges(f) # {}
                                   \/ extractItemsChanges(WalkOf, f) # {}
    <3>1. walkSchemaDiff(f) = walkSchemaDiffBody(WalkOf, f)
      BY <2>2, RecursionAssumption
    <3> QED  BY <2>1, <3>1 DEF walkSchemaDiff, walkSchemaDiffBody
  <2>7. extractTypeChanges(f) # {} <=> x.type # y.type /\ ~BecameObject(x, y)
    BY <2>1, <2>5, TypeDiffIs DEF extractTypeChanges
  <2>8. extractPropertyChanges(WalkOf, f) # {} <=>
          \/ News(x, y) # {} /\ ~BecameObject(x, y)
          \/ Gone(x, y) # {}
          \/ \E n \in both : FieldsBreak(x.props[n], y.props[n])
    <3>1. CASE left = Nil
      BY <1>4, <2>1, <2>3, <3>1 DEF walkSchemaDiff, extractPropertyChanges
    <3>2. CASE left # Nil
      <4>1. /\ f.props.added = News(x, y) /\ f.props.deleted = Gone(x, y)
            /\ DOMAIN f.props.modified = Touched(x, y)
            /\ \A n \in Touched(x, y) : f.props.modified[n] = Filter(x.props[n], y.props[n])
        BY <2>1, <2>4, <3>2 DEF LeftOfProps
      <4>2. Deleted(f) # {} <=> Gone(x, y) # {}
        BY <4>1 DEF Deleted
      <4>3. {<<<<n>>, "field_added">> : n \in f.props.added} # {} <=> News(x, y) # {}
        BY <4>1
      <4>4. UNION {Within(n, walkSchemaDiff(f.props.modified[n])) :
                      n \in DOMAIN f.props.modified} # {}
              <=> \E n \in Touched(x, y) : walkSchemaDiff(Filter(x.props[n], y.props[n])) # {}
        <5>1. \A n \in Touched(x, y) :
                 Within(n, walkSchemaDiff(f.props.modified[n])) # {} <=>
                   walkSchemaDiff(Filter(x.props[n], y.props[n])) # {}
          BY <4>1, WithinEmpty
        <5> QED  BY <4>1, <5>1
      <4> QED  BY <1>4, <2>1, <2>5, <3>2, <4>2, <4>3, <4>4 DEF walkSchemaDiff, extractPropertyChanges
    <3> QED  BY <3>1, <3>2
  <2>9. extractItemsChanges(WalkOf, f) # {} <=>
          x.items # Nil /\ y.items # Nil /\ FieldsBreak(x.items, y.items)
    <3>1. /\ x.type = "array" <=> x.items # Nil
          /\ y.type = "array" <=> y.items # Nil
      BY PartsExact DEF IsSchema
    <3>2. CASE f.items = Nil
      <4>1. Diff(x.items, y.items) = Nil \/ Filter(x.items, y.items) = NoChange
        BY <2>1, <3>2, ItemsEmpty
      <4>2. ~(x.items # Nil /\ y.items # Nil /\ FieldsBreak(x.items, y.items))
        BY <1>2, <4>1, ItemsEmpty DEF BreaksExactly
      <4> QED  BY <3>2, <4>2 DEF walkSchemaDiff, extractItemsChanges
    <3>3. CASE f.items # Nil /\ x.items # Nil /\ y.items # Nil
      <4>1. f.type = Nil
        BY <2>1, <3>1, <3>3, TypeDiffIs
      <4>2. f.items = Filter(x.items, y.items) /\ Diff(x.items, y.items) # Nil
        BY <2>1, <3>3 DEF LeftOfItems
      <4> QED  BY <3>3, <4>1, <4>2, WithinEmpty DEF walkSchemaDiff, extractItemsChanges, BreaksExactly
    <3>4. CASE f.items # Nil /\ ~(x.items # Nil /\ y.items # Nil)
      <4>1. (x.items = Nil) # (y.items = Nil)
        BY <2>1, <3>4, ItemsEmpty, NilDiff
      <4>2. f.type # Nil /\ "array" \in f.type.added \cup f.type.deleted
        BY <2>1, <3>1, <4>1, TypeDiffIs
      <4> QED  BY <3>4, <4>2 DEF walkSchemaDiff, extractItemsChanges
    <3> QED  BY <3>2, <3>3, <3>4
  <2> QED  BY <1>1, <1>6, <2>6, <2>7, <2>8, <2>9
           DEF FieldsBreak, BreaksExactly, FieldsBreakBody, News, Gone, f
<1> QED  BY <1>5, <1>6

-----------------------------------------------------------------------------
(* Both hold of all schemas, by induction on their height.                 *)

(* What is claimed of two schemas. *)
Claims(x, y) == Idempotent(x, y) /\ ExtendsExactly(x, y) /\ BreaksExactly(x, y)

LEMMA ClaimsStep ==
  ASSUME NEW x \in Schemas, NEW y \in Schemas,
         \A s \in PartsOf(x), t \in PartsOf(y) : Claims(s, t)
  PROVE  Claims(x, y)
<1>1. /\ \A n \in DOMAIN x.props : x.props[n] \in PartsOf(x)
      /\ \A n \in DOMAIN y.props : y.props[n] \in PartsOf(y)
      /\ x.items # Nil => x.items \in PartsOf(x)
      /\ y.items # Nil => y.items \in PartsOf(y)
  BY DEF PartsOf
<1>2. \A n \in DOMAIN x.props \cap DOMAIN y.props : Claims(x.props[n], y.props[n])
  BY <1>1
<1>3. x.items # Nil /\ y.items # Nil => Claims(x.items, y.items)
  BY <1>1
<1>4. Idempotent(x.items, y.items)
  <2>1. x.items \in Schemas \cup {Nil} /\ y.items \in Schemas \cup {Nil}
    BY ItemsEmpty
  <2> QED  BY <1>3, <2>1, OneSidedFilter, NilDiff DEF Claims, Idempotent
<1>5. Idempotent(x, y)
  BY <1>2, <1>4, FilteredTwice DEF Claims, IdempotentParts
<1>6. ExtendsExactly(x, y)
  BY <1>2, <1>3, ExtendsStep DEF Claims
<1>7. BreaksExactly(x, y)
  BY <1>2, <1>3, BreaksStep DEF Claims
<1> QED  BY <1>5, <1>6, <1>7 DEF Claims

LEMMA ClaimsHold ==
  ASSUME NEW old \in Schemas, NEW new \in Schemas
  PROVE  Claims(old, new)
<1> DEFINE S == {n \in Nat : \A x, y \in Schemas : Height(x) < n => Claims(x, y)}
<1>1. 0 \in S
  BY SchemasAssumption
<1>2. ASSUME NEW n \in S PROVE n + 1 \in S
  <2> SUFFICES ASSUME NEW x \in Schemas, NEW y \in Schemas, Height(x) < n + 1
               PROVE  Claims(x, y)
    OBVIOUS
  <2>1. \A z \in Schemas : \A t \in PartsOf(z) : t \in Schemas /\ Height(t) < Height(z)
    BY SchemasAssumption DEF PartsOf, IsSchema
  <2>2. \A t \in PartsOf(x) : Height(t) < n
    BY <2>1, SchemasAssumption
  <2>3. \A s \in PartsOf(x), t \in PartsOf(y) : Claims(s, t)
    BY <2>1, <2>2
  <2> QED  BY <2>3, ClaimsStep
<1>3. S = Nat
  <2> HIDE DEF S
  <2>1. S \in SUBSET Nat  BY DEF S
  <2> QED  BY <1>1, <1>2, <2>1, SetInduction
<1>4. Height(old) \in Nat /\ Height(old) + 1 \in Nat /\ Height(old) < Height(old) + 1
  BY SchemasAssumption
<1> QED  BY <1>3, <1>4

(***************************************************************************)
(* Filtering a diff of two schemas a second time changes nothing, at any   *)
(* depth: filterNonBreaking may run for the report and again for the exit  *)
(* code (main.go:137, 152).                                                *)
(***************************************************************************)
THEOREM FilterIsIdempotent ==
  ASSUME NEW old \in Schemas, NEW new \in Schemas, Diff(old, new) # Nil
  PROVE  LET sd == ignoreOptionalNewProperties(Diff(old, new))
         IN  ignoreOptionalNewProperties(sd) = sd
BY ClaimsHold DEF Claims, Idempotent, Filter

(***************************************************************************)
(* ignoreOptionalNewProperties leaves nothing of a diff exactly if the new *)
(* schema is the old one with optional properties added, at whatever depth *)
(* of objects and arrays (361-448).                                        *)
(***************************************************************************)
THEOREM FilterIsExact ==
  ASSUME NEW old \in Schemas, NEW new \in Schemas, Diff(old, new) # Nil
  PROVE  IsEmpty(ignoreOptionalNewProperties(Diff(old, new))) <=> Extends(old, new)
BY ClaimsHold DEF Claims, ExtendsExactly, Filter, IsEmpty

(***************************************************************************)
(* The flat list of what the filter leaves is empty exactly if no field    *)
(* was removed, changed its type other than from array to object, or is    *)
(* new and newly required, at whatever depth (flatten.go:26-242).          *)
(***************************************************************************)
THEOREM FlatteningIsExact ==
  ASSUME NEW old \in Schemas, NEW new \in Schemas, Diff(old, new) # Nil
  PROVE  walkSchemaDiff(ignoreOptionalNewProperties(Diff(old, new))) # {}
           <=> FieldsBreak(old, new)
BY ClaimsHold DEF Claims, BreaksExactly, Filter

-----------------------------------------------------------------------------
(* The relations: to add only optional properties is to allow what the     *)
(* other allows, and then no field breaks, again by induction.             *)

Related(x, y) ==
    /\ Extends(x, y) => Tolerates(x, y)
    /\ Tolerates(x, y) => ~FieldsBreak(x, y)

LEMMA RelatedStep ==
  ASSUME NEW x \in Schemas, NEW y \in Schemas,
         \A s \in PartsOf(x), t \in PartsOf(y) : Related(s, t)
  PROVE  Related(x, y)
<1>1. \A n \in DOMAIN x.props \cap DOMAIN y.props :
         Related(x.props[n], y.props[n])
  BY DEF PartsOf
<1>2. x.items # Nil /\ y.items # Nil => Related(x.items, y.items)
  BY DEF PartsOf
<1>3. /\ Extends(x, y) <=> ExtendsBody(ExtendsOf, x, y)
      /\ Tolerates(x, y) <=> ToleratesBody(ToleratesOf, x, y)
      /\ FieldsBreak(x, y) <=> FieldsBreakBody(FieldsBreakOf, x, y)
  BY RelationsAssumption
<1>4. Extends(x, y) => Tolerates(x, y)
  <2> SUFFICES ASSUME Extends(x, y) PROVE Tolerates(x, y)
    OBVIOUS
  <2>1. x.enum = y.enum /\ OptionalAdditions(ExtendsOf, x, y)
    BY <1>3 DEF ExtendsBody
  <2>2. \A n \in DOMAIN x.props : Tolerates(x.props[n], y.props[n])
    BY <1>1, <2>1 DEF OptionalAdditions, Related, Extends
  <2>3. x.items # Nil => Tolerates(x.items, y.items)
    BY <1>2, <2>1 DEF OptionalAdditions, Related, Extends
  <2>4. OptionalAdditions(ToleratesOf, x, y)
    BY <2>1, <2>2, <2>3 DEF OptionalAdditions, Tolerates
  <2> QED  BY <1>3, <2>1, <2>4 DEF ToleratesBody
<1>5. Tolerates(x, y) => ~FieldsBreak(x, y)
  <2> SUFFICES ASSUME Tolerates(x, y) PROVE ~FieldsBreak(x, y)
    OBVIOUS
  <2>1. OptionalAdditions(ToleratesOf, x, y)
    BY <1>3 DEF ToleratesBody
  <2>2. \A n \in DOMAIN x.props \cap DOMAIN y.props : ~FieldsBreak(x.props[n], y.props[n])
    BY <1>1, <2>1 DEF OptionalAdditions, Related, Tolerates
  <2>3. x.items # Nil /\ y.items # Nil => ~FieldsBreak(x.items, y.items)
    BY <1>2, <2>1 DEF OptionalAdditions, Related, Tolerates
  <2> QED  BY <1>3, <2>1, <2>2, <2>3 DEF OptionalAdditions, FieldsBreakBody, FieldsBreak
<1> QED  BY <1>4, <1>5 DEF Related

(***************************************************************************)
(* A schema that only adds optional properties to another allows what it   *)
(* allows, and then no field breaks, at whatever depth: what is asked of   *)
(* the two kinds of exit code is consistent.                               *)
(***************************************************************************)
THEOREM RelationsConsistent ==
  ASSUME NEW old \in Schemas, NEW new \in Schemas
  PROVE  Related(old, new)
<1> DEFINE S == {n \in Nat : \A x, y \in Schemas : Height(x) < n => Related(x, y)}
<1>1. 0 \in S
  BY SchemasAssumption
<1>2. ASSUME NEW n \in S PROVE n + 1 \in S
  <2> SUFFICES ASSUME NEW x \in Schemas, NEW y \in Schemas, Height(x) < n + 1
               PROVE  Related(x, y)
    OBVIOUS
  <2>1. \A z \in Schemas : \A t \in PartsOf(z) : t \in Schemas /\ Height(t) < Height(z)
    BY SchemasAssumption DEF PartsOf, IsSchema
  <2>2. \A t \in PartsOf(x) : Height(t) < n
    BY <2>1, SchemasAssumption
  <2>3. \A s \in PartsOf(x), t \in PartsOf(y) : Related(s, t)
    BY <2>1, <2>2
  <2> QED  BY <2>3, RelatedStep
<1>3. S = Nat
  <2> HIDE DEF S
  <2>1. S \in SUBSET Nat  BY DEF S
  <2> QED  BY <1>1, <1>2, <2>1, SetInduction
<1>4. Height(old) \in Nat /\ Height(old) + 1 \in Nat /\ Height(old) < Height(old) + 1
  BY SchemasAssumption
<1> QED  BY <1>3, <1>4

-----------------------------------------------------------------------------
(* The command.                                                            *)

(* What is loaded has the versions of the files, in their order.           *)
SameVersions ==
    /\ DOMAIN crds = DOMAIN input
    /\ \A c \in DOMAIN input :
         /\ IsCRD(crds[c]) /\ DOMAIN crds[c] = DOMAIN input[c]
         /\ \A i \in DOMAIN input[c] : crds[c][i].version = input[c][i].version

(* Before Load it is what the files are, and after it, what takes effect.  *)
SchemasLoaded ==
    /\ pc = "load" => crds = input
    /\ pc \in {"diff", "report", "exit"} =>
         \A c \in DOMAIN input : \A i \in DOMAIN input[c] :
            crds[c][i].schema = Effective(input[c][i].schema)

DiffsType ==
    /\ DOMAIN diffs \subseteq VersionsOf(input.base)
    /\ \A v \in DOMAIN diffs :
         diffs[v].info \in IF SelfMode THEN VersionsOf(input.base) \ {v} ELSE {Nil}

(* The types of the variables but for what is in the maps. *)
Scalars ==
    /\ input \in Inputs /\ format \in Formats
    /\ keepAll \in KeepAll /\ upjet \in Upjet
    /\ pc \in {"load", "diff", "report", "exit", "done"}
    /\ code \in {"none", "fatal", "panic", "0", "1"}
    /\ code = "none" <=> pc # "done"

LEMMA InputIsOfCRDs ==
  ASSUME input \in Inputs
  PROVE  /\ "base" \in DOMAIN input
         /\ ~SelfMode => "revision" \in DOMAIN input
         /\ \A c \in DOMAIN input : IsCRD(input[c])
BY InputsAssumption DEF SelfMode

LEMMA VersionsKept ==
  ASSUME SameVersions, NEW c \in DOMAIN input
  PROVE  VersionsOf(crds[c]) = VersionsOf(input[c])
BY DEF SameVersions, VersionsOf

LEMMA LoadedKeepsVersions ==
  ASSUME NEW crd, IsCRD(crd)
  PROVE  LET new == injectUpjetXKubernetesValidationRules(crd)
         IN  /\ IsCRD(new) /\ DOMAIN new = DOMAIN crd
             /\ \A i \in DOMAIN crd : /\ new[i].version = crd[i].version
                                      /\ new[i].schema = inject(crd[i].schema)
<1> DEFINE new == injectUpjetXKubernetesValidationRules(crd)
<1>1. PICK n \in Nat \ {0} : DOMAIN crd = 1..n
  BY DEF IsCRD
<1>2. new = [i \in 1..n |-> [crd[i] EXCEPT !.schema = inject(@)]]
  BY <1>1 DEF injectUpjetXKubernetesValidationRules
<1> HIDE DEF new
<1>3. \A i \in 1..n : /\ new[i].version = crd[i].version
                      /\ new[i].schema = inject(crd[i].schema)
                      /\ DOMAIN new[i] = {"version", "schema"}
  BY <1>1, <1>2 DEF IsCRD
<1>4. DOMAIN new = 1..n
  BY <1>2
<1>5. new \in Seq({new[i] : i \in DOMAIN new}) /\ new # <<>>
  <2>1. new = [i \in 1..n |-> new[i]]
    BY <1>2
  <2> QED  BY <2>1, <1>4
<1>6. IsCRD(new)
  BY <1>1, <1>3, <1>4, <1>5 DEF IsCRD
<1> QED  BY <1>1, <1>3, <1>4, <1>6 DEF new

LEMMA EffectiveIs ==
  ASSUME NEW schema
  PROVE  /\ upjet => Effective(schema) = inject(schema)
         /\ ~upjet => Effective(schema) = schema
BY DEF Effective, inject

(* The schemas of a version: those of its place in the file. *)
LEMMA AtLoaded ==
  ASSUME Scalars, SameVersions, NEW c \in DOMAIN input, NEW v \in VersionsOf(input[c])
  PROVE  /\ IndexOf(crds[c], v) = IndexOf(input[c], v)
         /\ IndexOf(crds[c], v) \in DOMAIN input[c]
         /\ crds[c][IndexOf(crds[c], v)].version = v
         /\ pc \in {"diff", "report", "exit"} /\ SchemasLoaded =>
              crds[c][IndexOf(crds[c], v)].schema = Effective(At(input[c], v))
<1>1. PICK i \in DOMAIN input[c] : v = input[c][i].version
  BY DEF VersionsOf
<1>2. i \in DOMAIN crds[c] /\ crds[c][i].version = v /\ IsCRD(crds[c])
  BY <1>1 DEF SameVersions
<1>3. IndexOf(crds[c], v) = i
  BY <1>2, IndexOfVersion
<1>4. IndexOf(input[c], v) = i
  BY <1>1, InputIsOfCRDs, IndexOfVersion DEF Scalars
<1>5. pc \in {"diff", "report", "exit"} /\ SchemasLoaded =>
        crds[c][i].schema = Effective(input[c][i].schema)
  BY DEF SchemasLoaded
<1> QED  BY <1>1, <1>2, <1>3, <1>4, <1>5 DEF At

LEMMA FilteredKeeps ==
  ASSUME NEW ds
  PROVE  /\ DOMAIN filterNonBreaking(ds) \subseteq DOMAIN ds
         /\ \A v \in DOMAIN filterNonBreaking(ds) :
              "info" \in DOMAIN ds[v] => filterNonBreaking(ds)[v].info = ds[v].info
BY DEF filterNonBreaking, Filtered

IsDiffs(ds) == \A v \in DOMAIN ds : DOMAIN ds[v] = {"info", "endpoint"}

LEMMA schemaDiffIs ==
  ASSUME NEW base, NEW revision
  PROVE  /\ DOMAIN schemaDiff(base, revision) = {"info", "endpoint"}
         /\ schemaDiff(base, revision).info =
              IF base.version = revision.version THEN Nil ELSE base.version
         /\ schemaDiff(base, revision).endpoint = Diff(base.schema, revision.schema)
BY DEF schemaDiff

LEMMA SelfDiffIs ==
  ASSUME Scalars, SameVersions, SelfMode,
         NEW w \in DOMAIN RawDiff
  PROVE  \E v \in VersionsOf(input.base) :
            /\ w \in VersionsOf(input.base) /\ v # w
            /\ Precedes(input.base, v, w)
            /\ RawDiff[w] = schemaDiff(crds.base[IndexOf(crds.base, v)],
                                       crds.base[IndexOf(crds.base, w)])
<1>1. IsCRD(crds.base) /\ VersionsOf(crds.base) = VersionsOf(input.base)
  BY InputIsOfCRDs, VersionsKept DEF Scalars, SameVersions
<1>2. RawDiff = SelfDiff(crds.base)
  BY DEF RawDiff
<1>3. PICK v \in VersionsOf(crds.base) :
         w \in VersionsOf(crds.base) /\ Precedes(crds.base, v, w)
  BY <1>1, <1>2, SelfDiffCompares
<1>4. RawDiff[w] = schemaDiff(crds.base[IndexOf(crds.base, v)],
                              crds.base[IndexOf(crds.base, w)])
  BY <1>1, <1>2, <1>3, SelfDiffCompares
<1>5. v # w
  BY <1>1, <1>3, CRDShape, BeforeIsTotalOrder DEF Precedes
<1>6. Precedes(input.base, v, w)
  BY <1>1, <1>3 DEF Precedes
<1> QED  BY <1>1, <1>3, <1>4, <1>5, <1>6

LEMMA RawDiffType ==
  ASSUME Scalars, SameVersions, Comparable
  PROVE  /\ DOMAIN RawDiff \subseteq VersionsOf(input.base) /\ IsDiffs(RawDiff)
         /\ \A v \in DOMAIN RawDiff :
              RawDiff[v].info \in IF SelfMode THEN VersionsOf(input.base) \ {v} ELSE {Nil}
<1>0. "base" \in DOMAIN input
  BY InputIsOfCRDs DEF Scalars
<1>1. CASE SelfMode
  <2> SUFFICES ASSUME NEW w \in DOMAIN RawDiff
               PROVE  /\ w \in VersionsOf(input.base)
                      /\ DOMAIN RawDiff[w] = {"info", "endpoint"}
                      /\ RawDiff[w].info \in VersionsOf(input.base) \ {w}
    BY <1>1 DEF IsDiffs
  <2>1. PICK v \in VersionsOf(input.base) :
            /\ w \in VersionsOf(input.base) /\ v # w
            /\ RawDiff[w] = schemaDiff(crds.base[IndexOf(crds.base, v)],
                                       crds.base[IndexOf(crds.base, w)])
    BY <1>1, SelfDiffIs
  <2>2. /\ crds.base[IndexOf(crds.base, v)].version = v
        /\ crds.base[IndexOf(crds.base, w)].version = w
    BY <1>0, <2>1, AtLoaded
  <2> QED  BY <2>1, <2>2, schemaDiffIs
<1>2. CASE ~SelfMode
  <2> SUFFICES ASSUME NEW v \in DOMAIN RawDiff
               PROVE  /\ v \in VersionsOf(input.base)
                      /\ DOMAIN RawDiff[v] = {"info", "endpoint"}
                      /\ RawDiff[v].info = Nil
    BY <1>2 DEF IsDiffs
  <2>1. RawDiff = [u \in VersionsOf(crds.base) |->
                     schemaDiff(crds.base[IndexOf(crds.base, u)],
                                crds.revision[IndexOf(crds.base, u)])]
    BY <1>2 DEF RawDiff, RevisionDiff
  <2>2. v \in VersionsOf(input.base) /\ v \in VersionsOf(crds.base)
    BY <1>0, <2>1, VersionsKept
  <2>3. /\ IndexOf(crds.base, v) \in DOMAIN crds.base
        /\ Corresponding(crds.base, crds.revision)
    BY <1>0, <1>2, <2>2, AtLoaded DEF Comparable, SameVersions
  <2>4. crds.base[IndexOf(crds.base, v)].version
          = crds.revision[IndexOf(crds.base, v)].version
    BY <2>3 DEF Corresponding
  <2> QED  BY <2>1, <2>2, <2>4, schemaDiffIs
<1> QED  BY <1>1, <1>2

-----------------------------------------------------------------------------
(* The raw diff is that of the pairs of schemas of the input.              *)

(* With the flag, only a CRD of upjet gets past loading. *)
LoadedOfUpjet ==
    pc \in {"diff", "report", "exit"} /\ upjet =>
        \A i \in DOMAIN Manifests(input) : Injectable(Manifests(input)[i].schema)

LEMMA ManifestsAre ==
  ASSUME NEW cs, Scalars, DOMAIN cs = DOMAIN input, \A c \in DOMAIN input : IsCRD(cs[c]),
         NEW c \in DOMAIN input, NEW i \in DOMAIN cs[c]
  PROVE  \E k \in DOMAIN Manifests(cs) : Manifests(cs)[k] = cs[c][i]
<1>1. "base" \in DOMAIN input /\ (c = "base" \/ (c = "revision" /\ ~SelfMode))
  BY InputsAssumption DEF Scalars, SelfMode
<1>2. PICK m \in Nat : DOMAIN cs.base = 1..m /\ m = Len(cs.base)
                       /\ cs.base \in Seq({cs.base[j] : j \in DOMAIN cs.base})
  BY <1>1, CRDShape DEF IsCRD
<1>3. CASE SelfMode
  <2>1. Manifests(cs) = cs.base /\ c = "base"
    BY <1>1, <1>2, <1>3 DEF Manifests
  <2> QED  BY <2>1
<1>4. CASE ~SelfMode
  <2>1. "revision" \in DOMAIN input
    BY <1>4, InputIsOfCRDs DEF Scalars
  <2>2. PICK n \in Nat : DOMAIN cs.revision = 1..n /\ n = Len(cs.revision)
                         /\ cs.revision \in Seq({cs.revision[j] : j \in DOMAIN cs.revision})
    BY <2>1, CRDShape DEF IsCRD
  <2> DEFINE all == cs.base \o cs.revision
  <2>3. /\ DOMAIN all = 1..(m + n)
        /\ \A j \in 1..m : all[j] = cs.base[j]
        /\ \A j \in 1..n : all[m + j] = cs.revision[j]
    <3>1. PICK A : cs.base \in Seq(A)
      BY <1>2
    <3>2. PICK B : cs.revision \in Seq(B)
      BY <2>2
    <3>3. cs.base \in Seq(A \cup B) /\ cs.revision \in Seq(A \cup B)
      BY <3>1, <3>2
    <3>4. \A s, t \in Seq(A \cup B) :
             /\ DOMAIN (s \o t) = 1..(Len(s) + Len(t))
             /\ \A j \in 1..Len(s) : (s \o t)[j] = s[j]
             /\ \A j \in 1..Len(t) : (s \o t)[Len(s) + j] = t[j]
      OBVIOUS
    <3> QED  BY <1>2, <2>2, <3>3, <3>4
  <2>4. Manifests(cs) = all
    BY <1>4 DEF Manifests
  <2> HIDE DEF all
  <2>5. CASE c = "base"
    BY <1>2, <2>3, <2>4, <2>5
  <2>6. CASE c = "revision"
    <3>1. i \in 1..n /\ m + i \in 1..(m + n)
      BY <2>2, <2>6
    <3> QED  BY <2>3, <2>4, <2>6, <3>1
  <2> QED  BY <1>1, <2>5, <2>6
<1> QED  BY <1>3, <1>4

LEMMA EffectiveSchemas ==
  ASSUME Scalars, SameVersions, SchemasLoaded, LoadedOfUpjet, Documented,
         pc \in {"diff", "report", "exit"},
         NEW c \in DOMAIN input, NEW v \in VersionsOf(input[c])
  PROVE  Effective(At(input[c], v)) \in Schemas
<1> DEFINE i == IndexOf(input[c], v)
           schema == input[c][i].schema
<1>1. i \in DOMAIN input[c] /\ At(input[c], v) = schema
  BY AtLoaded DEF At
<1> HIDE DEF i
<1>2. schema \in Schemas \cup {Nil} /\ (Injectable(schema) => inject(schema) \in Schemas)
  BY <1>1, InputSchemasAssumption DEF Scalars
<1>3. /\ crds[c][i].schema = Effective(schema)
      /\ DOMAIN crds = DOMAIN input /\ i \in DOMAIN crds[c]
      /\ \A d \in DOMAIN input : IsCRD(crds[d]) /\ IsCRD(input[d])
  BY <1>1, InputIsOfCRDs DEF SchemasLoaded, SameVersions, Scalars
<1>4. Effective(schema) # Nil
  BY <1>3, ManifestsAre DEF Documented
<1>5. CASE ~upjet
  BY <1>1, <1>2, <1>4, <1>5, EffectiveIs
<1>6. CASE upjet
  <2>1. Injectable(schema)
    BY <1>1, <1>3, <1>6, ManifestsAre DEF LoadedOfUpjet
  <2> QED  BY <1>1, <1>2, <1>6, <2>1, EffectiveIs
<1> QED  BY <1>5, <1>6

(* v is the version whose diff is that of the pair. *)
IsDiffOf(v, pair) ==
    /\ pair[1] \in Schemas /\ pair[2] \in Schemas
    /\ RawDiff[v].endpoint = Diff(pair[1], pair[2])
    /\ RawDiff[v].info # Nil <=> SelfMode

LEMMA RawPairs ==
  ASSUME Scalars, SameVersions, SchemasLoaded, LoadedOfUpjet, Comparable,
         pc \in {"diff", "report", "exit"}
  PROVE  /\ \A v \in DOMAIN RawDiff : \E pair \in Pairs : IsDiffOf(v, pair)
         /\ \A pair \in Pairs : \E v \in DOMAIN RawDiff : IsDiffOf(v, pair)
<1>1. Documented /\ "base" \in DOMAIN input
  BY InputIsOfCRDs DEF Comparable, Scalars
<1>2. IsCRD(crds.base) /\ VersionsOf(crds.base) = VersionsOf(input.base)
  BY <1>1, VersionsKept DEF SameVersions
<1>3. CASE SelfMode
  <2> DEFINE pairOf(v, w) == <<Effective(At(input.base, v)), Effective(At(input.base, w))>>
  <2>1. \A v \in DOMAIN RawDiff : RawDiff[v].info # Nil
    <3>1. \A v \in VersionsOf(crds.base) : v \in Names
      BY <1>2 DEF IsCRD, VersionsOf
    <3>2. \A v \in Names : v # Nil
      <4>1. \A v \in Names : "major" \in DOMAIN v
        BY DEF Names
      <4> QED  BY <4>1 DEF Nil
    <3> QED  BY <1>2, <1>3, <3>1, <3>2, RawDiffType
  <2>2. \A pair : pair \in Pairs <=>
          \E v, w \in VersionsOf(input.base) :
             Precedes(input.base, v, w) /\ pair = pairOf(v, w)
    <3> DEFINE next == {vw \in VersionsOf(input.base) \X VersionsOf(input.base) :
                          Precedes(input.base, vw[1], vw[2])}
               schemas == {<<At(input.base, vw[1]), At(input.base, vw[2])>> : vw \in next}
    <3>1. Pairs = {<<Effective(p[1]), Effective(p[2])>> : p \in schemas}
      BY <1>3 DEF Pairs
    <3>2. ASSUME NEW pair \in Pairs
          PROVE  \E v, w \in VersionsOf(input.base) :
                    Precedes(input.base, v, w) /\ pair = pairOf(v, w)
      <4>1. PICK p \in schemas : pair = <<Effective(p[1]), Effective(p[2])>>
        BY <3>1
      <4>2. PICK vw \in next : p = <<At(input.base, vw[1]), At(input.base, vw[2])>>
        OBVIOUS
      <4>3. p[1] = At(input.base, vw[1]) /\ p[2] = At(input.base, vw[2])
        BY <4>2
      <4> QED  BY <4>1, <4>3
    <3>3. ASSUME NEW v \in VersionsOf(input.base), NEW w \in VersionsOf(input.base),
                 Precedes(input.base, v, w)
          PROVE  pairOf(v, w) \in Pairs
      <4> DEFINE p == <<At(input.base, v), At(input.base, w)>>
      <4>1. <<v, w>> \in next /\ <<v, w>>[1] = v /\ <<v, w>>[2] = w
        BY <3>3
      <4>2. p \in schemas /\ p[1] = At(input.base, v) /\ p[2] = At(input.base, w)
        BY <4>1
      <4>3. <<Effective(p[1]), Effective(p[2])>> \in Pairs
        BY <3>1, <4>2
      <4> QED  BY <4>2, <4>3
    <3> QED  BY <3>2, <3>3
  <2>3. ASSUME NEW v \in VersionsOf(input.base), NEW w \in VersionsOf(input.base),
               Precedes(input.base, v, w)
        PROVE  w \in DOMAIN RawDiff /\ IsDiffOf(w, pairOf(v, w))
    <3>1. Precedes(crds.base, v, w)
      BY <1>2, <2>3 DEF Precedes
    <3>2. /\ w \in DOMAIN RawDiff
          /\ RawDiff[w] = schemaDiff(crds.base[IndexOf(crds.base, v)],
                                     crds.base[IndexOf(crds.base, w)])
      BY <1>2, <1>3, <3>1, SelfDiffCompares DEF RawDiff
    <3>3. /\ crds.base[IndexOf(crds.base, v)].schema = Effective(At(input.base, v))
          /\ crds.base[IndexOf(crds.base, w)].schema = Effective(At(input.base, w))
      BY <1>1, AtLoaded
    <3>4. Effective(At(input.base, v)) \in Schemas /\ Effective(At(input.base, w)) \in Schemas
      BY <1>1, EffectiveSchemas
    <3> QED  BY <1>3, <2>1, <3>2, <3>3, <3>4, schemaDiffIs DEF IsDiffOf
  <2>4. \A w \in DOMAIN RawDiff :
          \E v \in VersionsOf(input.base) :
             w \in VersionsOf(input.base) /\ Precedes(input.base, v, w)
    BY <1>3, SelfDiffIs
  <2> HIDE DEF pairOf
  <2> QED  BY <2>2, <2>3, <2>4
<1>4. CASE ~SelfMode
  <2> DEFINE pairOf(v) == <<Effective(At(input.base, v)), Effective(At(input.revision, v))>>
  <2>1. "revision" \in DOMAIN input
    BY <1>4, InputIsOfCRDs DEF Scalars
  <2>2. /\ DOMAIN RawDiff = VersionsOf(input.base)
        /\ \A v \in VersionsOf(input.base) :
             RawDiff[v] = schemaDiff(crds.base[IndexOf(crds.base, v)],
                                     crds.revision[IndexOf(crds.base, v)])
    BY <1>2, <1>4 DEF RawDiff, RevisionDiff
  <2>3. \A pair : pair \in Pairs <=> \E v \in VersionsOf(input.base) : pair = pairOf(v)
    <3> DEFINE schemas == {<<At(input.base, v), At(input.revision, v)>> :
                              v \in VersionsOf(input.base)}
    <3>1. Pairs = {<<Effective(p[1]), Effective(p[2])>> : p \in schemas}
      BY <1>4 DEF Pairs
    <3>2. ASSUME NEW pair \in Pairs
          PROVE  \E v \in VersionsOf(input.base) : pair = pairOf(v)
      <4>1. PICK p \in schemas : pair = <<Effective(p[1]), Effective(p[2])>>
        BY <3>1
      <4>2. PICK v \in VersionsOf(input.base) : p = <<At(input.base, v), At(input.revision, v)>>
        OBVIOUS
      <4>3. p[1] = At(input.base, v) /\ p[2] = At(input.revision, v)
        BY <4>2
      <4> QED  BY <4>1, <4>3
    <3>3. ASSUME NEW v \in VersionsOf(input.base) PROVE pairOf(v) \in Pairs
      <4> DEFINE p == <<At(input.base, v), At(input.revision, v)>>
      <4>1. p \in schemas /\ p[1] = At(input.base, v) /\ p[2] = At(input.revision, v)
        OBVIOUS
      <4>2. <<Effective(p[1]), Effective(p[2])>> \in Pairs
        BY <3>1, <4>1
      <4> QED  BY <4>1, <4>2
    <3> QED  BY <3>2, <3>3
  <2>4. ASSUME NEW v \in VersionsOf(input.base) PROVE IsDiffOf(v, pairOf(v))
    <3> DEFINE i == IndexOf(crds.base, v)
    <3>1. /\ i \in DOMAIN crds.base /\ crds.base[i].version = v
          /\ crds.base[i].schema = Effective(At(input.base, v))
      BY <1>1, AtLoaded DEF SameVersions
    <3>2. i \in DOMAIN crds.revision /\ crds.revision[i].version = v
      BY <1>4, <3>1 DEF Comparable, Corresponding
    <3>3. v \in VersionsOf(crds.revision) /\ IsCRD(crds.revision)
      BY <2>1, <3>2 DEF VersionsOf, SameVersions
    <3>4. v \in VersionsOf(input.revision) /\ IndexOf(crds.revision, v) = i
      BY <2>1, <3>2, <3>3, VersionsKept, IndexOfVersion
    <3>5. crds.revision[i].schema = Effective(At(input.revision, v))
      BY <2>1, <3>4, AtLoaded
    <3>6. /\ Effective(At(input.base, v)) \in Schemas
          /\ Effective(At(input.revision, v)) \in Schemas
      BY <1>1, <2>1, <3>4, EffectiveSchemas
    <3> HIDE DEF i
    <3>7. RawDiff[v] = schemaDiff(crds.base[i], crds.revision[i])
      BY <2>2 DEF i
    <3> QED  BY <1>4, <3>1, <3>2, <3>5, <3>6, <3>7, schemaDiffIs DEF IsDiffOf
  <2> HIDE DEF pairOf
  <2> QED  BY <2>2, <2>3, <2>4
<1> QED  BY <1>3, <1>4

-----------------------------------------------------------------------------
(* What is left of the raw diff, and the exit codes that follow from it.   *)

(* The command has loaded what it can compare. *)
InComparison ==
    /\ Scalars /\ SameVersions /\ SchemasLoaded /\ LoadedOfUpjet
    /\ Comparable /\ pc \in {"diff", "report", "exit"}

LEMMA FilteredDiff ==
  ASSUME InComparison, NEW v \in DOMAIN RawDiff, NEW pair, IsDiffOf(v, pair)
  PROVE  LET ds == filterNonBreaking(RawDiff)
             left == Filter(pair[1], pair[2])
         IN  /\ v \in DOMAIN ds <=> RawDiff[v].endpoint = Nil \/ left # NoChange
             /\ v \in DOMAIN ds => /\ ds[v] = Filtered(RawDiff[v])
                                   /\ ds[v].endpoint = left /\ ds[v].info = RawDiff[v].info
             /\ left = Nil <=> RawDiff[v].endpoint = Nil
<1> DEFINE ds == filterNonBreaking(RawDiff)
           left == Filter(pair[1], pair[2])
<1>1. /\ RawDiff[v].endpoint = Diff(pair[1], pair[2]) /\ pair[1] \in Schemas /\ pair[2] \in Schemas
      /\ DOMAIN RawDiff[v] = {"info", "endpoint"}
  BY RawDiffType DEF IsDiffOf, IsDiffs, InComparison
<1>2. Filtered(RawDiff[v]).endpoint = left /\ Filtered(RawDiff[v]).info = RawDiff[v].info
  BY <1>1 DEF Filtered, Filter
<1>3. v \in DOMAIN ds <=> RawDiff[v].endpoint = Nil \/ left # NoChange
  BY <1>2 DEF filterNonBreaking, Kept, IsEmpty
<1>4. v \in DOMAIN ds => ds[v] = Filtered(RawDiff[v])
  BY DEF filterNonBreaking
<1>5. left = Nil <=> RawDiff[v].endpoint = Nil
  BY <1>1, NilFilter, FilterNotNil DEF Filter
<1> HIDE DEF left, ds
<1> QED  BY <1>2, <1>3, <1>4, <1>5 DEF left, ds

LEMMA DiffersExactly ==
  ASSUME InComparison, NEW v \in DOMAIN RawDiff, NEW pair, IsDiffOf(v, pair)
  PROVE  v \in Differing(filterNonBreaking(RawDiff)) <=>
           ~(Extends(pair[1], pair[2]) /\ (SelfMode => pair[1] # pair[2]))
<1> DEFINE ds == filterNonBreaking(RawDiff)
           left == Filter(pair[1], pair[2])
<1>1. /\ RawDiff[v].endpoint = Diff(pair[1], pair[2]) /\ pair[1] \in Schemas /\ pair[2] \in Schemas
      /\ RawDiff[v].info # Nil <=> SelfMode
  BY DEF IsDiffOf
<1>2. /\ v \in DOMAIN ds <=> RawDiff[v].endpoint = Nil \/ left # NoChange
      /\ v \in DOMAIN ds => ds[v].endpoint = left /\ ds[v].info = RawDiff[v].info
      /\ left = Nil <=> RawDiff[v].endpoint = Nil
  BY FilteredDiff
<1>3. Extends(pair[1], pair[2]) <=> RawDiff[v].endpoint = Nil \/ left = NoChange
  BY <1>1, ClaimsHold DEF Claims, ExtendsExactly
<1>4. RawDiff[v].endpoint = Nil <=> pair[1] = pair[2]
  BY <1>1, DiffsAreExact
<1> HIDE DEF ds, left
<1>5. v \in Differing(ds) <=>
        \/ RawDiff[v].endpoint = Nil /\ RawDiff[v].info # Nil
        \/ RawDiff[v].endpoint # Nil /\ left # NoChange
  BY <1>2 DEF Differing, Unchanged
<1> QED  BY <1>1, <1>3, <1>4, <1>5 DEF ds

LEMMA TextOfRawDiff ==
  ASSUME InComparison
  PROVE  Differing(filterNonBreaking(RawDiff)) = {} <=>
           \A pair \in Pairs : Extends(pair[1], pair[2]) /\ (SelfMode => pair[1] # pair[2])
<1>1. /\ \A v \in DOMAIN RawDiff : \E pair \in Pairs : IsDiffOf(v, pair)
      /\ \A pair \in Pairs : \E v \in DOMAIN RawDiff : IsDiffOf(v, pair)
  BY RawPairs DEF InComparison
<1>2. Differing(filterNonBreaking(RawDiff)) \subseteq DOMAIN RawDiff
  BY DEF Differing, filterNonBreaking
<1> QED  BY <1>1, <1>2, DiffersExactly

(* What is not reported of all changes, or panics, is no breaking change.  *)
LEMMA BreakingIsReported ==
  ASSUME InComparison
  PROVE  /\ Differing(filterNonBreaking(RawDiff)) \subseteq Differing(RawDiff)
         /\ \A v \in Differing(ForReport(RawDiff)) :
              ForReport(RawDiff)[v].endpoint = Nil =>
                v \in Differing(filterNonBreaking(RawDiff))
<1> DEFINE ds == filterNonBreaking(RawDiff)
<1>1. \A v \in DOMAIN RawDiff : \E pair \in Pairs : IsDiffOf(v, pair)
  BY RawPairs DEF InComparison
<1>2. ASSUME NEW v \in DOMAIN ds
      PROVE  /\ v \in DOMAIN RawDiff /\ ds[v].info = RawDiff[v].info
             /\ ds[v].endpoint = Nil <=> RawDiff[v].endpoint = Nil
  <2>1. v \in DOMAIN RawDiff
    BY DEF filterNonBreaking
  <2>2. PICK pair \in Pairs : IsDiffOf(v, pair)
    BY <1>1, <2>1
  <2> QED  BY <2>1, <2>2, FilteredDiff
<1>3. \A v \in DOMAIN RawDiff : RawDiff[v].endpoint = Nil => v \in DOMAIN ds
  BY DEF filterNonBreaking, Kept
<1> HIDE DEF ds
<1>4. Differing(ds) \subseteq Differing(RawDiff)
  BY <1>2 DEF Differing, Unchanged
<1>5. \A v \in Differing(RawDiff) : RawDiff[v].endpoint = Nil => v \in Differing(ds)
  BY <1>2, <1>3 DEF Differing, Unchanged
<1>6. ForReport(RawDiff) = RawDiff \/ ForReport(RawDiff) = ds
  BY DEF ForReport, ds
<1> QED  BY <1>4, <1>5, <1>6 DEF ds

LEMMA ChangesOfRawDiff ==
  ASSUME InComparison
  PROVE  Changes(filterNonBreaking(RawDiff)) # {} <=>
           \E pair \in Pairs : FieldsBreak(pair[1], pair[2])
<1> DEFINE ds == filterNonBreaking(RawDiff)
           walked(v) == v \in DOMAIN ds /\ ds[v].endpoint # Nil
                        /\ walkSchemaDiff(ds[v].endpoint) # {}
<1>1. Changes(ds) # {} <=> \E v \in DOMAIN ds : walked(v)
  <2> HIDE DEF ds
  <2> DEFINE part(v) == {<<v, c>> : c \in walkSchemaDiff(ds[v].endpoint)}
  <2>1. \A v : part(v) = {} <=> walkSchemaDiff(ds[v].endpoint) = {}
    OBVIOUS
  <2>2. Changes(ds) = UNION {part(v) : v \in {v \in DOMAIN ds : ds[v].endpoint # Nil}}
    BY DEF Changes
  <2> HIDE DEF part
  <2> QED  BY <2>1, <2>2
<1>2. /\ \A v \in DOMAIN RawDiff : \E pair \in Pairs : IsDiffOf(v, pair)
      /\ \A pair \in Pairs : \E v \in DOMAIN RawDiff : IsDiffOf(v, pair)
  BY RawPairs DEF InComparison
<1>3. ASSUME NEW v \in DOMAIN RawDiff, NEW pair, IsDiffOf(v, pair)
      PROVE  walked(v) <=> FieldsBreak(pair[1], pair[2])
  <2> DEFINE left == Filter(pair[1], pair[2])
  <2>1. /\ RawDiff[v].endpoint = Diff(pair[1], pair[2])
        /\ pair[1] \in Schemas /\ pair[2] \in Schemas
    BY <1>3 DEF IsDiffOf
  <2>2. /\ v \in DOMAIN ds <=> RawDiff[v].endpoint = Nil \/ left # NoChange
        /\ v \in DOMAIN ds => ds[v].endpoint = left
        /\ left = Nil <=> RawDiff[v].endpoint = Nil
    BY <1>3, FilteredDiff
  <2>3. FieldsBreak(pair[1], pair[2]) <=>
          RawDiff[v].endpoint # Nil /\ walkSchemaDiff(left) # {}
    BY <2>1, ClaimsHold DEF Claims, BreaksExactly
  <2>4. left \in FilteredDiffsOf(Schemas)
    BY <2>1 DEF Filter, FilteredDiffsOf, DiffsOf
  <2>5. walkSchemaDiff(left) # {} => left # NoChange
    BY <2>4, WalkNoChange
  <2> HIDE DEF ds, left
  <2> QED  BY <2>2, <2>3, <2>5
<1>4. DOMAIN ds \subseteq DOMAIN RawDiff
  BY DEF filterNonBreaking
<1> HIDE DEF ds
<1>5. \A v \in DOMAIN RawDiff : walked(v) => v \in DOMAIN ds
  OBVIOUS
<1> HIDE DEF walked
<1>6. Changes(ds) # {} <=> \E v \in DOMAIN RawDiff : walked(v)
  BY <1>1, <1>4, <1>5
<1> QED  BY <1>2, <1>3, <1>6 DEF ds

LEMMA FilteredAgain ==
  ASSUME InComparison
  PROVE  filterNonBreaking(filterNonBreaking(RawDiff)) = filterNonBreaking(RawDiff)
<1> DEFINE ds == filterNonBreaking(RawDiff)
<1>1. \A v \in DOMAIN RawDiff : \E pair \in Pairs : IsDiffOf(v, pair)
  BY RawPairs DEF InComparison
<1>2. ASSUME NEW v \in DOMAIN ds PROVE Kept(ds[v]) /\ Filtered(ds[v]) = ds[v]
  <2>1. v \in DOMAIN RawDiff
    BY DEF filterNonBreaking
  <2>2. PICK pair \in Pairs : IsDiffOf(v, pair)
    BY <1>1, <2>1
  <2> DEFINE left == Filter(pair[1], pair[2])
  <2>3. /\ RawDiff[v].endpoint = Nil \/ left # NoChange
        /\ ds[v] = Filtered(RawDiff[v]) /\ ds[v].endpoint = left
        /\ left = Nil <=> RawDiff[v].endpoint = Nil
        /\ RawDiff[v].endpoint = Diff(pair[1], pair[2])
        /\ pair[1] \in Schemas /\ pair[2] \in Schemas
    BY <2>1, <2>2, FilteredDiff DEF IsDiffOf
  <2>4. DOMAIN RawDiff[v] = {"info", "endpoint"}
    BY <2>1, RawDiffType DEF IsDiffs, InComparison
  <2>5. DOMAIN ds[v] = {"info", "endpoint"} /\ ds[v] = [a \in DOMAIN ds[v] |-> ds[v][a]]
    BY <2>3, <2>4 DEF Filtered
  <2>6. ignoreOptionalNewProperties(left) = left
    BY <2>3, ClaimsHold, NilFilter DEF Claims, Idempotent
  <2> HIDE DEF ds, left
  <2>7. Filtered(ds[v]) = ds[v]
    BY <2>3, <2>5, <2>6 DEF Filtered
  <2> QED  BY <2>3, <2>7 DEF Kept, IsEmpty
<1>3. ds = [v \in DOMAIN ds |-> ds[v]]
  BY DEF filterNonBreaking
<1> HIDE DEF ds
<1>4. {v \in DOMAIN ds : Kept(ds[v])} = DOMAIN ds
  BY <1>2
<1>5. filterNonBreaking(ds) = [v \in DOMAIN ds |-> Filtered(ds[v])]
  BY <1>4 DEF filterNonBreaking
<1> QED  BY <1>2, <1>3, <1>5 DEF ds

(* The raw diff is in the map until it is reported, and the report is of it; *)
(* what is left in the map after it is what the exit code is derived from.   *)
RawDiffKept ==
    /\ pc \in {"report", "exit"} => Comparable
    /\ pc = "report" => diffs = RawDiff
    /\ pc = "exit" => diffs = ForReport(RawDiff)
    /\ pc = "exit" => report = IF format = "text" THEN Differing(ForReport(RawDiff))
                              ELSE Changes(ForReport(RawDiff))

(* The properties of the end of the command. *)
EndsRight == TextVerdict /\ StructuredVerdict

IInv == /\ Scalars /\ SameVersions /\ SchemasLoaded /\ LoadedOfUpjet
        /\ IsDiffs(diffs) /\ DiffsType
        /\ RawDiffKept /\ EndsRight

(* What the pairs that are compared have to do with each other. *)
LEMMA PairsRelated ==
  ASSUME InComparison
  PROVE  \A pair \in Pairs : Related(pair[1], pair[2])
<1>1. \A pair \in Pairs : \E v \in DOMAIN RawDiff : IsDiffOf(v, pair)
  BY RawPairs DEF InComparison
<1> QED  BY <1>1, RelationsConsistent DEF IsDiffOf

LEMMA NotEnded == ~Exits => EndsRight
BY DEF EndsRight, TextVerdict, StructuredVerdict

LEMMA IInvInit == Init => IInv
<1> SUFFICES ASSUME Init PROVE IInv
  OBVIOUS
<1> USE DEF Init
<1>1. Scalars
  BY DEF Scalars
<1>2. SameVersions
  BY <1>1, InputIsOfCRDs DEF SameVersions, Scalars
<1>3. IsDiffs(diffs) /\ DiffsType
  BY DEF IsDiffs, DiffsType
<1>4. EndsRight
  BY NotEnded DEF Exits
<1> QED  BY <1>1, <1>2, <1>3, <1>4 DEF IInv, SchemasLoaded, LoadedOfUpjet, RawDiffKept

LEMMA FilterKeepsDiffs ==
  ASSUME IsDiffs(diffs), DiffsType, UNCHANGED flags,
         diffs' = filterNonBreaking(diffs) \/ diffs' = diffs
  PROVE  IsDiffs(diffs)' /\ DiffsType'
<1>1. CASE diffs' = filterNonBreaking(diffs)
  <2>1. \A v \in DOMAIN diffs' : /\ v \in DOMAIN diffs
                                 /\ DOMAIN diffs'[v] = {"info", "endpoint"}
                                 /\ diffs'[v].info = diffs[v].info
    BY <1>1 DEF filterNonBreaking, Filtered, IsDiffs
  <2> QED  BY <2>1 DEF IsDiffs, DiffsType, flags, SelfMode
<1>2. CASE diffs' = diffs
  BY <1>2 DEF IsDiffs, DiffsType, flags, SelfMode
<1> QED  BY <1>1, <1>2

(* What is derived from the CRDs and the flags stays as they do. *)
LEMMA SameComparison ==
  ASSUME UNCHANGED <<flags, crds>>
  PROVE  /\ RawDiff' = RawDiff /\ ForReport(RawDiff)' = ForReport(RawDiff)
         /\ Comparable' = Comparable /\ Documented' = Documented
         /\ Pairs' = Pairs /\ SelfMode' = SelfMode
         /\ SameVersions' = SameVersions
<1> USE DEF flags
<1>1. SelfMode' = SelfMode
  BY DEF SelfMode
<1>2. RawDiff' = RawDiff
  BY <1>1 DEF RawDiff
<1>3. Documented' = Documented
  BY <1>1 DEF Documented, Manifests
<1>4. Comparable' = Comparable
  BY <1>1, <1>3 DEF Comparable
<1>5. \A schema : Effective(schema)' = Effective(schema)
  BY DEF Effective
<1>6. Pairs' = Pairs
  BY <1>1 DEF Pairs, Effective
<1> QED  BY <1>1, <1>2, <1>3, <1>4, <1>6 DEF ForReport, SameVersions

(* Load leaves the other variables of the comparison as they are. *)
LEMMA LoadedStays ==
  ASSUME SchemasLoaded, LoadedOfUpjet, UNCHANGED <<flags, crds>>,
         pc \in {"diff", "report", "exit"} \/ pc' = "done", pc' # "load"
  PROVE  SchemasLoaded' /\ LoadedOfUpjet'
<1> USE DEF flags
<1>1. \A schema : Effective(schema)' = Effective(schema)
  BY DEF Effective
<1>2. SchemasLoaded'
  BY <1>1 DEF SchemasLoaded, Effective
<1>3. LoadedOfUpjet'
  BY DEF LoadedOfUpjet, Manifests, SelfMode
<1> QED  BY <1>2, <1>3

LEMMA IInvStep == IInv /\ [Next]_vars => IInv'
<1> SUFFICES ASSUME IInv, [Next]_vars PROVE IInv'
  OBVIOUS
<1>0. /\ Scalars /\ SameVersions /\ SchemasLoaded /\ LoadedOfUpjet
      /\ IsDiffs(diffs) /\ DiffsType /\ RawDiffKept /\ EndsRight
      /\ "base" \in DOMAIN input /\ \A c \in DOMAIN input : IsCRD(input[c])
  BY InputIsOfCRDs DEF IInv, Scalars
<1> USE DEF flags
<1>1. ASSUME UNCHANGED <<flags, diffs>> PROVE IsDiffs(diffs)' /\ DiffsType'
  BY <1>0, <1>1 DEF IsDiffs, DiffsType, SelfMode
<1>2. ASSUME pc' # "done" PROVE EndsRight'
  <2>1. ~Exits'
    BY <1>2 DEF Exits
  <2> QED  BY <2>1, NotEnded, PTL
<1>3. CASE Load
  <2> USE <1>3 DEF Load
  <2>1. Scalars'
    BY <1>0 DEF Scalars
  <2>2. \A c \in DOMAIN input : \A i \in DOMAIN input[c] :
           /\ IsCRD(crds'[c]) /\ DOMAIN crds'[c] = DOMAIN input[c]
           /\ crds'[c][i].version = input[c][i].version
           /\ crds'[c][i].schema = Effective(input[c][i].schema)
    BY <1>0, LoadedKeepsVersions, EffectiveIs
  <2>3. \A c \in DOMAIN input : \E i \in DOMAIN input[c] : TRUE
    <3>1. \A c \in DOMAIN input : 1 \in DOMAIN input[c]
      BY <1>0, CRDShape
    <3> QED  BY <3>1
  <2>4. DOMAIN crds' = DOMAIN input
    BY <1>0
  <2>5. SameVersions'
    BY <2>2, <2>3, <2>4 DEF SameVersions
  <2>6. SchemasLoaded'
    BY <2>2 DEF SchemasLoaded, Effective
  <2>7. LoadedOfUpjet'
    BY DEF LoadedOfUpjet, Rejected, Manifests, SelfMode
  <2> QED  BY <1>1, <1>2, <2>1, <2>5, <2>6, <2>7 DEF IInv, RawDiffKept
<1>4. CASE LoadFails
  <2> USE <1>4 DEF LoadFails
  <2>1. Scalars'
    BY <1>0 DEF Scalars
  <2>2. ~Exits'
    <3>1. crds = input
      BY <1>0 DEF SchemasLoaded
    <3>2. code' # "fatal" => \E i \in DOMAIN Manifests(crds) : Manifests(crds)[i].schema = Nil
      BY <3>1
    <3> QED  BY <3>2, SameComparison DEF Documented, Exits
  <2>3. EndsRight'
    BY <2>2, NotEnded, PTL
  <2> QED  BY <1>0, <1>1, <2>1, <2>3, SameComparison, LoadedStays DEF IInv, RawDiffKept
<1>5. CASE GetRawDiff
  <2> USE <1>5 DEF GetRawDiff
  <2>1. Scalars'
    BY <1>0 DEF Scalars
  <2>2. IsDiffs(diffs)' /\ DiffsType'
    BY <1>0, RawDiffType DEF IsDiffs, DiffsType, SelfMode
  <2> QED  BY <1>0, <1>2, <2>1, <2>2, SameComparison, LoadedStays DEF IInv, RawDiffKept
<1>6. CASE NotComparable
  <2> USE <1>6 DEF NotComparable
  <2>1. Scalars'
    BY <1>0 DEF Scalars
  <2>2. EndsRight'
    <3>1. ~Exits'
      BY DEF Exits
    <3> QED  BY <3>1, NotEnded, PTL
  <2> QED  BY <1>0, <1>1, <2>1, <2>2, SameComparison, LoadedStays DEF IInv, RawDiffKept
<1>7. CASE ReportText \/ ReportStructured
  <2> USE <1>7 DEF ReportText, ReportStructured
  <2>1. Scalars'
    BY <1>0 DEF Scalars
  <2>2. IsDiffs(diffs)' /\ DiffsType'
    BY <1>0, FilterKeepsDiffs DEF ForReport
  <2>3. diffs' = ForReport(RawDiff)
    BY <1>0 DEF RawDiffKept
  <2>4. RawDiffKept'
    BY <1>0, <2>3, SameComparison DEF RawDiffKept
  <2> QED  BY <1>0, <1>2, <2>1, <2>2, <2>4, SameComparison, LoadedStays DEF IInv
<1>8. CASE PanicText
  <2> USE <1>8 DEF PanicText
  <2>1. Scalars'
    BY <1>0 DEF Scalars
  <2>2. IsDiffs(diffs)' /\ DiffsType'
    BY <1>0, FilterKeepsDiffs DEF ForReport
  <2>3. InComparison /\ diffs' = ForReport(RawDiff)
    BY <1>0 DEF InComparison, RawDiffKept
  <2>4. ~\A pair \in Pairs : Extends(pair[1], pair[2]) /\ (SelfMode => pair[1] # pair[2])
    BY <2>3, BreakingIsReported, TextOfRawDiff
  <2>5. EndsRight'
    BY <2>4, SameComparison DEF EndsRight, TextVerdict, StructuredVerdict
  <2> QED  BY <1>0, <2>1, <2>2, <2>5, SameComparison, LoadedStays DEF IInv, RawDiffKept
<1>9. CASE ExitText
  <2> USE <1>9 DEF ExitText
  <2>1. Scalars'
    BY <1>0 DEF Scalars
  <2>2. InComparison /\ report = Differing(ForReport(RawDiff))
    BY <1>0 DEF InComparison, RawDiffKept
  <2>3. code' = "0" <=> Differing(filterNonBreaking(RawDiff)) = {}
    BY <2>2, BreakingIsReported DEF ForReport
  <2>4. code' = "0" <=> \A pair \in Pairs : Extends(pair[1], pair[2])
                                             /\ (SelfMode => pair[1] # pair[2])
    BY <2>2, <2>3, TextOfRawDiff
  <2>5. EndsRight'
    BY <2>2, <2>4, PairsRelated, SameComparison
       DEF EndsRight, TextVerdict, StructuredVerdict, Related
  <2> QED  BY <1>0, <1>1, <2>1, <2>5, SameComparison, LoadedStays DEF IInv, RawDiffKept
<1>10. CASE ExitStructured
  <2> USE <1>10 DEF ExitStructured
  <2>1. Scalars'
    BY <1>0 DEF Scalars
  <2>2. IsDiffs(diffs)' /\ DiffsType'
    BY <1>0, FilterKeepsDiffs
  <2>3. /\ InComparison /\ diffs = ForReport(RawDiff)
        /\ report = Changes(ForReport(RawDiff))
    BY <1>0 DEF InComparison, RawDiffKept
  <2>4. diffs' = filterNonBreaking(RawDiff)
    BY <2>3, FilteredAgain DEF ForReport
  <2>5. code' = "1" <=> \E pair \in Pairs : FieldsBreak(pair[1], pair[2])
    BY <2>3, <2>4, ChangesOfRawDiff
  <2>6. EndsRight'
    BY <2>3, <2>5, PairsRelated, SameComparison
       DEF EndsRight, TextVerdict, StructuredVerdict, Related
  <2> QED  BY <1>0, <2>1, <2>2, <2>6, SameComparison, LoadedStays DEF IInv, RawDiffKept
<1>11. CASE UNCHANGED vars
  <2> USE <1>11 DEF vars
  <2>1. Scalars' /\ SchemasLoaded' /\ LoadedOfUpjet'
    BY <1>0 DEF Scalars, SchemasLoaded, Effective, LoadedOfUpjet, Manifests, SelfMode
  <2>2. RawDiffKept'
    BY <1>0, SameComparison DEF RawDiffKept
  <2>3. Exits' = Exits
    BY SameComparison DEF Exits
  <2>4. EndsRight'
    BY <1>0, <2>3, SameComparison DEF EndsRight, TextVerdict, StructuredVerdict
  <2> QED  BY <1>0, <1>1, <2>1, <2>2, <2>4, SameComparison DEF IInv
<1> QED  BY <1>3, <1>4, <1>5, <1>6, <1>7, <1>8, <1>9, <1>10, <1>11 DEF Next, Done

LEMMA Invariance == Spec => []IInv
BY IInvInit, IInvStep, PTL DEF Spec

(* The types, of whatever CRDs there are and with whatever flags. *)
THEOREM TypeCorrect == Spec => []TypeOK
<1>1. IInv => TypeOK
  BY VersionsKept DEF IInv, TypeOK, Scalars, SameVersions, DiffsType
<1> QED  BY <1>1, Invariance, PTL

(***************************************************************************)
(* In self mode, the map has for each version but the least the diff from  *)
(* the one right before it, in whatever order the CRD has its versions and *)
(* however many there are (277-315).                                       *)
(***************************************************************************)
THEOREM ComparesConsecutive == Spec => []ConsecutiveCompared
<1>1. ASSUME IInv PROVE ConsecutiveCompared
  <2> SUFFICES ASSUME pc = "report", SelfMode
               PROVE  /\ \A v, w \in VersionsOf(input.base) : Precedes(input.base, v, w) =>
                           /\ w \in DOMAIN diffs
                           /\ diffs[w].info = v
                           /\ diffs[w].endpoint = Diff(Effective(At(input.base, v)),
                                                       Effective(At(input.base, w)))
                      /\ \A w \in DOMAIN diffs : \E v \in VersionsOf(input.base) :
                            Precedes(input.base, v, w)
    BY DEF ConsecutiveCompared
  <2>1. /\ Scalars /\ SameVersions /\ SchemasLoaded /\ diffs = RawDiff
        /\ "base" \in DOMAIN input
    BY <1>1, InputIsOfCRDs DEF IInv, RawDiffKept, Scalars
  <2>2. /\ IsCRD(crds.base) /\ VersionsOf(crds.base) = VersionsOf(input.base)
        /\ diffs = SelfDiff(crds.base)
    BY <2>1, VersionsKept DEF SameVersions, RawDiff
  <2>3. ASSUME NEW v \in VersionsOf(input.base), NEW w \in VersionsOf(input.base),
               Precedes(input.base, v, w)
        PROVE  /\ w \in DOMAIN diffs
               /\ diffs[w].info = v
               /\ diffs[w].endpoint = Diff(Effective(At(input.base, v)),
                                           Effective(At(input.base, w)))
    <3>1. Precedes(crds.base, v, w)
      BY <2>2, <2>3 DEF Precedes
    <3>2. /\ w \in DOMAIN diffs
          /\ diffs[w] = schemaDiff(crds.base[IndexOf(crds.base, v)],
                                   crds.base[IndexOf(crds.base, w)])
      BY <2>2, <3>1, SelfDiffCompares
    <3>3. v # w
      BY <2>2, <3>1, CRDShape, BeforeIsTotalOrder DEF Precedes
    <3>4. /\ crds.base[IndexOf(crds.base, v)].version = v
          /\ crds.base[IndexOf(crds.base, w)].version = w
          /\ crds.base[IndexOf(crds.base, v)].schema = Effective(At(input.base, v))
          /\ crds.base[IndexOf(crds.base, w)].schema = Effective(At(input.base, w))
      BY <2>1, AtLoaded
    <3> QED  BY <3>2, <3>3, <3>4, schemaDiffIs
  <2>4. ASSUME NEW w \in DOMAIN diffs
        PROVE  \E v \in VersionsOf(input.base) : Precedes(input.base, v, w)
    BY <2>1, SelfDiffIs
  <2> QED  BY <2>3, <2>4
<1> QED  BY <1>1, Invariance, PTL

(***************************************************************************)
(* As text, the command exits with 0 if every version or revision only     *)
(* adds optional properties to the one it is compared with (and, of two    *)
(* versions, is not the same), and does not if one does not allow what     *)
(* that one does, whatever the flags, the CRDs and their schemas, at any   *)
(* depth: no breaking change passes (361-448, main.go:94-131).             *)
(***************************************************************************)
THEOREM TextIsRight == Spec => []TextVerdict
<1>1. IInv => TextVerdict
  BY DEF IInv, EndsRight
<1> QED  BY <1>1, Invariance, PTL

(***************************************************************************)
(* As JSON or YAML, it exits with 1 if a field breaks and with 0 if every  *)
(* schema allows what the one it is compared with does, although the map   *)
(* of the diffs has been filtered in place for the report before it is     *)
(* filtered for the exit code (161-190, main.go:133-178).                  *)
(***************************************************************************)
THEOREM StructuredIsRight == Spec => []StructuredVerdict
<1>1. IInv => StructuredVerdict
  BY DEF IInv, EndsRight
<1> QED  BY <1>1, Invariance, PTL
=============================================================================
