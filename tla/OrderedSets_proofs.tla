------------------------- MODULE OrderedSets_proofs -------------------------
(***************************************************************************)
(* InOrder is what its name says, for every finite set and every strict    *)
(* order of its elements: it lists each element once, the earlier first,   *)
(* and nothing else does.                                                  *)
(***************************************************************************)
EXTENDS OrderedSets, TLAPS, FiniteSetTheorems, SequenceTheorems, WellFoundedInduction

IsOrder(S, less) ==
    /\ \A x \in S : <<x, x>> \notin less
    /\ \A x, y \in S : x # y => <<x, y>> \in less \/ <<y, x>> \in less
    /\ \A x, y, z \in S : <<x, y>> \in less /\ <<y, z>> \in less => <<x, z>> \in less

(* The number of elements before x, by which x finds its place.            *)
Rank(S, less, x) == Cardinality(Below(S, less, x))

(* s lists S from the first to the last.                                   *)
Lists(s, S, less) ==
    /\ s \in Seq(S)
    /\ \A x \in S : \E i \in 1 .. Len(s) : s[i] = x
    /\ \A i, j \in 1 .. Len(s) : i < j => <<s[i], s[j]>> \in less

(* Every order is one of each set's subsets.                               *)
LEMMA OrderOfSubset ==
  ASSUME NEW S, NEW less, IsOrder(S, less), NEW T \in SUBSET S
  PROVE  IsOrder(T, less)
BY DEF IsOrder

LEMMA SmallerOrders ==
  ASSUME NEW S \in SUBSET Nat
  PROVE  IsOrder(S, Smaller)
BY DEF IsOrder, Smaller

LEMMA EarlierOrders ==
  ASSUME NEW S \in SUBSET (Nat \X Nat)
  PROVE  IsOrder(S, Earlier)
<1>1. \A x \in S : <<x, x>> \notin Earlier
  BY DEF Earlier
<1>2. ASSUME NEW x \in S, NEW y \in S, x # y
      PROVE  <<x, y>> \in Earlier \/ <<y, x>> \in Earlier
  <2>1. /\ x[1] \in Nat /\ x[2] \in Nat /\ x = <<x[1], x[2]>>
        /\ y[1] \in Nat /\ y[2] \in Nat /\ y = <<y[1], y[2]>>
    OBVIOUS
  <2>2. x[1] # y[1] \/ x[2] # y[2]
    BY <1>2, <2>1
  <2>3. x \in Nat \X Nat /\ y \in Nat \X Nat
    OBVIOUS
  <2> QED
    BY <2>1, <2>2, <2>3 DEF Earlier
<1>3. ASSUME NEW x \in S, NEW y \in S, NEW z \in S,
             <<x, y>> \in Earlier, <<y, z>> \in Earlier
      PROVE  <<x, z>> \in Earlier
  <2>1. x \in Nat \X Nat /\ y \in Nat \X Nat /\ z \in Nat \X Nat
    OBVIOUS
  <2> QED
    BY <1>3, <2>1 DEF Earlier
<1> QED
  BY <1>1, <1>2, <1>3 DEF IsOrder

LEMMA RankType ==
  ASSUME NEW S, IsFiniteSet(S), NEW less, IsOrder(S, less), NEW x \in S
  PROVE  Rank(S, less, x) \in 0 .. Cardinality(S) - 1
<1>1. Below(S, less, x) \in SUBSET (S \ {x})
  BY DEF Below, IsOrder
<1>2. IsFiniteSet(S \ {x}) /\ Cardinality(S \ {x}) = Cardinality(S) - 1
  BY FS_RemoveElement
<1>3. /\ IsFiniteSet(Below(S, less, x))
      /\ Cardinality(Below(S, less, x)) <= Cardinality(S) - 1
  BY <1>1, <1>2, FS_Subset
<1>4. Cardinality(Below(S, less, x)) \in Nat /\ Cardinality(S) \in Nat
  BY <1>3, FS_CardinalityType
<1> QED
  BY <1>3, <1>4 DEF Rank

(* What comes earlier has the smaller rank.                                *)
LEMMA RankGrows ==
  ASSUME NEW S, IsFiniteSet(S), NEW less, IsOrder(S, less),
         NEW x \in S, NEW y \in S, <<x, y>> \in less
  PROVE  Rank(S, less, x) < Rank(S, less, y)
<1>1. Below(S, less, x) \in SUBSET Below(S, less, y)
  BY DEF Below, IsOrder
<1>2. x \in Below(S, less, y) /\ x \notin Below(S, less, x)
  BY DEF Below, IsOrder
<1>3. IsFiniteSet(Below(S, less, y))
  BY FS_Subset DEF Below
<1>4. Rank(S, less, x) <= Rank(S, less, y) /\ Rank(S, less, x) # Rank(S, less, y)
  BY <1>1, <1>2, <1>3, FS_Subset DEF Rank
<1> QED
  BY <1>4, RankType

LEMMA RankInjective ==
  ASSUME NEW S, IsFiniteSet(S), NEW less, IsOrder(S, less),
         NEW x \in S, NEW y \in S, Rank(S, less, x) = Rank(S, less, y)
  PROVE  x = y
<1>1. Rank(S, less, x) \in Nat /\ Rank(S, less, y) \in Nat
  BY RankType
<1>2. ~ (Rank(S, less, x) < Rank(S, less, y)) /\ ~ (Rank(S, less, y) < Rank(S, less, x))
  BY <1>1
<1> QED
  BY <1>2, RankGrows DEF IsOrder

(* Every place has an element: the ranks are as many as the elements.      *)
LEMMA RankOnto ==
  ASSUME NEW S, IsFiniteSet(S), NEW less, IsOrder(S, less),
         NEW n \in 1 .. Cardinality(S)
  PROVE  \E x \in S : Rank(S, less, x) = n - 1
<1> DEFINE N == Cardinality(S)
           f == [x \in S |-> Rank(S, less, x) + 1]
<1>1. N \in Nat
  BY FS_CardinalityType
<1>2. ASSUME NEW x \in S PROVE f[x] \in 1 .. N
  BY <1>1, RankType
<1>3. f \in [S -> 1 .. N]
  BY <1>2
<1>4. ASSUME NEW x \in S, NEW y \in S, f[x] = f[y] PROVE x = y
  <2>1. Rank(S, less, x) \in Nat /\ Rank(S, less, y) \in Nat
    BY RankType
  <2> QED
    BY <1>4, <2>1, RankInjective
<1>5. f \in Injection(S, 1 .. N)
  BY <1>3, <1>4 DEF Injection, IsInjective
<1>6. IsFiniteSet(1 .. N) /\ Cardinality(1 .. N) = N
  BY <1>1, FS_Interval
<1>7. f \in Surjection(S, 1 .. N)
  BY <1>5, <1>6, FS_Injection
<1>8. PICK x \in S : f[x] = n
  BY <1>7 DEF Surjection
<1> QED
  BY <1>8, RankType

(* InOrder lists its set, and the place of x is its rank and one.          *)
LEMMA InOrderPlaces ==
  ASSUME NEW S, IsFiniteSet(S), NEW less, IsOrder(S, less)
  PROVE  /\ InOrder(S, less) \in Seq(S)
         /\ Len(InOrder(S, less)) = Cardinality(S)
         /\ \A n \in 1 .. Cardinality(S) : Rank(S, less, InOrder(S, less)[n]) = n - 1
         /\ \A x \in S : /\ Rank(S, less, x) + 1 \in 1 .. Cardinality(S)
                         /\ InOrder(S, less)[Rank(S, less, x) + 1] = x
<1> DEFINE N == Cardinality(S)
           s == InOrder(S, less)
<1>1. N \in Nat
  BY FS_CardinalityType
<1>2. DOMAIN s = 1 .. N
  BY DEF InOrder
<1>3. ASSUME NEW n \in 1 .. N
      PROVE  s[n] \in S /\ Rank(S, less, s[n]) = n - 1
  <2>1. s[n] = CHOOSE x \in S : Rank(S, less, x) = n - 1
    BY DEF InOrder, Rank
  <2>2. \E x \in S : Rank(S, less, x) = n - 1
    BY RankOnto
  <2> HIDE DEF s
  <2> QED
    BY <2>1, <2>2
<1>4. s \in [1 .. N -> S]
  BY <1>2, <1>3 DEF InOrder
<1>5. s \in Seq(S)
  BY <1>1, <1>4, SeqDef
<1>6. Len(s) = N
  BY <1>1, <1>2, <1>5, LenProperties
<1>7. ASSUME NEW x \in S
      PROVE  Rank(S, less, x) + 1 \in 1 .. N /\ s[Rank(S, less, x) + 1] = x
  <2>1. Rank(S, less, x) \in 0 .. N - 1
    BY RankType
  <2>2. Rank(S, less, x) + 1 \in 1 .. N
    BY <1>1, <2>1
  <2>3. /\ s[Rank(S, less, x) + 1] \in S
        /\ Rank(S, less, s[Rank(S, less, x) + 1]) = Rank(S, less, x)
    BY <1>3, <2>1, <2>2
  <2> HIDE DEF s
  <2> QED
    BY <2>2, <2>3, RankInjective
<1> QED
  BY <1>3, <1>5, <1>6, <1>7

LEMMA InOrderLists ==
  ASSUME NEW S, IsFiniteSet(S), NEW less, IsOrder(S, less)
  PROVE  /\ Lists(InOrder(S, less), S, less)
         /\ Len(InOrder(S, less)) = Cardinality(S)
<1> DEFINE s == InOrder(S, less)
<1>1. /\ s \in Seq(S) /\ Len(s) = Cardinality(S)
      /\ \A n \in 1 .. Cardinality(S) : Rank(S, less, s[n]) = n - 1
      /\ \A x \in S : Rank(S, less, x) + 1 \in 1 .. Cardinality(S)
                      /\ s[Rank(S, less, x) + 1] = x
  BY InOrderPlaces
<1> HIDE DEF s
<1>2. ASSUME NEW i \in 1 .. Len(s), NEW j \in 1 .. Len(s), i < j
      PROVE  <<s[i], s[j]>> \in less
  <2>1. s[i] \in S /\ s[j] \in S
    BY <1>1, ElementOfSeq
  <2>2. Rank(S, less, s[i]) = i - 1 /\ Rank(S, less, s[j]) = j - 1
    BY <1>1
  <2>3. s[i] # s[j] /\ ~ (Rank(S, less, s[j]) < Rank(S, less, s[i]))
    BY <1>2, <2>2
  <2> QED
    BY <2>1, <2>3, RankGrows DEF IsOrder
<1>3. \A x \in S : \E i \in 1 .. Len(s) : s[i] = x
  BY <1>1
<1> QED
  BY <1>1, <1>2, <1>3 DEF Lists, s

(* A list of S has as many elements, and each at its place.                *)
LEMMA ListsOnce ==
  ASSUME NEW S, IsFiniteSet(S), NEW less, IsOrder(S, less),
         NEW s, Lists(s, S, less)
  PROVE  s = InOrder(S, less)
<1> DEFINE N == Cardinality(S)
           o == InOrder(S, less)
<1>1. /\ s \in Seq(S) /\ Len(s) \in Nat /\ s \in [1 .. Len(s) -> S]
  BY LenProperties DEF Lists
<1>2. ASSUME NEW i \in 1 .. Len(s)
      PROVE  Rank(S, less, s[i]) = i - 1
  <2> DEFINE B == Below(S, less, s[i])
             g == [j \in 1 .. i - 1 |-> s[j]]
  <2>1. ASSUME NEW j \in 1 .. i - 1 PROVE s[j] \in B
    BY <1>1 DEF Below, Lists
  <2>2. ASSUME NEW x \in B PROVE \E j \in 1 .. i - 1 : s[j] = x
    <3>1. x \in S /\ <<x, s[i]>> \in less
      BY DEF Below
    <3>2. PICK j \in 1 .. Len(s) : s[j] = x
      BY <3>1 DEF Lists
    <3>3. ~ (i < j)
      <4> SUFFICES ASSUME i < j PROVE FALSE
        OBVIOUS
      <4>1. <<s[i], s[j]>> \in less /\ s[i] \in S /\ s[j] \in S
        BY <1>1 DEF Lists
      <4> QED
        BY <3>1, <3>2, <4>1 DEF IsOrder
    <3>4. i # j
      BY <1>1, <3>1, <3>2 DEF IsOrder
    <3> QED
      BY <1>1, <3>2, <3>3, <3>4
  <2>3. g \in Surjection(1 .. i - 1, B)
    BY <2>1, <2>2 DEF Surjection
  <2>4. ASSUME NEW j \in 1 .. i - 1, NEW k \in 1 .. i - 1, j # k PROVE s[j] # s[k]
    <3>1. \A m, n \in 1 .. Len(s) : m < n => s[m] # s[n]
      BY <1>1 DEF Lists, IsOrder
    <3> QED
      BY <1>1, <2>4, <3>1
  <2>5. g \in Injection(1 .. i - 1, B)
    <3>1. g \in [1 .. i - 1 -> B]
      BY <2>1
    <3>2. ASSUME NEW j \in 1 .. i - 1, NEW k \in 1 .. i - 1, g[j] = g[k] PROVE j = k
      BY <2>4, <3>2
    <3> HIDE DEF g, B
    <3>3. DOMAIN g = 1 .. i - 1
      BY <3>1
    <3> QED
      BY <3>1, <3>2, <3>3 DEF Injection, IsInjective
  <2>6. IsFiniteSet(1 .. i - 1) /\ Cardinality(1 .. i - 1) = i - 1
    <3>1. 1 \in Int /\ i - 1 \in Int /\ i - 1 >= 0
      BY <1>1
    <3>2. IsFiniteSet(1 .. i - 1)
          /\ Cardinality(1 .. i - 1) = IF 1 > i - 1 THEN 0 ELSE (i - 1) - 1 + 1
      BY <3>1, FS_Interval
    <3> QED
      BY <3>1, <3>2
  <2> HIDE DEF g, B
  <2>7. Cardinality(B) = i - 1
    BY <2>3, <2>5, <2>6, FS_Surjection
  <2> QED
    BY <2>7 DEF B, Rank
<1>3. /\ o \in Seq(S) /\ Len(o) = N /\ N \in Nat
      /\ \A x \in S : Rank(S, less, x) + 1 \in 1 .. N /\ o[Rank(S, less, x) + 1] = x
      /\ \A n \in 1 .. N : Rank(S, less, o[n]) = n - 1
  BY InOrderPlaces, FS_CardinalityType
<1> HIDE DEF o, N
<1>4. \A i \in 1 .. Len(s) : i \in 1 .. N /\ o[i] = s[i]
  BY <1>1, <1>2, <1>3
<1>5. \A n \in 1 .. N : n \in 1 .. Len(s)
  <2> SUFFICES ASSUME NEW n \in 1 .. N PROVE n \in 1 .. Len(s)
    OBVIOUS
  <2>1. o[n] \in S
    BY <1>3, ElementOfSeq
  <2>2. PICK i \in 1 .. Len(s) : s[i] = o[n]
    BY <2>1 DEF Lists
  <2>3. Rank(S, less, s[i]) = i - 1 /\ Rank(S, less, s[i]) = n - 1
    BY <1>2, <1>3, <2>2
  <2>4. i = n
    BY <1>1, <1>3, <2>3
  <2> QED
    BY <2>2, <2>4
<1>6. Len(s) = Len(o)
  <2>1. Len(s) \in Nat /\ N \in Nat /\ Len(o) = N
    BY <1>1, <1>3
  <2>2. Len(s) = 0 \/ Len(s) <= N
    BY <1>4, <2>1
  <2>3. N = 0 \/ N <= Len(s)
    BY <1>5, <2>1
  <2> QED
    BY <2>1, <2>2, <2>3
<1> QED
  BY <1>1, <1>3, <1>4, <1>6, SeqEqual DEF o

(* An element that comes after all others goes to the end.                 *)
LEMMA InOrderAppend ==
  ASSUME NEW S, IsFiniteSet(S), NEW x, NEW less, IsOrder(S \cup {x}, less),
         x \notin S, \A y \in S : <<y, x>> \in less
  PROVE  InOrder(S \cup {x}, less) = Append(InOrder(S, less), x)
<1> DEFINE o == InOrder(S, less)
           T == S \cup {x}
           s == Append(o, x)
<1>1. IsFiniteSet(T) /\ IsOrder(S, less) /\ IsOrder(T, less)
  BY FS_AddElement, OrderOfSubset
<1>2. Lists(o, S, less)
  BY <1>1, InOrderLists
<1>3. o \in Seq(T) /\ o \in Seq(S) /\ Len(o) \in Nat
  BY <1>2, SeqMonotonic, LenProperties DEF Lists
<1> HIDE DEF o
<1>4. /\ s \in Seq(T) /\ Len(s) = Len(o) + 1
      /\ \A i \in 1 .. Len(o) : s[i] = o[i]
      /\ s[Len(o) + 1] = x
  BY <1>3, AppendProperties
<1>5. \A y \in T : \E i \in 1 .. Len(s) : s[i] = y
  BY <1>2, <1>3, <1>4 DEF Lists
<1>6. ASSUME NEW i \in 1 .. Len(s), NEW j \in 1 .. Len(s), i < j
      PROVE  <<s[i], s[j]>> \in less
  <2>1. i \in 1 .. Len(o) /\ s[i] = o[i] /\ o[i] \in S
    BY <1>3, <1>4, <1>6, ElementOfSeq
  <2>2. CASE j \in 1 .. Len(o)
    BY <1>2, <1>4, <1>6, <2>1, <2>2 DEF Lists
  <2>3. CASE j = Len(o) + 1
    BY <1>4, <2>1, <2>3
  <2> QED
    BY <1>3, <1>4, <2>2, <2>3
<1>7. Lists(s, T, less)
  BY <1>4, <1>5, <1>6 DEF Lists
<1> HIDE DEF s, T
<1>8. s = InOrder(T, less)
  BY <1>1, <1>7, ListsOnce
<1> QED
  BY <1>8 DEF s, T, o

LEMMA InOrderEmpty ==
  ASSUME NEW less
  PROVE  InOrder({}, less) = <<>>
BY FS_EmptySet DEF InOrder
-----------------------------------------------------------------------------
(* What stands for induction: a set of numbers has a least one.            *)
LEMMA LeastNumber ==
  ASSUME NEW T \in SUBSET Nat, T # {}
  PROVE  \E n \in T : \A m \in T : n <= m
<1>1. IsWellFoundedOn(OpToRel(<, Nat), Nat)
  BY NatLessThanWellFounded
<1>2. \E n \in T : \A m \in T : <<m, n>> \notin OpToRel(<, Nat)
  BY <1>1, WFMin
<1>3. \E n \in T : \A m \in T : ~ (m < n)
  BY <1>2 DEF OpToRel
<1> QED
  BY <1>3

LEMMA SequenceRange ==
  ASSUME NEW T, NEW s \in Seq(T)
  PROVE  Range(s) \in SUBSET T /\ IsFiniteSet(Range(s))
<1>1. Len(s) \in Nat /\ DOMAIN s = 1 .. Len(s) /\ s \in [1 .. Len(s) -> T]
  BY LenProperties
<1>2. s \in Surjection(1 .. Len(s), Range(s))
  BY <1>1 DEF Surjection, Range
<1>3. IsFiniteSet(1 .. Len(s))
  BY <1>1, FS_Interval
<1> QED
  BY <1>1, <1>2, <1>3, FS_Surjection DEF Range

(* A set in order as a sequence of its elements.                           *)
LEMMA InOrderRange ==
  ASSUME NEW T, NEW S \in SUBSET T, IsFiniteSet(S), NEW less, IsOrder(S, less)
  PROVE  /\ InOrder(S, less) \in Seq(T)
         /\ Range(InOrder(S, less)) = S
<1> DEFINE o == InOrder(S, less)
<1>1. Lists(o, S, less)
  BY InOrderLists
<1> HIDE DEF o
<1>2. o \in Seq(S) /\ DOMAIN o = 1 .. Len(o) /\ \A i \in 1 .. Len(o) : o[i] \in S
  BY <1>1, LenProperties DEF Lists
<1>3. o \in Seq(T) /\ Range(o) = S
  BY <1>1, <1>2, SeqMonotonic DEF Range, Lists
<1> QED
  BY <1>3 DEF o

(* The values of s, each once.                                             *)
LEMMA WithoutRepeatsOnce ==
  ASSUME NEW T, NEW s \in Seq(T)
  PROVE  /\ WithoutRepeats(s) \in Seq(T)
         /\ Range(WithoutRepeats(s)) = Range(s)
         /\ \A m, n \in DOMAIN WithoutRepeats(s) :
              WithoutRepeats(s)[m] = WithoutRepeats(s)[n] => m = n
<1> DEFINE F == {i \in DOMAIN s : \A j \in 1 .. i - 1 : s[j] # s[i]}
           o == InOrder(F, Smaller)
           w == WithoutRepeats(s)
<1>1. Len(s) \in Nat /\ DOMAIN s = 1 .. Len(s) /\ \A i \in 1 .. Len(s) : s[i] \in T
  BY LenProperties
<1>2. F \in SUBSET (1 .. Len(s)) /\ F \in SUBSET Nat
  BY <1>1
<1>3. IsFiniteSet(F)
  <2>1. 1 \in Int /\ Len(s) \in Int
    BY <1>1
  <2>2. IsFiniteSet(1 .. Len(s))
    BY <2>1, FS_Interval
  <2> HIDE DEF F
  <2> QED
    BY <1>2, <2>2, FS_Subset
<1>4. Lists(o, F, Smaller) /\ o \in Seq(F)
  <2> HIDE DEF F
  <2>1. IsOrder(F, Smaller)
    BY <1>2, SmallerOrders
  <2>2. Lists(o, F, Smaller)
    BY <1>3, <2>1, InOrderLists
  <2> QED
    BY <2>2 DEF Lists
<1>5. w = [n \in DOMAIN o |-> s[o[n]]]
  BY DEF WithoutRepeats, Picked
<1>6. ASSUME NEW i \in 1 .. Len(s) PROVE \E k \in F : s[k] = s[i]
  <2> DEFINE E == {k \in 1 .. Len(s) : s[k] = s[i]}
  <2>1. PICK k \in E : \A m \in E : k <= m
    <3>1. i \in E /\ E \in SUBSET Nat
      BY <1>1
    <3> HIDE DEF E
    <3> QED
      BY <3>1, LeastNumber
  <2>2. \A j \in 1 .. k - 1 : s[j] # s[k]
    BY <1>1, <2>1
  <2> QED
    BY <1>1, <2>1, <2>2
<1>7. \A i, j \in F : s[i] = s[j] => i = j
  BY <1>1
<1>8. Len(o) \in Nat /\ DOMAIN o = 1 .. Len(o) /\ \A n \in 1 .. Len(o) : o[n] \in F
  BY <1>4, LenProperties
<1>9. \A i \in F : i \in 1 .. Len(s)
  BY <1>2
<1> HIDE DEF o, w, F
<1>10. w \in [1 .. Len(o) -> T]
  BY <1>1, <1>5, <1>8, <1>9
<1>11. w \in Seq(T) /\ DOMAIN w = 1 .. Len(o)
  BY <1>8, <1>10, SeqDef
<1>12. Range(w) = Range(s)
  <2>1. \A n \in 1 .. Len(o) : w[n] \in Range(s)
    BY <1>1, <1>5, <1>8, <1>9 DEF Range
  <2>2. ASSUME NEW i \in 1 .. Len(s) PROVE \E n \in 1 .. Len(o) : w[n] = s[i]
    <3>1. PICK k \in F : s[k] = s[i]
      BY <1>6
    <3>2. PICK n \in 1 .. Len(o) : o[n] = k
      BY <1>4 DEF Lists
    <3> QED
      BY <1>5, <1>8, <3>1, <3>2
  <2> QED
    BY <1>1, <1>11, <2>1, <2>2 DEF Range
<1>13. ASSUME NEW m \in DOMAIN w, NEW n \in DOMAIN w, w[m] = w[n] PROVE m = n
  <2>1. o[m] = o[n]
    BY <1>5, <1>7, <1>8, <1>11, <1>13
  <2>2. ~ (m < n) /\ ~ (n < m)
    <3>1. \A i, j \in 1 .. Len(o) : i < j => <<o[i], o[j]>> \in Smaller
      BY <1>4 DEF Lists
    <3>2. \A i, j \in 1 .. Len(o) : i < j => o[i] # o[j]
      <4>1. \A p \in Smaller : p[1] # p[2]
        BY DEF Smaller
      <4> QED
        BY <3>1, <4>1
    <3> QED
      BY <1>11, <2>1, <3>2
  <2> QED
    BY <1>8, <1>11, <2>2
<1> QED
  BY <1>11, <1>12, <1>13 DEF w

-----------------------------------------------------------------------------
(* What Picked takes from a sequence.                                      *)
LEMMA PlacesList ==
  ASSUME NEW P \in SUBSET Nat, IsFiniteSet(P)
  PROVE  /\ Lists(InOrder(P, Smaller), P, Smaller)
         /\ InOrder(P, Smaller) \in Seq(P)
         /\ Len(InOrder(P, Smaller)) = Cardinality(P)
         /\ Len(InOrder(P, Smaller)) \in Nat
         /\ DOMAIN InOrder(P, Smaller) = 1 .. Len(InOrder(P, Smaller))
         /\ \A n \in 1 .. Len(InOrder(P, Smaller)) : InOrder(P, Smaller)[n] \in P
<1>1. IsOrder(P, Smaller)
  BY SmallerOrders
<1>2. /\ Lists(InOrder(P, Smaller), P, Smaller)
      /\ Len(InOrder(P, Smaller)) = Cardinality(P)
  BY <1>1, InOrderLists
<1> DEFINE o == InOrder(P, Smaller)
<1>3. Lists(o, P, Smaller) /\ Len(o) = Cardinality(P)
  BY <1>2
<1> HIDE DEF o
<1>4. o \in Seq(P)
  BY <1>3 DEF Lists
<1>5. Len(o) \in Nat /\ DOMAIN o = 1 .. Len(o) /\ \A n \in 1 .. Len(o) : o[n] \in P
  BY <1>4, LenProperties
<1> QED
  BY <1>3, <1>4, <1>5 DEF o

LEMMA PickedType ==
  ASSUME NEW T, NEW s, NEW P \in SUBSET Nat, IsFiniteSet(P),
         \A i \in P : s[i] \in T
  PROVE  /\ Picked(s, P) \in Seq(T)
         /\ Len(Picked(s, P)) = Cardinality(P)
         /\ DOMAIN Picked(s, P) = 1 .. Cardinality(P)
         /\ \A n \in 1 .. Cardinality(P) :
              Picked(s, P)[n] = s[InOrder(P, Smaller)[n]]
<1> DEFINE o == InOrder(P, Smaller)
           w == Picked(s, P)
<1>1. /\ Len(o) = Cardinality(P) /\ Len(o) \in Nat /\ DOMAIN o = 1 .. Len(o)
      /\ \A n \in 1 .. Len(o) : o[n] \in P
  BY PlacesList
<1>2. w = [n \in DOMAIN o |-> s[o[n]]]
  BY DEF Picked
<1> HIDE DEF o, w
<1>3. w \in [1 .. Len(o) -> T]
  BY <1>1, <1>2
<1>4. w \in Seq(T) /\ Len(w) = Len(o)
  BY <1>1, <1>3, SeqDef, LenProperties
<1>5. DOMAIN w = 1 .. Len(o) /\ \A n \in 1 .. Len(o) : w[n] = s[o[n]]
  BY <1>1, <1>2
<1> QED
  BY <1>1, <1>4, <1>5 DEF o, w

LEMMA PickedAll ==
  ASSUME NEW T, NEW s \in Seq(T)
  PROVE  Picked(s, DOMAIN s) = s
<1> DEFINE N == Len(s)
           all == [i \in 1 .. N |-> i]
<1>1. N \in Nat /\ DOMAIN s = 1 .. N /\ s = [i \in 1 .. N |-> s[i]]
  BY LenProperties
<1>2. IsFiniteSet(1 .. N)
  <2>1. 1 \in Int /\ N \in Int
    BY <1>1
  <2> QED
    BY <2>1, FS_Interval
<1>3. 1 .. N \in SUBSET Nat
  BY <1>1
<1>4. all \in Seq(1 .. N) /\ Len(all) = N
  <2>1. all \in [1 .. N -> 1 .. N]
    OBVIOUS
  <2> HIDE DEF all, N
  <2> QED
    BY <1>1, <2>1, SeqDef, LenProperties
<1>5. Lists(all, 1 .. N, Smaller)
  <2>1. \A x \in 1 .. N : \E i \in 1 .. Len(all) : all[i] = x
    BY <1>4
  <2>2. \A i, j \in 1 .. Len(all) : i < j => <<all[i], all[j]>> \in Smaller
    BY <1>1, <1>3, <1>4 DEF Smaller
  <2> QED
    BY <1>4, <2>1, <2>2 DEF Lists
<1>6. IsOrder(1 .. N, Smaller)
  BY <1>3, SmallerOrders
<1>7. all = InOrder(1 .. N, Smaller)
  <2> HIDE DEF all, N
  <2> QED
    BY <1>2, <1>5, <1>6, ListsOnce
<1>8. Picked(s, 1 .. N) = [n \in DOMAIN all |-> s[all[n]]]
  <2> HIDE DEF all, N
  <2> QED
    BY <1>7 DEF Picked
<1> QED
  BY <1>1, <1>8

(* Picked from an order: the order of what is picked.                      *)
LEMMA PickedOrder ==
  ASSUME NEW S, IsFiniteSet(S), NEW less, IsOrder(S, less), NEW T \in SUBSET S
  PROVE  LET o == InOrder(S, less)
         IN Picked(o, {j \in DOMAIN o : o[j] \in T}) = InOrder(T, less)
<1> DEFINE o == InOrder(S, less)
           J == {j \in DOMAIN o : o[j] \in T}
           a == InOrder(J, Smaller)
           w == Picked(o, J)
<1>1. Lists(o, S, less)
  BY InOrderLists
<1> HIDE DEF o
<1>2. Len(o) \in Nat /\ DOMAIN o = 1 .. Len(o) /\ \A i \in 1 .. Len(o) : o[i] \in S
  BY <1>1, LenProperties DEF Lists
<1>3. J \in SUBSET Nat /\ J \in SUBSET (1 .. Len(o))
  BY <1>2
<1>4. IsFiniteSet(J)
  <2>1. 1 \in Int /\ Len(o) \in Int
    BY <1>2
  <2>2. IsFiniteSet(1 .. Len(o))
    BY <2>1, FS_Interval
  <2> HIDE DEF J
  <2> QED
    BY <1>3, <2>2, FS_Subset
<1>5. \A i \in J : o[i] \in T
  OBVIOUS
<1>6. /\ w \in Seq(T) /\ Len(w) = Cardinality(J) /\ DOMAIN w = 1 .. Cardinality(J)
      /\ \A n \in 1 .. Cardinality(J) : w[n] = o[a[n]]
  <2> HIDE DEF J
  <2>1. /\ Picked(o, J) \in Seq(T) /\ Len(Picked(o, J)) = Cardinality(J)
        /\ DOMAIN Picked(o, J) = 1 .. Cardinality(J)
    BY <1>3, <1>4, <1>5, PickedType
  <2>2. Picked(o, J) = [n \in DOMAIN a |-> o[a[n]]]
    BY DEF Picked
  <2>3. DOMAIN a = 1 .. Cardinality(J)
    BY <1>3, <1>4, PlacesList
  <2> QED
    BY <2>1, <2>2, <2>3
<1>7. /\ Lists(a, J, Smaller) /\ Len(a) = Cardinality(J) /\ Len(a) \in Nat
      /\ \A n \in 1 .. Len(a) : a[n] \in J
  <2> HIDE DEF J
  <2> QED
    BY <1>3, <1>4, PlacesList
<1>8. \A x \in T : \E i \in J : o[i] = x
  BY <1>1, <1>2 DEF Lists
<1> HIDE DEF J, a, w
<1>9. \A x \in T : \E n \in 1 .. Len(w) : w[n] = x
  <2> SUFFICES ASSUME NEW x \in T PROVE \E n \in 1 .. Len(w) : w[n] = x
    OBVIOUS
  <2>1. PICK i \in J : o[i] = x
    BY <1>8
  <2>2. PICK n \in 1 .. Len(a) : a[n] = i
    BY <1>7 DEF Lists
  <2> QED
    BY <1>6, <1>7, <2>1, <2>2
<1>10. \A m, n \in 1 .. Len(w) : m < n => <<w[m], w[n]>> \in less
  <2>1. \A m, n \in 1 .. Len(a) : m < n => a[m] < a[n]
    BY <1>7 DEF Lists, Smaller
  <2>2. \A i, j \in 1 .. Len(o) : i < j => <<o[i], o[j]>> \in less
    BY <1>1 DEF Lists
  <2> SUFFICES ASSUME NEW m \in 1 .. Len(w), NEW n \in 1 .. Len(w), m < n
               PROVE  <<w[m], w[n]>> \in less
    OBVIOUS
  <2>3. m \in 1 .. Len(a) /\ n \in 1 .. Len(a) /\ w[m] = o[a[m]] /\ w[n] = o[a[n]]
    BY <1>6, <1>7
  <2>4. a[m] \in 1 .. Len(o) /\ a[n] \in 1 .. Len(o) /\ a[m] < a[n]
    BY <1>3, <1>7, <2>1, <2>3
  <2> QED
    BY <2>2, <2>3, <2>4
<1>11. Lists(w, T, less)
  BY <1>6, <1>9, <1>10 DEF Lists
<1>12. IsFiniteSet(T) /\ IsOrder(T, less)
  BY FS_Subset, OrderOfSubset
<1>13. w = InOrder(T, less)
  BY <1>11, <1>12, ListsOnce
<1> QED
  BY <1>13 DEF w, J, o

(* The order of a set begins with that of a part before which nothing of   *)
(* the rest comes.                                                         *)
LEMMA InOrderPrefix ==
  ASSUME NEW S, IsFiniteSet(S), NEW less, IsOrder(S, less), NEW T \in SUBSET S,
         \A x \in S, y \in T : <<x, y>> \in less => x \in T
  PROVE  /\ Len(InOrder(T, less)) <= Len(InOrder(S, less))
         /\ \A n \in 1 .. Len(InOrder(T, less)) :
              InOrder(T, less)[n] = InOrder(S, less)[n]
<1>1. IsFiniteSet(T) /\ IsOrder(T, less) /\ Cardinality(T) <= Cardinality(S)
  BY FS_Subset, OrderOfSubset
<1>2. Cardinality(S) \in Nat /\ Cardinality(T) \in Nat
  BY <1>1, FS_CardinalityType
<1>3. /\ Len(InOrder(S, less)) = Cardinality(S)
      /\ \A x \in S : InOrder(S, less)[Rank(S, less, x) + 1] = x
  BY InOrderPlaces
<1>4. /\ Len(InOrder(T, less)) = Cardinality(T) /\ InOrder(T, less) \in Seq(T)
      /\ \A n \in 1 .. Cardinality(T) : Rank(T, less, InOrder(T, less)[n]) = n - 1
  BY <1>1, InOrderPlaces
<1>5. \A n \in 1 .. Cardinality(T) : InOrder(T, less)[n] \in T
  BY <1>4, LenProperties
<1>6. ASSUME NEW y \in T PROVE Rank(T, less, y) = Rank(S, less, y)
  <2>1. Below(T, less, y) = Below(S, less, y)
    BY DEF Below
  <2> QED
    BY <2>1 DEF Rank
<1>7. ASSUME NEW n \in 1 .. Cardinality(T)
      PROVE  InOrder(T, less)[n] = InOrder(S, less)[n]
  <2> DEFINE y == InOrder(T, less)[n]
  <2>1. y \in T /\ y \in S /\ Rank(S, less, y) = n - 1
    BY <1>4, <1>5, <1>6
  <2>2. InOrder(S, less)[Rank(S, less, y) + 1] = y
    BY <1>3, <2>1
  <2>3. Rank(S, less, y) + 1 = n
    BY <1>2, <2>1
  <2> QED
    BY <2>2, <2>3
<1> QED
  BY <1>1, <1>3, <1>4, <1>7
=============================================================================
