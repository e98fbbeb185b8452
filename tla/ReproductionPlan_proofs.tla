----------------------- MODULE ReproductionPlan_proofs -----------------------
(***************************************************************************)
(* Proofs about ReproductionPlan, for every recorded session: which        *)
(* locator is chosen, that the order of arrival does not matter, and that  *)
(* the one pass of buildReproductionPlan comes to the plan that is defined *)
(* of the whole window at once.                                            *)
(***************************************************************************)
EXTENDS Reproductions, FiniteSetTheorems, SequenceTheorems, WellFoundedInduction, TLAPS

-----------------------------------------------------------------------------
\* Numbers

\* Every set of numbers has a least one.
LEMMA LeastNumber ==
  ASSUME NEW I \in SUBSET Nat, I # {}
  PROVE  \E i \in I : \A j \in I : i <= j
<1>1. PICK i \in I : \A j \in I : ~(<<j, i>> \in OpToRel(<, Nat))
  BY NatLessThanWellFounded, WFMin
<1>2. \A j \in I : ~(j < i)
  BY <1>1 DEF OpToRel
<1>3. QED
  BY <1>2

\* A set that holds 0 and with each number the next one, up to n.
LEMMA CountUp ==
  ASSUME NEW n \in Nat, NEW G, 0 \in G,
         \A k \in 1..n : k - 1 \in G => k \in G
  PROVE  \A k \in 0..n : k \in G
<1> DEFINE Bad == {k \in 0..n : k \notin G}
<1>1. SUFFICES ASSUME Bad # {} PROVE FALSE
  OBVIOUS
<1>2. PICK k \in Bad : \A j \in Bad : k <= j
  <2>1. Bad \in SUBSET Nat
    OBVIOUS
  <2> HIDE DEF Bad
  <2>2. QED
    BY <1>1, <2>1, LeastNumber
<1>3. k \in 1..n /\ k - 1 \in 0..n /\ k - 1 \notin Bad
  BY <1>2
<1>4. QED
  BY <1>2, <1>3

-----------------------------------------------------------------------------
\* Orders

\* An order that is strict and total on I.
TotalOn(I, before) ==
  /\ \A i \in I : <<i, i>> \notin before
  /\ \A i, j, k \in I : <<i, j>> \in before /\ <<j, k>> \in before => <<i, k>> \in before
  /\ \A i, j \in I : i # j => <<i, j>> \in before \/ <<j, i>> \in before

Below(I, before, i) == {j \in I : <<j, i>> \in before}
Rank(I, before, i) == Cardinality(Below(I, before, i))

\* What comes first has the smaller rank, and ranks are below the cardinality.
LEMMA Ranks ==
  ASSUME NEW I, IsFiniteSet(I), NEW before, TotalOn(I, before)
  PROVE  /\ Cardinality(I) \in Nat
         /\ \A i \in I : Rank(I, before, i) \in 0..(Cardinality(I) - 1)
         /\ \A i, j \in I : <<i, j>> \in before => Rank(I, before, i) < Rank(I, before, j)
         /\ \A i, j \in I : Rank(I, before, i) = Rank(I, before, j) => i = j
<1> DEFINE B(i) == Below(I, before, i)
           R(i) == Rank(I, before, i)
<1>1. Cardinality(I) \in Nat
  BY FS_CardinalityType
<1>2. ASSUME NEW i \in I
      PROVE  IsFiniteSet(B(i)) /\ R(i) \in Nat /\ R(i) \in 0..(Cardinality(I) - 1)
  <2>1. B(i) \subseteq I \ {i}
    BY DEF Below, TotalOn
  <2>2. IsFiniteSet(I \ {i}) /\ Cardinality(I \ {i}) = Cardinality(I) - 1
    BY FS_RemoveElement
  <2> HIDE DEF B
  <2>3. IsFiniteSet(B(i)) /\ Cardinality(B(i)) <= Cardinality(I) - 1
    BY <2>1, <2>2, FS_Subset
  <2>4. Cardinality(B(i)) \in Nat
    BY <2>3, FS_CardinalityType
  <2>5. QED
    BY <1>1, <2>3, <2>4 DEF Rank, B
<1>3. ASSUME NEW i \in I, NEW j \in I, <<i, j>> \in before
      PROVE  R(i) < R(j)
  <2>1. B(i) \subseteq B(j) /\ i \in B(j) /\ i \notin B(i)
    BY <1>3 DEF Below, TotalOn
  <2>2. IsFiniteSet(B(j)) /\ R(i) \in Nat /\ R(j) \in Nat
    BY <1>2
  <2> HIDE DEF B
  <2>3. Cardinality(B(i)) <= Cardinality(B(j)) /\ Cardinality(B(i)) # Cardinality(B(j))
    BY <2>1, <2>2, FS_Subset
  <2>4. QED
    BY <2>2, <2>3 DEF Rank, B
<1>4. ASSUME NEW i \in I, NEW j \in I, R(i) = R(j), i # j
      PROVE  FALSE
  <2>1. <<i, j>> \in before \/ <<j, i>> \in before
    BY <1>4 DEF TotalOn
  <2>2. R(i) \in Nat /\ R(j) \in Nat
    BY <1>2
  <2> HIDE DEF R
  <2>3. QED
    BY <1>3, <1>4, <2>1, <2>2
<1>5. QED
  BY <1>1, <1>2, <1>3, <1>4

\* Every rank below the cardinality is taken.
LEMMA RankTaken ==
  ASSUME NEW I, IsFiniteSet(I), NEW before, TotalOn(I, before),
         NEW k \in 1..Cardinality(I)
  PROVE  \E i \in I : Rank(I, before, i) = k - 1
<1> DEFINE T == 0..(Cardinality(I) - 1)
           f == [i \in I |-> Rank(I, before, i)]
<1>1. Cardinality(I) \in Nat /\ f \in [I -> T]
  BY Ranks
<1>2. f \in Injection(I, T)
  BY <1>1, Ranks DEF Injection, IsInjective
<1>3. IsFiniteSet(T) /\ Cardinality(T) = Cardinality(I)
  <2>1. 0 \in Int /\ Cardinality(I) - 1 \in Int /\ 0 <= Cardinality(I) - 1
    BY <1>1
  <2>2. QED
    BY <1>1, <2>1, FS_Interval
<1>4. f \in Surjection(I, T)
  <2> HIDE DEF f, T
  <2>1. QED
    BY <1>2, <1>3, FS_Injection
<1>5. k - 1 \in T
  BY <1>1
<1>6. PICK i \in I : f[i] = k - 1
  BY <1>4, <1>5 DEF Surjection
<1>7. QED
  BY <1>6

\* InOrder lists every member once, each at the place that its rank says.
LEMMA InOrderIs ==
  ASSUME NEW I, IsFiniteSet(I), NEW before, TotalOn(I, before)
  PROVE  /\ InOrder(I, before) \in [1..Cardinality(I) -> I]
         /\ \A k \in 1..Cardinality(I) : Rank(I, before, InOrder(I, before)[k]) = k - 1
         /\ \A i \in I : \E k \in 1..Cardinality(I) : InOrder(I, before)[k] = i
         /\ \A k, l \in 1..Cardinality(I) :
              k < l => <<InOrder(I, before)[k], InOrder(I, before)[l]>> \in before
<1> DEFINE o == InOrder(I, before)
           C == Cardinality(I)
<1>1. C \in Nat
  BY Ranks
<1>2. ASSUME NEW k \in 1..C
      PROVE  o[k] \in I /\ Rank(I, before, o[k]) = k - 1
  <2>1. o[k] = CHOOSE i \in I : Rank(I, before, i) = k - 1
    BY DEF InOrder, Rank, Below
  <2>2. QED
    BY <2>1, RankTaken
<1>3. o \in [1..C -> I]
  BY <1>2 DEF InOrder
<1> HIDE DEF o, C
<1>4. ASSUME NEW i \in I
      PROVE  \E k \in 1..C : o[k] = i
  <2>1. Rank(I, before, i) \in 0..(C - 1)
    BY Ranks DEF C
  <2>2. Rank(I, before, i) + 1 \in 1..C
    BY <1>1, <2>1
  <2>3. /\ o[Rank(I, before, i) + 1] \in I
        /\ Rank(I, before, o[Rank(I, before, i) + 1]) = Rank(I, before, i)
    BY <1>2, <2>1, <2>2
  <2>4. o[Rank(I, before, i) + 1] = i
    BY <2>3, Ranks
  <2>5. QED
    BY <2>2, <2>4
<1>5. ASSUME NEW k \in 1..C, NEW l \in 1..C, k < l
      PROVE  <<o[k], o[l]>> \in before
  <2>1. /\ o[k] \in I /\ o[l] \in I
        /\ Rank(I, before, o[k]) = k - 1 /\ Rank(I, before, o[l]) = l - 1
    BY <1>2
  <2>2. o[k] # o[l] /\ ~(l - 1 < k - 1)
    BY <1>1, <1>5, <2>1
  <2>3. \/ <<o[k], o[l]>> \in before \/ <<o[l], o[k]>> \in before
    BY <2>1, <2>2 DEF TotalOn
  <2>4. <<o[l], o[k]>> \in before => l - 1 < k - 1
    BY <2>1, Ranks
  <2>5. QED
    BY <2>2, <2>3, <2>4
<1>6. QED
  BY <1>2, <1>3, <1>4, <1>5 DEF o, C

\* And it is the only list that does.
LEMMA OnlyOrder ==
  ASSUME NEW I, IsFiniteSet(I), NEW before, TotalOn(I, before),
         NEW m \in Nat, NEW f \in [1..m -> I],
         \A i \in I : \E k \in 1..m : f[k] = i,
         \A k, l \in 1..m : k < l => <<f[k], f[l]>> \in before
  PROVE  m = Cardinality(I) /\ f = InOrder(I, before)
<1>1. \A k, l \in 1..m : <<f[k], f[l]>> \in before => k < l
  <2> SUFFICES ASSUME NEW k \in 1..m, NEW l \in 1..m, <<f[k], f[l]>> \in before, ~(k < l)
               PROVE  FALSE
    OBVIOUS
  <2>1. CASE k = l
    BY <2>1 DEF TotalOn
  <2>2. CASE k # l
    <3>1. <<f[l], f[k]>> \in before
      BY <2>2
    <3>2. QED
      BY <3>1 DEF TotalOn
  <2>3. QED
    BY <2>1, <2>2
<1>2. \A k, l \in 1..m : f[k] = f[l] => k = l
  <2> SUFFICES ASSUME NEW k \in 1..m, NEW l \in 1..m, f[k] = f[l], k # l
               PROVE  FALSE
    OBVIOUS
  <2>1. k < l \/ l < k
    OBVIOUS
  <2>2. QED
    BY <2>1 DEF TotalOn
<1>3. m = Cardinality(I)
  <2>1. f \in Bijection(1..m, I)
    BY <1>2 DEF Bijection, Injection, Surjection, IsInjective
  <2>2. ExistsBijection(1..m, I)
    BY <2>1 DEF ExistsBijection
  <2>3. IsFiniteSet(1..m) /\ Cardinality(1..m) = m
    <3>1. 1 \in Int /\ m \in Int /\ (IF 1 > m THEN 0 ELSE m - 1 + 1) = m
      OBVIOUS
    <3>2. QED
      BY <3>1, FS_Interval
  <2>4. QED
    BY <2>2, <2>3, FS_Bijection
<1>4. ASSUME NEW k \in 1..m
      PROVE  Rank(I, before, f[k]) = k - 1
  <2> DEFINE J == 1..(k - 1)
             B == Below(I, before, f[k])
             g == [j \in J |-> f[j]]
  <2>1. J \subseteq 1..m /\ \A j \in J : j < k
    OBVIOUS
  <2>2. g \in [J -> B]
    BY <2>1 DEF Below
  <2>3. \A b \in B : \E j \in J : g[j] = b
    <3> SUFFICES ASSUME NEW b \in B PROVE \E j \in J : g[j] = b
      OBVIOUS
    <3>1. b \in I /\ <<b, f[k]>> \in before
      BY DEF Below
    <3>2. PICK j \in 1..m : f[j] = b
      BY <3>1
    <3>3. j < k
      BY <1>1, <3>1, <3>2
    <3>4. QED
      BY <3>2, <3>3
  <2>4. \A j, l \in J : g[j] = g[l] => j = l
    BY <1>2, <2>1
  <2> HIDE DEF J, B, g
  <2>5. ExistsBijection(J, B)
    BY <2>2, <2>3, <2>4 DEF ExistsBijection, Bijection, Injection, Surjection, IsInjective
  <2>6. IsFiniteSet(J) /\ Cardinality(J) = k - 1
    <3>1. /\ 1 \in Int /\ k - 1 \in Int
          /\ (IF 1 > k - 1 THEN 0 ELSE (k - 1) - 1 + 1) = k - 1
      OBVIOUS
    <3>2. QED
      BY <3>1, FS_Interval DEF J
  <2>7. Cardinality(B) = k - 1
    BY <2>5, <2>6, FS_Bijection
  <2>8. QED
    BY <2>7 DEF Rank, B
<1>5. ASSUME NEW k \in 1..m
      PROVE  f[k] = InOrder(I, before)[k]
  <2>1. /\ InOrder(I, before)[k] \in I
        /\ Rank(I, before, InOrder(I, before)[k]) = k - 1
    BY <1>3, InOrderIs
  <2>2. f[k] \in I /\ Rank(I, before, f[k]) = k - 1
    BY <1>4
  <2>3. QED
    BY <2>1, <2>2, Ranks
<1>6. InOrder(I, before) \in [1..m -> I]
  BY <1>3, InOrderIs
<1>7. f = InOrder(I, before)
  BY <1>5, <1>6
<1>8. QED
  BY <1>3, <1>7

-----------------------------------------------------------------------------
\* Sequences that are picked from others

LEMMA PickIs ==
  ASSUME NEW S, NEW s \in Seq(S), NEW I \in SUBSET DOMAIN s,
         NEW n \in Nat, NEW order \in [1..n -> I]
  PROVE  /\ Pick(s, order) \in Seq(S) /\ Len(Pick(s, order)) = n
         /\ DOMAIN Pick(s, order) = 1..n
         /\ \A k \in 1..n : Pick(s, order)[k] = s[order[k]]
<1> DEFINE t == [k \in DOMAIN order |-> s[order[k]]]
<1>1. DOMAIN order = 1..n /\ \A k \in 1..n : order[k] \in I /\ s[order[k]] \in S
  OBVIOUS
<1>2. t \in Seq(S) /\ Len(t) = n /\ \A k \in 1..n : t[k] = s[order[k]]
  BY <1>1
<1>3. Pick(s, order) = <<>> \o t
  BY DEF Pick
<1> HIDE DEF t
<1>4. Pick(s, order) = t
  BY <1>2, <1>3, ConcatEmptySeq
<1>5. DOMAIN t = 1..n
  BY <1>2
<1>6. QED
  BY <1>2, <1>4, <1>5

LEMMA PositionsFinite ==
  ASSUME NEW S, NEW s \in Seq(S), NEW I \in SUBSET DOMAIN s
  PROVE  IsFiniteSet(I) /\ \A i \in I : i \in Nat
<1>1. Len(s) \in Nat /\ DOMAIN s = 1..Len(s)
  OBVIOUS
<1>2. IsFiniteSet(1..Len(s))
  BY <1>1, FS_Interval
<1>3. QED
  BY <1>1, <1>2, FS_Subset

-----------------------------------------------------------------------------
\* The locator of a click

StrongerFirst(s, I) ==
  {p \in I \X I : \/ StrongerThan(s[p[1]], s[p[2]])
                  \/ ~StrongerThan(s[p[2]], s[p[1]]) /\ p[1] < p[2]}

LEMMA StrongerTotal ==
  ASSUME NEW s, NEW I, \A i \in I : i \in Nat,
         \A i \in I : s[i].rank \in Nat /\ s[i].confidence \in Nat
  PROVE  TotalOn(I, StrongerFirst(s, I))
<1>1. ASSUME NEW i \in I, NEW j \in I
      PROVE  <<i, j>> \in StrongerFirst(s, I) <=>
               \/ StrongerThan(s[i], s[j])
               \/ ~StrongerThan(s[j], s[i]) /\ i < j
  BY DEF StrongerFirst
<1>2. \A i, j, k \in I : <<i, j>> \in StrongerFirst(s, I) /\ <<j, k>> \in StrongerFirst(s, I)
        => <<i, k>> \in StrongerFirst(s, I)
  BY <1>1 DEF StrongerThan
<1>3. \A i \in I : <<i, i>> \notin StrongerFirst(s, I)
  BY <1>1 DEF StrongerThan
<1>4. \A i, j \in I : i # j => \/ <<i, j>> \in StrongerFirst(s, I)
                               \/ <<j, i>> \in StrongerFirst(s, I)
  BY <1>1 DEF StrongerThan
<1>5. QED
  BY <1>2, <1>3, <1>4 DEF TotalOn

\* What SelectLocator works with: the safe candidates, none before a stronger one.
LEMMA UsableCandidates ==
  ASSUME NEW s, IsCandidates(s)
  PROVE  LET usable == Sort(s, Safe(s), StrongerThan)
         IN  \E n \in Nat : \E order \in [1..n -> Safe(s)] :
               /\ Len(usable) = n
               /\ \A k \in 1..n : usable[k] = s[order[k]]
               /\ \A i \in Safe(s) : \E k \in 1..n : order[k] = i
               /\ \A k, l \in 1..n : k < l => ~StrongerThan(s[order[l]], s[order[k]])
<1> DEFINE I == Safe(s)
           usable == Sort(s, I, StrongerThan)
           order == InOrder(I, StrongerFirst(s, I))
           n == Cardinality(I)
<1>1. I \in SUBSET DOMAIN s /\ s \in Seq(Range(s))
  BY DEF Safe, IsCandidates
<1>2. IsFiniteSet(I) /\ \A i \in I : i \in Nat
  <2> HIDE DEF I
  <2>1. QED
    BY <1>1, PositionsFinite
<1>3. \A i \in I : s[i].rank \in Nat /\ s[i].confidence \in Nat
  BY <1>1 DEF IsCandidates
<1>4. TotalOn(I, StrongerFirst(s, I))
  <2> HIDE DEF I
  <2>1. QED
    BY <1>2, <1>3, StrongerTotal
<1>5. usable = Pick(s, order)
  BY DEF Sort, StrongerFirst
<1> HIDE DEF I
<1>6. /\ n \in Nat /\ order \in [1..n -> I]
      /\ \A i \in I : \E k \in 1..n : order[k] = i
      /\ \A k, l \in 1..n : k < l => <<order[k], order[l]>> \in StrongerFirst(s, I)
  BY <1>2, <1>4, InOrderIs, FS_CardinalityType
<1> HIDE DEF order, n, usable
<1> DEFINE S == Range(s)
<1>7. s \in Seq(S) /\ I \in SUBSET DOMAIN s
  BY <1>1 DEF I
<1> HIDE DEF S
<1>8. Len(usable) = n /\ \A k \in 1..n : usable[k] = s[order[k]]
  <2>1. n \in Nat /\ order \in [1..n -> I]
    BY <1>6
  <2>2. /\ Pick(s, order) \in Seq(S) /\ Len(Pick(s, order)) = n
        /\ DOMAIN Pick(s, order) = 1..n
        /\ \A k \in 1..n : Pick(s, order)[k] = s[order[k]]
    BY <1>7, <2>1, PickIs, Zenon
  <2>3. QED
    BY <1>5, <2>2
<1>9. ASSUME NEW k \in 1..n, NEW l \in 1..n, k < l
      PROVE  ~StrongerThan(s[order[l]], s[order[k]])
  <2>1. order[k] \in I /\ order[l] \in I /\ <<order[k], order[l]>> \in StrongerFirst(s, I)
    BY <1>6, <1>9
  <2>2. \/ StrongerThan(s[order[k]], s[order[l]])
        \/ ~StrongerThan(s[order[l]], s[order[k]])
    BY <2>1 DEF StrongerFirst
  <2>3. QED
    BY <1>3, <2>1, <2>2 DEF StrongerThan
<1>10. QED
  BY <1>6, <1>8, <1>9 DEF usable, I

\* The first position of some numbers.
LEMMA FirstIs ==
  ASSUME NEW n \in Nat, NEW I \in SUBSET (1..n), I # {}
  PROVE  Min(I) \in I /\ \A i \in I : Min(I) <= i
<1>1. I \in SUBSET Nat
  OBVIOUS
<1>2. \E i \in I : \A j \in I : i <= j
  BY <1>1, LeastNumber
<1>3. QED
  BY <1>2 DEF Min

LEMMA SelectedLocator ==
  ASSUME NEW s, IsCandidates(s)
  PROVE  LET fit == {i \in DOMAIN s : s[i].safe /\ s[i].builds}
         IN  IF fit = {} THEN SelectLocator(s) = None
             ELSE \E i \in fit :
                    /\ SelectLocator(s) = s[i]
                    /\ \A j \in fit :
                         \/ s[j].brittle /\ ~s[i].brittle
                         \/ /\ s[j].brittle <=> s[i].brittle
                            /\ ~StrongerThan(s[j], s[i])
<1> DEFINE usable == Sort(s, Safe(s), StrongerThan)
           fit == {i \in DOMAIN s : s[i].safe /\ s[i].builds}
           Stable == {k \in 1..Len(usable) : usable[k].builds /\ ~usable[k].brittle}
           Built == {k \in 1..Len(usable) : usable[k].builds}
           stable == IF Stable # {} THEN Min(Stable) ELSE 0
           any == IF Built # {} THEN Min(Built) ELSE 0
<1>0. PICK n \in Nat : \E order \in [1..n -> Safe(s)] :
        /\ Len(usable) = n
        /\ \A k \in 1..n : usable[k] = s[order[k]]
        /\ \A i \in Safe(s) : \E k \in 1..n : order[k] = i
        /\ \A k, l \in 1..n : k < l => ~StrongerThan(s[order[l]], s[order[k]])
  BY UsableCandidates
<1>1. PICK order \in [1..n -> Safe(s)] :
        /\ Len(usable) = n
        /\ \A k \in 1..n : usable[k] = s[order[k]]
        /\ \A i \in Safe(s) : \E k \in 1..n : order[k] = i
        /\ \A k, l \in 1..n : k < l => ~StrongerThan(s[order[l]], s[order[k]])
  BY <1>0
<1>2. SelectLocator(s) = IF stable # 0 THEN usable[stable]
                         ELSE IF any # 0 THEN usable[any] ELSE None
  BY DEF SelectLocator, SelectInSeq
<1> HIDE DEF usable
<1>3. \A k \in 1..n : order[k] \in Safe(s) /\ usable[k] = s[order[k]]
  BY <1>1
<1>4. ASSUME NEW j \in fit
      PROVE  \E k \in Built : order[k] = j
  <2>1. PICK k \in 1..n : order[k] = j
    BY <1>1 DEF Safe
  <2>2. k \in Built
    BY <1>1, <2>1
  <2>3. QED
    BY <2>1, <2>2
<1>5. ASSUME NEW k \in Built
      PROVE  k \in 1..n /\ order[k] \in fit /\ usable[k] = s[order[k]]
  BY <1>1, <1>3 DEF Safe
<1>6. \A k, l \in 1..n : k <= l => ~StrongerThan(s[order[l]], s[order[k]])
  <2> SUFFICES ASSUME NEW k \in 1..n, NEW l \in 1..n, k <= l
               PROVE  ~StrongerThan(s[order[l]], s[order[k]])
    OBVIOUS
  <2>1. CASE k < l
    BY <1>1, <2>1
  <2>2. CASE k = l
    <3>1. order[k] \in DOMAIN s
      BY <1>3 DEF Safe
    <3>2. s[order[k]].rank \in Nat /\ s[order[k]].confidence \in Nat
      BY <3>1 DEF IsCandidates
    <3>3. QED
      BY <2>2, <3>2 DEF StrongerThan
  <2>3. QED
    BY <2>1, <2>2
<1>7. /\ Stable # {} => stable \in Stable /\ stable # 0 /\ \A k \in Stable : stable <= k
      /\ Built # {} => any \in Built /\ any # 0 /\ \A k \in Built : any <= k
  <2>1. Stable \in SUBSET (1..n) /\ Built \in SUBSET (1..n)
    BY <1>1
  <2> HIDE DEF Stable, Built
  <2>2. ASSUME NEW I \in SUBSET (1..n), I # {}
        PROVE  Min(I) \in I /\ Min(I) # 0 /\ \A k \in I : Min(I) <= k
    <3>1. Min(I) \in I /\ \A k \in I : Min(I) <= k
      BY <2>2, FirstIs
    <3>2. QED
      BY <3>1
  <2>3. QED
    BY <2>1, <2>2
<1>8. CASE Stable # {}
  <2>1. stable \in Built /\ ~usable[stable].brittle /\ SelectLocator(s) = usable[stable]
    BY <1>2, <1>7, <1>8
  <2> DEFINE i == order[stable]
  <2>2. stable \in 1..n /\ i \in fit /\ SelectLocator(s) = s[i] /\ ~s[i].brittle
    BY <1>5, <2>1
  <2>3. ASSUME NEW j \in fit
        PROVE  \/ s[j].brittle /\ ~s[i].brittle
               \/ (s[j].brittle <=> s[i].brittle) /\ ~StrongerThan(s[j], s[i])
    <3>1. PICK k \in Built : order[k] = j
      BY <1>4
    <3>2. k \in 1..n /\ usable[k] = s[j]
      BY <1>5, <3>1
    <3>3. CASE s[j].brittle
      BY <2>2, <3>3
    <3>4. CASE ~s[j].brittle
      <4>1. k \in Stable
        BY <3>1, <3>2, <3>4
      <4>2. stable <= k
        BY <1>7, <1>8, <4>1
      <4>3. ~StrongerThan(s[j], s[i])
        BY <1>6, <2>2, <3>1, <3>2, <4>2
      <4>4. QED
        BY <2>2, <3>4, <4>3
    <3>5. QED
      BY <3>3, <3>4
  <2> HIDE DEF i
  <2>4. QED
    BY <2>2, <2>3
<1>9. CASE Stable = {} /\ Built # {}
  <2>1. any \in Built /\ SelectLocator(s) = usable[any]
    BY <1>2, <1>7, <1>9
  <2> DEFINE i == order[any]
  <2>2. any \in 1..n /\ i \in fit /\ SelectLocator(s) = s[i]
    BY <1>5, <2>1
  <2>3. \A k \in Built : usable[k].brittle
    BY <1>9
  <2>4. ASSUME NEW j \in fit
        PROVE  (s[j].brittle <=> s[i].brittle) /\ ~StrongerThan(s[j], s[i])
    <3>1. PICK k \in Built : order[k] = j
      BY <1>4
    <3>2. k \in 1..n /\ usable[k] = s[j] /\ any <= k
      BY <1>5, <1>7, <3>1
    <3>3. ~StrongerThan(s[j], s[i])
      BY <1>6, <2>2, <3>1, <3>2
    <3>4. s[j].brittle /\ s[i].brittle
      BY <1>5, <2>1, <2>3, <3>1, <3>2
    <3>5. QED
      BY <3>3, <3>4
  <2> HIDE DEF i
  <2>5. QED
    BY <2>2, <2>4
<1>10. CASE Built = {}
  <2>1. fit = {} /\ Stable = {}
    BY <1>4, <1>10
  <2>2. QED
    BY <1>2, <1>10, <2>1
<1>11. QED
  BY <1>8, <1>9, <1>10

-----------------------------------------------------------------------------
\* The order of arrival

\* Two sequences whose positions correspond, in their order as well, are sorted
\* into the same.
LEMMA SameOrder ==
  ASSUME NEW I, IsFiniteSet(I), NEW before, TotalOn(I, before),
         NEW J, IsFiniteSet(J), NEW after, TotalOn(J, after),
         NEW p \in [J -> I], \A i \in I : \E j \in J : p[j] = i,
         \A i, j \in J : <<i, j>> \in after => <<p[i], p[j]>> \in before,
         NEW s, NEW t, \A j \in J : t[j] = s[p[j]]
  PROVE  Pick(t, InOrder(J, after)) = Pick(s, InOrder(I, before))
<1> DEFINE o == InOrder(J, after)
           C == Cardinality(J)
           f == [k \in 1..C |-> p[o[k]]]
<1>1. /\ o \in [1..C -> J] /\ C \in Nat
      /\ \A j \in J : \E k \in 1..C : o[k] = j
      /\ \A k, l \in 1..C : k < l => <<o[k], o[l]>> \in after
  BY InOrderIs, FS_CardinalityType
<1> HIDE DEF o, C
<1>2. f \in [1..C -> I] /\ \A k \in 1..C : f[k] = p[o[k]]
  BY <1>1
<1>3. ASSUME NEW i \in I PROVE \E k \in 1..C : f[k] = i
  <2>1. PICK j \in J : p[j] = i
    OBVIOUS
  <2>2. PICK k \in 1..C : o[k] = j
    BY <1>1
  <2>3. QED
    BY <1>2, <2>1, <2>2
<1>4. ASSUME NEW k \in 1..C, NEW l \in 1..C, k < l PROVE <<f[k], f[l]>> \in before
  <2>1. o[k] \in J /\ o[l] \in J /\ <<o[k], o[l]>> \in after
    BY <1>1, <1>4
  <2>2. QED
    BY <1>2, <2>1
<1> HIDE DEF f
<1>5. f = InOrder(I, before)
  <2>1. C \in Nat /\ f \in [1..C -> I]
    BY <1>1, <1>2
  <2>2. \A i \in I : \E k \in 1..C : f[k] = i
    BY <1>3
  <2>3. \A k, l \in 1..C : k < l => <<f[k], f[l]>> \in before
    BY <1>4
  <2>4. QED
    BY <2>1, <2>2, <2>3, OnlyOrder
<1>6. [k \in DOMAIN o |-> t[o[k]]] = [k \in DOMAIN f |-> s[f[k]]]
  <2>1. DOMAIN o = 1..C /\ DOMAIN f = 1..C
    BY <1>1, <1>2
  <2>2. \A k \in 1..C : t[o[k]] = s[f[k]]
    BY <1>1, <1>2
  <2>3. QED
    BY <2>1, <2>2
<1>7. Pick(t, o) = Pick(s, f)
  BY <1>6 DEF Pick
<1>8. QED
  BY <1>5, <1>7 DEF o

EarlierFirst(s) ==
  {p \in (DOMAIN s) \X (DOMAIN s) :
     \/ Earlier(s[p[1]], s[p[2]])
     \/ ~Earlier(s[p[2]], s[p[1]]) /\ p[1] < p[2]}

\* What is needed of the rows to compare them.
Comparable(s) ==
  /\ s \in Seq(Range(s))
  /\ \A i \in DOMAIN s : s[i].seq \in Nat /\ s[i].at \in Nat /\ s[i].id \in Nat
  /\ \A i, j \in DOMAIN s : s[i].id = s[j].id => i = j

\* Numbers, times and ids decide, and positions never do.
LEMMA EarlierTotal ==
  ASSUME NEW s, Comparable(s)
  PROVE  /\ TotalOn(DOMAIN s, EarlierFirst(s))
         /\ \A i, j \in DOMAIN s : <<i, j>> \in EarlierFirst(s) <=> Earlier(s[i], s[j])
<1> DEFINE D == DOMAIN s
<1>1. \A i \in D : i \in Nat
  BY PositionsFinite DEF Comparable
<1>2. ASSUME NEW i \in D, NEW j \in D
      PROVE  <<i, j>> \in EarlierFirst(s) <=>
               \/ Earlier(s[i], s[j])
               \/ ~Earlier(s[j], s[i]) /\ i < j
  BY DEF EarlierFirst
<1>3. \A i, j \in D : i # j => Earlier(s[i], s[j]) \/ Earlier(s[j], s[i])
  BY DEF Comparable, Earlier
<1>4. \A i, j \in D : Earlier(s[i], s[j]) => ~Earlier(s[j], s[i])
  BY DEF Comparable, Earlier
<1>5. \A i, j \in D : <<i, j>> \in EarlierFirst(s) <=> Earlier(s[i], s[j])
  <2> SUFFICES ASSUME NEW i \in D, NEW j \in D
               PROVE  <<i, j>> \in EarlierFirst(s) <=> Earlier(s[i], s[j])
    OBVIOUS
  <2>1. CASE i = j
    BY <1>1, <1>2, <1>4, <2>1
  <2>2. CASE i # j
    BY <1>2, <1>3, <1>4, <2>2
  <2>3. QED
    BY <2>1, <2>2
<1>6. \A i, j, k \in D : Earlier(s[i], s[j]) /\ Earlier(s[j], s[k]) => Earlier(s[i], s[k])
  BY DEF Comparable, Earlier
<1>7. QED
  BY <1>3, <1>4, <1>5, <1>6 DEF TotalOn

LEMMA SortForgetsArrival ==
  ASSUME NEW s, Comparable(s), NEW t, DOMAIN t = DOMAIN s,
         NEW p \in [DOMAIN s -> DOMAIN s],
         \A i, j \in DOMAIN s : p[i] = p[j] => i = j,
         \A i \in DOMAIN s : \E j \in DOMAIN s : p[j] = i,
         \A i \in DOMAIN s : t[i] = s[p[i]], t \in Seq(Range(t))
  PROVE  Sort(t, DOMAIN t, Earlier) = Sort(s, DOMAIN s, Earlier)
<1> DEFINE D == DOMAIN s
<1>1. Comparable(t)
  <2>1. \A i \in D : p[i] \in D /\ t[i] = s[p[i]]
    OBVIOUS
  <2>2. ASSUME NEW i \in D, NEW j \in D, t[i].id = t[j].id
        PROVE  i = j
    <3>1. p[i] \in D /\ p[j] \in D /\ s[p[i]].id = s[p[j]].id
      BY <2>1, <2>2
    <3>2. \A a, b \in D : s[a].id = s[b].id => a = b
      BY DEF Comparable
    <3>3. p[i] = p[j]
      BY <3>1, <3>2
    <3>4. QED
      BY <3>3
  <2>3. \A i \in D : t[i].seq \in Nat /\ t[i].at \in Nat /\ t[i].id \in Nat
    BY <2>1 DEF Comparable
  <2>4. QED
    BY <2>2, <2>3 DEF Comparable
<1>2. TotalOn(D, EarlierFirst(s)) /\ TotalOn(D, EarlierFirst(t))
  BY <1>1, EarlierTotal
<1>3. ASSUME NEW i \in D, NEW j \in D, <<i, j>> \in EarlierFirst(t)
      PROVE  <<p[i], p[j]>> \in EarlierFirst(s)
  <2>1. Earlier(t[i], t[j])
    BY <1>1, <1>3, EarlierTotal
  <2>2. p[i] \in D /\ p[j] \in D /\ Earlier(s[p[i]], s[p[j]])
    BY <2>1
  <2>3. QED
    BY <2>2, EarlierTotal
<1>4. IsFiniteSet(D)
  BY PositionsFinite DEF Comparable
<1>5. Pick(t, InOrder(D, EarlierFirst(t))) = Pick(s, InOrder(D, EarlierFirst(s)))
  BY <1>2, <1>3, <1>4, SameOrder
<1>6. QED
  BY <1>5 DEF Sort, EarlierFirst

\* A plan is made of the window, and of what the walk over it has come to.
PlanAt(window, end) ==
  LET n    == Len(window)
      page == IF n = 0 THEN None ELSE window[n].page
  IN  IF Len(end.actions) > MaxActions THEN TooManyActions
      ELSE [start    |-> IF end.start # None THEN end.start
                         ELSE IF page \notin {None, Unsafe} THEN page ELSE Home,
            actions  |-> end.actions,
            redacted |-> \/ end.unlocated
                         \/ \E i \in DOMAIN end.actions :
                              end.actions[i].kind = "fill" /\ end.actions[i].value = None]

PlanOf(window) ==
  LET walk[i \in 0..Len(window)] ==
        IF i = 0 THEN Begin ELSE Visit(walk[i - 1], window[i])
  IN  PlanAt(window, walk[Len(window)])

LEMMA PlanOfWindow ==
  ASSUME NEW timeline
  PROVE  BuildReproductionPlan(timeline) = PlanOf(Windowed(timeline))
BY DEF BuildReproductionPlan, PlanOf, PlanAt

\* In whatever order the events of a session reach the table, their plan is the
\* same: of events with one sequence number and one time the ids decide.
THEOREM ArrivalDoesNotMatter ==
  ASSUME NEW s, Comparable(s), NEW t, DOMAIN t = DOMAIN s, t \in Seq(Range(t)),
         NEW p \in [DOMAIN s -> DOMAIN s],
         \A i, j \in DOMAIN s : p[i] = p[j] => i = j,
         \A i \in DOMAIN s : \E j \in DOMAIN s : p[j] = i,
         \A i \in DOMAIN s : t[i] = s[p[i]]
  PROVE  BuildReproductionPlan(t) = BuildReproductionPlan(s)
<1>1. Sort(t, DOMAIN t, Earlier) = Sort(s, DOMAIN s, Earlier)
  BY SortForgetsArrival
<1>2. Windowed(t) = Windowed(s)
  BY <1>1 DEF Windowed
<1>3. QED
  BY <1>2, PlanOfWindow

\* In particular when two neighbours of a session change places.
LEMMA NeighboursSwapped ==
  ASSUME NEW s, IsSession(s), NEW i \in 1..(Len(s) - 1)
  PROVE  BuildReproductionPlan(Swapped(s, i)) = BuildReproductionPlan(s)
<1> DEFINE t == [s EXCEPT ![i] = s[i + 1], ![i + 1] = s[i]]
           D == DOMAIN s
           p == [j \in D |-> IF j = i THEN i + 1 ELSE IF j = i + 1 THEN i ELSE j]
<1>1. Comparable(s) /\ s \in Seq(Range(s))
  BY DEF IsSession, IsRow, Comparable
<1>2. Len(s) \in Nat /\ D = 1..Len(s) /\ i \in D /\ i + 1 \in D /\ i # i + 1
  BY <1>1
<1>3. DOMAIN t = D /\ \A j \in D : t[j] = s[p[j]]
  BY <1>2
<1>4. t \in Seq(Range(t))
  <2>1. t = [j \in 1..Len(s) |-> t[j]]
    BY <1>2
  <2>2. \A j \in 1..Len(s) : t[j] \in Range(t)
    BY <1>2, <1>3 DEF Range
  <2> HIDE DEF t
  <2>3. QED
    BY <1>2, <2>1, <2>2
<1>5. /\ p \in [D -> D]
      /\ \A j, k \in D : p[j] = p[k] => j = k
      /\ \A j \in D : p[p[j]] = j
  BY <1>2
<1> HIDE DEF t, p
<1>6. \A j \in D : \E k \in D : p[k] = j
  BY <1>5
<1>7. BuildReproductionPlan(t) = BuildReproductionPlan(s)
  BY <1>1, <1>3, <1>4, <1>5, <1>6, ArrivalDoesNotMatter
<1>8. QED
  BY <1>7 DEF t, Swapped

-----------------------------------------------------------------------------
\* One pass over a window

\* Every set of numbers up to n has a greatest one.
LEMMA GreatestNumber ==
  ASSUME NEW n \in Nat, NEW I \in SUBSET (0..n), I # {}
  PROVE  \E i \in I : \A j \in I : j <= i
<1> DEFINE J == {n - i : i \in I}
<1>1. J \in SUBSET Nat /\ J # {}
  <2>1. \A i \in I : n - i \in Nat
    OBVIOUS
  <2>2. PICK i \in I : TRUE
    OBVIOUS
  <2>3. n - i \in J
    OBVIOUS
  <2>4. QED
    BY <2>1, <2>3
<1>2. PICK l \in J : \A j \in J : l <= j
  <2> HIDE DEF J
  <2>1. QED
    BY <1>1, LeastNumber
<1>3. PICK i \in I : l = n - i
  BY <1>2
<1>4. \A j \in I : n - j \in J
  OBVIOUS
<1>5. \A j \in I : n - i <= n - j
  BY <1>2, <1>3, <1>4
<1>6. QED
  BY <1>5

\* f lists the members of K upwards.
Lists(f, m, K) ==
  /\ m \in Nat /\ f \in [1..m -> K]
  /\ \A i \in K : \E k \in 1..m : f[k] = i
  /\ \A k, l \in 1..m : k < l => f[k] < f[l]

\* A larger number is listed at the end, and the last can be taken off.
Longer(f, m, i) == [k \in 1..(m + 1) |-> IF k = m + 1 THEN i ELSE f[k]]
Shorter(f, m) == [k \in 1..(m - 1) |-> f[k]]

LEMMA ListsMore ==
  ASSUME NEW K, \A j \in K : j \in Nat, NEW m, NEW f, Lists(f, m, K),
         NEW i \in Nat, \A j \in K : j < i
  PROVE  Lists(Longer(f, m, i), m + 1, K \cup {i})
<1> DEFINE g == Longer(f, m, i)
<1>1. m \in Nat /\ f \in [1..m -> K]
  BY DEF Lists
<1>2. /\ \A k \in 1..m : k \in 1..(m + 1) /\ g[k] = f[k] /\ f[k] \in K
      /\ m + 1 \in 1..(m + 1) /\ g[m + 1] = i
      /\ \A k \in 1..(m + 1) : k \in 1..m \/ k = m + 1
  BY <1>1 DEF Longer
<1>3. g \in [1..(m + 1) -> K \cup {i}]
  BY <1>1 DEF Longer
<1> HIDE DEF g
<1>4. \A j \in K \cup {i} : \E k \in 1..(m + 1) : g[k] = j
  BY <1>2 DEF Lists
<1>5. ASSUME NEW k \in 1..(m + 1), NEW l \in 1..(m + 1), k < l
      PROVE  g[k] < g[l]
  <2>1. k \in 1..m
    BY <1>1, <1>5
  <2>2. CASE l \in 1..m
    BY <1>2, <1>5, <2>1, <2>2 DEF Lists
  <2>3. CASE l = m + 1
    BY <1>2, <2>1, <2>3
  <2>4. QED
    BY <1>2, <2>2, <2>3
<1>6. QED
  BY <1>1, <1>3, <1>4, <1>5 DEF Lists, g

LEMMA ListsLess ==
  ASSUME NEW K, \A j \in K : j \in Nat, NEW m, NEW f, Lists(f, m, K), m > 0
  PROVE  Lists(Shorter(f, m), m - 1, K \ {f[m]})
<1> DEFINE g == Shorter(f, m)
<1>1. m \in Nat /\ m - 1 \in Nat /\ f \in [1..m -> K] /\ m \in 1..m
  BY DEF Lists
<1>2. \A k \in 1..(m - 1) : k \in 1..m /\ k < m /\ g[k] = f[k] /\ f[k] \in K
  BY <1>1 DEF Shorter
<1>3. \A k \in 1..(m - 1) : f[k] # f[m]
  <2> SUFFICES ASSUME NEW k \in 1..(m - 1) PROVE f[k] # f[m]
    OBVIOUS
  <2>1. f[k] < f[m] /\ f[k] \in Nat /\ f[m] \in Nat
    BY <1>1, <1>2 DEF Lists
  <2>2. QED
    BY <2>1
<1>4. g \in [1..(m - 1) -> K \ {f[m]}]
  BY <1>2, <1>3 DEF Shorter
<1>5. ASSUME NEW j \in K \ {f[m]}
      PROVE  \E k \in 1..(m - 1) : g[k] = j
  <2>1. PICK k \in 1..m : f[k] = j
    BY DEF Lists
  <2>2. k \in 1..(m - 1)
    BY <1>1, <2>1
  <2>3. QED
    BY <1>2, <2>1, <2>2
<1> HIDE DEF g
<1>6. \A k, l \in 1..(m - 1) : k < l => g[k] < g[l]
  BY <1>2 DEF Lists
<1>7. QED
  BY <1>1, <1>4, <1>5, <1>6 DEF Lists, g

\* A list in increasing order is Increasing.
LEMMA ListsIncreasing ==
  ASSUME NEW K, IsFiniteSet(K), \A i \in K : i \in Nat, NEW m, NEW f, Lists(f, m, K)
  PROVE  m = Cardinality(K) /\ f = Increasing(K)
<1> DEFINE before == {p \in K \X K : p[1] < p[2]}
<1>1. \A i, j \in K : <<i, j>> \in before <=> i < j
  OBVIOUS
<1> HIDE DEF before
<1>2. TotalOn(K, before)
  BY <1>1 DEF TotalOn
<1>3. \A k, l \in 1..m : k < l => <<f[k], f[l]>> \in before
  BY <1>1 DEF Lists
<1>4. m = Cardinality(K) /\ f = InOrder(K, before)
  <2>1. m \in Nat /\ f \in [1..m -> K]
    BY DEF Lists
  <2>2. \A i \in K : \E k \in 1..m : f[k] = i
    BY DEF Lists
  <2>3. QED
    BY <1>2, <1>3, <2>1, <2>2, OnlyOrder
<1>5. QED
  BY <1>4 DEF Increasing, before

-----------------------------------------------------------------------------
\* What the walk has emitted

\* The rows of a window that act, past the one where the test starts; and what
\* is left of some of them.
Acts(w) == Acting(w) \ StartOf(Moves(w))
ActsTo(w, i) == Acts(w) \cap (1..i)
Keeps(w, A) == A \ Superseded(w, A)

\* After i rows the actions are those of what is kept of them, and lastClick is
\* the last of them exactly when the last row that acted was a click, or none.
LastIsClick(w, A) == \A p \in A : (\A a \in A : a <= p) => w[p].type = "click"

\* What the turn of a row adds: a navigation that no action precedes is expected.
ActionOf(w, acts, i) ==
  CASE w[i].type = "click" -> [kind |-> "click", locator |-> SelectLocator(w[i].candidates)]
    [] w[i].type = "input" ->
         [kind |-> "fill", locator |-> InputLocator(w[i]), value |-> w[i].value]
    [] OTHER -> [kind |-> IF \A j \in acts : Adjacent(acts, j, i) => w[j].type = "click"
                            THEN "expectUrl" ELSE "navigate",
                 route |-> w[i].to]

Actions(w, f, m) == [k \in 1..m |-> ActionOf(w, Acts(w), f[k])]

Emits(w, i, f, m, walk) ==
  /\ Lists(f, m, Keeps(w, ActsTo(w, i)))
  /\ walk.actions = Actions(w, f, m)
  /\ walk.lastClick \in 0..m
  /\ walk.lastClick = m <=> LastIsClick(w, ActsTo(w, i))

\* The start is that of the first move, if there was one.
Started(w, i, start) ==
  \/ start = None /\ \A j \in Moves(w) : i < j
  \/ \E s \in Moves(w) : s <= i /\ (\A j \in Moves(w) : s <= j) /\ start = w[s].to

Unlocated(item) ==
  item.type = "input" /\ InputLocator(item) = None /\ (item.hasValue \/ item.value # None)

Warned(w, i, unlocated) ==
  /\ unlocated \in BOOLEAN
  /\ unlocated <=> \E j \in Fresh(w) : j <= i /\ Unlocated(w[j])

WalkOf(actions, start, lastClick, seen, unlocated) ==
  [actions |-> actions, start |-> start, lastClick |-> lastClick, seen |-> seen,
   unlocated |-> unlocated]
IsWalk(walk) ==
  walk = WalkOf(walk.actions, walk.start, walk.lastClick, walk.seen, walk.unlocated)

After(w, i, walk) ==
  /\ IsWalk(walk)
  /\ walk.seen = {BreadcrumbKey(w[j]) : j \in 1..i}
  /\ Started(w, i, walk.start)
  /\ Warned(w, i, walk.unlocated)
  /\ \E m \in Nat : \E f : Emits(w, i, f, m, walk)

\* The rows of a window: what sanitizing has left of the evidence.
IsWindow(w) ==
  /\ w \in Seq(Range(w))
  /\ \A i \in DOMAIN w :
       /\ w[i].type = "click" =>
            FirstOf(w[i].candidates, MaxCandidates) = w[i].candidates
       /\ w[i].type = "input" =>
            w[i].hasValue \in BOOLEAN /\ (Sensitive(w[i].value) => w[i].value = None)

LEMMA ActsAreRows ==
  ASSUME NEW w, IsWindow(w)
  PROVE  /\ Len(w) \in Nat /\ DOMAIN w = 1..Len(w)
         /\ Moves(w) \subseteq Fresh(w) /\ Fresh(w) \subseteq 1..Len(w)
         /\ Acts(w) \subseteq Acting(w) /\ Acting(w) \subseteq Fresh(w)
<1>1. Len(w) \in Nat /\ DOMAIN w = 1..Len(w)
  BY DEF IsWindow
<1>2. QED
  BY <1>1 DEF Moves, Fresh, Acting, Acts

\* The last row that acted is the last that is kept.
LEMMA LastAct ==
  ASSUME NEW w, NEW n \in Nat, NEW A \in SUBSET (1..n),
         NEW m, NEW f, Lists(f, m, Keeps(w, A))
  PROVE  /\ m = 0 <=> A = {}
         /\ m # 0 => f[m] \in A /\ \A a \in A : a <= f[m]
<1>1. m \in Nat /\ \A k \in 1..m : f[k] \in A
  BY DEF Lists, Keeps
<1>2. ASSUME A # {}
      PROVE  m # 0 /\ \A a \in A : a <= f[m]
  <2>1. A \in SUBSET (0..n)
    OBVIOUS
  <2>2. PICK p \in A : \A a \in A : a <= p
    BY <1>2, <2>1, GreatestNumber
  <2>3. \A j \in A : ~Adjacent(A, p, j)
    BY <2>2 DEF Adjacent
  <2>4. p \in Keeps(w, A)
    BY <2>3 DEF Keeps, Superseded
  <2>5. PICK k \in 1..m : f[k] = p
    BY <2>4 DEF Lists
  <2>6. m \in 1..m /\ f[m] \in A
    BY <1>1, <2>5
  <2>7. k = m
    <3> SUFFICES ASSUME k # m PROVE FALSE
      OBVIOUS
    <3>1. f[k] < f[m]
      BY <1>1, <2>5, <2>6 DEF Lists
    <3>2. \A a \in A : a \in Nat
      OBVIOUS
    <3>3. f[m] <= p /\ f[m] \in Nat /\ p \in Nat
      BY <2>2, <2>6, <3>2
    <3>4. QED
      BY <2>5, <3>1, <3>3
  <2>8. QED
    BY <2>2, <2>5, <2>6, <2>7
<1>3. m # 0 => f[m] \in A
  BY <1>1
<1>4. QED
  BY <1>2, <1>3

\* A fill that the next one makes void.
Fills(w, a, i) ==
  /\ w[a].type = "input" /\ w[i].type = "input"
  /\ InputLocator(w[a]) = InputLocator(w[i])

\* What one more row that acts does to what is kept.
LEMMA OneMore ==
  ASSUME NEW w, NEW A, NEW i \in Nat, \A a \in A : a \in Nat /\ a < i
  PROVE  \A a : a \in Keeps(w, A \cup {i}) <=>
                 \/ a = i
                 \/ a \in Keeps(w, A) /\ ~((\A b \in A : b <= a) /\ Fills(w, a, i))
<1> DEFINE B == A \cup {i}
<1>1. \A a, b \in A : Adjacent(B, a, b) <=> Adjacent(A, a, b)
  BY DEF Adjacent
<1>2. \A a \in A : Adjacent(B, a, i) <=> \A b \in A : b <= a
  BY DEF Adjacent
<1>3. \A b \in B : ~Adjacent(B, i, b)
  BY DEF Adjacent
<1>4. i \notin A
  OBVIOUS
<1>5. i \in Keeps(w, B)
  BY <1>3 DEF Keeps, Superseded
<1>6. ASSUME NEW a \in A
      PROVE  a \in Superseded(w, B) <=>
               \/ a \in Superseded(w, A)
               \/ (\A b \in A : b <= a) /\ Fills(w, a, i)
  BY <1>1, <1>2 DEF Superseded, Fills
<1>7. QED
  BY <1>4, <1>5, <1>6 DEF Keeps

\* One more row and the actions of what is listed.
LEMMA ActionsMore ==
  ASSUME NEW w, NEW m \in Nat, NEW f, NEW i
  PROVE  /\ Len(Actions(w, f, m)) = m
         /\ Append(Actions(w, f, m), ActionOf(w, Acts(w), i)) =
              Actions(w, Longer(f, m, i), m + 1)
<1> DEFINE a == Actions(w, f, m)
           x == ActionOf(w, Acts(w), i)
           b == Actions(w, Longer(f, m, i), m + 1)
           S == {a[k] : k \in 1..m} \cup {x}
<1>1. a \in Seq(S) /\ Len(a) = m /\ x \in S
  BY DEF Actions
<1>2. \A k \in 1..m : k \in 1..(m + 1) /\ b[k] = a[k] /\ a[k] \in S
  BY DEF Actions, Longer
<1>3. m + 1 \in 1..(m + 1) /\ b[m + 1] = x
  BY DEF Actions, Longer
<1>4. \A k \in 1..(m + 1) : k \in 1..m \/ k = m + 1
  OBVIOUS
<1>5. b = [k \in 1..(m + 1) |-> b[k]]
  BY DEF Actions
<1> HIDE DEF S, x, a, b
<1>6. b \in Seq(S) /\ Len(b) = m + 1
  <2>1. \A k \in 1..(m + 1) : b[k] \in S
    BY <1>1, <1>2, <1>3, <1>4
  <2>2. b \in [1..(m + 1) -> S] /\ m + 1 \in Nat
    BY <1>5, <2>1
  <2>3. QED
    BY <2>2
<1>7. /\ Append(a, x) \in Seq(S) /\ Len(Append(a, x)) = m + 1
      /\ \A k \in 1..m : Append(a, x)[k] = a[k]
      /\ Append(a, x)[m + 1] = x
  BY <1>1, AppendProperties
<1>8. \A k \in 1..(m + 1) : Append(a, x)[k] = b[k]
  BY <1>2, <1>3, <1>4, <1>7
<1>9. Append(a, x) = b
  BY <1>6, <1>7, <1>8, SeqEqual
<1>10. QED
  BY <1>1, <1>9 DEF x, a, b

LEMMA ActionsLess ==
  ASSUME NEW w, NEW m \in Nat, m > 0, NEW f
  PROVE  Front(Actions(w, f, m)) = Actions(w, Shorter(f, m), m - 1)
<1> DEFINE a == Actions(w, f, m)
           b == Actions(w, Shorter(f, m), m - 1)
           S == {a[k] : k \in 1..m}
<1>1. Len(a) = m /\ m - 1 \in Nat /\ \A k \in 1..(m - 1) : a[k] \in S /\ b[k] = a[k]
  BY DEF Actions, Shorter
<1>2. b = [k \in 1..(m - 1) |-> b[k]]
  BY DEF Actions
<1> HIDE DEF S, a, b
<1>3. b \in Seq(S) /\ Len(b) = m - 1
  <2>1. b \in [1..(m - 1) -> S]
    BY <1>1, <1>2
  <2>2. QED
    BY <1>1, <2>1
<1>4. /\ SubSeq(a, 1, m - 1) \in Seq(S)
      /\ Len(SubSeq(a, 1, m - 1)) = m - 1
      /\ \A k \in 1..(m - 1) : SubSeq(a, 1, m - 1)[k] = a[k]
  <2>1. 1 \in Int /\ m - 1 \in Int
    BY <1>1
  <2>2. /\ SubSeq(a, 1, m - 1) \in Seq(S)
        /\ Len(SubSeq(a, 1, m - 1)) = IF 1 <= m - 1 THEN (m - 1) - 1 + 1 ELSE 0
        /\ \A k \in 1..((m - 1) - 1 + 1) : SubSeq(a, 1, m - 1)[k] = a[1 + k - 1]
    BY <1>1, <2>1, SubSeqProperties
  <2>3. (m - 1) - 1 + 1 = m - 1 /\ (IF 1 <= m - 1 THEN (m - 1) - 1 + 1 ELSE 0) = m - 1
    BY <1>1
  <2>4. \A k \in 1..(m - 1) : 1 + k - 1 = k
    OBVIOUS
  <2>5. QED
    BY <2>2, <2>3, <2>4
<1>5. SubSeq(a, 1, m - 1) = b
  BY <1>1, <1>3, <1>4, SeqEqual
<1>6. QED
  BY <1>1, <1>5 DEF Front, a, b

\* The rows that acted before the next one.
LEMMA ActedMore ==
  ASSUME NEW w, IsWindow(w), NEW i \in 1..Len(w)
  PROVE  /\ ActsTo(w, i - 1) \in SUBSET (1..(i - 1))
         /\ i \in Acts(w) => ActsTo(w, i) = ActsTo(w, i - 1) \cup {i}
         /\ i \notin Acts(w) => ActsTo(w, i) = ActsTo(w, i - 1)
         /\ \A j \in Acts(w) : j < i <=> j \in ActsTo(w, i - 1)
<1>1. Len(w) \in Nat /\ \A j \in Acts(w) : j \in 1..Len(w)
  BY ActsAreRows
<1>2. \A j \in Acts(w) : j \in 1..(i - 1) <=> j < i
  BY <1>1
<1>3. \A j \in Acts(w) : j \in 1..i <=> j < i \/ j = i
  BY <1>1
<1>4. QED
  BY <1>2, <1>3 DEF ActsTo

\* The last action, and whether it is a click.
LEMMA LastEmitted ==
  ASSUME NEW w, IsWindow(w), NEW i \in 1..Len(w), NEW walk, NEW m \in Nat, NEW f,
         Emits(w, i - 1, f, m, walk)
  PROVE  LET A == ActsTo(w, i - 1)
         IN  /\ Len(walk.actions) = m
             /\ m = 0 <=> A = {}
             /\ m # 0 => /\ f[m] \in A /\ \A a \in A : a <= f[m]
                         /\ walk.actions[m] = ActionOf(w, Acts(w), f[m])
             /\ walk.lastClick = m <=> (m # 0 => w[f[m]].type = "click")
<1> DEFINE A == ActsTo(w, i - 1)
<1>1. A \in SUBSET (1..(i - 1)) /\ i - 1 \in Nat
  BY ActedMore
<1>2. Lists(f, m, Keeps(w, A))
  BY DEF Emits
<1> HIDE DEF A
<1>3. /\ m = 0 <=> A = {}
      /\ m # 0 => f[m] \in A /\ \A a \in A : a <= f[m]
  BY <1>1, <1>2, LastAct
<1>4. walk.actions = Actions(w, f, m)
  BY DEF Emits
<1>5. Len(walk.actions) = m /\ (m # 0 => walk.actions[m] = ActionOf(w, Acts(w), f[m]))
  <2>1. m # 0 => m \in 1..m
    OBVIOUS
  <2>2. QED
    BY <1>4, <2>1 DEF Actions
<1>6. \A a, b \in A : a <= b /\ b <= a => a = b
  BY <1>1
<1>7. LastIsClick(w, A) <=> (m # 0 => w[f[m]].type = "click")
  <2>1. CASE m = 0
    BY <1>3, <2>1 DEF LastIsClick
  <2>2. CASE m # 0
    BY <1>3, <1>6, <2>2 DEF LastIsClick
  <2>3. QED
    BY <2>1, <2>2
<1>8. walk.lastClick = m <=> LastIsClick(w, A)
  BY DEF Emits, A
<1>9. QED
  BY <1>3, <1>5, <1>7, <1>8 DEF A

\* What a row that acts adds to what was emitted; the fill before it is taken
\* back when both are about one element.
LEMMA EmitsMore ==
  ASSUME NEW w, IsWindow(w), NEW i \in 1..Len(w), i \in Acts(w),
         NEW walk, NEW m \in Nat, NEW f, Emits(w, i - 1, f, m, walk),
         NEW next,
         \/ /\ ~(m # 0 /\ Fills(w, f[m], i))
            /\ next.actions = Append(walk.actions, ActionOf(w, Acts(w), i))
            /\ next.lastClick =
                 IF w[i].type = "click" THEN m + 1 ELSE walk.lastClick
         \/ /\ m # 0 /\ Fills(w, f[m], i)
            /\ next.actions = Append(Front(walk.actions), ActionOf(w, Acts(w), i))
            /\ next.lastClick = walk.lastClick
  PROVE  \E n \in Nat : \E g : Emits(w, i, g, n, next)
<1> DEFINE A == ActsTo(w, i - 1)
           B == ActsTo(w, i)
           K == Keeps(w, A)
           act == ActionOf(w, Acts(w), i)
<1>1. A \in SUBSET (1..(i - 1)) /\ i - 1 \in Nat /\ i \in Nat /\ i > i - 1 /\ B = A \cup {i}
  BY ActedMore
<1>2. /\ Lists(f, m, K)
      /\ walk.actions = Actions(w, f, m)
      /\ walk.lastClick \in 0..m
  BY DEF Emits
<1>3. /\ m = 0 <=> A = {}
      /\ m # 0 => f[m] \in A /\ \A a \in A : a <= f[m]
      /\ walk.lastClick = m <=> (m # 0 => w[f[m]].type = "click")
  BY LastEmitted
<1>4. LastIsClick(w, B) <=> w[i].type = "click"
  BY <1>1 DEF LastIsClick
<1>5. K \subseteq A
  BY DEF Keeps
<1> HIDE DEF A, B, K, act
<1>6. \A a : a \in Keeps(w, B) <=>
              \/ a = i
              \/ a \in K /\ ~((\A b \in A : b <= a) /\ Fills(w, a, i))
  <2>1. \A a \in A : a \in Nat /\ a < i
    BY <1>1
  <2>2. QED
    BY <1>1, <2>1, OneMore DEF K
<1>7. \A a, b \in A : a <= b /\ b <= a => a = b
  BY <1>1
<1>8. \A a \in A : (\A b \in A : b <= a) <=> m # 0 /\ a = f[m]
  BY <1>3, <1>7
<1>9. \A a \in A : a \in Nat /\ a < i
  BY <1>1
<1>10. CASE ~(m # 0 /\ Fills(w, f[m], i))
  <2> DEFINE g == Longer(f, m, i)
  <2>1. Keeps(w, B) = K \cup {i}
    BY <1>5, <1>6, <1>8, <1>10
  <2>2. Lists(g, m + 1, K \cup {i})
    BY <1>1, <1>2, <1>5, <1>9, ListsMore
  <2>3. Append(walk.actions, act) = Actions(w, g, m + 1)
    BY <1>2, ActionsMore DEF act
  <2> HIDE DEF g
  <2>4. next.actions = Actions(w, g, m + 1)
    BY <1>10, <2>3 DEF act
  <2>5. next.lastClick \in 0..(m + 1) /\ (next.lastClick = m + 1 <=> w[i].type = "click")
    BY <1>2, <1>10
  <2>6. Emits(w, i, g, m + 1, next)
    BY <1>4, <2>1, <2>2, <2>4, <2>5 DEF Emits, B
  <2>7. m + 1 \in Nat
    OBVIOUS
  <2>8. QED
    BY <2>6, <2>7
<1>11. CASE m # 0 /\ Fills(w, f[m], i)
  <2> DEFINE e == Shorter(f, m)
             n == m - 1
             g == Longer(e, n, i)
             L == K \ {f[m]}
  <2>1. n \in Nat /\ m > 0 /\ n + 1 = m
    BY <1>11
  <2>2. Keeps(w, B) = L \cup {i}
    BY <1>5, <1>6, <1>8, <1>11
  <2>3. Lists(e, n, L)
    <3>1. \A j \in K : j \in Nat
      BY <1>5, <1>9
    <3>2. QED
      BY <1>2, <2>1, <3>1, ListsLess
  <2>4. Front(walk.actions) = Actions(w, e, n)
    BY <1>2, <2>1, ActionsLess
  <2> HIDE DEF e, n
  <2>5. Lists(g, n + 1, L \cup {i})
    <3>1. \A j \in L : j \in Nat /\ j < i
      BY <1>5, <1>9
    <3> HIDE DEF L
    <3>2. QED
      BY <1>1, <2>3, <3>1, ListsMore
  <2>6. Append(Front(walk.actions), act) = Actions(w, g, n + 1)
    <3>1. n \in Nat
      BY <2>1
    <3>2. Append(Actions(w, e, n), ActionOf(w, Acts(w), i)) = Actions(w, Longer(e, n, i), n + 1)
      BY <3>1, ActionsMore
    <3>3. QED
      BY <2>4, <3>2 DEF act
  <2> HIDE DEF g, L
  <2>7. next.actions = Actions(w, g, m)
    BY <1>11, <2>1, <2>6 DEF act
  <2>8. Lists(g, m, Keeps(w, B))
    BY <2>1, <2>2, <2>5
  <2>9. next.lastClick \in 0..m /\ (next.lastClick = m <=> w[i].type = "click")
    <3>1. w[f[m]].type # "click" /\ w[i].type # "click"
      BY <1>11 DEF Fills
    <3>2. QED
      BY <1>2, <1>3, <1>11, <3>1
  <2>10. Emits(w, i, g, m, next)
    BY <1>4, <2>7, <2>8, <2>9 DEF Emits, B
  <2>11. QED
    BY <2>10
<1>12. QED
  BY <1>10, <1>11

\* Nothing is emitted of a row that does not act.
LEMMA EmitsNoMore ==
  ASSUME NEW w, IsWindow(w), NEW i \in 1..Len(w), i \notin Acts(w),
         NEW walk, NEW m \in Nat, NEW f, Emits(w, i - 1, f, m, walk),
         NEW next, next.actions = walk.actions, next.lastClick = walk.lastClick
  PROVE  \E n \in Nat : \E g : Emits(w, i, g, n, next)
<1>1. ActsTo(w, i) = ActsTo(w, i - 1)
  BY ActedMore
<1>2. Emits(w, i, f, m, next)
  BY <1>1 DEF Emits
<1>3. QED
  BY <1>2

-----------------------------------------------------------------------------
\* One turn of the loop

\* A row was seen before unless it is fresh.
LEMMA SeenMore ==
  ASSUME NEW w, IsWindow(w), NEW i \in 1..Len(w), NEW seen,
         seen = {BreadcrumbKey(w[j]) : j \in 1..(i - 1)}
  PROVE  /\ BreadcrumbKey(w[i]) \in seen <=> i \notin Fresh(w)
         /\ seen \cup {BreadcrumbKey(w[i])} = {BreadcrumbKey(w[j]) : j \in 1..i}
<1>1. Len(w) \in Nat /\ i \in DOMAIN w
  BY ActsAreRows
<1>2. \A j \in 1..i : j \in 1..(i - 1) \/ j = i
  BY <1>1
<1>3. i \in 1..i /\ \A j \in 1..(i - 1) : j \in 1..i
  BY <1>1
<1>4. BreadcrumbKey(w[i]) \in seen <=> i \notin Fresh(w)
  BY <1>1 DEF Fresh
<1>5. QED
  BY <1>2, <1>3, <1>4

\* Which rows move and which act.
LEMMA Kinds ==
  ASSUME NEW w, NEW i
  PROVE  /\ i \notin Fresh(w) => i \notin Moves(w) /\ i \notin Acts(w)
         /\ i \in Fresh(w) /\ w[i].type = "navigation" =>
              /\ i \in Moves(w) <=> w[i].to \notin {None, Unsafe}
              /\ i \in Acts(w) <=> i \in Moves(w) /\ i \notin StartOf(Moves(w))
         /\ i \in Fresh(w) /\ w[i].type = "click" =>
              /\ i \notin Moves(w)
              /\ i \in Acts(w) <=> SelectLocator(w[i].candidates) # None
         /\ i \in Fresh(w) /\ w[i].type = "input" =>
              /\ i \notin Moves(w)
              /\ i \in Acts(w) <=> InputLocator(w[i]) # None
         /\ w[i].type \notin {"navigation", "click", "input"} =>
              i \notin Moves(w) /\ i \notin Acts(w)
<1>1. /\ i \in Moves(w) <=> /\ i \in Fresh(w) /\ w[i].type = "navigation"
                            /\ w[i].to \notin {None, Unsafe}
      /\ i \in StartOf(Moves(w)) => i \in Moves(w)
  BY DEF Moves, StartOf
<1>2. i \in Acts(w) <=>
        /\ i \notin StartOf(Moves(w))
        /\ \/ i \in Moves(w)
           \/ /\ i \in Fresh(w)
              /\ \/ w[i].type = "click" /\ SelectLocator(w[i].candidates) # None
                 \/ w[i].type = "input" /\ InputLocator(w[i]) # None
  BY DEF Acts, Acting
<1>3. QED
  BY <1>1, <1>2

\* The start stays what it is, and is taken from the first move.
LEMMA StartMore ==
  ASSUME NEW w, IsWindow(w), NEW i \in 1..Len(w), NEW start, Started(w, i - 1, start)
  PROVE  /\ i \notin Moves(w) \/ start # None => Started(w, i, start)
         /\ i \in Moves(w) /\ start = None =>
              Started(w, i, w[i].to) /\ i \in StartOf(Moves(w))
         /\ i \in Moves(w) /\ start # None => i \notin StartOf(Moves(w))
<1>1. Len(w) \in Nat /\ i \in Nat /\ \A j \in Moves(w) : j \in Nat
  BY ActsAreRows
<1>2. \A j \in Moves(w) : w[j].to # None
  BY DEF Moves
<1>3. CASE start = None /\ \A j \in Moves(w) : i - 1 < j
  <2>1. \A j \in Moves(w) : i <= j /\ (i # j => i < j)
    BY <1>1, <1>3
  <2>2. i \notin Moves(w) => \A j \in Moves(w) : i < j
    BY <2>1
  <2>3. i \in Moves(w) => Started(w, i, w[i].to) /\ i \in StartOf(Moves(w))
    BY <1>1, <2>1 DEF Started, StartOf
  <2>4. QED
    BY <1>3, <2>2, <2>3 DEF Started
<1>4. CASE \E s \in Moves(w) :
             s <= i - 1 /\ (\A j \in Moves(w) : s <= j) /\ start = w[s].to
  <2>1. PICK s \in Moves(w) :
          s <= i - 1 /\ (\A j \in Moves(w) : s <= j) /\ start = w[s].to
    BY <1>4
  <2>2. start # None /\ s <= i /\ ~(i <= s)
    BY <1>1, <1>2, <2>1
  <2>3. Started(w, i, start) /\ i \notin StartOf(Moves(w))
    BY <2>1, <2>2 DEF Started, StartOf
  <2>4. QED
    BY <2>2, <2>3
<1>5. QED
  BY <1>3, <1>4 DEF Started

\* The warning stays once it was given.
LEMMA WarnMore ==
  ASSUME NEW w, IsWindow(w), NEW i \in 1..Len(w), NEW before, Warned(w, i - 1, before),
         NEW now \in BOOLEAN, now <=> before \/ (i \in Fresh(w) /\ Unlocated(w[i]))
  PROVE  Warned(w, i, now)
<1>1. Len(w) \in Nat /\ i \in Nat /\ \A j \in Fresh(w) : j \in Nat
  BY ActsAreRows
<1>2. \A j \in Fresh(w) : j <= i <=> (j <= i - 1 \/ j = i)
  BY <1>1
<1>3. QED
  BY <1>1, <1>2 DEF Warned

\* The previous action, as the turn sees it.
FollowsClick(w, i) ==
  \A j \in Acts(w) : Adjacent(Acts(w), j, i) => w[j].type = "click"

FillOf(action, locator) == action.kind = "fill" /\ action.locator = locator

LEMMA PreviousAction ==
  ASSUME NEW w, IsWindow(w), NEW i \in 1..Len(w), i \in Acts(w),
         NEW walk, NEW m \in Nat, NEW f, Emits(w, i - 1, f, m, walk)
  PROVE  /\ Len(walk.actions) = m
         /\ walk.lastClick = m <=> FollowsClick(w, i)
         /\ m # 0 /\ w[i].type = "input" =>
              (FillOf(walk.actions[m], InputLocator(w[i])) <=> Fills(w, f[m], i))
<1> DEFINE A == ActsTo(w, i - 1)
<1>1. /\ Len(walk.actions) = m
      /\ m = 0 <=> A = {}
      /\ m # 0 => /\ f[m] \in A /\ \A a \in A : a <= f[m]
                  /\ walk.actions[m] = ActionOf(w, Acts(w), f[m])
      /\ walk.lastClick = m <=> (m # 0 => w[f[m]].type = "click")
  BY LastEmitted
<1>2. /\ A \in SUBSET (1..(i - 1)) /\ i \in Nat
      /\ \A j \in Acts(w) : j < i <=> j \in A
      /\ \A j \in Acts(w) : j \in Nat
  BY ActedMore, ActsAreRows
<1>3. A \subseteq Acts(w)
  BY DEF ActsTo
<1> HIDE DEF A
<1>4. \A j \in Acts(w) : Adjacent(Acts(w), j, i) <=> j \in A /\ \A a \in A : a <= j
  <2> SUFFICES ASSUME NEW j \in Acts(w)
               PROVE  Adjacent(Acts(w), j, i) <=> j \in A /\ \A a \in A : a <= j
    OBVIOUS
  <2>1. \A k \in Acts(w) : i <= k <=> k \notin A
    BY <1>2
  <2>2. Adjacent(Acts(w), j, i) <=> j \in A /\ \A k \in Acts(w) : k <= j \/ k \notin A
    BY <1>2, <2>1 DEF Adjacent
  <2>3. QED
    BY <1>3, <2>2
<1>5. \A a, b \in A : a <= b /\ b <= a => a = b
  BY <1>2
<1>6. \A j \in Acts(w) : Adjacent(Acts(w), j, i) <=> m # 0 /\ j = f[m]
  BY <1>1, <1>4, <1>5
<1>7. (m # 0 => w[f[m]].type = "click") <=> FollowsClick(w, i)
  BY <1>1, <1>3, <1>6 DEF FollowsClick
<1>8. ASSUME m # 0, w[i].type = "input"
      PROVE  FillOf(walk.actions[m], InputLocator(w[i])) <=> Fills(w, f[m], i)
  <2>1. walk.actions[m] = ActionOf(w, Acts(w), f[m])
    BY <1>1, <1>8
  <2>2. FillOf(ActionOf(w, Acts(w), f[m]), InputLocator(w[i])) <=> Fills(w, f[m], i)
    BY <1>8 DEF FillOf, ActionOf, Fills
  <2>3. QED
    BY <2>1, <2>2
<1>9. QED
  BY <1>1, <1>7, <1>8

LEMMA AfterMore ==
  ASSUME NEW w, IsWindow(w), NEW i \in 1..Len(w), i \in Fresh(w),
         NEW x, After(w, i - 1, x), NEW y, IsWalk(y),
         y.seen = x.seen \cup {BreadcrumbKey(w[i])},
         Started(w, i, y.start), y.unlocated \in BOOLEAN,
         y.unlocated <=> x.unlocated \/ Unlocated(w[i]),
         \E n \in Nat : \E g : Emits(w, i, g, n, y)
  PROVE  After(w, i, y)
<1>1. y.seen = {BreadcrumbKey(w[j]) : j \in 1..i}
  <2>1. x.seen = {BreadcrumbKey(w[j]) : j \in 1..(i - 1)}
    BY DEF After
  <2>2. x.seen \cup {BreadcrumbKey(w[i])} = {BreadcrumbKey(w[j]) : j \in 1..i}
    BY <2>1, SeenMore
  <2>3. QED
    BY <2>2
<1>2. Warned(w, i, y.unlocated)
  <2>1. Warned(w, i - 1, x.unlocated)
    BY DEF After
  <2>2. QED
    BY <2>1, WarnMore
<1>3. QED
  BY <1>1, <1>2 DEF After

\* What a turn makes of a walk that has not seen the row.
Noted(x, item) ==
  WalkOf(x.actions, x.start, x.lastClick, x.seen \cup {BreadcrumbKey(item)}, x.unlocated)

AtClick(walk, l) == [walk EXCEPT !.lastClick = l]
Warning(walk, u) == [walk EXCEPT !.unlocated = u]

LEMMA AddTo ==
  ASSUME NEW a, NEW s, NEW l, NEW k, NEW u, NEW b
  PROVE  /\ WalkOf(a, s, l, k, u).actions = a
         /\ Add(WalkOf(a, s, l, k, u), b) = WalkOf(Append(a, b), s, l, k, u)
         /\ AtClick(WalkOf(a, s, l, k, u), b) = WalkOf(a, s, b, k, u)
         /\ Warning(WalkOf(a, s, l, k, u), b) = WalkOf(a, s, l, k, b)
<1>1. /\ WalkOf(a, s, l, k, u).actions = a
      /\ Add(WalkOf(a, s, l, k, u), b) = WalkOf(Append(a, b), s, l, k, u)
  BY DEF WalkOf, Add
<1>2. AtClick(WalkOf(a, s, l, k, u), b) = WalkOf(a, s, b, k, u)
  BY DEF WalkOf, AtClick
<1>3. Warning(WalkOf(a, s, l, k, u), b) = WalkOf(a, s, l, k, b)
  BY DEF WalkOf, Warning
<1>4. QED
  BY <1>1, <1>2, <1>3

LEMMA VisitIs ==
  ASSUME NEW x, IsWalk(x), NEW item
  PROVE  /\ BreadcrumbKey(item) \in x.seen => Visit(x, item) = x
         /\ BreadcrumbKey(item) \notin x.seen =>
              /\ item.type = "navigation" => Visit(x, item) = GoTo(Noted(x, item), item)
              /\ item.type = "click" => Visit(x, item) = Click(Noted(x, item), item)
              /\ item.type = "input" => Visit(x, item) = Input(Noted(x, item), item)
              /\ item.type \notin {"navigation", "click", "input"} =>
                   Visit(x, item) = Noted(x, item)
<1>1. [x EXCEPT !.seen = @ \cup {BreadcrumbKey(item)}] = Noted(x, item)
  BY DEF IsWalk, WalkOf, Noted
<1>2. QED
  BY <1>1 DEF Visit

\* A row that was seen before changes nothing.
LEMMA SeenRow ==
  ASSUME NEW w, IsWindow(w), NEW i \in 1..Len(w), i \notin Fresh(w),
         NEW x, After(w, i - 1, x)
  PROVE  After(w, i, Visit(x, w[i]))
<1>1. /\ x.seen = {BreadcrumbKey(w[j]) : j \in 1..(i - 1)}
      /\ Warned(w, i - 1, x.unlocated) /\ Started(w, i - 1, x.start) /\ IsWalk(x)
  BY DEF After
<1>2. /\ BreadcrumbKey(w[i]) \in x.seen
      /\ x.seen \cup {BreadcrumbKey(w[i])} = {BreadcrumbKey(w[j]) : j \in 1..i}
  BY <1>1, SeenMore
<1>3. Visit(x, w[i]) = x
  BY <1>1, <1>2, VisitIs
<1>4. x.seen = {BreadcrumbKey(w[j]) : j \in 1..i}
  BY <1>2
<1>5. i \notin Moves(w) /\ i \notin Acts(w)
  BY Kinds
<1>6. Started(w, i, x.start)
  BY <1>1, <1>5, StartMore
<1>7. Warned(w, i, x.unlocated)
  <2>1. x.unlocated \in BOOLEAN
    BY <1>1 DEF Warned
  <2>2. QED
    BY <1>1, <2>1, WarnMore
<1>8. \E n \in Nat : \E g : Emits(w, i, g, n, x)
  <2>1. PICK m \in Nat : \E f : Emits(w, i - 1, f, m, x)
    BY DEF After
  <2>2. PICK f : Emits(w, i - 1, f, m, x)
    BY <2>1
  <2>3. QED
    BY <1>5, <2>2, EmitsNoMore
<1>9. QED
  BY <1>1, <1>3, <1>4, <1>6, <1>7, <1>8 DEF After

\* A row of which nothing comes but, of an input, the warning.
LEMMA QuietRow ==
  ASSUME NEW w, IsWindow(w), NEW i \in 1..Len(w), i \in Fresh(w),
         NEW x, After(w, i - 1, x), i \notin Acts(w), NEW y, IsWalk(y),
         y.seen = x.seen \cup {BreadcrumbKey(w[i])}, Started(w, i, y.start),
         y.unlocated \in BOOLEAN, y.unlocated <=> x.unlocated \/ Unlocated(w[i]),
         y.actions = x.actions, y.lastClick = x.lastClick
  PROVE  After(w, i, y)
<1>1. PICK m \in Nat : \E f : Emits(w, i - 1, f, m, x)
  BY DEF After
<1>2. PICK f : Emits(w, i - 1, f, m, x)
  BY <1>1
<1>3. \E n \in Nat : \E g : Emits(w, i, g, n, y)
  BY <1>2, EmitsNoMore
<1>4. QED
  BY <1>3, AfterMore

LEMMA Navigates ==
  ASSUME NEW w, IsWindow(w), NEW i \in 1..Len(w), i \in Fresh(w),
         NEW x, After(w, i - 1, x), w[i].type = "navigation"
  PROVE  After(w, i, GoTo(Noted(x, w[i]), w[i]))
<1> DEFINE item == w[i]
           seen == x.seen \cup {BreadcrumbKey(item)}
           y == GoTo(Noted(x, item), item)
           what == IF x.lastClick = Len(x.actions) THEN "expectUrl" ELSE "navigate"
           action == [kind |-> what, route |-> item.to]
<1>1. /\ item.to \in {None, Unsafe} =>
           y = WalkOf(x.actions, x.start, x.lastClick, seen, x.unlocated)
      /\ item.to \notin {None, Unsafe} /\ x.start = None =>
           y = WalkOf(x.actions, item.to, x.lastClick, seen, x.unlocated)
      /\ item.to \notin {None, Unsafe} /\ x.start # None =>
           y = WalkOf(Append(x.actions, action), x.start, x.lastClick, seen, x.unlocated)
  BY DEF GoTo, Noted, Add, WalkOf
<1>2. Started(w, i - 1, x.start) /\ x.unlocated \in BOOLEAN
  BY DEF After, Warned
<1>3. i \in Moves(w) <=> item.to \notin {None, Unsafe}
  BY Kinds
<1>4. i \in Acts(w) <=> i \in Moves(w) /\ i \notin StartOf(Moves(w))
  BY Kinds
<1>5. ~Unlocated(item)
  BY DEF Unlocated
<1> HIDE DEF y, item
<1>6. CASE item.to \in {None, Unsafe}
  <2>1. y = WalkOf(x.actions, x.start, x.lastClick, seen, x.unlocated)
    BY <1>1, <1>6
  <2>2. Started(w, i, x.start) /\ i \notin Acts(w)
    BY <1>2, <1>3, <1>4, <1>6, StartMore
  <2>3. /\ IsWalk(y) /\ y.actions = x.actions /\ y.start = x.start
        /\ y.lastClick = x.lastClick /\ y.seen = seen /\ y.unlocated = x.unlocated
    BY <2>1 DEF IsWalk, WalkOf
  <2>4. QED
    BY <1>2, <1>5, <2>2, <2>3, QuietRow DEF item, y
<1>7. CASE item.to \notin {None, Unsafe} /\ x.start = None
  <2>1. y = WalkOf(x.actions, item.to, x.lastClick, seen, x.unlocated)
    BY <1>1, <1>7
  <2>2. Started(w, i, item.to) /\ i \notin Acts(w)
    BY <1>2, <1>3, <1>4, <1>7, StartMore DEF item
  <2>3. /\ IsWalk(y) /\ y.actions = x.actions /\ y.start = item.to
        /\ y.lastClick = x.lastClick /\ y.seen = seen /\ y.unlocated = x.unlocated
    BY <2>1 DEF IsWalk, WalkOf
  <2>4. QED
    BY <1>2, <1>5, <2>2, <2>3, QuietRow DEF item, y
<1>8. CASE item.to \notin {None, Unsafe} /\ x.start # None
  <2>1. y = WalkOf(Append(x.actions, action), x.start, x.lastClick, seen, x.unlocated)
    BY <1>1, <1>8
  <2>2. Started(w, i, x.start) /\ i \in Acts(w)
    BY <1>2, <1>3, <1>4, <1>8, StartMore
  <2>3. /\ IsWalk(y) /\ y.actions = Append(x.actions, action) /\ y.start = x.start
        /\ y.lastClick = x.lastClick /\ y.seen = seen /\ y.unlocated = x.unlocated
    BY <2>1 DEF IsWalk, WalkOf
  <2>4. PICK m \in Nat : \E f : Emits(w, i - 1, f, m, x)
    BY DEF After
  <2>5. PICK f : Emits(w, i - 1, f, m, x)
    BY <2>4
  <2>6. action = ActionOf(w, Acts(w), i)
    <3> HIDE DEF action
    <3>0. i \in Acts(w)
      BY <2>2
    <3>1. /\ Len(x.actions) = m
          /\ x.lastClick = m <=> FollowsClick(w, i)
      BY <2>5, <3>0, PreviousAction
    <3>2. ActionOf(w, Acts(w), i) =
            [kind |-> IF FollowsClick(w, i) THEN "expectUrl" ELSE "navigate",
             route |-> w[i].to]
      BY DEF ActionOf, FollowsClick
    <3>3. QED
      BY <3>1, <3>2 DEF item, action
  <2> HIDE DEF action
  <2>7. y.actions = Append(x.actions, ActionOf(w, Acts(w), i))
    BY <2>3, <2>6
  <2>8. ~Fills(w, f[m], i) /\ w[i].type # "click"
    BY DEF Fills
  <2>9. \E n \in Nat : \E g : Emits(w, i, g, n, y)
    BY <2>2, <2>3, <2>5, <2>7, <2>8, EmitsMore
  <2>10. y.seen = x.seen \cup {BreadcrumbKey(w[i])}
    BY <2>3 DEF item
  <2>11. /\ Started(w, i, y.start) /\ y.unlocated \in BOOLEAN
         /\ y.unlocated <=> x.unlocated \/ Unlocated(w[i])
    BY <1>2, <1>5, <2>2, <2>3 DEF item
  <2>12. After(w, i, y)
    BY <2>3, <2>9, <2>10, <2>11, AfterMore
  <2>13. QED
    BY <2>12 DEF y, item
<1>9. QED
  BY <1>6, <1>7, <1>8

LEMMA Clicks ==
  ASSUME NEW w, IsWindow(w), NEW i \in 1..Len(w), i \in Fresh(w),
         NEW x, After(w, i - 1, x), w[i].type = "click"
  PROVE  After(w, i, Click(Noted(x, w[i]), w[i]))
<1> DEFINE item == w[i]
           seen == x.seen \cup {BreadcrumbKey(item)}
           y == Click(Noted(x, item), item)
           locator == SelectLocator(item.candidates)
           action == [kind |-> "click", locator |-> locator]
<1>1. FirstOf(item.candidates, MaxCandidates) = item.candidates
  <2>1. i \in DOMAIN w
    BY ActsAreRows
  <2>2. QED
    BY <2>1 DEF IsWindow
<1>2. y = IF locator = None
            THEN WalkOf(x.actions, x.start, x.lastClick, seen, x.unlocated)
            ELSE WalkOf(Append(x.actions, action), x.start, Len(x.actions) + 1, seen,
                        x.unlocated)
  <2> DEFINE now == Noted(x, item)
             added == WalkOf(Append(x.actions, action), x.start, x.lastClick, seen, x.unlocated)
  <2>1. Click(now, item) =
          IF locator = None THEN now
          ELSE AtClick(Add(now, action), Len(now.actions) + 1)
    BY <1>1 DEF Click, AtClick
  <2>2. Add(now, action) = added /\ now.actions = x.actions
    BY AddTo DEF Noted
  <2>3. AtClick(added, Len(x.actions) + 1) =
          WalkOf(Append(x.actions, action), x.start, Len(x.actions) + 1, seen, x.unlocated)
    BY AddTo
  <2>4. now = WalkOf(x.actions, x.start, x.lastClick, seen, x.unlocated)
    BY DEF Noted
  <2> HIDE DEF now, added, action, locator
  <2>5. QED
    BY <2>1, <2>2, <2>3, <2>4 DEF now
<1>3. Started(w, i - 1, x.start) /\ x.unlocated \in BOOLEAN
  BY DEF After, Warned
<1>4. i \notin Moves(w) /\ (i \in Acts(w) <=> locator # None)
  BY Kinds
<1>5. ~Unlocated(item)
  BY DEF Unlocated
<1>6. Started(w, i, x.start)
  BY <1>3, <1>4, StartMore
<1>7. action = ActionOf(w, Acts(w), i)
  BY DEF ActionOf
<1> HIDE DEF y, item, locator, action
<1>8. CASE locator = None
  <2>1. y = WalkOf(x.actions, x.start, x.lastClick, seen, x.unlocated)
    BY <1>2, <1>8
  <2>2. /\ IsWalk(y) /\ y.actions = x.actions /\ y.start = x.start
        /\ y.lastClick = x.lastClick /\ y.seen = seen /\ y.unlocated = x.unlocated
    BY <2>1 DEF IsWalk, WalkOf
  <2>3. i \notin Acts(w)
    BY <1>4, <1>8
  <2>4. QED
    BY <1>3, <1>5, <1>6, <2>2, <2>3, QuietRow DEF item, y
<1>9. CASE locator # None
  <2>1. y = WalkOf(Append(x.actions, action), x.start, Len(x.actions) + 1, seen, x.unlocated)
    BY <1>2, <1>9
  <2>2. /\ IsWalk(y) /\ y.actions = Append(x.actions, action) /\ y.start = x.start
        /\ y.lastClick = Len(x.actions) + 1 /\ y.seen = seen
        /\ y.unlocated = x.unlocated
    BY <2>1 DEF IsWalk, WalkOf
  <2>3. i \in Acts(w)
    BY <1>4, <1>9
  <2>4. PICK m \in Nat : \E f : Emits(w, i - 1, f, m, x)
    BY DEF After
  <2>5. PICK f : Emits(w, i - 1, f, m, x)
    BY <2>4
  <2>6. Len(x.actions) = m
    BY <2>3, <2>5, PreviousAction
  <2>7. ~Fills(w, f[m], i)
    BY DEF Fills
  <2>8. y.actions = Append(x.actions, ActionOf(w, Acts(w), i)) /\ y.lastClick = m + 1
    BY <1>7, <2>2, <2>6
  <2>9. \E n \in Nat : \E g : Emits(w, i, g, n, y)
    BY <2>3, <2>5, <2>7, <2>8, EmitsMore
  <2>10. y.seen = x.seen \cup {BreadcrumbKey(w[i])}
    BY <2>2 DEF item
  <2>11. /\ Started(w, i, y.start) /\ y.unlocated \in BOOLEAN
         /\ y.unlocated <=> x.unlocated \/ Unlocated(w[i])
    BY <1>3, <1>5, <1>6, <2>2 DEF item
  <2>12. After(w, i, y)
    BY <2>2, <2>9, <2>10, <2>11, AfterMore
  <2>13. QED
    BY <2>12 DEF y, item
<1>10. QED
  BY <1>8, <1>9

LEMMA Inputs ==
  ASSUME NEW w, IsWindow(w), NEW i \in 1..Len(w), i \in Fresh(w),
         NEW x, After(w, i - 1, x), w[i].type = "input"
  PROVE  After(w, i, Input(Noted(x, w[i]), w[i]))
<1> DEFINE item == w[i]
           seen == x.seen \cup {BreadcrumbKey(item)}
           y == Input(Noted(x, item), item)
           locator == InputLocator(item)
           n == Len(x.actions)
           action == [kind |-> "fill", locator |-> locator, value |-> item.value]
           warned == x.unlocated \/ item.hasValue \/ item.value # None
           taken == n > 0 /\ FillOf(x.actions[n], locator)
<1>1. item.hasValue \in BOOLEAN /\ (IF Sensitive(item.value) THEN None ELSE item.value) = item.value
  <2>1. i \in DOMAIN w
    BY ActsAreRows
  <2>2. QED
    BY <2>1 DEF IsWindow
<1>2. Started(w, i - 1, x.start) /\ x.unlocated \in BOOLEAN
  BY DEF After, Warned
<1>3. y = IF locator = None
            THEN WalkOf(x.actions, x.start, x.lastClick, seen, warned)
            ELSE IF taken
              THEN WalkOf(Append(Front(x.actions), action), x.start, x.lastClick, seen,
                          x.unlocated)
              ELSE WalkOf(Append(x.actions, action), x.start, x.lastClick, seen,
                          x.unlocated)
  <2>0. Noted(x, item) = WalkOf(x.actions, x.start, x.lastClick, seen, x.unlocated)
    BY DEF Noted
  <2>1. CASE locator = None
    <3>1. Noted(x, item).unlocated = x.unlocated
      BY DEF Noted, WalkOf
    <3>2. Input(Noted(x, item), item) = Warning(Noted(x, item), warned)
      BY <2>1, <3>1 DEF Input, Warning
    <3>3. Warning(Noted(x, item), warned) =
            WalkOf(x.actions, x.start, x.lastClick, seen, warned)
      BY AddTo DEF Noted
    <3>4. QED
      BY <2>1, <3>2, <3>3
  <2>2. CASE locator # None /\ taken
    <3>1. Collapsed(Noted(x, item), item) =
            WalkOf(Front(x.actions), x.start, x.lastClick, seen, x.unlocated)
      BY <2>2 DEF Collapsed, Noted, WalkOf, FillOf
    <3>2. Add(Collapsed(Noted(x, item), item), action) =
            WalkOf(Append(Front(x.actions), action), x.start, x.lastClick, seen, x.unlocated)
      BY <3>1, AddTo
    <3>3. QED
      BY <1>1, <2>2, <3>2 DEF Input
  <2>3. CASE locator # None /\ ~taken
    <3>1. Collapsed(Noted(x, item), item) = Noted(x, item)
      BY <2>3 DEF Collapsed, Noted, WalkOf, FillOf
    <3>2. Add(Collapsed(Noted(x, item), item), action) =
            WalkOf(Append(x.actions, action), x.start, x.lastClick, seen, x.unlocated)
      BY <2>0, <3>1, AddTo
    <3>3. QED
      BY <1>1, <2>3, <3>2 DEF Input
  <2>4. QED
    BY <2>1, <2>2, <2>3
<1>4. i \notin Moves(w) /\ (i \in Acts(w) <=> locator # None)
  BY Kinds
<1>5. Unlocated(item) <=> locator = None /\ (item.hasValue \/ item.value # None)
  BY DEF Unlocated
<1>6. Started(w, i, x.start)
  BY <1>2, <1>4, StartMore
<1>7. action = ActionOf(w, Acts(w), i)
  BY DEF ActionOf
<1> HIDE DEF y, item, locator, action, taken, warned, n
<1>8. CASE locator = None
  <2>1. y = WalkOf(x.actions, x.start, x.lastClick, seen, warned)
    BY <1>3, <1>8
  <2>2. /\ IsWalk(y) /\ y.actions = x.actions /\ y.start = x.start
        /\ y.lastClick = x.lastClick /\ y.seen = seen /\ y.unlocated = warned
    BY <2>1 DEF IsWalk, WalkOf
  <2>3. warned \in BOOLEAN /\ (warned <=> x.unlocated \/ Unlocated(item))
    BY <1>1, <1>2, <1>5, <1>8 DEF warned
  <2>4. i \notin Acts(w)
    BY <1>4, <1>8
  <2>5. /\ y.unlocated \in BOOLEAN /\ (y.unlocated <=> x.unlocated \/ Unlocated(w[i]))
        /\ y.seen = x.seen \cup {BreadcrumbKey(w[i])} /\ Started(w, i, y.start)
    BY <1>6, <2>2, <2>3, Zenon DEF item
  <2>6. After(w, i, y)
    BY <2>2, <2>4, <2>5, QuietRow
  <2>7. QED
    BY <2>6 DEF y, item
<1>9. CASE locator # None
  <2>1. PICK m \in Nat : \E f : Emits(w, i - 1, f, m, x)
    BY DEF After
  <2>2. PICK f : Emits(w, i - 1, f, m, x)
    BY <2>1
  <2>3. i \in Acts(w)
    BY <1>4, <1>9
  <2>4. n = m /\ (m # 0 => (FillOf(x.actions[m], locator) <=> Fills(w, f[m], i)))
    BY <2>2, <2>3, PreviousAction DEF n, locator, item
  <2>5. taken <=> m # 0 /\ Fills(w, f[m], i)
    BY <2>4 DEF taken
  <2>6. y = WalkOf(IF taken THEN Append(Front(x.actions), action)
                            ELSE Append(x.actions, action),
                   x.start, x.lastClick, seen, x.unlocated)
    BY <1>3, <1>9
  <2>7. /\ IsWalk(y) /\ y.start = x.start /\ y.lastClick = x.lastClick
        /\ y.seen = seen /\ y.unlocated = x.unlocated
        /\ y.actions = IF taken THEN Append(Front(x.actions), action)
                                ELSE Append(x.actions, action)
    BY <2>6 DEF IsWalk, WalkOf
  <2>8. \E k \in Nat : \E g : Emits(w, i, g, k, y)
    <3>1. w[i].type # "click"
      OBVIOUS
    <3>2. CASE taken
      <4>1. m # 0 /\ Fills(w, f[m], i)
        BY <2>5, <3>2
      <4>2. y.actions = Append(Front(x.actions), ActionOf(w, Acts(w), i))
        BY <1>7, <2>7, <3>2
      <4>3. QED
        BY <2>2, <2>3, <2>7, <4>1, <4>2, EmitsMore
    <3>3. CASE ~taken
      <4>1. ~(m # 0 /\ Fills(w, f[m], i))
        BY <2>5, <3>3
      <4>2. y.actions = Append(x.actions, ActionOf(w, Acts(w), i))
        BY <1>7, <2>7, <3>3
      <4>3. y.lastClick = IF w[i].type = "click" THEN m + 1 ELSE x.lastClick
        BY <2>7, <3>1
      <4>4. QED
        BY <2>2, <2>3, <4>1, <4>2, <4>3, EmitsMore
    <3>4. QED
      BY <3>2, <3>3
  <2>9. ~Unlocated(w[i])
    BY <1>5, <1>9 DEF item
  <2>10. /\ y.unlocated \in BOOLEAN /\ (y.unlocated <=> x.unlocated \/ Unlocated(w[i]))
         /\ y.seen = x.seen \cup {BreadcrumbKey(w[i])} /\ Started(w, i, y.start)
    BY <1>2, <1>6, <2>7, <2>9 DEF item
  <2>11. After(w, i, y)
    BY <2>7, <2>8, <2>10, AfterMore
  <2>12. QED
    BY <2>11 DEF y, item
<1>10. QED
  BY <1>8, <1>9

\* Every turn of the loop.
LEMMA Turn ==
  ASSUME NEW w, IsWindow(w), NEW i \in 1..Len(w), NEW x, After(w, i - 1, x)
  PROVE  After(w, i, Visit(x, w[i]))
<1>1. IsWalk(x) /\ x.seen = {BreadcrumbKey(w[j]) : j \in 1..(i - 1)}
  BY DEF After
<1>2. BreadcrumbKey(w[i]) \in x.seen <=> i \notin Fresh(w)
  BY <1>1, SeenMore
<1>3. CASE i \notin Fresh(w)
  BY <1>3, SeenRow
<1>4. CASE i \in Fresh(w) /\ w[i].type = "navigation"
  BY <1>1, <1>2, <1>4, Navigates, VisitIs
<1>5. CASE i \in Fresh(w) /\ w[i].type = "click"
  BY <1>1, <1>2, <1>5, Clicks, VisitIs
<1>6. CASE i \in Fresh(w) /\ w[i].type = "input"
  BY <1>1, <1>2, <1>6, Inputs, VisitIs
<1>7. CASE i \in Fresh(w) /\ w[i].type \notin {"navigation", "click", "input"}
  <2> DEFINE y == Noted(x, w[i])
  <2>1. Visit(x, w[i]) = y
    BY <1>1, <1>2, <1>7, VisitIs
  <2>2. /\ IsWalk(y) /\ y.actions = x.actions /\ y.start = x.start
        /\ y.lastClick = x.lastClick /\ y.unlocated = x.unlocated
        /\ y.seen = x.seen \cup {BreadcrumbKey(w[i])}
    BY DEF IsWalk, WalkOf, Noted
  <2>3. Started(w, i - 1, x.start) /\ x.unlocated \in BOOLEAN
    BY DEF After, Warned
  <2>4. i \notin Moves(w) /\ i \notin Acts(w)
    BY <1>7, Kinds
  <2>5. Started(w, i, x.start)
    BY <2>3, <2>4, StartMore
  <2>6. ~Unlocated(w[i])
    BY <1>7 DEF Unlocated
  <2> HIDE DEF y
  <2>7. After(w, i, y)
    BY <1>7, <2>2, <2>3, <2>4, <2>5, <2>6, QuietRow
  <2>8. QED
    BY <2>1, <2>7
<1>8. QED
  BY <1>3, <1>4, <1>5, <1>6, <1>7

-----------------------------------------------------------------------------
\* The loop

LEMMA Begun ==
  ASSUME NEW w, IsWindow(w)
  PROVE  After(w, 0, Begin)
<1> DEFINE f == [k \in 1..0 |-> 0]
<1>1. \A j \in Fresh(w) : j \in Nat /\ 0 < j /\ ~(j <= 0)
  BY ActsAreRows
<1>2. /\ IsWalk(Begin) /\ Begin.actions = <<>> /\ Begin.start = None
      /\ Begin.lastClick = 0 /\ Begin.seen = {} /\ Begin.unlocated = FALSE
  BY DEF Begin, IsWalk, WalkOf
<1>3. Begin.seen = {BreadcrumbKey(w[j]) : j \in 1..0}
  BY <1>2
<1>4. Started(w, 0, Begin.start)
  BY <1>1, <1>2, ActsAreRows DEF Started
<1>5. Warned(w, 0, Begin.unlocated)
  BY <1>1, <1>2 DEF Warned
<1>6. ActsTo(w, 0) = {} /\ Keeps(w, ActsTo(w, 0)) = {}
  BY DEF ActsTo, Keeps
<1>7. Lists(f, 0, {})
  BY DEF Lists
<1>8. Actions(w, f, 0) = <<>>
  BY DEF Actions
<1> HIDE DEF f
<1>9. Emits(w, 0, f, 0, Begin)
  <2>1. Lists(f, 0, Keeps(w, ActsTo(w, 0)))
    BY <1>6, <1>7
  <2>2. Begin.actions = Actions(w, f, 0)
    BY <1>2, <1>8
  <2>3. Begin.lastClick \in 0..0 /\ Begin.lastClick = 0
    BY <1>2
  <2>4. LastIsClick(w, ActsTo(w, 0))
    BY <1>6 DEF LastIsClick
  <2>5. QED
    BY <2>1, <2>2, <2>3, <2>4 DEF Emits
<1>10. QED
  BY <1>2, <1>3, <1>4, <1>5, <1>9 DEF After

\* There is a function that is the walk after each of the rows.
Walking(w, n, m, f) ==
  f = [i \in 0..n |-> IF i = 0 THEN Begin
                      ELSE IF i <= m THEN Visit(f[i - 1], w[i]) ELSE None]

LEMMA Walks ==
  ASSUME NEW w, NEW n \in Nat
  PROVE  \E f : f = [i \in 0..n |-> IF i = 0 THEN Begin ELSE Visit(f[i - 1], w[i])]
<1> DEFINE G == {m \in 0..n : \E f : Walking(w, n, m, f)}
<1>1. 0 \in G
  <2> DEFINE f == [i \in 0..n |-> IF i = 0 THEN Begin ELSE None]
  <2>1. \A i \in 0..n : i <= 0 <=> i = 0
    OBVIOUS
  <2>2. Walking(w, n, 0, f)
    BY <2>1 DEF Walking
  <2>3. QED
    BY <2>2
<1>2. ASSUME NEW m \in 1..n, m - 1 \in G
      PROVE  m \in G
  <2>1. PICK f : Walking(w, n, m - 1, f)
    BY <1>2
  <2> DEFINE g == [i \in 0..n |-> IF i = m THEN Visit(f[m - 1], w[m]) ELSE f[i]]
  <2>2. \A i \in 0..n : f[i] = IF i = 0 THEN Begin
                               ELSE IF i <= m - 1 THEN Visit(f[i - 1], w[i]) ELSE None
    BY <2>1 DEF Walking
  <2>3. \A i \in 0..n : g[i] = IF i = 0 THEN Begin
                               ELSE IF i <= m THEN Visit(g[i - 1], w[i]) ELSE None
    <3> SUFFICES ASSUME NEW i \in 0..n
                 PROVE  g[i] = IF i = 0 THEN Begin
                               ELSE IF i <= m THEN Visit(g[i - 1], w[i]) ELSE None
      OBVIOUS
    <3>1. CASE i = 0
      BY <2>2, <3>1
    <3>2. CASE i # 0 /\ i < m
      <4>1. i - 1 \in 0..n /\ g[i - 1] = f[i - 1] /\ g[i] = f[i] /\ i <= m - 1 /\ i <= m
        BY <3>2
      <4> HIDE DEF g
      <4>2. QED
        BY <2>2, <3>2, <4>1
    <3>3. CASE i = m
      <4>1. i - 1 \in 0..n /\ g[i - 1] = f[i - 1] /\ g[i] = Visit(f[m - 1], w[m])
        BY <3>3
      <4> HIDE DEF g
      <4>2. QED
        BY <3>3, <4>1
    <3>4. CASE i > m
      <4>1. g[i] = f[i] /\ ~(i <= m - 1) /\ ~(i <= m) /\ i # 0
        BY <3>4
      <4> HIDE DEF g
      <4>2. QED
        BY <2>2, <4>1
    <3>5. QED
      BY <3>1, <3>2, <3>3, <3>4
  <2>4. g = [i \in 0..n |-> g[i]]
    OBVIOUS
  <2> HIDE DEF g
  <2>5. Walking(w, n, m, g)
    BY <2>3, <2>4 DEF Walking
  <2>6. QED
    BY <2>5
<1> HIDE DEF G
<1>3. n \in G
  BY <1>1, <1>2, CountUp
<1>4. PICK f : Walking(w, n, n, f)
  BY <1>3 DEF G
<1>5. f = [i \in 0..n |-> IF i = 0 THEN Begin ELSE Visit(f[i - 1], w[i])]
  BY <1>4 DEF Walking
<1>6. QED
  BY <1>5

\* The plan of a window is what the walk has come to after its last row.
LEMMA PlanAfter ==
  ASSUME NEW w, IsWindow(w)
  PROVE  \E end : After(w, Len(w), end) /\ PlanOf(w) = PlanAt(w, end)
<1> DEFINE n == Len(w)
           walk == CHOOSE f : f = [i \in 0..n |-> IF i = 0 THEN Begin
                                                  ELSE Visit(f[i - 1], w[i])]
           G == {i \in 0..n : After(w, i, walk[i])}
<1>1. n \in Nat
  BY ActsAreRows
<1>2. walk = [i \in 0..n |-> IF i = 0 THEN Begin ELSE Visit(walk[i - 1], w[i])]
  BY <1>1, Walks
<1>3. PlanOf(w) = PlanAt(w, walk[n])
  BY DEF PlanOf
<1> HIDE DEF walk
<1>4. walk[0] = Begin /\ \A i \in 1..n : walk[i] = Visit(walk[i - 1], w[i])
  BY <1>1, <1>2
<1>5. 0 \in G
  BY <1>1, <1>4, Begun
<1>6. ASSUME NEW i \in 1..n, i - 1 \in G
      PROVE  i \in G
  BY <1>4, <1>6, Turn
<1>7. n \in G
  <2> HIDE DEF G, n
  <2>1. QED
    BY <1>1, <1>5, <1>6, CountUp
<1>8. QED
  BY <1>3, <1>7

-----------------------------------------------------------------------------
\* The plan of a window

\* What a turn adds is what the row may become: only one row precedes it.
LEMMA ActionAllowed ==
  ASSUME NEW w, IsWindow(w), NEW i \in Acts(w)
  PROVE  ActionOf(w, Acts(w), i) \in ActionsOf(w, Acts(w), i)
<1> DEFINE acts == Acts(w)
<1>1. \A j \in acts : j \in Nat
  BY ActsAreRows
<1> HIDE DEF acts
<1>2. ASSUME NEW j \in acts, NEW k \in acts, Adjacent(acts, j, i), Adjacent(acts, k, i)
      PROVE  j = k
  <2>1. (k <= j \/ i <= k) /\ (j <= k \/ i <= j) /\ j < i /\ k < i
    BY <1>2 DEF Adjacent
  <2>2. j \in Nat /\ k \in Nat /\ i \in Nat
    BY <1>1 DEF acts
  <2>3. QED
    BY <2>1, <2>2
<1> DEFINE made == IF \A j \in acts : Adjacent(acts, j, i) => w[j].type = "click"
                     THEN "expectUrl" ELSE "navigate"
<1>3. made \in {k \in {"expectUrl", "navigate"} :
         \A j \in acts : Adjacent(acts, j, i) => (k = "expectUrl" <=> w[j].type = "click")}
  BY <1>2
<1>4. QED
  BY <1>3 DEF ActionOf, ActionsOf, acts

\* The plan of a window is what it has to be.
LEMMA WindowFollowed ==
  ASSUME NEW w, IsWindow(w)
  PROVE  Follows(w, PlanOf(w))
<1> DEFINE start == StartOf(Moves(w))
           acts == Acts(w)
           kept == Keeps(w, acts)
           order == Increasing(kept)
           n == Len(w)
<1>1. PICK end : After(w, n, end) /\ PlanOf(w) = PlanAt(w, end)
  BY PlanAfter
<1>2. PICK m \in Nat : \E f : Emits(w, n, f, m, end)
  BY <1>1 DEF After
<1>3. PICK f : Emits(w, n, f, m, end)
  BY <1>2
<1>4. n \in Nat /\ acts \subseteq 1..n /\ ActsTo(w, n) = acts
  BY ActsAreRows DEF ActsTo
<1>5. Lists(f, m, kept) /\ end.actions = Actions(w, f, m)
  BY <1>3, <1>4 DEF Emits
<1>6. m = Cardinality(kept) /\ f = order
  <2>1. kept \subseteq 1..n
    BY <1>4 DEF Keeps
  <2>2. IsFiniteSet(1..n)
    BY <1>4, FS_Interval
  <2>3. \A i \in kept : i \in Nat
    BY <1>4, <2>1
  <2> HIDE DEF kept, n
  <2>4. IsFiniteSet(kept)
    BY <2>1, <2>2, FS_Subset
  <2>5. QED
    BY <1>5, <2>3, <2>4, ListsIncreasing
<1>7. Len(end.actions) = m /\ DOMAIN order = 1..m
  <2>1. Len(Actions(w, f, m)) = m
    BY ActionsMore
  <2>2. DOMAIN f = 1..m
    BY <1>5 DEF Lists
  <2> HIDE DEF order
  <2>3. QED
    BY <1>5, <1>6, <2>1, <2>2
<1>8. end.actions = [k \in DOMAIN order |-> ActionOf(w, acts, order[k])]
  BY <1>5, <1>6, <1>7 DEF Actions
<1> HIDE DEF order, kept, acts, start, n
<1>9. CASE Cardinality(kept) > MaxActions
  <2>1. PlanOf(w) = TooManyActions
    BY <1>1, <1>6, <1>7, <1>9 DEF PlanAt
  <2>2. QED
    BY <1>9, <2>1 DEF Follows, kept, acts, Keeps, Acts
<1>10. CASE ~(Cardinality(kept) > MaxActions)
  <2> DEFINE plan == PlanOf(w)
             missing == \E i \in DOMAIN end.actions :
               end.actions[i].kind = "fill" /\ end.actions[i].value = None
  <2>1. /\ plan # TooManyActions /\ plan.actions = end.actions
        /\ end.start # None => plan.start = end.start
        /\ plan.redacted = (end.unlocated \/ missing)
    <3> DEFINE page == IF Len(w) = 0 THEN None ELSE w[Len(w)].page
               from == IF end.start # None THEN end.start
                       ELSE IF page \notin {None, Unsafe} THEN page ELSE Home
               redacted == end.unlocated \/ missing
    <3>1. plan = [start |-> from, actions |-> end.actions, redacted |-> redacted]
      BY <1>1, <1>6, <1>7, <1>10 DEF PlanAt
    <3>2. end.start # None => from = end.start
      OBVIOUS
    <3> HIDE DEF plan, missing, from, redacted
    <3>3. /\ plan.actions = end.actions /\ plan.start = from /\ plan.redacted = redacted
          /\ plan # TooManyActions
      BY <3>1 DEF TooManyActions
    <3>4. QED
      BY <3>2, <3>3 DEF redacted
  <2>2. ASSUME NEW i \in start
        PROVE  plan.start = w[i].to
    <3>1. i \in Moves(w) /\ (\A j \in Moves(w) : i <= j) /\ i \in Nat /\ i <= n
      BY <1>4, ActsAreRows DEF start, StartOf, n
    <3>2. PICK s \in Moves(w) : (\A j \in Moves(w) : s <= j) /\ end.start = w[s].to
      <4>1. Started(w, n, end.start)
        BY <1>1 DEF After
      <4>2. ~\A j \in Moves(w) : n < j
        BY <1>4, <3>1
      <4>3. QED
        BY <4>1, <4>2 DEF Started
    <3>3. s \in Nat /\ s <= i /\ i <= s
      BY <3>1, <3>2, ActsAreRows
    <3>4. s = i
      BY <3>1, <3>3
    <3>5. w[i].to # None
      BY <3>1 DEF Moves
    <3>6. QED
      BY <2>1, <3>2, <3>4, <3>5
  <2>3. \A k \in DOMAIN order : order[k] \in kept
    BY <1>5, <1>6, <1>7 DEF Lists
  <2>4. \A i \in kept : \E k \in DOMAIN order : order[k] = i
    BY <1>5, <1>6, <1>7 DEF Lists
  <2>5. \A i \in kept : i \in Fresh(w) /\ (w[i].type = "input" => InputLocator(w[i]) # None)
    BY Kinds DEF kept, acts, Keeps
  <2>6. \A i \in kept : /\ ActionOf(w, acts, i).kind = "fill" <=> w[i].type = "input"
                        /\ w[i].type = "input" => ActionOf(w, acts, i).value = w[i].value
    BY DEF ActionOf
  <2>7. missing <=> \E i \in kept : w[i].type = "input" /\ w[i].value = None
    <3>1. missing <=> \E k \in DOMAIN order :
                        /\ ActionOf(w, acts, order[k]).kind = "fill"
                        /\ ActionOf(w, acts, order[k]).value = None
      BY <1>8
    <3>2. QED
      BY <2>3, <2>4, <2>6, <3>1
  <2>8. end.unlocated \in BOOLEAN /\
          (end.unlocated <=> \E j \in Fresh(w) : Unlocated(w[j]))
    <3>1. Warned(w, n, end.unlocated)
      BY <1>1 DEF After
    <3>2. \A j \in Fresh(w) : j <= n
      BY ActsAreRows DEF n
    <3>3. QED
      BY <3>1, <3>2 DEF Warned
  <2> HIDE DEF plan, missing
  <2>9. plan.redacted <=>
          \E i \in Fresh(w) : w[i].type = "input" /\
            IF InputLocator(w[i]) = None THEN w[i].hasValue \/ w[i].value # None
            ELSE i \in kept /\ w[i].value = None
    <3>1. plan.redacted <=> \/ \E i \in Fresh(w) : Unlocated(w[i])
                            \/ \E i \in kept : w[i].type = "input" /\ w[i].value = None
      BY <2>1, <2>7, <2>8
    <3>2. QED
      BY <2>5, <3>1 DEF Unlocated
  <2>10. /\ plan # TooManyActions /\ (\A i \in start : plan.start = w[i].to)
         /\ DOMAIN plan.actions = DOMAIN order
         /\ \A k \in DOMAIN order : plan.actions[k] \in ActionsOf(w, acts, order[k])
    <3>1. \A k \in DOMAIN order : order[k] \in Acts(w)
      BY <2>3 DEF kept, Keeps, acts
    <3>2. plan.actions = [k \in DOMAIN order |-> ActionOf(w, acts, order[k])]
      BY <1>8, <2>1
    <3>3. \A k \in DOMAIN order : ActionOf(w, acts, order[k]) \in ActionsOf(w, acts, order[k])
      BY <3>1, ActionAllowed DEF acts
    <3>4. QED
      BY <2>1, <2>2, <3>2, <3>3
  <2>11. QED
    BY <1>10, <2>9, <2>10 DEF Follows, order, kept, acts, start, Keeps, Acts, plan
<1>11. QED
  BY <1>9, <1>10

-----------------------------------------------------------------------------
\* The window of a session

LEMMA FirstOfIs ==
  ASSUME NEW S, NEW s \in Seq(S), NEW n \in Nat
  PROVE  FirstOf(s, n) \in Seq(S) /\ FirstOf(FirstOf(s, n), n) = FirstOf(s, n)
<1>1. CASE Len(s) > n
  <2>1. n \in Int /\ 1 \in Int /\ \A i \in 1..n : s[i] \in S
    BY <1>1
  <2>2. SubSeq(s, 1, n) \in Seq(S) /\ Len(SubSeq(s, 1, n)) = IF 1 <= n THEN n - 1 + 1 ELSE 0
    BY <2>1, SubSeqProperties
  <2>3. ~(Len(SubSeq(s, 1, n)) > n)
    BY <2>2
  <2>4. QED
    BY <1>1, <2>2, <2>3 DEF FirstOf
<1>2. CASE ~(Len(s) > n)
  BY <1>2 DEF FirstOf
<1>3. QED
  BY <1>1, <1>2

LEMMA LastOfIs ==
  ASSUME NEW S, NEW s \in Seq(S), NEW n \in Nat
  PROVE  LastOf(s, n) \in Seq(S)
<1>1. CASE Len(s) > n
  <2>1. /\ Len(s) - n + 1 \in Int /\ Len(s) \in Int
        /\ \A i \in (Len(s) - n + 1)..Len(s) : s[i] \in S
    BY <1>1
  <2>2. SubSeq(s, Len(s) - n + 1, Len(s)) \in Seq(S)
    BY <2>1, SubSeqProperties
  <2>3. QED
    BY <1>1, <2>2 DEF LastOf
<1>2. CASE ~(Len(s) > n)
  BY <1>2 DEF LastOf
<1>3. QED
  BY <1>1, <1>2

LEMMA PickedInOrder ==
  ASSUME NEW S, NEW s \in Seq(S), NEW I \in SUBSET DOMAIN s, NEW before,
         TotalOn(I, before)
  PROVE  Pick(s, InOrder(I, before)) \in Seq(S)
<1>1. IsFiniteSet(I)
  BY PositionsFinite
<1>2. Cardinality(I) \in Nat /\ InOrder(I, before) \in [1..Cardinality(I) -> I]
  BY <1>1, InOrderIs, FS_CardinalityType
<1>3. QED
  BY <1>2, PickIs

LEMMA Filtered ==
  ASSUME NEW S, NEW s \in Seq(S), NEW I \in SUBSET DOMAIN s
  PROVE  Filter(s, I) \in Seq(S)
<1> DEFINE before == {p \in I \X I : p[1] < p[2]}
<1>1. \A i, j \in I : <<i, j>> \in before <=> i < j
  OBVIOUS
<1>2. \A i \in I : i \in Nat
  BY PositionsFinite
<1> HIDE DEF before
<1>3. TotalOn(I, before)
  BY <1>1, <1>2 DEF TotalOn
<1>4. Pick(s, InOrder(I, before)) \in Seq(S)
  BY <1>3, PickedInOrder
<1>5. QED
  BY <1>4 DEF Filter, Increasing, before

\* Numbers, and what is left to the positions, order all rows.
LEMMA RowsTotal ==
  ASSUME NEW s, NEW I, \A i \in I : i \in Nat,
         \A i \in I : s[i].seq \in Nat /\ s[i].at \in Nat /\ s[i].id \in Nat
  PROVE  /\ TotalOn(I, {p \in I \X I :
              \/ ListedBefore(s[p[1]], s[p[2]])
              \/ ~ListedBefore(s[p[2]], s[p[1]]) /\ p[1] < p[2]})
         /\ TotalOn(I, {p \in I \X I :
              \/ Earlier(s[p[1]], s[p[2]])
              \/ ~Earlier(s[p[2]], s[p[1]]) /\ p[1] < p[2]})
<1> DEFINE Listed == {p \in I \X I :
             \/ ListedBefore(s[p[1]], s[p[2]])
             \/ ~ListedBefore(s[p[2]], s[p[1]]) /\ p[1] < p[2]}
           Ordered == {p \in I \X I :
             \/ Earlier(s[p[1]], s[p[2]])
             \/ ~Earlier(s[p[2]], s[p[1]]) /\ p[1] < p[2]}
<1>1. ASSUME NEW i \in I, NEW j \in I
      PROVE  /\ <<i, j>> \in Listed <=>
                  \/ ListedBefore(s[i], s[j])
                  \/ ~ListedBefore(s[j], s[i]) /\ i < j
             /\ <<i, j>> \in Ordered <=>
                  \/ Earlier(s[i], s[j])
                  \/ ~Earlier(s[j], s[i]) /\ i < j
  OBVIOUS
<1> HIDE DEF Listed, Ordered
<1>2. TotalOn(I, Listed)
  <2>1. \A i, j, k \in I : <<i, j>> \in Listed /\ <<j, k>> \in Listed => <<i, k>> \in Listed
    BY <1>1 DEF ListedBefore
  <2>2. \A i \in I : <<i, i>> \notin Listed
    BY <1>1 DEF ListedBefore
  <2>3. \A i, j \in I : i # j => <<i, j>> \in Listed \/ <<j, i>> \in Listed
    BY <1>1 DEF ListedBefore
  <2>4. QED
    BY <2>1, <2>2, <2>3 DEF TotalOn
<1>3. TotalOn(I, Ordered)
  <2>1. \A i, j, k \in I : <<i, j>> \in Ordered /\ <<j, k>> \in Ordered => <<i, k>> \in Ordered
    BY <1>1 DEF Earlier
  <2>2. \A i \in I : <<i, i>> \notin Ordered
    BY <1>1 DEF Earlier
  <2>3. \A i, j \in I : i # j => <<i, j>> \in Ordered \/ <<j, i>> \in Ordered
    BY <1>1 DEF Earlier
  <2>4. QED
    BY <2>1, <2>2, <2>3 DEF TotalOn
<1>4. QED
  BY <1>2, <1>3 DEF Listed, Ordered

\* A row as it leaves the worker.
IsEvidence(item) ==
  /\ item.seq \in Nat /\ item.at \in Nat /\ item.id \in Nat
  /\ item.type = "click" => FirstOf(item.candidates, MaxCandidates) = item.candidates
  /\ item.type = "input" =>
       item.hasValue \in BOOLEAN /\ (Sensitive(item.value) => item.value = None)

LEMMA SanitizedRow ==
  ASSUME MaxCandidates \in Nat, NEW item, IsRow(item)
  PROVE  IsEvidence(Sanitized(item))
<1> DEFINE clean == Sanitized(item)
<1>1. CASE item.type = "click"
  <2> DEFINE kept == FirstOf(Filter(item.candidates, Safe(item.candidates)), MaxCandidates)
  <2>1. /\ {"seq", "at", "id", "type"} \subseteq DOMAIN item /\ "candidates" \in DOMAIN item
        /\ item.seq \in Nat /\ item.at \in Nat /\ item.id \in Nat
        /\ IsCandidates(item.candidates)
    BY <1>1 DEF IsRow
  <2>2. clean = [item EXCEPT !.candidates = kept]
    BY <1>1 DEF Sanitized
  <2>3. FirstOf(kept, MaxCandidates) = kept
    <3>1. item.candidates \in Seq(Range(item.candidates))
      BY <2>1 DEF IsCandidates
    <3>2. Safe(item.candidates) \in SUBSET DOMAIN item.candidates
      BY DEF Safe
    <3>3. Filter(item.candidates, Safe(item.candidates)) \in Seq(Range(item.candidates))
      BY <3>1, <3>2, Filtered
    <3>4. QED
      BY <3>3, FirstOfIs
  <2> HIDE DEF kept, clean
  <2>4. /\ clean.seq = item.seq /\ clean.at = item.at /\ clean.id = item.id
        /\ clean.type = "click" /\ clean.candidates = kept
    BY <1>1, <2>1, <2>2
  <2>5. QED
    BY <2>1, <2>3, <2>4 DEF IsEvidence, clean
<1>2. CASE item.type = "input"
  <2> DEFINE value == IF Sensitive(item.value) THEN None ELSE item.value
  <2>1. /\ {"seq", "at", "id", "type"} \subseteq DOMAIN item /\ "value" \in DOMAIN item
        /\ item.seq \in Nat /\ item.at \in Nat /\ item.id \in Nat
        /\ item.hasValue \in BOOLEAN
    BY <1>2 DEF IsRow
  <2>2. clean = [item EXCEPT !.value = value]
    BY <1>2 DEF Sanitized
  <2>3. Sensitive(value) => value = None
    OBVIOUS
  <2> HIDE DEF value, clean
  <2>4. /\ clean.seq = item.seq /\ clean.at = item.at /\ clean.id = item.id
        /\ clean.type = "input" /\ clean.value = value
        /\ clean.hasValue = item.hasValue
    BY <1>2, <2>1, <2>2
  <2>5. QED
    BY <2>1, <2>3, <2>4 DEF IsEvidence, clean
<1>3. CASE item.type \notin {"click", "input"}
  BY <1>3 DEF IsRow, IsEvidence, Sanitized
<1>4. QED
  BY <1>1, <1>2, <1>3

\* Collecting the evidence and cutting the window lose and gain nothing but rows.
LEMMA EvidenceRows ==
  ASSUME TimelineWindow \in Nat, MaxCandidates \in Nat,
         NEW session, IsSession(session), NEW failure
  PROVE  \E S : /\ \A item \in S : IsEvidence(item)
                /\ Evidence(session, failure) \in Seq(S)
<1> DEFINE R == Range(session)
           S == {Sanitized(item) : item \in R}
           upTo == {i \in DOMAIN session : session[i].seq <= failure.seq}
           sorted == Sort(session, upTo, ListedBefore)
           window == LastOf(sorted, TimelineWindow)
<1>1. session \in Seq(R) /\ \A i \in DOMAIN session : IsRow(session[i])
  BY DEF IsSession
<1>2. \A item \in R : IsRow(item)
  BY <1>1 DEF Range
<1>3. \A item \in S : IsEvidence(item)
  BY <1>2, SanitizedRow
<1>4. upTo \in SUBSET DOMAIN session
  OBVIOUS
<1>5. \A i \in upTo : /\ i \in Nat
                      /\ session[i].seq \in Nat /\ session[i].at \in Nat
                      /\ session[i].id \in Nat
  <2>1. \A i \in upTo : i \in DOMAIN session
    OBVIOUS
  <2> HIDE DEF R, upTo
  <2>2. \A i \in upTo : i \in Nat
    BY <1>1, <1>4, PositionsFinite
  <2>3. QED
    BY <1>1, <2>1, <2>2 DEF IsRow
<1>6. sorted \in Seq(R)
  <2> DEFINE before == {p \in upTo \X upTo :
        \/ ListedBefore(session[p[1]], session[p[2]])
        \/ ~ListedBefore(session[p[2]], session[p[1]]) /\ p[1] < p[2]}
  <2>1. sorted = Pick(session, InOrder(upTo, before))
    BY DEF Sort
  <2> HIDE DEF upTo, R
  <2>2. TotalOn(upTo, before)
    BY <1>5, RowsTotal
  <2> HIDE DEF before, sorted
  <2>3. Pick(session, InOrder(upTo, before)) \in Seq(R)
    BY <1>1, <1>4, <2>2, PickedInOrder
  <2>4. QED
    BY <2>1, <2>3
<1> HIDE DEF sorted
<1>7. window \in Seq(R)
  <2> HIDE DEF R
  <2>1. QED
    BY <1>6, LastOfIs
<1>8. Evidence(session, failure) = [i \in DOMAIN window |-> Sanitized(window[i])]
  BY DEF Evidence, sorted
<1> HIDE DEF window
<1>9. [i \in DOMAIN window |-> Sanitized(window[i])] \in Seq(S)
  <2>1. Len(window) \in Nat /\ DOMAIN window = 1..Len(window)
        /\ \A i \in DOMAIN window : window[i] \in R
    BY <1>7
  <2>2. \A i \in DOMAIN window : Sanitized(window[i]) \in S
    BY <2>1
  <2> HIDE DEF S
  <2>3. QED
    BY <2>1, <2>2
<1>10. QED
  BY <1>3, <1>8, <1>9

LEMMA WindowRows ==
  ASSUME TimelineWindow \in Nat, NEW S, \A item \in S : IsEvidence(item),
         NEW timeline \in Seq(S)
  PROVE  Windowed(timeline) \in Seq(S)
<1> DEFINE D == DOMAIN timeline
           ordered == Sort(timeline, D, Earlier)
           window == LastOf(ordered, TimelineWindow)
           cut == SubSeq(ordered, 1, Len(ordered) - Len(window))
           I == {i \in 1..Len(cut) : cut[i].type = "navigation"}
           nav == IF I # {} THEN Max(I) ELSE 0
<1>1. \A i \in D : i \in Nat /\ timeline[i] \in S
  BY PositionsFinite
<1>2. ordered \in Seq(S)
  <2> DEFINE before == {p \in D \X D :
        \/ Earlier(timeline[p[1]], timeline[p[2]])
        \/ ~Earlier(timeline[p[2]], timeline[p[1]]) /\ p[1] < p[2]}
  <2>1. ordered = Pick(timeline, InOrder(D, before))
    BY DEF Sort
  <2>2. \A i \in D : timeline[i].seq \in Nat /\ timeline[i].at \in Nat /\ timeline[i].id \in Nat
    BY <1>1 DEF IsEvidence
  <2> HIDE DEF D
  <2>3. TotalOn(D, before)
    BY <1>1, <2>2, RowsTotal
  <2> HIDE DEF before, ordered
  <2>4. D \in SUBSET DOMAIN timeline
    BY DEF D
  <2>5. Pick(timeline, InOrder(D, before)) \in Seq(S)
    BY <2>3, <2>4, PickedInOrder
  <2>6. QED
    BY <2>1, <2>5
<1> HIDE DEF ordered
<1>3. window \in Seq(S)
  BY <1>2, LastOfIs
<1> HIDE DEF window
<1>4. cut \in Seq(S) /\ Len(cut) \in Nat
  <2>1. /\ 1 \in Int /\ Len(ordered) - Len(window) \in Int
        /\ Len(window) \in Nat /\ Len(ordered) \in Nat
    BY <1>2, <1>3
  <2>2. \A i \in 1..(Len(ordered) - Len(window)) : ordered[i] \in S
    BY <1>2, <2>1
  <2>3. cut \in Seq(S)
    BY <2>1, <2>2, SubSeqProperties
  <2>4. QED
    BY <2>3
<1>5. Windowed(timeline) =
        IF nav # 0 /\ \A i \in DOMAIN window : window[i].type # "navigation"
          THEN LastOf(<<cut[nav]>> \o window, TimelineWindow)
          ELSE window
  BY DEF Windowed, SelectLastInSeq, ordered, window
<1>6. nav # 0 => cut[nav] \in S
  <2> HIDE DEF cut
  <2>1. ASSUME I # {}
        PROVE  Max(I) \in 1..Len(cut)
    <3>1. I \in SUBSET (0..Len(cut)) /\ I \subseteq 1..Len(cut)
      BY <1>4
    <3> HIDE DEF I
    <3>2. \E i \in I : \A j \in I : j <= i
      BY <1>4, <2>1, <3>1, GreatestNumber
    <3>3. \E i \in I : \A j \in I : i >= j
      BY <3>1, <3>2
    <3>4. Max(I) \in I
      BY <3>3 DEF Max
    <3>5. QED
      BY <3>1, <3>4
  <2> HIDE DEF I
  <2>2. nav # 0 => nav \in 1..Len(cut)
    BY <2>1
  <2> HIDE DEF nav
  <2>3. QED
    BY <1>4, <2>2
<1> HIDE DEF nav, cut
<1>7. nav # 0 => LastOf(<<cut[nav]>> \o window, TimelineWindow) \in Seq(S)
  <2> SUFFICES ASSUME nav # 0
               PROVE  LastOf(<<cut[nav]>> \o window, TimelineWindow) \in Seq(S)
    OBVIOUS
  <2>1. <<cut[nav]>> \in Seq(S)
    BY <1>6
  <2>2. <<cut[nav]>> \o window \in Seq(S)
    BY <1>3, <2>1, ConcatProperties
  <2>3. QED
    BY <2>2, LastOfIs
<1>8. QED
  BY <1>3, <1>5, <1>7

LEMMA PlanFollowsEvidence ==
  ASSUME TimelineWindow \in Nat, MaxCandidates \in Nat, NEW s, IsSession(s), NEW event
  PROVE  Follows(Windowed(Evidence(s, event)), BuildReproductionPlan(Evidence(s, event)))
<1> DEFINE evidence == Evidence(s, event)
           w == Windowed(evidence)
<1>1. PICK S : (\A item \in S : IsEvidence(item)) /\ evidence \in Seq(S)
  BY EvidenceRows
<1> HIDE DEF evidence
<1>2. w \in Seq(S)
  BY <1>1, WindowRows
<1> HIDE DEF w
<1>3. w \in Seq(Range(w))
  BY <1>2, SeqOfRange
<1>4. \A i \in DOMAIN w : IsEvidence(w[i])
  BY <1>1, <1>2
<1>5. IsWindow(w)
  BY <1>3, <1>4 DEF IsWindow, IsEvidence
<1>6. Follows(w, PlanOf(w))
  BY <1>5, WindowFollowed
<1>7. QED
  BY <1>6, PlanOfWindow DEF w, evidence

-----------------------------------------------------------------------------
\* All recorded sessions

LEMMA NoneWeaklyLocated == WeaklyLocated = {}
<1>1. ASSUME NEW session \in Sessions, NEW i \in DOMAIN session,
             session[i].type = "click"
      PROVE  Strongest(session[i].candidates, SelectLocator(session[i].candidates))
  <2>1. IsCandidates(session[i].candidates)
    BY <1>1, SessionsAssumption DEF IsSession, IsRow
  <2>2. QED
    BY <2>1, SelectedLocator DEF Strongest
<1>2. QED
  BY <1>1 DEF WeaklyLocated

LEMMA NoneDependOnArrival == DependOnArrival = {}
<1>1. ASSUME NEW session \in Sessions, NEW i \in 1..(Len(session) - 1)
      PROVE  BuildReproductionPlan(Swapped(session, i)) = BuildReproductionPlan(session)
  <2>1. IsSession(session)
    BY <1>1, SessionsAssumption
  <2>2. QED
    BY <1>1, <2>1, NeighboursSwapped
<1>2. QED
  BY <1>1 DEF DependOnArrival

LEMMA NoneBetrayed == Betrayed = {}
<1>1. ASSUME NEW session \in Sessions, NEW failure
      PROVE  LET evidence == Evidence(session, failure)
             IN  Follows(Windowed(evidence), BuildReproductionPlan(evidence))
  <2>1. IsSession(session)
    BY <1>1, SessionsAssumption
  <2>2. QED
    BY <2>1, LimitsAssumption, PlanFollowsEvidence
<1>2. QED
  BY <1>1 DEF Betrayed

\* Of the candidates of every element: a click uses one that is safe and builds
\* when there is one, a brittle one only for want of another, and none is
\* stronger.  selectLocator filters, sorts and takes the first of one loop or of
\* the next.
THEOREM StrongestLocator == Spec => []LocatorIsStrongest
<1>1. LocatorIsStrongest
  BY NoneWeaklyLocated DEF LocatorIsStrongest
<1>2. QED
  BY <1>1, PTL

\* In whatever order two neighbouring events of a recorded session reach the
\* table, the planner computes the same.
THEOREM DeterministicPlan == Spec => []PlanIsDeterministic
<1>1. PlanIsDeterministic
  BY NoneDependOnArrival DEF PlanIsDeterministic
<1>2. QED
  BY <1>1, PTL

\* For every recorded session and every failure in it: the plan is the session.
\* Each interaction that can be found again is in it once and in order, the last
\* of consecutive fills wins, a navigation is expected after a click and made
\* after anything else, the test starts where the session did, and the reader is
\* warned exactly when a value is missing.  buildReproductionPlan does this in
\* one pass that takes back what it has emitted.
THEOREM FaithfulPlan == Spec => []PlanFollowsSession
<1>1. PlanFollowsSession
  BY NoneBetrayed DEF PlanFollowsSession
<1>2. QED
  BY <1>1, PTL
=============================================================================
