---------------------------- MODULE IndexLemmas ----------------------------
(***************************************************************************)
(* Induction over sets of natural numbers, facts about ranks of sets of    *)
(* indices, for every width w, about sums over indices, ends of finite sets *)
(* and the rounds of a matching.                                           *)
(***************************************************************************)
EXTENDS Ranks, Sums, Matching, FiniteSetsExt, FiniteSetTheorems, FunctionTheorems, NaturalsInduction,
        WellFoundedInduction, TLAPS

\* A set of naturals that is not empty has a least member.
LEMMA LeastMember ==
  ASSUME NEW S \in SUBSET Nat, S # {}
  PROVE  \E n \in S : \A k \in S : n <= k
<1> DEFINE R == OpToRel(<, Nat)
<1>1. IsWellFoundedOn(R, Nat)
  BY NatLessThanWellFounded
<1>2. \A i, j \in Nat : i < j => <<i, j>> \in R
  BY DEF OpToRel
<1> HIDE DEF R
<1>3. PICK n \in S : \A k \in S : ~(<<k, n>> \in R)
  BY <1>1, WFMin
<1>4. \A k \in S : ~(k < n)
  BY <1>2, <1>3
<1> QED BY <1>3, <1>4

\* Induction: what holds of the members of S is shown by showing S = Nat.
LEMMA NatSetInduction ==
  ASSUME NEW S \in SUBSET Nat, 0 \in S, \A n \in S : n + 1 \in S
  PROVE  S = Nat
<1> SUFFICES ASSUME Nat \ S # {} PROVE FALSE
  OBVIOUS
<1>1. PICK n \in Nat \ S : \A k \in Nat \ S : n <= k
  BY LeastMember
<1>2. n - 1 \in Nat /\ (n - 1) + 1 = n /\ ~(n <= n - 1)
  BY <1>1
<1> QED BY <1>1, <1>2

\* The same up to a bound.
LEMMA IntervalInduction ==
  ASSUME NEW b \in Nat, NEW S \in SUBSET (0..b), 0 \in S,
         \A n \in S : n < b => n + 1 \in S
  PROVE  S = 0..b
<1> DEFINE T == {n \in Nat : n <= b => n \in S}
<1>1. T \in SUBSET Nat /\ 0 \in T
  OBVIOUS
<1>2. ASSUME NEW n \in T PROVE n + 1 \in T
  BY <1>2
<1>3. T = Nat
  <2> HIDE DEF T
  <2> QED BY <1>1, <1>2, NatSetInduction
<1>4. \A n \in 0..b : n \in T /\ n \in Nat /\ n <= b
  BY <1>3
<1>5. \A n \in 0..b : n \in S
  BY <1>4
<1>6. \A n \in S : n \in 0..b
  OBVIOUS
<1> QED BY <1>5, <1>6

\* f is what a recursive definition over 0..n builds: y, then one step of a
\* function after the other.
Iterates(D, step, y, n, f) ==
  f \in [0..n -> D] /\ \A k \in 0..n : f[k] = IF k = 0 THEN y ELSE step[f[k - 1]]

LEMMA IteratesExist ==
  ASSUME NEW D, NEW step \in [D -> D], NEW y \in D, NEW n \in Nat
  PROVE  \E f : Iterates(D, step, y, n, f)
<1> DEFINE Good == {m \in Nat : \E f \in [0..m -> D] :
                     \A k \in 0..m : f[k] = IF k = 0 THEN y ELSE step[f[k - 1]]}
<1>1. 0 \in Good
  <2> DEFINE f == [k \in 0..0 |-> y]
  <2>1. f \in [0..0 -> D] /\ \A k \in 0..0 : f[k] = IF k = 0 THEN y ELSE step[f[k - 1]]
    OBVIOUS
  <2> QED BY <2>1
<1>2. ASSUME NEW m \in Good PROVE m + 1 \in Good
  <2>1. PICK f \in [0..m -> D] : \A k \in 0..m : f[k] = IF k = 0 THEN y ELSE step[f[k - 1]]
    OBVIOUS
  <2>2. m \in Nat
    OBVIOUS
  <2> DEFINE g == [k \in 0..(m + 1) |-> IF k = m + 1 THEN step[f[m]] ELSE f[k]]
  <2>3. g \in [0..(m + 1) -> D]
    BY <2>1, <2>2
  <2>4. ASSUME NEW k \in 0..(m + 1) PROVE g[k] = IF k = 0 THEN y ELSE step[g[k - 1]]
    <3>1. CASE k = m + 1
      BY <2>1, <2>2, <3>1
    <3>2. CASE k \in 0..m
      <4>1. g[k] = f[k] /\ (k # 0 => g[k - 1] = f[k - 1])
        BY <2>2, <3>2
      <4> HIDE DEF g
      <4> QED BY <2>1, <3>2, <4>1
    <3> QED BY <2>2, <3>1, <3>2
  <2> HIDE DEF g
  <2> QED BY <2>2, <2>3, <2>4
<1>3. Good = Nat
  <2>1. Good \in SUBSET Nat
    OBVIOUS
  <2> HIDE DEF Good
  <2> QED BY <1>1, <1>2, <2>1, NatSetInduction
<1> QED BY <1>3 DEF Iterates

\* Two functions that start alike and step alike are alike.
LEMMA IteratesAgree ==
  ASSUME NEW n \in Nat, NEW f, NEW g, f[0] = g[0],
         \A k \in 0..n : k < n /\ f[k] = g[k] => f[k + 1] = g[k + 1]
  PROVE  \A k \in 0..n : f[k] = g[k]
<1> DEFINE Same == {k \in 0..n : f[k] = g[k]}
<1>1. Same \in SUBSET (0..n) /\ 0 \in Same
  OBVIOUS
<1>2. \A k \in Same : k < n => k + 1 \in Same
  OBVIOUS
<1>3. Same = 0..n
  <2> HIDE DEF Same
  <2> QED BY <1>1, <1>2, IntervalInduction
<1> QED BY <1>3

\* Members are positive integers up to the width.
LEMMA Members ==
  ASSUME NEW w \in Nat, NEW S \in SUBSET (1..w)
  PROVE  \A h \in S : h \in Int /\ 1 <= h /\ h <= w
OBVIOUS

\* The scan of a mask of width w starts at 0, ends at the number of members
\* and is never larger than that.
LEMMA RankBounds ==
  ASSUME NEW w \in Nat, NEW S \in SUBSET (1..w)
  PROVE  /\ IsFiniteSet(S) /\ Cardinality(S) \in Nat
         /\ Rank(S, 0) = 0 /\ Rank(S, w) = Cardinality(S)
         /\ \A j \in 0..w : Rank(S, j) \in Nat /\ Rank(S, j) <= Cardinality(S)
<1>1. IsFiniteSet(S)
  <2>1. IsFiniteSet(1..w)
    BY FS_Interval
  <2> QED BY <2>1, FS_Subset
<1>2. Cardinality(S) \in Nat
  BY <1>1, FS_CardinalityType
<1>3. {h \in S : h <= 0} = {} /\ {h \in S : h <= w} = S
  <2>1. \A h \in S : ~(h <= 0) /\ h <= w
    BY Members
  <2> QED BY <2>1
<1>4. ASSUME NEW j \in 0..w PROVE Rank(S, j) \in Nat /\ Rank(S, j) <= Cardinality(S)
  <2>1. {h \in S : h <= j} \in SUBSET S
    OBVIOUS
  <2> QED BY <1>1, <2>1, FS_Subset, FS_CardinalityType DEF Rank
<1> QED BY <1>1, <1>2, <1>3, <1>4, FS_EmptySet DEF Rank

\* A member adds one to the scan, any other index nothing.
LEMMA RankStep ==
  ASSUME NEW w \in Nat, NEW S \in SUBSET (1..w), NEW j \in 1..w
  PROVE  Rank(S, j) = IF j \in S THEN Rank(S, j - 1) + 1 ELSE Rank(S, j - 1)
<1> DEFINE Below == {h \in S : h <= j - 1}
<1>1. IsFiniteSet(Below)
  BY RankBounds, FS_Subset
<1>2. CASE j \in S
  <2>1. {h \in S : h <= j} = Below \cup {j} /\ j \notin Below
    <3>1. \A h \in S : h <= j <=> h <= j - 1 \/ h = j
      BY Members
    <3>2. ~(j <= j - 1)
      OBVIOUS
    <3> QED BY <1>2, <3>1, <3>2
  <2> QED BY <1>1, <1>2, <2>1, FS_AddElement DEF Rank
<1>3. CASE j \notin S
  <2>1. {h \in S : h <= j} = Below
    <3>1. \A h \in S : h # j
      BY <1>3
    <3>2. \A h \in S : h <= j <=> h <= j - 1
      BY <3>1, Members
    <3> QED BY <3>2
  <2> QED BY <1>3, <2>1 DEF Rank
<1> QED BY <1>2, <1>3

\* The scan never decreases, and grows up to a member.
LEMMA RankMonotone ==
  ASSUME NEW w \in Nat, NEW S \in SUBSET (1..w), NEW i \in 0..w, NEW j \in 0..w, i <= j
  PROVE  /\ Rank(S, i) <= Rank(S, j)
         /\ i < j /\ j \in S => Rank(S, i) < Rank(S, j)
<1>1. ASSUME NEW a \in 0..w, a <= j PROVE Rank(S, a) <= Rank(S, j)
  <2>1. {h \in S : h <= a} \in SUBSET {h \in S : h <= j}
    <3>1. \A h \in S : h <= a => h <= j
      BY <1>1, Members
    <3> QED BY <3>1
  <2>2. IsFiniteSet({h \in S : h <= j})
    BY RankBounds, FS_Subset
  <2> QED BY <2>1, <2>2, FS_Subset DEF Rank
<1>2. ASSUME i < j, j \in S PROVE Rank(S, i) < Rank(S, j)
  <2>1. j \in 1..w /\ j - 1 \in 0..w /\ i <= j - 1
    BY <1>2
  <2>2. Rank(S, j) = Rank(S, j - 1) + 1
    BY <1>2, <2>1, RankStep
  <2>3. {h \in S : h <= i} \in SUBSET {h \in S : h <= j - 1}
    <3>1. \A h \in S : h <= i => h <= j - 1
      BY <2>1, Members
    <3> QED BY <3>1
  <2>4. IsFiniteSet({h \in S : h <= j - 1})
    BY RankBounds, FS_Subset
  <2>5. Rank(S, i) <= Rank(S, j - 1)
    BY <2>3, <2>4, FS_Subset DEF Rank
  <2>6. Rank(S, i) \in Nat /\ Rank(S, j - 1) \in Nat
    BY <2>1, RankBounds
  <2> QED BY <2>2, <2>5, <2>6
<1> QED BY <1>1, <1>2

\* Distinct members have distinct slots, in the order of the members.
LEMMA RankOrder ==
  ASSUME NEW w \in Nat, NEW S \in SUBSET (1..w), NEW i \in S, NEW j \in S
  PROVE  i < j <=> Rank(S, i) < Rank(S, j)
<1>1. Rank(S, i) \in Nat /\ Rank(S, j) \in Nat
  <2>1. i \in 0..w /\ j \in 0..w
    OBVIOUS
  <2> QED BY <2>1, RankBounds
<1>2. i < j => Rank(S, i) < Rank(S, j)
  BY RankMonotone
<1>3. ~(i < j) => Rank(S, j) <= Rank(S, i)
  BY RankMonotone
<1> QED BY <1>1, <1>2, <1>3

\* Members get the slots 1..Cardinality(S), each one.
LEMMA RankOnto ==
  ASSUME NEW w \in Nat, NEW S \in SUBSET (1..w)
  PROVE  /\ \A j \in S : Rank(S, j) \in 1..Cardinality(S)
         /\ \A r \in 1..Cardinality(S) : \E j \in S : Rank(S, j) = r
<1> DEFINE c == Cardinality(S)
           f == [j \in S |-> Rank(S, j)]
<1>1. IsFiniteSet(S) /\ c \in Nat
  BY RankBounds
<1>2. \A j \in S : Rank(S, j) \in 1..c
  <2> SUFFICES ASSUME NEW j \in S PROVE Rank(S, j) \in 1..c
    OBVIOUS
  <2>1. Rank(S, 0) = 0 /\ Rank(S, j) \in Nat /\ Rank(S, j) <= c
    BY RankBounds
  <2>2. Rank(S, 0) < Rank(S, j)
    BY RankMonotone
  <2> QED BY <1>1, <2>1, <2>2
<1>3. f \in Injection(S, 1..c)
  <2>1. f \in [S -> 1..c]
    BY <1>2
  <2>2. \A i, j \in S : Rank(S, i) = Rank(S, j) => i = j
    <3> SUFFICES ASSUME NEW i \in S, NEW j \in S, Rank(S, i) = Rank(S, j) PROVE i = j
      OBVIOUS
    <3>1. Rank(S, i) \in Int
      BY <1>2
    <3>2. i < j <=> Rank(S, i) < Rank(S, j)
      BY RankOrder
    <3>3. j < i <=> Rank(S, j) < Rank(S, i)
      BY RankOrder
    <3>4. i \in Int /\ j \in Int
      OBVIOUS
    <3> QED BY <3>1, <3>2, <3>3, <3>4
  <2>3. \A i, j \in S : f[i] = f[j] => i = j
    BY <2>2
  <2> QED BY <2>1, <2>3, Fun_IsInj
<1>4. IsFiniteSet(1..c) /\ Cardinality(1..c) = c
  BY <1>1, FS_Interval
<1>5. f \in Surjection(S, 1..c)
  BY <1>1, <1>3, <1>4, FS_Injection
<1>6. \A r \in 1..c : \E j \in S : f[j] = r
  BY <1>5 DEF Surjection
<1> QED BY <1>2, <1>6

\* Inside a run of members the scan counts one by one.
LEMMA RankRun ==
  ASSUME NEW w \in Nat, NEW S \in SUBSET (1..w), NEW a \in 0..w, NEW b \in 0..w,
         a <= b, (a + 1)..b \subseteq S
  PROVE  Rank(S, b) = Rank(S, a) + (b - a)
<1> DEFINE Low == {h \in S : h <= a}
<1>1. IsFiniteSet(Low) /\ Cardinality(Low) \in Nat
  BY RankBounds, FS_Subset, FS_CardinalityType
<1>2. IsFiniteSet((a + 1)..b) /\ Cardinality((a + 1)..b) = b - a
  <2>1. a + 1 \in Int /\ b \in Int
    OBVIOUS
  <2>2. /\ IsFiniteSet((a + 1)..b)
        /\ Cardinality((a + 1)..b) = IF a + 1 > b THEN 0 ELSE b - (a + 1) + 1
    BY <2>1, FS_Interval
  <2>3. (IF a + 1 > b THEN 0 ELSE b - (a + 1) + 1) = b - a
    OBVIOUS
  <2> QED BY <2>2, <2>3
<1>3. {h \in S : h <= b} = Low \cup ((a + 1)..b)
  <2>1. \A h \in S : h <= b <=> h <= a \/ h \in (a + 1)..b
    OBVIOUS
  <2> QED BY <2>1
<1>4. Low \cap ((a + 1)..b) = {}
  OBVIOUS
<1>5. Cardinality(Low \cup ((a + 1)..b)) = Cardinality(Low) + (b - a) - 0
  <2> HIDE DEF Low
  <2>1. Cardinality(Low \cup ((a + 1)..b))
          = Cardinality(Low) + Cardinality((a + 1)..b) - Cardinality(Low \cap ((a + 1)..b))
    BY <1>1, <1>2, FS_Union
  <2> QED BY <1>2, <1>4, <2>1, FS_EmptySet
<1>6. Rank(S, b) = Cardinality(Low \cup ((a + 1)..b)) /\ Rank(S, a) = Cardinality(Low)
  BY <1>3 DEF Rank
<1> QED BY <1>1, <1>5, <1>6

\* An index is counted by the scan of a mask or by that of its complement.
LEMMA RankComplement ==
  ASSUME NEW w \in Nat, NEW S \in SUBSET (1..w), NEW j \in 0..w
  PROVE  Rank(S, j) + Rank((1..w) \ S, j) = j
<1> DEFINE In == {h \in S : h <= j}
           Out == {h \in (1..w) \ S : h <= j}
<1>1. IsFiniteSet(In) /\ IsFiniteSet(Out)
  BY RankBounds, FS_Subset, FS_Interval
<1>2. Cardinality(In) \in Nat /\ Cardinality(Out) \in Nat
  BY <1>1, FS_CardinalityType
<1>3. In \cup Out = 1..j
  <2>1. \A h \in 1..j : h \in 1..w /\ h <= j
    OBVIOUS
  <2>2. \A h \in 1..w : h <= j => h \in 1..j
    OBVIOUS
  <2> QED BY <2>1, <2>2
<1>4. In \cap Out = {}
  OBVIOUS
<1>5. Cardinality(1..j) = j
  BY FS_Interval
<1>6. Cardinality(In \cup Out) = Cardinality(In) + Cardinality(Out) - 0
  BY <1>1, <1>4, FS_Union, FS_EmptySet
<1>7. Rank(S, j) = Cardinality(In) /\ Rank((1..w) \ S, j) = Cardinality(Out)
  BY DEF Rank
<1> HIDE DEF In, Out
<1>8. Cardinality(In \cup Out) = j
  BY <1>3, <1>5
<1>9. Cardinality(In) + Cardinality(Out) = j
  BY <1>2, <1>6, <1>8
<1> QED BY <1>7, <1>9

\* A set of indices with every index below its members is an interval.
LEMMA InitialSegment ==
  ASSUME NEW w \in Nat, NEW S \in SUBSET (1..w),
         \A j \in S : \A i \in 1..w : i < j => i \in S
  PROVE  Cardinality(S) \in 0..w /\ S = 1..Cardinality(S)
<1> DEFINE Out == {i \in 1..(w + 1) : i \notin S}
<1>1. Out \in SUBSET Nat /\ w + 1 \in Out
  OBVIOUS
<1>2. PICK n \in Out : \A k \in Out : n <= k
  <2> HIDE DEF Out
  <2> QED BY <1>1, LeastMember
<1>3. n - 1 \in 0..w /\ n \notin S /\ n \in 1..(w + 1)
  BY <1>2
<1>4. ASSUME NEW i \in 1..(n - 1) PROVE i \in S
  <2>1. i \in 1..(w + 1) /\ ~(n <= i)
    BY <1>3
  <2> QED BY <1>2, <2>1
<1>5. ASSUME NEW j \in S PROVE j \in 1..(n - 1)
  <2>1. j \in 1..w /\ j # n
    BY <1>3
  <2>2. ~(n < j)
    BY <1>3, <2>1
  <2> QED BY <1>3, <2>1, <2>2
<1>6. S = 1..(n - 1)
  BY <1>4, <1>5
<1>7. Cardinality(1..(n - 1)) = n - 1
  <2>1. n - 1 \in Int /\ 1 \in Int
    BY <1>3
  <2>2. Cardinality(1..(n - 1)) = IF 1 > n - 1 THEN 0 ELSE (n - 1) - 1 + 1
    BY <2>1, FS_Interval
  <2> QED BY <1>3, <2>1, <2>2
<1> QED BY <1>3, <1>6, <1>7

-----------------------------------------------------------------------------
(* Sums.                                                                   *)

\* The partial sums that Total takes the last of.
PartialSums(t, n) == CHOOSE f : f = [k \in 0..n |-> IF k = 0 THEN 0 ELSE f[k - 1] + t[k]]
AreInts(t, n) == \A k \in 1..n : t[k] \in Int

LEMMA TotalIs == ASSUME NEW t, NEW n PROVE Total(t, n) = PartialSums(t, n)[n]
BY DEF Total, PartialSums

LEMMA PartialSumsExist ==
  ASSUME NEW n \in Nat, NEW t, AreInts(t, n)
  PROVE  \E f \in [0..n -> Int] : \A k \in 0..n : f[k] = IF k = 0 THEN 0 ELSE f[k - 1] + t[k]
<1> DEFINE Sums(m, f) == \A k \in 0..m : f[k] = IF k = 0 THEN 0 ELSE f[k - 1] + t[k]
           Good == {m \in 0..n : \E f \in [0..m -> Int] : Sums(m, f)}
<1>1. 0 \in Good
  <2> DEFINE f == [k \in 0..0 |-> 0]
  <2>1. f \in [0..0 -> Int] /\ Sums(0, f)
    OBVIOUS
  <2> HIDE DEF f, Sums
  <2> QED BY <2>1
<1>2. ASSUME NEW m \in Good, m < n PROVE m + 1 \in Good
  <2>0. PICK f \in [0..m -> Int] : Sums(m, f)
    <3> HIDE DEF Sums
    <3> QED OBVIOUS
  <2>1. \A k \in 0..m : f[k] = IF k = 0 THEN 0 ELSE f[k - 1] + t[k]
    BY <2>0
  <2>2. m \in Nat /\ m + 1 \in 1..n /\ t[m + 1] \in Int
    BY <1>2 DEF AreInts
  <2> DEFINE g == [k \in 0..(m + 1) |-> IF k = m + 1 THEN f[m] + t[m + 1] ELSE f[k]]
  <2>3. g \in [0..(m + 1) -> Int]
    BY <2>1, <2>2
  <2>4. ASSUME NEW k \in 0..(m + 1) PROVE g[k] = IF k = 0 THEN 0 ELSE g[k - 1] + t[k]
    <3>1. CASE k = m + 1
      BY <2>1, <2>2, <3>1
    <3>2. CASE k \in 0..m
      <4>1. g[k] = f[k] /\ (k # 0 => g[k - 1] = f[k - 1])
        BY <2>2, <3>2
      <4> HIDE DEF g
      <4> QED BY <2>1, <3>2, <4>1
    <3> QED BY <2>2, <3>1, <3>2
  <2>5. Sums(m + 1, g)
    <3> HIDE DEF g
    <3> QED BY <2>4
  <2> HIDE DEF g, Sums
  <2> QED BY <2>2, <2>3, <2>5
<1>3. n \in Good
  <2>1. Good \in SUBSET (0..n)
    OBVIOUS
  <2> HIDE DEF Good
  <2> QED BY <1>1, <1>2, <2>1, IntervalInduction
<1>4. PICK f \in [0..n -> Int] : Sums(n, f)
  <2> HIDE DEF Sums
  <2> QED BY <1>3
<1> QED BY <1>4

LEMMA PartialSumsAre ==
  ASSUME NEW n \in Nat, NEW t, AreInts(t, n)
  PROVE  /\ PartialSums(t, n) \in [0..n -> Int]
         /\ \A k \in 0..n : PartialSums(t, n)[k]
                              = IF k = 0 THEN 0 ELSE PartialSums(t, n)[k - 1] + t[k]
<1>1. PICK f \in [0..n -> Int] : \A k \in 0..n : f[k] = IF k = 0 THEN 0 ELSE f[k - 1] + t[k]
  BY PartialSumsExist
<1>2. f = [k \in 0..n |-> IF k = 0 THEN 0 ELSE f[k - 1] + t[k]]
  <2> DEFINE g == [k \in 0..n |-> IF k = 0 THEN 0 ELSE f[k - 1] + t[k]]
  <2>1. DOMAIN g = 0..n /\ \A k \in 0..n : g[k] = f[k]
    BY <1>1
  <2>2. g \in [0..n -> Int]
    BY <1>1, <2>1
  <2> HIDE DEF g
  <2>3. f = g
    BY <2>1, <2>2
  <2> QED BY <2>3 DEF g
<1> DEFINE p == PartialSums(t, n)
<1>3. p = [k \in 0..n |-> IF k = 0 THEN 0 ELSE p[k - 1] + t[k]]
  BY <1>2 DEF PartialSums
<1> HIDE DEF p
<1>4. \A k \in 0..n : p[k] = IF k = 0 THEN 0 ELSE p[k - 1] + t[k]
  BY <1>3
<1>5. \A k \in 0..n : p[k] = f[k]
  <2>1. p[0] = f[0]
    BY <1>1, <1>4
  <2>2. ASSUME NEW k \in 0..n, k < n, p[k] = f[k] PROVE p[k + 1] = f[k + 1]
    <3>1. k + 1 \in 0..n /\ k + 1 # 0 /\ (k + 1) - 1 = k
      BY <2>2
    <3> QED BY <1>1, <1>4, <2>2, <3>1
  <2> QED BY <2>1, <2>2, IteratesAgree
<1>6. p \in [0..n -> Int]
  <2>1. DOMAIN p = 0..n /\ p = [k \in 0..n |-> p[k]]
    BY <1>3
  <2> QED BY <1>5, <2>1
<1> QED BY <1>4, <1>6 DEF p

\* A sum of no entries, and of one more.
LEMMA TotalStep ==
  ASSUME NEW n \in Nat, NEW t
  PROVE  /\ Total(t, 0) = 0
         /\ AreInts(t, n) => Total(t, n) \in Int
         /\ AreInts(t, n + 1) => Total(t, n + 1) = Total(t, n) + t[n + 1]
<1>1. Total(t, 0) = 0
  <2>1. AreInts(t, 0)
    BY DEF AreInts
  <2> QED BY <2>1, PartialSumsAre, TotalIs
<1>2. AreInts(t, n) => Total(t, n) \in Int
  BY PartialSumsAre, TotalIs
<1>3. ASSUME AreInts(t, n + 1) PROVE Total(t, n + 1) = Total(t, n) + t[n + 1]
  <2> DEFINE p == PartialSums(t, n)
             q == PartialSums(t, n + 1)
  <2>1. AreInts(t, n) /\ n + 1 \in Nat
    BY <1>3 DEF AreInts
  <2>2. /\ \A k \in 0..n : p[k] = IF k = 0 THEN 0 ELSE p[k - 1] + t[k]
        /\ \A k \in 0..(n + 1) : q[k] = IF k = 0 THEN 0 ELSE q[k - 1] + t[k]
    BY <1>3, <2>1, PartialSumsAre
  <2> HIDE DEF p, q
  <2>3. \A k \in 0..n : p[k] = q[k]
    <3>1. p[0] = q[0]
      BY <2>2
    <3>2. ASSUME NEW k \in 0..n, k < n, p[k] = q[k] PROVE p[k + 1] = q[k + 1]
      <4>1. k + 1 \in 0..n /\ k + 1 \in 0..(n + 1) /\ k + 1 # 0 /\ (k + 1) - 1 = k
        BY <3>2
      <4> QED BY <2>2, <3>2, <4>1
    <3> QED BY <3>1, <3>2, IteratesAgree
  <2>4. q[n + 1] = q[n] + t[n + 1]
    <3>1. n + 1 \in 0..(n + 1) /\ n + 1 # 0 /\ (n + 1) - 1 = n
      OBVIOUS
    <3> QED BY <2>2, <3>1
  <2>5. p[n] = q[n]
    BY <2>3
  <2> QED BY <2>4, <2>5, TotalIs DEF p, q
<1> QED BY <1>1, <1>2, <1>3

\* What holds between sums of no entries and is kept by one entry more holds
\* between all: S is the set of the numbers of entries it holds for.
LEMMA TotalsFrom ==
  ASSUME NEW n \in Nat, NEW S \in SUBSET (0..n), 0 \in S,
         \A k \in S : k < n => k + 1 \in S
  PROVE  n \in S
BY IntervalInduction

\* Sums of equal entries.
LEMMA TotalSame ==
  ASSUME NEW n \in Nat, NEW s, NEW t, AreInts(s, n), \A k \in 1..n : s[k] = t[k]
  PROVE  Total(s, n) = Total(t, n)
<1> DEFINE S == {k \in 0..n : Total(s, k) = Total(t, k)}
<1>1. 0 \in S
  BY TotalStep
<1>2. ASSUME NEW k \in S, k < n PROVE k + 1 \in S
  <2>1. AreInts(s, k + 1) /\ AreInts(t, k + 1) /\ k \in Nat /\ k + 1 \in 1..n
    BY <1>2 DEF AreInts
  <2>2. Total(s, k + 1) = Total(s, k) + s[k + 1] /\ Total(t, k + 1) = Total(t, k) + t[k + 1]
    BY <2>1, TotalStep
  <2> QED BY <2>1, <2>2
<1>3. n \in S
  <2>1. S \in SUBSET (0..n)
    OBVIOUS
  <2> HIDE DEF S
  <2> QED BY <1>1, <1>2, <2>1, TotalsFrom
<1> QED BY <1>3

\* The sum of sums.
LEMMA TotalAdd ==
  ASSUME NEW n \in Nat, NEW r, NEW s, NEW t, AreInts(s, n), AreInts(t, n),
         \A k \in 1..n : r[k] = s[k] + t[k]
  PROVE  Total(r, n) = Total(s, n) + Total(t, n)
<1> DEFINE S == {k \in 0..n : Total(r, k) = Total(s, k) + Total(t, k)}
<1>1. 0 \in S
  BY TotalStep
<1>2. ASSUME NEW k \in S, k < n PROVE k + 1 \in S
  <2>1. /\ AreInts(s, k + 1) /\ AreInts(t, k + 1) /\ k \in Nat /\ k + 1 \in 1..n
        /\ AreInts(s, k) /\ AreInts(t, k)
    BY <1>2 DEF AreInts
  <2>2. AreInts(r, k + 1)
    BY <1>2 DEF AreInts
  <2>3. /\ Total(r, k + 1) = Total(r, k) + r[k + 1]
        /\ Total(s, k + 1) = Total(s, k) + s[k + 1]
        /\ Total(t, k + 1) = Total(t, k) + t[k + 1]
        /\ Total(s, k) \in Int /\ Total(t, k) \in Int
    BY <2>1, <2>2, TotalStep
  <2>4. s[k + 1] \in Int /\ t[k + 1] \in Int /\ r[k + 1] = s[k + 1] + t[k + 1]
    BY <2>1 DEF AreInts
  <2>5. Total(r, k) = Total(s, k) + Total(t, k)
    OBVIOUS
  <2>6. Total(r, k + 1) = Total(s, k + 1) + Total(t, k + 1)
    BY <2>3, <2>4, <2>5
  <2> QED BY <2>1, <2>6
<1>3. n \in S
  <2>1. S \in SUBSET (0..n)
    OBVIOUS
  <2> HIDE DEF S
  <2> QED BY <1>1, <1>2, <2>1, TotalsFrom
<1> QED BY <1>3

\* A common factor.
LEMMA TotalScale ==
  ASSUME NEW n \in Nat, NEW c \in Int, NEW r, NEW t, AreInts(t, n),
         \A k \in 1..n : r[k] = c * t[k]
  PROVE  Total(r, n) = c * Total(t, n)
<1> DEFINE S == {k \in 0..n : Total(r, k) = c * Total(t, k)}
<1>1. 0 \in S
  BY TotalStep
<1>2. ASSUME NEW k \in S, k < n PROVE k + 1 \in S
  <2>1. /\ AreInts(t, k + 1) /\ k \in Nat /\ k + 1 \in 1..n /\ AreInts(t, k)
    BY <1>2 DEF AreInts
  <2>2. AreInts(r, k + 1)
    BY <1>2 DEF AreInts
  <2>3. /\ Total(r, k + 1) = Total(r, k) + r[k + 1]
        /\ Total(t, k + 1) = Total(t, k) + t[k + 1]
        /\ Total(t, k) \in Int
    BY <2>1, <2>2, TotalStep
  <2>4. t[k + 1] \in Int /\ r[k + 1] = c * t[k + 1] /\ Total(r, k) = c * Total(t, k)
    BY <2>1 DEF AreInts
  <2>5. c * (Total(t, k) + t[k + 1]) = c * Total(t, k) + c * t[k + 1]
    BY <2>3, <2>4
  <2> QED BY <2>1, <2>3, <2>4, <2>5
<1>3. n \in S
  <2>1. S \in SUBSET (0..n)
    OBVIOUS
  <2> HIDE DEF S
  <2> QED BY <1>1, <1>2, <2>1, TotalsFrom
<1> QED BY <1>3

\* Sums in the order of their entries.
LEMMA TotalMonotone ==
  ASSUME NEW n \in Nat, NEW s, NEW t, AreInts(s, n), AreInts(t, n),
         \A k \in 1..n : s[k] <= t[k]
  PROVE  Total(s, n) <= Total(t, n)
<1> DEFINE S == {k \in 0..n : Total(s, k) <= Total(t, k)}
<1>1. 0 \in S
  BY TotalStep
<1>2. ASSUME NEW k \in S, k < n PROVE k + 1 \in S
  <2>1. /\ AreInts(s, k + 1) /\ AreInts(t, k + 1) /\ k \in Nat /\ k + 1 \in 1..n
        /\ AreInts(s, k) /\ AreInts(t, k)
    BY <1>2 DEF AreInts
  <2>2. /\ Total(s, k + 1) = Total(s, k) + s[k + 1]
        /\ Total(t, k + 1) = Total(t, k) + t[k + 1]
        /\ Total(s, k) \in Int /\ Total(t, k) \in Int
    BY <2>1, TotalStep
  <2>3. s[k + 1] \in Int /\ t[k + 1] \in Int /\ s[k + 1] <= t[k + 1] /\ Total(s, k) <= Total(t, k)
    BY <2>1 DEF AreInts
  <2>4. Total(s, k + 1) <= Total(t, k + 1)
    BY <2>2, <2>3
  <2> QED BY <2>1, <2>4
<1>3. n \in S
  <2>1. S \in SUBSET (0..n)
    OBVIOUS
  <2> HIDE DEF S
  <2> QED BY <1>1, <1>2, <2>1, TotalsFrom
<1> QED BY <1>3

\* A sum of n entries up to a bound.
LEMMA TotalWithin ==
  ASSUME NEW n \in Nat, NEW b \in Nat, NEW t, AreInts(t, n),
         \A k \in 1..n : -b <= t[k] /\ t[k] <= b
  PROVE  -(n * b) <= Total(t, n) /\ Total(t, n) <= n * b
<1> DEFINE S == {k \in 0..n : -(k * b) <= Total(t, k) /\ Total(t, k) <= k * b}
<1>1. 0 \in S
  BY TotalStep
<1>2. ASSUME NEW k \in S, k < n PROVE k + 1 \in S
  <2>1. /\ AreInts(t, k + 1) /\ k \in Nat /\ k + 1 \in 1..n /\ AreInts(t, k)
    BY <1>2 DEF AreInts
  <2>2. Total(t, k + 1) = Total(t, k) + t[k + 1] /\ Total(t, k) \in Int
    BY <2>1, TotalStep
  <2>3. t[k + 1] \in Int /\ -b <= t[k + 1] /\ t[k + 1] <= b
    BY <2>1 DEF AreInts
  <2>4. (k + 1) * b = k * b + b /\ k * b \in Nat
    BY <2>1
  <2>5. -(k * b) <= Total(t, k) /\ Total(t, k) <= k * b
    OBVIOUS
  <2>6. -((k + 1) * b) <= Total(t, k + 1) /\ Total(t, k + 1) <= (k + 1) * b
    <3> DEFINE v == k * b
    <3>1. v \in Nat /\ (k + 1) * b = v + b /\ -v <= Total(t, k) /\ Total(t, k) <= v
      BY <2>4, <2>5
    <3> HIDE DEF v
    <3> QED BY <2>2, <2>3, <3>1
  <2> QED BY <2>1, <2>6
<1>3. n \in S
  <2>1. S \in SUBSET (0..n)
    OBVIOUS
  <2> HIDE DEF S
  <2> QED BY <1>1, <1>2, <2>1, TotalsFrom
<1> QED BY <1>3

\* Entries that are zero add nothing.
LEMMA TotalNone ==
  ASSUME NEW n \in Nat, NEW t, \A k \in 1..n : t[k] = 0
  PROVE  Total(t, n) = 0
<1>1. AreInts(t, n) /\ Total(t, n) \in Int
  BY TotalStep DEF AreInts
<1>2. -(n * 0) <= Total(t, n) /\ Total(t, n) <= n * 0
  BY <1>1, TotalWithin
<1> QED BY <1>1, <1>2

LEMMA TotalTail ==
  ASSUME NEW n \in Nat, NEW m \in Nat, n <= m, NEW t, AreInts(t, n),
         \A k \in (n + 1)..m : t[k] = 0
  PROVE  Total(t, m) = Total(t, n)
<1> DEFINE S == {k \in 0..(m - n) : Total(t, n + k) = Total(t, n)}
<1>1. 0 \in S
  OBVIOUS
<1>2. ASSUME NEW k \in S, k < m - n PROVE k + 1 \in S
  <2>1. n + k \in Nat /\ (n + k) + 1 \in (n + 1)..m
    BY <1>2
  <2>2. AreInts(t, (n + k) + 1) /\ AreInts(t, n + k)
    <3>1. \A h \in 1..((n + k) + 1) : h \in 1..n \/ h \in (n + 1)..m
      BY <2>1
    <3>2. \A h \in 1..((n + k) + 1) : t[h] \in Int
      BY <3>1 DEF AreInts
    <3> QED BY <2>1, <3>2 DEF AreInts
  <2>3. Total(t, (n + k) + 1) = Total(t, n + k) + t[(n + k) + 1] /\ Total(t, n + k) \in Int
    BY <2>1, <2>2, TotalStep
  <2>4. t[(n + k) + 1] = 0 /\ n + (k + 1) = (n + k) + 1
    BY <2>1
  <2>5. Total(t, n + (k + 1)) = Total(t, n)
    BY <2>3, <2>4
  <2> QED BY <1>2, <2>5
<1>3. m - n \in S
  <2>1. S \in SUBSET (0..(m - n)) /\ m - n \in Nat
    OBVIOUS
  <2> HIDE DEF S
  <2> QED BY <1>1, <1>2, <2>1, TotalsFrom
<1>4. n + (m - n) = m
  OBVIOUS
<1> QED BY <1>3, <1>4

\* A sum with one entry.
LEMMA TotalOne ==
  ASSUME NEW n \in Nat, NEW j \in 1..n, NEW t, t[j] \in Int, \A k \in 1..n : k # j => t[k] = 0
  PROVE  Total(t, n) = t[j]
<1>1. AreInts(t, n) /\ AreInts(t, j) /\ AreInts(t, j - 1) /\ j - 1 \in Nat /\ (j - 1) + 1 = j
  BY DEF AreInts
<1>2. Total(t, j - 1) = 0
  <2>1. \A k \in 1..(j - 1) : k \in 1..n /\ k # j
    OBVIOUS
  <2> QED BY <1>1, <2>1, TotalNone
<1>3. Total(t, j) = Total(t, j - 1) + t[j]
  <2>1. AreInts(t, (j - 1) + 1) => Total(t, (j - 1) + 1) = Total(t, j - 1) + t[(j - 1) + 1]
    BY <1>1, TotalStep
  <2> QED BY <1>1, <2>1
<1>4. Total(t, n) = Total(t, j)
  <2>1. \A k \in (j + 1)..n : k \in 1..n /\ k # j
    OBVIOUS
  <2> QED BY <1>1, <2>1, TotalTail
<1> QED BY <1>2, <1>3, <1>4

\* The order of a double sum.
LEMMA TotalSwap ==
  ASSUME NEW m \in Nat, NEW n \in Nat, NEW f, \A i \in 1..m : AreInts(f[i], n)
  PROVE  Total([i \in 1..m |-> Total(f[i], n)], m)
           = Total([k \in 1..n |-> Total([i \in 1..m |-> f[i][k]], m)], n)
<1> DEFINE rows == [i \in 1..m |-> Total(f[i], n)]
           down(k) == [i \in 1..m |-> f[i][k]]
           cols(h) == [k \in 1..n |-> Total(down(k), h)]
           S == {h \in 0..m : Total(rows, h) = Total(cols(h), n)}
<1>0. /\ \A i \in 1..m : \A k \in 1..n : f[i][k] \in Int
      /\ \A k \in 1..n : AreInts(down(k), m)
      /\ \A i \in 1..m : rows[i] \in Int
  BY TotalStep DEF AreInts
<1>1. 0 \in S
  <2>1. \A k \in 1..n : cols(0)[k] = 0
    BY TotalStep
  <2>2. Total(cols(0), n) = 0
    <3> HIDE DEF cols
    <3> QED BY <2>1, TotalNone
  <2>3. Total(rows, 0) = 0
    BY TotalStep
  <2> QED BY <2>2, <2>3
<1>2. ASSUME NEW h \in S, h < m PROVE h + 1 \in S
  <2>1. h \in Nat /\ h + 1 \in 1..m /\ AreInts(rows, h + 1)
    BY <1>0, <1>2 DEF AreInts
  <2>2. Total(rows, h + 1) = Total(rows, h) + Total(f[h + 1], n)
    <3>1. rows[h + 1] = Total(f[h + 1], n)
      BY <2>1
    <3> HIDE DEF rows
    <3> QED BY <2>1, <3>1, TotalStep
  <2>3. \A k \in 1..n : cols(h + 1)[k] = cols(h)[k] + f[h + 1][k] /\ cols(h)[k] \in Int
    <3> SUFFICES ASSUME NEW k \in 1..n
                 PROVE  Total(down(k), h + 1) = Total(down(k), h) + f[h + 1][k]
                        /\ Total(down(k), h) \in Int
      OBVIOUS
    <3>1. AreInts(down(k), h + 1) /\ AreInts(down(k), h) /\ down(k)[h + 1] = f[h + 1][k]
      BY <1>0, <2>1 DEF AreInts
    <3> HIDE DEF down
    <3> QED BY <2>1, <3>1, TotalStep
  <2>4. Total(cols(h + 1), n) = Total(cols(h), n) + Total(f[h + 1], n)
    <3> DEFINE one == cols(h)
               two == f[h + 1]
               both == cols(h + 1)
    <3>1. AreInts(one, n) /\ AreInts(two, n)
      BY <2>1, <2>3 DEF AreInts
    <3>2. \A k \in 1..n : both[k] = one[k] + two[k]
      BY <2>3
    <3> HIDE DEF one, two, both
    <3>3. Total(both, n) = Total(one, n) + Total(two, n)
      BY <3>1, <3>2, TotalAdd
    <3> QED BY <3>3 DEF one, two, both
  <2>5. Total(rows, h) = Total(cols(h), n)
    OBVIOUS
  <2> HIDE DEF rows, cols
  <2> QED BY <2>1, <2>2, <2>4, <2>5
<1>3. m \in S
  <2>1. S \in SUBSET (0..m)
    OBVIOUS
  <2> HIDE DEF S
  <2> QED BY <1>1, <1>2, <2>1, TotalsFrom
<1>4. Total(rows, m) = Total(cols(m), n)
  BY <1>3
<1> QED BY <1>4

-----------------------------------------------------------------------------
(* The ends of a set of numbers.                                           *)

LEMMA MinIsLeast ==
  ASSUME NEW S \in SUBSET Int, S # {}, NEW b \in Int, \A k \in S : b <= k
  PROVE  Min(S) \in S /\ \A k \in S : Min(S) <= k
<1> DEFINE T == {k - b : k \in S}
<1>1. T \in SUBSET Nat /\ T # {}
  <2>1. \A k \in S : k - b \in Nat
    OBVIOUS
  <2> QED BY <2>1
<1>2. PICK n \in T : \A k \in T : n <= k
  <2> HIDE DEF T
  <2> QED BY <1>1, LeastMember
<1>3. PICK m \in S : n = m - b
  BY <1>2
<1>4. \A k \in S : m <= k
  <2> SUFFICES ASSUME NEW k \in S PROVE m <= k
    OBVIOUS
  <2>1. n <= k - b
    BY <1>2
  <2> QED BY <1>3, <2>1
<1> QED BY <1>4 DEF Min

LEMMA MaxIsGreatest ==
  ASSUME NEW S \in SUBSET Int, S # {}, NEW b \in Int, \A k \in S : k <= b
  PROVE  Max(S) \in S /\ \A k \in S : k <= Max(S)
<1> DEFINE T == {b - k : k \in S}
<1>1. T \in SUBSET Nat /\ T # {}
  <2>1. \A k \in S : b - k \in Nat
    OBVIOUS
  <2> QED BY <2>1
<1>2. PICK n \in T : \A k \in T : n <= k
  <2> HIDE DEF T
  <2> QED BY <1>1, LeastMember
<1>3. PICK m \in S : n = b - m
  BY <1>2
<1>4. \A k \in S : k <= m
  <2> SUFFICES ASSUME NEW k \in S PROVE k <= m
    OBVIOUS
  <2>1. n <= b - k
    BY <1>2
  <2> QED BY <1>3, <2>1
<1>5. \A k \in S : m >= k
  BY <1>4
<1> QED BY <1>4, <1>5 DEF Max

\* Finitely many numbers are within a bound.
LEMMA SomeBound ==
  ASSUME NEW n \in Nat, NEW t, AreInts(t, n)
  PROVE  \E b \in Nat : \A k \in 1..n : -b <= t[k] /\ t[k] <= b
<1> DEFINE Bounds(m, b) == \A k \in 1..m : -b <= t[k] /\ t[k] <= b
           S == {m \in 0..n : \E b \in Nat : Bounds(m, b)}
<1>1. 0 \in S
  <2>1. Bounds(0, 0)
    OBVIOUS
  <2> HIDE DEF Bounds
  <2> QED BY <2>1
<1>2. ASSUME NEW m \in S, m < n PROVE m + 1 \in S
  <2>1. PICK b \in Nat : Bounds(m, b)
    <3> HIDE DEF Bounds
    <3> QED OBVIOUS
  <2>2. m + 1 \in 1..n /\ t[m + 1] \in Int
    BY <1>2 DEF AreInts
  <2>3. PICK e \in Nat : b <= e /\ -e <= t[m + 1] /\ t[m + 1] <= e
    <3>1. CASE t[m + 1] >= 0
      BY <2>2, <3>1 , b + t[m + 1] \in Nat
    <3>2. CASE t[m + 1] < 0
      BY <2>2, <3>2 , b - t[m + 1] \in Nat
    <3> QED BY <2>2, <3>1, <3>2
  <2>4. Bounds(m + 1, e)
    <3> SUFFICES ASSUME NEW k \in 1..(m + 1) PROVE -e <= t[k] /\ t[k] <= e
      OBVIOUS
    <3>1. CASE k = m + 1
      BY <2>3, <3>1
    <3>2. CASE k \in 1..m
      <4>1. -b <= t[k] /\ t[k] <= b /\ t[k] \in Int
        BY <1>2, <2>1, <3>2 DEF AreInts
      <4> QED BY <2>3, <4>1
    <3> QED BY <1>2, <3>1, <3>2
  <2> HIDE DEF Bounds
  <2> QED BY <2>2, <2>4
<1>3. n \in S
  <2>1. S \in SUBSET (0..n)
    OBVIOUS
  <2> HIDE DEF S
  <2> QED BY <1>1, <1>2, <2>1, TotalsFrom
<1> QED BY <1>3

\* A finite set of numbers has both ends.
LEMMA FiniteEnds ==
  ASSUME NEW S \in SUBSET Int, S # {}, IsFiniteSet(S)
  PROVE  /\ Min(S) \in S /\ \A k \in S : Min(S) <= k
         /\ Max(S) \in S /\ \A k \in S : k <= Max(S)
<1>0. PICK n \in Nat : ExistsBijection(1..n, S)
  BY FS_NatBijection
<1>1. PICK f : f \in Bijection(1..n, S)
  BY <1>0 DEF ExistsBijection
<1>2. /\ \A k \in 1..n : f[k] \in S
      /\ \A v \in S : \E k \in 1..n : f[k] = v
  BY <1>1, Fun_IsBij DEF Bijection, Surjection
<1>3. AreInts(f, n)
  BY <1>2 DEF AreInts
<1>4. PICK b \in Nat : \A k \in 1..n : -b <= f[k] /\ f[k] <= b
  BY <1>3, SomeBound
<1>5. \A v \in S : -b <= v /\ v <= b
  BY <1>2, <1>4
<1>6. -b \in Int /\ b \in Int
  OBVIOUS
<1> QED BY <1>5, <1>6, MinIsLeast, MaxIsGreatest

\* The ends of a number and of those that finitely many things give.
LEMMA EndsWith ==
  ASSUME NEW v \in Int, NEW S, IsFiniteSet(S), NEW f, \A i \in S : f[i] \in Int
  PROVE  /\ Max({v} \cup {f[i] : i \in S}) \in Int
         /\ v <= Max({v} \cup {f[i] : i \in S})
         /\ Min({v} \cup {f[i] : i \in S}) \in Int
         /\ Min({v} \cup {f[i] : i \in S}) <= v
<1> DEFINE g == [i \in S |-> f[i]]
           T == {v} \cup {f[i] : i \in S}
<1>1. IsFiniteSet({f[i] : i \in S})
  <2>1. g \in Surjection(S, {f[i] : i \in S})
    BY DEF Surjection
  <2> HIDE DEF g
  <2> QED BY <2>1, FS_Surjection
<1>2. IsFiniteSet(T)
  BY <1>1, FS_AddElement, T = {f[i] : i \in S} \cup {v}
<1>3. T \in SUBSET Int /\ v \in T
  OBVIOUS
<1> HIDE DEF T
<1>4. /\ Min(T) \in T /\ \A k \in T : Min(T) <= k
      /\ Max(T) \in T /\ \A k \in T : k <= Max(T)
  BY <1>2, <1>3, FiniteEnds
<1> QED BY <1>3, <1>4 DEF T

-----------------------------------------------------------------------------
(* The rounds of a matching.  Takes is the function whose last value        *)
(* Matched is.                                                             *)

TakesOf(pairs, n, f) ==
  f = [r \in 0..n |-> IF r = 0 THEN {} ELSE f[r - 1] \cup Winners(pairs, f[r - 1])]
Takes(pairs, n) == CHOOSE f : TakesOf(pairs, n, f)

LEMMA MatchedIs == ASSUME NEW pairs, NEW n PROVE Matched(pairs, n) = Takes(pairs, n)[n]
BY DEF Matched, Takes, TakesOf

LEMMA TakesExist ==
  ASSUME NEW pairs, NEW n \in Nat
  PROVE  TakesOf(pairs, n, Takes(pairs, n))
<1> DEFINE D == SUBSET (DOMAIN pairs)
           step == [T \in D |-> T \cup Winners(pairs, T)]
           none == {}
<1>1. step \in [D -> D] /\ {} \in D
  BY DEF Winners, Free
<1>2. PICK f \in [0..n -> D] : \A k \in 0..n : f[k] = IF k = 0 THEN none ELSE step[f[k - 1]]
  <2> HIDE DEF D, step, none
  <2>1. step \in [D -> D] /\ none \in D
    BY <1>1 DEF none
  <2>2. PICK f : Iterates(D, step, none, n, f)
    BY <2>1, IteratesExist
  <2> QED BY <2>2 DEF Iterates
<1>3. ASSUME NEW k \in 0..n
      PROVE  f[k] = IF k = 0 THEN {} ELSE f[k - 1] \cup Winners(pairs, f[k - 1])
  <2>1. k # 0 => f[k - 1] \in D
    <3> HIDE DEF D
    <3> QED OBVIOUS
  <2> QED BY <1>2, <2>1
<1>4. f = [r \in 0..n |-> IF r = 0 THEN {} ELSE f[r - 1] \cup Winners(pairs, f[r - 1])]
  <2>1. f = [r \in 0..n |-> f[r]]
    <3> HIDE DEF D
    <3> QED OBVIOUS
  <2> QED BY <1>3, <2>1
<1>5. TakesOf(pairs, n, f)
  BY <1>4 DEF TakesOf
<1> QED BY <1>5 DEF Takes

\* No row is taken before the first round; each round takes its winners.
LEMMA MatchedRounds ==
  ASSUME NEW pairs
  PROVE  /\ Matched(pairs, 0) = {}
         /\ \A n \in Nat : Matched(pairs, n + 1)
              = Matched(pairs, n) \cup Winners(pairs, Matched(pairs, n))
<1>1. Matched(pairs, 0) = {}
  <2>1. Takes(pairs, 0)[0] = {}
    BY TakesExist DEF TakesOf
  <2> QED BY <2>1, MatchedIs
<1>2. ASSUME NEW n \in Nat
      PROVE  Matched(pairs, n + 1) = Matched(pairs, n) \cup Winners(pairs, Matched(pairs, n))
  <2> DEFINE f == Takes(pairs, n)
             g == Takes(pairs, n + 1)
  <2>1. TakesOf(pairs, n, f) /\ TakesOf(pairs, n + 1, g)
    BY TakesExist
  <2> HIDE DEF f, g
  <2>2. /\ \A r \in 0..n : f[r] = IF r = 0 THEN {} ELSE f[r - 1] \cup Winners(pairs, f[r - 1])
        /\ \A r \in 0..(n + 1) :
             g[r] = IF r = 0 THEN {} ELSE g[r - 1] \cup Winners(pairs, g[r - 1])
    BY <2>1 DEF TakesOf
  <2>3. f[0] = g[0]
    <3>1. 0 \in 0..n /\ 0 \in 0..(n + 1)
      OBVIOUS
    <3>2. f[0] = {} /\ g[0] = {}
      BY <2>2, <3>1, Zenon
    <3> QED BY <3>2
  <2>4. ASSUME NEW k \in 0..n, k < n, f[k] = g[k] PROVE f[k + 1] = g[k + 1]
    <3>1. k + 1 \in 0..n /\ k + 1 \in 0..(n + 1) /\ k + 1 # 0 /\ (k + 1) - 1 = k
      BY <2>4
    <3>2. f[k + 1] = f[k] \cup Winners(pairs, f[k])
      BY <2>2, <3>1
    <3>3. g[k + 1] = g[k] \cup Winners(pairs, g[k])
      BY <2>2, <3>1
    <3> QED BY <2>4, <3>2, <3>3
  <2>5. f[n] = g[n]
    <3>1. \A k \in 0..n : f[k] = g[k]
      BY <2>3, <2>4, IteratesAgree
    <3> QED BY <3>1
  <2>6. g[n + 1] = g[n] \cup Winners(pairs, g[n])
    <3>1. n + 1 \in 0..(n + 1) /\ n + 1 # 0 /\ (n + 1) - 1 = n
      OBVIOUS
    <3> QED BY <2>2, <3>1
  <2> QED BY <2>5, <2>6, MatchedIs DEF f, g
<1> QED BY <1>1, <1>2

\* Only candidates are taken.
LEMMA MatchedTyped ==
  ASSUME NEW pairs, NEW n \in Nat PROVE Matched(pairs, n) \subseteq DOMAIN pairs
<1> DEFINE Good == {m \in Nat : Matched(pairs, m) \subseteq DOMAIN pairs}
<1>1. Good \in SUBSET Nat /\ 0 \in Good
  BY MatchedRounds
<1>2. \A m \in Good : m + 1 \in Good
  BY MatchedRounds DEF Winners, Free
<1>3. Good = Nat
  <2> HIDE DEF Good
  <2> QED BY <1>1, <1>2, NatSetInduction
<1> QED BY <1>3
=============================================================================
