------------------------ MODULE BatchedClosureProofs ------------------------
(***************************************************************************)
(* For every LP, every number of rounds and every point at which the clock *)
(* stops them, of the batched closure:                                     *)
(* - its shortcuts lose nothing: the degrees it keeps up by subtraction    *)
(*   are those of the live matrix, a sweep that looks only at changed      *)
(*   columns finds what a full one would, and every round but the last has *)
(*   removed a row or a column;                                            *)
(* - its one plan and one tape are right: a point of the reduced LP comes  *)
(*   back as a point of the LP at the same cost, no cheaper point is lost, *)
(*   an LP called infeasible has none, and every point of one called       *)
(*   unbounded has a cheaper one.                                          *)
(*                                                                         *)
(* The first part only depends on what the rules may do to a plan          *)
(* (EqShrinks, DualFixShrinks, RowsShrink) and on what the fate of a       *)
(* column is read from (FateReads).  The second is about what they         *)
(* compute: each rule, from any plan, keeps what the plan says of the      *)
(* points of the LP (SingletonRowsKeep, DualFixKeeps, EqKeeps).            *)
(***************************************************************************)
EXTENDS BatchedClosure, IndexLemmas

Vectors == [Cols -> Int]

\* Every member of a set of indices has a slot of its own.
LEMMA AscendingIs ==
  ASSUME NEW w \in Nat, NEW S \in SUBSET (1..w)
  PROVE  /\ Cardinality(S) \in Nat
         /\ Ascending(S) \in [1..Cardinality(S) -> S]
         /\ \A j \in S : \E q \in 1..Cardinality(S) : Ascending(S)[q] = j
         /\ \A q, r \in 1..Cardinality(S) : Ascending(S)[q] = Ascending(S)[r] => q = r
<1>1. Cardinality(S) \in Nat
  BY RankBounds
<1>2. \A q \in 1..Cardinality(S) : Ascending(S)[q] \in S /\ Rank(S, Ascending(S)[q]) = q
  BY RankOnto DEF Ascending
<1>3. Ascending(S) \in [1..Cardinality(S) -> S]
  BY <1>2 DEF Ascending
<1>4. ASSUME NEW j \in S PROVE \E q \in 1..Cardinality(S) : Ascending(S)[q] = j
  <2> DEFINE q == Rank(S, j)
  <2>1. q \in 1..Cardinality(S)
    BY RankOnto
  <2>2. Ascending(S)[q] \in S /\ Rank(S, Ascending(S)[q]) = q
    BY <1>2, <2>1
  <2>3. Ascending(S)[q] \in Int /\ j \in Int
    <3> HIDE DEF q
    <3> QED BY <2>2, Members
  <2>4. ~(Ascending(S)[q] < j) /\ ~(j < Ascending(S)[q])
    <3>1. q \in Int
      BY <2>1
    <3> HIDE DEF q
    <3>2. Ascending(S)[q] < j <=> Rank(S, Ascending(S)[q]) < Rank(S, j)
      BY <2>2, RankOrder
    <3>3. j < Ascending(S)[q] <=> Rank(S, j) < Rank(S, Ascending(S)[q])
      BY <2>2, RankOrder
    <3> QED BY <2>2, <3>1, <3>2, <3>3 DEF q
  <2> QED BY <2>1, <2>3, <2>4
<1> QED BY <1>1, <1>2, <1>3, <1>4

-----------------------------------------------------------------------------
(* Activities.                                                             *)

\* The terms of an activity.
Terms(coef, x, S) == [j \in Cols |-> IF j \in S THEN coef[j] * x[j] ELSE 0]

LEMMA ActivityIs ==
  ASSUME NEW coef \in Vectors, NEW x \in Vectors, NEW S
  PROVE  /\ Activity(coef, x, S) = Total(Terms(coef, x, S), N)
         /\ Terms(coef, x, S) \in Vectors /\ AreInts(Terms(coef, x, S), N)
         /\ \A j \in Cols : Terms(coef, x, S)[j] = IF j \in S THEN coef[j] * x[j] ELSE 0
         /\ Activity(coef, x, S) \in Int
         /\ N \in Nat
<1>1. N \in Nat /\ Activity(coef, x, S) = Total(Terms(coef, x, S), N)
  BY SmallLpAssumption DEF Activity, Terms
<1>2. /\ \A j \in Cols : Terms(coef, x, S)[j] = IF j \in S THEN coef[j] * x[j] ELSE 0
      /\ Terms(coef, x, S) \in Vectors
  BY DEF Terms, Vectors
<1>3. AreInts(Terms(coef, x, S), N)
  BY <1>2 DEF Vectors, AreInts, Cols
<1>4. Activity(coef, x, S) \in Int
  BY <1>1, <1>3, TotalStep
<1> QED BY <1>1, <1>2, <1>3, <1>4

\* Activities of equal terms.
LEMMA ActivityAgree ==
  ASSUME NEW coef \in Vectors, NEW x \in Vectors, NEW S,
         NEW other \in Vectors, NEW y \in Vectors, NEW T,
         \A j \in Cols : Terms(coef, x, S)[j] = Terms(other, y, T)[j]
  PROVE  Activity(coef, x, S) = Activity(other, y, T)
BY ActivityIs, TotalSame DEF Cols

\* An activity over two sets of columns.
LEMMA ActivitySplit ==
  ASSUME NEW coef \in Vectors, NEW x \in Vectors, NEW S, NEW T, S \cap T = {}
  PROVE  Activity(coef, x, S \cup T) = Activity(coef, x, S) + Activity(coef, x, T)
<1> DEFINE r == Terms(coef, x, S \cup T)
           s == Terms(coef, x, S)
           t == Terms(coef, x, T)
<1>1. /\ Activity(coef, x, S \cup T) = Total(r, N) /\ Activity(coef, x, S) = Total(s, N)
      /\ Activity(coef, x, T) = Total(t, N)
      /\ AreInts(r, N) /\ AreInts(s, N) /\ AreInts(t, N) /\ N \in Nat
  BY ActivityIs
<1>2. \A j \in 1..N : r[j] = s[j] + t[j]
  <2> SUFFICES ASSUME NEW j \in Cols PROVE r[j] = s[j] + t[j]
    BY DEF Cols
  <2>1. coef[j] * x[j] \in Int
    BY DEF Vectors
  <2> QED BY <2>1, ActivityIs
<1> HIDE DEF r, s, t
<1>3. Total(r, N) = Total(s, N) + Total(t, N)
  BY <1>1, <1>2, TotalAdd
<1> QED BY <1>1, <1>3

\* Activities in the order of their terms.
LEMMA ActivityOrder ==
  ASSUME NEW coef \in Vectors, NEW x \in Vectors, NEW S,
         NEW other \in Vectors, NEW y \in Vectors, NEW T,
         \A j \in Cols : Terms(coef, x, S)[j] <= Terms(other, y, T)[j]
  PROVE  Activity(coef, x, S) <= Activity(other, y, T)
<1> DEFINE s == Terms(coef, x, S)
           t == Terms(other, y, T)
<1>1. /\ Activity(coef, x, S) = Total(s, N) /\ Activity(other, y, T) = Total(t, N)
      /\ AreInts(s, N) /\ AreInts(t, N) /\ N \in Nat
  BY ActivityIs
<1>2. \A j \in 1..N : s[j] <= t[j]
  BY DEF Cols
<1> HIDE DEF s, t
<1>3. Total(s, N) <= Total(t, N)
  BY <1>1, <1>2, TotalMonotone
<1> QED BY <1>1, <1>3

\* An activity of terms within a bound.
LEMMA ActivityWithin ==
  ASSUME NEW coef \in Vectors, NEW x \in Vectors, NEW S, NEW b \in Nat,
         \A j \in Cols : -b <= Terms(coef, x, S)[j] /\ Terms(coef, x, S)[j] <= b
  PROVE  -(N * b) <= Activity(coef, x, S) /\ Activity(coef, x, S) <= N * b
<1> DEFINE s == Terms(coef, x, S)
<1>1. Activity(coef, x, S) = Total(s, N) /\ AreInts(s, N) /\ N \in Nat
  BY ActivityIs
<1>2. \A j \in 1..N : -b <= s[j] /\ s[j] <= b
  BY DEF Cols
<1> HIDE DEF s
<1>3. -(N * b) <= Total(s, N) /\ Total(s, N) <= N * b
  BY <1>1, <1>2, TotalWithin
<1> QED BY <1>1, <1>3

\* An activity with one term, and with none.
LEMMA ActivityOne ==
  ASSUME NEW coef \in Vectors, NEW x \in Vectors, NEW j \in Cols, NEW S, j \in S,
         \A k \in Cols \cap S : k # j => coef[k] = 0
  PROVE  Activity(coef, x, S) = coef[j] * x[j]
<1> DEFINE s == Terms(coef, x, S)
<1>1. Activity(coef, x, S) = Total(s, N) /\ N \in Nat
  BY ActivityIs
<1>2. s[j] = coef[j] * x[j] /\ s[j] \in Int
  BY ActivityIs DEF Vectors
<1>3. \A k \in Cols : k # j => s[k] = 0
  <2> SUFFICES ASSUME NEW k \in Cols, k # j PROVE s[k] = 0
    OBVIOUS
  <2>1. x[k] \in Int /\ 0 * x[k] = 0
    BY DEF Vectors
  <2>2. s[k] = IF k \in S THEN coef[k] * x[k] ELSE 0
    BY ActivityIs
  <2> QED BY <2>1, <2>2
<1> HIDE DEF s
<1>4. Total(s, N) = s[j]
  BY <1>1, <1>2, <1>3, TotalOne DEF Cols
<1> QED BY <1>1, <1>2, <1>4

LEMMA ActivityNone ==
  ASSUME NEW coef \in Vectors, NEW x \in Vectors, NEW S,
         \A k \in Cols \cap S : coef[k] = 0 \/ x[k] = 0
  PROVE  Activity(coef, x, S) = 0
<1> DEFINE s == Terms(coef, x, S)
<1>1. Activity(coef, x, S) = Total(s, N) /\ N \in Nat
  BY ActivityIs
<1>2. \A k \in Cols : s[k] = 0
  <2> SUFFICES ASSUME NEW k \in Cols PROVE s[k] = 0
    OBVIOUS
  <2>1. x[k] \in Int /\ coef[k] \in Int /\ 0 * x[k] = 0 /\ coef[k] * 0 = 0
    BY DEF Vectors
  <2>2. s[k] = IF k \in S THEN coef[k] * x[k] ELSE 0
    BY ActivityIs
  <2> QED BY <2>1, <2>2
<1> HIDE DEF s
<1>3. Total(s, N) = 0
  BY <1>1, <1>2, TotalNone DEF Cols
<1> QED BY <1>1, <1>3

-----------------------------------------------------------------------------
(* Points.                                                                 *)

\* The sequences of values for the first n columns.
UpTo(p, width, n) ==
  CHOOSE f : f = [k \in 0..n |-> IF k = 0 THEN {<< >>}
                                 ELSE Longer(f[k - 1], ValuesOf(p, width, k))]

LEMMA UpToStep ==
  ASSUME NEW p, NEW width, NEW n \in Nat
  PROVE  \A k \in 0..n : UpTo(p, width, n)[k] =
           IF k = 0 THEN {<< >>}
           ELSE Longer(UpTo(p, width, n)[k - 1], ValuesOf(p, width, k))
<1> DEFINE V(k) == ValuesOf(p, width, k)
           IsUpTo(m, f) == f = [k \in 0..m |-> IF k = 0 THEN {<< >>} ELSE Longer(f[k - 1], V(k))]
           Good == {m \in 0..n : \E f : IsUpTo(m, f)}
<1> HIDE DEF V
<1>1. 0 \in Good
  <2> DEFINE f == [k \in 0..0 |-> {<< >>}]
  <2>1. IsUpTo(0, f)
    OBVIOUS
  <2> HIDE DEF f, IsUpTo
  <2> QED BY <2>1
<1>2. ASSUME NEW m \in Good, m < n PROVE m + 1 \in Good
  <2>1. PICK f : IsUpTo(m, f)
    <3> HIDE DEF IsUpTo
    <3> QED OBVIOUS
  <2> DEFINE g == [k \in 0..(m + 1) |-> IF k = m + 1 THEN Longer(f[m], V(m + 1)) ELSE f[k]]
             h == [k \in 0..(m + 1) |-> IF k = 0 THEN {<< >>} ELSE Longer(g[k - 1], V(k))]
  <2>2. m \in Nat
    OBVIOUS
  <2>3. ASSUME NEW k \in 0..(m + 1) PROVE g[k] = h[k]
    <3>1. CASE k = m + 1
      <4>1. g[k] = Longer(f[m], V(k)) /\ g[k - 1] = f[m] /\ k # 0
        BY <2>2, <3>1
      <4> HIDE DEF g
      <4> QED BY <4>1
    <3>2. CASE k \in 0..m
      <4>1. g[k] = f[k] /\ (k # 0 => g[k - 1] = f[k - 1])
        BY <2>2, <3>2
      <4>2. f[k] = IF k = 0 THEN {<< >>} ELSE Longer(f[k - 1], V(k))
        BY <2>1, <3>2
      <4> HIDE DEF g
      <4> QED BY <4>1, <4>2
    <3> QED BY <2>2, <3>1, <3>2
  <2>4. g = h
    <3>1. g = [k \in 0..(m + 1) |-> g[k]] /\ h = [k \in 0..(m + 1) |-> h[k]]
      OBVIOUS
    <3> HIDE DEF g, h
    <3> QED BY <2>3, <3>1
  <2>5. IsUpTo(m + 1, g)
    <3> HIDE DEF g
    <3> QED BY <2>4
  <2> HIDE DEF g, h, IsUpTo
  <2> QED BY <1>2, <2>2, <2>5
<1>3. n \in Good
  <2>1. Good \in SUBSET (0..n)
    OBVIOUS
  <2> HIDE DEF Good
  <2> QED BY <1>1, <1>2, <2>1, TotalsFrom
<1>4. \E f : IsUpTo(n, f)
  <2> HIDE DEF IsUpTo
  <2> QED BY <1>3
<1>5. IsUpTo(n, UpTo(p, width, n))
  BY <1>4 DEF UpTo, V
<1> DEFINE w == UpTo(p, width, n)
<1> HIDE DEF w
<1>6. \A k \in 0..n : w[k] = IF k = 0 THEN {<< >>} ELSE Longer(w[k - 1], V(k))
  BY <1>5 DEF w
<1> QED BY <1>6 DEF w, V

\* What TLC enumerates are points of the p, zero in removed columns.
LEMMA PointsAre ==
  ASSUME NEW p, NEW width \in Int, NEW x \in PointsOf(p, width)
  PROVE  /\ x \in Vectors
         /\ \A j \in Cols : x[j] \in ValuesOf(p, width, j)
         /\ \A i \in p.keepRow :
              Within(p.AL[i], Activity(p.a[i], x, p.keepCol), p.AU[i])
<1> DEFINE w == UpTo(p, width, N)
           Typed(k) == \A y \in w[k] : y \in Seq(Int) /\ Len(y) = k
                                        /\ \A j \in 1..k : y[j] \in ValuesOf(p, width, j)
           Good == {k \in 0..N : Typed(k)}
<1>1. N \in Nat /\ x \in w[N] /\ \A i \in p.keepRow :
        Within(p.AL[i], Activity(p.a[i], x, p.keepCol), p.AU[i])
  BY SmallLpAssumption DEF PointsOf, UpTo
<1>2. \A k \in 0..N : w[k] = IF k = 0 THEN {<< >>}
                            ELSE Longer(w[k - 1], ValuesOf(p, width, k))
  BY <1>1, UpToStep
<1> HIDE DEF w
<1>3. \A j : ValuesOf(p, width, j) \subseteq Int
  BY DEF ValuesOf
<1>4. 0 \in Good
  <2>1. w[0] = {<< >>} /\ 0 \in 0..N
    BY <1>1, <1>2
  <2>2. << >> \in Seq(Int) /\ Len(<< >>) = 0
    OBVIOUS
  <2>3. Typed(0)
    BY <2>1, <2>2
  <2> QED BY <2>1, <2>3
<1>5. ASSUME NEW k \in Good, k < N PROVE k + 1 \in Good
  <2>1. k + 1 \in 1..N /\ k \in Nat
    BY <1>1, <1>5
  <2>2. w[k + 1] = Longer(w[k], ValuesOf(p, width, k + 1))
    <3>1. k + 1 \in 0..N /\ k + 1 # 0 /\ (k + 1) - 1 = k
      BY <2>1
    <3> QED BY <1>2, <3>1
  <2>3. Typed(k)
    OBVIOUS
  <2>4. ASSUME NEW y \in w[k], NEW v \in ValuesOf(p, width, k + 1)
        PROVE  /\ Append(y, v) \in Seq(Int) /\ Len(Append(y, v)) = k + 1
               /\ \A j \in 1..(k + 1) : Append(y, v)[j] \in ValuesOf(p, width, j)
    <3>1. y \in Seq(Int) /\ Len(y) = k /\ v \in Int
      BY <1>3, <2>3, <2>4
    <3>2. Append(y, v) \in Seq(Int) /\ Len(Append(y, v)) = k + 1 /\ Append(y, v)[k + 1] = v
      BY <3>1
    <3>3. \A j \in 1..k : Append(y, v)[j] = y[j]
      BY <3>1
    <3> QED BY <2>1, <2>3, <2>4, <3>2, <3>3
  <2>5. Typed(k + 1)
    <3> SUFFICES ASSUME NEW z \in w[k + 1]
                 PROVE  z \in Seq(Int) /\ Len(z) = k + 1
                        /\ \A j \in 1..(k + 1) : z[j] \in ValuesOf(p, width, j)
      OBVIOUS
    <3>1. PICK y \in w[k], v \in ValuesOf(p, width, k + 1) : z = Append(y, v)
      BY <2>2 DEF Longer
    <3> QED BY <2>4, <3>1
  <2> QED BY <2>1, <2>5
<1>6. N \in Good
  <2>1. Good \in SUBSET (0..N)
    OBVIOUS
  <2> HIDE DEF Good
  <2> QED BY <1>1, <1>4, <1>5, <2>1, TotalsFrom
<1>7. x \in Seq(Int) /\ Len(x) = N /\ \A j \in 1..N : x[j] \in ValuesOf(p, width, j)
  BY <1>1, <1>6
<1>8. x \in [1..N -> Int]
  BY <1>7
<1> QED BY <1>1, <1>7, <1>8 DEF Cols, Vectors

-----------------------------------------------------------------------------
(* Replay.                                                                 *)

Sides == [side : Int, coef : Vectors]
Records ==
       [type : {"SubCol"}, col : Cols, rows : {<<d>> : d \in Sides}, row : Rows, cost : Int,
        deleted : BOOLEAN]
  \cup [type : {"FixedCol"}, col : Cols, bound : Int, cost : Int,
        entries : UNION {[S -> Int] : S \in SUBSET Rows}]
  \cup [type : {"FixedColInf"}, col : Cols, dir : {-1, 1}, bound : Int, rows : Seq(Sides)]
  \cup [type : {"DeletedRow"}, row : Rows, col : Cols, coef : Int, AL : Int, AU : Int]
IsPrimal(r) == r.type \in PrimalTypes
\* The columns a tape recovers.
Recovers(tape) == {j \in Cols : \E q \in 1..Len(tape) : IsPrimal(tape[q]) /\ tape[q].col = j}

LEMMA TightIsInt ==
  ASSUME NEW d \in Sides, NEW j \in Cols, NEW x \in Vectors
  PROVE  Tight(d, j, x) \in Int
<1> DEFINE others == Cols \ {j}
           far == {k \in others : d.coef[k] # 0 /\ ~IsFinite(x[k])}
<1>1. d.side \in Int /\ d.coef \in Vectors /\ d.coef[j] \in Int /\ N \in Nat
  BY SmallLpAssumption DEF Sides, Vectors
<1>2. Activity(d.coef, x, others) \in Int
  BY <1>1, ActivityIs
<1>3. ASSUME far # {} PROVE Min(far) \in Cols
  <2>1. far \in SUBSET Int /\ far \in SUBSET Cols /\ (\A k \in far : 1 <= k) /\ 1 \in Int
    BY <1>1 DEF Cols
  <2> HIDE DEF far
  <2>2. Min(far) \in far
    BY <1>3, <2>1, MinIsLeast
  <2> QED BY <2>1, <2>2
<1>4. \A k \in Cols : d.coef[k] \in Int /\ x[k] \in Int
  BY <1>1 DEF Vectors
<1>5. Tight(d, j, x) = d.coef[j] * (IF ~IsFinite(d.side) THEN d.side
                                   ELSE IF far = {} THEN d.side - Activity(d.coef, x, others)
                                   ELSE -d.coef[Min(far)] * x[Min(far)])
  BY DEF Tight
<1> HIDE DEF far, others
<1>6. CASE far = {}
  BY <1>1, <1>2, <1>5, <1>6
<1>7. CASE far # {}
  <2>1. d.coef[Min(far)] \in Int /\ x[Min(far)] \in Int
    BY <1>3, <1>4, <1>7
  <2>2. -d.coef[Min(far)] * x[Min(far)] \in Int
    BY <2>1
  <2> QED BY <1>1, <1>5, <1>7, <2>2
<1> QED BY <1>6, <1>7

\* A row with a finite side is solved for a column, from finite values.
LEMMA TightSolves ==
  ASSUME NEW d, NEW j \in Cols, NEW x \in Vectors, IsFinite(d.side),
         \A k \in Cols \ {j} : d.coef[k] # 0 => IsFinite(x[k])
  PROVE  Tight(d, j, x) = d.coef[j] * (d.side - Activity(d.coef, x, Cols \ {j}))
BY DEF Tight

LEMMA ReplayedIsInt ==
  ASSUME NEW r \in Records, IsPrimal(r), NEW x \in Vectors
  PROVE  r.col \in Cols /\ Replayed(r, x) \in Int
<1>1. CASE r.type = "SubCol"
  <2>1. PICK d \in Sides : r.rows = <<d>> /\ r.col \in Cols
    BY <1>1 DEF Records
  <2>2. Replayed(r, x) = Tight(d, r.col, x)
    BY <1>1, <2>1 DEF Replayed
  <2> QED BY <2>1, <2>2, TightIsInt
<1>2. CASE r.type = "FixedCol"
  <2>1. r.col \in Cols /\ r.bound \in Int
    BY <1>2 DEF Records
  <2> QED BY <1>2, <2>1 DEF Replayed
<1>3. CASE r.type = "FixedColInf"
  <2>1. r.col \in Cols /\ r.bound \in Int /\ r.rows \in Seq(Sides)
    BY <1>3 DEF Records
  <2> DEFINE t == [q \in 1..Len(r.rows) |-> Tight(r.rows[q], r.col, x)]
             C == {r.bound} \cup {Tight(r.rows[q], r.col, x) : q \in DOMAIN r.rows}
  <2>2. \A q \in 1..Len(r.rows) : Tight(r.rows[q], r.col, x) \in Int
    BY <2>1, TightIsInt
  <2>3. Len(r.rows) \in Nat /\ AreInts(t, Len(r.rows)) /\ DOMAIN r.rows = 1..Len(r.rows)
    BY <2>1, <2>2 DEF AreInts
  <2>4. PICK b \in Nat : \A q \in 1..Len(r.rows) : -b <= t[q] /\ t[q] <= b
    <3> HIDE DEF t
    <3> QED BY <2>3, SomeBound
  <2>5. C \in SUBSET Int /\ C # {}
    BY <2>1, <2>2, <2>3
  <2>6. PICK lo \in Int, hi \in Int : \A k \in C : lo <= k /\ k <= hi
    <3>1. \A k \in C : k = r.bound \/ (-b <= k /\ k <= b)
      BY <2>3, <2>4
    <3> HIDE DEF C
    <3>2. CASE r.bound >= 0
      <4>1. r.bound + b \in Int /\ -b \in Int
        BY <2>1
      <4>2. \A k \in C : -b <= k /\ k <= r.bound + b
        BY <2>1, <2>5, <3>1, <3>2
      <4> QED BY <4>1, <4>2
    <3>3. CASE r.bound < 0
      <4>1. r.bound - b \in Int /\ b \in Int
        BY <2>1
      <4>2. \A k \in C : r.bound - b <= k /\ k <= b
        BY <2>1, <2>5, <3>1, <3>3
      <4> QED BY <4>1, <4>2
    <3> QED BY <2>1, <3>2, <3>3
  <2>7. Replayed(r, x) = IF r.dir > 0 THEN Max(C) ELSE Min(C)
    BY <1>3 DEF Replayed
  <2> HIDE DEF C
  <2>8. Max(C) \in C /\ Min(C) \in C
    BY <2>5, <2>6, MinIsLeast, MaxIsGreatest
  <2> QED BY <2>1, <2>5, <2>7, <2>8
<1>4. r.type \in {"SubCol", "FixedCol", "FixedColInf"}
  BY DEF IsPrimal, PrimalTypes, Records
<1> QED BY <1>1, <1>2, <1>3, <1>4

\* One record undone: the q-th from the end.
Undone(tape, y, q) ==
  LET r == tape[Len(tape) + 1 - q]
  IN IF IsPrimal(r) THEN [y EXCEPT ![r.col] = Replayed(r, y)] ELSE y
Rewinding(tape, x, n) ==
  CHOOSE f : f = [q \in 0..n |-> IF q = 0 THEN x ELSE Undone(tape, f[q - 1], q)]

LEMMA RewindingStep ==
  ASSUME NEW tape, NEW x, NEW n \in Nat
  PROVE  /\ \A q \in 0..n : Rewinding(tape, x, n)[q] =
              IF q = 0 THEN x ELSE Undone(tape, Rewinding(tape, x, n)[q - 1], q)
         /\ Rewound(tape, x, n) = Rewinding(tape, x, n)[n]
<1> DEFINE IsRewinding(m, f) == f = [k \in 0..m |-> IF k = 0 THEN x ELSE Undone(tape, f[k - 1], k)]
           Good == {m \in 0..n : \E f : IsRewinding(m, f)}
<1>1. 0 \in Good
  <2> DEFINE f == [k \in 0..0 |-> x]
  <2>1. IsRewinding(0, f)
    OBVIOUS
  <2> HIDE DEF f, IsRewinding
  <2> QED BY <2>1
<1>2. ASSUME NEW m \in Good, m < n PROVE m + 1 \in Good
  <2>1. PICK f : IsRewinding(m, f)
    <3> HIDE DEF IsRewinding
    <3> QED OBVIOUS
  <2> DEFINE g == [k \in 0..(m + 1) |-> IF k = m + 1 THEN Undone(tape, f[m], m + 1) ELSE f[k]]
             h == [k \in 0..(m + 1) |-> IF k = 0 THEN x ELSE Undone(tape, g[k - 1], k)]
  <2>2. m \in Nat
    OBVIOUS
  <2>3. ASSUME NEW k \in 0..(m + 1) PROVE g[k] = h[k]
    <3>1. CASE k = m + 1
      <4>1. g[k] = Undone(tape, f[m], k) /\ g[k - 1] = f[m] /\ k # 0
        BY <2>2, <3>1
      <4> HIDE DEF g
      <4> QED BY <4>1
    <3>2. CASE k \in 0..m
      <4>1. g[k] = f[k] /\ (k # 0 => g[k - 1] = f[k - 1])
        BY <2>2, <3>2
      <4>2. f[k] = IF k = 0 THEN x ELSE Undone(tape, f[k - 1], k)
        BY <2>1, <3>2
      <4> HIDE DEF g
      <4> QED BY <4>1, <4>2
    <3> QED BY <2>2, <3>1, <3>2
  <2>4. g = h
    <3>1. g = [k \in 0..(m + 1) |-> g[k]] /\ h = [k \in 0..(m + 1) |-> h[k]]
      OBVIOUS
    <3> HIDE DEF g, h
    <3> QED BY <2>3, <3>1
  <2>5. IsRewinding(m + 1, g)
    <3> HIDE DEF g
    <3> QED BY <2>4
  <2> HIDE DEF g, h, IsRewinding
  <2> QED BY <1>2, <2>2, <2>5
<1>3. n \in Good
  <2>1. Good \in SUBSET (0..n)
    OBVIOUS
  <2> HIDE DEF Good
  <2> QED BY <1>1, <1>2, <2>1, TotalsFrom
<1>4. \E f : IsRewinding(n, f)
  <2> HIDE DEF IsRewinding
  <2> QED BY <1>3
<1>5. IsRewinding(n, Rewinding(tape, x, n))
  BY <1>4 DEF Rewinding
<1>6. Rewound(tape, x, n) = Rewinding(tape, x, n)[n]
  BY DEF Rewound, Rewinding, Undone, IsPrimal
<1> DEFINE w == Rewinding(tape, x, n)
<1> HIDE DEF w
<1>7. \A q \in 0..n : w[q] = IF q = 0 THEN x ELSE Undone(tape, w[q - 1], q)
  BY <1>5 DEF w
<1> QED BY <1>6, <1>7 DEF w

LEMMA RewoundStep ==
  ASSUME NEW tape, NEW x, NEW n \in Nat
  PROVE  /\ Rewound(tape, x, 0) = x
         /\ Rewound(tape, x, n + 1) = Undone(tape, Rewound(tape, x, n), n + 1)
<1> DEFINE f == Rewinding(tape, x, n)
           g == Rewinding(tape, x, n + 1)
<1>1. /\ \A q \in 0..n : f[q] = IF q = 0 THEN x ELSE Undone(tape, f[q - 1], q)
      /\ \A q \in 0..(n + 1) : g[q] = IF q = 0 THEN x ELSE Undone(tape, g[q - 1], q)
      /\ Rewound(tape, x, n) = f[n] /\ Rewound(tape, x, n + 1) = g[n + 1]
  BY RewindingStep
<1> HIDE DEF f, g
<1>2. \A q \in 0..n : f[q] = g[q]
  <2>1. f[0] = g[0]
    BY <1>1
  <2>2. ASSUME NEW k \in 0..n, k < n, f[k] = g[k] PROVE f[k + 1] = g[k + 1]
    <3>1. k + 1 \in 0..n /\ k + 1 \in 0..(n + 1) /\ k + 1 # 0 /\ (k + 1) - 1 = k
      BY <2>2
    <3> QED BY <1>1, <2>2, <3>1
  <2> QED BY <2>1, <2>2, IteratesAgree
<1>3. n + 1 \in 0..(n + 1) /\ n + 1 # 0 /\ (n + 1) - 1 = n /\ n \in 0..n
  OBVIOUS
<1>4. g[n + 1] = Undone(tape, f[n], n + 1)
  BY <1>1, <1>2, <1>3
<1>5. Rewound(tape, x, 0) = x
  <2>1. 0 \in 0..0 /\ 0 \in Nat
    OBVIOUS
  <2> QED BY <2>1, RewindingStep
<1> QED BY <1>1, <1>4, <1>5

\* Undoing records changes the columns they recover, and no other.
LEMMA RewoundKeeps ==
  ASSUME NEW tape \in Seq(Records), NEW x \in Vectors, NEW n \in 0..Len(tape)
  PROVE  /\ Rewound(tape, x, n) \in Vectors
         /\ \A j \in Cols \ Recovers(tape) : Rewound(tape, x, n)[j] = x[j]
<1> DEFINE Kept(y) == y \in Vectors /\ \A j \in Cols \ Recovers(tape) : y[j] = x[j]
           S == {k \in 0..Len(tape) : Kept(Rewound(tape, x, k))}
<1>0. Len(tape) \in Nat
  OBVIOUS
<1>1. 0 \in S
  <2>1. Rewound(tape, x, 0) = x
    BY <1>0, RewoundStep
  <2> QED BY <1>0, <2>1
<1>2. ASSUME NEW k \in S, k < Len(tape) PROVE k + 1 \in S
  <2> DEFINE y == Rewound(tape, x, k)
             q == Len(tape) + 1 - (k + 1)
             r == tape[q]
  <2>1. k \in Nat /\ k + 1 \in 0..Len(tape) /\ q \in 1..Len(tape) /\ Kept(y)
    BY <1>0, <1>2
  <2>2. r \in Records
    BY <2>1
  <2>3. Rewound(tape, x, k + 1) = IF IsPrimal(r) THEN [y EXCEPT ![r.col] = Replayed(r, y)] ELSE y
    BY <2>1, RewoundStep DEF Undone
  <2>4. IsPrimal(r) => r.col \in Recovers(tape)
    BY <2>1, <2>2, ReplayedIsInt DEF Recovers
  <2>5. y \in Vectors /\ \A j \in Cols \ Recovers(tape) : y[j] = x[j]
    BY <2>1
  <2> HIDE DEF y, q, r
  <2>6. CASE IsPrimal(r)
    <3>1. r.col \in Cols /\ Replayed(r, y) \in Int
      BY <2>2, <2>5, <2>6, ReplayedIsInt
    <3>2. [y EXCEPT ![r.col] = Replayed(r, y)] \in Vectors
      BY <2>5, <3>1 DEF Vectors
    <3>3. \A j \in Cols \ Recovers(tape) : [y EXCEPT ![r.col] = Replayed(r, y)][j] = x[j]
      BY <2>4, <2>5, <2>6 DEF Vectors
    <3> QED BY <2>1, <2>3, <2>6, <3>2, <3>3
  <2>7. CASE ~IsPrimal(r)
    BY <2>1, <2>3, <2>5, <2>7
  <2> QED BY <2>6, <2>7
<1>3. S = 0..Len(tape)
  <2>1. S \in SUBSET (0..Len(tape))
    OBVIOUS
  <2> HIDE DEF S
  <2> QED BY <1>0, <1>1, <1>2, <2>1, IntervalInduction
<1>4. n \in S
  BY <1>3
<1> QED BY <1>4

\* A record that alone recovers its column, and from columns that no record of
\* the tape recovers, recovers the value it has for x.
LEMMA RewoundValue ==
  ASSUME NEW tape \in Seq(Records), NEW x \in Vectors, NEW q \in 1..Len(tape), IsPrimal(tape[q]),
         \A h \in 1..Len(tape) : h # q /\ IsPrimal(tape[h]) => tape[h].col # tape[q].col,
         \A y \in Vectors : (\A j \in Cols \ Recovers(tape) : y[j] = x[j])
                            => Replayed(tape[q], y) = Replayed(tape[q], x)
  PROVE  Replay(tape, x)[tape[q].col] = Replayed(tape[q], x)
<1> DEFINE v == Replayed(tape[q], x)
<1>v. \A y \in Vectors : (\A j \in Cols \ Recovers(tape) : y[j] = x[j]) => Replayed(tape[q], y) = v
  OBVIOUS
<1> HIDE DEF v
<1> DEFINE len == Len(tape)
           n == len + 1 - q
           c == tape[q].col
           S == {k \in 0..(len - n) : Rewound(tape, x, n + k)[c] = v}
<1>0. /\ len \in Nat /\ n \in 1..len /\ tape[q] \in Records
      /\ c \in Cols
  <2>1. len \in Nat /\ n \in 1..len /\ tape[q] \in Records
    OBVIOUS
  <2>2. [k \in Cols |-> 0] \in Vectors
    BY DEF Vectors
  <2> QED BY <2>1, <2>2, ReplayedIsInt
<1>1. 0 \in S
  <2> DEFINE y == Rewound(tape, x, n - 1)
  <2>1. n - 1 \in Nat /\ n - 1 \in 0..len /\ (n - 1) + 1 = n /\ len + 1 - n = q /\ n + 0 = n
    BY <1>0
  <2>2. Rewound(tape, x, n) = [y EXCEPT ![c] = Replayed(tape[q], y)]
    BY <2>1, RewoundStep DEF Undone
  <2>3. y \in Vectors /\ \A j \in Cols \ Recovers(tape) : y[j] = x[j]
    BY <2>1, RewoundKeeps
  <2> HIDE DEF y, c
  <2>4. Rewound(tape, x, n)[c] = v
    BY <1>0, <1>v, <2>2, <2>3 DEF Vectors
  <2> HIDE DEF n, len
  <2> QED BY <1>0, <2>1, <2>4
<1>2. ASSUME NEW k \in S, k < len - n PROVE k + 1 \in S
  <2> DEFINE y == Rewound(tape, x, n + k)
             h == len + 1 - ((n + k) + 1)
             r == tape[h]
  <2>1. n + k \in Nat /\ n + k \in 0..len /\ h \in 1..len /\ h # q
    BY <1>0, <1>2
  <2>2. Rewound(tape, x, (n + k) + 1) = IF IsPrimal(r) THEN [y EXCEPT ![r.col] = Replayed(r, y)] ELSE y
    BY <2>1, RewoundStep DEF Undone
  <2>3. y \in Vectors
    BY <2>1, RewoundKeeps
  <2>4. IsPrimal(r) => r.col # c
    BY <2>1
  <2>5. y[c] = v
    OBVIOUS
  <2> HIDE DEF y, r, c
  <2>6. Rewound(tape, x, (n + k) + 1)[c] = v
    BY <1>0, <2>2, <2>3, <2>4, <2>5 DEF Vectors
  <2>7. k + 1 \in 0..(len - n) /\ n + (k + 1) = (n + k) + 1
    BY <1>0, <1>2
  <2> QED BY <2>6, <2>7
<1>3. len - n \in S
  <2>1. S \in SUBSET (0..(len - n)) /\ len - n \in Nat
    BY <1>0
  <2> HIDE DEF S, len, n
  <2> QED BY <1>1, <1>2, <2>1, TotalsFrom
<1>4. n + (len - n) = len
  BY <1>0
<1>5. Rewound(tape, x, len)[c] = v
  BY <1>3, <1>4
<1> QED BY <1>5 DEF Replay, v

\* A tape that goes on is undone from its continuation.
LEMMA ReplayMore ==
  ASSUME NEW s \in Seq(Records), NEW t \in Seq(Records), NEW x
  PROVE  Replay(s \o t, x) = Replay(s, Replay(t, x))
<1> DEFINE m == Len(s)
           n == Len(t)
           w == s \o t
           z == Rewound(t, x, n)
<1>1. /\ m \in Nat /\ n \in Nat /\ Len(w) = m + n
      /\ \A q \in 1..m : w[q] = s[q]
      /\ \A q \in 1..n : w[m + q] = t[q]
  OBVIOUS
<1> HIDE DEF m, n, w
<1>2. Rewound(w, x, n) = z
  <2> DEFINE S == {k \in 0..n : Rewound(w, x, k) = Rewound(t, x, k)}
  <2>1. 0 \in S
    BY <1>1, RewoundStep
  <2>2. ASSUME NEW k \in S, k < n PROVE k + 1 \in S
    <3>1. k \in Nat /\ k + 1 \in 0..n /\ n + 1 - (k + 1) \in 1..n
          /\ (m + n) + 1 - (k + 1) = m + (n + 1 - (k + 1))
      BY <1>1, <2>2
    <3>2. w[Len(w) + 1 - (k + 1)] = t[n + 1 - (k + 1)]
      BY <1>1, <3>1
    <3>3. \A y : Undone(w, y, k + 1) = Undone(t, y, k + 1)
      BY <3>2 DEF Undone, n
    <3>4. Rewound(w, x, k) = Rewound(t, x, k)
      OBVIOUS
    <3>5. Rewound(w, x, k + 1) = Rewound(t, x, k + 1)
      BY <3>1, <3>3, <3>4, RewoundStep
    <3> QED BY <3>1, <3>5
  <2>3. n \in S
    <3>1. S \in SUBSET (0..n)
      OBVIOUS
    <3> HIDE DEF S
    <3> QED BY <1>1, <2>1, <2>2, <3>1, TotalsFrom
  <2> QED BY <2>3
<1>3. Rewound(w, x, n + m) = Rewound(s, z, m)
  <2> DEFINE S == {k \in 0..m : Rewound(w, x, n + k) = Rewound(s, z, k)}
  <2>1. 0 \in S
    <3>1. n + 0 = n /\ 0 \in 0..m
      BY <1>1
    <3> QED BY <1>1, <1>2, <3>1, RewoundStep
  <2>2. ASSUME NEW k \in S, k < m PROVE k + 1 \in S
    <3>1. /\ k \in Nat /\ n + k \in Nat /\ k + 1 \in 0..m /\ m + 1 - (k + 1) \in 1..m
          /\ (m + n) + 1 - ((n + k) + 1) = m + 1 - (k + 1) /\ n + (k + 1) = (n + k) + 1
      BY <1>1, <2>2
    <3>2. w[Len(w) + 1 - ((n + k) + 1)] = s[m + 1 - (k + 1)]
      BY <1>1, <3>1
    <3>3. \A y : Undone(w, y, (n + k) + 1) = Undone(s, y, k + 1)
      BY <3>2 DEF Undone, m
    <3>4. Rewound(w, x, n + k) = Rewound(s, z, k)
      OBVIOUS
    <3>5. Rewound(w, x, (n + k) + 1) = Rewound(s, z, k + 1)
      <4> HIDE DEF z
      <4>1. /\ Rewound(w, x, (n + k) + 1) = Undone(w, Rewound(w, x, n + k), (n + k) + 1)
            /\ Rewound(s, z, k + 1) = Undone(s, Rewound(s, z, k), k + 1)
        BY <3>1, RewoundStep
      <4> QED BY <3>3, <3>4, <4>1
    <3> QED BY <3>1, <3>5
  <2>3. m \in S
    <3>1. S \in SUBSET (0..m)
      OBVIOUS
    <3> HIDE DEF S
    <3> QED BY <1>1, <2>1, <2>2, <3>1, TotalsFrom
  <2> QED BY <2>3
<1>4. Replay(w, x) = Replay(s, Replay(t, x))
  BY <1>1, <1>3 DEF Replay, m, n
<1> QED BY <1>4 DEF w

\* One column more or less in an activity.
LEMMA ActivityShift ==
  ASSUME NEW coef \in Vectors, NEW x \in Vectors, NEW S, NEW j \in Cols, j \in S, NEW d \in Int
  PROVE  Activity(coef, [x EXCEPT ![j] = @ + d], S) = Activity(coef, x, S) + coef[j] * d
<1> DEFINE y == [x EXCEPT ![j] = @ + d]
           T == S \ {j}
<1>1. /\ y \in Vectors /\ y[j] = x[j] + d /\ x[j] \in Int /\ coef[j] \in Int
      /\ \A k \in Cols : k # j => y[k] = x[k]
  BY DEF Vectors
<1> HIDE DEF y
<1>2. S = {j} \cup T /\ {j} \cap T = {}
  OBVIOUS
<1> HIDE DEF T
<1>3. /\ Activity(coef, x, S) = Activity(coef, x, {j}) + Activity(coef, x, T)
      /\ Activity(coef, y, S) = Activity(coef, y, {j}) + Activity(coef, y, T)
  BY <1>1, <1>2, ActivitySplit
<1>4. Activity(coef, x, {j}) = coef[j] * x[j] /\ Activity(coef, y, {j}) = coef[j] * y[j]
  BY <1>1, ActivityOne
<1>5. Activity(coef, x, T) = Activity(coef, y, T)
  <2>1. ASSUME NEW k \in Cols
        PROVE  Terms(coef, x, T)[k] = Terms(coef, y, T)[k]
    <3>1. k \in T => k # j
      BY <1>2
    <3> QED BY <1>1, <3>1, ActivityIs
  <2> QED BY <1>1, <2>1, ActivityAgree
<1>6. coef[j] * y[j] = coef[j] * x[j] + coef[j] * d
  BY <1>1
<1>7. Activity(coef, x, T) \in Int /\ coef[j] * x[j] \in Int /\ coef[j] * d \in Int
  BY <1>1, ActivityIs
<1> QED BY <1>3, <1>4, <1>5, <1>6, <1>7 DEF y

\* All points of the p within the width are among those that are enumerated.
LEMMA PointsInclude ==
  ASSUME NEW p, NEW width \in Int, NEW x \in Vectors,
         \A j \in Cols : x[j] \in ValuesOf(p, width, j),
         \A i \in p.keepRow : Within(p.AL[i], Activity(p.a[i], x, p.keepCol), p.AU[i])
  PROVE  x \in PointsOf(p, width)
<1> DEFINE w == UpTo(p, width, N)
           start(k) == [j \in 1..k |-> x[j]]
           Good == {k \in 0..N : start(k) \in w[k]}
<1>1. N \in Nat /\ Cols = 1..N
  BY SmallLpAssumption DEF Cols
<1>2. \A k \in 0..N : w[k] = IF k = 0 THEN {<< >>}
                            ELSE Longer(w[k - 1], ValuesOf(p, width, k))
  BY <1>1, UpToStep
<1> HIDE DEF w
<1>3. 0 \in Good
  <2>1. w[0] = {<< >>} /\ 0 \in 0..N
    BY <1>1, <1>2
  <2>2. start(0) = << >>
    OBVIOUS
  <2> QED BY <2>1, <2>2
<1>4. ASSUME NEW k \in Good, k < N PROVE k + 1 \in Good
  <2>1. k + 1 \in 1..N /\ k \in Nat /\ k + 1 \in 0..N /\ start(k) \in w[k]
    BY <1>1, <1>4
  <2>2. w[k + 1] = Longer(w[k], ValuesOf(p, width, k + 1))
    <3>1. k + 1 # 0 /\ (k + 1) - 1 = k
      BY <2>1
    <3> QED BY <1>2, <2>1, <3>1
  <2>3. \A j \in 1..N : x[j] \in Int
    BY <1>1 DEF Vectors
  <2>4. start(k + 1) = Append(start(k), x[k + 1])
    <3>1. \A j \in 1..(k + 1) : x[j] \in Int
      <4>1. \A j \in 1..(k + 1) : j \in 1..N
        BY <1>1, <2>1
      <4> QED BY <2>3, <4>1
    <3>2. start(k) \in Seq(Int) /\ start(k + 1) \in Seq(Int) /\ Len(start(k)) = k /\ Len(start(k + 1)) = k + 1
      <4>1. start(k) \in [1..k -> Int] /\ start(k + 1) \in [1..(k + 1) -> Int]
        <5>1. \A j \in 1..k : j \in 1..(k + 1)
          BY <2>1
        <5> QED BY <3>1, <5>1
      <4>2. k + 1 \in Nat
        BY <2>1
      <4> HIDE DEF start
      <4> QED BY <2>1, <4>1, <4>2
    <3>3. \A j \in 1..(k + 1) : Append(start(k), x[k + 1])[j] = x[j]
      BY <2>1, <3>1, <3>2
    <3>4. Append(start(k), x[k + 1]) \in Seq(Int) /\ Len(Append(start(k), x[k + 1])) = k + 1
      BY <2>1, <3>1, <3>2
    <3>5. \A j \in 1..(k + 1) : start(k + 1)[j] = x[j]
      OBVIOUS
    <3> HIDE DEF start
    <3> QED BY <2>1, <3>2, <3>3, <3>4, <3>5
  <2>5. x[k + 1] \in ValuesOf(p, width, k + 1)
    BY <1>1, <2>1
  <2>6. start(k + 1) \in w[k + 1]
    <3> HIDE DEF start
    <3> QED BY <2>1, <2>2, <2>4, <2>5 DEF Longer
  <2> QED BY <2>1, <2>6
<1>5. N \in Good
  <2>1. Good \in SUBSET (0..N)
    OBVIOUS
  <2> HIDE DEF Good
  <2> QED BY <1>1, <1>3, <1>4, <2>1, TotalsFrom
<1>6. start(N) = x
  BY <1>1 DEF Vectors
<1>7. x \in w[N]
  BY <1>5, <1>6
<1> QED BY <1>7 DEF PointsOf, UpTo, w

PlanFields == {"a", "keepRow", "keepCol", "c", "l", "u", "AL", "AU", "delta", "tape", "verdict"}
IsPlan(p) == DOMAIN p = PlanFields /\ p.keepRow \subseteq Rows /\ p.keepCol \subseteq Cols

\* The entries of every line of a matrix, across the other lines.
RowEntries(a) == [i \in Rows |-> {j \in Cols : a[i][j] # 0}]
ColEntries(a) == [j \in Cols |-> {i \in Rows : a[i][j] # 0}]

\* The statistics of some lines count the entries across some others: the
\* degree of each line, and the one entry of a line that has only one.
Counted(entries, lines, across, nnz, sing) ==
  /\ \A i \in lines : nnz[i] = Cardinality(entries[i] \cap across)
  /\ \A i \in DOMAIN entries :
       IF i \in lines /\ Cardinality(entries[i] \cap across) = 1
       THEN sing[i] # 0 /\ entries[i] \cap across = {sing[i]}
       ELSE sing[i] = 0

\* The statistics are those of the masks of the last refresh.
StatsOf(a, rows, cols) ==
  /\ Counted(RowEntries(a), rows, cols, rowNnz, singRow)
  /\ Counted(ColEntries(a), cols, rows, colNnz, singCol)
StatsInv ==
  /\ StatsOf(plan.a, rowsBefore, colsBefore)
  /\ plan.keepRow \subseteq rowsBefore /\ rowsBefore \subseteq Rows
  /\ plan.keepCol \subseteq colsBefore /\ colsBefore \subseteq Cols
  /\ pc \in {"eq", "rows", "round"} /\ ~Stopped =>
       rowsBefore = plan.keepRow /\ colsBefore = plan.keepCol

\* What q keeps of p, of which only rows and columns have left.
Shrinks(p, q) ==
  /\ q.a = p.a
  /\ q.keepRow \subseteq p.keepRow /\ q.keepCol \subseteq p.keepCol
  /\ p.verdict # "none" => q.verdict # "none"

\* Between two sweeps: the snapshot of the last one found nothing for any
\* column that is left.
SweptInv ==
  /\ IsPlan(seen)
  /\ pc = "dual" => seen = plan /\ plan.verdict = "none" /\ ~firstSweep
  /\ ~firstSweep /\ pc # "dual" /\ plan.verdict = "none" =>
       Shrinks(seen, plan) /\ \A j \in plan.keepCol : Fate(seen, j) = "keep"

\* The rows and columns that have left pay for the rounds.
Left(p) == Cardinality(Rows \ p.keepRow) + Cardinality(Cols \ p.keepCol)
RoundsInv ==
  /\ rounds \in Nat
  /\ pc \in {"eq", "mark", "dual", "refresh", "rows", "round"} => rounds <= Left(plan)
  /\ pc \in {"mark", "dual", "refresh", "rows", "round"} /\ changedRound => rounds < Left(plan)
  /\ rounds <= 1 + Left(plan)

ClosureInv == IsPlan(plan) /\ StatsInv /\ SweptInv /\ CandidatesComplete /\ RoundsInv

-----------------------------------------------------------------------------
(* What the rules do to a plan.                                            *)

LEMMA EqShrinks ==
  ASSUME NEW p, IsPlan(p), NEW owned
  PROVE  /\ IsPlan(ColumnSingletonsEq(p, owned)) /\ Shrinks(p, ColumnSingletonsEq(p, owned))
         /\ ColumnSingletonsEq(p, owned).verdict = p.verdict
<1> DEFINE s == Solved(p, owned)
           q == ColumnSingletonsEq(p, owned)
<1>1. /\ DOMAIN s = PlanFields /\ s.a = p.a /\ s.verdict = p.verdict
      /\ s.keepRow \subseteq p.keepRow /\ s.keepCol \subseteq p.keepCol
  BY DEF Solved, PlanFields, IsPlan
<1> HIDE DEF s
<1>2. /\ DOMAIN q = PlanFields /\ q.a = s.a /\ q.verdict = s.verdict
      /\ q.keepRow = s.keepRow /\ q.keepCol = s.keepCol
  BY <1>1 DEF ColumnSingletonsEq, PlanFields, s
<1> HIDE DEF q
<1>3. IsPlan(q) /\ Shrinks(p, q) /\ q.verdict = p.verdict
  BY <1>1, <1>2 DEF IsPlan, Shrinks
<1> QED BY <1>3 DEF q

\* Without a verdict a sweep leaves no column it was asked about and did not
\* find to keep.
LEMMA DualFixShrinks ==
  ASSUME NEW p, IsPlan(p), p.verdict = "none", NEW asking
  PROVE  /\ IsPlan(DualFix(p, asking)) /\ Shrinks(p, DualFix(p, asking))
         /\ DualFix(p, asking).verdict = "none" =>
              \A j \in DualFix(p, asking).keepCol \cap asking : Fate(p, j) = "keep"
<1> DEFINE q == DualFix(p, asking)
           asked == p.keepCol \cap asking
           gone == {j \in asked : Fate(p, j) = "fix"} \cup {j \in asked : Fate(p, j) = "fixInfinite"}
<1>1. \A j : Fate(p, j) \in {"infeasible", "keep", "fix", "unbounded", "fixInfinite"}
  BY DEF Fate
<1>2. CASE \E j \in asked : Fate(p, j) = "unbounded"
  <2>1. q = [p EXCEPT !.verdict = "unbounded"]
    BY <1>2 DEF DualFix
  <2> HIDE DEF q
  <2>2. IsPlan(q) /\ Shrinks(p, q) /\ q.verdict = "unbounded"
    BY <2>1 DEF IsPlan, Shrinks, PlanFields
  <2> QED BY <2>2 DEF q
<1>3. CASE ~(\E j \in asked : Fate(p, j) = "unbounded") /\ \E j \in asked : Fate(p, j) = "infeasible"
  <2>1. q = [p EXCEPT !.verdict = "infeasible"]
    BY <1>3 DEF DualFix
  <2> HIDE DEF q
  <2>2. IsPlan(q) /\ Shrinks(p, q) /\ q.verdict = "infeasible"
    BY <2>1 DEF IsPlan, Shrinks, PlanFields
  <2> QED BY <2>2 DEF q
<1>4. CASE ~\E j \in asked : Fate(p, j) \in {"unbounded", "infeasible"}
  <2>1. /\ DOMAIN q = PlanFields /\ q.a = p.a /\ q.verdict = p.verdict
        /\ q.keepRow \subseteq p.keepRow /\ q.keepCol = p.keepCol \ gone
    BY <1>4 DEF DualFix, IsPlan, PlanFields
  <2> HIDE DEF q
  <2>2. IsPlan(q) /\ Shrinks(p, q)
    BY <2>1 DEF IsPlan, Shrinks
  <2>3. ASSUME NEW j \in q.keepCol \cap asking PROVE Fate(p, j) = "keep"
    BY <1>1, <1>4, <2>1
  <2> QED BY <2>2, <2>3 DEF q
<1> QED BY <1>2, <1>3, <1>4

LEMMA RowsShrink ==
  ASSUME NEW p, IsPlan(p), NEW sing
  PROVE  IsPlan(SingletonRows(p, sing)) /\ Shrinks(p, SingletonRows(p, sing))
<1> DEFINE q == SingletonRows(p, sing)
<1>1. /\ DOMAIN q = PlanFields /\ q.a = p.a
      /\ q.keepRow \subseteq p.keepRow /\ q.keepCol = p.keepCol
      /\ q.verdict # "none" \/ q.verdict = p.verdict
  BY DEF SingletonRows, IsPlan, PlanFields
<1> HIDE DEF q
<1>2. IsPlan(q) /\ Shrinks(p, q)
  BY <1>1 DEF IsPlan, Shrinks
<1> QED BY <1>2 DEF q

\* The fate of a column is read from its cost, its bounds, and its rows.
LEMMA FateReads ==
  ASSUME NEW p, IsPlan(p), NEW q, IsPlan(q), Shrinks(p, q), NEW j \in q.keepCol,
         q.c[j] = p.c[j], q.l[j] = p.l[j], q.u[j] = p.u[j],
         \A i \in Rows : q.a[i][j] # 0 =>
            /\ i \notin p.keepRow \ q.keepRow
            /\ q.AL[i] = p.AL[i] /\ q.AU[i] = p.AU[i]
  PROVE  Fate(q, j) = Fate(p, j)
<1>1. q.a = p.a /\ q.keepRow \subseteq p.keepRow /\ p.keepRow \subseteq Rows
  BY DEF Shrinks, IsPlan
<1>2. ColRows(q, j) = ColRows(p, j)
  BY <1>1 DEF ColRows
<1>3. \A i \in ColRows(p, j) : q.AL[i] = p.AL[i] /\ q.AU[i] = p.AU[i]
  BY <1>1 DEF ColRows
<1>4. DownLocked(q, j) <=> DownLocked(p, j)
  BY <1>1, <1>2, <1>3 DEF DownLocked
<1>5. UpLocked(q, j) <=> UpLocked(p, j)
  BY <1>1, <1>2, <1>3 DEF UpLocked
<1>6. TooLong(q, j) <=> TooLong(p, j)
  BY <1>1 DEF TooLong
<1> QED BY <1>4, <1>5, <1>6 DEF Fate

-----------------------------------------------------------------------------
(* Counting.                                                               *)

LEMMA LinesAreFinite ==
  /\ \A S \in SUBSET Rows : IsFiniteSet(S) /\ Cardinality(S) \in Nat
  /\ \A S \in SUBSET Cols : IsFiniteSet(S) /\ Cardinality(S) \in Nat
<1>1. M \in Nat /\ N \in Nat
  BY SmallLpAssumption
<1> QED BY <1>1, RankBounds DEF Rows, Cols

\* The singleton that the statistics name, from the degree they count.
LEMMA SingletonNamed ==
  ASSUME NEW S, IsFiniteSet(S), S \subseteq Nat \ {0}, Cardinality(S) = 1
  PROVE  S # {} /\ Min(S) # 0 /\ S = {Min(S)}
<1>1. PICK x : S = {x}
  BY FS_Singleton
<1>2. x \in Nat \ {0} /\ x <= x
  BY <1>1
<1>3. Min(S) = x
  BY <1>1, <1>2 DEF Min
<1> QED BY <1>1, <1>2, <1>3

\* What correct statistics say of one line.
LEMMA CountedNames ==
  ASSUME NEW entries, NEW lines, NEW across, NEW nnz, NEW sing,
         Counted(entries, lines, across, nnz, sing), NEW i \in DOMAIN entries
  PROVE  /\ i \in lines => nnz[i] = Cardinality(entries[i] \cap across)
         /\ sing[i] # 0 <=> i \in lines /\ Cardinality(entries[i] \cap across) = 1
         /\ sing[i] # 0 => entries[i] \cap across = {sing[i]}
BY DEF Counted

\* Statistics counted from nothing, of either side.
LEMMA CountedAfresh ==
  ASSUME NEW entries, NEW lines, NEW across, NEW nnz, NEW sing,
         \A i \in DOMAIN entries : /\ entries[i] \cap across \subseteq Nat \ {0}
                                   /\ IsFiniteSet(entries[i] \cap across),
         lines \subseteq DOMAIN entries,
         \A i \in lines : nnz[i] = Cardinality(entries[i] \cap across),
         \A i \in DOMAIN entries :
            sing[i] = IF i \in lines /\ nnz[i] = 1 /\ entries[i] \cap across # {}
                      THEN Min(entries[i] \cap across) ELSE 0
  PROVE  Counted(entries, lines, across, nnz, sing)
<1>1. ASSUME NEW i \in DOMAIN entries
      PROVE  IF i \in lines /\ Cardinality(entries[i] \cap across) = 1
             THEN sing[i] # 0 /\ entries[i] \cap across = {sing[i]}
             ELSE sing[i] = 0
  <2>1. CASE i \in lines /\ Cardinality(entries[i] \cap across) = 1
    <3>1. /\ entries[i] \cap across # {} /\ Min(entries[i] \cap across) # 0
          /\ entries[i] \cap across = {Min(entries[i] \cap across)}
      BY <2>1, SingletonNamed
    <3>2. sing[i] = Min(entries[i] \cap across)
      BY <2>1, <3>1
    <3> QED BY <2>1, <3>1, <3>2
  <2>2. CASE ~(i \in lines /\ Cardinality(entries[i] \cap across) = 1)
    <3>1. ~(i \in lines /\ nnz[i] = 1)
      BY <2>2
    <3> QED BY <2>2, <3>1
  <2> QED BY <2>1, <2>2
<1> QED BY <1>1 DEF Counted

\* One refresh of one side of the statistics, written for either side.
LEMMA Recounted ==
  ASSUME NEW entries, NEW lines, NEW oldLines, lines \subseteq oldLines,
         NEW across, NEW oldAcross, across \subseteq oldAcross,
         NEW nnz, NEW oldNnz, NEW sing, NEW oldSing,
         \A i \in DOMAIN entries : /\ entries[i] \subseteq Nat \ {0}
                                   /\ IsFiniteSet(entries[i]),
         lines \subseteq DOMAIN entries,
         Counted(entries, oldLines, oldAcross, oldNnz, oldSing),
         \A i \in lines : nnz[i] = oldNnz[i] - Cardinality(entries[i] \cap (oldAcross \ across)),
         \A i \in DOMAIN entries :
            sing[i] = IF i \in lines /\ nnz[i] = 1 /\ entries[i] \cap across # {}
                      THEN Min(entries[i] \cap across) ELSE 0
  PROVE  Counted(entries, lines, across, nnz, sing)
<1>1. ASSUME NEW i \in DOMAIN entries
      PROVE  /\ IsFiniteSet(entries[i] \cap across) /\ IsFiniteSet(entries[i] \cap oldAcross)
             /\ entries[i] \cap across \subseteq Nat \ {0}
  BY FS_Subset
<1>2. ASSUME NEW i \in lines PROVE nnz[i] = Cardinality(entries[i] \cap across)
  <2>1. i \in DOMAIN entries /\ i \in oldLines
    OBVIOUS
  <2>2. oldNnz[i] = Cardinality(entries[i] \cap oldAcross)
    BY <2>1 DEF Counted
  <2>3. IsFiniteSet(entries[i] \cap oldAcross)
    BY <1>1, <2>1
  <2>4. Cardinality(entries[i] \cap across)
          = Cardinality(entries[i] \cap oldAcross) - Cardinality(entries[i] \cap (oldAcross \ across))
    <3> DEFINE e == entries[i]
               both == e \cap oldAcross
               gone == oldAcross \ across
    <3>1. both \ gone = e \cap across /\ both \cap gone = e \cap gone
      OBVIOUS
    <3>2. Cardinality(both \ gone) = Cardinality(both) - Cardinality(both \cap gone)
      <4> HIDE DEF both, gone
      <4>1. IsFiniteSet(both)
        BY <2>3 DEF both
      <4> QED BY <4>1, FS_Difference
    <3> QED BY <3>1, <3>2
  <2> QED BY <2>2, <2>4
<1> QED BY <1>1, <1>2, CountedAfresh

LEMMA Entered ==
  ASSUME NEW a
  PROVE  /\ \A i \in DOMAIN RowEntries(a) : /\ RowEntries(a)[i] \subseteq Nat \ {0}
                                            /\ IsFiniteSet(RowEntries(a)[i])
         /\ \A j \in DOMAIN ColEntries(a) : /\ ColEntries(a)[j] \subseteq Nat \ {0}
                                            /\ IsFiniteSet(ColEntries(a)[j])
         /\ DOMAIN RowEntries(a) = Rows /\ DOMAIN ColEntries(a) = Cols
<1>1. DOMAIN RowEntries(a) = Rows /\ DOMAIN ColEntries(a) = Cols
  BY DEF RowEntries, ColEntries
<1>2. ASSUME NEW i \in Rows
      PROVE  RowEntries(a)[i] \subseteq Cols
  BY DEF RowEntries
<1>3. ASSUME NEW j \in Cols
      PROVE  ColEntries(a)[j] \subseteq Rows
  BY DEF ColEntries
<1>4. Rows \subseteq Nat \ {0} /\ Cols \subseteq Nat \ {0}
  BY SmallLpAssumption DEF Rows, Cols
<1> QED BY <1>1, <1>2, <1>3, <1>4, LinesAreFinite

\* The live part of a line, as the rules write it.
LEMMA LiveEntries ==
  ASSUME NEW p, IsPlan(p)
  PROVE  /\ \A i \in Rows : RowCols(p, i) = RowEntries(p.a)[i] \cap p.keepCol
         /\ \A j \in Cols : ColRows(p, j) = ColEntries(p.a)[j] \cap p.keepRow
BY DEF RowCols, ColRows, RowEntries, ColEntries, IsPlan

\* refresh_incremental_stats brings the statistics to the masks of p.
LEMMA Refreshes ==
  ASSUME NEW p, IsPlan(p), p.a = plan.a,
         p.keepRow \subseteq rowsBefore, p.keepCol \subseteq colsBefore,
         rowsBefore \subseteq Rows, colsBefore \subseteq Cols,
         StatsOf(plan.a, rowsBefore, colsBefore), RefreshStats(p)
  PROVE  /\ Counted(RowEntries(p.a), p.keepRow, p.keepCol, rowNnz', singRow')
         /\ Counted(ColEntries(p.a), p.keepCol, p.keepRow, colNnz', singCol')
         /\ rowsBefore' = p.keepRow /\ colsBefore' = p.keepCol
<1> DEFINE R == RowEntries(p.a)
           C == ColEntries(p.a)
<1>1. /\ Counted(R, rowsBefore, colsBefore, rowNnz, singRow)
      /\ Counted(C, colsBefore, rowsBefore, colNnz, singCol)
  BY DEF StatsOf
<1>2. /\ p.keepRow \subseteq Rows /\ p.keepCol \subseteq Cols
      /\ DOMAIN R = Rows /\ DOMAIN C = Cols
  BY Entered DEF IsPlan
<1>3. \A i \in p.keepRow : rowNnz'[i] = rowNnz[i] - Cardinality(R[i] \cap (colsBefore \ p.keepCol))
  <2> SUFFICES ASSUME NEW i \in p.keepRow
               PROVE  rowNnz'[i] = rowNnz[i] - Cardinality(R[i] \cap (colsBefore \ p.keepCol))
    OBVIOUS
  <2>1. i \in Rows
    BY <1>2
  <2>2. {j \in colsBefore \ p.keepCol : p.a[i][j] # 0} = R[i] \cap (colsBefore \ p.keepCol)
    BY <2>1 DEF RowEntries
  <2>3. rowNnz'[i] = rowNnz[i] - Cardinality({j \in colsBefore \ p.keepCol : p.a[i][j] # 0})
    BY <2>1 DEF RefreshStats
  <2> QED BY <2>2, <2>3
<1>4. \A j \in p.keepCol : colNnz'[j] = colNnz[j] - Cardinality(C[j] \cap (rowsBefore \ p.keepRow))
  <2> SUFFICES ASSUME NEW j \in p.keepCol
               PROVE  colNnz'[j] = colNnz[j] - Cardinality(C[j] \cap (rowsBefore \ p.keepRow))
    OBVIOUS
  <2>1. j \in Cols
    BY <1>2
  <2>2. {i \in rowsBefore \ p.keepRow : p.a[i][j] # 0} = C[j] \cap (rowsBefore \ p.keepRow)
    BY <2>1 DEF ColEntries
  <2>3. colNnz'[j] = colNnz[j] - Cardinality({i \in rowsBefore \ p.keepRow : p.a[i][j] # 0})
    BY <2>1 DEF RefreshStats
  <2> QED BY <2>2, <2>3
<1>5. \A i \in Rows : singRow'[i] = IF i \in p.keepRow /\ rowNnz'[i] = 1 /\ R[i] \cap p.keepCol # {}
                                   THEN Min(R[i] \cap p.keepCol) ELSE 0
  <2>1. \A i \in Rows : singRow'[i] = SingletonOf(p, rowNnz', i)
    BY DEF RefreshStats
  <2> QED BY <2>1, LiveEntries DEF SingletonOf
<1>6. \A j \in Cols : singCol'[j] = IF j \in p.keepCol /\ colNnz'[j] = 1 /\ C[j] \cap p.keepRow # {}
                                   THEN Min(C[j] \cap p.keepRow) ELSE 0
  <2>1. \A j \in Cols : singCol'[j] = SingletonColOf(p, colNnz', j)
    BY DEF RefreshStats
  <2> QED BY <2>1, LiveEntries DEF SingletonColOf
<1>7. rowsBefore' = p.keepRow /\ colsBefore' = p.keepCol
  BY DEF RefreshStats
<1>8. /\ \A i \in DOMAIN R : R[i] \subseteq Nat \ {0} /\ IsFiniteSet(R[i])
      /\ \A j \in DOMAIN C : C[j] \subseteq Nat \ {0} /\ IsFiniteSet(C[j])
  BY Entered
<1> HIDE DEF R, C
<1>9. Counted(R, p.keepRow, p.keepCol, rowNnz', singRow')
  BY <1>1, <1>2, <1>3, <1>5, <1>8, Recounted
<1>10. Counted(C, p.keepCol, p.keepRow, colNnz', singCol')
  BY <1>1, <1>2, <1>4, <1>6, <1>8, Recounted
<1> QED BY <1>7, <1>9, <1>10 DEF R, C

\* What leaves is counted.
LEMMA LeftGrows ==
  ASSUME NEW p, IsPlan(p), NEW q, IsPlan(q), Shrinks(p, q)
  PROVE  /\ Left(p) \in Nat /\ Left(q) \in Nat /\ Left(p) <= Left(q)
         /\ q.keepRow # p.keepRow \/ q.keepCol # p.keepCol => Left(p) < Left(q)
<1>1. /\ Rows \ p.keepRow \in SUBSET (Rows \ q.keepRow) /\ Rows \ q.keepRow \in SUBSET Rows
      /\ Cols \ p.keepCol \in SUBSET (Cols \ q.keepCol) /\ Cols \ q.keepCol \in SUBSET Cols
      /\ q.keepRow # p.keepRow => Rows \ p.keepRow # Rows \ q.keepRow
      /\ q.keepCol # p.keepCol => Cols \ p.keepCol # Cols \ q.keepCol
  BY DEF IsPlan, Shrinks
<1> DEFINE rp == Rows \ p.keepRow
           rq == Rows \ q.keepRow
           cp == Cols \ p.keepCol
           cq == Cols \ q.keepCol
<1>2. /\ IsFiniteSet(rq) /\ Cardinality(rq) \in Nat /\ IsFiniteSet(cq) /\ Cardinality(cq) \in Nat
  BY <1>1, LinesAreFinite
<1>3. rp \in SUBSET rq /\ cp \in SUBSET cq
  BY <1>1
<1>4. /\ q.keepRow # p.keepRow => rp # rq
      /\ q.keepCol # p.keepCol => cp # cq
  BY <1>1
<1> HIDE DEF rp, rq, cp, cq
<1>5. /\ IsFiniteSet(rp) /\ Cardinality(rp) <= Cardinality(rq)
      /\ rp # rq => Cardinality(rp) # Cardinality(rq)
  BY <1>2, <1>3, FS_Subset
<1>6. /\ IsFiniteSet(cp) /\ Cardinality(cp) <= Cardinality(cq)
      /\ cp # cq => Cardinality(cp) # Cardinality(cq)
  BY <1>2, <1>3, FS_Subset
<1>7. Cardinality(rp) \in Nat /\ Cardinality(cp) \in Nat
  BY <1>5, <1>6, FS_CardinalityType
<1>8. Left(p) = Cardinality(rp) + Cardinality(cp) /\ Left(q) = Cardinality(rq) + Cardinality(cq)
  BY DEF Left, rp, rq, cp, cq
<1>9. Left(p) \in Nat /\ Left(q) \in Nat /\ Left(p) <= Left(q)
  BY <1>2, <1>5, <1>6, <1>7, <1>8
<1>10. CASE rp # rq
  BY <1>2, <1>5, <1>6, <1>7, <1>8, <1>9, <1>10
<1>11. CASE cp # cq
  BY <1>2, <1>5, <1>6, <1>7, <1>8, <1>9, <1>11
<1>12. CASE rp = rq /\ cp = cq
  BY <1>4, <1>9, <1>12
<1> QED BY <1>4, <1>9, <1>10, <1>11, <1>12

-----------------------------------------------------------------------------
(* The invariant of the shortcuts.                                         *)

LEMMA ClosureInit == Init => ClosureInv
<1> SUFFICES ASSUME Init PROVE ClosureInv
  OBVIOUS
<1>1. /\ IsPlan(plan) /\ plan.keepRow = Rows /\ plan.verdict = "none"
  <2>1. PICK q \in DOMAIN Families : plan = [NewPlan(lp) EXCEPT !.keepCol = Families[q].cols]
    BY DEF Init, InitLp
  <2>2. Families[q].cols \subseteq Cols
    BY <2>1, FamiliesAssumption
  <2>3. /\ DOMAIN plan = PlanFields /\ plan.keepRow = Rows /\ plan.keepCol = Families[q].cols
        /\ plan.verdict = "none"
    BY <2>1 DEF NewPlan, PlanFields
  <2> QED BY <2>2, <2>3 DEF IsPlan
<1>2. /\ rowNnz = [i \in Rows |-> RowDegree(plan, i)] /\ colNnz = [j \in Cols |-> ColDegree(plan, j)]
      /\ singRow = [i \in Rows |-> SingletonOf(plan, rowNnz, i)]
      /\ singCol = [j \in Cols |-> SingletonColOf(plan, colNnz, j)]
      /\ rowsBefore = plan.keepRow /\ colsBefore = plan.keepCol
      /\ seen = plan /\ firstSweep = TRUE /\ changedRound = FALSE /\ rounds = 0 /\ pc = "eq"
  BY DEF Init
<1> DEFINE R == RowEntries(plan.a)
           C == ColEntries(plan.a)
<1>3. /\ \A i \in Rows : RowCols(plan, i) = R[i] \cap plan.keepCol
      /\ \A j \in Cols : ColRows(plan, j) = C[j] \cap plan.keepRow
      /\ plan.keepRow \subseteq Rows /\ plan.keepCol \subseteq Cols
  BY <1>1, LiveEntries DEF IsPlan
<1>4. /\ \A i \in Rows : /\ R[i] \cap plan.keepCol \subseteq Nat \ {0}
                         /\ IsFiniteSet(R[i] \cap plan.keepCol)
      /\ \A j \in Cols : /\ C[j] \cap plan.keepRow \subseteq Nat \ {0}
                         /\ IsFiniteSet(C[j] \cap plan.keepRow)
      /\ DOMAIN R = Rows /\ DOMAIN C = Cols
  BY Entered, FS_Subset
<1>5. \A i \in Rows : /\ rowNnz[i] = Cardinality(R[i] \cap plan.keepCol)
                     /\ singRow[i] = IF i \in plan.keepRow /\ rowNnz[i] = 1 /\ R[i] \cap plan.keepCol # {}
                                     THEN Min(R[i] \cap plan.keepCol) ELSE 0
  BY <1>2, <1>3 DEF RowDegree, SingletonOf
<1>6. \A j \in Cols : /\ colNnz[j] = Cardinality(C[j] \cap plan.keepRow)
                     /\ singCol[j] = IF j \in plan.keepCol /\ colNnz[j] = 1 /\ C[j] \cap plan.keepRow # {}
                                     THEN Min(C[j] \cap plan.keepRow) ELSE 0
  BY <1>2, <1>3 DEF ColDegree, SingletonColOf
<1> HIDE DEF R, C
<1>7. Counted(R, plan.keepRow, plan.keepCol, rowNnz, singRow)
  BY <1>3, <1>4, <1>5, CountedAfresh
<1>8. Counted(C, plan.keepCol, plan.keepRow, colNnz, singCol)
  BY <1>3, <1>4, <1>6, CountedAfresh
<1>9. StatsInv
  BY <1>2, <1>3, <1>7, <1>8 DEF StatsInv, StatsOf, R, C
<1>10. SweptInv /\ CandidatesComplete
  BY <1>1, <1>2 DEF SweptInv, CandidatesComplete
<1>11. Left(plan) \in Nat
  BY <1>1, LeftGrows DEF Shrinks
<1>12. RoundsInv
  BY <1>2, <1>11 DEF RoundsInv
<1> QED BY <1>1, <1>9, <1>10, <1>12 DEF ClosureInv

\* A step that leaves the statistics to a later refresh.
LEMMA StatsLeft ==
  ASSUME StatsInv, IsPlan(plan), Shrinks(plan, plan'), UNCHANGED statVars,
         pc' \in {"eq", "rows", "round"} /\ ~Stopped' =>
           rowsBefore = plan'.keepRow /\ colsBefore = plan'.keepCol
  PROVE  StatsInv'
<1>1. /\ rowNnz' = rowNnz /\ colNnz' = colNnz /\ singRow' = singRow /\ singCol' = singCol
      /\ rowsBefore' = rowsBefore /\ colsBefore' = colsBefore
  BY DEF statVars
<1>2. /\ plan'.a = plan.a /\ plan'.keepRow \subseteq plan.keepRow
      /\ plan'.keepCol \subseteq plan.keepCol
  BY DEF Shrinks
<1>3. StatsOf(plan.a, rowsBefore, colsBefore)'
  BY <1>1, <1>2 DEF StatsInv, StatsOf
<1> QED BY <1>1, <1>2, <1>3 DEF StatsInv

\* A step between two sweeps.
LEMMA SweptLeft ==
  ASSUME SweptInv, Shrinks(plan, plan'), UNCHANGED dualVars, pc # "dual", pc' # "dual"
  PROVE  SweptInv' /\ CandidatesComplete'
<1>1. seen' = seen /\ firstSweep' = firstSweep
  BY DEF dualVars
<1>2. ~firstSweep' /\ plan'.verdict = "none" =>
        Shrinks(seen, plan') /\ \A j \in plan'.keepCol : Fate(seen, j) = "keep"
  BY <1>1 DEF SweptInv, Shrinks
<1> QED BY <1>1, <1>2 DEF SweptInv, CandidatesComplete

LEMMA ClosureNext == ClosureInv /\ [Next]_vars => ClosureInv'
<1> SUFFICES ASSUME ClosureInv, [Next]_vars PROVE ClosureInv'
  OBVIOUS
<1>0. /\ IsPlan(plan) /\ StatsInv /\ SweptInv /\ CandidatesComplete /\ RoundsInv
      /\ Left(plan) \in Nat /\ rounds \in Nat /\ Shrinks(plan, plan)
  BY LeftGrows DEF ClosureInv, RoundsInv, Shrinks
<1>1. CASE EqStep
  <2>1. IsPlan(plan') /\ Shrinks(plan, plan')
    BY <1>0, <1>1, EqShrinks DEF EqStep
  <2>2. /\ UNCHANGED statVars /\ UNCHANGED dualVars /\ rounds' = rounds /\ expired' = expired
        /\ pc = "eq" /\ pc' \in {"mark", "end"}
        /\ pc' = "mark" => changedRound' = Changed(plan')
    BY <1>1 DEF EqStep
  <2>3. StatsInv'
    BY <1>0, <2>1, <2>2, StatsLeft
  <2>4. SweptInv' /\ CandidatesComplete'
    BY <1>0, <2>1, <2>2, SweptLeft
  <2>5. /\ Left(plan') \in Nat /\ Left(plan) <= Left(plan')
        /\ Changed(plan') => Left(plan) < Left(plan')
    BY <1>0, <2>1, LeftGrows DEF Changed
  <2>6. RoundsInv'
    <3>1. rounds <= Left(plan)
      BY <1>0, <2>2 DEF RoundsInv
    <3>2. rounds <= Left(plan') /\ (pc' = "mark" /\ changedRound' => rounds < Left(plan'))
      BY <1>0, <2>2, <2>5, <3>1
    <3> QED BY <1>0, <2>2, <2>5, <3>2 DEF RoundsInv, Left
  <2> QED BY <2>1, <2>3, <2>4, <2>6 DEF ClosureInv
<1>2. CASE MarkStep
  <2>1. /\ plan' = plan /\ UNCHANGED statVars /\ rounds' = rounds /\ expired' = expired
        /\ changedRound' = changedRound
        /\ pc = "mark" /\ pc' \in {"dual", "round"} /\ (pc' = "round" => Stopped)
    BY <1>2 DEF MarkStep
  <2>2. StatsInv'
    <3>1. Stopped' <=> Stopped
      BY <2>1 DEF Stopped
    <3> QED BY <1>0, <2>1, <3>1, StatsLeft
  <2>3. RoundsInv'
    BY <1>0, <2>1 DEF RoundsInv, Left
  <2>4. SweptInv' /\ CandidatesComplete'
    <3>1. CASE Stopped
      <4>1. UNCHANGED dualVars /\ pc' = "round"
        BY <1>2, <3>1 DEF MarkStep
      <4> QED BY <1>0, <2>1, <4>1, SweptLeft
    <3>2. CASE ~Stopped
      <4>1. /\ candidates' = IF firstSweep THEN Cols ELSE ChangedCols
            /\ firstSweep' = FALSE /\ seen' = plan /\ pc' = "dual" /\ plan.verdict = "none"
        BY <1>2, <3>2 DEF MarkStep, Stopped
      <4>2. ASSUME NEW j \in plan.keepCol \ candidates' PROVE Fate(plan, j) = "keep"
        <5>1. ~firstSweep /\ j \notin ChangedCols
          BY <1>0, <4>1, <4>2 DEF IsPlan
        <5>2. IsPlan(seen) /\ Shrinks(seen, plan) /\ Fate(seen, j) = "keep"
          BY <1>0, <2>1, <4>1, <5>1 DEF SweptInv
        <5>3. /\ plan.c[j] = seen.c[j] /\ plan.l[j] = seen.l[j] /\ plan.u[j] = seen.u[j]
              /\ \A i \in Rows : plan.a[i][j] # 0 =>
                   /\ i \notin seen.keepRow \ plan.keepRow
                   /\ plan.AL[i] = seen.AL[i] /\ plan.AU[i] = seen.AU[i]
          BY <5>1 DEF ChangedCols
        <5> QED BY <1>0, <5>2, <5>3, FateReads
      <4>3. CandidatesComplete'
        BY <2>1, <4>1, <4>2 DEF CandidatesComplete
      <4>4. SweptInv'
        BY <1>0, <2>1, <4>1 DEF SweptInv
      <4> QED BY <4>3, <4>4
    <3> QED BY <3>1, <3>2
  <2> QED BY <1>0, <2>1, <2>2, <2>3, <2>4 DEF ClosureInv
<1>3. CASE DualStep
  <2>1. /\ plan' = DualFix(plan, candidates) /\ UNCHANGED statVars /\ UNCHANGED dualVars
        /\ rounds' = rounds /\ (changedRound' => changedRound \/ Changed(plan'))
        /\ pc = "dual" /\ pc' = "refresh"
    BY <1>3 DEF DualStep
  <2>2. seen = plan /\ plan.verdict = "none" /\ ~firstSweep
    BY <1>0, <2>1 DEF SweptInv
  <2>3. /\ IsPlan(plan') /\ Shrinks(plan, plan')
        /\ plan'.verdict = "none" => \A j \in plan'.keepCol \cap candidates : Fate(plan, j) = "keep"
    BY <1>0, <2>1, <2>2, DualFixShrinks
  <2>4. StatsInv'
    BY <1>0, <2>1, <2>3, StatsLeft
  <2>5. SweptInv' /\ CandidatesComplete'
    <3>1. seen' = plan /\ firstSweep' = firstSweep
      BY <2>1, <2>2 DEF dualVars
    <3>2. plan'.verdict = "none" => \A j \in plan'.keepCol : Fate(plan, j) = "keep"
      BY <1>0, <2>1, <2>3 DEF CandidatesComplete, Shrinks
    <3> QED BY <1>0, <2>1, <2>3, <3>1, <3>2 DEF SweptInv, CandidatesComplete
  <2>6. /\ Left(plan') \in Nat /\ Left(plan) <= Left(plan')
        /\ Changed(plan') => Left(plan) < Left(plan')
    BY <1>0, <2>3, LeftGrows DEF Changed
  <2>7. RoundsInv'
    <3>1. rounds <= Left(plan) /\ (changedRound => rounds < Left(plan))
      BY <1>0, <2>1 DEF RoundsInv
    <3>2. rounds <= Left(plan') /\ (changedRound' => rounds < Left(plan'))
      BY <1>0, <2>1, <2>6, <3>1
    <3> QED BY <1>0, <2>1, <2>6, <3>2 DEF RoundsInv, Left
  <2> QED BY <2>3, <2>4, <2>5, <2>7 DEF ClosureInv
<1>4. CASE RefreshStep
  <2>1. /\ plan' = plan /\ UNCHANGED dualVars /\ rounds' = rounds /\ expired' = expired
        /\ changedRound' = changedRound
        /\ pc = "refresh" /\ pc' \in {"rows", "round"}
    BY <1>4 DEF RefreshStep
  <2>2. StatsInv'
    <3>1. Stopped' <=> Stopped
      BY <2>1 DEF Stopped
    <3>2. CASE Stopped
      <4>1. UNCHANGED statVars
        BY <1>4, <3>2 DEF RefreshStep
      <4> QED BY <1>0, <2>1, <3>1, <3>2, <4>1, StatsLeft
    <3>3. CASE ~Stopped
      <4>1. RefreshStats(plan)
        BY <1>4, <3>3 DEF RefreshStep
      <4>2. /\ Counted(RowEntries(plan.a), plan.keepRow, plan.keepCol, rowNnz', singRow')
            /\ Counted(ColEntries(plan.a), plan.keepCol, plan.keepRow, colNnz', singCol')
            /\ rowsBefore' = plan.keepRow /\ colsBefore' = plan.keepCol
        BY <1>0, <4>1, Refreshes DEF StatsInv
      <4> QED BY <1>0, <2>1, <4>2 DEF StatsInv, StatsOf, IsPlan
    <3> QED BY <3>2, <3>3
  <2>3. SweptInv' /\ CandidatesComplete'
    BY <1>0, <2>1, SweptLeft
  <2>4. RoundsInv'
    BY <1>0, <2>1 DEF RoundsInv, Left
  <2> QED BY <1>0, <2>1, <2>2, <2>3, <2>4 DEF ClosureInv
<1>5. CASE RowsStep
  <2>1. /\ plan' = SingletonRows(plan, singRow) /\ UNCHANGED dualVars
        /\ rounds' = rounds /\ (changedRound' => changedRound \/ Changed(plan')) /\ expired' = expired
        /\ pc = "rows" /\ pc' = "round"
        /\ IF Changed(plan') THEN RefreshStats(plan') ELSE UNCHANGED statVars
    BY <1>5 DEF RowsStep
  <2>2. IsPlan(plan') /\ Shrinks(plan, plan')
    BY <1>0, <2>1, RowsShrink
  <2>3. StatsInv'
    <3>1. CASE Changed(plan')
      <4>1. RefreshStats(plan') /\ plan'.a = plan.a
        BY <2>1, <2>2, <3>1 DEF Shrinks
      <4>2. /\ plan'.keepRow \subseteq rowsBefore /\ plan'.keepCol \subseteq colsBefore
            /\ rowsBefore \subseteq Rows /\ colsBefore \subseteq Cols
            /\ StatsOf(plan.a, rowsBefore, colsBefore)
        BY <1>0, <2>2 DEF StatsInv, Shrinks
      <4>3. /\ Counted(RowEntries(plan'.a), plan'.keepRow, plan'.keepCol, rowNnz', singRow')
            /\ Counted(ColEntries(plan'.a), plan'.keepCol, plan'.keepRow, colNnz', singCol')
            /\ rowsBefore' = plan'.keepRow /\ colsBefore' = plan'.keepCol
        BY <2>2, <4>1, <4>2, Refreshes
      <4> QED BY <2>2, <4>3 DEF StatsInv, StatsOf, IsPlan
    <3>2. CASE ~Changed(plan')
      <4>1. /\ UNCHANGED statVars /\ plan'.keepRow = plan.keepRow /\ plan'.keepCol = plan.keepCol
        BY <2>1, <3>2 DEF Changed
      <4>2. ~Stopped' => ~Stopped
        BY <2>1, <2>2 DEF Stopped, Shrinks
      <4>3. ~Stopped => rowsBefore = plan.keepRow /\ colsBefore = plan.keepCol
        BY <1>0, <2>1 DEF StatsInv
      <4> QED BY <1>0, <2>2, <4>1, <4>2, <4>3, StatsLeft
    <3> QED BY <3>1, <3>2
  <2>4. SweptInv' /\ CandidatesComplete'
    BY <1>0, <2>1, <2>2, SweptLeft
  <2>5. /\ Left(plan') \in Nat /\ Left(plan) <= Left(plan')
        /\ Changed(plan') => Left(plan) < Left(plan')
    BY <1>0, <2>2, LeftGrows DEF Changed
  <2>6. RoundsInv'
    <3>1. rounds <= Left(plan) /\ (changedRound => rounds < Left(plan))
      BY <1>0, <2>1 DEF RoundsInv
    <3>2. rounds <= Left(plan') /\ (changedRound' => rounds < Left(plan'))
      BY <1>0, <2>1, <2>5, <3>1
    <3> QED BY <1>0, <2>1, <2>5, <3>2 DEF RoundsInv, Left
  <2> QED BY <2>2, <2>3, <2>4, <2>6 DEF ClosureInv
<1>6. CASE EndRound
  <2>1. /\ plan' = plan /\ UNCHANGED statVars /\ UNCHANGED dualVars
        /\ rounds' = rounds + 1 /\ expired' = expired /\ pc = "round"
        /\ pc' = IF changedRound THEN "eq" ELSE "end"
    BY <1>6 DEF EndRound
  <2>2. StatsInv'
    <3>1. Stopped' <=> Stopped
      BY <2>1 DEF Stopped
    <3>2. ~Stopped => rowsBefore = plan.keepRow /\ colsBefore = plan.keepCol
      BY <1>0, <2>1 DEF StatsInv
    <3> QED BY <1>0, <2>1, <3>1, <3>2, StatsLeft
  <2>3. SweptInv' /\ CandidatesComplete'
    BY <1>0, <2>1, SweptLeft
  <2>4. RoundsInv'
    <3>1. rounds <= Left(plan) /\ (changedRound => rounds < Left(plan))
      BY <1>0, <2>1 DEF RoundsInv
    <3> QED BY <1>0, <2>1, <3>1 DEF RoundsInv, Left
  <2> QED BY <1>0, <2>1, <2>2, <2>3, <2>4 DEF ClosureInv
<1>7. CASE Finish
  <2>1. /\ plan' = plan /\ UNCHANGED statVars /\ UNCHANGED dualVars /\ rounds' = rounds
        /\ pc = "end" /\ pc' \in {"committed", "left"}
    BY <1>7 DEF Finish
  <2>2. StatsInv'
    BY <1>0, <2>1, StatsLeft
  <2>3. SweptInv' /\ CandidatesComplete'
    BY <1>0, <2>1, SweptLeft
  <2>4. RoundsInv'
    BY <1>0, <2>1 DEF RoundsInv, Left
  <2> QED BY <1>0, <2>1, <2>2, <2>3, <2>4 DEF ClosureInv
<1>8. CASE Expire
  <2>1. /\ plan' = plan /\ UNCHANGED statVars /\ UNCHANGED dualVars /\ rounds' = rounds
        /\ changedRound' = changedRound /\ pc' = pc /\ Stopped'
    BY <1>8 DEF Expire, Stopped
  <2>2. StatsInv'
    BY <1>0, <2>1, StatsLeft
  <2>3. SweptInv' /\ CandidatesComplete'
    BY <1>0, <2>1 DEF SweptInv, CandidatesComplete, dualVars
  <2>4. RoundsInv'
    BY <1>0, <2>1 DEF RoundsInv, Left
  <2> QED BY <1>0, <2>1, <2>2, <2>3, <2>4 DEF ClosureInv
<1>9. CASE UNCHANGED vars
  <2>1. /\ plan' = plan /\ UNCHANGED statVars /\ UNCHANGED dualVars /\ rounds' = rounds
        /\ changedRound' = changedRound /\ pc' = pc /\ (Stopped' <=> Stopped)
    BY <1>9 DEF vars, Stopped
  <2>2. StatsInv'
    BY <1>0, <2>1, StatsLeft DEF StatsInv
  <2>3. SweptInv' /\ CandidatesComplete'
    BY <1>0, <2>1 DEF SweptInv, CandidatesComplete, dualVars
  <2>4. RoundsInv'
    BY <1>0, <2>1 DEF RoundsInv, Left
  <2> QED BY <1>0, <2>1, <2>2, <2>3, <2>4 DEF ClosureInv
<1> QED BY <1>1, <1>2, <1>3, <1>4, <1>5, <1>6, <1>7, <1>8, <1>9 DEF Next

\* The closure's inductive invariant, at every point of every round.
THEOREM ClosureInvariant == Spec => []ClosureInv
BY ClosureInit, ClosureNext, PTL DEF Spec

\* Wherever a rule reads them, the degrees that refresh_incremental_stats keeps
\* up by subtraction are those of the live matrix, and the masks name its
\* singletons.
THEOREM ClosureStatsAreLive == Spec => []StatsAreLive
<1>1. ClosureInv => StatsAreLive
  <2> SUFFICES ASSUME ClosureInv, pc \in {"eq", "rows"}, ~Stopped
               PROVE  /\ \A i \in plan.keepRow : rowNnz[i] = RowDegree(plan, i)
                      /\ \A j \in plan.keepCol : colNnz[j] = ColDegree(plan, j)
                      /\ \A i \in Rows : singRow[i] # 0 <=> (i \in plan.keepRow /\ RowDegree(plan, i) = 1)
                      /\ \A j \in Cols : singCol[j] # 0 <=> (j \in plan.keepCol /\ ColDegree(plan, j) = 1)
                      /\ \A i \in Rows : singRow[i] # 0 => RowCols(plan, i) = {singRow[i]}
                      /\ \A j \in Cols : singCol[j] # 0 => ColRows(plan, j) = {singCol[j]}
    BY DEF StatsAreLive
  <2> DEFINE R == RowEntries(plan.a)
             C == ColEntries(plan.a)
  <2>1. /\ Counted(R, plan.keepRow, plan.keepCol, rowNnz, singRow)
        /\ Counted(C, plan.keepCol, plan.keepRow, colNnz, singCol)
        /\ IsPlan(plan)
    BY DEF ClosureInv, StatsInv, StatsOf
  <2>2. /\ \A i \in Rows : RowCols(plan, i) = R[i] \cap plan.keepCol
        /\ \A j \in Cols : ColRows(plan, j) = C[j] \cap plan.keepRow
        /\ plan.keepRow \subseteq Rows /\ plan.keepCol \subseteq Cols
        /\ DOMAIN R = Rows /\ DOMAIN C = Cols
    BY <2>1, LiveEntries, Entered DEF IsPlan
  <2> HIDE DEF R, C
  <2>3. /\ \A i \in Rows : RowDegree(plan, i) = Cardinality(R[i] \cap plan.keepCol)
        /\ \A j \in Cols : ColDegree(plan, j) = Cardinality(C[j] \cap plan.keepRow)
    BY <2>2 DEF RowDegree, ColDegree
  <2>4. ASSUME NEW i \in Rows
        PROVE  /\ i \in plan.keepRow => rowNnz[i] = RowDegree(plan, i)
               /\ singRow[i] # 0 <=> (i \in plan.keepRow /\ RowDegree(plan, i) = 1)
               /\ singRow[i] # 0 => RowCols(plan, i) = {singRow[i]}
    <3>0. Counted(R, plan.keepRow, plan.keepCol, rowNnz, singRow) /\ i \in DOMAIN R
      BY <2>1, <2>2
    <3>1. /\ i \in plan.keepRow => rowNnz[i] = Cardinality(R[i] \cap plan.keepCol)
          /\ singRow[i] # 0 <=> i \in plan.keepRow /\ Cardinality(R[i] \cap plan.keepCol) = 1
          /\ singRow[i] # 0 => R[i] \cap plan.keepCol = {singRow[i]}
      BY <3>0, CountedNames
    <3> QED BY <2>2, <2>3, <3>1
  <2>5. ASSUME NEW j \in Cols
        PROVE  /\ j \in plan.keepCol => colNnz[j] = ColDegree(plan, j)
               /\ singCol[j] # 0 <=> (j \in plan.keepCol /\ ColDegree(plan, j) = 1)
               /\ singCol[j] # 0 => ColRows(plan, j) = {singCol[j]}
    <3>0. Counted(C, plan.keepCol, plan.keepRow, colNnz, singCol) /\ j \in DOMAIN C
      BY <2>1, <2>2
    <3>1. /\ j \in plan.keepCol => colNnz[j] = Cardinality(C[j] \cap plan.keepRow)
          /\ singCol[j] # 0 <=> j \in plan.keepCol /\ Cardinality(C[j] \cap plan.keepRow) = 1
          /\ singCol[j] # 0 => C[j] \cap plan.keepRow = {singCol[j]}
      BY <3>0, CountedNames
    <3> QED BY <2>2, <2>3, <3>1
  <2> QED BY <2>2, <2>4, <2>5
<1> QED BY <1>1, ClosureInvariant, PTL

\* The sweep that dual fixing makes over the columns changed since its last one
\* acts on every column that a sweep over all columns would act on.
THEOREM ClosureCandidatesComplete == Spec => []CandidatesComplete
<1>1. ClosureInv => CandidatesComplete
  BY DEF ClosureInv
<1> QED BY <1>1, ClosureInvariant, PTL

\* The cascade makes at most one round more than there are rows and columns.
THEOREM ClosureRoundsShrink == Spec => []RoundsShrink
<1>1. ClosureInv => RoundsShrink
  <2> SUFFICES ASSUME ClosureInv
               PROVE  rounds <= 1 + Cardinality(Rows \ plan.keepRow) + Cardinality(Cols \ plan.keepCol)
    BY DEF RoundsShrink
  <2>1. rounds <= 1 + (Cardinality(Rows \ plan.keepRow) + Cardinality(Cols \ plan.keepCol))
    BY DEF ClosureInv, RoundsInv, Left
  <2>2. Cardinality(Rows \ plan.keepRow) \in Nat /\ Cardinality(Cols \ plan.keepCol) \in Nat
    BY LinesAreFinite
  <2> QED BY <2>1, <2>2
<1> QED BY <1>1, ClosureInvariant, PTL

-----------------------------------------------------------------------------
(* How far the numbers of a plan, and the values of its points, can grow.  *)

IsWithin(v, b) == -b <= v /\ v <= b
\* A bound on the numbers of a plan, and on the values of the points that
\* postsolve has recovered as far as the plan: N + 1 times as much for every
\* column that has left, or has come back.
Reach(p) == Grown(Largest, Cardinality(Cols \ p.keepCol))
Base == Box + Grown(Largest, N)
Spread(p) == Grown(Base, Cardinality(p.keepCol))

GrownTo(base, n) ==
  CHOOSE f : f = [k \in 0..n |-> IF k = 0 THEN base ELSE (N + 1) * f[k - 1]]

\* The recursion of Grown has a solution.
LEMMA GrownExist ==
  ASSUME NEW base \in Nat, NEW n \in Nat
  PROVE  /\ Grown(base, n) = GrownTo(base, n)[n]
         /\ \A k \in 0..n : GrownTo(base, n)[k] = IF k = 0 THEN base ELSE (N + 1) * GrownTo(base, n)[k - 1]
<1> DEFINE step == [v \in Nat |-> (N + 1) * v]
           w == GrownTo(base, n)
<1>1. N \in Nat /\ step \in [Nat -> Nat]
  BY SmallLpAssumption
<1>2. \E f : Iterates(Nat, step, base, n, f)
  <2> HIDE DEF step
  <2> QED BY <1>1, IteratesExist
<1>3. PICK f \in [0..n -> Nat] : \A k \in 0..n : f[k] = IF k = 0 THEN base ELSE step[f[k - 1]]
  <2> HIDE DEF step
  <2> QED BY <1>2 DEF Iterates
<1>4. f = [k \in 0..n |-> IF k = 0 THEN base ELSE (N + 1) * f[k - 1]]
  <2> DEFINE h == [k \in 0..n |-> IF k = 0 THEN base ELSE (N + 1) * f[k - 1]]
  <2>1. \A k \in 0..n : h[k] = f[k]
    <3> SUFFICES ASSUME NEW k \in 0..n
                 PROVE  (IF k = 0 THEN base ELSE (N + 1) * f[k - 1]) = f[k]
      OBVIOUS
    <3>1. k # 0 => k - 1 \in 0..n /\ f[k - 1] \in Nat /\ step[f[k - 1]] = (N + 1) * f[k - 1]
      BY <1>3
    <3>2. f[k] = IF k = 0 THEN base ELSE step[f[k - 1]]
      BY <1>3
    <3> HIDE DEF step
    <3> QED BY <3>1, <3>2
  <2>2. h = [k \in 0..n |-> h[k]] /\ f = [k \in 0..n |-> f[k]]
    BY <1>3
  <2> HIDE DEF h
  <2>3. f = h
    BY <2>1, <2>2
  <2> QED BY <2>3 DEF h
<1>5. w = [k \in 0..n |-> IF k = 0 THEN base ELSE (N + 1) * w[k - 1]]
  BY <1>4 DEF GrownTo
<1>6. Grown(base, n) = w[n]
  BY DEF Grown, GrownTo
<1> HIDE DEF w
<1>7. \A k \in 0..n : w[k] = IF k = 0 THEN base ELSE (N + 1) * w[k - 1]
  BY <1>5
<1> QED BY <1>6, <1>7 DEF w

\* How it goes on.
LEMMA GrownStep ==
  ASSUME NEW base \in Nat, NEW n \in Nat
  PROVE  /\ Grown(base, 0) = base
         /\ Grown(base, n + 1) = (N + 1) * Grown(base, n)
<1> DEFINE f == GrownTo(base, n)
           g == GrownTo(base, n + 1)
<1>1. /\ \A q \in 0..n : f[q] = IF q = 0 THEN base ELSE (N + 1) * f[q - 1]
      /\ \A q \in 0..(n + 1) : g[q] = IF q = 0 THEN base ELSE (N + 1) * g[q - 1]
      /\ Grown(base, n) = f[n] /\ Grown(base, n + 1) = g[n + 1]
  BY GrownExist
<1> HIDE DEF f, g
<1>2. \A q \in 0..n : f[q] = g[q]
  <2>1. f[0] = g[0]
    BY <1>1
  <2>2. ASSUME NEW k \in 0..n, k < n, f[k] = g[k] PROVE f[k + 1] = g[k + 1]
    <3>1. k + 1 \in 0..n /\ k + 1 \in 0..(n + 1) /\ k + 1 # 0 /\ (k + 1) - 1 = k
      BY <2>2
    <3> QED BY <1>1, <2>2, <3>1
  <2> QED BY <2>1, <2>2, IteratesAgree
<1>3. n + 1 \in 0..(n + 1) /\ n + 1 # 0 /\ (n + 1) - 1 = n /\ n \in 0..n
  OBVIOUS
<1>4. Grown(base, 0) = base
  BY GrownExist
<1> QED BY <1>1, <1>2, <1>3, <1>4

\* What has grown is not less, and grows N + 1 times more with every step.
LEMMA GrownIs ==
  ASSUME NEW base \in Nat, NEW m \in Nat, NEW n \in Nat, m <= n
  PROVE  /\ Grown(base, m) \in Nat /\ Grown(base, n) \in Nat
         /\ base <= Grown(base, m) /\ Grown(base, m) <= Grown(base, n)
         /\ m < n => (N + 1) * Grown(base, m) <= Grown(base, n)
<1> DEFINE G(k) == Grown(base, k)
<1>0. N \in Nat
  BY SmallLpAssumption
<1>1. ASSUME NEW k \in Nat
      PROVE  G(k) \in Nat /\ base <= G(k)
  <2> DEFINE S == {h \in Nat : G(h) \in Nat /\ base <= G(h)}
  <2>1. 0 \in S
    BY GrownStep
  <2>2. ASSUME NEW h \in S PROVE h + 1 \in S
    <3>1. G(h + 1) = (N + 1) * G(h)
      BY GrownStep
    <3> DEFINE v == G(h)
    <3>2. v \in Nat /\ base <= v
      OBVIOUS
    <3> HIDE DEF v
    <3>3. (N + 1) * v = N * v + v /\ N * v \in Nat
      BY <1>0, <3>2
    <3>4. (N + 1) * v \in Nat /\ base <= (N + 1) * v
      BY <3>2, <3>3
    <3> QED BY <3>1, <3>4 DEF v
  <2>3. S = Nat
    <3>1. S \in SUBSET Nat
      OBVIOUS
    <3> HIDE DEF S
    <3> QED BY <2>1, <2>2, <3>1, NatSetInduction
  <2> QED BY <2>3
<1>2. ASSUME NEW k \in Nat
      PROVE  G(k) <= G(k + 1) /\ G(k + 1) = (N + 1) * G(k)
  <2>1. G(k + 1) = (N + 1) * G(k) /\ G(k) \in Nat
    BY <1>1, GrownStep
  <2> DEFINE v == G(k)
  <2>2. v \in Nat
    BY <2>1
  <2> HIDE DEF v
  <2>3. (N + 1) * v = N * v + v /\ N * v \in Nat
    BY <1>0, <2>2
  <2>4. v <= (N + 1) * v
    BY <2>2, <2>3
  <2> QED BY <2>1, <2>4 DEF v
<1>3. ASSUME NEW k \in Nat, k <= n PROVE G(k) <= G(n)
  <2> DEFINE S == {h \in 0..(n - k) : G(k) <= G(k + h)}
  <2>1. 0 \in S
    <3>1. k + 0 = k /\ 0 \in 0..(n - k)
      BY <1>3
    <3> QED BY <1>1, <3>1
  <2>2. ASSUME NEW h \in S, h < n - k PROVE h + 1 \in S
    <3>1. h \in Nat /\ k + h \in Nat /\ k + (h + 1) = (k + h) + 1 /\ h + 1 \in 0..(n - k)
      BY <1>3, <2>2
    <3>2. G(k + h) <= G((k + h) + 1) /\ G(k) \in Nat /\ G(k + h) \in Nat /\ G((k + h) + 1) \in Nat
      BY <1>1, <1>2, <3>1
    <3>3. G(k) <= G(k + h)
      OBVIOUS
    <3> HIDE DEF G
    <3>4. G(k) <= G(k + (h + 1))
      BY <3>1, <3>2, <3>3
    <3> QED BY <3>1, <3>4
  <2>3. n - k \in S
    <3>1. S \in SUBSET (0..(n - k)) /\ n - k \in Nat
      BY <1>3
    <3> HIDE DEF S
    <3> QED BY <2>1, <2>2, <3>1, TotalsFrom
  <2>4. k + (n - k) = n
    BY <1>3
  <2> QED BY <2>3, <2>4
<1>4. ASSUME m < n PROVE (N + 1) * G(m) <= G(n)
  <2>1. m + 1 \in Nat /\ m + 1 <= n
    BY <1>4
  <2>2. G(m + 1) <= G(n) /\ G(m + 1) = (N + 1) * G(m)
    BY <1>2, <1>3, <2>1
  <2> QED BY <2>2
<1> QED BY <1>1, <1>3, <1>4

\* Numbers and values stay within Inf, with room for a row more while a column
\* is left, and grow where columns leave and come back.
LEMMA Sizes ==
  ASSUME NEW p, p.keepCol \subseteq Cols, NEW q, q.keepCol \subseteq p.keepCol
  PROVE  /\ Reach(p) \in Nat /\ Spread(p) \in Nat /\ N \in Nat /\ Inf \in Nat
         /\ Base \in Nat /\ Box <= Base /\ Base <= Spread(p) /\ Reach(p) <= Base /\ Spread(p) < Inf
         /\ p.keepCol # {} => (N + 1) * Reach(p) <= Base
         /\ Reach(p) <= Reach(q) /\ Spread(q) <= Spread(p)
         /\ p.keepCol # q.keepCol =>
              (N + 1) * Reach(p) <= Reach(q) /\ (N + 1) * Spread(q) <= Spread(p)
<1> DEFINE out(r) == Cardinality(Cols \ r.keepCol)
           in(r) == Cardinality(r.keepCol)
<1>1. /\ N \in Nat /\ Box \in Nat /\ Largest \in Nat /\ Inf \in Nat
      /\ Grown(Base, N) < Inf
  BY SmallLpAssumption, InfIsFar DEF Inf, Base
<1>2. /\ IsFiniteSet(Cols) /\ Cardinality(Cols) = N
      /\ IsFiniteSet(p.keepCol) /\ IsFiniteSet(q.keepCol)
      /\ out(p) \in Nat /\ out(q) \in Nat /\ in(p) \in Nat /\ in(q) \in Nat
  <2>1. IsFiniteSet(1..N) /\ Cardinality(1..N) = N
    <3>1. 1 \in Int /\ N \in Int
      BY <1>1
    <3>2. IsFiniteSet(1..N) /\ Cardinality(1..N) = IF 1 > N THEN 0 ELSE N - 1 + 1
      BY <3>1, FS_Interval
    <3> QED BY <1>1, <3>2
  <2> QED BY <2>1, LinesAreFinite DEF Cols
<1>3. /\ out(p) = N - in(p) /\ out(q) = N - in(q)
      /\ in(q) <= in(p) /\ in(p) <= N /\ (p.keepCol # q.keepCol => in(q) < in(p))
      /\ p.keepCol # {} => in(p) > 0
  <2>1. Cols \cap p.keepCol = p.keepCol /\ Cols \cap q.keepCol = q.keepCol
    OBVIOUS
  <2>2. out(p) = N - in(p) /\ out(q) = N - in(q)
    <3>1. /\ Cardinality(Cols \ p.keepCol) = Cardinality(Cols) - Cardinality(Cols \cap p.keepCol)
          /\ Cardinality(Cols \ q.keepCol) = Cardinality(Cols) - Cardinality(Cols \cap q.keepCol)
      BY <1>2, FS_Difference
    <3> QED BY <1>2, <2>1, <3>1
  <2>3. /\ in(q) <= in(p) /\ (in(q) = in(p) => q.keepCol = p.keepCol)
    BY <1>2, FS_Subset
  <2>4. p.keepCol # {} => in(p) # 0
    BY <1>2, FS_EmptySet
  <2>5. in(p) <= N /\ N \in Nat
    BY <1>1, <1>2, FS_Subset
  <2> HIDE DEF in, out
  <2> QED BY <1>2, <2>2, <2>3, <2>4, <2>5
<1>4. Reach(p) = Grown(Largest, out(p)) /\ Reach(q) = Grown(Largest, out(q))
      /\ Spread(p) = Grown(Base, in(p)) /\ Spread(q) = Grown(Base, in(q))
  BY DEF Reach, Spread
<1> HIDE DEF in, out
<1>5. out(p) <= N /\ out(p) <= out(q) /\ (p.keepCol # q.keepCol => out(p) < out(q))
      /\ (p.keepCol # {} => out(p) < N)
  BY <1>1, <1>2, <1>3
<1>6. /\ Grown(Largest, out(p)) \in Nat /\ Grown(Largest, N) \in Nat
      /\ Grown(Largest, out(p)) <= Grown(Largest, N)
      /\ Grown(Largest, out(p)) <= Grown(Largest, out(q))
      /\ p.keepCol # q.keepCol => (N + 1) * Grown(Largest, out(p)) <= Grown(Largest, out(q))
      /\ p.keepCol # {} => (N + 1) * Grown(Largest, out(p)) <= Grown(Largest, N)
  BY <1>1, <1>2, <1>5, GrownIs
<1>7. Base \in Nat /\ Box <= Base /\ Grown(Largest, N) <= Base
  BY <1>1, <1>6 DEF Base
<1>8. /\ Grown(Base, in(p)) \in Nat /\ Grown(Base, in(q)) \in Nat /\ Base <= Grown(Base, in(p))
      /\ Grown(Base, in(p)) <= Grown(Base, N) /\ Grown(Base, N) \in Nat
      /\ Grown(Base, in(q)) <= Grown(Base, in(p))
      /\ p.keepCol # q.keepCol => (N + 1) * Grown(Base, in(q)) <= Grown(Base, in(p))
  BY <1>1, <1>2, <1>3, <1>7, GrownIs
<1>9. Spread(p) < Inf /\ Reach(p) <= Base
  BY <1>1, <1>4, <1>6, <1>7, <1>8
<1>10. p.keepCol # {} => (N + 1) * Reach(p) <= Base
  <2> DEFINE v == (N + 1) * Grown(Largest, out(p))
  <2>1. v \in Nat
    BY <1>1, <1>6
  <2>2. p.keepCol # {} => v <= Grown(Largest, N)
    BY <1>6
  <2> HIDE DEF v
  <2>3. p.keepCol # {} => v <= Base
    BY <1>6, <1>7, <2>1, <2>2
  <2> QED BY <1>4, <2>3 DEF v
<1> QED BY <1>1, <1>4, <1>6, <1>7, <1>8, <1>9, <1>10
-----------------------------------------------------------------------------
(* What a plan says of the points of the LP the closure was entered with.   *)

LowerEnd(v, b) == v = -Inf \/ IsWithin(v, b)
UpperEnd(v, b) == v = Inf \/ IsWithin(v, b)
\* The data of a plan, and how far its live part reaches.
Data(p) ==
  /\ IsPlan(p)
  /\ p.a \in [Rows -> [Cols -> -1..1]]
  /\ p.c \in Vectors /\ p.l \in Vectors /\ p.u \in Vectors
  /\ p.AL \in [Rows -> Int] /\ p.AU \in [Rows -> Int]
  /\ p.delta \in Int /\ p.tape \in Seq(Records)
Reaching(p) ==
  /\ \A j \in p.keepCol : LowerEnd(p.l[j], Reach(p)) /\ UpperEnd(p.u[j], Reach(p))
  /\ \A i \in p.keepRow : LowerEnd(p.AL[i], Reach(p)) /\ UpperEnd(p.AU[i], Reach(p))
  /\ \A j \in Cols \ p.keepCol : IsFinite(p.l[j]) => IsWithin(p.l[j], Reach(p))

\* A point as postsolve has it when it is about to undo the tape of the plan.
IsStart(p, x) ==
  /\ x \in Vectors /\ IsPoint(x)
  /\ \A j \in Cols \ p.keepCol : IsFinite(p.l[j]) /\ p.l[j] = p.u[j] => x[j] = p.l[j]
IsSpread(p, x) == \A j \in Cols : IsWithin(x[j], Spread(p))
CostOf(p, x) == Activity(p.c, x, p.keepCol) + p.delta
Solves(p, x) == Satisfies(p, p.keepRow, p.keepCol, x)
LeavesInfinite(p) == \E q \in 1..Len(p.tape) : p.tape[q].type = "FixedColInf"

\* What comes back from the plan: a point costs what it costs there, and, if
\* all columns come back finite, is a point of the LP.
Comes(user, p) ==
  \A x \in Vectors : IsStart(p, x) =>
    LET y == Replay(p.tape, x)
    IN /\ IsPoint(y) => Cost(user, y) = CostOf(p, x)
       /\ ~LeavesInfinite(p) /\ IsSpread(p, x) /\ Solves(p, x) => Feasible(user, y)
\* What goes to the plan: the points of the LP, at no more cost.
Goes(user, p) ==
  \A x \in Vectors : Feasible(user, x) =>
    /\ Solves(p, x) /\ CostOf(p, x) <= Cost(user, x)
    /\ \A j \in Cols : p.l[j] <= p.u[j]
\* No column of the plan is recovered by its tape.
TapeLeft(p) == Recovers(p.tape) \cap p.keepCol = {}

PlanInv(user, p) ==
  /\ Data(p) /\ Reaching(p) /\ TapeLeft(p) /\ Comes(user, p) /\ Goes(user, p)
  /\ p.verdict = "infeasible" => \A x \in Vectors : ~Feasible(user, x)
\* The masks are fresh where singleton rows are taken.
RowsReady ==
  pc = "rows" => /\ rowsBefore = plan.keepRow /\ colsBefore = plan.keepCol
                 /\ plan.verdict = "none"
ValuesInv == lp.c \in Vectors /\ PlanInv(lp, plan) /\ RowsReady

\* The points of a plan, line by line.
LEMMA SolvesIs ==
  ASSUME NEW p, NEW x
  PROVE  /\ Solves(p, x) => /\ \A j \in p.keepCol : Within(p.l[j], x[j], p.u[j])
                            /\ \A i \in p.keepRow : Within(p.AL[i], Activity(p.a[i], x, p.keepCol), p.AU[i])
         /\ (/\ \A j \in p.keepCol : Within(p.l[j], x[j], p.u[j])
             /\ \A i \in p.keepRow : Within(p.AL[i], Activity(p.a[i], x, p.keepCol), p.AU[i]))
            => Solves(p, x)
BY DEF Solves, Satisfies

\* A rule that removes exactly the columns its records recover brings back what
\* the plan before it could bring back.
LEMMA ComesBack ==
  ASSUME NEW user, NEW p, Data(p), TapeLeft(p), Comes(user, p), NEW q, Data(q),
         NEW new \in Seq(Records), q.tape = p.tape \o new,
         q.keepCol \subseteq p.keepCol, Recovers(new) = p.keepCol \ q.keepCol,
         \A j \in Cols \ p.keepCol : q.l[j] = p.l[j] /\ q.u[j] = p.u[j],
         \A x \in Vectors : IsPoint(x) /\ IsPoint(Replay(new, x))
           => CostOf(p, Replay(new, x)) = CostOf(q, x),
         ~LeavesInfinite(q) => \A x \in Vectors : IsPoint(x) /\ IsSpread(q, x) /\ Solves(q, x)
           => IsSpread(p, Replay(new, x)) /\ Solves(p, Replay(new, x))
  PROVE  Comes(user, q) /\ TapeLeft(q)
<1>0. /\ p.keepCol \subseteq Cols /\ q.keepCol \subseteq Cols
      /\ p.tape \in Seq(Records) /\ q.tape \in Seq(Records)
  BY DEF Data, IsPlan
<1>1. /\ Len(q.tape) = Len(p.tape) + Len(new) /\ Len(p.tape) \in Nat /\ Len(new) \in Nat
      /\ \A h \in 1..Len(p.tape) : q.tape[h] = p.tape[h]
      /\ \A h \in 1..Len(new) : q.tape[Len(p.tape) + h] = new[h]
  BY <1>0
<1>2. LeavesInfinite(p) => LeavesInfinite(q)
  <2>1. \A h \in 1..Len(p.tape) : h \in 1..Len(q.tape)
    BY <1>1
  <2> QED BY <1>1, <2>1 DEF LeavesInfinite
<1>3. TapeLeft(q)
  <2> SUFFICES ASSUME NEW j \in Recovers(q.tape), j \in q.keepCol PROVE FALSE
    BY DEF TapeLeft
  <2>1. PICK h \in 1..Len(q.tape) : IsPrimal(q.tape[h]) /\ q.tape[h].col = j
    BY DEF Recovers
  <2>2. CASE h \in 1..Len(p.tape)
    <3>1. j \in Recovers(p.tape)
      BY <1>1, <2>1, <2>2 DEF Recovers
    <3> QED BY <3>1 DEF TapeLeft
  <2>3. CASE h - Len(p.tape) \in 1..Len(new)
    <3>1. h = Len(p.tape) + (h - Len(p.tape))
      BY <1>1
    <3>2. q.tape[h] = new[h - Len(p.tape)]
      BY <1>1, <2>3, <3>1
    <3>3. j \in Recovers(new)
      BY <2>1, <2>3, <3>2 DEF Recovers
    <3> QED BY <3>3
  <2> QED BY <1>1, <2>2, <2>3
<1>4. ASSUME NEW x \in Vectors, IsStart(q, x)
      PROVE  /\ IsPoint(Replay(q.tape, x)) => Cost(user, Replay(q.tape, x)) = CostOf(q, x)
             /\ ~LeavesInfinite(q) /\ IsSpread(q, x) /\ Solves(q, x)
                  => Feasible(user, Replay(q.tape, x))
  <2> DEFINE y == Replay(new, x)
             z == Replay(q.tape, x)
  <2>1. z = Replay(p.tape, y)
    BY <1>0, ReplayMore
  <2>2. y \in Vectors /\ \A j \in Cols \ Recovers(new) : y[j] = x[j]
    BY <1>1, RewoundKeeps DEF Replay
  <2>3. z \in Vectors /\ \A j \in p.keepCol : z[j] = y[j]
    <3>1. z \in Vectors /\ \A j \in Cols \ Recovers(p.tape) : z[j] = y[j]
      <4> HIDE DEF y
      <4> QED BY <1>0, <1>1, <2>1, <2>2, RewoundKeeps DEF Replay
    <3> QED BY <1>0, <3>1 DEF TapeLeft
  <2>4. \A j \in Cols \ p.keepCol : IsFinite(p.l[j]) /\ p.l[j] = p.u[j] => y[j] = p.l[j]
    BY <1>4, <2>2 DEF IsStart
  <2>5. ASSUME IsPoint(y) PROVE IsStart(p, y)
    BY <2>2, <2>4, <2>5 DEF IsStart
  <2>6. IsPoint(x)
    BY <1>4 DEF IsStart
  <2>7. ASSUME IsPoint(z) PROVE Cost(user, z) = CostOf(q, x)
    <3>1. IsPoint(y)
      <4>1. \A j \in Cols : y[j] = x[j] \/ y[j] = z[j]
        BY <1>0, <2>2, <2>3
      <4> HIDE DEF y, z
      <4> QED BY <2>6, <2>7, <4>1 DEF IsPoint
    <3>2. CostOf(p, y) = CostOf(q, x)
      BY <2>6, <3>1
    <3> QED BY <2>1, <2>2, <2>5, <2>7, <3>1, <3>2 DEF Comes
  <2>8. ASSUME ~LeavesInfinite(q), IsSpread(q, x), Solves(q, x) PROVE Feasible(user, z)
    <3>1. IsSpread(p, y) /\ Solves(p, y) /\ ~LeavesInfinite(p)
      BY <1>2, <2>6, <2>8
    <3>2. IsPoint(y)
      <4>1. Spread(p) \in Nat /\ Spread(p) < Inf /\ Inf \in Nat
        BY <1>0, Sizes
      <4>2. \A j \in Cols : y[j] \in Int /\ -Spread(p) <= y[j] /\ y[j] <= Spread(p)
        BY <2>2, <3>1 DEF IsSpread, IsWithin, Vectors
      <4> HIDE DEF y
      <4> QED BY <4>1, <4>2 DEF IsPoint, IsFinite
    <3> QED BY <2>1, <2>2, <2>5, <3>1, <3>2 DEF Comes
  <2> QED BY <2>7, <2>8
<1>5. Comes(user, q)
  BY <1>4 DEF Comes
<1> QED BY <1>3, <1>5

\* A rule that keeps the points of the plan and makes them no dearer keeps
\* those of the LP.
LEMMA GoesOn ==
  ASSUME NEW user, user.c \in Vectors, NEW p, Data(p), Goes(user, p), NEW q, Data(q),
         \A x \in Vectors : Solves(p, x) /\ (\A j \in Cols : p.l[j] <= p.u[j])
           => /\ Solves(q, x) /\ CostOf(q, x) <= CostOf(p, x)
              /\ \A j \in Cols : q.l[j] <= q.u[j]
  PROVE  Goes(user, q)
<1> SUFFICES ASSUME NEW x \in Vectors, Feasible(user, x)
             PROVE  /\ Solves(q, x) /\ CostOf(q, x) <= Cost(user, x)
                    /\ \A j \in Cols : q.l[j] <= q.u[j]
  BY DEF Goes
<1>1. /\ Solves(p, x) /\ CostOf(p, x) <= Cost(user, x)
      /\ \A j \in Cols : p.l[j] <= p.u[j]
  BY DEF Goes
<1>2. Solves(q, x) /\ CostOf(q, x) <= CostOf(p, x) /\ \A j \in Cols : q.l[j] <= q.u[j]
  BY <1>1
<1>3. CostOf(p, x) \in Int /\ CostOf(q, x) \in Int /\ Cost(user, x) \in Int
  <2>1. p.c \in Vectors /\ q.c \in Vectors /\ p.delta \in Int /\ q.delta \in Int
    BY DEF Data
  <2>2. /\ Activity(p.c, x, p.keepCol) \in Int /\ Activity(q.c, x, q.keepCol) \in Int
        /\ Activity(user.c, x, Cols) \in Int
    BY <2>1, ActivityIs
  <2> QED BY <2>1, <2>2 DEF CostOf, Cost
<1> QED BY <1>1, <1>2, <1>3

\* A verdict leaves the plan as it is, and no point is lost to a right one.
LEMMA VerdictKeeps ==
  ASSUME NEW user, NEW p, PlanInv(user, p), NEW v, NEW q, q = [p EXCEPT !.verdict = v],
         v = "infeasible" => \A x \in Vectors : ~Feasible(user, x)
  PROVE  PlanInv(user, q)
<1>1. /\ Data(p) /\ Reaching(p) /\ TapeLeft(p) /\ Comes(user, p) /\ Goes(user, p) /\ IsPlan(p)
  BY DEF PlanInv, Data
<1>2. /\ IsPlan(q) /\ q.a = p.a /\ q.keepRow = p.keepRow /\ q.keepCol = p.keepCol /\ q.c = p.c
      /\ q.l = p.l /\ q.u = p.u /\ q.AL = p.AL /\ q.AU = p.AU /\ q.delta = p.delta /\ q.tape = p.tape
      /\ q.verdict = v
  BY <1>1 DEF IsPlan, PlanFields
<1>3. Data(q) /\ TapeLeft(q)
  BY <1>1, <1>2 DEF Data, TapeLeft
<1>4. Reach(q) = Reach(p) /\ Spread(q) = Spread(p)
  BY <1>2 DEF Reach, Spread
<1>5. Reaching(q)
  BY <1>1, <1>2, <1>4 DEF Reaching
<1>6. /\ LeavesInfinite(q) <=> LeavesInfinite(p)
      /\ \A x : /\ IsStart(q, x) <=> IsStart(p, x)
                /\ IsSpread(q, x) <=> IsSpread(p, x)
                /\ Solves(q, x) <=> Solves(p, x)
                /\ CostOf(q, x) = CostOf(p, x)
  BY <1>2, <1>4 DEF LeavesInfinite, IsStart, IsSpread, Solves, Satisfies, CostOf
<1>7. Comes(user, q) /\ Goes(user, q)
  BY <1>1, <1>2, <1>6 DEF Comes, Goes
<1> QED BY <1>2, <1>3, <1>5, <1>7 DEF PlanInv

-----------------------------------------------------------------------------
(* Singleton rows.                                                         *)

\* The lower and upper bounds of column j that a singleton row gives it.
LowerBounds(p, sing, j) ==
  {p.l[j]} \cup {ImpliedLower(p, i, j) : i \in {h \in p.keepRow : sing[h] # 0 /\ sing[h] = j}}
UpperBounds(p, sing, j) ==
  {p.u[j]} \cup {ImpliedUpper(p, i, j) : i \in {h \in p.keepRow : sing[h] # 0 /\ sing[h] = j}}

\* A row with one column, as bounds of the column.
LEMMA RowIsBounds ==
  ASSUME NEW p, Data(p), Reaching(p), NEW i \in p.keepRow, NEW j \in Cols, RowCols(p, i) = {j}
  PROVE  /\ j \in p.keepCol
         /\ ImpliedLower(p, i, j) \in Int /\ LowerEnd(ImpliedLower(p, i, j), Reach(p))
         /\ ImpliedUpper(p, i, j) \in Int /\ UpperEnd(ImpliedUpper(p, i, j), Reach(p))
         /\ \A x \in Vectors : Within(p.AL[i], Activity(p.a[i], x, p.keepCol), p.AU[i])
              <=> Within(ImpliedLower(p, i, j), x[j], ImpliedUpper(p, i, j))
<1>1. /\ j \in p.keepCol /\ p.a[i][j] \in {-1, 1} /\ i \in Rows
      /\ \A k \in Cols \cap p.keepCol : k # j => p.a[i][k] = 0
  BY DEF RowCols, Data, IsPlan
<1>2. /\ p.a[i] \in Vectors /\ p.AL[i] \in Int /\ p.AU[i] \in Int
      /\ LowerEnd(p.AL[i], Reach(p)) /\ UpperEnd(p.AU[i], Reach(p))
  <2>1. p.a[i] \in [Cols -> -1..1]
    BY <1>1 DEF Data
  <2>2. p.a[i] \in Vectors
    BY <2>1 DEF Vectors
  <2>3. p.AL[i] \in Int /\ p.AU[i] \in Int
    BY <1>1 DEF Data
  <2> QED BY <2>2, <2>3 DEF Reaching
<1>3. Reach(p) \in Nat /\ Inf \in Nat /\ Reach(p) < Inf
  <2>1. p.keepCol \subseteq Cols
    BY DEF Data, IsPlan
  <2> QED BY <2>1, Sizes
<1>4. \A x \in Vectors : Activity(p.a[i], x, p.keepCol) = p.a[i][j] * x[j] /\ x[j] \in Int
  BY <1>1, <1>2, ActivityOne DEF Vectors
<1> DEFINE V == Reach(p)
           L == p.AL[i]
           U == p.AU[i]
<1>5. L \in Int /\ U \in Int /\ V \in Nat /\ (L = -Inf \/ (-V <= L /\ L <= V)) /\ (U = Inf \/ (-V <= U /\ U <= V))
  BY <1>2, <1>3 DEF LowerEnd, UpperEnd, IsWithin
<1>6. CASE p.a[i][j] = 1
  <2>1. ImpliedLower(p, i, j) = L /\ ImpliedUpper(p, i, j) = U
    BY <1>2, <1>6 DEF ImpliedLower, ImpliedUpper
  <2>2. \A x \in Vectors : Activity(p.a[i], x, p.keepCol) = x[j]
    BY <1>4, <1>6
  <2> QED BY <1>1, <1>2, <2>1, <2>2
<1>7. CASE p.a[i][j] = -1
  <2>1. ImpliedLower(p, i, j) = -U /\ ImpliedUpper(p, i, j) = -L
    BY <1>2, <1>7 DEF ImpliedLower, ImpliedUpper
  <2>2. \A x \in Vectors : Activity(p.a[i], x, p.keepCol) = -x[j] /\ x[j] \in Int
    BY <1>4, <1>7
  <2> HIDE DEF V, L, U
  <2>3. LowerEnd(-U, V) /\ UpperEnd(-L, V) /\ -U \in Int /\ -L \in Int
    BY <1>3, <1>5 DEF LowerEnd, UpperEnd, IsWithin
  <2>4. \A v \in Int : Within(L, -v, U) <=> Within(-U, v, -L)
    BY <1>3, <1>5 DEF Within
  <2> QED BY <1>1, <2>1, <2>2, <2>3, <2>4 DEF V, L, U
<1> QED BY <1>1, <1>6, <1>7

\* The two bounds that a row with one column left implies for it.
LEMMA SingletonBounds ==
  ASSUME NEW p, Data(p), Reaching(p), NEW sing, NEW j \in Cols,
         \A i \in p.keepRow : sing[i] # 0 => RowCols(p, i) = {sing[i]}
  PROVE  LET low == Max(LowerBounds(p, sing, j))
             up == Min(UpperBounds(p, sing, j))
         IN /\ low \in Int /\ up \in Int
            /\ low \in LowerBounds(p, sing, j) /\ \A v \in LowerBounds(p, sing, j) : v \in Int /\ v <= low
            /\ up \in UpperBounds(p, sing, j) /\ \A v \in UpperBounds(p, sing, j) : v \in Int /\ up <= v
            /\ j \in p.keepCol => LowerEnd(low, Reach(p)) /\ UpperEnd(up, Reach(p))
            /\ j \notin p.keepCol => low = p.l[j] /\ up = p.u[j]
<1> DEFINE I == {h \in p.keepRow : sing[h] # 0 /\ sing[h] = j}
           S == LowerBounds(p, sing, j)
           T == UpperBounds(p, sing, j)
<1>1. p.l[j] \in Int /\ p.u[j] \in Int /\ Reach(p) \in Nat /\ Inf \in Nat /\ Reach(p) < Inf
  <2>1. p.keepCol \subseteq Cols
    BY DEF Data, IsPlan
  <2>2. p.l[j] \in Int /\ p.u[j] \in Int
    BY DEF Data, Vectors
  <2> QED BY <2>1, <2>2, Sizes
<1>2. \A i \in I : /\ j \in p.keepCol
                   /\ ImpliedLower(p, i, j) \in Int /\ LowerEnd(ImpliedLower(p, i, j), Reach(p))
                   /\ ImpliedUpper(p, i, j) \in Int /\ UpperEnd(ImpliedUpper(p, i, j), Reach(p))
  BY RowIsBounds
<1>3. /\ S = {p.l[j]} \cup {ImpliedLower(p, i, j) : i \in I}
      /\ T = {p.u[j]} \cup {ImpliedUpper(p, i, j) : i \in I}
  BY DEF LowerBounds, UpperBounds
<1> HIDE DEF I, S, T
<1>4. S \in SUBSET Int /\ T \in SUBSET Int /\ S # {} /\ T # {} /\ p.l[j] \in S /\ p.u[j] \in T
  BY <1>1, <1>2, <1>3
<1>5. CASE j \in p.keepCol
  <2>1. LowerEnd(p.l[j], Reach(p)) /\ UpperEnd(p.u[j], Reach(p))
    BY <1>5 DEF Reaching
  <2>2. /\ \A v \in S : LowerEnd(v, Reach(p))
        /\ \A v \in T : UpperEnd(v, Reach(p))
    BY <1>2, <1>3, <2>1
  <2>3. /\ \A v \in S : v <= Reach(p)
        /\ \A v \in T : -Reach(p) <= v
    BY <1>1, <1>4, <2>2 DEF LowerEnd, UpperEnd, IsWithin
  <2>4. Reach(p) \in Int /\ -Reach(p) \in Int
    BY <1>1
  <2>5. /\ Max(S) \in S /\ \A v \in S : v <= Max(S)
        /\ Min(T) \in T /\ \A v \in T : Min(T) <= v
    BY <1>4, <2>3, <2>4, MaxIsGreatest, MinIsLeast
  <2> QED BY <1>4, <1>5, <2>2, <2>5 DEF S, T
<1>6. CASE j \notin p.keepCol
  <2>1. S = {p.l[j]} /\ T = {p.u[j]}
    BY <1>2, <1>3, <1>6
  <2>2. (\A v \in S : v <= p.l[j]) /\ \A v \in T : p.u[j] <= v
    BY <1>1, <2>1
  <2>3. /\ Max(S) \in S /\ \A v \in S : v <= Max(S)
        /\ Min(T) \in T /\ \A v \in T : Min(T) <= v
    BY <1>1, <1>4, <2>2, MaxIsGreatest, MinIsLeast
  <2> QED BY <1>4, <1>6, <2>1, <2>3 DEF S, T
<1> QED BY <1>5, <1>6

\* Rows that become bounds: the plan keeps its points and their costs.
LEMMA SingletonRowsKeep ==
  ASSUME NEW user, user.c \in Vectors, NEW p, PlanInv(user, p), p.verdict = "none", NEW sing,
         \A i \in p.keepRow : sing[i] # 0 => RowCols(p, i) = {sing[i]}
  PROVE  PlanInv(user, SingletonRows(p, sing))
<1> DEFINE rows == {i \in p.keepRow : sing[i] # 0}
           lower == [j \in Cols |-> Max(LowerBounds(p, sing, j))]
           upper == [j \in Cols |-> Min(UpperBounds(p, sing, j))]
           inOrder == Ascending(rows)
           new == [h \in DOMAIN inOrder |-> DeletedRow(p, inOrder[h], sing[inOrder[h]])]
           q == SingletonRows(p, sing)
<1>1. /\ Data(p) /\ Reaching(p) /\ TapeLeft(p) /\ Comes(user, p) /\ Goes(user, p)
      /\ IsPlan(p) /\ p.keepRow \subseteq Rows /\ p.keepCol \subseteq Cols
  BY DEF PlanInv, Data, IsPlan
<1>2. \A j \in Cols : /\ lower[j] \in Int /\ upper[j] \in Int
                      /\ lower[j] \in LowerBounds(p, sing, j) /\ upper[j] \in UpperBounds(p, sing, j)
                      /\ \A v \in LowerBounds(p, sing, j) : v \in Int /\ v <= lower[j]
                      /\ \A v \in UpperBounds(p, sing, j) : v \in Int /\ upper[j] <= v
                      /\ j \in p.keepCol => LowerEnd(lower[j], Reach(p)) /\ UpperEnd(upper[j], Reach(p))
                      /\ j \notin p.keepCol => lower[j] = p.l[j] /\ upper[j] = p.u[j]
  BY <1>1, SingletonBounds
<1>3. lower \in Vectors /\ upper \in Vectors
  BY <1>2 DEF Vectors
<1>4. q = IF \E j \in Cols : lower[j] > upper[j]
          THEN [p EXCEPT !.verdict = "infeasible"]
          ELSE [p EXCEPT !.keepRow = @ \ rows, !.l = lower, !.u = upper, !.tape = @ \o new]
  <2>1. \A j : {h \in rows : sing[h] = j} = {h \in p.keepRow : sing[h] # 0 /\ sing[h] = j}
    OBVIOUS
  <2>2. \A j : /\ LowerBounds(p, sing, j) = {p.l[j]} \cup {ImpliedLower(p, i, j) : i \in {h \in rows : sing[h] = j}}
               /\ UpperBounds(p, sing, j) = {p.u[j]} \cup {ImpliedUpper(p, i, j) : i \in {h \in rows : sing[h] = j}}
    BY <2>1 DEF LowerBounds, UpperBounds
  <2>3. /\ lower = [j \in Cols |-> Max({p.l[j]} \cup {ImpliedLower(p, i, j) : i \in {h \in rows : sing[h] = j}})]
        /\ upper = [j \in Cols |-> Min({p.u[j]} \cup {ImpliedUpper(p, i, j) : i \in {h \in rows : sing[h] = j}})]
    BY <2>2
  <2> QED BY <2>3 DEF SingletonRows
<1>5. new \in Seq(Records) /\ Recovers(new) = {} /\ \A h \in 1..Len(new) : new[h].type = "DeletedRow"
  <2>1. rows \in SUBSET (1..M) /\ M \in Nat
    BY <1>1, SmallLpAssumption DEF Rows
  <2>2. Cardinality(rows) \in Nat /\ inOrder \in [1..Cardinality(rows) -> rows]
    <3> HIDE DEF rows
    <3> QED BY <2>1, AscendingIs
  <2>3. \A i \in rows : DeletedRow(p, i, sing[i]) \in Records /\ DeletedRow(p, i, sing[i]).type = "DeletedRow"
    <3> SUFFICES ASSUME NEW i \in rows
                 PROVE  DeletedRow(p, i, sing[i]) \in Records /\ DeletedRow(p, i, sing[i]).type = "DeletedRow"
      OBVIOUS
    <3>1. i \in Rows /\ sing[i] \in Cols
      BY <1>1 DEF RowCols
    <3>2. p.a[i][sing[i]] \in Int /\ p.AL[i] \in Int /\ p.AU[i] \in Int
      BY <1>1, <3>1 DEF Data
    <3> QED BY <3>1, <3>2 DEF DeletedRow, Records
  <2> HIDE DEF inOrder, rows
  <2>4. new \in [1..Cardinality(rows) -> Records] /\ \A h \in DOMAIN new : new[h].type = "DeletedRow"
    BY <2>2, <2>3
  <2>5. new \in Seq(Records) /\ \A h \in 1..Len(new) : new[h].type = "DeletedRow"
    <3> HIDE DEF new
    <3> QED BY <2>2, <2>4
  <2>6. Recovers(new) = {}
    <3> HIDE DEF new
    <3> QED BY <2>5 DEF Recovers, IsPrimal, PrimalTypes
  <2> QED BY <2>5, <2>6
<1>6. ASSUME NEW x \in Vectors, Solves(p, x)
      PROVE  \A j \in Cols : j \in p.keepCol => Within(lower[j], x[j], upper[j])
  <2> SUFFICES ASSUME NEW j \in Cols, j \in p.keepCol PROVE Within(lower[j], x[j], upper[j])
    OBVIOUS
  <2>1. Within(p.l[j], x[j], p.u[j])
    BY <1>6, SolvesIs
  <2>2. ASSUME NEW i \in p.keepRow, sing[i] # 0, sing[i] = j
        PROVE  Within(ImpliedLower(p, i, j), x[j], ImpliedUpper(p, i, j))
    <3>1. Within(p.AL[i], Activity(p.a[i], x, p.keepCol), p.AU[i])
      BY <1>6, SolvesIs
    <3> QED BY <1>1, <2>2, <3>1, RowIsBounds
  <2>3. \A v \in LowerBounds(p, sing, j) : v = -Inf \/ v <= x[j]
    BY <2>1, <2>2 DEF LowerBounds, Within
  <2>4. \A v \in UpperBounds(p, sing, j) : v = Inf \/ x[j] <= v
    BY <2>1, <2>2 DEF UpperBounds, Within
  <2> QED BY <1>2, <2>3, <2>4 DEF Within
<1>7. CASE \E j \in Cols : lower[j] > upper[j]
  <2>1. PICK j \in Cols : lower[j] > upper[j]
    BY <1>7
  <2>2. q = [p EXCEPT !.verdict = "infeasible"]
    BY <1>4, <1>7
  <2>3. ASSUME NEW x \in Vectors, Feasible(user, x) PROVE FALSE
    <3>1. Solves(p, x) /\ p.l[j] <= p.u[j]
      BY <1>1, <2>3 DEF Goes
    <3>2. j \in p.keepCol
      BY <1>2, <2>1, <3>1
    <3>3. Within(lower[j], x[j], upper[j])
      BY <1>6, <3>1, <3>2
    <3>4. LowerEnd(lower[j], Reach(p)) /\ UpperEnd(upper[j], Reach(p)) /\ lower[j] \in Int /\ upper[j] \in Int
          /\ x[j] \in Int
      BY <1>2, <3>2 DEF Vectors
    <3>5. Reach(p) \in Nat /\ Inf \in Nat /\ Reach(p) < Inf
      BY <1>1, Sizes
    <3> HIDE DEF lower, upper
    <3> QED BY <2>1, <3>3, <3>4, <3>5 DEF Within, LowerEnd, UpperEnd, IsWithin
  <2> HIDE DEF q
  <2>4. PlanInv(user, q)
    BY <2>2, <2>3, VerdictKeeps
  <2> QED BY <2>4 DEF q
<1>8. CASE ~\E j \in Cols : lower[j] > upper[j]
  <2>1. q = [p EXCEPT !.keepRow = @ \ rows, !.l = lower, !.u = upper, !.tape = @ \o new]
    BY <1>4, <1>8
  <2>2. /\ IsPlan(q) /\ q.a = p.a /\ q.keepRow = p.keepRow \ rows /\ q.keepCol = p.keepCol /\ q.c = p.c
        /\ q.l = lower /\ q.u = upper /\ q.AL = p.AL /\ q.AU = p.AU /\ q.delta = p.delta
        /\ q.tape = p.tape \o new /\ q.verdict = "none"
    <3> HIDE DEF lower, upper, rows, new, q
    <3>1. DOMAIN p = PlanFields
      BY <1>1 DEF IsPlan
    <3> QED BY <1>1, <2>1, <3>1 DEF IsPlan, PlanFields
  <2> HIDE DEF q
  <2>3. Data(q)
    <3> HIDE DEF lower, upper, rows, new
    <3>1. q.tape \in Seq(Records)
      BY <1>1, <1>5, <2>2 DEF Data
    <3> QED BY <1>1, <1>3, <2>2, <3>1 DEF Data
  <2>4. Reach(q) = Reach(p) /\ Spread(q) = Spread(p)
    BY <2>2 DEF Reach, Spread
  <2>5. Reaching(q)
    <3> HIDE DEF lower, upper, rows, new
    <3>1. /\ \A j \in p.keepCol : LowerEnd(p.l[j], Reach(p)) /\ UpperEnd(p.u[j], Reach(p))
          /\ \A i \in p.keepRow : LowerEnd(p.AL[i], Reach(p)) /\ UpperEnd(p.AU[i], Reach(p))
          /\ \A j \in Cols \ p.keepCol : IsFinite(p.l[j]) => IsWithin(p.l[j], Reach(p))
      BY <1>1 DEF Reaching
    <3> QED BY <1>1, <1>2, <2>2, <2>4, <3>1 DEF Reaching
  <2>6. \A x \in Vectors : Replay(new, x) = x
    <3> SUFFICES ASSUME NEW x \in Vectors PROVE Replay(new, x) = x
      OBVIOUS
    <3> HIDE DEF new
    <3>1. Len(new) \in 0..Len(new)
      BY <1>5
    <3>2. Replay(new, x) \in Vectors /\ \A j \in Cols : Replay(new, x)[j] = x[j]
      BY <1>5, <3>1, RewoundKeeps DEF Replay
    <3> QED BY <3>2 DEF Vectors
  <2>7. \A x \in Vectors : CostOf(p, x) = CostOf(q, x) /\ (IsSpread(q, x) <=> IsSpread(p, x))
    BY <2>2, <2>4 DEF CostOf, IsSpread
  <2>8. ASSUME NEW x \in Vectors, Solves(q, x) PROVE Solves(p, x)
    <3>1. \A j \in p.keepCol : Within(lower[j], x[j], upper[j])
      <4> HIDE DEF lower, upper
      <4> QED BY <2>2, <2>8, SolvesIs
    <3>2. ASSUME NEW j \in p.keepCol,
                 NEW v \in LowerBounds(p, sing, j), NEW w \in UpperBounds(p, sing, j),
                 LowerEnd(v, Reach(p)), UpperEnd(w, Reach(p))
          PROVE  Within(v, x[j], w)
      <4>1. /\ v \in Int /\ w \in Int /\ v <= lower[j] /\ upper[j] <= w /\ lower[j] \in Int /\ upper[j] \in Int
            /\ LowerEnd(lower[j], Reach(p)) /\ UpperEnd(upper[j], Reach(p)) /\ x[j] \in Int
        BY <1>1, <1>2 DEF Vectors
      <4>2. Reach(p) \in Nat /\ Inf \in Nat /\ Reach(p) < Inf
        BY <1>1, Sizes
      <4>3. Within(lower[j], x[j], upper[j])
        BY <3>1
      <4> HIDE DEF lower, upper
      <4> QED BY <4>1, <4>2, <4>3, <3>2 DEF Within, LowerEnd, UpperEnd, IsWithin
    <3>3. \A j \in p.keepCol : Within(p.l[j], x[j], p.u[j])
      BY <1>1, <3>2 DEF Reaching, LowerBounds, UpperBounds
    <3>4. ASSUME NEW i \in rows
          PROVE  Within(p.AL[i], Activity(p.a[i], x, p.keepCol), p.AU[i])
      <4> DEFINE j == sing[i]
      <4>1. i \in p.keepRow /\ j \in Cols /\ RowCols(p, i) = {j} /\ j # 0
        BY <1>1 DEF RowCols
      <4>2. /\ j \in p.keepCol
            /\ LowerEnd(ImpliedLower(p, i, j), Reach(p)) /\ UpperEnd(ImpliedUpper(p, i, j), Reach(p))
            /\ Within(p.AL[i], Activity(p.a[i], x, p.keepCol), p.AU[i])
                 <=> Within(ImpliedLower(p, i, j), x[j], ImpliedUpper(p, i, j))
        <5> HIDE DEF j
        <5> QED BY <1>1, <4>1, RowIsBounds
      <4>3. ImpliedLower(p, i, j) \in LowerBounds(p, sing, j) /\ ImpliedUpper(p, i, j) \in UpperBounds(p, sing, j)
        BY <4>1 DEF LowerBounds, UpperBounds
      <4> HIDE DEF j
      <4> QED BY <3>2, <4>2, <4>3
    <3>5. \A i \in p.keepRow \ rows : Within(p.AL[i], Activity(p.a[i], x, p.keepCol), p.AU[i])
      <4> HIDE DEF rows
      <4> QED BY <2>2, <2>8, SolvesIs
    <3> HIDE DEF rows
    <3> QED BY <3>3, <3>4, <3>5, SolvesIs
  <2>9. Comes(user, q) /\ TapeLeft(q)
    <3>1. q.keepCol \subseteq p.keepCol /\ Recovers(new) = p.keepCol \ q.keepCol
      BY <1>5, <2>2
    <3>2. \A j \in Cols \ p.keepCol : q.l[j] = p.l[j] /\ q.u[j] = p.u[j]
      <4> HIDE DEF lower, upper
      <4> QED BY <1>2, <2>2
    <3> HIDE DEF new, rows, lower, upper
    <3>3. \A x \in Vectors : IsPoint(x) /\ IsPoint(Replay(new, x)) => CostOf(p, Replay(new, x)) = CostOf(q, x)
      BY <2>6, <2>7
    <3>4. ~LeavesInfinite(q) => \A x \in Vectors : IsPoint(x) /\ IsSpread(q, x) /\ Solves(q, x)
            => IsSpread(p, Replay(new, x)) /\ Solves(p, Replay(new, x))
      BY <2>6, <2>7, <2>8
    <3>5. Data(p) /\ TapeLeft(p) /\ Comes(user, p) /\ Data(q) /\ new \in Seq(Records) /\ q.tape = p.tape \o new
      BY <1>1, <1>5, <2>2, <2>3
    <3> QED BY <3>1, <3>2, <3>3, <3>4, <3>5, ComesBack
  <2>10. Goes(user, q)
    <3>1. ASSUME NEW x \in Vectors, Solves(p, x)
          PROVE  Solves(q, x) /\ CostOf(q, x) <= CostOf(p, x) /\ \A j \in Cols : q.l[j] <= q.u[j]
      <4>1. \A j \in q.keepCol : Within(q.l[j], x[j], q.u[j])
        <5>1. \A j \in p.keepCol : Within(lower[j], x[j], upper[j])
          BY <1>1, <1>6, <3>1
        <5> HIDE DEF lower, upper
        <5> QED BY <2>2, <5>1
      <4>2. \A i \in q.keepRow : Within(q.AL[i], Activity(q.a[i], x, q.keepCol), q.AU[i])
        <5> HIDE DEF lower, upper, rows
        <5> QED BY <2>2, <3>1, SolvesIs
      <4>3. CostOf(q, x) <= CostOf(p, x)
        <5>1. CostOf(p, x) \in Int
          BY <1>1, ActivityIs DEF CostOf, Data
        <5> QED BY <2>7, <5>1
      <4>4. \A j \in Cols : q.l[j] <= q.u[j]
        <5>1. \A j \in Cols : lower[j] \in Int /\ upper[j] \in Int /\ ~(lower[j] > upper[j])
          BY <1>2, <1>8
        <5> HIDE DEF lower, upper
        <5> QED BY <2>2, <5>1
      <4> QED BY <4>1, <4>2, <4>3, <4>4, SolvesIs
    <3> QED BY <1>1, <2>3, <3>1, GoesOn
  <2>11. PlanInv(user, q)
    BY <2>2, <2>3, <2>5, <2>9, <2>10 DEF PlanInv
  <2> QED BY <2>11 DEF q
<1> QED BY <1>7, <1>8

-----------------------------------------------------------------------------
(* Dual fixing.                                                            *)

\* Ends stay within a larger bound.
LEMMA EndsWithin ==
  ASSUME NEW b \in Int, NEW d \in Int, b <= d, NEW v \in Int
  PROVE  /\ IsWithin(v, b) => IsWithin(v, d)
         /\ LowerEnd(v, b) => LowerEnd(v, d)
         /\ UpperEnd(v, b) => UpperEnd(v, d)
BY DEF IsWithin, LowerEnd, UpperEnd

\* A factor keeps an order or turns it around.
LEMMA ScaleOrder ==
  ASSUME NEW c \in Int, NEW v \in Int, NEW w \in Int, v <= w
  PROVE  /\ c >= 0 => c * v <= c * w
         /\ c <= 0 => c * w <= c * v
<1>1. PICK d \in Nat : w = v + d
  <2>1. w - v \in Nat /\ w = v + (w - v)
    OBVIOUS
  <2> QED BY <2>1
<1>2. c * w = c * v + c * d
  BY <1>1
<1>3. c >= 0 => c * d >= 0
  BY <1>1
<1>4. c <= 0 => c * d <= 0
  BY <1>1
<1>5. c * v \in Int /\ c * d \in Int
  BY <1>1
<1> QED BY <1>2, <1>3, <1>4, <1>5

\* A sum over columns, as the rules write it.
LEMMA ColumnSum ==
  ASSUME NEW coef \in Vectors, NEW x \in Vectors, NEW S, S \subseteq Cols, NEW t,
         t = [n \in 1..(M + N) |-> IF n \in S THEN coef[n] * x[n] ELSE 0]
  PROVE  Total(t, M + N) = Activity(coef, x, S)
<1>1. M \in Nat /\ N \in Nat /\ N <= M + N /\ M + N \in Nat
  BY SmallLpAssumption
<1>2. \A k \in 1..N : t[k] = Terms(coef, x, S)[k]
  BY <1>1, ActivityIs DEF Cols
<1>3. AreInts(Terms(coef, x, S), N) /\ Activity(coef, x, S) = Total(Terms(coef, x, S), N)
  BY ActivityIs
<1>4. AreInts(t, N)
  BY <1>2, <1>3 DEF AreInts
<1>5. \A k \in (N + 1)..(M + N) : t[k] = 0
  BY <1>1 DEF Cols
<1>6. Total(t, M + N) = Total(t, N)
  BY <1>1, <1>4, <1>5, TotalTail
<1>7. Total(t, N) = Total(Terms(coef, x, S), N)
  BY <1>1, <1>2, <1>4, TotalSame
<1> QED BY <1>3, <1>6, <1>7

\* The columns that a sweep fixes, and the values it fixes them at.
FixedBy(p, asking) == {j \in p.keepCol \cap asking : Fate(p, j) = "fix"}
InfiniteBy(p, asking) == {j \in p.keepCol \cap asking : Fate(p, j) = "fixInfinite"}
GoneBy(p, asking) == FixedBy(p, asking) \cup InfiniteBy(p, asking)
Goals(p, asking) == [j \in Cols |-> IF j \in GoneBy(p, asking) THEN Goal(p, j) ELSE 0]
RowsBy(p, asking) == p.keepRow \ UNION {ColRows(p, j) : j \in InfiniteBy(p, asking)}
\* What the fixed columns add to a row.
MovedBy(p, asking, i) ==
  IF i \in p.keepRow THEN Activity(p.a[i], Goals(p, asking), FixedBy(p, asking)) ELSE 0
InfiniteTape(p, asking) ==
  [q \in 1..Cardinality(InfiniteBy(p, asking)) |->
     InfiniteRecord(p, Ascending(InfiniteBy(p, asking))[q])]
FixedTape(p, asking) ==
  [q \in 1..Cardinality(FixedBy(p, asking)) |->
     LET j == Ascending(FixedBy(p, asking))[q]
     IN FixedCol(j, Goal(p, j), p.c[j], Entries(p, j, RowsBy(p, asking)))]
DualTape(p, asking) == InfiniteTape(p, asking) \o FixedTape(p, asking)

\* A fixed column is at the end that its cost and its rows allow it to go to.
LEMMA FateSays ==
  ASSUME NEW p, Data(p), Reaching(p), NEW j \in p.keepCol
  PROVE  /\ Goal(p, j) \in Int
         /\ Fate(p, j) = "infeasible" => p.l[j] > p.u[j]
         /\ Fate(p, j) = "fix" =>
              /\ IsWithin(Goal(p, j), Reach(p)) /\ IsFinite(Goal(p, j)) /\ p.l[j] <= p.u[j]
              /\ \/ Goal(p, j) = p.l[j] /\ p.c[j] >= 0 /\ ~DownLocked(p, j)
                 \/ Goal(p, j) = p.u[j] /\ p.c[j] <= 0 /\ ~UpLocked(p, j)
         /\ Fate(p, j) = "fixInfinite" =>
              p.c[j] = 0 /\ p.l[j] <= p.u[j] /\ ~IsFinite(Goal(p, j))
<1> DEFINE down == p.c[j] >= 0 /\ ~DownLocked(p, j)
           up == p.c[j] <= 0 /\ ~UpLocked(p, j)
           g == Goal(p, j)
<1>1. /\ p.l[j] \in Int /\ p.u[j] \in Int /\ p.c[j] \in Int /\ j \in Cols
  BY DEF Data, Vectors, IsPlan
<1>2. LowerEnd(p.l[j], Reach(p)) /\ UpperEnd(p.u[j], Reach(p))
  BY DEF Reaching
<1>3. g = IF down THEN p.l[j] ELSE p.u[j]
  BY DEF Goal
<1>4. /\ Fate(p, j) = "infeasible" => p.l[j] > p.u[j]
      /\ Fate(p, j) = "fix" => ~(p.l[j] > p.u[j]) /\ (down \/ up) /\ IsFinite(g)
      /\ Fate(p, j) = "fixInfinite" => ~(p.l[j] > p.u[j]) /\ p.c[j] = 0 /\ ~IsFinite(g)
  BY <1>3 DEF Fate
<1> HIDE DEF g, down, up
<1>5. g \in Int /\ (IsFinite(g) => IsWithin(g, Reach(p)))
  BY <1>1, <1>2, <1>3 DEF LowerEnd, UpperEnd, IsFinite
<1>6. ~(p.l[j] > p.u[j]) => p.l[j] <= p.u[j]
  BY <1>1
<1>7. Fate(p, j) = "fix" =>
        \/ g = p.l[j] /\ p.c[j] >= 0 /\ ~DownLocked(p, j)
        \/ g = p.u[j] /\ p.c[j] <= 0 /\ ~UpLocked(p, j)
  BY <1>3, <1>4 DEF down, up
<1> QED BY <1>4, <1>5, <1>6, <1>7 DEF g

\* The columns a sweep takes, and where it puts them.
LEMMA GoalsAre ==
  ASSUME NEW p, Data(p), Reaching(p), NEW asking
  PROVE  /\ Goals(p, asking) \in Vectors
         /\ \A j \in GoneBy(p, asking) : j \in p.keepCol /\ j \in Cols /\ Goals(p, asking)[j] = Goal(p, j)
         /\ \A j \in FixedBy(p, asking) : j \in p.keepCol /\ j \in Cols /\ Fate(p, j) = "fix"
         /\ \A j \in InfiniteBy(p, asking) : j \in p.keepCol /\ j \in Cols /\ Fate(p, j) = "fixInfinite"
         /\ FixedBy(p, asking) \cap InfiniteBy(p, asking) = {}
<1>1. p.keepCol \subseteq Cols
  BY DEF Data, IsPlan
<1>2. \A j \in GoneBy(p, asking) : j \in p.keepCol /\ j \in Cols /\ Goal(p, j) \in Int
  BY <1>1, FateSays DEF GoneBy, FixedBy, InfiniteBy
<1>3. Goals(p, asking) \in Vectors
  BY <1>2 DEF Goals, Vectors
<1> QED BY <1>1, <1>2, <1>3 DEF Goals, FixedBy, InfiniteBy

\* The records of a sweep bring the fixed columns back at their values.
LEMMA DualTapeIs ==
  ASSUME NEW p, Data(p), Reaching(p), NEW asking
  PROVE  /\ InfiniteTape(p, asking) \in Seq(Records) /\ FixedTape(p, asking) \in Seq(Records)
         /\ DualTape(p, asking) \in Seq(Records)
         /\ Recovers(DualTape(p, asking)) = GoneBy(p, asking)
         /\ InfiniteBy(p, asking) # {} =>
              \E h \in 1..Len(DualTape(p, asking)) : DualTape(p, asking)[h].type = "FixedColInf"
         /\ \A x \in Vectors : \A j \in FixedBy(p, asking) : Replay(DualTape(p, asking), x)[j] = Goal(p, j)
<1> DEFINE inf == InfiniteBy(p, asking)
           fix == FixedBy(p, asking)
           s == InfiniteTape(p, asking)
           t == FixedTape(p, asking)
           w == DualTape(p, asking)
           m == Cardinality(inf)
           n == Cardinality(fix)
<1>1. /\ inf \in SUBSET (1..N) /\ fix \in SUBSET (1..N) /\ N \in Nat /\ inf \cap fix = {}
  BY SmallLpAssumption, GoalsAre DEF Cols
<1>2. /\ m \in Nat /\ Ascending(inf) \in [1..m -> inf]
      /\ \A j \in inf : \E h \in 1..m : Ascending(inf)[h] = j
      /\ \A h, k \in 1..m : Ascending(inf)[h] = Ascending(inf)[k] => h = k
  BY <1>1, AscendingIs
<1>3. /\ n \in Nat /\ Ascending(fix) \in [1..n -> fix]
      /\ \A j \in fix : \E h \in 1..n : Ascending(fix)[h] = j
      /\ \A h, k \in 1..n : Ascending(fix)[h] = Ascending(fix)[k] => h = k
  BY <1>1, AscendingIs
<1>4. \A i \in Rows : p.a[i] \in Vectors
  <2>1. \A i \in Rows : p.a[i] \in [Cols -> -1..1]
    BY DEF Data
  <2> QED BY <2>1 DEF Vectors
<1>5. ASSUME NEW j \in inf
      PROVE  InfiniteRecord(p, j) \in Records /\ InfiniteRecord(p, j).type = "FixedColInf"
             /\ InfiniteRecord(p, j).col = j
  <2> DEFINE R == ColRows(p, j)
             d == Demands(p, j)
             c == Cardinality(R)
  <2>1. R \in SUBSET (1..M) /\ M \in Nat /\ R \subseteq Rows
    BY SmallLpAssumption DEF ColRows, Data, IsPlan, Rows
  <2>2. c \in Nat /\ Ascending(R) \in [1..c -> R]
    <3> HIDE DEF R
    <3> QED BY <2>1, AscendingIs
  <2>3. \A i \in R : [side |-> IF IsFinite(p.AL[i]) THEN p.AL[i] ELSE p.AU[i], coef |-> p.a[i]] \in Sides
    <3> SUFFICES ASSUME NEW i \in R
                 PROVE  [side |-> IF IsFinite(p.AL[i]) THEN p.AL[i] ELSE p.AU[i], coef |-> p.a[i]] \in Sides
      OBVIOUS
    <3> HIDE DEF R
    <3>1. p.AL[i] \in Int /\ p.AU[i] \in Int /\ p.a[i] \in Vectors
      BY <1>4, <2>1 DEF Data
    <3> QED BY <3>1 DEF Sides
  <2>4. d = [h \in 1..c |-> [side |-> IF IsFinite(p.AL[Ascending(R)[h]]) THEN p.AL[Ascending(R)[h]]
                                      ELSE p.AU[Ascending(R)[h]],
                             coef |-> p.a[Ascending(R)[h]]]]
    BY DEF Demands
  <2>5. d \in [1..c -> Sides]
    <3> HIDE DEF d, c, R
    <3> QED BY <2>2, <2>3, <2>4
  <2>6. d \in Seq(Sides)
    <3> HIDE DEF d, c
    <3> QED BY <2>2, <2>5
  <2>7. j \in Cols /\ p.l[j] \in Int /\ p.u[j] \in Int
    BY GoalsAre DEF Data, Vectors
  <2> HIDE DEF d
  <2>8. /\ FixedColInf(j, 1, p.l[j], d) \in Records /\ FixedColInf(j, -1, p.u[j], d) \in Records
        /\ FixedColInf(j, 1, p.l[j], d).type = "FixedColInf" /\ FixedColInf(j, 1, p.l[j], d).col = j
        /\ FixedColInf(j, -1, p.u[j], d).type = "FixedColInf" /\ FixedColInf(j, -1, p.u[j], d).col = j
    BY <2>6, <2>7 DEF FixedColInf, Records
  <2>9. \/ InfiniteRecord(p, j) = FixedColInf(j, 1, p.l[j], d)
        \/ InfiniteRecord(p, j) = FixedColInf(j, -1, p.u[j], d)
    BY DEF InfiniteRecord, d
  <2> DEFINE up == FixedColInf(j, 1, p.l[j], d)
             down == FixedColInf(j, -1, p.u[j], d)
             r == InfiniteRecord(p, j)
  <2>10. /\ up \in Records /\ up.type = "FixedColInf" /\ up.col = j
         /\ down \in Records /\ down.type = "FixedColInf" /\ down.col = j
         /\ r = up \/ r = down
    BY <2>8, <2>9
  <2> HIDE DEF up, down, r
  <2>11. r \in Records /\ r.type = "FixedColInf" /\ r.col = j
    BY <2>10
  <2> QED BY <2>11 DEF r
<1>6. ASSUME NEW j \in fix
      PROVE  /\ FixedCol(j, Goal(p, j), p.c[j], Entries(p, j, RowsBy(p, asking))) \in Records
             /\ FixedCol(j, Goal(p, j), p.c[j], Entries(p, j, RowsBy(p, asking))).type = "FixedCol"
             /\ FixedCol(j, Goal(p, j), p.c[j], Entries(p, j, RowsBy(p, asking))).col = j
             /\ FixedCol(j, Goal(p, j), p.c[j], Entries(p, j, RowsBy(p, asking))).bound = Goal(p, j)
  <2>1. j \in Cols /\ Goal(p, j) \in Int /\ p.c[j] \in Int
    BY GoalsAre, FateSays DEF Data, Vectors
  <2> DEFINE R == RowsBy(p, asking)
             e == Entries(p, j, R)
  <2>2. R \in SUBSET Rows
    BY DEF RowsBy, Data, IsPlan
  <2>3. \A i \in R : p.a[i][j] \in Int
    BY <1>4, <2>1, <2>2 DEF Vectors
  <2>4. e \in [R -> Int]
    BY <2>3 DEF Entries
  <2> HIDE DEF e, R
  <2>5. e \in UNION {[S -> Int] : S \in SUBSET Rows}
    BY <2>2, <2>4
  <2>6. FixedCol(j, Goal(p, j), p.c[j], e) \in Records
    BY <2>1, <2>5 DEF FixedCol, Records
  <2> QED BY <2>6 DEF FixedCol, e, R
<1> DEFINE F(j) == FixedCol(j, Goal(p, j), p.c[j], Entries(p, j, RowsBy(p, asking)))
<1>7. s = [h \in 1..m |-> InfiniteRecord(p, Ascending(inf)[h])] /\ t = [h \in 1..n |-> F(Ascending(fix)[h])]
  BY DEF InfiniteTape, FixedTape
<1>8. w = s \o t
  BY DEF DualTape
<1> HIDE DEF s, t, w, inf, fix, m, n, F
<1>9. /\ s \in [1..m -> Records] /\ t \in [1..n -> Records]
  <2>1. \A j \in fix : F(j) \in Records
    BY <1>6 DEF F
  <2> QED BY <1>2, <1>3, <1>5, <1>7, <2>1
<1>10. s \in Seq(Records) /\ t \in Seq(Records) /\ Len(s) = m /\ Len(t) = n
  BY <1>2, <1>3, <1>9
<1>11. /\ w \in Seq(Records) /\ Len(w) = m + n
       /\ \A h \in 1..m : h \in 1..Len(w) /\ w[h] = s[h]
       /\ \A h \in 1..n : m + h \in 1..Len(w) /\ w[m + h] = t[h]
  <2>1. w \in Seq(Records) /\ Len(w) = m + n
    <3>1. s \o t \in Seq(Records) /\ Len(s \o t) = Len(s) + Len(t)
      BY <1>10
    <3> QED BY <1>8, <1>10, <3>1
  <2>2. \A h \in 1..m : h \in 1..(m + n)
    BY <1>2, <1>3
  <2>3. \A h \in 1..n : m + h \in 1..(m + n)
    BY <1>2, <1>3
  <2>4. \A h \in 1..m : w[h] = s[h]
    BY <1>2, <1>3, <1>8, <1>10
  <2>5. \A h \in 1..n : w[m + h] = t[h]
    BY <1>2, <1>3, <1>8, <1>10
  <2> QED BY <2>1, <2>2, <2>3, <2>4, <2>5
<1>12. /\ \A h \in 1..m : /\ IsPrimal(w[h]) /\ w[h].col = Ascending(inf)[h] /\ w[h].type = "FixedColInf"
                          /\ w[h].col \in inf
       /\ \A h \in 1..n : /\ IsPrimal(w[m + h]) /\ w[m + h].col = Ascending(fix)[h]
                          /\ w[m + h].type = "FixedCol" /\ w[m + h].bound = Goal(p, Ascending(fix)[h])
                          /\ w[m + h].col \in fix
  <2>1. \A h \in 1..m : w[h] = InfiniteRecord(p, Ascending(inf)[h]) /\ Ascending(inf)[h] \in inf
    BY <1>2, <1>7, <1>11
  <2>2. \A h \in 1..n : w[m + h] = F(Ascending(fix)[h]) /\ Ascending(fix)[h] \in fix
    BY <1>3, <1>7, <1>11
  <2>3. \A j \in fix : F(j).type = "FixedCol" /\ F(j).col = j /\ F(j).bound = Goal(p, j)
    BY <1>6 DEF F
  <2> QED BY <1>5, <2>1, <2>2, <2>3 DEF IsPrimal, PrimalTypes
<1>13. \A h \in 1..Len(w) : h \in 1..m \/ \E k \in 1..n : h = m + k
  <2> SUFFICES ASSUME NEW h \in 1..Len(w), h \notin 1..m PROVE \E k \in 1..n : h = m + k
    OBVIOUS
  <2>1. h - m \in 1..n /\ h = m + (h - m)
    BY <1>2, <1>3, <1>11
  <2> QED BY <2>1
<1>14. Recovers(w) = inf \cup fix
  <2>1. ASSUME NEW j \in Recovers(w) PROVE j \in inf \cup fix
    <3>1. PICK h \in 1..Len(w) : w[h].col = j
      BY DEF Recovers
    <3> QED BY <1>12, <1>13, <3>1
  <2>2. ASSUME NEW j \in inf PROVE j \in Recovers(w)
    <3>1. PICK h \in 1..m : Ascending(inf)[h] = j
      BY <1>2
    <3>2. j \in Cols
      BY <1>1 DEF Cols
    <3> QED BY <1>11, <1>12, <3>1, <3>2 DEF Recovers
  <2>3. ASSUME NEW j \in fix PROVE j \in Recovers(w)
    <3>1. PICK h \in 1..n : Ascending(fix)[h] = j
      BY <1>3
    <3>2. j \in Cols
      BY <1>1 DEF Cols
    <3> QED BY <1>11, <1>12, <3>1, <3>2 DEF Recovers
  <2> QED BY <2>1, <2>2, <2>3
<1>15. ASSUME inf # {} PROVE \E h \in 1..Len(w) : w[h].type = "FixedColInf"
  <2>1. PICK j \in inf : TRUE
    BY <1>15
  <2>2. PICK h \in 1..m : Ascending(inf)[h] = j
    BY <1>2
  <2> QED BY <1>11, <1>12, <2>2
<1>16. ASSUME NEW x \in Vectors, NEW j \in fix PROVE Replay(w, x)[j] = Goal(p, j)
  <2>1. PICK e \in 1..n : Ascending(fix)[e] = j
    BY <1>3
  <2> DEFINE z == m + e
  <2>2. z \in 1..Len(w) /\ IsPrimal(w[z]) /\ w[z].col = j /\ w[z].type = "FixedCol" /\ w[z].bound = Goal(p, j)
    BY <1>11, <1>12, <2>1
  <2>3. \A h \in 1..Len(w) : h # z /\ IsPrimal(w[h]) => w[h].col # w[z].col
    <3> SUFFICES ASSUME NEW h \in 1..Len(w), h # z PROVE w[h].col # j
      BY <2>2
    <3>1. CASE h \in 1..m
      <4>1. w[h].col \in inf
        BY <1>12, <3>1
      <4> QED BY <1>1, <4>1 DEF inf, fix
    <3>2. CASE h \notin 1..m
      <4>1. PICK k \in 1..n : h = m + k
        BY <1>13, <3>2
      <4>2. k # e
        BY <4>1
      <4>3. w[h].col = Ascending(fix)[k]
        BY <1>12, <4>1
      <4> QED BY <1>3, <2>1, <4>2, <4>3
    <3> QED BY <3>1, <3>2
  <2>4. \A y : Replayed(w[z], y) = Goal(p, j)
    BY <2>2 DEF Replayed
  <2> HIDE DEF z
  <2>5. Replay(w, x)[w[z].col] = Goal(p, j)
    <3>1. w \in Seq(Records) /\ z \in 1..Len(w) /\ IsPrimal(w[z])
      BY <1>11, <2>2
    <3>2. \A y \in Vectors : (\A k \in Cols \ Recovers(w) : y[k] = x[k]) => Replayed(w[z], y) = Replayed(w[z], x)
      BY <2>4
    <3>3. Replay(w, x)[w[z].col] = Replayed(w[z], x)
      BY <2>3, <3>1, <3>2, RewoundValue
    <3> QED BY <2>4, <3>3
  <2> QED BY <2>2, <2>5
<1>17. GoneBy(p, asking) = inf \cup fix
  BY DEF GoneBy, inf, fix
<1>18. /\ w \in Seq(Records) /\ Recovers(w) = GoneBy(p, asking)
       /\ inf # {} => \E h \in 1..Len(w) : w[h].type = "FixedColInf"
       /\ \A x \in Vectors : \A j \in fix : Replay(w, x)[j] = Goal(p, j)
  <2>1. w \in Seq(Records) /\ Recovers(w) = GoneBy(p, asking)
    BY <1>11, <1>14, <1>17
  <2> QED BY <2>1, <1>15, <1>16
<1> QED BY <1>10, <1>18 DEF s, t, w, inf, fix

\* What a sweep makes of a plan.
LEMMA DualFixIs ==
  ASSUME NEW p, Data(p), Reaching(p), p.verdict = "none", NEW asking
  PROVE  LET q == DualFix(p, asking)
         IN \/ q = [p EXCEPT !.verdict = "unbounded"]
            \/ q = [p EXCEPT !.verdict = "infeasible"] /\ \E j \in p.keepCol : p.l[j] > p.u[j]
            \/ /\ IsPlan(q) /\ q.a = p.a /\ q.c = p.c /\ q.verdict = "none"
               /\ q.keepCol = p.keepCol \ GoneBy(p, asking) /\ q.keepRow = RowsBy(p, asking)
               /\ q.l = [j \in Cols |-> IF j \in GoneBy(p, asking) THEN Goals(p, asking)[j] ELSE p.l[j]]
               /\ q.u = [j \in Cols |-> IF j \in GoneBy(p, asking) THEN Goals(p, asking)[j] ELSE p.u[j]]
               /\ q.AL = [i \in Rows |-> Minus(p.AL[i], MovedBy(p, asking, i))]
               /\ q.AU = [i \in Rows |-> Minus(p.AU[i], MovedBy(p, asking, i))]
               /\ q.delta = p.delta + Activity(p.c, Goals(p, asking), FixedBy(p, asking))
               /\ q.tape = p.tape \o DualTape(p, asking)
<1> DEFINE asked == p.keepCol \cap asking
           fix == FixedBy(p, asking)
           inf == InfiniteBy(p, asking)
           gone == GoneBy(p, asking)
           goals == Goals(p, asking)
           value == [j \in fix \cup inf |-> Goal(p, j)]
           rows == RowsBy(p, asking)
           sum(i) == Total([n \in 1..(M + N) |-> IF n \in fix THEN p.a[i][n] * value[n] ELSE 0], M + N)
           moved(i) == IF i \in p.keepRow THEN sum(i) ELSE 0
           cost == Total([n \in 1..(M + N) |-> IF n \in fix THEN p.c[n] * value[n] ELSE 0], M + N)
           fixedTape == [q \in 1..Cardinality(fix) |->
                           LET j == Ascending(fix)[q]
                           IN FixedCol(j, value[j], p.c[j], Entries(p, j, rows))]
           s == [p EXCEPT !.keepCol = @ \ (fix \cup inf), !.keepRow = rows,
                          !.l = [j \in Cols |-> IF j \in fix \cup inf THEN value[j] ELSE @[j]],
                          !.u = [j \in Cols |-> IF j \in fix \cup inf THEN value[j] ELSE @[j]],
                          !.AL = [i \in Rows |-> Minus(@[i], moved(i))],
                          !.AU = [i \in Rows |-> Minus(@[i], moved(i))],
                          !.delta = @ + cost,
                          !.tape = @ \o InfiniteTape(p, asking) \o fixedTape]
           q == DualFix(p, asking)
<1>1. /\ gone = fix \cup inf /\ IsPlan(p) /\ goals \in Vectors /\ fix \subseteq Cols /\ inf \subseteq Cols
      /\ \A j \in gone : value[j] = goals[j] /\ goals[j] = Goal(p, j)
      /\ p.c \in Vectors /\ p.tape \in Seq(Records)
  BY GoalsAre DEF GoneBy, Data
<1>2. q = IF \E j \in asked : Fate(p, j) = "unbounded" THEN [p EXCEPT !.verdict = "unbounded"]
          ELSE IF \E j \in asked : Fate(p, j) = "infeasible" THEN [p EXCEPT !.verdict = "infeasible"]
          ELSE s
  BY DEF DualFix, Sum, FixedBy, InfiniteBy, RowsBy, InfiniteTape
<1>3. \A i \in Rows : moved(i) = MovedBy(p, asking, i)
  <2> SUFFICES ASSUME NEW i \in Rows PROVE sum(i) = Activity(p.a[i], goals, fix)
    BY DEF MovedBy
  <2>1. p.a[i] \in Vectors
    <3>1. p.a[i] \in [Cols -> -1..1]
      BY DEF Data
    <3> QED BY <3>1 DEF Vectors
  <2> DEFINE t == [n \in 1..(M + N) |-> IF n \in fix THEN p.a[i][n] * value[n] ELSE 0]
             w == [n \in 1..(M + N) |-> IF n \in fix THEN p.a[i][n] * goals[n] ELSE 0]
  <2>2. t = w
    <3> HIDE DEF value, fix, goals, gone, inf
    <3> QED BY <1>1
  <2>3. Total(w, M + N) = Activity(p.a[i], goals, fix)
    <3> HIDE DEF goals, fix
    <3> QED BY <1>1, <2>1, ColumnSum
  <2> HIDE DEF t, w
  <2>4. Total(t, M + N) = Activity(p.a[i], goals, fix)
    BY <2>2, <2>3
  <2> QED BY <2>4 DEF t
<1>4. cost = Activity(p.c, goals, fix)
  <2> DEFINE t == [n \in 1..(M + N) |-> IF n \in fix THEN p.c[n] * value[n] ELSE 0]
             w == [n \in 1..(M + N) |-> IF n \in fix THEN p.c[n] * goals[n] ELSE 0]
  <2>2. t = w
    <3> HIDE DEF value, fix, goals, gone, inf
    <3> QED BY <1>1
  <2>3. Total(w, M + N) = Activity(p.c, goals, fix)
    <3> HIDE DEF goals, fix
    <3> QED BY <1>1, ColumnSum
  <2> HIDE DEF t, w
  <2>4. Total(t, M + N) = Activity(p.c, goals, fix)
    BY <2>2, <2>3
  <2> QED BY <2>4 DEF t
<1>5. fixedTape = FixedTape(p, asking)
  <2>1. fix \in SUBSET (1..N) /\ N \in Nat
    BY <1>1, SmallLpAssumption DEF Cols
  <2>2. Ascending(fix) \in [1..Cardinality(fix) -> fix]
    <3> HIDE DEF fix
    <3> QED BY <2>1, AscendingIs
  <2>3. \A h \in 1..Cardinality(fix) : value[Ascending(fix)[h]] = Goal(p, Ascending(fix)[h])
    <3> HIDE DEF fix, value
    <3> QED BY <1>1, <2>2
  <2> DEFINE F(h, v) == FixedCol(Ascending(fix)[h], v, p.c[Ascending(fix)[h]], Entries(p, Ascending(fix)[h], rows))
  <2>4. fixedTape = [h \in 1..Cardinality(fix) |-> F(h, value[Ascending(fix)[h]])]
    OBVIOUS
  <2>5. FixedTape(p, asking) = [h \in 1..Cardinality(fix) |-> F(h, Goal(p, Ascending(fix)[h]))]
    BY DEF FixedTape
  <2> HIDE DEF F, fixedTape, value, fix
  <2> QED BY <2>3, <2>4, <2>5
<1>6. (p.tape \o InfiniteTape(p, asking)) \o FixedTape(p, asking) = p.tape \o DualTape(p, asking)
  <2>1. \A r, v, w : r \in Seq(Records) /\ v \in Seq(Records) /\ w \in Seq(Records)
          => (r \o v) \o w = r \o (v \o w)
    OBVIOUS
  <2>2. InfiniteTape(p, asking) \in Seq(Records) /\ FixedTape(p, asking) \in Seq(Records)
    BY DualTapeIs
  <2> DEFINE r == p.tape
             v == InfiniteTape(p, asking)
             w == FixedTape(p, asking)
  <2>3. r \in Seq(Records) /\ v \in Seq(Records) /\ w \in Seq(Records) /\ DualTape(p, asking) = v \o w
    BY <1>1, <2>2 DEF DualTape
  <2> HIDE DEF r, v, w
  <2>4. (r \o v) \o w = r \o (v \o w)
    BY <2>1, <2>3
  <2> QED BY <2>3, <2>4 DEF r, v, w
<1>7. CASE \E j \in asked : Fate(p, j) = "unbounded"
  BY <1>2, <1>7
<1>8. CASE ~(\E j \in asked : Fate(p, j) = "unbounded") /\ \E j \in asked : Fate(p, j) = "infeasible"
  <2>1. q = [p EXCEPT !.verdict = "infeasible"]
    BY <1>2, <1>8
  <2>2. \E j \in p.keepCol : p.l[j] > p.u[j]
    BY <1>8, FateSays
  <2> QED BY <2>1, <2>2
<1>9. CASE ~(\E j \in asked : Fate(p, j) = "unbounded") /\ ~\E j \in asked : Fate(p, j) = "infeasible"
  <2>1. q = s
    BY <1>2, <1>9
  <2>2. /\ DOMAIN s = PlanFields /\ s.a = p.a /\ s.c = p.c /\ s.verdict = p.verdict
        /\ s.keepCol = p.keepCol \ (fix \cup inf) /\ s.keepRow = rows
        /\ s.l = [j \in Cols |-> IF j \in fix \cup inf THEN value[j] ELSE p.l[j]]
        /\ s.u = [j \in Cols |-> IF j \in fix \cup inf THEN value[j] ELSE p.u[j]]
        /\ s.AL = [i \in Rows |-> Minus(p.AL[i], moved(i))]
        /\ s.AU = [i \in Rows |-> Minus(p.AU[i], moved(i))]
        /\ s.delta = p.delta + cost
        /\ s.tape = (p.tape \o InfiniteTape(p, asking)) \o fixedTape
    <3> HIDE DEF fix, inf, value, moved, cost, fixedTape, rows
    <3> QED BY <1>1 DEF IsPlan, PlanFields
  <2>3. /\ s.l = [j \in Cols |-> IF j \in gone THEN goals[j] ELSE p.l[j]]
        /\ s.u = [j \in Cols |-> IF j \in gone THEN goals[j] ELSE p.u[j]]
    <3> HIDE DEF s, value, goals, fix, inf, gone
    <3> QED BY <1>1, <2>2
  <2>4. /\ s.AL = [i \in Rows |-> Minus(p.AL[i], MovedBy(p, asking, i))]
        /\ s.AU = [i \in Rows |-> Minus(p.AU[i], MovedBy(p, asking, i))]
    <3> HIDE DEF s, moved
    <3> QED BY <1>3, <2>2
  <2>5. IsPlan(s)
    <3>1. rows \subseteq Rows /\ p.keepCol \subseteq Cols
      BY <1>1 DEF RowsBy, IsPlan
    <3> HIDE DEF s, rows
    <3> QED BY <2>2, <3>1 DEF IsPlan
  <2>6. s.tape = p.tape \o DualTape(p, asking)
    BY <1>5, <1>6, <2>2
  <2> HIDE DEF s, q
  <2>7. /\ IsPlan(q) /\ q.a = p.a /\ q.c = p.c /\ q.verdict = "none"
        /\ q.keepCol = p.keepCol \ gone /\ q.keepRow = rows
        /\ q.l = [j \in Cols |-> IF j \in gone THEN goals[j] ELSE p.l[j]]
        /\ q.u = [j \in Cols |-> IF j \in gone THEN goals[j] ELSE p.u[j]]
        /\ q.AL = [i \in Rows |-> Minus(p.AL[i], MovedBy(p, asking, i))]
        /\ q.AU = [i \in Rows |-> Minus(p.AU[i], MovedBy(p, asking, i))]
        /\ q.delta = p.delta + Activity(p.c, goals, fix)
        /\ q.tape = p.tape \o DualTape(p, asking)
    <3> HIDE DEF fix, inf, value, moved, cost, fixedTape, rows, gone, goals
    <3> QED BY <1>1, <1>4, <2>1, <2>2, <2>3, <2>4, <2>5, <2>6
  <2> QED BY <2>7 DEF q
<1> QED BY <1>7, <1>8, <1>9

\* The sides of a row after fixed columns moved to them.
LEMMA RowsMoved ==
  ASSUME NEW p, Data(p), Reaching(p), NEW asking, NEW q, q.keepCol = p.keepCol \ GoneBy(p, asking),
         NEW i \in p.keepRow
  PROVE  /\ MovedBy(p, asking, i) \in Int
         /\ Minus(p.AL[i], MovedBy(p, asking, i)) \in Int
         /\ Minus(p.AU[i], MovedBy(p, asking, i)) \in Int
         /\ LowerEnd(Minus(p.AL[i], MovedBy(p, asking, i)), Reach(q))
         /\ UpperEnd(Minus(p.AU[i], MovedBy(p, asking, i)), Reach(q))
         /\ \A t \in Int : Within(Minus(p.AL[i], MovedBy(p, asking, i)), t, Minus(p.AU[i], MovedBy(p, asking, i)))
                             <=> Within(p.AL[i], t + MovedBy(p, asking, i), p.AU[i])
<1> DEFINE R == Reach(p)
           mv == MovedBy(p, asking, i)
           fix == FixedBy(p, asking)
           goals == Goals(p, asking)
           NR == N * R
<1>1. /\ i \in Rows /\ p.a[i] \in Vectors /\ p.AL[i] \in Int /\ p.AU[i] \in Int
      /\ LowerEnd(p.AL[i], R) /\ UpperEnd(p.AU[i], R)
      /\ \A j \in Cols : p.a[i][j] \in -1..1
  <2>1. i \in Rows
    BY DEF Data, IsPlan
  <2>2. p.a[i] \in [Cols -> -1..1]
    BY <2>1 DEF Data
  <2>3. p.a[i] \in Vectors
    BY <2>2 DEF Vectors
  <2>4. p.AL[i] \in Int /\ p.AU[i] \in Int
    BY <2>1 DEF Data
  <2> QED BY <2>1, <2>2, <2>3, <2>4 DEF Reaching
<1>2. p.keepCol \subseteq Cols /\ q.keepCol \subseteq p.keepCol
  BY DEF Data, IsPlan
<1>3. /\ R \in Nat /\ Reach(q) \in Nat /\ Inf \in Nat /\ N \in Nat /\ R <= Reach(q) /\ Reach(q) < Inf
      /\ p.keepCol # q.keepCol => (N + 1) * R <= Reach(q)
  <2>1. q.keepCol \subseteq Cols
    BY <1>2
  <2>2. Reach(q) \in Nat /\ Base \in Nat /\ Spread(q) \in Nat /\ Reach(q) <= Base /\ Base <= Spread(q) /\ Spread(q) < Inf
    BY <2>1, Sizes
  <2>3. /\ R \in Nat /\ Inf \in Nat /\ N \in Nat /\ R <= Reach(q)
        /\ p.keepCol # q.keepCol => (N + 1) * R <= Reach(q)
    BY <1>2, Sizes
  <2> QED BY <2>2, <2>3
<1>4. mv = Activity(p.a[i], goals, fix) /\ mv \in Int
  <2>1. mv = Activity(p.a[i], goals, fix)
    BY DEF MovedBy
  <2> QED BY <1>1, <2>1, GoalsAre, ActivityIs
<1>5. -NR <= mv /\ mv <= NR /\ (fix = {} => mv = 0)
  <2>1. \A j \in Cols : -R <= Terms(p.a[i], goals, fix)[j] /\ Terms(p.a[i], goals, fix)[j] <= R
    <3> SUFFICES ASSUME NEW j \in Cols
                 PROVE  -R <= Terms(p.a[i], goals, fix)[j] /\ Terms(p.a[i], goals, fix)[j] <= R
      OBVIOUS
    <3>1. Terms(p.a[i], goals, fix)[j] = IF j \in fix THEN p.a[i][j] * goals[j] ELSE 0
      BY <1>1, GoalsAre, ActivityIs
    <3>2. CASE j \notin fix
      BY <1>3, <3>1, <3>2
    <3>3. CASE j \in fix
      <4>1. j \in p.keepCol /\ Fate(p, j) = "fix" /\ goals[j] = Goal(p, j)
        BY <3>3, GoalsAre DEF GoneBy
      <4>2. goals[j] \in Int /\ -R <= goals[j] /\ goals[j] <= R
        BY <4>1, FateSays DEF IsWithin
      <4>3. p.a[i][j] \in {-1, 0, 1}
        BY <1>1
      <4> HIDE DEF goals, fix, R
      <4>4. Terms(p.a[i], goals, fix)[j] = p.a[i][j] * goals[j]
        BY <3>1, <3>3
      <4>5. CASE p.a[i][j] = -1
        BY <1>3, <4>2, <4>4, <4>5
      <4>6. CASE p.a[i][j] = 0
        BY <1>3, <4>2, <4>4, <4>6
      <4>7. CASE p.a[i][j] = 1
        BY <1>3, <4>2, <4>4, <4>7
      <4> QED BY <4>3, <4>5, <4>6, <4>7
    <3> QED BY <3>2, <3>3
  <2>2. goals \in Vectors
    BY GoalsAre
  <2> HIDE DEF goals, fix, R, mv
  <2>3. -(N * R) <= Activity(p.a[i], goals, fix) /\ Activity(p.a[i], goals, fix) <= N * R
    BY <1>1, <1>3, <2>1, <2>2, ActivityWithin
  <2>4. fix = {} => Activity(p.a[i], goals, fix) = 0
    BY <1>1, <2>2, ActivityNone
  <2> QED BY <1>4, <2>3, <2>4
<1>6. fix # {} => p.keepCol # q.keepCol
  BY GoalsAre DEF GoneBy
<1>7. NR \in Nat /\ (N + 1) * R = NR + R
  <2> HIDE DEF R
  <2> QED BY <1>3
<1> HIDE DEF NR, R, mv, fix
<1>8. PICK b \in Nat : -b <= mv /\ mv <= b /\ b + R <= Reach(q)
  <2>1. CASE fix = {}
    <3>1. -0 <= mv /\ mv <= 0 /\ 0 + R <= Reach(q)
      BY <1>3, <1>5, <2>1
    <3> QED BY <3>1
  <2>2. CASE fix # {}
    <3>1. NR + R <= Reach(q)
      BY <1>3, <1>6, <1>7, <2>2
    <3> QED BY <1>5, <1>7, <3>1
  <2> QED BY <2>1, <2>2
<1>9. IsFinite(mv)
  BY <1>3, <1>4, <1>8 DEF IsFinite
<1>10. /\ p.AL[i] = -Inf => Minus(p.AL[i], mv) = -Inf
       /\ p.AL[i] # -Inf => Minus(p.AL[i], mv) = p.AL[i] - mv /\ IsWithin(p.AL[i], R)
       /\ p.AU[i] = Inf => Minus(p.AU[i], mv) = Inf
       /\ p.AU[i] # Inf => Minus(p.AU[i], mv) = p.AU[i] - mv /\ IsWithin(p.AU[i], R)
  <2>1. ASSUME NEW v \in Int, IsWithin(v, R) PROVE IsFinite(v)
    BY <1>3, <2>1 DEF IsWithin, IsFinite
  <2>2. ~IsFinite(Inf) /\ ~IsFinite(-Inf)
    BY DEF IsFinite
  <2> QED BY <1>1, <1>9, <2>1, <2>2 DEF Minus, LowerEnd, UpperEnd
<1>11. \A v \in Int : IsWithin(v, R) => IsWithin(v - mv, Reach(q)) /\ v - mv # Inf /\ v - mv # -Inf
  BY <1>3, <1>4, <1>8 DEF IsWithin
<1>12. /\ Minus(p.AL[i], mv) \in Int /\ LowerEnd(Minus(p.AL[i], mv), Reach(q))
       /\ Minus(p.AU[i], mv) \in Int /\ UpperEnd(Minus(p.AU[i], mv), Reach(q))
  BY <1>1, <1>3, <1>4, <1>10, <1>11 DEF LowerEnd, UpperEnd
<1>13. ASSUME NEW t \in Int
       PROVE Within(Minus(p.AL[i], mv), t, Minus(p.AU[i], mv)) <=> Within(p.AL[i], t + mv, p.AU[i])
  BY <1>1, <1>4, <1>10, <1>11 DEF Within
<1> QED BY <1>4, <1>12, <1>13 DEF mv

\* Dual fixing: the plan keeps its points, as far as they stay finite, and
\* their costs; and none of its points is better than those of the fixed plan.
LEMMA DualFixKeeps ==
  ASSUME NEW user, user.c \in Vectors, NEW p, PlanInv(user, p), p.verdict = "none", NEW asking
  PROVE  PlanInv(user, DualFix(p, asking))
<1> DEFINE q == DualFix(p, asking)
           fix == FixedBy(p, asking)
           inf == InfiniteBy(p, asking)
           gone == GoneBy(p, asking)
           goals == Goals(p, asking)
           rows == RowsBy(p, asking)
           new == DualTape(p, asking)
           mv(i) == MovedBy(p, asking, i)
<1>1. /\ Data(p) /\ Reaching(p) /\ TapeLeft(p) /\ Comes(user, p) /\ Goes(user, p)
      /\ IsPlan(p) /\ p.keepRow \subseteq Rows /\ p.keepCol \subseteq Cols
      /\ p.c \in Vectors /\ p.l \in Vectors /\ p.u \in Vectors /\ p.delta \in Int
      /\ p.AL \in [Rows -> Int] /\ p.AU \in [Rows -> Int] /\ p.tape \in Seq(Records)
  BY DEF PlanInv, Data, IsPlan
<1>2. \/ q = [p EXCEPT !.verdict = "unbounded"]
      \/ q = [p EXCEPT !.verdict = "infeasible"] /\ \E j \in p.keepCol : p.l[j] > p.u[j]
      \/ /\ IsPlan(q) /\ q.a = p.a /\ q.c = p.c /\ q.verdict = "none"
         /\ q.keepCol = p.keepCol \ gone /\ q.keepRow = rows
         /\ q.l = [j \in Cols |-> IF j \in gone THEN goals[j] ELSE p.l[j]]
         /\ q.u = [j \in Cols |-> IF j \in gone THEN goals[j] ELSE p.u[j]]
         /\ q.AL = [i \in Rows |-> Minus(p.AL[i], mv(i))]
         /\ q.AU = [i \in Rows |-> Minus(p.AU[i], mv(i))]
         /\ q.delta = p.delta + Activity(p.c, goals, fix)
         /\ q.tape = p.tape \o new
  BY <1>1, DualFixIs
<1> HIDE DEF q, fix, inf, gone, goals, rows, new, mv
<1>3. CASE q = [p EXCEPT !.verdict = "unbounded"]
  <2>1. PlanInv(user, q)
    BY <1>3, VerdictKeeps
  <2> QED BY <2>1 DEF q
<1>4. CASE q = [p EXCEPT !.verdict = "infeasible"] /\ \E j \in p.keepCol : p.l[j] > p.u[j]
  <2>1. PICK j \in Cols : p.l[j] > p.u[j]
    BY <1>1, <1>4
  <2>2. ASSUME NEW x \in Vectors, Feasible(user, x) PROVE FALSE
    <3>1. p.l[j] <= p.u[j]
      BY <1>1, <2>2 DEF Goes
    <3>2. p.l[j] \in Int /\ p.u[j] \in Int
      BY <1>1 DEF Vectors
    <3> QED BY <2>1, <3>1, <3>2
  <2>3. PlanInv(user, q)
    BY <1>4, <2>2, VerdictKeeps
  <2> QED BY <2>3 DEF q
<1>5. CASE /\ IsPlan(q) /\ q.a = p.a /\ q.c = p.c /\ q.verdict = "none"
           /\ q.keepCol = p.keepCol \ gone /\ q.keepRow = rows
           /\ q.l = [j \in Cols |-> IF j \in gone THEN goals[j] ELSE p.l[j]]
           /\ q.u = [j \in Cols |-> IF j \in gone THEN goals[j] ELSE p.u[j]]
           /\ q.AL = [i \in Rows |-> Minus(p.AL[i], mv(i))]
           /\ q.AU = [i \in Rows |-> Minus(p.AU[i], mv(i))]
           /\ q.delta = p.delta + Activity(p.c, goals, fix)
           /\ q.tape = p.tape \o new
  <2>1. /\ goals \in Vectors /\ gone = fix \cup inf /\ fix \cap inf = {}
        /\ gone \subseteq p.keepCol /\ fix \subseteq Cols /\ inf \subseteq Cols
        /\ \A j \in gone : goals[j] = Goal(p, j)
        /\ \A j \in fix : j \in p.keepCol /\ Fate(p, j) = "fix"
        /\ \A j \in inf : j \in p.keepCol /\ Fate(p, j) = "fixInfinite"
    <3>1. gone = fix \cup inf
      BY DEF gone, fix, inf, GoneBy
    <3> QED BY <1>1, <3>1, GoalsAre DEF goals, gone, fix, inf
  <2>2. /\ new \in Seq(Records) /\ Recovers(new) = gone
        /\ inf # {} => \E h \in 1..Len(new) : new[h].type = "FixedColInf"
        /\ \A x \in Vectors : \A j \in fix : Replay(new, x)[j] = Goal(p, j)
    <3>1. /\ DualTape(p, asking) \in Seq(Records)
          /\ Recovers(DualTape(p, asking)) = GoneBy(p, asking)
          /\ InfiniteBy(p, asking) # {} =>
               \E h \in 1..Len(DualTape(p, asking)) : DualTape(p, asking)[h].type = "FixedColInf"
          /\ \A x \in Vectors : \A j \in FixedBy(p, asking) :
               Replay(DualTape(p, asking), x)[j] = Goal(p, j)
      BY <1>1, DualTapeIs
    <3> QED BY <3>1 DEF new, gone, inf, fix
  <2>3. /\ rows \subseteq p.keepRow /\ \A i \in rows : \A j \in inf : p.a[i][j] = 0
    BY DEF rows, RowsBy, ColRows, inf
  <2>4. ASSUME NEW i \in p.keepRow
        PROVE  /\ i \in Rows /\ q.AL[i] \in Int /\ q.AU[i] \in Int /\ mv(i) \in Int
               /\ LowerEnd(q.AL[i], Reach(q)) /\ UpperEnd(q.AU[i], Reach(q))
               /\ \A t \in Int : Within(q.AL[i], t, q.AU[i]) <=> Within(p.AL[i], t + mv(i), p.AU[i])
               /\ mv(i) = Activity(p.a[i], goals, fix)
    <3>1. q.AL[i] = Minus(p.AL[i], mv(i)) /\ q.AU[i] = Minus(p.AU[i], mv(i)) /\ i \in Rows
      BY <1>1, <1>5
    <3>2. mv(i) = Activity(p.a[i], goals, fix)
      BY DEF mv, MovedBy, goals, fix
    <3>3. q.keepCol = p.keepCol \ GoneBy(p, asking)
      BY <1>5 DEF gone
    <3>4. /\ MovedBy(p, asking, i) \in Int
          /\ Minus(p.AL[i], MovedBy(p, asking, i)) \in Int
          /\ Minus(p.AU[i], MovedBy(p, asking, i)) \in Int
          /\ LowerEnd(Minus(p.AL[i], MovedBy(p, asking, i)), Reach(q))
          /\ UpperEnd(Minus(p.AU[i], MovedBy(p, asking, i)), Reach(q))
          /\ \A t \in Int :
               Within(Minus(p.AL[i], MovedBy(p, asking, i)), t, Minus(p.AU[i], MovedBy(p, asking, i)))
                 <=> Within(p.AL[i], t + MovedBy(p, asking, i), p.AU[i])
      BY <1>1, <3>3, RowsMoved
    <3>5. mv(i) = MovedBy(p, asking, i)
      BY DEF mv
    <3> QED BY <3>1, <3>2, <3>4, <3>5
  <2>5. \A i \in Rows : p.a[i] \in Vectors /\ \A j \in Cols : p.a[i][j] \in {-1, 0, 1}
    <3>1. \A i \in Rows : p.a[i] \in [Cols -> -1..1]
      BY <1>1 DEF Data
    <3> QED BY <3>1 DEF Vectors
  <2>6. Data(q)
    <3>1. q.AL \in [Rows -> Int] /\ q.AU \in [Rows -> Int]
      <4>1. \A i \in Rows \ p.keepRow : mv(i) = 0
        BY DEF mv, MovedBy
      <4>2. \A v \in Int : Minus(v, 0) \in Int
        BY DEF Minus
      <4>3. \A i \in Rows : q.AL[i] \in Int /\ q.AU[i] \in Int
        <5> SUFFICES ASSUME NEW i \in Rows PROVE q.AL[i] \in Int /\ q.AU[i] \in Int
          OBVIOUS
        <5>1. CASE i \in p.keepRow
          BY <2>4, <5>1
        <5>2. CASE i \notin p.keepRow
          <6>1. q.AL[i] = Minus(p.AL[i], mv(i)) /\ q.AU[i] = Minus(p.AU[i], mv(i)) /\ mv(i) = 0
            BY <1>5, <4>1, <5>2
          <6>2. p.AL[i] \in Int /\ p.AU[i] \in Int
            BY <1>1
          <6> QED BY <4>2, <6>1, <6>2
        <5> QED BY <5>1, <5>2
      <4>4. q.AL = [i \in Rows |-> q.AL[i]] /\ q.AU = [i \in Rows |-> q.AU[i]]
        BY <1>5
      <4> QED BY <4>3, <4>4
    <3>2. q.l \in Vectors /\ q.u \in Vectors
      BY <1>1, <1>5, <2>1 DEF Vectors
    <3>3. q.delta \in Int
      BY <1>1, <1>5, <2>1, ActivityIs
    <3>4. q.tape \in Seq(Records)
      BY <1>1, <1>5, <2>2
    <3>5. p.a \in [Rows -> [Cols -> -1..1]]
      BY <1>1 DEF Data
    <3> QED BY <1>1, <1>5, <3>1, <3>2, <3>3, <3>4, <3>5 DEF Data
  <2>7. /\ q.keepCol \subseteq p.keepCol /\ gone = p.keepCol \ q.keepCol
        /\ p.keepCol = q.keepCol \cup (fix \cup inf) /\ q.keepCol \cap (fix \cup inf) = {}
    BY <1>5, <2>1
  <2>8. /\ Reach(p) \in Nat /\ Reach(q) \in Nat /\ Reach(p) <= Reach(q) /\ Reach(p) <= Spread(p)
        /\ Spread(p) \in Nat /\ Spread(q) \in Nat /\ Spread(q) <= Spread(p) /\ Spread(p) < Inf /\ Inf \in Nat
    <3>1. q.keepCol \subseteq Cols
      BY <1>1, <2>7
    <3>2. Reach(q) \in Nat /\ Spread(q) \in Nat
      BY <3>1, Sizes
    <3>3. /\ Reach(p) \in Nat /\ Base \in Nat /\ Reach(p) <= Base /\ Base <= Spread(p) /\ Spread(p) \in Nat
          /\ Reach(p) <= Reach(q) /\ Spread(q) <= Spread(p) /\ Spread(p) < Inf /\ Inf \in Nat
      BY <1>1, <2>7, Sizes
    <3> QED BY <3>2, <3>3
  <2>9. \A j \in fix : /\ IsWithin(goals[j], Reach(p)) /\ IsFinite(goals[j]) /\ goals[j] \in Int
                       /\ p.l[j] <= p.u[j]
                       /\ \/ goals[j] = p.l[j] /\ p.c[j] >= 0 /\ ~DownLocked(p, j)
                          \/ goals[j] = p.u[j] /\ p.c[j] <= 0 /\ ~UpLocked(p, j)
    BY <1>1, <2>1, FateSays
  <2>10. \A j \in inf : p.c[j] = 0 /\ ~IsFinite(goals[j])
    BY <1>1, <2>1, FateSays
  <2>11. Reaching(q)
    <3>1. /\ \A j \in p.keepCol : LowerEnd(p.l[j], Reach(p)) /\ UpperEnd(p.u[j], Reach(p))
          /\ \A j \in Cols \ p.keepCol : IsFinite(p.l[j]) => IsWithin(p.l[j], Reach(p))
      BY <1>1 DEF Reaching
    <3>2. \A v \in Int : /\ IsWithin(v, Reach(p)) => IsWithin(v, Reach(q))
                         /\ LowerEnd(v, Reach(p)) => LowerEnd(v, Reach(q))
                         /\ UpperEnd(v, Reach(p)) => UpperEnd(v, Reach(q))
      BY <2>8, EndsWithin
    <3>3. \A j \in q.keepCol : LowerEnd(q.l[j], Reach(q)) /\ UpperEnd(q.u[j], Reach(q))
      <4> SUFFICES ASSUME NEW j \in q.keepCol PROVE LowerEnd(q.l[j], Reach(q)) /\ UpperEnd(q.u[j], Reach(q))
        OBVIOUS
      <4>1. q.l[j] = p.l[j] /\ q.u[j] = p.u[j] /\ j \in p.keepCol
        BY <1>1, <1>5
      <4>2. p.l[j] \in Int /\ p.u[j] \in Int
        BY <1>1, <4>1 DEF Vectors
      <4> QED BY <3>1, <3>2, <4>1, <4>2
    <3>4. ASSUME NEW j \in Cols \ q.keepCol, IsFinite(q.l[j]) PROVE IsWithin(q.l[j], Reach(q))
      <4>1. CASE j \in gone
        <5>1. q.l[j] = goals[j]
          BY <1>5, <4>1
        <5>2. j \in fix
          BY <2>1, <2>10, <3>4, <4>1, <5>1
        <5> QED BY <2>9, <3>2, <5>1, <5>2
      <4>2. CASE j \notin gone
        <5>1. q.l[j] = p.l[j] /\ j \notin p.keepCol /\ p.l[j] \in Int
          BY <1>1, <1>5, <2>7, <4>2 DEF Vectors
        <5> QED BY <3>1, <3>2, <3>4, <5>1
      <4> QED BY <4>1, <4>2
    <3> QED BY <1>5, <2>3, <2>4, <3>3, <3>4 DEF Reaching
  <2>12. ASSUME NEW coef \in Vectors, NEW x \in Vectors
         PROVE  /\ Activity(coef, x, p.keepCol)
                     = Activity(coef, x, q.keepCol) + Activity(coef, x, fix) + Activity(coef, x, inf)
                /\ Activity(coef, x, q.keepCol) \in Int /\ Activity(coef, x, fix) \in Int
                /\ Activity(coef, x, inf) \in Int
    <3>1. Activity(coef, x, fix \cup inf) = Activity(coef, x, fix) + Activity(coef, x, inf)
      BY <2>1, ActivitySplit
    <3>2. Activity(coef, x, q.keepCol \cup (fix \cup inf))
            = Activity(coef, x, q.keepCol) + Activity(coef, x, fix \cup inf)
      BY <2>7, ActivitySplit
    <3>3. /\ Activity(coef, x, q.keepCol) \in Int /\ Activity(coef, x, fix) \in Int
          /\ Activity(coef, x, inf) \in Int
      BY ActivityIs
    <3> QED BY <2>7, <3>1, <3>2, <3>3
  <2>13. /\ \A x \in Vectors : Activity(p.c, x, inf) = 0
         /\ \A i \in rows : \A x \in Vectors : Activity(p.a[i], x, inf) = 0
    <3>1. \A x \in Vectors : Activity(p.c, x, inf) = 0
      BY <1>1, <2>10, ActivityNone
    <3>2. \A i \in rows : p.a[i] \in Vectors
      BY <1>1, <2>3, <2>5
    <3> QED BY <2>3, <3>1, <3>2, ActivityNone
  <2>14. ASSUME NEW x \in Vectors
         PROVE  /\ Replay(new, x) \in Vectors
                /\ \A j \in Cols \ gone : Replay(new, x)[j] = x[j]
                /\ \A j \in fix : Replay(new, x)[j] = goals[j]
                /\ \A coef \in Vectors : /\ Activity(coef, Replay(new, x), q.keepCol) = Activity(coef, x, q.keepCol)
                                         /\ Activity(coef, Replay(new, x), fix) = Activity(coef, goals, fix)
    <3> DEFINE y == Replay(new, x)
    <3>1. y \in Vectors /\ \A j \in Cols \ gone : y[j] = x[j]
      BY <2>2, RewoundKeeps DEF Replay
    <3>2. \A j \in fix : y[j] = goals[j]
      BY <2>1, <2>2
    <3> HIDE DEF y
    <3>3. ASSUME NEW coef \in Vectors
          PROVE  /\ Activity(coef, y, q.keepCol) = Activity(coef, x, q.keepCol)
                 /\ Activity(coef, y, fix) = Activity(coef, goals, fix)
      <4>1. \A j \in Cols : Terms(coef, y, q.keepCol)[j] = Terms(coef, x, q.keepCol)[j]
        BY <2>7, <3>1 DEF Terms
      <4>2. \A j \in Cols : Terms(coef, y, fix)[j] = Terms(coef, goals, fix)[j]
        BY <3>2 DEF Terms
      <4> QED BY <2>1, <3>1, <4>1, <4>2, ActivityAgree
    <3> QED BY <3>1, <3>2, <3>3 DEF y
  <2>15. Comes(user, q) /\ TapeLeft(q)
    <3>1. \A j \in Cols \ p.keepCol : q.l[j] = p.l[j] /\ q.u[j] = p.u[j]
      BY <1>5, <2>7
    <3>2. ASSUME NEW x \in Vectors PROVE CostOf(p, Replay(new, x)) = CostOf(q, x)
      <4> DEFINE y == Replay(new, x)
      <4>1. /\ y \in Vectors /\ Activity(p.c, y, q.keepCol) = Activity(p.c, x, q.keepCol)
            /\ Activity(p.c, y, fix) = Activity(p.c, goals, fix)
        BY <1>1, <2>14
      <4> HIDE DEF y
      <4>2. Activity(p.c, y, p.keepCol) = Activity(p.c, x, q.keepCol) + Activity(p.c, goals, fix) + 0
        BY <1>1, <2>12, <2>13, <4>1
      <4>3. Activity(p.c, x, q.keepCol) \in Int /\ Activity(p.c, goals, fix) \in Int
        BY <1>1, <2>1, ActivityIs
      <4> QED BY <1>1, <1>5, <4>2, <4>3 DEF CostOf, y
    <3>3. ASSUME ~LeavesInfinite(q), NEW x \in Vectors, IsSpread(q, x), Solves(q, x)
          PROVE  IsSpread(p, Replay(new, x)) /\ Solves(p, Replay(new, x))
      <4> DEFINE y == Replay(new, x)
      <4>1. inf = {} /\ rows = p.keepRow
        <5>1. ASSUME inf # {} PROVE FALSE
          <6>1. PICK h \in 1..Len(new) : new[h].type = "FixedColInf"
            BY <2>2, <5>1
          <6>2. Len(p.tape) + h \in 1..Len(q.tape) /\ q.tape[Len(p.tape) + h] = new[h]
            BY <1>1, <1>5, <2>2
          <6> QED BY <3>3, <6>1, <6>2 DEF LeavesInfinite
        <5> QED BY <5>1 DEF rows, RowsBy, inf
      <4>2. /\ y \in Vectors /\ \A j \in Cols \ gone : y[j] = x[j]
            /\ \A j \in fix : y[j] = goals[j]
            /\ \A coef \in Vectors : /\ Activity(coef, y, q.keepCol) = Activity(coef, x, q.keepCol)
                                     /\ Activity(coef, y, fix) = Activity(coef, goals, fix)
        BY <2>14
      <4> HIDE DEF y
      <4>3. IsSpread(p, y)
        <5> SUFFICES ASSUME NEW j \in Cols PROVE IsWithin(y[j], Spread(p))
          BY DEF IsSpread
        <5>1. CASE j \in fix
          BY <2>8, <2>9, <4>2, <5>1, EndsWithin
        <5>2. CASE j \notin fix
          <6>1. IsWithin(x[j], Spread(q)) /\ y[j] = x[j] /\ x[j] \in Int
            BY <2>1, <3>3, <4>1, <4>2, <5>2 DEF IsSpread, Vectors
          <6> QED BY <2>8, <6>1, EndsWithin
        <5> QED BY <5>1, <5>2
      <4>4. \A j \in p.keepCol : Within(p.l[j], y[j], p.u[j])
        <5> SUFFICES ASSUME NEW j \in p.keepCol PROVE Within(p.l[j], y[j], p.u[j])
          OBVIOUS
        <5>1. CASE j \in fix
          <6>1. p.l[j] \in Int /\ p.u[j] \in Int /\ p.l[j] <= p.u[j] /\ (y[j] = p.l[j] \/ y[j] = p.u[j])
            BY <1>1, <2>9, <4>2, <5>1 DEF Vectors
          <6> QED BY <6>1 DEF Within
        <5>2. CASE j \notin fix
          <6>1. j \in q.keepCol /\ q.l[j] = p.l[j] /\ q.u[j] = p.u[j] /\ y[j] = x[j]
            BY <1>1, <1>5, <2>1, <4>1, <4>2, <5>2
          <6>2. Within(q.l[j], x[j], q.u[j])
            BY <3>3, <6>1, SolvesIs
          <6> QED BY <6>1, <6>2
        <5> QED BY <5>1, <5>2
      <4>5. \A i \in p.keepRow : Within(p.AL[i], Activity(p.a[i], y, p.keepCol), p.AU[i])
        <5> SUFFICES ASSUME NEW i \in p.keepRow
                     PROVE  Within(p.AL[i], Activity(p.a[i], y, p.keepCol), p.AU[i])
          OBVIOUS
        <5>1. i \in Rows /\ p.a[i] \in Vectors /\ i \in rows
          BY <1>1, <2>5, <4>1
        <5>2. Within(q.AL[i], Activity(p.a[i], x, q.keepCol), q.AU[i])
          BY <1>5, <3>3, <5>1, SolvesIs
        <5>3. Activity(p.a[i], y, inf) = 0
          BY <2>13, <4>2, <5>1
        <5>4. Activity(p.a[i], y, p.keepCol) = Activity(p.a[i], x, q.keepCol) + mv(i)
          <6>1. /\ Activity(p.a[i], y, p.keepCol)
                     = Activity(p.a[i], y, q.keepCol) + Activity(p.a[i], y, fix) + Activity(p.a[i], y, inf)
                /\ Activity(p.a[i], y, q.keepCol) = Activity(p.a[i], x, q.keepCol)
                /\ Activity(p.a[i], y, fix) = mv(i)
            BY <2>4, <2>12, <4>2, <5>1
          <6>2. Activity(p.a[i], x, q.keepCol) \in Int /\ mv(i) \in Int
            BY <2>4, <2>12, <5>1
          <6> QED BY <5>3, <6>1, <6>2
        <5>5. Activity(p.a[i], x, q.keepCol) \in Int
          BY <5>1, ActivityIs
        <5> QED BY <2>4, <5>2, <5>4, <5>5
      <4>6. Solves(p, y)
        BY <4>4, <4>5, SolvesIs
      <4> QED BY <4>3, <4>6 DEF y
    <3>4. ~LeavesInfinite(q) => \A x \in Vectors : IsPoint(x) /\ IsSpread(q, x) /\ Solves(q, x)
            => IsSpread(p, Replay(new, x)) /\ Solves(p, Replay(new, x))
      BY <3>3
    <3>5. \A x \in Vectors : IsPoint(x) /\ IsPoint(Replay(new, x)) => CostOf(p, Replay(new, x)) = CostOf(q, x)
      BY <3>2
    <3>6. Data(p) /\ TapeLeft(p) /\ Comes(user, p) /\ Data(q) /\ new \in Seq(Records) /\ q.tape = p.tape \o new
          /\ q.keepCol \subseteq p.keepCol /\ Recovers(new) = p.keepCol \ q.keepCol
      BY <1>1, <1>5, <2>2, <2>6, <2>7
    <3> QED BY <3>1, <3>4, <3>5, <3>6, ComesBack
  <2>16. Goes(user, q)
    <3>1. ASSUME NEW x \in Vectors, Solves(p, x), \A j \in Cols : p.l[j] <= p.u[j]
          PROVE  Solves(q, x) /\ CostOf(q, x) <= CostOf(p, x) /\ \A j \in Cols : q.l[j] <= q.u[j]
      <4>1. \A j \in Cols : q.l[j] <= q.u[j]
        <5> SUFFICES ASSUME NEW j \in Cols PROVE q.l[j] <= q.u[j]
          OBVIOUS
        <5>1. CASE j \in gone
          <6>1. q.l[j] = goals[j] /\ q.u[j] = goals[j] /\ goals[j] \in Int
            BY <1>5, <2>1, <5>1 DEF Vectors
          <6> QED BY <6>1
        <5>2. CASE j \notin gone
          BY <1>5, <3>1, <5>2
        <5> QED BY <5>1, <5>2
      <4>2. \A j \in q.keepCol : Within(q.l[j], x[j], q.u[j])
        <5> SUFFICES ASSUME NEW j \in q.keepCol PROVE Within(q.l[j], x[j], q.u[j])
          OBVIOUS
        <5>1. q.l[j] = p.l[j] /\ q.u[j] = p.u[j] /\ j \in p.keepCol
          BY <1>1, <1>5
        <5>2. Within(p.l[j], x[j], p.u[j])
          BY <3>1, <5>1, SolvesIs
        <5> QED BY <5>1, <5>2
      <4>3. \A j \in fix : /\ goals[j] = p.l[j] => goals[j] <= x[j]
                           /\ goals[j] = p.u[j] => x[j] <= goals[j]
                           /\ x[j] \in Int
        <5> SUFFICES ASSUME NEW j \in fix
                     PROVE  /\ goals[j] = p.l[j] => goals[j] <= x[j]
                            /\ goals[j] = p.u[j] => x[j] <= goals[j]
                            /\ x[j] \in Int
          OBVIOUS
        <5>1. IsFinite(goals[j]) /\ x[j] \in Int
          BY <2>1, <2>9 DEF Vectors
        <5>2. Within(p.l[j], x[j], p.u[j])
          BY <2>1, <3>1, SolvesIs
        <5> QED BY <5>1, <5>2 DEF Within, IsFinite
      <4>4. ASSUME NEW i \in q.keepRow
            PROVE  Within(q.AL[i], Activity(q.a[i], x, q.keepCol), q.AU[i])
        <5>1. i \in rows /\ i \in p.keepRow /\ i \in Rows /\ p.a[i] \in Vectors /\ q.a[i] = p.a[i]
              /\ p.AL[i] \in Int /\ p.AU[i] \in Int
          BY <1>1, <1>5, <2>3, <2>5
        <5>2. Activity(p.a[i], x, p.keepCol) = Activity(p.a[i], x, q.keepCol) + Activity(p.a[i], x, fix)
          <6>1. Activity(p.a[i], x, inf) = 0
            BY <2>13, <5>1
          <6> QED BY <2>12, <5>1, <6>1
        <5>3. /\ Activity(p.a[i], x, q.keepCol) \in Int /\ Activity(p.a[i], x, fix) \in Int
              /\ mv(i) \in Int /\ mv(i) = Activity(p.a[i], goals, fix)
          BY <2>4, <2>12, <5>1
        <5>4. ASSUME NEW j \in fix
              PROVE  /\ IsFinite(p.AL[i]) => p.a[i][j] * x[j] <= p.a[i][j] * goals[j]
                     /\ IsFinite(p.AU[i]) => p.a[i][j] * goals[j] <= p.a[i][j] * x[j]
          <6>1. p.a[i][j] \in {-1, 0, 1} /\ x[j] \in Int /\ goals[j] \in Int
            BY <2>1, <2>5, <2>9, <4>3, <5>1
          <6>2. CASE goals[j] = p.l[j] /\ ~DownLocked(p, j)
            <7>1. goals[j] <= x[j]
              BY <4>3, <6>2
            <7>2. p.a[i][j] = 1 => ~IsFinite(p.AL[i])
              BY <5>1, <6>2 DEF DownLocked, ColRows
            <7>3. p.a[i][j] = -1 => ~IsFinite(p.AU[i])
              BY <5>1, <6>2 DEF DownLocked, ColRows
            <7> QED BY <6>1, <7>1, <7>2, <7>3
          <6>3. CASE goals[j] = p.u[j] /\ ~UpLocked(p, j)
            <7>1. x[j] <= goals[j]
              BY <4>3, <6>3
            <7>2. p.a[i][j] = 1 => ~IsFinite(p.AU[i])
              BY <5>1, <6>3 DEF UpLocked, ColRows
            <7>3. p.a[i][j] = -1 => ~IsFinite(p.AL[i])
              BY <5>1, <6>3 DEF UpLocked, ColRows
            <7> QED BY <6>1, <7>1, <7>2, <7>3
          <6> QED BY <2>9, <6>2, <6>3
        <5>5. IsFinite(p.AL[i]) => Activity(p.a[i], x, fix) <= mv(i)
          <6> SUFFICES ASSUME IsFinite(p.AL[i]) PROVE Activity(p.a[i], x, fix) <= Activity(p.a[i], goals, fix)
            BY <5>3
          <6>1. \A j \in Cols : Terms(p.a[i], x, fix)[j] <= Terms(p.a[i], goals, fix)[j]
            BY <5>4 DEF Terms
          <6> QED BY <2>1, <5>1, <6>1, ActivityOrder
        <5>6. IsFinite(p.AU[i]) => mv(i) <= Activity(p.a[i], x, fix)
          <6> SUFFICES ASSUME IsFinite(p.AU[i]) PROVE Activity(p.a[i], goals, fix) <= Activity(p.a[i], x, fix)
            BY <5>3
          <6>1. \A j \in Cols : Terms(p.a[i], goals, fix)[j] <= Terms(p.a[i], x, fix)[j]
            BY <5>4 DEF Terms
          <6> QED BY <2>1, <5>1, <6>1, ActivityOrder
        <5>7. Within(p.AL[i], Activity(p.a[i], x, p.keepCol), p.AU[i])
          BY <3>1, <5>1, SolvesIs
        <5>8. (p.AL[i] = -Inf \/ IsFinite(p.AL[i])) /\ (p.AU[i] = Inf \/ IsFinite(p.AU[i]))
          <6>1. LowerEnd(p.AL[i], Reach(p)) /\ UpperEnd(p.AU[i], Reach(p))
            BY <1>1, <5>1 DEF Reaching
          <6>2. Reach(p) < Inf
            BY <2>8
          <6> QED BY <2>8, <5>1, <6>1, <6>2 DEF LowerEnd, UpperEnd, IsWithin, IsFinite
        <5>9. Within(p.AL[i], Activity(p.a[i], x, q.keepCol) + mv(i), p.AU[i])
          BY <5>1, <5>2, <5>3, <5>5, <5>6, <5>7, <5>8 DEF Within
        <5> QED BY <2>4, <5>1, <5>3, <5>9
      <4>5. CostOf(q, x) <= CostOf(p, x)
        <5>1. \A j \in fix : p.c[j] * goals[j] <= p.c[j] * x[j]
          <6> SUFFICES ASSUME NEW j \in fix PROVE p.c[j] * goals[j] <= p.c[j] * x[j]
            OBVIOUS
          <6>1. p.c[j] \in Int /\ goals[j] \in Int /\ x[j] \in Int
            BY <1>1, <2>1, <2>9, <4>3 DEF Vectors
          <6>2. \/ goals[j] <= x[j] /\ p.c[j] >= 0
                \/ x[j] <= goals[j] /\ p.c[j] <= 0
            BY <2>9, <4>3
          <6> QED BY <6>1, <6>2, ScaleOrder
        <5>2. Activity(p.c, goals, fix) <= Activity(p.c, x, fix)
          <6>1. \A j \in Cols : Terms(p.c, goals, fix)[j] <= Terms(p.c, x, fix)[j]
            BY <5>1 DEF Terms
          <6> QED BY <1>1, <2>1, <6>1, ActivityOrder
        <5>3. /\ Activity(p.c, x, p.keepCol) = Activity(p.c, x, q.keepCol) + Activity(p.c, x, fix) + 0
              /\ Activity(p.c, x, q.keepCol) \in Int /\ Activity(p.c, x, fix) \in Int
              /\ Activity(p.c, goals, fix) \in Int
          BY <1>1, <2>1, <2>12, <2>13
        <5> QED BY <1>1, <1>5, <5>2, <5>3 DEF CostOf
      <4>6. Solves(q, x)
        BY <4>2, <4>4, SolvesIs
      <4> QED BY <4>1, <4>5, <4>6
    <3> QED BY <1>1, <2>6, <3>1, GoesOn
  <2>17. PlanInv(user, q)
    BY <1>5, <2>6, <2>11, <2>15, <2>16 DEF PlanInv
  <2> QED BY <2>17 DEF q
<1> QED BY <1>2, <1>3, <1>4, <1>5

-----------------------------------------------------------------------------
(* Columns solved for.                                                     *)

OwnedRows(owned) == {o[1] : o \in owned}
OwnedCols(owned) == {o[2] : o \in owned}
Owner(owned, i) == CHOOSE j \in Cols : <<i, j>> \in owned
Rest(p, i, j) == RowCols(p, i) \ {j}
\* The sides of a row that stands for a bound of its owner.
NewLower(p, i, j) == IF KeepsLower(p, i, j) THEN Shifted(p, i, j) ELSE -Inf
NewUpper(p, i, j) == IF KeepsLower(p, i, j) THEN Inf ELSE Shifted(p, i, j)

\* What Owned chooses: rows and columns in pairs, each column in its one row.
Pairs(p, owned) ==
  /\ owned \subseteq Rows \X Cols
  /\ \A i \in Rows, j \in Cols : <<i, j>> \in owned =>
       /\ i \in p.keepRow /\ j \in p.keepCol /\ ColRows(p, j) = {i}
       /\ IsFinite(p.AL[i]) /\ p.AL[i] = p.AU[i]
       /\ FreeAbove(p, i, j) \/ FreeBelow(p, i, j)
  /\ \A i \in Rows, j \in Cols, k \in Cols : <<i, j>> \in owned /\ <<i, k>> \in owned => j = k

\* The rule solves rows for columns that are in no other row.
LEMMA OwnedPairs ==
  ASSUME NEW p, Data(p), NEW sing, \A j \in Cols : sing[j] # 0 => ColRows(p, j) = {sing[j]}
  PROVE  Pairs(p, Owned(p, sing))
<1> DEFINE solvable == {o \in Rows \X Cols : sing[o[2]] = o[1] /\ Solvable(p, o[1], o[2])}
           owned == Owned(p, sing)
<1>1. owned = {o \in solvable : \A r \in solvable : r[1] = o[1] => o[2] <= r[2]}
  BY DEF Owned
<1>2. owned \subseteq Rows \X Cols
  BY <1>1
<1>3. ASSUME NEW i \in Rows, NEW j \in Cols, <<i, j>> \in owned
      PROVE  /\ <<i, j>> \in solvable
             /\ \A k \in Cols : <<i, k>> \in solvable => j <= k
             /\ sing[j] = i /\ Solvable(p, i, j)
  BY <1>1, <1>3
<1> HIDE DEF owned, solvable
<1>4. ASSUME NEW i \in Rows, NEW j \in Cols, <<i, j>> \in owned
      PROVE  /\ i \in p.keepRow /\ j \in p.keepCol /\ ColRows(p, j) = {i}
             /\ IsFinite(p.AL[i]) /\ p.AL[i] = p.AU[i]
             /\ FreeAbove(p, i, j) \/ FreeBelow(p, i, j)
  <2>1. i # 0
    BY SmallLpAssumption DEF Rows
  <2> QED BY <1>3, <1>4, <2>1 DEF Solvable
<1>5. ASSUME NEW i \in Rows, NEW j \in Cols, NEW k \in Cols, <<i, j>> \in owned, <<i, k>> \in owned
      PROVE  j = k
  <2>1. j <= k /\ k <= j
    BY <1>3, <1>5
  <2> QED BY <2>1 DEF Cols
<1> QED BY <1>2, <1>4, <1>5 DEF Pairs, owned

\* The same, row by row.
LEMMA Owners ==
  ASSUME NEW p, Data(p), NEW owned, Pairs(p, owned)
  PROVE  /\ OwnedRows(owned) \subseteq p.keepRow /\ OwnedCols(owned) \subseteq p.keepCol
         /\ OwnedRows(owned) \subseteq Rows /\ OwnedCols(owned) \subseteq Cols
         /\ \A i \in Rows, j \in Cols : <<i, j>> \in owned <=> i \in OwnedRows(owned) /\ j = Owner(owned, i)
         /\ \A i \in OwnedRows(owned) :
              /\ Owner(owned, i) \in OwnedCols(owned)
              /\ ColRows(p, Owner(owned, i)) = {i} /\ p.a[i][Owner(owned, i)] \in {-1, 1}
              /\ IsFinite(p.AL[i]) /\ p.AL[i] = p.AU[i]
              /\ FreeAbove(p, i, Owner(owned, i)) \/ FreeBelow(p, i, Owner(owned, i))
         /\ \A j \in OwnedCols(owned) : \E i \in OwnedRows(owned) : j = Owner(owned, i)
         /\ \A i \in OwnedRows(owned), k \in p.keepRow : k # i => p.a[k][Owner(owned, i)] = 0
<1>1. \A o \in owned : o[1] \in Rows /\ o[2] \in Cols /\ o = <<o[1], o[2]>>
  BY DEF Pairs
<1>2. \A i \in Rows, j \in Cols : <<i, j>> \in owned => i \in OwnedRows(owned) /\ j \in OwnedCols(owned)
  BY DEF OwnedRows, OwnedCols
<1>3. ASSUME NEW i \in OwnedRows(owned)
      PROVE  i \in Rows /\ Owner(owned, i) \in Cols /\ <<i, Owner(owned, i)>> \in owned
  <2>1. i \in Rows /\ \E j \in Cols : <<i, j>> \in owned
    BY <1>1 DEF OwnedRows
  <2> QED BY <2>1 DEF Owner
<1>4. \A i \in Rows, j \in Cols : <<i, j>> \in owned <=> i \in OwnedRows(owned) /\ j = Owner(owned, i)
  BY <1>2, <1>3 DEF Pairs
<1>5. ASSUME NEW i \in OwnedRows(owned)
      PROVE  /\ Owner(owned, i) \in OwnedCols(owned) /\ i \in p.keepRow /\ Owner(owned, i) \in p.keepCol
             /\ ColRows(p, Owner(owned, i)) = {i} /\ p.a[i][Owner(owned, i)] \in {-1, 1}
             /\ IsFinite(p.AL[i]) /\ p.AL[i] = p.AU[i]
             /\ FreeAbove(p, i, Owner(owned, i)) \/ FreeBelow(p, i, Owner(owned, i))
  <2>1. /\ Owner(owned, i) \in OwnedCols(owned) /\ i \in p.keepRow /\ Owner(owned, i) \in p.keepCol
        /\ ColRows(p, Owner(owned, i)) = {i}
        /\ IsFinite(p.AL[i]) /\ p.AL[i] = p.AU[i]
        /\ FreeAbove(p, i, Owner(owned, i)) \/ FreeBelow(p, i, Owner(owned, i))
    BY <1>2, <1>3 DEF Pairs
  <2>2. p.a[i][Owner(owned, i)] # 0
    BY <2>1 DEF ColRows
  <2>3. p.a[i][Owner(owned, i)] \in -1..1
    BY <1>3 DEF Data
  <2> QED BY <2>1, <2>2, <2>3
<1>6. \A j \in OwnedCols(owned) : j \in Cols /\ \E i \in OwnedRows(owned) : j = Owner(owned, i)
  <2> SUFFICES ASSUME NEW j \in OwnedCols(owned)
               PROVE  j \in Cols /\ \E i \in OwnedRows(owned) : j = Owner(owned, i)
    OBVIOUS
  <2>1. PICK o \in owned : j = o[2]
    BY DEF OwnedCols
  <2> QED BY <1>1, <1>4, <2>1
<1>7. \A i \in OwnedRows(owned), k \in p.keepRow : k # i => p.a[k][Owner(owned, i)] = 0
  BY <1>5 DEF ColRows
<1>8. /\ OwnedRows(owned) \subseteq p.keepRow /\ OwnedRows(owned) \subseteq Rows
      /\ OwnedCols(owned) \subseteq p.keepCol /\ OwnedCols(owned) \subseteq Cols
  <2>1. OwnedRows(owned) \subseteq p.keepRow /\ OwnedRows(owned) \subseteq Rows
    BY <1>3, <1>5
  <2>2. OwnedCols(owned) \subseteq p.keepCol /\ OwnedCols(owned) \subseteq Cols
    BY <1>5, <1>6
  <2> QED BY <2>1, <2>2
<1> HIDE DEF OwnedRows, OwnedCols, Owner
<1>9. \A i \in OwnedRows(owned) :
        /\ Owner(owned, i) \in OwnedCols(owned)
        /\ ColRows(p, Owner(owned, i)) = {i} /\ p.a[i][Owner(owned, i)] \in {-1, 1}
        /\ IsFinite(p.AL[i]) /\ p.AL[i] = p.AU[i]
        /\ FreeAbove(p, i, Owner(owned, i)) \/ FreeBelow(p, i, Owner(owned, i))
  BY <1>5
<1>10. \A j \in OwnedCols(owned) : \E i \in OwnedRows(owned) : j = Owner(owned, i)
  BY <1>6
<1> QED BY <1>4, <1>7, <1>8, <1>9, <1>10

-----------------------------------------------------------------------------
\* The rest of a row, at its points within the bounds of its columns, is
\* between the ends that the rules compute for it.
LEMMA RestBetween ==
  ASSUME NEW p, Data(p), Reaching(p), NEW i \in p.keepRow, NEW j \in Cols
  PROVE  /\ RestMin(p, i, j) \in Int
         /\ RestMin(p, i, j) # -Inf => IsWithin(RestMin(p, i, j), N * Reach(p))
         /\ RestMax(p, i, j) \in Int
         /\ RestMax(p, i, j) # Inf => IsWithin(RestMax(p, i, j), N * Reach(p))
         /\ \A x \in Vectors : (\A k \in Rest(p, i, j) : Within(p.l[k], x[k], p.u[k])) =>
              /\ RestMin(p, i, j) # -Inf => RestMin(p, i, j) <= Activity(p.a[i], x, Rest(p, i, j))
              /\ RestMax(p, i, j) # Inf => Activity(p.a[i], x, Rest(p, i, j)) <= RestMax(p, i, j)
<1> DEFINE S == Rest(p, i, j)
           R == Reach(p)
           a == p.a[i]
           lo == [k \in Cols |-> IF a[k] > 0 THEN p.l[k] ELSE p.u[k]]
           hi == [k \in Cols |-> IF a[k] > 0 THEN p.u[k] ELSE p.l[k]]
<1>1. /\ i \in Rows /\ a \in Vectors /\ \A k \in Cols : a[k] \in {-1, 0, 1}
  <2>1. i \in Rows
    BY DEF Data, IsPlan
  <2>2. a \in [Cols -> -1..1]
    BY <2>1 DEF Data
  <2> QED BY <2>1, <2>2 DEF Vectors
<1>2. /\ S \subseteq Cols /\ S \subseteq p.keepCol /\ \A k \in S : a[k] \in {-1, 1}
  <2>1. S \subseteq p.keepCol /\ p.keepCol \subseteq Cols /\ \A k \in S : a[k] # 0
    BY DEF Rest, RowCols, Data, IsPlan
  <2> HIDE DEF S, a
  <2> QED BY <1>1, <2>1
<1>3. lo \in Vectors /\ hi \in Vectors /\ p.l \in Vectors /\ p.u \in Vectors
  BY DEF Data, Vectors
<1>4. R \in Nat /\ Inf \in Nat /\ R < Inf /\ N \in Nat
  <2>1. p.keepCol \subseteq Cols
    BY DEF Data, IsPlan
  <2> QED BY <2>1, Sizes
<1>5. ASSUME NEW k \in S
      PROVE  /\ Least(p, i, k) = a[k] * lo[k] /\ Most(p, i, k) = a[k] * hi[k]
             /\ p.l[k] \in Int /\ p.u[k] \in Int /\ LowerEnd(p.l[k], R) /\ UpperEnd(p.u[k], R)
             /\ lo[k] = IF a[k] > 0 THEN p.l[k] ELSE p.u[k]
             /\ hi[k] = IF a[k] > 0 THEN p.u[k] ELSE p.l[k]
  <2>1. k \in Cols /\ k \in p.keepCol
    BY <1>2
  <2>2. LowerEnd(p.l[k], R) /\ UpperEnd(p.u[k], R)
    BY <2>1 DEF Reaching
  <2>3. p.l[k] \in Int /\ p.u[k] \in Int
    BY <1>3, <2>1 DEF Vectors
  <2> QED BY <2>1, <2>2, <2>3 DEF Least, Most
<1> DEFINE lows == [n \in 1..(M + N) |-> IF n \in S THEN a[n] * lo[n] ELSE 0]
           highs == [n \in 1..(M + N) |-> IF n \in S THEN a[n] * hi[n] ELSE 0]
<1>6. /\ RestMin(p, i, j) = IF \E k \in S : ~IsFinite(Least(p, i, k)) THEN -Inf ELSE Total(lows, M + N)
      /\ RestMax(p, i, j) = IF \E k \in S : ~IsFinite(Most(p, i, k)) THEN Inf ELSE Total(highs, M + N)
  <2> DEFINE lows1 == [n \in 1..(M + N) |-> IF n \in S THEN Least(p, i, n) ELSE 0]
             highs1 == [n \in 1..(M + N) |-> IF n \in S THEN Most(p, i, n) ELSE 0]
  <2>1. /\ RestMin(p, i, j) = IF \E k \in S : ~IsFinite(Least(p, i, k)) THEN -Inf ELSE Total(lows1, M + N)
        /\ RestMax(p, i, j) = IF \E k \in S : ~IsFinite(Most(p, i, k)) THEN Inf ELSE Total(highs1, M + N)
    BY DEF RestMin, RestMax, Sum, Rest
  <2>2. lows1 = lows /\ highs1 = highs
    <3> HIDE DEF S, a, lo, hi
    <3> QED BY <1>5
  <2> HIDE DEF lows1, highs1, lows, highs
  <2> QED BY <2>1, <2>2
<1>7. Total(lows, M + N) = Activity(a, lo, S) /\ Total(highs, M + N) = Activity(a, hi, S)
  <2> HIDE DEF a, lo, hi, S
  <2> QED BY <1>1, <1>2, <1>3, ColumnSum
<1> HIDE DEF lows, highs, a, lo, hi, S, R
<1>8. ASSUME NEW e \in Vectors, \A k \in S : IsWithin(a[k] * e[k], R)
      PROVE  IsWithin(Activity(a, e, S), N * R)
  <2>1. \A k \in Cols : -R <= Terms(a, e, S)[k] /\ Terms(a, e, S)[k] <= R
    <3> SUFFICES ASSUME NEW k \in Cols PROVE -R <= Terms(a, e, S)[k] /\ Terms(a, e, S)[k] <= R
      OBVIOUS
    <3>1. Terms(a, e, S)[k] = IF k \in S THEN a[k] * e[k] ELSE 0
      BY <1>1, ActivityIs
    <3> QED BY <1>4, <1>8, <3>1 DEF IsWithin
  <2> QED BY <1>1, <1>4, <2>1, ActivityWithin DEF IsWithin
<1>9. ASSUME \A k \in S : IsFinite(Least(p, i, k))
      PROVE  /\ IsWithin(Activity(a, lo, S), N * R)
             /\ \A x \in Vectors : (\A k \in S : Within(p.l[k], x[k], p.u[k])) =>
                  Activity(a, lo, S) <= Activity(a, x, S)
  <2>1. ASSUME NEW k \in S
        PROVE  /\ IsWithin(a[k] * lo[k], R)
               /\ \A v \in Int : Within(p.l[k], v, p.u[k]) => a[k] * lo[k] <= a[k] * v
    <3>1. IsFinite(a[k] * lo[k])
      BY <1>5, <1>9
    <3>2. CASE a[k] = 1
      <4>1. a[k] * lo[k] = p.l[k] /\ \A v \in Int : a[k] * v = v
        BY <1>5, <3>2
      <4> QED BY <1>4, <1>5, <3>1, <4>1 DEF IsFinite, LowerEnd, IsWithin, Within
    <3>3. CASE a[k] = -1
      <4>1. a[k] * lo[k] = -p.u[k] /\ \A v \in Int : a[k] * v = -v
        BY <1>5, <3>3
      <4> QED BY <1>4, <1>5, <3>1, <4>1 DEF IsFinite, UpperEnd, IsWithin, Within
    <3> QED BY <1>2, <3>2, <3>3
  <2>2. ASSUME NEW x \in Vectors, \A k \in S : Within(p.l[k], x[k], p.u[k])
        PROVE  Activity(a, lo, S) <= Activity(a, x, S)
    <3>1. \A k \in Cols : Terms(a, lo, S)[k] <= Terms(a, x, S)[k]
      <4> SUFFICES ASSUME NEW k \in Cols PROVE Terms(a, lo, S)[k] <= Terms(a, x, S)[k]
        OBVIOUS
      <4>1. /\ Terms(a, x, S)[k] = IF k \in S THEN a[k] * x[k] ELSE 0
            /\ Terms(a, lo, S)[k] = IF k \in S THEN a[k] * lo[k] ELSE 0
        BY <1>1, <1>3, ActivityIs
      <4>2. x[k] \in Int
        BY DEF Vectors
      <4> QED BY <2>1, <2>2, <4>1, <4>2
    <3> QED BY <1>1, <1>3, <3>1, ActivityOrder
  <2> QED BY <1>3, <1>8, <2>1, <2>2
<1>10. ASSUME \A k \in S : IsFinite(Most(p, i, k))
      PROVE  /\ IsWithin(Activity(a, hi, S), N * R)
             /\ \A x \in Vectors : (\A k \in S : Within(p.l[k], x[k], p.u[k])) =>
                  Activity(a, x, S) <= Activity(a, hi, S)
  <2>1. ASSUME NEW k \in S
        PROVE  /\ IsWithin(a[k] * hi[k], R)
               /\ \A v \in Int : Within(p.l[k], v, p.u[k]) => a[k] * v <= a[k] * hi[k]
    <3>1. IsFinite(a[k] * hi[k])
      BY <1>5, <1>10
    <3>2. CASE a[k] = 1
      <4>1. a[k] * hi[k] = p.u[k] /\ \A v \in Int : a[k] * v = v
        BY <1>5, <3>2
      <4> QED BY <1>4, <1>5, <3>1, <4>1 DEF IsFinite, UpperEnd, IsWithin, Within
    <3>3. CASE a[k] = -1
      <4>1. a[k] * hi[k] = -p.l[k] /\ \A v \in Int : a[k] * v = -v
        BY <1>5, <3>3
      <4> QED BY <1>4, <1>5, <3>1, <4>1 DEF IsFinite, LowerEnd, IsWithin, Within
    <3> QED BY <1>2, <3>2, <3>3
  <2>2. ASSUME NEW x \in Vectors, \A k \in S : Within(p.l[k], x[k], p.u[k])
        PROVE  Activity(a, x, S) <= Activity(a, hi, S)
    <3>1. \A k \in Cols : Terms(a, x, S)[k] <= Terms(a, hi, S)[k]
      <4> SUFFICES ASSUME NEW k \in Cols PROVE Terms(a, x, S)[k] <= Terms(a, hi, S)[k]
        OBVIOUS
      <4>1. /\ Terms(a, x, S)[k] = IF k \in S THEN a[k] * x[k] ELSE 0
            /\ Terms(a, hi, S)[k] = IF k \in S THEN a[k] * hi[k] ELSE 0
        BY <1>1, <1>3, ActivityIs
      <4>2. x[k] \in Int
        BY DEF Vectors
      <4> QED BY <2>1, <2>2, <4>1, <4>2
    <3> QED BY <1>1, <1>3, <3>1, ActivityOrder
  <2> QED BY <1>3, <1>8, <2>1, <2>2
<1>11. Activity(a, lo, S) \in Int /\ Activity(a, hi, S) \in Int
  BY <1>1, <1>3, ActivityIs
<1>12. /\ RestMin(p, i, j) = -Inf \/ /\ RestMin(p, i, j) = Activity(a, lo, S)
                                     /\ \A k \in S : IsFinite(Least(p, i, k))
       /\ RestMax(p, i, j) = Inf \/ /\ RestMax(p, i, j) = Activity(a, hi, S)
                                    /\ \A k \in S : IsFinite(Most(p, i, k))
  BY <1>6, <1>7
<1> QED BY <1>4, <1>9, <1>10, <1>11, <1>12 DEF a, S, R

\* A row that is solved for a column: what is left of the row says that the
\* solved value is within the bounds of the column.
LEMMA OwnerRow ==
  ASSUME NEW p, Data(p), Reaching(p), NEW i \in p.keepRow, NEW j \in p.keepCol,
         p.a[i][j] \in {-1, 1}, IsFinite(p.AL[i]), p.AL[i] = p.AU[i],
         FreeAbove(p, i, j) \/ FreeBelow(p, i, j)
  PROVE  /\ ~Deleted(p, i, j) =>
              /\ NewLower(p, i, j) \in Int /\ LowerEnd(NewLower(p, i, j), (N + 1) * Reach(p))
              /\ NewUpper(p, i, j) \in Int /\ UpperEnd(NewUpper(p, i, j), (N + 1) * Reach(p))
         /\ \A x \in Vectors : (\A k \in Rest(p, i, j) : Within(p.l[k], x[k], p.u[k])) =>
              LET rest == Activity(p.a[i], x, Rest(p, i, j))
              IN Within(p.l[j], p.a[i][j] * (p.AU[i] - rest), p.u[j])
                   <=> Deleted(p, i, j) \/ Within(NewLower(p, i, j), rest, NewUpper(p, i, j))
<1> DEFINE R == Reach(p)
           NR == N * R
           a == p.a[i][j]
           s == p.AU[i]
           l == p.l[j]
           u == p.u[j]
           lo == RestMin(p, i, j)
           hi == RestMax(p, i, j)
           above == FreeAbove(p, i, j)
           below == FreeBelow(p, i, j)
           L == NewLower(p, i, j)
           U == NewUpper(p, i, j)
           D == Deleted(p, i, j)
<1>1. j \in Cols /\ i \in Rows /\ p.keepCol \subseteq Cols /\ p.keepCol # {}
  BY DEF Data, IsPlan
<1>2. /\ R \in Nat /\ N \in Nat /\ Inf \in Nat /\ NR \in Nat /\ (N + 1) * R = NR + R /\ NR + R < Inf /\ R <= NR
  <2>1. R \in Nat /\ N \in Nat /\ Inf \in Nat /\ Base \in Nat /\ (N + 1) * R <= Base /\ Base < Inf
    <3>1. /\ R \in Nat /\ N \in Nat /\ Inf \in Nat /\ Base \in Nat /\ (N + 1) * R <= Base
          /\ Base <= Spread(p) /\ Spread(p) \in Nat /\ Spread(p) < Inf
      BY <1>1, Sizes
    <3> QED BY <3>1
  <2>2. N >= 1
    BY <1>1, <2>1 DEF Cols
  <2> HIDE DEF R
  <2>3. NR \in Nat /\ (N + 1) * R = NR + R
    BY <2>1
  <2>4. R <= NR
    <3>1. PICK n \in Nat : N = n + 1
      <4>1. N - 1 \in Nat /\ N = (N - 1) + 1
        BY <2>1, <2>2
      <4> QED BY <4>1
    <3>2. NR = n * R + R /\ n * R \in Nat
      BY <2>1, <3>1
    <3> QED BY <2>1, <2>3, <3>2
  <2> QED BY <2>1, <2>3, <2>4
<1>3. /\ s \in Int /\ l \in Int /\ u \in Int
      /\ LowerEnd(l, R) /\ UpperEnd(u, R) /\ -R <= s /\ s <= R /\ IsFinite(s)
  <2>1. s \in Int /\ l \in Int /\ u \in Int /\ p.AL[i] = s /\ IsFinite(s)
    BY <1>1 DEF Data, Vectors
  <2>2. LowerEnd(l, R) /\ UpperEnd(u, R) /\ UpperEnd(s, R)
    BY DEF Reaching
  <2> QED BY <2>1, <2>2 DEF UpperEnd, IsWithin, IsFinite
<1>4. /\ lo \in Int /\ (lo = -Inf \/ (-NR <= lo /\ lo <= NR))
      /\ hi \in Int /\ (hi = Inf \/ (-NR <= hi /\ hi <= NR))
      /\ \A x \in Vectors : (\A k \in Rest(p, i, j) : Within(p.l[k], x[k], p.u[k])) =>
              /\ lo # -Inf => lo <= Activity(p.a[i], x, Rest(p, i, j))
              /\ hi # Inf => Activity(p.a[i], x, Rest(p, i, j)) <= hi
  BY <1>1, RestBetween DEF IsWithin
<1> DEFINE e == Minus(s, lo)
           f == Minus(s, hi)
<1>5. /\ e = IF lo = -Inf THEN Inf ELSE s - lo
      /\ f = IF hi = Inf THEN -Inf ELSE s - hi
      /\ e \in Int /\ f \in Int
  <2>1. ~IsFinite(Inf) /\ ~IsFinite(-Inf) /\ -(-Inf) = Inf
    BY <1>2 DEF IsFinite
  <2>2. (lo # -Inf => IsFinite(lo)) /\ (hi # Inf => IsFinite(hi))
    BY <1>2, <1>4 DEF IsFinite
  <2> HIDE DEF s, lo, hi
  <2> QED BY <1>2, <1>3, <1>4, <2>1, <2>2 DEF Minus
<1>6. ImpliedEnds(p, i, j) = {e * a, f * a} /\ e * a \in Int /\ f * a \in Int
  <2>1. ImpliedEnds(p, i, j) = {e * a, f * a}
    BY DEF ImpliedEnds
  <2>2. a \in Int
    OBVIOUS
  <2> HIDE DEF e, f, a
  <2> QED BY <1>5, <2>1, <2>2
<1> HIDE DEF e, f
<1>7. \A v, w \in Int : /\ Max({v, w}) \in {v, w} /\ v <= Max({v, w}) /\ w <= Max({v, w})
                        /\ Min({v, w}) \in {v, w} /\ Min({v, w}) <= v /\ Min({v, w}) <= w
  <2> SUFFICES ASSUME NEW v \in Int, NEW w \in Int
               PROVE  /\ Max({v, w}) \in {v, w} /\ \A k \in {v, w} : k <= Max({v, w})
                      /\ Min({v, w}) \in {v, w} /\ \A k \in {v, w} : Min({v, w}) <= k
    OBVIOUS
  <2>1. {v, w} \in SUBSET Int /\ {v, w} # {}
    OBVIOUS
  <2>2. \E b, c \in Int : \A k \in {v, w} : b <= k /\ k <= c
    <3>1. CASE v <= w
      BY <3>1
    <3>2. CASE w <= v
      BY <3>2
    <3> QED BY <3>1, <3>2
  <2>3. PICK b \in Int, c \in Int : \A k \in {v, w} : b <= k /\ k <= c
    BY <2>2
  <2>4. (\A k \in {v, w} : b <= k) /\ \A k \in {v, w} : k <= c
    BY <2>3
  <2> DEFINE T == {v, w}
  <2> HIDE DEF T
  <2>5. Max(T) \in T /\ (\A k \in T : k <= Max(T)) /\ Min(T) \in T /\ \A k \in T : Min(T) <= k
    BY <2>1, <2>4, MinIsLeast, MaxIsGreatest DEF T
  <2> QED BY <2>5 DEF T
<1>8. /\ above => (IsFinite(u) => e * a <= u /\ f * a <= u)
      /\ (IsFinite(u) => e * a <= u /\ f * a <= u) => above
      /\ below => (IsFinite(l) => l <= e * a /\ l <= f * a)
      /\ (IsFinite(l) => l <= e * a /\ l <= f * a) => below
  <2>1. above <=> (IsFinite(u) => Max({e * a, f * a}) <= u)
    BY <1>6 DEF FreeAbove
  <2>2. below <=> (IsFinite(l) => Min({e * a, f * a}) >= l)
    BY <1>6 DEF FreeBelow
  <2> DEFINE v == e * a
             w == f * a
  <2>3. /\ v \in Int /\ w \in Int
        /\ above <=> (IsFinite(u) => Max({v, w}) <= u)
        /\ below <=> (IsFinite(l) => Min({v, w}) >= l)
    BY <1>6, <2>1, <2>2
  <2> HIDE DEF v, w, above, below, u, l
  <2>4. /\ Max({v, w}) \in {v, w} /\ v <= Max({v, w}) /\ w <= Max({v, w})
        /\ Min({v, w}) \in {v, w} /\ Min({v, w}) <= v /\ Min({v, w}) <= w
    BY <1>7, <2>3
  <2>5. Max({v, w}) \in Int /\ Min({v, w}) \in Int
    BY <2>3, <2>4
  <2>6. /\ above => (IsFinite(u) => v <= u /\ w <= u)
        /\ (IsFinite(u) => v <= u /\ w <= u) => above
        /\ below => (IsFinite(l) => l <= v /\ l <= w)
        /\ (IsFinite(l) => l <= v /\ l <= w) => below
    BY <1>3, <2>3, <2>4, <2>5
  <2> QED BY <2>6 DEF v, w
<1>9. /\ (u = Inf \/ (IsFinite(u) /\ -R <= u /\ u <= R)) /\ (IsFinite(u) => u # Inf)
      /\ (l = -Inf \/ (IsFinite(l) /\ -R <= l /\ l <= R)) /\ (IsFinite(l) => l # -Inf)
  BY <1>2, <1>3 DEF LowerEnd, UpperEnd, IsWithin, IsFinite
<1>10. D <=> above /\ below
  BY DEF Deleted
<1>11. /\ ~above => IsFinite(u)
       /\ ~below => IsFinite(l)
  BY <1>8
<1>12. (above /\ ~below) \/ (~above /\ below) \/ (above /\ below)
  OBVIOUS
<1>13. /\ above => Shifted(p, i, j) = Minus(s, a * l) /\ (KeepsLower(p, i, j) <=> a < 0)
       /\ ~above => Shifted(p, i, j) = Minus(s, a * u) /\ (KeepsLower(p, i, j) <=> a > 0)
  BY DEF Shifted, KeepsLower
<1>14. \A v \in Int : IsFinite(v) /\ v # Inf /\ v # -Inf => Minus(s, v) = s - v
  BY <1>3 DEF Minus
<1>15. /\ L = IF KeepsLower(p, i, j) THEN Shifted(p, i, j) ELSE -Inf
       /\ U = IF KeepsLower(p, i, j) THEN Inf ELSE Shifted(p, i, j)
  BY DEF NewLower, NewUpper
<1>16. a = 1 \/ a = -1
  OBVIOUS
<1> HIDE DEF R, NR, a, s, l, u, lo, hi, above, below, L, U, D
<1>17. /\ above /\ ~below /\ a = 1 => L = -Inf /\ U = s - l /\ -R <= l /\ l <= R
       /\ above /\ ~below /\ a = -1 => L = s + l /\ U = Inf /\ -R <= l /\ l <= R
       /\ ~above /\ below /\ a = 1 => L = s - u /\ U = Inf /\ -R <= u /\ u <= R
       /\ ~above /\ below /\ a = -1 => L = -Inf /\ U = s + u /\ -R <= u /\ u <= R
  <2>1. \A v \in Int : -R <= v /\ v <= R => IsFinite(v) /\ IsFinite(-v) /\ -v \in Int
                                             /\ v # Inf /\ v # -Inf /\ -v # Inf /\ -v # -Inf
    BY <1>2 DEF IsFinite
  <2>2. CASE above /\ ~below
    <3>1. -R <= l /\ l <= R
      BY <1>9, <1>11, <2>2 DEF IsFinite
    <3>2. Minus(s, l) = s - l /\ Minus(s, -l) = s - (-l) /\ s - (-l) = s + l
      BY <1>3, <1>14, <2>1, <3>1
    <3>3. (a = 1 => a * l = l) /\ (a = -1 => a * l = -l)
      BY <1>3
    <3> QED BY <1>13, <1>15, <2>2, <3>1, <3>2, <3>3
  <2>3. CASE ~above /\ below
    <3>1. -R <= u /\ u <= R
      BY <1>9, <1>11, <2>3 DEF IsFinite
    <3>2. Minus(s, u) = s - u /\ Minus(s, -u) = s - (-u) /\ s - (-u) = s + u
      BY <1>3, <1>14, <2>1, <3>1
    <3>3. (a = 1 => a * u = u) /\ (a = -1 => a * u = -u)
      BY <1>3
    <3> QED BY <1>13, <1>15, <2>3, <3>1, <3>2, <3>3
  <2> QED BY <2>2, <2>3
<1>18. ASSUME ~D
       PROVE  /\ L \in Int /\ LowerEnd(L, NR + R)
              /\ U \in Int /\ UpperEnd(U, NR + R)
  BY <1>2, <1>3, <1>10, <1>12, <1>16, <1>17, <1>18 DEF LowerEnd, UpperEnd, IsWithin
<1>19. ASSUME NEW r \in Int, lo # -Inf => lo <= r, hi # Inf => r <= hi
       PROVE  Within(l, a * (s - r), u) <=> D \/ Within(L, r, U)
  <2>1. a = 1 => a * (s - r) = s - r /\ e * a = e /\ f * a = f
    BY <1>3, <1>5
  <2>2. a = -1 => a * (s - r) = r - s /\ e * a = -e /\ f * a = -f
    BY <1>3, <1>5
  <2> DEFINE v == a * (s - r)
  <2>3. v \in Int
    BY <1>3, <1>16, <2>1, <2>2
  <2>4. above => u = Inf \/ v <= u
    BY <1>2, <1>3, <1>4, <1>5, <1>8, <1>9, <1>16, <1>19, <2>1, <2>2
  <2>5. below => l = -Inf \/ l <= v
    BY <1>2, <1>3, <1>4, <1>5, <1>8, <1>9, <1>16, <1>19, <2>1, <2>2
  <2>6. above /\ ~below => (l <= v <=> (L = -Inf \/ L <= r) /\ (U = Inf \/ r <= U)) /\ l # -Inf
    BY <1>2, <1>3, <1>9, <1>11, <1>16, <1>17, <2>1, <2>2
  <2>7. ~above /\ below => (v <= u <=> (L = -Inf \/ L <= r) /\ (U = Inf \/ r <= U)) /\ u # Inf
    BY <1>2, <1>3, <1>9, <1>11, <1>16, <1>17, <2>1, <2>2
  <2> HIDE DEF v
  <2>8. Within(l, v, u) <=> D \/ Within(L, r, U)
    BY <1>10, <1>12, <2>4, <2>5, <2>6, <2>7 DEF Within
  <2> QED BY <2>8 DEF v
<1>20. \A x \in Vectors : Activity(p.a[i], x, Rest(p, i, j)) \in Int
  <2>1. p.a[i] \in [Cols -> -1..1]
    BY <1>1 DEF Data
  <2>2. p.a[i] \in Vectors
    BY <2>1 DEF Vectors
  <2> QED BY <2>2, ActivityIs
<1>21. ASSUME NEW x \in Vectors, \A k \in Rest(p, i, j) : Within(p.l[k], x[k], p.u[k])
       PROVE  Within(l, a * (s - Activity(p.a[i], x, Rest(p, i, j))), u)
                <=> D \/ Within(L, Activity(p.a[i], x, Rest(p, i, j)), U)
  BY <1>4, <1>19, <1>20, <1>21
<1> QED BY <1>2, <1>18, <1>21 DEF R, a, s, l, u, L, U, D

-----------------------------------------------------------------------------
\* The rows that go, and what an owner passes on: its cost per unit of its row.
DeletedRows(p, owned) == {i \in OwnedRows(owned) : Deleted(p, i, Owner(owned, i))}
Weight(p, owned, i) ==
  IF i \in OwnedRows(owned) THEN p.c[Owner(owned, i)] * p.a[i][Owner(owned, i)] ELSE 0
MovedCost(p, owned, k) == Total([i \in 1..M |-> Weight(p, owned, i) * p.a[i][k]], M)
MovedDelta(p, owned) == Total([i \in 1..M |-> Weight(p, owned, i) * p.AU[i]], M)
\* The live part of a row.
Live(p, i) == [k \in Cols |-> IF k \in p.keepCol THEN p.a[i][k] ELSE 0]
EqRecord(p, owned, i) ==
  SubCol(Owner(owned, i), i, p.AU[i], Live(p, i), p.c[Owner(owned, i)],
         Deleted(p, i, Owner(owned, i)))
EqTape(p, owned) ==
  [h \in 1..Cardinality(OwnedRows(owned)) |->
     EqRecord(p, owned, Ascending(OwnedRows(owned))[h])]

\* A sum over rows, as the rules write it.
LEMMA RowSum ==
  ASSUME NEW t, AreInts(t, M), NEW w, \A n \in 1..(M + N) : w[n] = IF n \in Rows THEN t[n] ELSE 0
  PROVE  Total(w, M + N) = Total(t, M)
<1>1. M \in Nat /\ N \in Nat /\ M <= M + N /\ M + N \in Nat
  BY SmallLpAssumption
<1>2. \A k \in 1..M : w[k] = t[k]
  BY <1>1 DEF Rows
<1>3. \A k \in (M + 1)..(M + N) : w[k] = 0
  BY <1>1 DEF Rows
<1>4. AreInts(w, M)
  BY <1>2 DEF AreInts
<1>5. Total(w, M + N) = Total(w, M)
  BY <1>1, <1>3, <1>4, TotalTail
<1>6. Total(w, M) = Total(t, M)
  BY <1>1, <1>2, <1>4, TotalSame
<1> QED BY <1>5, <1>6

\* A sum over the columns that are solved for from one row.
LEMMA OwnerSum ==
  ASSUME NEW p, Data(p), NEW owned, Pairs(p, owned), NEW i \in Rows, NEW f \in Vectors, NEW w,
         \A n \in 1..(M + N) : w[n] = IF n \in Cols THEN IF <<i, n>> \in owned THEN f[n] ELSE 0 ELSE 0
  PROVE  Total(w, M + N) = IF i \in OwnedRows(owned) THEN f[Owner(owned, i)] ELSE 0
<1>1. M \in Nat /\ N \in Nat /\ M + N \in Nat /\ Cols \subseteq 1..(M + N)
  BY SmallLpAssumption DEF Cols
<1>2. \A j \in Cols : <<i, j>> \in owned <=> i \in OwnedRows(owned) /\ j = Owner(owned, i)
  BY Owners
<1>3. i \in OwnedRows(owned) => Owner(owned, i) \in Cols
  BY Owners
<1>4. CASE i \in OwnedRows(owned)
  <2> DEFINE j == Owner(owned, i)
  <2>1. j \in Cols /\ j \in 1..(M + N)
    BY <1>1, <1>3, <1>4
  <2>2. w[j] = f[j] /\ f[j] \in Int
    BY <1>2, <1>4, <2>1 DEF Vectors
  <2>3. \A n \in 1..(M + N) : n # j => w[n] = 0
    BY <1>2
  <2> HIDE DEF j
  <2>4. Total(w, M + N) = w[j]
    BY <1>1, <2>1, <2>2, <2>3, TotalOne
  <2> QED BY <1>4, <2>2, <2>4 DEF j
<1>5. CASE i \notin OwnedRows(owned)
  <2>1. \A n \in 1..(M + N) : w[n] = 0
    BY <1>2, <1>5
  <2> QED BY <1>1, <1>5, <2>1, TotalNone
<1> QED BY <1>4, <1>5

\* All sums over solved rows are of integers.
LEMMA Weights ==
  ASSUME NEW p, Data(p), NEW owned, Pairs(p, owned)
  PROVE  /\ \A i \in Rows : Weight(p, owned, i) \in Int
         /\ \A k \in Cols : /\ AreInts([i \in 1..M |-> Weight(p, owned, i) * p.a[i][k]], M)
                            /\ MovedCost(p, owned, k) \in Int
         /\ AreInts([i \in 1..M |-> Weight(p, owned, i) * p.AU[i]], M)
         /\ MovedDelta(p, owned) \in Int
<1>1. M \in Nat /\ Rows = 1..M
  BY SmallLpAssumption DEF Rows
<1>2. /\ \A i \in Rows, k \in Cols : p.a[i][k] \in Int
      /\ \A i \in Rows : p.AU[i] \in Int
      /\ \A k \in Cols : p.c[k] \in Int
  <2>1. \A i \in Rows, k \in Cols : p.a[i][k] \in -1..1
    BY DEF Data
  <2>2. \A i \in Rows : p.AU[i] \in Int
    BY DEF Data
  <2>3. \A k \in Cols : p.c[k] \in Int
    BY DEF Data, Vectors
  <2> QED BY <2>1, <2>2, <2>3
<1>3. ASSUME NEW i \in Rows PROVE Weight(p, owned, i) \in Int
  <2>1. i \in OwnedRows(owned) => Owner(owned, i) \in Cols
    BY Owners
  <2> QED BY <1>2, <2>1 DEF Weight
<1>4. \A k \in Cols : AreInts([i \in 1..M |-> Weight(p, owned, i) * p.a[i][k]], M)
  <2> SUFFICES ASSUME NEW k \in Cols, NEW i \in 1..M PROVE Weight(p, owned, i) * p.a[i][k] \in Int
    BY DEF AreInts
  <2>1. Weight(p, owned, i) \in Int /\ p.a[i][k] \in Int
    BY <1>1, <1>2, <1>3
  <2> QED BY <2>1
<1>5. AreInts([i \in 1..M |-> Weight(p, owned, i) * p.AU[i]], M)
  <2> SUFFICES ASSUME NEW i \in 1..M PROVE Weight(p, owned, i) * p.AU[i] \in Int
    BY DEF AreInts
  <2>1. Weight(p, owned, i) \in Int /\ p.AU[i] \in Int
    BY <1>1, <1>2, <1>3
  <2> QED BY <2>1
<1>6. MovedDelta(p, owned) \in Int /\ \A k \in Cols : MovedCost(p, owned, k) \in Int
  BY <1>1, <1>4, <1>5, TotalStep DEF MovedCost, MovedDelta
<1> QED BY <1>3, <1>4, <1>5, <1>6

\* What solving for columns makes of a plan.
LEMMA EqIs ==
  ASSUME NEW p, Data(p), NEW owned, Pairs(p, owned)
  PROVE  LET q == ColumnSingletonsEq(p, owned)
         IN /\ IsPlan(q) /\ q.a = p.a /\ q.l = p.l /\ q.u = p.u /\ q.verdict = p.verdict
            /\ q.keepCol = p.keepCol \ OwnedCols(owned)
            /\ q.keepRow = p.keepRow \ DeletedRows(p, owned)
            /\ q.AL = [i \in Rows |-> IF i \in OwnedRows(owned) \ DeletedRows(p, owned)
                                      THEN NewLower(p, i, Owner(owned, i)) ELSE p.AL[i]]
            /\ q.AU = [i \in Rows |-> IF i \in OwnedRows(owned) \ DeletedRows(p, owned)
                                      THEN NewUpper(p, i, Owner(owned, i)) ELSE p.AU[i]]
            /\ q.c = [k \in Cols |-> IF k \in p.keepCol \ OwnedCols(owned)
                                     THEN p.c[k] - MovedCost(p, owned, k) ELSE p.c[k]]
            /\ q.delta = p.delta + MovedDelta(p, owned)
            /\ q.tape = p.tape \o EqTape(p, owned)
<1> DEFINE rows == OwnedRows(owned)
           cols == OwnedCols(owned)
           oneSided == {i \in rows : ~Deleted(p, i, Owner(owned, i))}
           lower == {i \in oneSided : KeepsLower(p, i, Owner(owned, i))}
           shift(i) == Shifted(p, i, Owner(owned, i))
           delta == Total([n \in 1..(M + N) |-> IF n \in rows
                             THEN p.c[Owner(owned, n)] * p.AU[n] * p.a[n][Owner(owned, n)] ELSE 0], M + N)
           line(i, k) == Total([n \in 1..(M + N) |-> IF n \in Cols
                             THEN IF <<i, n>> \in owned THEN p.c[n] * p.a[i][k] * p.a[i][n] ELSE 0
                             ELSE 0], M + N)
           moved(k) == Total([n \in 1..(M + N) |-> IF n \in Rows THEN line(n, k) ELSE 0], M + N)
           tape == [h \in DOMAIN Ascending(rows) |->
                      SubCol(Owner(owned, Ascending(rows)[h]), Ascending(rows)[h],
                             p.AU[Ascending(rows)[h]],
                             [i \in Rows |-> [k \in Cols |-> IF k \in p.keepCol THEN p.a[i][k] ELSE 0]]
                               [Ascending(rows)[h]],
                             p.c[Owner(owned, Ascending(rows)[h])],
                             Deleted(p, Ascending(rows)[h], Owner(owned, Ascending(rows)[h])))]
           s == [p EXCEPT !.keepCol = @ \ cols,
                          !.keepRow = @ \ (rows \ oneSided),
                          !.AL = [i \in Rows |-> IF i \in lower THEN shift(i)
                                                 ELSE IF i \in oneSided THEN -Inf ELSE @[i]],
                          !.AU = [i \in Rows |-> IF i \in lower THEN Inf
                                                 ELSE IF i \in oneSided THEN shift(i) ELSE @[i]],
                          !.delta = @ + delta,
                          !.tape = @ \o tape]
           q == ColumnSingletonsEq(p, owned)
<1>1. s = Solved(p, owned)
  BY DEF Solved, Sum, OwnedRows, OwnedCols, Owner
<1>2. q = [s EXCEPT !.c = [k \in Cols |-> IF k \in p.keepCol \ cols THEN @[k] - moved(k) ELSE @[k]]]
  BY <1>1 DEF ColumnSingletonsEq, Sum, OwnedCols
<1>3. /\ IsPlan(p) /\ rows \subseteq Rows /\ cols \subseteq Cols /\ rows \subseteq p.keepRow
      /\ p.keepCol \subseteq Cols /\ p.keepRow \subseteq Rows
      /\ p.c \in Vectors /\ p.delta \in Int /\ M \in Nat /\ Rows = 1..M
  BY Owners, SmallLpAssumption DEF Data, IsPlan, Rows
<1>4. ASSUME NEW i \in Rows
      PROVE  /\ p.a[i] \in Vectors /\ p.AU[i] \in Int
             /\ \A k \in Cols : p.a[i][k] \in {-1, 0, 1} /\ p.c[k] \in Int
             /\ i \in rows => Owner(owned, i) \in Cols
  <2>1. p.a[i] \in [Cols -> -1..1]
    BY DEF Data
  <2>2. p.a[i] \in Vectors /\ \A k \in Cols : p.a[i][k] \in {-1, 0, 1}
    BY <2>1 DEF Vectors
  <2>3. p.AU[i] \in Int
    BY DEF Data
  <2>4. \A k \in Cols : p.c[k] \in Int
    BY DEF Data, Vectors
  <2> QED BY <2>2, <2>3, <2>4, Owners
<1>5. \A k \in Cols : moved(k) = MovedCost(p, owned, k)
  <2> SUFFICES ASSUME NEW k \in Cols PROVE moved(k) = MovedCost(p, owned, k)
    OBVIOUS
  <2>1. ASSUME NEW i \in Rows PROVE line(i, k) = Weight(p, owned, i) * p.a[i][k]
    <3> DEFINE f == [n \in Cols |-> p.c[n] * p.a[i][k] * p.a[i][n]]
               w == [n \in 1..(M + N) |-> IF n \in Cols
                       THEN IF <<i, n>> \in owned THEN p.c[n] * p.a[i][k] * p.a[i][n] ELSE 0
                       ELSE 0]
    <3>1. \A n \in Cols : f[n] = p.c[n] * p.a[i][k] * p.a[i][n] /\ f[n] \in Int
      <4> SUFFICES ASSUME NEW n \in Cols PROVE p.c[n] * p.a[i][k] * p.a[i][n] \in Int
        OBVIOUS
      <4>1. p.c[n] \in Int /\ p.a[i][k] \in {-1, 0, 1} /\ p.a[i][n] \in {-1, 0, 1}
        BY <1>4
      <4> QED BY <4>1
    <3>2. f \in Vectors
      BY <3>1 DEF Vectors
    <3>3. \A n \in 1..(M + N) : w[n] = IF n \in Cols THEN IF <<i, n>> \in owned THEN f[n] ELSE 0 ELSE 0
      OBVIOUS
    <3> HIDE DEF f, w
    <3>4. Total(w, M + N) = IF i \in rows THEN f[Owner(owned, i)] ELSE 0
      BY <3>2, <3>3, OwnerSum
    <3>5. line(i, k) = Total(w, M + N)
      BY DEF w
    <3> HIDE DEF rows, line
    <3>6. CASE i \in rows
      <4> DEFINE j == Owner(owned, i)
      <4>1. line(i, k) = p.c[j] * p.a[i][k] * p.a[i][j] /\ Weight(p, owned, i) = p.c[j] * p.a[i][j]
        BY <1>4, <3>1, <3>4, <3>5, <3>6 DEF Weight, rows
      <4>2. p.c[j] \in Int /\ p.a[i][k] \in {-1, 0, 1} /\ p.a[i][j] \in {-1, 0, 1}
        BY <1>4, <3>6
      <4> HIDE DEF j
      <4> QED BY <4>1, <4>2
    <3>7. CASE i \notin rows
      <4>1. line(i, k) = 0 /\ Weight(p, owned, i) = 0 /\ p.a[i][k] \in Int
        BY <1>4, <3>4, <3>5, <3>7 DEF Weight, rows
      <4> QED BY <4>1
    <3> QED BY <3>6, <3>7
  <2> DEFINE t == [i \in 1..M |-> Weight(p, owned, i) * p.a[i][k]]
             w == [n \in 1..(M + N) |-> IF n \in Rows THEN line(n, k) ELSE 0]
  <2>2. AreInts(t, M)
    BY Weights
  <2>3. \A n \in 1..(M + N) : w[n] = IF n \in Rows THEN t[n] ELSE 0
    <3> HIDE DEF line
    <3> QED BY <1>3, <2>1
  <2> HIDE DEF t, w, line
  <2>4. Total(w, M + N) = Total(t, M)
    BY <2>2, <2>3, RowSum
  <2> QED BY <2>4 DEF t, w, MovedCost
<1>6. delta = MovedDelta(p, owned)
  <2> DEFINE t == [i \in 1..M |-> Weight(p, owned, i) * p.AU[i]]
             w == [n \in 1..(M + N) |-> IF n \in rows
                     THEN p.c[Owner(owned, n)] * p.AU[n] * p.a[n][Owner(owned, n)] ELSE 0]
  <2>1. AreInts(t, M)
    BY Weights
  <2>2. ASSUME NEW n \in 1..(M + N) PROVE w[n] = IF n \in Rows THEN t[n] ELSE 0
    <3> HIDE DEF rows
    <3>1. CASE n \in rows
      <4> DEFINE j == Owner(owned, n)
      <4>1. n \in Rows /\ j \in Cols
        BY <1>3, <1>4, <3>1
      <4>2. p.c[j] \in Int /\ p.AU[n] \in Int /\ p.a[n][j] \in {-1, 0, 1}
        BY <1>4, <4>1
      <4>3. w[n] = p.c[j] * p.AU[n] * p.a[n][j] /\ t[n] = p.c[j] * p.a[n][j] * p.AU[n]
        BY <1>3, <3>1, <4>1 DEF Weight, rows
      <4> HIDE DEF j, t, w
      <4> QED BY <4>1, <4>2, <4>3
    <3>2. CASE n \notin rows
      <4>1. w[n] = 0
        BY <3>2
      <4>2. n \in Rows => t[n] = 0 * p.AU[n] /\ p.AU[n] \in Int
        BY <1>3, <1>4, <3>2 DEF Weight, rows
      <4> HIDE DEF t, w
      <4> QED BY <4>1, <4>2
    <3> QED BY <3>1, <3>2
  <2> HIDE DEF t, w
  <2>3. Total(w, M + N) = Total(t, M)
    BY <2>1, <2>2, RowSum
  <2> QED BY <2>3 DEF t, w, MovedDelta
<1>7. tape = EqTape(p, owned)
  <2> DEFINE A == Ascending(rows)
             n == Cardinality(rows)
  <2>1. rows \in SUBSET (1..M)
    BY <1>3
  <2>2. n \in Nat /\ A \in [1..n -> rows]
    <3> HIDE DEF rows
    <3> QED BY <1>3, <2>1, AscendingIs
  <2>3. DOMAIN A = 1..n /\ \A h \in 1..n : A[h] \in Rows
    BY <1>3, <2>2
  <2> DEFINE F(h, v) == SubCol(Owner(owned, A[h]), A[h], p.AU[A[h]], v, p.c[Owner(owned, A[h])],
                               Deleted(p, A[h], Owner(owned, A[h])))
             lives == [i \in Rows |-> [k \in Cols |-> IF k \in p.keepCol THEN p.a[i][k] ELSE 0]]
  <2>4. tape = [h \in DOMAIN A |-> F(h, lives[A[h]])]
    OBVIOUS
  <2>5. EqTape(p, owned) = [h \in 1..n |-> F(h, Live(p, A[h]))]
    BY DEF EqTape, EqRecord
  <2>6. \A i \in Rows : lives[i] = Live(p, i)
    BY DEF Live
  <2> HIDE DEF F, lives, A, n, tape
  <2> QED BY <2>3, <2>4, <2>5, <2>6
<1>8. /\ DOMAIN s = PlanFields /\ s.a = p.a /\ s.c = p.c /\ s.l = p.l /\ s.u = p.u
      /\ s.verdict = p.verdict
      /\ s.keepCol = p.keepCol \ cols /\ s.keepRow = p.keepRow \ (rows \ oneSided)
      /\ s.AL = [i \in Rows |-> IF i \in lower THEN shift(i) ELSE IF i \in oneSided THEN -Inf ELSE p.AL[i]]
      /\ s.AU = [i \in Rows |-> IF i \in lower THEN Inf ELSE IF i \in oneSided THEN shift(i) ELSE p.AU[i]]
      /\ s.delta = p.delta + delta
      /\ s.tape = p.tape \o tape
  <2> HIDE DEF cols, rows, oneSided, lower, shift, delta, tape
  <2> QED BY <1>3 DEF IsPlan, PlanFields
<1>9. rows \ oneSided = DeletedRows(p, owned)
  BY DEF DeletedRows
<1>10. /\ s.AL = [i \in Rows |-> IF i \in rows \ DeletedRows(p, owned)
                                  THEN NewLower(p, i, Owner(owned, i)) ELSE p.AL[i]]
       /\ s.AU = [i \in Rows |-> IF i \in rows \ DeletedRows(p, owned)
                                  THEN NewUpper(p, i, Owner(owned, i)) ELSE p.AU[i]]
  <2>1. \A i : i \in oneSided <=> i \in rows \ DeletedRows(p, owned)
    BY DEF DeletedRows
  <2>2. \A i : i \in lower <=> i \in oneSided /\ KeepsLower(p, i, Owner(owned, i))
    OBVIOUS
  <2> HIDE DEF s, rows, oneSided, lower
  <2> QED BY <1>8, <2>1, <2>2 DEF NewLower, NewUpper
<1> HIDE DEF s, delta, tape, line, moved, lower, oneSided, shift
<1>11. /\ DOMAIN q = PlanFields /\ q.a = s.a /\ q.l = s.l /\ q.u = s.u /\ q.verdict = s.verdict
       /\ q.keepCol = s.keepCol /\ q.keepRow = s.keepRow /\ q.AL = s.AL /\ q.AU = s.AU
       /\ q.delta = s.delta /\ q.tape = s.tape
       /\ q.c = [k \in Cols |-> IF k \in p.keepCol \ cols THEN s.c[k] - moved(k) ELSE s.c[k]]
  <2> HIDE DEF q, cols
  <2> QED BY <1>2, <1>8 DEF PlanFields
<1>12. q.c = [k \in Cols |-> IF k \in p.keepCol \ cols THEN p.c[k] - MovedCost(p, owned, k) ELSE p.c[k]]
  <2> HIDE DEF q, cols
  <2> QED BY <1>5, <1>8, <1>11
<1>13. IsPlan(q)
  <2> HIDE DEF q
  <2> QED BY <1>3, <1>8, <1>11 DEF IsPlan
<1> HIDE DEF q
<1>14. /\ IsPlan(q) /\ q.a = p.a /\ q.l = p.l /\ q.u = p.u /\ q.verdict = p.verdict
       /\ q.keepCol = p.keepCol \ cols
       /\ q.keepRow = p.keepRow \ DeletedRows(p, owned)
       /\ q.AL = [i \in Rows |-> IF i \in rows \ DeletedRows(p, owned)
                                  THEN NewLower(p, i, Owner(owned, i)) ELSE p.AL[i]]
       /\ q.AU = [i \in Rows |-> IF i \in rows \ DeletedRows(p, owned)
                                  THEN NewUpper(p, i, Owner(owned, i)) ELSE p.AU[i]]
       /\ q.c = [k \in Cols |-> IF k \in p.keepCol \ cols THEN p.c[k] - MovedCost(p, owned, k) ELSE p.c[k]]
       /\ q.delta = p.delta + MovedDelta(p, owned)
       /\ q.tape = p.tape \o EqTape(p, owned)
  BY <1>6, <1>7, <1>8, <1>9, <1>10, <1>11, <1>12, <1>13
<1> QED BY <1>14 DEF q

\* The value that a row gives the column it is solved for, from the columns
\* that are left.
Solution(p, owned, i, x) ==
  p.a[i][Owner(owned, i)] * (p.AU[i] - Activity(p.a[i], x, p.keepCol \ OwnedCols(owned)))

\* A record solves its row: of the other columns in it none is solved for.
LEMMA EqRecordIs ==
  ASSUME NEW p, Data(p), NEW owned, Pairs(p, owned), NEW i \in OwnedRows(owned),
         NEW x \in Vectors, IsPoint(x),
         NEW y \in Vectors, \A k \in Cols \ OwnedCols(owned) : y[k] = x[k]
  PROVE  /\ EqRecord(p, owned, i) \in Records /\ IsPrimal(EqRecord(p, owned, i))
         /\ EqRecord(p, owned, i).col = Owner(owned, i) /\ EqRecord(p, owned, i).type = "SubCol"
         /\ Replayed(EqRecord(p, owned, i), y) = Solution(p, owned, i, x)
<1> DEFINE j == Owner(owned, i)
           d == [side |-> p.AU[i], coef |-> Live(p, i)]
           r == EqRecord(p, owned, i)
           left == p.keepCol \ OwnedCols(owned)
<1>1. /\ i \in Rows /\ j \in Cols /\ j \in p.keepCol /\ j \in OwnedCols(owned) /\ i \in p.keepRow
      /\ IsFinite(p.AU[i]) /\ p.AU[i] \in Int /\ p.c[j] \in Int
  BY Owners DEF Data, Vectors
<1>2. p.a[i] \in Vectors /\ Live(p, i) \in Vectors
  <2>1. p.a[i] \in [Cols -> -1..1]
    BY <1>1 DEF Data
  <2> QED BY <2>1 DEF Vectors, Live
<1>3. Deleted(p, i, j) \in BOOLEAN
  BY DEF Deleted, FreeAbove, FreeBelow
<1>4. r = SubCol(j, i, p.AU[i], Live(p, i), p.c[j], Deleted(p, i, j))
  BY DEF EqRecord
<1>5. d \in Sides
  BY <1>1, <1>2 DEF Sides
<1> HIDE DEF j
<1>6. /\ r.col = j /\ r.type = "SubCol" /\ r.rows = <<d>> /\ r \in Records
  <2> DEFINE D == Deleted(p, i, j)
  <2> HIDE DEF D, r
  <2>1. r = [type |-> "SubCol", col |-> j, rows |-> <<d>>, row |-> i, cost |-> p.c[j], deleted |-> D]
    BY <1>4 DEF SubCol, D
  <2>2. D \in BOOLEAN
    BY <1>3 DEF D
  <2> HIDE DEF d
  <2>3. r \in [type : {"SubCol"}, col : Cols, rows : {<<e>> : e \in Sides}, row : Rows, cost : Int,
               deleted : BOOLEAN]
    BY <1>1, <1>5, <2>1, <2>2
  <2> QED BY <2>1, <2>3 DEF Records
<1>7. ASSUME NEW k \in Cols \ {j}, Live(p, i)[k] # 0 PROVE k \in left
  <2>1. k \in p.keepCol /\ p.a[i][k] # 0
    BY <1>7 DEF Live
  <2>2. ASSUME k \in OwnedCols(owned) PROVE FALSE
    <3>1. PICK h \in OwnedRows(owned) : k = Owner(owned, h)
      BY <2>2, Owners
    <3>2. h # i
      BY <3>1 DEF j
    <3>3. p.a[i][Owner(owned, h)] = 0
      BY <1>1, <3>2, Owners
    <3> QED BY <2>1, <3>1, <3>3
  <2> QED BY <2>1, <2>2
<1>8. \A k \in Cols \ {j} : d.coef[k] # 0 => IsFinite(y[k])
  BY <1>7 DEF IsPoint
<1>9. Activity(Live(p, i), y, Cols \ {j}) = Activity(p.a[i], x, left)
  <2>1. ASSUME NEW k \in Cols PROVE Terms(Live(p, i), y, Cols \ {j})[k] = Terms(p.a[i], x, left)[k]
    <3>1. /\ Terms(Live(p, i), y, Cols \ {j})[k] = IF k # j THEN Live(p, i)[k] * y[k] ELSE 0
          /\ Terms(p.a[i], x, left)[k] = IF k \in left THEN p.a[i][k] * x[k] ELSE 0
      BY <1>2, ActivityIs
    <3>2. y[k] \in Int /\ x[k] \in Int /\ p.a[i][k] \in Int /\ j \notin left
      BY <1>1, <1>2 DEF Vectors
    <3>3. CASE k \in left
      <4>1. y[k] = x[k] /\ Live(p, i)[k] = p.a[i][k] /\ k # j
        BY <3>2, <3>3 DEF Live
      <4> QED BY <3>1, <3>3, <4>1
    <3>4. CASE k \notin left
      <4>1. k # j => Live(p, i)[k] = 0
        BY <1>7, <3>4
      <4> QED BY <3>1, <3>2, <3>4, <4>1
    <3> QED BY <3>3, <3>4
  <2> DEFINE coef == Live(p, i)
             others == Cols \ {j}
  <2>2. coef \in Vectors /\ p.a[i] \in Vectors
        /\ \A k \in Cols : Terms(coef, y, others)[k] = Terms(p.a[i], x, left)[k]
    BY <1>2, <2>1
  <2> HIDE DEF left, coef, others
  <2>3. Activity(coef, y, others) = Activity(p.a[i], x, left)
    BY <2>2, ActivityAgree
  <2> QED BY <2>3 DEF coef, others
<1>10. Tight(d, j, y) = Solution(p, owned, i, x)
  <2>1. d.side = p.AU[i] /\ d.coef = Live(p, i) /\ Live(p, i)[j] = p.a[i][j]
    BY <1>1 DEF Live
  <2> HIDE DEF d
  <2>2. IsFinite(d.side)
    BY <1>1, <2>1
  <2>3. Tight(d, j, y) = d.coef[j] * (d.side - Activity(d.coef, y, Cols \ {j}))
    BY <1>1, <1>8, <2>2, TightSolves
  <2> QED BY <1>9, <2>1, <2>3 DEF Solution, j
<1> HIDE DEF r, d
<1>11. Replayed(r, y) = Tight(d, j, y)
  BY <1>6 DEF Replayed
<1>12. IsPrimal(r)
  BY <1>6 DEF IsPrimal, PrimalTypes
<1> QED BY <1>6, <1>10, <1>11, <1>12 DEF r, j

\* Replaying the records of the rule puts every solved column at its solution.
LEMMA EqTapeIs ==
  ASSUME NEW p, Data(p), NEW owned, Pairs(p, owned)
  PROVE  /\ EqTape(p, owned) \in Seq(Records)
         /\ Recovers(EqTape(p, owned)) = OwnedCols(owned)
         /\ \A x \in Vectors : IsPoint(x) =>
              \A i \in OwnedRows(owned) :
                Replay(EqTape(p, owned), x)[Owner(owned, i)] = Solution(p, owned, i, x)
<1> DEFINE rows == OwnedRows(owned)
           cols == OwnedCols(owned)
           A == Ascending(rows)
           n == Cardinality(rows)
           w == EqTape(p, owned)
           F(i) == EqRecord(p, owned, i)
<1>1. /\ rows \in SUBSET (1..M) /\ M \in Nat /\ cols \subseteq Cols
      /\ \A i \in rows : Owner(owned, i) \in cols
      /\ \A j \in cols : \E i \in rows : j = Owner(owned, i)
  BY Owners, SmallLpAssumption DEF Rows
<1>2. \A i, h \in rows : Owner(owned, i) = Owner(owned, h) => i = h
  <2>1. \A i \in rows : ColRows(p, Owner(owned, i)) = {i}
    BY Owners
  <2> QED BY <2>1
<1>3. /\ n \in Nat /\ A \in [1..n -> rows]
      /\ \A i \in rows : \E h \in 1..n : A[h] = i
      /\ \A h, k \in 1..n : A[h] = A[k] => h = k
  <2> HIDE DEF rows
  <2> QED BY <1>1, AscendingIs
<1>4. w = [h \in 1..n |-> F(A[h])]
  BY DEF EqTape
<1>5. \A x, y \in Vectors : IsPoint(x) /\ (\A k \in Cols \ cols : y[k] = x[k]) =>
        \A i \in rows : /\ F(i) \in Records /\ IsPrimal(F(i)) /\ F(i).col = Owner(owned, i)
                        /\ Replayed(F(i), y) = Solution(p, owned, i, x)
  BY EqRecordIs
<1>6. \A i \in rows : F(i) \in Records /\ IsPrimal(F(i)) /\ F(i).col = Owner(owned, i)
  <2> DEFINE z == [k \in Cols |-> 0]
  <2>1. z \in Vectors /\ \A k \in Cols : z[k] = 0
    BY DEF Vectors
  <2>2. 0 # Inf /\ 0 # -Inf
    BY DEF Inf
  <2> HIDE DEF z
  <2>3. IsPoint(z)
    BY <2>1, <2>2 DEF IsPoint, IsFinite
  <2> QED BY <1>5, <2>1, <2>3
<1> HIDE DEF rows, cols, A, n, w, F
<1>7. /\ w \in Seq(Records) /\ Len(w) = n
      /\ \A h \in 1..n : IsPrimal(w[h]) /\ w[h].col = Owner(owned, A[h]) /\ A[h] \in rows /\ w[h] = F(A[h])
  <2>1. w \in [1..n -> Records]
    BY <1>3, <1>4, <1>6
  <2>2. w \in Seq(Records) /\ Len(w) = n
    BY <1>3, <2>1
  <2> QED BY <1>3, <1>4, <1>6, <2>2
<1>8. Recovers(w) = cols
  <2>1. ASSUME NEW j \in Recovers(w) PROVE j \in cols
    <3>1. PICK h \in 1..Len(w) : w[h].col = j
      BY DEF Recovers
    <3> QED BY <1>1, <1>7, <3>1
  <2>2. ASSUME NEW j \in cols PROVE j \in Recovers(w)
    <3>1. PICK i \in rows : j = Owner(owned, i)
      BY <1>1
    <3>2. PICK h \in 1..n : A[h] = i
      BY <1>3
    <3>3. IsPrimal(w[h]) /\ w[h].col = j /\ h \in 1..Len(w) /\ j \in Cols
      BY <1>1, <1>7, <3>1, <3>2
    <3> QED BY <3>3 DEF Recovers
  <2> QED BY <2>1, <2>2
<1>9. ASSUME NEW x \in Vectors, IsPoint(x), NEW i \in rows
      PROVE  Replay(w, x)[Owner(owned, i)] = Solution(p, owned, i, x)
  <2>1. PICK e \in 1..n : A[e] = i
    BY <1>3
  <2>2. w \in Seq(Records) /\ e \in 1..Len(w) /\ IsPrimal(w[e]) /\ w[e].col = Owner(owned, i) /\ w[e] = F(i)
    BY <1>7, <2>1
  <2>3. \A h \in 1..Len(w) : h # e /\ IsPrimal(w[h]) => w[h].col # w[e].col
    <3> SUFFICES ASSUME NEW h \in 1..n, h # e PROVE w[h].col # Owner(owned, i)
      BY <1>7, <2>2
    <3>1. A[h] \in rows /\ A[h] # i
      BY <1>3, <2>1
    <3> QED BY <1>2, <1>7, <3>1
  <2>4. \A y \in Vectors : (\A k \in Cols \ Recovers(w) : y[k] = x[k])
          => Replayed(w[e], y) = Solution(p, owned, i, x)
    BY <1>5, <1>8, <1>9, <2>2
  <2>5. Replayed(w[e], x) = Solution(p, owned, i, x)
    BY <2>4
  <2>6. Replay(w, x)[w[e].col] = Replayed(w[e], x)
    BY <2>2, <2>3, <2>4, <2>5, RewoundValue
  <2> QED BY <2>2, <2>5, <2>6
<1> QED BY <1>7, <1>8, <1>9 DEF w, rows, cols

-----------------------------------------------------------------------------
\* The cost of the owners, row by row.
LEMMA OwnersCost ==
  ASSUME NEW p, Data(p), NEW owned, Pairs(p, owned), NEW y \in Vectors, NEW t,
         \A i \in 1..M : t[i] = IF i \in OwnedRows(owned)
                                THEN p.c[Owner(owned, i)] * y[Owner(owned, i)] ELSE 0
  PROVE  AreInts(t, M) /\ Activity(p.c, y, OwnedCols(owned)) = Total(t, M)
<1> DEFINE rows == OwnedRows(owned)
           cols == OwnedCols(owned)
           g == [k \in Cols |-> p.c[k] * y[k]]
           f == [i \in 1..M |-> [k \in 1..N |-> IF <<i, k>> \in owned THEN g[k] ELSE 0]]
           across == [i \in 1..M |-> Total(f[i], N)]
           downOf(k) == [i \in 1..M |-> f[i][k]]
           down == [k \in 1..N |-> Total(downOf(k), M)]
<1>1. /\ M \in Nat /\ N \in Nat /\ Rows = 1..M /\ Cols = 1..N /\ p.c \in Vectors
      /\ rows \subseteq 1..M /\ cols \subseteq Cols
      /\ \A i \in 1..M, k \in 1..N : <<i, k>> \in owned <=> i \in rows /\ k = Owner(owned, i)
      /\ \A i \in rows : Owner(owned, i) \in cols
      /\ \A k \in cols : \E i \in rows : k = Owner(owned, i)
  BY Owners, SmallLpAssumption DEF Rows, Cols, Data
<1>2. \A i, h \in rows : Owner(owned, i) = Owner(owned, h) => i = h
  <2>1. \A i \in rows : ColRows(p, Owner(owned, i)) = {i}
    BY Owners
  <2> QED BY <2>1
<1>3. \A k \in Cols : g[k] \in Int /\ g[k] = p.c[k] * y[k]
  <2> SUFFICES ASSUME NEW k \in Cols PROVE p.c[k] * y[k] \in Int
    OBVIOUS
  <2>1. p.c[k] \in Int /\ y[k] \in Int
    BY <1>1 DEF Vectors
  <2> QED BY <2>1
<1> HIDE DEF g, rows, cols
<1>4. \A i \in 1..M, k \in 1..N : f[i][k] = IF i \in rows /\ k = Owner(owned, i) THEN g[k] ELSE 0
  BY <1>1
<1> HIDE DEF f
<1>5. \A i \in 1..M : AreInts(f[i], N)
  BY <1>1, <1>3, <1>4 DEF AreInts
<1>6. Total(across, M) = Total(down, N)
  BY <1>1, <1>5, TotalSwap
<1>7. ASSUME NEW i \in 1..M PROVE across[i] = t[i] /\ t[i] \in Int
  <2>1. CASE i \in rows
    <3> DEFINE j == Owner(owned, i)
    <3>1. j \in 1..N /\ j \in Cols
      BY <1>1, <2>1
    <3>2. f[i][j] = g[j] /\ f[i][j] \in Int /\ \A k \in 1..N : k # j => f[i][k] = 0
      BY <1>3, <1>4, <2>1, <3>1
    <3> HIDE DEF j
    <3>3. Total(f[i], N) = f[i][j]
      BY <1>1, <3>1, <3>2, TotalOne
    <3>4. t[i] = g[j]
      BY <1>3, <2>1, <3>1 DEF j, rows
    <3> QED BY <3>2, <3>3, <3>4
  <2>2. CASE i \notin rows
    <3>1. \A k \in 1..N : f[i][k] = 0
      BY <1>4, <2>2
    <3>2. Total(f[i], N) = 0
      BY <1>1, <3>1, TotalNone
    <3>3. t[i] = 0
      BY <2>2 DEF rows
    <3> QED BY <3>2, <3>3
  <2> QED BY <2>1, <2>2
<1>8. ASSUME NEW k \in 1..N PROVE down[k] = Terms(p.c, y, cols)[k] /\ down[k] \in Int
  <2>1. Terms(p.c, y, cols)[k] = IF k \in cols THEN g[k] ELSE 0
    BY <1>1, <1>3, ActivityIs
  <2>2. \A i \in 1..M : downOf(k)[i] = f[i][k]
    OBVIOUS
  <2>3. CASE k \in cols
    <3>1. PICK i \in rows : k = Owner(owned, i)
      BY <1>1, <2>3
    <3>2. i \in 1..M /\ downOf(k)[i] = g[k] /\ g[k] \in Int
      BY <1>1, <1>3, <1>4, <2>2, <3>1
    <3>3. \A h \in 1..M : h # i => downOf(k)[h] = 0
      BY <1>2, <1>4, <2>2, <3>1
    <3> DEFINE v == downOf(k)
    <3>4. i \in 1..M /\ v[i] = g[k] /\ v[i] \in Int /\ \A h \in 1..M : h # i => v[h] = 0
      BY <3>2, <3>3
    <3> HIDE DEF v
    <3>5. Total(v, M) = g[k]
      BY <1>1, <3>4, TotalOne
    <3> QED BY <2>1, <2>3, <3>2, <3>5 DEF v
  <2>4. CASE k \notin cols
    <3> DEFINE v == downOf(k)
    <3>1. \A h \in 1..M : v[h] = 0
      BY <1>1, <1>4, <2>2, <2>4
    <3> HIDE DEF v
    <3>2. Total(v, M) = 0
      BY <1>1, <3>1, TotalNone
    <3> QED BY <2>1, <2>4, <3>2 DEF v
  <2> QED BY <2>3, <2>4
<1> HIDE DEF across, down
<1>9. AreInts(t, M)
  BY <1>7 DEF AreInts
<1>10. AreInts(across, M) /\ AreInts(down, N)
  BY <1>7, <1>8 DEF AreInts
<1>11. Total(across, M) = Total(t, M)
  BY <1>1, <1>7, <1>10, TotalSame
<1>12. Total(down, N) = Total(Terms(p.c, y, cols), N)
  BY <1>1, <1>8, <1>10, TotalSame
<1>13. Activity(p.c, y, cols) = Total(Terms(p.c, y, cols), N)
  BY <1>1, ActivityIs
<1> QED BY <1>6, <1>9, <1>11, <1>12, <1>13 DEF cols

\* What the owners pass on, row by row.
LEMMA MovedCosts ==
  ASSUME NEW p, Data(p), NEW owned, Pairs(p, owned), NEW y \in Vectors, NEW S, S \subseteq Cols,
         NEW moved \in Vectors, \A k \in S : moved[k] = MovedCost(p, owned, k)
  PROVE  LET t == [i \in 1..M |-> Weight(p, owned, i) * Activity(p.a[i], y, S)]
         IN AreInts(t, M) /\ Activity(moved, y, S) = Total(t, M)
<1> DEFINE t == [i \in 1..M |-> Weight(p, owned, i) * Activity(p.a[i], y, S)]
           W(i) == Weight(p, owned, i)
           f == [i \in 1..M |-> [k \in 1..N |-> W(i) * Terms(p.a[i], y, S)[k]]]
           across == [i \in 1..M |-> Total(f[i], N)]
           downOf(k) == [i \in 1..M |-> f[i][k]]
           down == [k \in 1..N |-> Total(downOf(k), M)]
<1>1. /\ M \in Nat /\ N \in Nat /\ Rows = 1..M /\ Cols = 1..N
  BY SmallLpAssumption DEF Rows, Cols
<1>2. ASSUME NEW i \in 1..M
      PROVE  /\ p.a[i] \in Vectors /\ W(i) \in Int
             /\ AreInts(Terms(p.a[i], y, S), N)
             /\ Activity(p.a[i], y, S) = Total(Terms(p.a[i], y, S), N) /\ Activity(p.a[i], y, S) \in Int
             /\ \A k \in 1..N : /\ Terms(p.a[i], y, S)[k] = IF k \in S THEN p.a[i][k] * y[k] ELSE 0
                                /\ Terms(p.a[i], y, S)[k] \in Int /\ p.a[i][k] \in Int /\ y[k] \in Int
  <2>1. p.a[i] \in [Cols -> -1..1]
    BY <1>1 DEF Data
  <2>2. p.a[i] \in Vectors
    BY <2>1 DEF Vectors
  <2>3. W(i) \in Int
    BY <1>1, Weights
  <2>4. \A k \in 1..N : p.a[i][k] \in Int /\ y[k] \in Int
    BY <1>1, <2>2 DEF Vectors
  <2>5. /\ AreInts(Terms(p.a[i], y, S), N) /\ Activity(p.a[i], y, S) \in Int
        /\ Activity(p.a[i], y, S) = Total(Terms(p.a[i], y, S), N)
        /\ \A k \in 1..N : Terms(p.a[i], y, S)[k] = IF k \in S THEN p.a[i][k] * y[k] ELSE 0
    BY <1>1, <2>2, ActivityIs
  <2> QED BY <2>2, <2>3, <2>4, <2>5 DEF AreInts
<1> HIDE DEF W
<1>3. \A i \in 1..M, k \in 1..N : f[i][k] = W(i) * Terms(p.a[i], y, S)[k] /\ f[i][k] \in Int
  <2> SUFFICES ASSUME NEW i \in 1..M, NEW k \in 1..N PROVE W(i) * Terms(p.a[i], y, S)[k] \in Int
    OBVIOUS
  <2>1. W(i) \in Int /\ Terms(p.a[i], y, S)[k] \in Int
    BY <1>2
  <2> QED BY <2>1
<1> HIDE DEF f
<1>4. \A i \in 1..M : AreInts(f[i], N)
  BY <1>3 DEF AreInts
<1>5. Total(across, M) = Total(down, N)
  BY <1>1, <1>4, TotalSwap
<1>6. ASSUME NEW i \in 1..M PROVE across[i] = t[i] /\ t[i] \in Int
  <2>1. Total(f[i], N) = W(i) * Total(Terms(p.a[i], y, S), N)
    <3> DEFINE b == W(i)
               r == f[i]
               s == Terms(p.a[i], y, S)
    <3>1. b \in Int /\ AreInts(s, N) /\ \A k \in 1..N : r[k] = b * s[k]
      BY <1>2, <1>3
    <3> HIDE DEF b, r, s
    <3>2. Total(r, N) = b * Total(s, N)
      BY <1>1, <3>1, TotalScale
    <3> QED BY <3>2 DEF b, r, s
  <2>2. t[i] = W(i) * Activity(p.a[i], y, S)
    BY DEF W
  <2>3. W(i) \in Int /\ Activity(p.a[i], y, S) \in Int
    BY <1>2
  <2> QED BY <1>2, <2>1, <2>2, <2>3
<1>7. ASSUME NEW k \in 1..N PROVE down[k] = Terms(moved, y, S)[k] /\ down[k] \in Int
  <2> DEFINE v == downOf(k)
             w == [i \in 1..M |-> W(i) * p.a[i][k]]
  <2>1. Terms(moved, y, S)[k] = IF k \in S THEN moved[k] * y[k] ELSE 0
    BY <1>1, ActivityIs
  <2>2. \A i \in 1..M : v[i] = W(i) * Terms(p.a[i], y, S)[k]
    BY <1>3
  <2>3. down[k] = Total(v, M)
    OBVIOUS
  <2>4. y[k] \in Int /\ moved[k] \in Int
    BY <1>1 DEF Vectors
  <2>5. CASE k \in S
    <3>1. AreInts(w, M) /\ Total(w, M) = moved[k]
      BY <1>1, <2>5, Weights DEF W, MovedCost
    <3>2. \A i \in 1..M : v[i] = y[k] * w[i]
      <4> SUFFICES ASSUME NEW i \in 1..M PROVE W(i) * Terms(p.a[i], y, S)[k] = y[k] * (W(i) * p.a[i][k])
        BY <2>2
      <4>1. Terms(p.a[i], y, S)[k] = p.a[i][k] * y[k] /\ W(i) \in Int /\ p.a[i][k] \in Int
        BY <1>2, <2>5
      <4> DEFINE b == W(i)
                 c == p.a[i][k]
                 z == y[k]
      <4>2. b \in Int /\ c \in Int /\ z \in Int
        BY <2>4, <4>1
      <4> HIDE DEF b, c, z
      <4>3. b * (c * z) = z * (b * c)
        BY <4>2
      <4> QED BY <4>1, <4>3 DEF b, c, z
    <3> HIDE DEF v, w
    <3>3. Total(v, M) = y[k] * Total(w, M)
      <4> DEFINE z == y[k]
      <4>1. z \in Int /\ \A i \in 1..M : v[i] = z * w[i]
        BY <2>4, <3>2
      <4> HIDE DEF z
      <4>2. Total(v, M) = z * Total(w, M)
        BY <1>1, <3>1, <4>1, TotalScale
      <4> QED BY <4>2 DEF z
    <3>4. y[k] * moved[k] = moved[k] * y[k] /\ y[k] * moved[k] \in Int
      BY <2>4
    <3> QED BY <2>1, <2>3, <2>5, <3>1, <3>3, <3>4
  <2>6. CASE k \notin S
    <3>1. \A i \in 1..M : v[i] = 0
      <4> SUFFICES ASSUME NEW i \in 1..M PROVE W(i) * Terms(p.a[i], y, S)[k] = 0
        BY <2>2
      <4>1. Terms(p.a[i], y, S)[k] = 0 /\ W(i) \in Int
        BY <1>2, <2>6
      <4> QED BY <4>1
    <3> HIDE DEF v
    <3>2. Total(v, M) = 0
      BY <1>1, <3>1, TotalNone
    <3> QED BY <2>1, <2>3, <2>6, <3>2
  <2> QED BY <2>5, <2>6
<1> HIDE DEF across, down, t
<1>8. AreInts(t, M)
  BY <1>6 DEF AreInts
<1>9. AreInts(across, M) /\ AreInts(down, N)
  BY <1>6, <1>7 DEF AreInts
<1>10. Total(across, M) = Total(t, M)
  BY <1>1, <1>6, <1>9, TotalSame
<1>11. Total(down, N) = Total(Terms(moved, y, S), N)
  BY <1>1, <1>7, <1>9, TotalSame
<1>12. Activity(moved, y, S) = Total(Terms(moved, y, S), N)
  BY ActivityIs
<1> QED BY <1>5, <1>8, <1>10, <1>11, <1>12 DEF t

\* At a point whose solved columns have the values that their rows give them,
\* the plan costs what the solved plan does.
LEMMA EqCost ==
  ASSUME NEW p, Data(p), NEW owned, Pairs(p, owned), NEW y \in Vectors,
         \A i \in OwnedRows(owned) : y[Owner(owned, i)] = Solution(p, owned, i, y)
  PROVE  CostOf(p, y) = CostOf(ColumnSingletonsEq(p, owned), y)
<1> DEFINE q == ColumnSingletonsEq(p, owned)
           rows == OwnedRows(owned)
           cols == OwnedCols(owned)
           left == p.keepCol \ cols
           moved == [k \in Cols |-> MovedCost(p, owned, k)]
           t1 == [i \in 1..M |-> IF i \in rows THEN p.c[Owner(owned, i)] * y[Owner(owned, i)] ELSE 0]
           t2 == [i \in 1..M |-> Weight(p, owned, i) * Activity(p.a[i], y, left)]
           t3 == [i \in 1..M |-> Weight(p, owned, i) * p.AU[i]]
<1>1. /\ q.keepCol = left /\ q.delta = p.delta + MovedDelta(p, owned)
      /\ q.c = [k \in Cols |-> IF k \in left THEN p.c[k] - MovedCost(p, owned, k) ELSE p.c[k]]
  BY EqIs
<1>2. /\ M \in Nat /\ N \in Nat /\ Rows = 1..M /\ Cols = 1..N /\ p.c \in Vectors /\ p.delta \in Int
      /\ cols \subseteq p.keepCol /\ left \subseteq Cols /\ left \cap cols = {} /\ p.keepCol = left \cup cols
  BY Owners, SmallLpAssumption DEF Rows, Cols, Data, IsPlan
<1>3. /\ moved \in Vectors /\ \A k \in left : moved[k] = MovedCost(p, owned, k)
  BY <1>2, Weights DEF Vectors
<1>4. q.c \in Vectors /\ \A k \in left : q.c[k] = p.c[k] - moved[k]
  <2> HIDE DEF q, left
  <2>1. \A k \in Cols : p.c[k] \in Int /\ MovedCost(p, owned, k) \in Int
    BY <1>2, Weights DEF Vectors
  <2>2. q.c \in Vectors
    BY <1>1, <2>1 DEF Vectors
  <2> QED BY <1>1, <1>2, <1>3, <2>2
<1> HIDE DEF q, moved, left
<1>5. Activity(p.c, y, p.keepCol) = Activity(p.c, y, left) + Activity(p.c, y, cols)
  <2> HIDE DEF cols
  <2> QED BY <1>2, ActivitySplit
<1>6. AreInts(t1, M) /\ Activity(p.c, y, cols) = Total(t1, M)
  <2>1. \A i \in 1..M : t1[i] = IF i \in OwnedRows(owned)
                                 THEN p.c[Owner(owned, i)] * y[Owner(owned, i)] ELSE 0
    OBVIOUS
  <2> HIDE DEF t1
  <2> QED BY <2>1, OwnersCost
<1>7. AreInts(t2, M) /\ Activity(moved, y, left) = Total(t2, M)
  <2> DEFINE t == [i \in 1..M |-> Weight(p, owned, i) * Activity(p.a[i], y, left)]
  <2>1. left \subseteq Cols /\ moved \in Vectors /\ \A k \in left : moved[k] = MovedCost(p, owned, k)
    BY <1>2, <1>3
  <2>2. AreInts(t, M) /\ Activity(moved, y, left) = Total(t, M)
    BY <2>1, MovedCosts
  <2> QED BY <2>2
<1>8. AreInts(t3, M) /\ MovedDelta(p, owned) = Total(t3, M)
  BY Weights DEF MovedDelta
<1>9. ASSUME NEW i \in 1..M PROVE t3[i] = t1[i] + t2[i]
  <2>1. Activity(p.a[i], y, left) \in Int /\ p.AU[i] \in Int
    <3>1. p.a[i] \in [Cols -> -1..1] /\ p.AU[i] \in Int
      BY <1>2 DEF Data
    <3>2. p.a[i] \in Vectors
      BY <3>1 DEF Vectors
    <3> QED BY <3>1, <3>2, ActivityIs
  <2>2. CASE i \in rows
    <3> DEFINE j == Owner(owned, i)
               b == p.a[i][j]
               r == Activity(p.a[i], y, left)
               z == p.c[j]
               v == p.AU[i]
    <3>1. j \in Cols /\ b \in {-1, 1}
      BY <1>2, <2>2, Owners
    <3>2. y[j] = b * (v - r) /\ Weight(p, owned, i) = z * b
      BY <2>2 DEF Solution, Weight, left
    <3>3. t1[i] = z * y[j] /\ t2[i] = Weight(p, owned, i) * r /\ t3[i] = Weight(p, owned, i) * v
      BY <2>2
    <3>4. z \in Int /\ r \in Int /\ v \in Int
      BY <1>2, <2>1, <3>1 DEF Vectors
    <3> HIDE DEF j, b, r, z, v, t1, t2, t3
    <3>5. CASE b = 1
      <4>1. t1[i] = z * (v - r) /\ t2[i] = z * r /\ t3[i] = z * v
        BY <3>2, <3>3, <3>4, <3>5
      <4>2. z * (v - r) = z * v - z * r /\ z * v \in Int /\ z * r \in Int
        BY <3>4
      <4> QED BY <4>1, <4>2
    <3>6. CASE b = -1
      <4>1. t1[i] = z * (r - v) /\ t2[i] = -(z * r) /\ t3[i] = -(z * v)
        BY <3>2, <3>3, <3>4, <3>6
      <4>2. z * (r - v) = z * r - z * v /\ z * v \in Int /\ z * r \in Int
        BY <3>4
      <4> QED BY <4>1, <4>2
    <3> QED BY <3>1, <3>5, <3>6
  <2>3. CASE i \notin rows
    <3>1. t1[i] = 0 /\ t2[i] = 0 * Activity(p.a[i], y, left) /\ t3[i] = 0 * p.AU[i]
      BY <2>3 DEF Weight
    <3> HIDE DEF t1, t2, t3
    <3> QED BY <2>1, <3>1
  <2> QED BY <2>2, <2>3
<1> HIDE DEF t1, t2, t3
<1>10. Total(t3, M) = Total(t1, M) + Total(t2, M)
  BY <1>2, <1>6, <1>7, <1>9, TotalAdd
<1>11. Activity(p.c, y, left) = Activity(q.c, y, left) + Activity(moved, y, left)
  <2> DEFINE r == Terms(p.c, y, left)
             s == Terms(q.c, y, left)
             t == Terms(moved, y, left)
  <2>1. /\ Activity(p.c, y, left) = Total(r, N) /\ Activity(q.c, y, left) = Total(s, N)
        /\ Activity(moved, y, left) = Total(t, N) /\ AreInts(s, N) /\ AreInts(t, N)
    BY <1>2, <1>3, <1>4, ActivityIs
  <2>2. ASSUME NEW k \in 1..N PROVE r[k] = s[k] + t[k]
    <3>1. /\ r[k] = IF k \in left THEN p.c[k] * y[k] ELSE 0
          /\ s[k] = IF k \in left THEN q.c[k] * y[k] ELSE 0
          /\ t[k] = IF k \in left THEN moved[k] * y[k] ELSE 0
      BY <1>2, <1>3, <1>4, ActivityIs
    <3> HIDE DEF r, s, t
    <3>2. CASE k \in left
      <4> DEFINE c == p.c[k]
                 m == moved[k]
                 z == y[k]
      <4>1. r[k] = c * z /\ s[k] = (c - m) * z /\ t[k] = m * z
        BY <1>4, <3>1, <3>2
      <4>2. c \in Int /\ m \in Int /\ z \in Int
        BY <1>2, <1>3 DEF Vectors
      <4> HIDE DEF c, m, z
      <4>3. (c - m) * z = c * z - m * z /\ c * z \in Int /\ m * z \in Int
        BY <4>2
      <4> QED BY <4>1, <4>3
    <3>3. CASE k \notin left
      BY <3>1, <3>3
    <3> QED BY <3>2, <3>3
  <2> HIDE DEF r, s, t
  <2>3. Total(r, N) = Total(s, N) + Total(t, N)
    BY <1>2, <2>1, <2>2, TotalAdd
  <2> QED BY <2>1, <2>3
<1>12. /\ Total(t1, M) \in Int /\ Total(t2, M) \in Int /\ Activity(q.c, y, left) \in Int
       /\ Activity(p.c, y, cols) = Total(t1, M)
  BY <1>2, <1>4, <1>6, <1>7, TotalStep, ActivityIs
<1>13. CostOf(p, y) = Activity(p.c, y, p.keepCol) + p.delta
       /\ CostOf(q, y) = Activity(q.c, y, left) + (p.delta + MovedDelta(p, owned))
  BY <1>1 DEF CostOf
<1> HIDE DEF cols
<1>14. CostOf(p, y) = CostOf(q, y)
  BY <1>2, <1>5, <1>7, <1>8, <1>10, <1>11, <1>12, <1>13
<1> QED BY <1>14 DEF q

-----------------------------------------------------------------------------
\* A row without the columns that are solved for.
LEMMA EqActivities ==
  ASSUME NEW p, Data(p), NEW owned, Pairs(p, owned), NEW y \in Vectors, NEW i \in p.keepRow
  PROVE  LET left == p.keepCol \ OwnedCols(owned)
             j == Owner(owned, i)
         IN /\ p.a[i] \in Vectors /\ Activity(p.a[i], y, left) \in Int
            /\ i \notin OwnedRows(owned) => Activity(p.a[i], y, p.keepCol) = Activity(p.a[i], y, left)
            /\ i \in OwnedRows(owned) =>
                 /\ Activity(p.a[i], y, p.keepCol) = p.a[i][j] * y[j] + Activity(p.a[i], y, left)
                 /\ Rest(p, i, j) \subseteq left
                 /\ Activity(p.a[i], y, Rest(p, i, j)) = Activity(p.a[i], y, left)
<1> DEFINE left == p.keepCol \ OwnedCols(owned)
           cols == OwnedCols(owned)
           j == Owner(owned, i)
           a == p.a[i]
<1>1. a \in Vectors
  <2>1. i \in Rows
    BY DEF Data, IsPlan
  <2>2. a \in [Cols -> -1..1]
    BY <2>1 DEF Data
  <2> QED BY <2>2 DEF Vectors
<1>2. /\ cols \subseteq p.keepCol /\ cols \subseteq Cols /\ p.keepCol \subseteq Cols
      /\ p.keepCol = left \cup cols /\ left \cap cols = {}
  BY Owners DEF Data, IsPlan
<1>3. \A k \in cols : a[k] # 0 => i \in OwnedRows(owned) /\ k = j
  <2> SUFFICES ASSUME NEW k \in cols, a[k] # 0 PROVE i \in OwnedRows(owned) /\ k = j
    OBVIOUS
  <2>1. PICK h \in OwnedRows(owned) : k = Owner(owned, h)
    BY Owners
  <2>2. h # i => p.a[i][Owner(owned, h)] = 0
    BY Owners
  <2> QED BY <2>1, <2>2
<1>4. /\ Activity(a, y, p.keepCol) = Activity(a, y, left) + Activity(a, y, cols)
      /\ Activity(a, y, left) \in Int /\ Activity(a, y, cols) \in Int
  <2> HIDE DEF left, cols, a
  <2> QED BY <1>1, <1>2, ActivitySplit, ActivityIs
<1>5. ASSUME i \notin OwnedRows(owned) PROVE Activity(a, y, p.keepCol) = Activity(a, y, left)
  <2> HIDE DEF left, cols, a
  <2>1. Activity(a, y, cols) = 0
    BY <1>1, <1>3, <1>5, ActivityNone
  <2> QED BY <1>4, <2>1
<1>6. ASSUME i \in OwnedRows(owned)
      PROVE  /\ Activity(a, y, p.keepCol) = a[j] * y[j] + Activity(a, y, left)
             /\ Rest(p, i, j) \subseteq left
             /\ Activity(a, y, Rest(p, i, j)) = Activity(a, y, left)
  <2>1. j \in cols /\ j \in Cols
    BY <1>2, <1>6, Owners
  <2>2. a[j] * y[j] \in Int
    <3>1. a[j] \in Int /\ y[j] \in Int
      BY <1>1, <2>1 DEF Vectors
    <3> QED BY <3>1
  <2>3. Activity(a, y, cols) = a[j] * y[j]
    <3> HIDE DEF left, cols, a, j
    <3> QED BY <1>1, <1>2, <1>3, <2>1, ActivityOne
  <2>4. Activity(a, y, p.keepCol) = a[j] * y[j] + Activity(a, y, left)
    <3> DEFINE v == a[j] * y[j]
    <3> HIDE DEF v, left, cols, a
    <3> QED BY <1>4, <2>2, <2>3 DEF v
  <2>5. \A k \in Cols : k \in Rest(p, i, j) <=> k \in left /\ a[k] # 0
    <3>1. \A k \in Cols : k \in Rest(p, i, j) <=> k \in p.keepCol /\ a[k] # 0 /\ k # j
      BY DEF Rest, RowCols
    <3> HIDE DEF a, j, cols
    <3> QED BY <1>2, <1>3, <2>1, <3>1
  <2>6. Rest(p, i, j) \subseteq left
    <3>1. Rest(p, i, j) \subseteq Cols
      BY <1>2 DEF Rest, RowCols
    <3> QED BY <2>5, <3>1
  <2>7. Activity(a, y, Rest(p, i, j)) = Activity(a, y, left)
    <3> DEFINE R == Rest(p, i, j)
    <3>1. ASSUME NEW k \in Cols PROVE Terms(a, y, R)[k] = Terms(a, y, left)[k]
      <4>1. /\ Terms(a, y, R)[k] = IF k \in R THEN a[k] * y[k] ELSE 0
            /\ Terms(a, y, left)[k] = IF k \in left THEN a[k] * y[k] ELSE 0
        BY <1>1, ActivityIs
      <4>2. a[k] = 0 => a[k] * y[k] = 0
        BY DEF Vectors
      <4> HIDE DEF a, left, R
      <4> QED BY <2>5, <4>1, <4>2 DEF R
    <3> HIDE DEF a, left, R
    <3>2. Activity(a, y, R) = Activity(a, y, left)
      BY <1>1, <3>1, ActivityAgree
    <3> QED BY <3>2 DEF R
  <2> QED BY <2>4, <2>6, <2>7
<1> QED BY <1>1, <1>4, <1>5, <1>6

\* Points whose solved columns have the values that their rows give them are
\* points of the plan if they are points of the solved plan, and the other way
\* round.
LEMMA EqPoints ==
  ASSUME NEW p, Data(p), Reaching(p), NEW owned, Pairs(p, owned), NEW y \in Vectors,
         \A i \in OwnedRows(owned) : y[Owner(owned, i)] = Solution(p, owned, i, y)
  PROVE  Solves(p, y) <=> Solves(ColumnSingletonsEq(p, owned), y)
<1> DEFINE q == ColumnSingletonsEq(p, owned)
           rows == OwnedRows(owned)
           cols == OwnedCols(owned)
           gone == DeletedRows(p, owned)
           left == p.keepCol \ cols
           r(i) == Activity(p.a[i], y, left)
           L(i) == NewLower(p, i, Owner(owned, i))
           U(i) == NewUpper(p, i, Owner(owned, i))
<1>1. /\ q.a = p.a /\ q.l = p.l /\ q.u = p.u /\ q.keepCol = left
      /\ q.keepRow = p.keepRow \ gone
      /\ q.AL = [i \in Rows |-> IF i \in rows \ gone THEN L(i) ELSE p.AL[i]]
      /\ q.AU = [i \in Rows |-> IF i \in rows \ gone THEN U(i) ELSE p.AU[i]]
  <2>1. q.a = p.a /\ q.l = p.l /\ q.u = p.u
    BY EqIs
  <2>2. q.keepCol = left
    BY EqIs
  <2>3. q.keepRow = p.keepRow \ gone
    BY EqIs
  <2>4. q.AL = [i \in Rows |-> IF i \in rows \ gone THEN L(i) ELSE p.AL[i]]
    BY EqIs
  <2>5. q.AU = [i \in Rows |-> IF i \in rows \ gone THEN U(i) ELSE p.AU[i]]
    BY EqIs
  <2> QED BY <2>1, <2>2, <2>3, <2>4, <2>5
<1>2. /\ rows \subseteq p.keepRow /\ rows \subseteq Rows /\ cols \subseteq p.keepCol /\ cols \subseteq Cols
      /\ p.keepRow \subseteq Rows /\ gone \subseteq rows
      /\ \A j \in cols : \E i \in rows : j = Owner(owned, i)
  BY Owners DEF Data, IsPlan, DeletedRows
<1>3. ASSUME NEW i \in rows
      PROVE  /\ Owner(owned, i) \in p.keepCol /\ Owner(owned, i) \in Cols
             /\ p.AL[i] = p.AU[i] /\ IsFinite(p.AL[i]) /\ p.AU[i] \in Int
             /\ Activity(p.a[i], y, p.keepCol) = p.AU[i]
             /\ i \in gone <=> Deleted(p, i, Owner(owned, i))
             /\ (\A k \in left : Within(p.l[k], y[k], p.u[k])) =>
                  (Within(p.l[Owner(owned, i)], y[Owner(owned, i)], p.u[Owner(owned, i)])
                     <=> i \in gone \/ Within(L(i), r(i), U(i)))
  <2> DEFINE j == Owner(owned, i)
  <2>1. /\ i \in p.keepRow /\ i \in Rows /\ j \in p.keepCol /\ j \in Cols /\ p.a[i][j] \in {-1, 1}
        /\ p.AL[i] = p.AU[i] /\ IsFinite(p.AL[i])
        /\ FreeAbove(p, i, j) \/ FreeBelow(p, i, j)
    BY <1>2, Owners
  <2>2. p.AU[i] \in Int
    BY <2>1 DEF Data
  <2>3. /\ r(i) \in Int /\ Activity(p.a[i], y, p.keepCol) = p.a[i][j] * y[j] + r(i)
        /\ Rest(p, i, j) \subseteq left /\ Activity(p.a[i], y, Rest(p, i, j)) = r(i)
    <3>1. r(i) \in Int
      BY <2>1, EqActivities
    <3>2. Activity(p.a[i], y, p.keepCol) = p.a[i][j] * y[j] + r(i)
      BY <2>1, EqActivities
    <3>3. Rest(p, i, j) \subseteq left /\ Activity(p.a[i], y, Rest(p, i, j)) = r(i)
      BY <2>1, EqActivities
    <3> QED BY <3>1, <3>2, <3>3
  <2>4. y[j] = p.a[i][j] * (p.AU[i] - r(i))
    BY DEF Solution
  <2>5. Activity(p.a[i], y, p.keepCol) = p.AU[i]
    <3> DEFINE a == p.a[i][j]
               v == p.AU[i]
               s == r(i)
               z == y[j]
    <3>1. a \in {-1, 1} /\ v \in Int /\ s \in Int /\ z = a * (v - s)
          /\ Activity(p.a[i], y, p.keepCol) = a * z + s
      BY <2>1, <2>2, <2>3, <2>4
    <3> HIDE DEF a, v, s, z
    <3>2. a * z + s = v
      BY <3>1
    <3> QED BY <3>1, <3>2 DEF v
  <2>6. i \in gone <=> Deleted(p, i, j)
    BY DEF DeletedRows
  <2> HIDE DEF j
  <2>7. \A x \in Vectors : (\A k \in Rest(p, i, j) : Within(p.l[k], x[k], p.u[k])) =>
          (Within(p.l[j], p.a[i][j] * (p.AU[i] - Activity(p.a[i], x, Rest(p, i, j))), p.u[j])
             <=> Deleted(p, i, j) \/ Within(NewLower(p, i, j), Activity(p.a[i], x, Rest(p, i, j)),
                                            NewUpper(p, i, j)))
    BY <2>1, OwnerRow
  <2>8. (\A k \in left : Within(p.l[k], y[k], p.u[k])) =>
          (Within(p.l[j], y[j], p.u[j]) <=> i \in gone \/ Within(L(i), r(i), U(i)))
    <3> HIDE DEF left, gone
    <3> QED BY <2>3, <2>4, <2>6, <2>7 DEF j
  <2> HIDE DEF rows, cols, gone, left, r, L, U
  <2> QED BY <2>1, <2>2, <2>5, <2>6, <2>8 DEF j
<1>4. \A i \in p.keepRow \ rows : Activity(p.a[i], y, p.keepCol) = r(i)
  BY EqActivities
<1> HIDE DEF q, rows, cols, gone, left, r, L, U
<1>5. ASSUME Solves(p, y) PROVE Solves(q, y)
  <2>1. \A j \in left : Within(p.l[j], y[j], p.u[j])
    BY <1>5, SolvesIs DEF left
  <2>2. ASSUME NEW i \in q.keepRow PROVE Within(q.AL[i], Activity(q.a[i], y, q.keepCol), q.AU[i])
    <3>1. i \in p.keepRow /\ i \in Rows /\ i \notin gone /\ Activity(q.a[i], y, q.keepCol) = r(i)
      BY <1>1, <1>2 DEF r
    <3>2. CASE i \in rows
      <4>1. q.AL[i] = L(i) /\ q.AU[i] = U(i)
        BY <1>1, <3>1, <3>2
      <4>2. Within(p.l[Owner(owned, i)], y[Owner(owned, i)], p.u[Owner(owned, i)])
        BY <1>3, <1>5, <3>2, SolvesIs
      <4> QED BY <1>3, <2>1, <3>1, <3>2, <4>1, <4>2
    <3>3. CASE i \notin rows
      <4>1. q.AL[i] = p.AL[i] /\ q.AU[i] = p.AU[i]
        BY <1>1, <3>1, <3>3
      <4>2. Within(p.AL[i], Activity(p.a[i], y, p.keepCol), p.AU[i])
        BY <1>5, <3>1, SolvesIs
      <4> QED BY <1>4, <3>1, <3>3, <4>1, <4>2
    <3> QED BY <3>2, <3>3
  <2> QED BY <1>1, <2>1, <2>2, SolvesIs
<1>6. ASSUME Solves(q, y) PROVE Solves(p, y)
  <2>1. \A j \in left : Within(p.l[j], y[j], p.u[j])
    BY <1>1, <1>6, SolvesIs
  <2>2. ASSUME NEW i \in p.keepRow \ gone
        PROVE  Within(q.AL[i], r(i), q.AU[i]) /\ i \in Rows
    <3>1. i \in q.keepRow /\ i \in Rows /\ Activity(q.a[i], y, q.keepCol) = r(i)
      BY <1>1, <1>2 DEF r
    <3> QED BY <1>6, <3>1, SolvesIs
  <2>3. ASSUME NEW j \in p.keepCol PROVE Within(p.l[j], y[j], p.u[j])
    <3>1. CASE j \in left
      BY <2>1, <3>1
    <3>2. CASE j \notin left
      <4>1. PICK i \in rows : j = Owner(owned, i)
        BY <1>2, <3>2 DEF left
      <4>2. i \in gone \/ Within(L(i), r(i), U(i))
        <5>1. ASSUME i \notin gone PROVE Within(L(i), r(i), U(i))
          <6>1. Within(q.AL[i], r(i), q.AU[i]) /\ i \in Rows
            BY <1>2, <2>2, <5>1
          <6>2. q.AL[i] = L(i) /\ q.AU[i] = U(i)
            BY <1>1, <5>1, <6>1
          <6> QED BY <6>1, <6>2
        <5> QED BY <5>1
      <4> QED BY <1>3, <2>1, <4>1, <4>2
    <3> QED BY <3>1, <3>2
  <2>4. ASSUME NEW i \in p.keepRow
        PROVE  Within(p.AL[i], Activity(p.a[i], y, p.keepCol), p.AU[i])
    <3>1. CASE i \in rows
      <4>1. p.AL[i] = p.AU[i] /\ Activity(p.a[i], y, p.keepCol) = p.AU[i] /\ p.AU[i] \in Int
        BY <1>3, <3>1
      <4> QED BY <4>1 DEF Within
    <3>2. CASE i \notin rows
      <4>1. Within(q.AL[i], r(i), q.AU[i]) /\ i \in Rows
        BY <1>2, <2>2, <3>2
      <4>2. q.AL[i] = p.AL[i] /\ q.AU[i] = p.AU[i]
        BY <1>1, <3>2, <4>1
      <4> QED BY <1>4, <3>2, <4>1, <4>2
    <3> QED BY <3>1, <3>2
  <2> QED BY <2>3, <2>4, SolvesIs
<1> QED BY <1>5, <1>6 DEF q

\* Solving for columns: the plan keeps its points and their costs, both ways.
LEMMA EqKeeps ==
  ASSUME NEW user, user.c \in Vectors, NEW p, PlanInv(user, p), NEW owned, Pairs(p, owned)
  PROVE  PlanInv(user, ColumnSingletonsEq(p, owned))
<1> DEFINE q == ColumnSingletonsEq(p, owned)
           rows == OwnedRows(owned)
           cols == OwnedCols(owned)
           gone == DeletedRows(p, owned)
           left == p.keepCol \ cols
           new == EqTape(p, owned)
           own(i) == Owner(owned, i)
<1>0. Data(p)
  BY DEF PlanInv
<1>1. /\ Data(p) /\ Reaching(p) /\ TapeLeft(p) /\ Comes(user, p) /\ Goes(user, p)
      /\ p.verdict = "infeasible" => \A x \in Vectors : ~Feasible(user, x)
      /\ IsPlan(p) /\ p.keepRow \subseteq Rows /\ p.keepCol \subseteq Cols
      /\ p.c \in Vectors /\ p.l \in Vectors /\ p.u \in Vectors /\ p.delta \in Int
      /\ p.AL \in [Rows -> Int] /\ p.AU \in [Rows -> Int] /\ p.tape \in Seq(Records)
  BY DEF PlanInv, Data, IsPlan
<1>2. /\ IsPlan(q) /\ q.a = p.a /\ q.l = p.l /\ q.u = p.u /\ q.verdict = p.verdict
      /\ q.keepCol = left /\ q.keepRow = p.keepRow \ gone
      /\ q.AL = [i \in Rows |-> IF i \in rows \ gone THEN NewLower(p, i, own(i)) ELSE p.AL[i]]
      /\ q.AU = [i \in Rows |-> IF i \in rows \ gone THEN NewUpper(p, i, own(i)) ELSE p.AU[i]]
      /\ q.c = [k \in Cols |-> IF k \in left THEN p.c[k] - MovedCost(p, owned, k) ELSE p.c[k]]
      /\ q.delta = p.delta + MovedDelta(p, owned)
      /\ q.tape = p.tape \o new
  <2>1. IsPlan(q) /\ q.a = p.a /\ q.l = p.l /\ q.u = p.u /\ q.verdict = p.verdict
    BY <1>0, EqIs
  <2>2. q.keepCol = left /\ q.keepRow = p.keepRow \ gone
    BY <1>0, EqIs
  <2>3. q.AL = [i \in Rows |-> IF i \in rows \ gone THEN NewLower(p, i, own(i)) ELSE p.AL[i]]
    BY <1>0, EqIs
  <2>4. q.AU = [i \in Rows |-> IF i \in rows \ gone THEN NewUpper(p, i, own(i)) ELSE p.AU[i]]
    BY <1>0, EqIs
  <2>5. q.c = [k \in Cols |-> IF k \in left THEN p.c[k] - MovedCost(p, owned, k) ELSE p.c[k]]
    BY <1>0, EqIs
  <2>6. q.delta = p.delta + MovedDelta(p, owned)
    BY <1>0, EqIs
  <2>7. q.tape = p.tape \o new
    BY <1>0, EqIs
  <2> QED BY <2>1, <2>2, <2>3, <2>4, <2>5, <2>6, <2>7
<1>3. /\ rows \subseteq p.keepRow /\ rows \subseteq Rows /\ cols \subseteq p.keepCol /\ cols \subseteq Cols
      /\ \A j \in cols : \E i \in rows : j = own(i)
      /\ \A i \in rows : /\ own(i) \in cols /\ p.a[i][own(i)] \in {-1, 1}
                         /\ IsFinite(p.AL[i]) /\ p.AL[i] = p.AU[i]
                         /\ FreeAbove(p, i, own(i)) \/ FreeBelow(p, i, own(i))
  BY <1>1, Owners
<1>4. /\ new \in Seq(Records) /\ Recovers(new) = cols
      /\ \A x \in Vectors : IsPoint(x) => \A i \in rows : Replay(new, x)[own(i)] = Solution(p, owned, i, x)
  BY <1>1, EqTapeIs
<1>5. \A x \in Vectors : (\A i \in rows : x[own(i)] = Solution(p, owned, i, x)) =>
        /\ Solves(p, x) <=> Solves(q, x)
        /\ CostOf(p, x) = CostOf(q, x)
  BY <1>1, EqPoints, EqCost
<1>6. ASSUME NEW i \in rows \ gone
      PROVE  /\ NewLower(p, i, own(i)) \in Int /\ LowerEnd(NewLower(p, i, own(i)), Reach(q))
             /\ NewUpper(p, i, own(i)) \in Int /\ UpperEnd(NewUpper(p, i, own(i)), Reach(q))
  <2> DEFINE j == own(i)
             L == NewLower(p, i, j)
             U == NewUpper(p, i, j)
  <2>1. /\ i \in p.keepRow /\ j \in p.keepCol /\ j \in cols /\ p.a[i][j] \in {-1, 1}
        /\ IsFinite(p.AL[i]) /\ p.AL[i] = p.AU[i]
        /\ FreeAbove(p, i, j) \/ FreeBelow(p, i, j)
    BY <1>3
  <2>2. ~Deleted(p, i, j)
    BY DEF DeletedRows
  <2> HIDE DEF j
  <2>3. /\ L \in Int /\ LowerEnd(L, (N + 1) * Reach(p))
        /\ U \in Int /\ UpperEnd(U, (N + 1) * Reach(p))
    BY <1>1, <2>1, <2>2, OwnerRow
  <2>4. Reach(p) \in Nat /\ Reach(q) \in Nat /\ N \in Nat /\ (N + 1) * Reach(p) <= Reach(q)
    <3>1. q.keepCol \subseteq p.keepCol /\ p.keepCol # q.keepCol /\ q.keepCol \subseteq Cols
      BY <1>1, <1>2, <2>1
    <3>2. Reach(p) \in Nat /\ N \in Nat /\ (N + 1) * Reach(p) <= Reach(q)
      BY <1>1, <3>1, Sizes
    <3>3. Reach(q) \in Nat
      BY <3>1, Sizes
    <3> QED BY <3>2, <3>3
  <2>5. (N + 1) * Reach(p) \in Int
    BY <2>4
  <2> HIDE DEF L, U
  <2>6. LowerEnd(L, Reach(q)) /\ UpperEnd(U, Reach(q))
    BY <2>3, <2>4, <2>5, EndsWithin
  <2> QED BY <2>3, <2>6 DEF L, U, j
<1> HIDE DEF q, rows, cols, gone, new, own
<1>7. ASSUME NEW i \in Rows PROVE q.AL[i] \in Int /\ q.AU[i] \in Int
  <2>1. p.AL[i] \in Int /\ p.AU[i] \in Int
    BY <1>1
  <2>2. /\ q.AL[i] = IF i \in rows \ gone THEN NewLower(p, i, own(i)) ELSE p.AL[i]
        /\ q.AU[i] = IF i \in rows \ gone THEN NewUpper(p, i, own(i)) ELSE p.AU[i]
    BY <1>2
  <2> QED BY <1>6, <2>1, <2>2
<1>8. Data(q)
  <2>1. q.AL \in [Rows -> Int] /\ q.AU \in [Rows -> Int]
    <3>1. q.AL = [i \in Rows |-> q.AL[i]] /\ q.AU = [i \in Rows |-> q.AU[i]]
      BY <1>2
    <3> QED BY <1>7, <3>1
  <2>2. q.c \in Vectors /\ q.delta \in Int
    <3>1. \A k \in Cols : p.c[k] \in Int /\ MovedCost(p, owned, k) \in Int
      BY <1>1, Weights DEF Vectors
    <3>2. MovedDelta(p, owned) \in Int
      BY <1>1, Weights
    <3> QED BY <1>1, <1>2, <3>1, <3>2 DEF Vectors
  <2>3. q.tape \in Seq(Records)
    BY <1>1, <1>2, <1>4
  <2>4. p.a \in [Rows -> [Cols -> -1..1]]
    BY <1>1 DEF Data
  <2> QED BY <1>1, <1>2, <2>1, <2>2, <2>3, <2>4 DEF Data
<1>9. /\ q.keepCol \subseteq p.keepCol /\ q.keepCol \subseteq Cols /\ cols = p.keepCol \ q.keepCol
      /\ p.keepCol = q.keepCol \cup cols
  BY <1>1, <1>2, <1>3
<1>10. /\ Reach(p) \in Nat /\ Reach(q) \in Nat /\ Reach(p) <= Reach(q) /\ N \in Nat
       /\ Spread(p) \in Nat /\ Spread(q) \in Nat /\ Spread(q) <= Spread(p) /\ Reach(p) <= Spread(q)
       /\ cols # {} => (N + 1) * Spread(q) <= Spread(p)
  <2>1. Reach(q) \in Nat /\ Spread(q) \in Nat /\ Base \in Nat /\ Base <= Spread(q)
    BY <1>9, Sizes
  <2>2. /\ Reach(p) \in Nat /\ Base \in Nat /\ Reach(p) <= Base /\ Spread(p) \in Nat /\ N \in Nat
        /\ Reach(p) <= Reach(q) /\ Spread(q) <= Spread(p)
        /\ p.keepCol # q.keepCol => (N + 1) * Spread(q) <= Spread(p)
    BY <1>1, <1>9, Sizes
  <2>3. cols # {} => p.keepCol # q.keepCol
    BY <1>9
  <2> QED BY <2>1, <2>2, <2>3
<1>11. Reaching(q)
  <2>1. /\ \A j \in p.keepCol : LowerEnd(p.l[j], Reach(p)) /\ UpperEnd(p.u[j], Reach(p))
        /\ \A i \in p.keepRow : LowerEnd(p.AL[i], Reach(p)) /\ UpperEnd(p.AU[i], Reach(p))
        /\ \A j \in Cols \ p.keepCol : IsFinite(p.l[j]) => IsWithin(p.l[j], Reach(p))
    BY <1>1 DEF Reaching
  <2>2. \A v \in Int : /\ IsWithin(v, Reach(p)) => IsWithin(v, Reach(q))
                       /\ LowerEnd(v, Reach(p)) => LowerEnd(v, Reach(q))
                       /\ UpperEnd(v, Reach(p)) => UpperEnd(v, Reach(q))
    BY <1>10, EndsWithin
  <2>3. \A j \in Cols : p.l[j] \in Int /\ p.u[j] \in Int
    BY <1>1 DEF Vectors
  <2>4. \A j \in q.keepCol : LowerEnd(q.l[j], Reach(q)) /\ UpperEnd(q.u[j], Reach(q))
    BY <1>2, <1>9, <2>1, <2>2, <2>3
  <2>5. ASSUME NEW i \in q.keepRow PROVE LowerEnd(q.AL[i], Reach(q)) /\ UpperEnd(q.AU[i], Reach(q))
    <3>1. i \in p.keepRow /\ i \in Rows /\ p.AL[i] \in Int /\ p.AU[i] \in Int
      BY <1>1, <1>2
    <3>2. /\ q.AL[i] = IF i \in rows \ gone THEN NewLower(p, i, own(i)) ELSE p.AL[i]
          /\ q.AU[i] = IF i \in rows \ gone THEN NewUpper(p, i, own(i)) ELSE p.AU[i]
      BY <1>2, <3>1
    <3> QED BY <1>6, <2>1, <2>2, <3>1, <3>2
  <2>6. ASSUME NEW j \in Cols \ q.keepCol, IsFinite(q.l[j]) PROVE IsWithin(q.l[j], Reach(q))
    <3>1. q.l[j] = p.l[j] /\ p.l[j] \in Int
      BY <1>2, <2>3
    <3>2. CASE j \in p.keepCol
      <4>1. LowerEnd(p.l[j], Reach(p)) /\ ~(p.l[j] = -Inf)
        BY <2>1, <2>6, <3>1, <3>2 DEF IsFinite
      <4>2. IsWithin(p.l[j], Reach(p))
        BY <4>1 DEF LowerEnd
      <4> QED BY <2>2, <3>1, <4>2
    <3>3. CASE j \notin p.keepCol
      BY <2>1, <2>2, <2>6, <3>1, <3>3
    <3> QED BY <3>2, <3>3
  <2> QED BY <2>4, <2>5, <2>6 DEF Reaching
<1>12. ASSUME NEW x \in Vectors, IsPoint(x)
       PROVE  /\ Replay(new, x) \in Vectors
              /\ \A j \in Cols \ cols : Replay(new, x)[j] = x[j]
              /\ \A i \in rows : Replay(new, x)[own(i)] = Solution(p, owned, i, x)
              /\ \A i \in rows : Replay(new, x)[own(i)] = Solution(p, owned, i, Replay(new, x))
              /\ \A coef \in Vectors : Activity(coef, Replay(new, x), left) = Activity(coef, x, left)
  <2> DEFINE y == Replay(new, x)
  <2>1. y \in Vectors /\ \A j \in Cols \ cols : y[j] = x[j]
    <3>1. Len(new) \in 0..Len(new)
      BY <1>4
    <3> QED BY <1>4, <3>1, RewoundKeeps DEF Replay
  <2>2. \A i \in rows : y[own(i)] = Solution(p, owned, i, x)
    BY <1>4, <1>12
  <2> HIDE DEF y
  <2>3. ASSUME NEW coef \in Vectors PROVE Activity(coef, y, left) = Activity(coef, x, left)
    <3>1. \A j \in Cols : Terms(coef, y, left)[j] = Terms(coef, x, left)[j]
      BY <2>1 DEF Terms
    <3> HIDE DEF left
    <3> QED BY <2>1, <3>1, ActivityAgree
  <2>4. \A i \in rows : p.a[i] \in Vectors
    <3>1. \A i \in Rows : p.a[i] \in [Cols -> -1..1]
      BY <1>1 DEF Data
    <3>2. \A i \in Rows : p.a[i] \in Vectors
      BY <3>1 DEF Vectors
    <3> QED BY <1>3, <3>2
  <2>5. \A i \in rows : Solution(p, owned, i, y) = Solution(p, owned, i, x)
    BY <2>3, <2>4 DEF Solution, cols
  <2> QED BY <2>1, <2>2, <2>3, <2>5 DEF y
<1>13. ASSUME NEW x \in Vectors, IsPoint(x)
       PROVE  /\ CostOf(q, Replay(new, x)) = CostOf(q, x)
              /\ Solves(q, x) => Solves(q, Replay(new, x))
  <2> DEFINE y == Replay(new, x)
  <2>1. /\ y \in Vectors /\ \A j \in Cols \ cols : y[j] = x[j]
        /\ \A coef \in Vectors : Activity(coef, y, left) = Activity(coef, x, left)
    BY <1>12, <1>13
  <2> HIDE DEF y
  <2>2. CostOf(q, y) = CostOf(q, x)
    <3>1. q.c \in Vectors
      BY <1>8 DEF Data
    <3> QED BY <1>2, <2>1, <3>1 DEF CostOf
  <2>3. ASSUME Solves(q, x) PROVE Solves(q, y)
    <3>1. \A j \in q.keepCol : Within(q.l[j], y[j], q.u[j])
      <4>1. \A j \in q.keepCol : Within(q.l[j], x[j], q.u[j]) /\ j \in Cols \ cols
        BY <1>9, <2>3, SolvesIs
      <4> QED BY <2>1, <4>1
    <3>2. \A i \in q.keepRow : Within(q.AL[i], Activity(q.a[i], y, q.keepCol), q.AU[i])
      <4>1. \A i \in q.keepRow : q.a[i] \in [Cols -> -1..1]
        BY <1>8 DEF Data, IsPlan
      <4>2. \A i \in q.keepRow : q.a[i] \in Vectors
        BY <4>1 DEF Vectors
      <4>3. \A i \in q.keepRow : Activity(q.a[i], y, q.keepCol) = Activity(q.a[i], x, q.keepCol)
        BY <1>2, <2>1, <4>2
      <4>4. \A i \in q.keepRow : Within(q.AL[i], Activity(q.a[i], x, q.keepCol), q.AU[i])
        BY <2>3, SolvesIs
      <4> QED BY <4>3, <4>4
    <3> QED BY <3>1, <3>2, SolvesIs
  <2> QED BY <2>2, <2>3 DEF y
<1>14. ASSUME NEW x \in Vectors, IsPoint(x), IsSpread(q, x) PROVE IsSpread(p, Replay(new, x))
  <2> DEFINE y == Replay(new, x)
  <2>1. /\ y \in Vectors /\ \A j \in Cols \ cols : y[j] = x[j]
        /\ \A i \in rows : y[own(i)] = Solution(p, owned, i, x)
    BY <1>12, <1>14
  <2> HIDE DEF y
  <2> SUFFICES ASSUME NEW j \in Cols PROVE IsWithin(y[j], Spread(p))
    BY DEF IsSpread, y
  <2>2. CASE j \in cols
    <3>1. PICK i \in rows : j = own(i)
      BY <1>3, <2>2
    <3> DEFINE a == p.a[i][j]
               v == p.AU[i]
               r == Activity(p.a[i], x, left)
               B == Spread(q)
               NB == N * B
    <3>2. y[j] = a * (v - r) /\ a \in {-1, 1}
      BY <1>3, <2>1, <3>1 DEF Solution, own, cols
    <3>3. v \in Int /\ IsWithin(v, Reach(p))
      <4>1. i \in p.keepRow /\ i \in Rows /\ IsFinite(v) /\ v \in Int
        BY <1>1, <1>3, <3>1
      <4>2. UpperEnd(v, Reach(p))
        BY <1>1, <4>1 DEF Reaching
      <4> QED BY <4>1, <4>2 DEF UpperEnd, IsFinite
    <3>4. r \in Int /\ -NB <= r /\ r <= NB
      <4>1. p.a[i] \in [Cols -> -1..1]
        BY <1>1, <1>3, <3>1 DEF Data
      <4>2. p.a[i] \in Vectors
        BY <4>1 DEF Vectors
      <4>3. ASSUME NEW k \in Cols PROVE -B <= Terms(p.a[i], x, left)[k] /\ Terms(p.a[i], x, left)[k] <= B
        <5>1. Terms(p.a[i], x, left)[k] = IF k \in left THEN p.a[i][k] * x[k] ELSE 0
          BY <4>2, ActivityIs
        <5>2. p.a[i][k] \in {-1, 0, 1} /\ x[k] \in Int /\ -B <= x[k] /\ x[k] <= B /\ B \in Nat
          BY <1>10, <1>14, <4>1 DEF IsSpread, IsWithin, Vectors
        <5> HIDE DEF B, left
        <5>3. CASE k \in left
          <6> DEFINE b == p.a[i][k]
                     z == x[k]
          <6>1. Terms(p.a[i], x, left)[k] = b * z /\ b \in {-1, 0, 1} /\ z \in Int /\ -B <= z /\ z <= B
            BY <5>1, <5>2, <5>3
          <6> HIDE DEF b, z
          <6>2. b * z = z \/ b * z = -z \/ b * z = 0
            BY <6>1
          <6> QED BY <5>2, <6>1, <6>2
        <5>4. CASE k \notin left
          BY <5>1, <5>2, <5>4
        <5> QED BY <5>3, <5>4
      <4>4. B \in Nat
        BY <1>10
      <4> HIDE DEF B, left
      <4>5. -(N * B) <= Activity(p.a[i], x, left) /\ Activity(p.a[i], x, left) <= N * B
        BY <4>2, <4>3, <4>4, ActivityWithin
      <4>6. Activity(p.a[i], x, left) \in Int
        BY <4>2, ActivityIs
      <4> QED BY <4>5, <4>6
    <3>5. B \in Nat /\ NB \in Nat /\ (N + 1) * B = NB + B /\ Reach(p) <= B /\ Reach(p) \in Nat
          /\ Spread(p) \in Nat /\ NB + B <= Spread(p)
      <4>1. B \in Nat /\ N \in Nat /\ Reach(p) <= B /\ Reach(p) \in Nat /\ Spread(p) \in Nat
            /\ (N + 1) * B <= Spread(p)
        BY <1>10, <2>2
      <4> HIDE DEF B
      <4>2. NB \in Nat /\ (N + 1) * B = NB + B
        BY <4>1
      <4> QED BY <4>1, <4>2
    <3> HIDE DEF a, v, r, B, NB
    <3>6. y[j] = v - r \/ y[j] = r - v
      BY <3>2, <3>3, <3>4
    <3> QED BY <3>3, <3>4, <3>5, <3>6 DEF IsWithin
  <2>3. CASE j \notin cols
    <3>1. y[j] = x[j] /\ IsWithin(x[j], Spread(q)) /\ x[j] \in Int
      BY <1>14, <2>1, <2>3 DEF IsSpread, Vectors
    <3> QED BY <1>10, <3>1, EndsWithin
  <2> QED BY <2>2, <2>3
<1>15. Comes(user, q) /\ TapeLeft(q)
  <2>1. \A j \in Cols \ p.keepCol : q.l[j] = p.l[j] /\ q.u[j] = p.u[j]
    BY <1>2
  <2>2. \A x \in Vectors : IsPoint(x) /\ IsPoint(Replay(new, x)) => CostOf(p, Replay(new, x)) = CostOf(q, x)
    BY <1>5, <1>12, <1>13
  <2>3. \A x \in Vectors : IsPoint(x) /\ IsSpread(q, x) /\ Solves(q, x)
          => IsSpread(p, Replay(new, x)) /\ Solves(p, Replay(new, x))
    BY <1>5, <1>12, <1>13, <1>14
  <2>4. Data(p) /\ TapeLeft(p) /\ Comes(user, p) /\ Data(q) /\ new \in Seq(Records) /\ q.tape = p.tape \o new
        /\ q.keepCol \subseteq p.keepCol /\ Recovers(new) = p.keepCol \ q.keepCol
    BY <1>1, <1>2, <1>4, <1>8, <1>9
  <2> QED BY <2>1, <2>2, <2>3, <2>4, ComesBack
<1>16. Goes(user, q)
  <2>0. ASSUME NEW x \in Vectors, NEW i \in OwnedRows(owned), i \in p.keepRow
        PROVE  /\ Activity(p.a[i], x, p.keepCol)
                    = p.a[i][Owner(owned, i)] * x[Owner(owned, i)] + Activity(p.a[i], x, left)
               /\ Activity(p.a[i], x, left) \in Int
    <3>1. Activity(p.a[i], x, left) \in Int
      BY <1>0, <2>0, EqActivities DEF cols
    <3>2. Activity(p.a[i], x, p.keepCol)
            = p.a[i][Owner(owned, i)] * x[Owner(owned, i)] + Activity(p.a[i], x, left)
      BY <1>0, <2>0, EqActivities DEF cols
    <3> QED BY <3>1, <3>2
  <2>1. ASSUME NEW x \in Vectors, Solves(p, x), \A j \in Cols : p.l[j] <= p.u[j]
        PROVE  Solves(q, x) /\ CostOf(q, x) <= CostOf(p, x) /\ \A j \in Cols : q.l[j] <= q.u[j]
    <3>1. ASSUME NEW i \in rows PROVE x[own(i)] = Solution(p, owned, i, x)
      <4> DEFINE j == own(i)
                 a == p.a[i][j]
                 v == p.AU[i]
                 r == Activity(p.a[i], x, left)
                 t == Activity(p.a[i], x, p.keepCol)
                 z == x[j]
      <4>1. i \in p.keepRow /\ i \in Rows /\ j \in Cols /\ a \in {-1, 1} /\ p.AL[i] = v /\ IsFinite(v) /\ v \in Int
        BY <1>1, <1>3
      <4>2. t = a * z + r /\ r \in Int
        BY <2>0, <4>1 DEF rows, own
      <4>3. Within(v, t, v)
        BY <2>1, <4>1, SolvesIs
      <4>4. z \in Int /\ v # Inf /\ v # -Inf
        BY <4>1 DEF IsFinite, Vectors
      <4>5. Solution(p, owned, i, x) = a * (v - r)
        BY DEF Solution, own, cols
      <4> HIDE DEF a, v, r, t, z
      <4>6. t \in Int
        BY <4>1, <4>2, <4>4
      <4>7. t = v
        BY <4>1, <4>3, <4>4, <4>6 DEF Within
      <4>8. z = a * (v - r)
        BY <4>1, <4>2, <4>4, <4>7
      <4> QED BY <4>5, <4>8 DEF z
    <3>2. Solves(q, x) /\ CostOf(p, x) = CostOf(q, x)
      BY <1>5, <2>1, <3>1
    <3>3. CostOf(p, x) \in Int
      BY <1>1, ActivityIs DEF CostOf
    <3> QED BY <1>2, <2>1, <3>2, <3>3
  <2> QED BY <1>1, <1>8, <2>1, GoesOn
<1>17. PlanInv(user, q)
  BY <1>1, <1>2, <1>8, <1>11, <1>15, <1>16 DEF PlanInv
<1> QED BY <1>17 DEF q

-----------------------------------------------------------------------------
(* The invariant of the values.                                            *)

\* The LP the closure is entered with, and the plan it starts from.
LEMMA EnteredWith ==
  ASSUME Init
  PROVE  /\ Data(plan) /\ Reaching(plan) /\ lp.c \in Vectors
         /\ plan.a = lp.a /\ plan.c = lp.c /\ plan.l = lp.l /\ plan.u = lp.u
         /\ plan.AL = lp.AL /\ plan.AU = lp.AU /\ plan.delta = 0 /\ plan.tape = << >>
         /\ plan.keepRow = Rows /\ plan.verdict = "none"
         /\ \A j \in Cols : /\ plan.l[j] # Inf /\ plan.u[j] # -Inf
                            /\ j \notin plan.keepCol =>
                                 /\ plan.c[j] = 0 /\ plan.l[j] = 0 /\ plan.u[j] = 0
                                 /\ \A i \in Rows : plan.a[i][j] = 0
<1>1. PICK q \in DOMAIN Families :
        LET f == Families[q]
        IN \E a \in [Rows -> [f.cols -> f.coefs]], k \in [f.cols -> f.columns], r \in [Rows -> f.sides] :
             LET column(j) == IF j \in f.cols THEN k[j] ELSE [c |-> 0, l |-> 0, u |-> 0]
             IN /\ lp = [a |-> [i \in Rows |-> [j \in Cols |-> IF j \in f.cols THEN a[i][j] ELSE 0]],
                         c |-> [j \in Cols |-> column(j).c],
                         l |-> [j \in Cols |-> column(j).l], u |-> [j \in Cols |-> column(j).u],
                         AL |-> [i \in Rows |-> r[i].AL], AU |-> [i \in Rows |-> r[i].AU]]
                /\ plan = [NewPlan(lp) EXCEPT !.keepCol = f.cols]
  BY DEF Init, InitLp
<1> DEFINE f == Families[q]
<1>2. PICK a \in [Rows -> [f.cols -> f.coefs]], k \in [f.cols -> f.columns], r \in [Rows -> f.sides] :
        LET column(j) == IF j \in f.cols THEN k[j] ELSE [c |-> 0, l |-> 0, u |-> 0]
        IN /\ lp = [a |-> [i \in Rows |-> [j \in Cols |-> IF j \in f.cols THEN a[i][j] ELSE 0]],
                    c |-> [j \in Cols |-> column(j).c],
                    l |-> [j \in Cols |-> column(j).l], u |-> [j \in Cols |-> column(j).u],
                    AL |-> [i \in Rows |-> r[i].AL], AU |-> [i \in Rows |-> r[i].AU]]
           /\ plan = [NewPlan(lp) EXCEPT !.keepCol = f.cols]
  BY <1>1
<1>3. /\ f.cols \subseteq Cols /\ f.coefs \subseteq -1..1
      /\ f.columns \subseteq [c : Int, l : {-Inf} \cup Numbers, u : {Inf} \cup Numbers]
      /\ f.sides \subseteq [AL : {-Inf} \cup Numbers, AU : {Inf} \cup Numbers]
  BY FamiliesAssumption
<1>4. /\ DOMAIN plan = PlanFields /\ plan.keepRow = Rows /\ plan.keepCol = f.cols
      /\ plan.verdict = "none" /\ plan.delta = 0 /\ plan.tape = << >>
      /\ plan.a = lp.a /\ plan.c = lp.c /\ plan.l = lp.l /\ plan.u = lp.u
      /\ plan.AL = lp.AL /\ plan.AU = lp.AU
  BY <1>2 DEF NewPlan, PlanFields
<1>5. /\ lp.a = [i \in Rows |-> [j \in Cols |-> IF j \in f.cols THEN a[i][j] ELSE 0]]
      /\ lp.c = [j \in Cols |-> IF j \in f.cols THEN k[j].c ELSE 0]
      /\ lp.l = [j \in Cols |-> IF j \in f.cols THEN k[j].l ELSE 0]
      /\ lp.u = [j \in Cols |-> IF j \in f.cols THEN k[j].u ELSE 0]
      /\ lp.AL = [i \in Rows |-> r[i].AL] /\ lp.AU = [i \in Rows |-> r[i].AU]
  BY <1>2
<1>6. /\ Largest \in Nat /\ Inf \in Nat /\ Largest < Inf
      /\ Reach(plan) \in Nat /\ Largest <= Reach(plan)
  <2>1. plan.keepCol \subseteq Cols
    BY <1>3, <1>4
  <2>2. /\ Reach(plan) \in Nat /\ Reach(plan) <= Base /\ Base <= Spread(plan) /\ Spread(plan) < Inf
        /\ Base \in Nat /\ Spread(plan) \in Nat /\ Inf \in Nat
    BY <2>1, Sizes
  <2>3. Cardinality(Cols \ plan.keepCol) \in Nat /\ Largest \in Nat
    BY LinesAreFinite, InfIsFar
  <2>4. Largest <= Grown(Largest, Cardinality(Cols \ plan.keepCol))
    <3> DEFINE n == Cardinality(Cols \ plan.keepCol)
    <3>1. n \in Nat /\ n <= n
      BY <2>3
    <3> HIDE DEF n
    <3>2. Largest <= Grown(Largest, n)
      BY <2>3, <3>1, GrownIs
    <3> QED BY <3>2 DEF n
  <2> QED BY <2>2, <2>3, <2>4 DEF Reach
<1>7. ASSUME NEW v \in Numbers
      PROVE  v \in Int /\ v # Inf /\ v # -Inf /\ IsWithin(v, Reach(plan))
  BY <1>6 DEF Numbers, IsWithin
<1>8. ASSUME NEW j \in Cols
      PROVE  /\ plan.c[j] \in Int
             /\ plan.l[j] \in Int /\ plan.l[j] # Inf /\ LowerEnd(plan.l[j], Reach(plan))
             /\ plan.u[j] \in Int /\ plan.u[j] # -Inf /\ UpperEnd(plan.u[j], Reach(plan))
             /\ j \notin plan.keepCol => plan.c[j] = 0 /\ plan.l[j] = 0 /\ plan.u[j] = 0
  <2>1. CASE j \in f.cols
    <3>1. k[j] \in [c : Int, l : {-Inf} \cup Numbers, u : {Inf} \cup Numbers]
      BY <1>2, <1>3, <2>1
    <3>2. k[j].c \in Int /\ k[j].l \in {-Inf} \cup Numbers /\ k[j].u \in {Inf} \cup Numbers
      BY <3>1
    <3>3. plan.c[j] = k[j].c /\ plan.l[j] = k[j].l /\ plan.u[j] = k[j].u
      BY <1>4, <1>5, <2>1
    <3>4. Inf \in Int /\ -Inf \in Int /\ Inf # -Inf
      BY <1>6
    <3> QED BY <1>4, <1>7, <2>1, <3>2, <3>3, <3>4 DEF LowerEnd, UpperEnd
  <2>2. CASE j \notin f.cols
    <3>1. plan.c[j] = 0 /\ plan.l[j] = 0 /\ plan.u[j] = 0
      BY <1>4, <1>5, <2>2
    <3>2. 0 \in Numbers
      BY <1>6 DEF Numbers
    <3> QED BY <1>7, <3>1, <3>2 DEF LowerEnd, UpperEnd
  <2> QED BY <2>1, <2>2
<1>9. ASSUME NEW i \in Rows
      PROVE  /\ plan.AL[i] \in Int /\ LowerEnd(plan.AL[i], Reach(plan))
             /\ plan.AU[i] \in Int /\ UpperEnd(plan.AU[i], Reach(plan))
             /\ \A j \in Cols : /\ plan.a[i][j] \in -1..1
                                /\ j \notin plan.keepCol => plan.a[i][j] = 0
             /\ plan.a[i] = [j \in Cols |-> plan.a[i][j]]
  <2>1. r[i] \in [AL : {-Inf} \cup Numbers, AU : {Inf} \cup Numbers]
    BY <1>2, <1>3
  <2>2. r[i].AL \in {-Inf} \cup Numbers /\ r[i].AU \in {Inf} \cup Numbers
    BY <2>1
  <2>3. plan.AL[i] = r[i].AL /\ plan.AU[i] = r[i].AU
    BY <1>4, <1>5
  <2>4. Inf \in Int /\ -Inf \in Int
    BY <1>6
  <2>5. plan.AL[i] \in Int /\ LowerEnd(plan.AL[i], Reach(plan))
        /\ plan.AU[i] \in Int /\ UpperEnd(plan.AU[i], Reach(plan))
    BY <1>7, <2>2, <2>3, <2>4 DEF LowerEnd, UpperEnd
  <2>6. plan.a[i] = [j \in Cols |-> IF j \in f.cols THEN a[i][j] ELSE 0]
    BY <1>4, <1>5
  <2>7. \A j \in f.cols : a[i][j] \in -1..1
    BY <1>2, <1>3
  <2> QED BY <1>4, <2>5, <2>6, <2>7
<1>10. Data(plan)
  <2>1. plan.c \in Vectors /\ plan.l \in Vectors /\ plan.u \in Vectors
    <3>1. plan.c = [j \in Cols |-> plan.c[j]] /\ plan.l = [j \in Cols |-> plan.l[j]]
          /\ plan.u = [j \in Cols |-> plan.u[j]]
      BY <1>4, <1>5
    <3> QED BY <1>8, <3>1 DEF Vectors
  <2>2. plan.AL \in [Rows -> Int] /\ plan.AU \in [Rows -> Int]
    <3>1. plan.AL = [i \in Rows |-> plan.AL[i]] /\ plan.AU = [i \in Rows |-> plan.AU[i]]
      BY <1>4, <1>5
    <3> QED BY <1>9, <3>1
  <2>3. plan.a \in [Rows -> [Cols -> -1..1]]
    <3>1. \A i \in Rows : plan.a[i] \in [Cols -> -1..1]
      <4> SUFFICES ASSUME NEW i \in Rows PROVE plan.a[i] \in [Cols -> -1..1]
        OBVIOUS
      <4>1. plan.a[i] = [j \in Cols |-> plan.a[i][j]] /\ \A j \in Cols : plan.a[i][j] \in -1..1
        BY <1>9
      <4> QED BY <4>1
    <3>2. plan.a = [i \in Rows |-> plan.a[i]]
      BY <1>4, <1>5
    <3> QED BY <3>1, <3>2
  <2>4. plan.delta \in Int /\ plan.tape \in Seq(Records)
    BY <1>4
  <2> QED BY <1>3, <1>4, <2>1, <2>2, <2>3, <2>4 DEF Data, IsPlan
<1>11. Reaching(plan)
  <2>1. \A j \in Cols \ plan.keepCol : IsWithin(plan.l[j], Reach(plan))
    BY <1>6, <1>8 DEF IsWithin
  <2> QED BY <1>3, <1>4, <1>8, <1>9, <2>1 DEF Reaching
<1> QED BY <1>4, <1>8, <1>9, <1>10, <1>11 DEF Data

\* A plan that has changed nothing and recorded nothing.
LEMMA ValuesInit == Init => ValuesInv
<1> SUFFICES ASSUME Init PROVE ValuesInv
  OBVIOUS
<1>1. /\ Data(plan) /\ Reaching(plan) /\ lp.c \in Vectors
      /\ plan.a = lp.a /\ plan.c = lp.c /\ plan.l = lp.l /\ plan.u = lp.u
      /\ plan.AL = lp.AL /\ plan.AU = lp.AU /\ plan.delta = 0 /\ plan.tape = << >>
      /\ plan.keepRow = Rows /\ plan.verdict = "none"
      /\ \A j \in Cols : /\ plan.l[j] # Inf /\ plan.u[j] # -Inf
                         /\ j \notin plan.keepCol =>
                              /\ plan.c[j] = 0 /\ plan.l[j] = 0 /\ plan.u[j] = 0
                              /\ \A i \in Rows : plan.a[i][j] = 0
  BY EnteredWith
<1>2. /\ plan.keepCol \subseteq Cols /\ \A i \in Rows : plan.a[i] \in Vectors
      /\ Inf \in Nat /\ Inf > 0
  <2>1. \A i \in Rows : plan.a[i] \in [Cols -> -1..1]
    BY <1>1 DEF Data
  <2>2. \A i \in Rows : plan.a[i] \in [Cols -> Int]
    BY <2>1
  <2> QED BY <1>1, <2>2 DEF Data, IsPlan, Vectors, Inf
\* Outside of the kept columns there is nothing to add.
<1>3. ASSUME NEW x \in Vectors
      PROVE  /\ Activity(lp.c, x, Cols) = Activity(plan.c, x, plan.keepCol)
             /\ Activity(plan.c, x, plan.keepCol) \in Int
             /\ \A i \in Rows : Activity(lp.a[i], x, Cols) = Activity(plan.a[i], x, plan.keepCol)
  <2>1. ASSUME NEW coef \in Vectors, \A j \in Cols \ plan.keepCol : coef[j] = 0
        PROVE  Activity(coef, x, Cols) = Activity(coef, x, plan.keepCol)
    <3>1. ASSUME NEW j \in Cols
          PROVE  Terms(coef, x, Cols)[j] = Terms(coef, x, plan.keepCol)[j]
      <4>1. /\ Terms(coef, x, Cols)[j] = coef[j] * x[j]
            /\ Terms(coef, x, plan.keepCol)[j] = IF j \in plan.keepCol THEN coef[j] * x[j] ELSE 0
        BY ActivityIs
      <4>2. j \notin plan.keepCol => coef[j] * x[j] = 0
        BY <2>1 DEF Vectors
      <4> QED BY <4>1, <4>2
    <3> QED BY <3>1, ActivityAgree
  <2>2. Activity(plan.c, x, plan.keepCol) \in Int
    BY <1>1, ActivityIs
  <2>3. Activity(lp.c, x, Cols) = Activity(plan.c, x, plan.keepCol)
    BY <1>1, <2>1
  <2>4. \A i \in Rows : Activity(lp.a[i], x, Cols) = Activity(plan.a[i], x, plan.keepCol)
    BY <1>1, <1>2, <2>1
  <2> QED BY <2>2, <2>3, <2>4
<1>4. ASSUME NEW x \in Vectors
      PROVE  /\ Cost(lp, x) = CostOf(plan, x)
             /\ Feasible(lp, x) => Solves(plan, x)
             /\ Solves(plan, x) /\ (\A j \in Cols \ plan.keepCol : x[j] = 0) => Feasible(lp, x)
             /\ Feasible(lp, x) => \A j \in Cols : plan.l[j] <= plan.u[j]
  <2>1. Cost(lp, x) = CostOf(plan, x)
    BY <1>1, <1>3 DEF Cost, CostOf
  <2>2. Feasible(lp, x) => Solves(plan, x)
    BY <1>1, <1>2, <1>3 DEF Feasible, Solves, Satisfies
  <2>3. ASSUME Solves(plan, x), \A j \in Cols \ plan.keepCol : x[j] = 0
        PROVE  Feasible(lp, x)
    <3>1. \A j \in Cols : Within(lp.l[j], x[j], lp.u[j])
      <4>1. \A j \in Cols \ plan.keepCol : Within(lp.l[j], x[j], lp.u[j])
        BY <1>1, <2>3 DEF Within
      <4> QED BY <1>1, <2>3, <4>1, SolvesIs
    <3>2. \A i \in Rows : Within(lp.AL[i], Activity(lp.a[i], x, Cols), lp.AU[i])
      BY <1>1, <1>3, <2>3, SolvesIs
    <3> QED BY <3>1, <3>2 DEF Feasible, Satisfies
  <2>4. ASSUME Feasible(lp, x), NEW j \in Cols PROVE plan.l[j] <= plan.u[j]
    <3> DEFINE l == plan.l[j]
               u == plan.u[j]
    <3>1. Within(l, x[j], u)
      BY <1>1, <2>4 DEF Feasible, Satisfies
    <3>2. l \in Int /\ u \in Int /\ x[j] \in Int /\ l # Inf /\ u # -Inf
      BY <1>1 DEF Data, Vectors
    <3>3. /\ LowerEnd(l, Reach(plan)) \/ l = 0
          /\ UpperEnd(u, Reach(plan)) \/ u = 0
      BY <1>1 DEF Reaching
    <3>4. Reach(plan) \in Nat /\ Reach(plan) < Inf
      <4>1. /\ Reach(plan) \in Nat /\ Reach(plan) <= Base /\ Base <= Spread(plan)
            /\ Spread(plan) < Inf /\ Base \in Nat /\ Spread(plan) \in Nat
        BY <1>2, Sizes
      <4> QED BY <1>2, <4>1
    <3> HIDE DEF l, u
    <3>5. l = -Inf \/ (-Reach(plan) <= l /\ l <= Reach(plan)) \/ l = 0
      BY <3>3 DEF LowerEnd, IsWithin
    <3>6. u = Inf \/ (-Reach(plan) <= u /\ u <= Reach(plan)) \/ u = 0
      BY <3>3 DEF UpperEnd, IsWithin
    <3>7. l = -Inf \/ l <= x[j]
      BY <3>1 DEF Within
    <3>8. u = Inf \/ x[j] <= u
      BY <3>1 DEF Within
    <3> QED BY <1>2, <3>2, <3>4, <3>5, <3>6, <3>7, <3>8 DEF l, u
  <2> QED BY <2>1, <2>2, <2>3, <2>4
<1>5. Goes(lp, plan)
  <2> SUFFICES ASSUME NEW x \in Vectors, Feasible(lp, x)
               PROVE  /\ Solves(plan, x) /\ CostOf(plan, x) <= Cost(lp, x)
                      /\ \A j \in Cols : plan.l[j] <= plan.u[j]
    BY DEF Goes
  <2>1. CostOf(plan, x) \in Int
    BY <1>1, <1>3 DEF CostOf
  <2> QED BY <1>4, <2>1
<1>6. Comes(lp, plan)
  <2> SUFFICES ASSUME NEW x \in Vectors, IsStart(plan, x)
               PROVE  /\ Cost(lp, Replay(plan.tape, x)) = CostOf(plan, x)
                      /\ Solves(plan, x) => Feasible(lp, Replay(plan.tape, x))
    BY DEF Comes
  <2>1. Replay(plan.tape, x) = x
    <3>1. Len(plan.tape) = 0
      BY <1>1
    <3>2. Replay(plan.tape, x) = Rewound(plan.tape, x, 0)
      BY <3>1 DEF Replay
    <3> QED BY <3>2, RewoundStep
  <2>2. \A j \in Cols \ plan.keepCol : x[j] = 0
    BY <1>1, <1>2 DEF IsStart, IsFinite
  <2> QED BY <1>4, <2>1, <2>2
<1>7. TapeLeft(plan)
  <2>1. 1..Len(plan.tape) = {}
    BY <1>1
  <2> QED BY <2>1 DEF TapeLeft, Recovers
<1>8. RowsReady
  BY DEF RowsReady, Init
<1> QED BY <1>1, <1>5, <1>6, <1>7, <1>8 DEF ValuesInv, PlanInv

\* What the masks name where a rule reads them.
LEMMA LiveSingletons ==
  ASSUME IsPlan(plan)
  PROVE  /\ Counted(RowEntries(plan.a), plan.keepRow, plan.keepCol, rowNnz, singRow) =>
              \A i \in Rows : singRow[i] # 0 => RowCols(plan, i) = {singRow[i]}
         /\ Counted(ColEntries(plan.a), plan.keepCol, plan.keepRow, colNnz, singCol) =>
              \A j \in Cols : singCol[j] # 0 => ColRows(plan, j) = {singCol[j]}
<1> DEFINE R == RowEntries(plan.a)
           C == ColEntries(plan.a)
<1>1. /\ DOMAIN R = Rows /\ DOMAIN C = Cols
      /\ \A i \in Rows : RowCols(plan, i) = R[i] \cap plan.keepCol
      /\ \A j \in Cols : ColRows(plan, j) = C[j] \cap plan.keepRow
  BY LiveEntries, Entered
<1> HIDE DEF R, C
<1>2. ASSUME Counted(R, plan.keepRow, plan.keepCol, rowNnz, singRow), NEW i \in Rows, singRow[i] # 0
      PROVE  RowCols(plan, i) = {singRow[i]}
  <2>1. i \in DOMAIN R
    BY <1>1
  <2>2. R[i] \cap plan.keepCol = {singRow[i]}
    BY <1>2, <2>1 DEF Counted
  <2> QED BY <1>1, <2>2
<1>3. ASSUME Counted(C, plan.keepCol, plan.keepRow, colNnz, singCol), NEW j \in Cols, singCol[j] # 0
      PROVE  ColRows(plan, j) = {singCol[j]}
  <2>1. j \in DOMAIN C
    BY <1>1
  <2>2. C[j] \cap plan.keepRow = {singCol[j]}
    BY <1>3, <2>1 DEF Counted
  <2> QED BY <1>1, <2>2
<1> QED BY <1>2, <1>3 DEF R, C

\* A rule changes the plan and keeps what it says of the LP; all other steps
\* leave the plan as it is.
LEMMA ValuesNext == ClosureInv /\ ValuesInv /\ [Next]_vars => ValuesInv'
<1> SUFFICES ASSUME ClosureInv, ValuesInv, [Next]_vars PROVE ValuesInv'
  OBVIOUS
<1>1. /\ lp.c \in Vectors /\ PlanInv(lp, plan) /\ RowsReady /\ Data(plan) /\ IsPlan(plan)
      /\ StatsInv /\ SweptInv
  BY DEF ValuesInv, ClosureInv, PlanInv
<1>2. lp' = lp
  BY DEF Next, vars, EqStep, MarkStep, DualStep, RefreshStep, RowsStep, EndRound, Finish, Expire
<1>3. CASE EqStep
  <2>1. pc = "eq" /\ pc' # "rows"
    BY <1>3 DEF EqStep
  <2>2. CASE Stopped
    <3>1. plan' = plan
      BY <1>3, <2>2 DEF EqStep
    <3> QED BY <1>1, <1>2, <2>1, <3>1 DEF ValuesInv, RowsReady
  <2>3. CASE ~Stopped
    <3>1. Counted(ColEntries(plan.a), plan.keepCol, plan.keepRow, colNnz, singCol)
      BY <1>1, <2>1, <2>3 DEF StatsInv, StatsOf
    <3>2. \A j \in Cols : singCol[j] # 0 => ColRows(plan, j) = {singCol[j]}
      BY <1>1, <3>1, LiveSingletons
    <3>3. Pairs(plan, Owned(plan, singCol))
      BY <1>1, <3>2, OwnedPairs
    <3>4. PlanInv(lp, ColumnSingletonsEq(plan, Owned(plan, singCol)))
      BY <1>1, <3>3, EqKeeps
    <3>5. plan' = ColumnSingletonsEq(plan, Owned(plan, singCol))
      BY <1>3, <2>3 DEF EqStep
    <3>6. PlanInv(lp, plan')
      BY <3>4, <3>5
    <3> QED BY <1>2, <2>1, <3>6 DEF ValuesInv, RowsReady
  <2> QED BY <2>2, <2>3
<1>4. CASE DualStep
  <2>1. pc = "dual" /\ pc' # "rows" /\ plan' = DualFix(plan, candidates)
    BY <1>4 DEF DualStep
  <2>2. plan.verdict = "none"
    BY <1>1, <2>1 DEF SweptInv
  <2>3. PlanInv(lp, plan')
    BY <1>1, <2>1, <2>2, DualFixKeeps
  <2> QED BY <1>2, <2>1, <2>3 DEF ValuesInv, RowsReady
<1>5. CASE RefreshStep
  <2>1. plan' = plan
    BY <1>5 DEF RefreshStep
  <2>2. ASSUME pc' = "rows"
        PROVE  rowsBefore' = plan.keepRow /\ colsBefore' = plan.keepCol /\ plan.verdict = "none"
    <3>1. ~Stopped
      BY <1>5, <2>2 DEF RefreshStep
    <3> QED BY <1>5, <3>1 DEF RefreshStep, RefreshStats, Stopped
  <2> QED BY <1>1, <1>2, <2>1, <2>2 DEF ValuesInv, RowsReady
<1>6. CASE RowsStep
  <2>1. pc = "rows" /\ pc' # "rows" /\ plan' = SingletonRows(plan, singRow)
    BY <1>6 DEF RowsStep
  <2>2. rowsBefore = plan.keepRow /\ colsBefore = plan.keepCol /\ plan.verdict = "none"
    BY <1>1, <2>1 DEF RowsReady
  <2>3. Counted(RowEntries(plan.a), plan.keepRow, plan.keepCol, rowNnz, singRow)
    BY <1>1, <2>2 DEF StatsInv, StatsOf
  <2>4. \A i \in Rows : singRow[i] # 0 => RowCols(plan, i) = {singRow[i]}
    BY <1>1, <2>3, LiveSingletons
  <2>5. \A i \in plan.keepRow : singRow[i] # 0 => RowCols(plan, i) = {singRow[i]}
    BY <1>1, <2>4 DEF IsPlan
  <2>6. PlanInv(lp, plan')
    BY <1>1, <2>1, <2>2, <2>5, SingletonRowsKeep
  <2> QED BY <1>2, <2>1, <2>6 DEF ValuesInv, RowsReady
<1>7. CASE MarkStep \/ EndRound \/ Finish
  <2>1. plan' = plan /\ pc' # "rows"
    BY <1>7 DEF MarkStep, EndRound, Finish
  <2> QED BY <1>1, <1>2, <2>1 DEF ValuesInv, RowsReady
<1>8. CASE Expire \/ UNCHANGED vars
  <2>1. plan' = plan /\ pc' = pc /\ rowsBefore' = rowsBefore /\ colsBefore' = colsBefore
    BY <1>8 DEF Expire, vars, statVars
  <2> QED BY <1>1, <1>2, <2>1 DEF ValuesInv, RowsReady
<1> QED BY <1>3, <1>4, <1>5, <1>6, <1>7, <1>8 DEF Next

\* At every statement of the loop the plan and its tape mean the LP the closure
\* was entered with: what postsolve brings back is a point of it at the cost the
\* plan said, every point of it is one of the plan at no more cost, and no number
\* has grown into Inf.
THEOREM ClosureValuesInvariant == Spec => []ValuesInv
<1>1. Init => ValuesInv
  BY ValuesInit
<1>2. ClosureInv /\ ValuesInv /\ [Next]_vars => ValuesInv'
  BY ValuesNext
<1> QED BY <1>1, <1>2, ClosureInvariant, PTL DEF Spec

\* A point that postsolve starts from.
LEMMA StartIs ==
  ASSUME ValuesInv, NEW z \in ReducedPoints
  PROVE  LET start == [j \in Cols |-> IF j \in plan.keepCol THEN z[j]
                                     ELSE IF IsFinite(plan.l[j]) /\ plan.l[j] = plan.u[j] THEN plan.l[j]
                                     ELSE 0]
         IN /\ start \in Vectors /\ IsStart(plan, start) /\ IsSpread(plan, start) /\ Solves(plan, start)
            /\ CostOf(plan, start) = Activity(plan.c, z, plan.keepCol) + plan.delta
            /\ Recovered(z) = Replay(plan.tape, start)
<1> DEFINE start == [j \in Cols |-> IF j \in plan.keepCol THEN z[j]
                                   ELSE IF IsFinite(plan.l[j]) /\ plan.l[j] = plan.u[j] THEN plan.l[j]
                                   ELSE 0]
<1>1. /\ Data(plan) /\ Reaching(plan) /\ plan.keepCol \subseteq Cols /\ plan.keepRow \subseteq Rows
      /\ plan.l \in Vectors /\ plan.c \in Vectors
      /\ \A i \in plan.keepRow : plan.a[i] \in Vectors
  <2>1. Data(plan) /\ Reaching(plan)
    BY DEF ValuesInv, PlanInv
  <2>2. plan.keepCol \subseteq Cols /\ plan.keepRow \subseteq Rows
    BY <2>1 DEF Data, IsPlan
  <2>3. \A i \in Rows : plan.a[i] \in [Cols -> -1..1]
    BY <2>1 DEF Data
  <2>4. \A i \in Rows : plan.a[i] \in [Cols -> Int]
    BY <2>3
  <2> QED BY <2>1, <2>2, <2>4 DEF Data, Vectors
<1>2. /\ z \in Vectors /\ \A j \in Cols : z[j] \in ValuesOf(plan, Box, j)
      /\ \A i \in plan.keepRow : Within(plan.AL[i], Activity(plan.a[i], z, plan.keepCol), plan.AU[i])
  BY SmallLpAssumption, PointsAre DEF ReducedPoints
<1>3. /\ Reach(plan) \in Nat /\ Spread(plan) \in Nat /\ Inf \in Nat /\ Box \in Nat
      /\ Box <= Spread(plan) /\ Reach(plan) <= Spread(plan) /\ Spread(plan) < Inf
  <2>1. /\ Reach(plan) \in Nat /\ Spread(plan) \in Nat /\ Inf \in Nat /\ Base \in Nat
        /\ Box <= Base /\ Base <= Spread(plan) /\ Reach(plan) <= Base /\ Spread(plan) < Inf
    BY <1>1, Sizes
  <2> QED BY <2>1, SmallLpAssumption
<1>4. ASSUME NEW j \in plan.keepCol
      PROVE  /\ start[j] = z[j] /\ z[j] \in Int /\ -Box <= z[j] /\ z[j] <= Box
             /\ Within(plan.l[j], z[j], plan.u[j])
  <2>1. j \in Cols /\ start[j] = z[j]
    BY <1>1
  <2>2. z[j] \in ValuesOf(plan, Box, j)
    BY <1>2, <2>1
  <2>3. z[j] \in (-Box)..Box /\ Within(plan.l[j], z[j], plan.u[j])
    BY <2>2 DEF ValuesOf
  <2> HIDE DEF start
  <2> QED BY <2>1, <2>3, SmallLpAssumption
<1>5. ASSUME NEW j \in Cols
      PROVE  /\ start[j] \in Int /\ IsWithin(start[j], Spread(plan))
             /\ j \notin plan.keepCol /\ IsFinite(plan.l[j]) /\ plan.l[j] = plan.u[j]
                  => start[j] = plan.l[j]
  <2>1. CASE j \in plan.keepCol
    <3> HIDE DEF start
    <3> QED BY <1>3, <1>4, <2>1 DEF IsWithin
  <2>2. CASE j \notin plan.keepCol
    <3>1. /\ plan.l[j] \in Int
          /\ IsFinite(plan.l[j]) => -Reach(plan) <= plan.l[j] /\ plan.l[j] <= Reach(plan)
      BY <1>1, <2>2 DEF Reaching, Vectors, IsWithin
    <3>2. start[j] = IF IsFinite(plan.l[j]) /\ plan.l[j] = plan.u[j] THEN plan.l[j] ELSE 0
      BY <2>2
    <3> HIDE DEF start
    <3> QED BY <1>3, <2>2, <3>1, <3>2 DEF IsWithin
  <2> QED BY <2>1, <2>2
<1>6. start \in Vectors /\ IsSpread(plan, start)
  <2>1. start = [j \in Cols |-> start[j]]
    OBVIOUS
  <2> HIDE DEF start
  <2> QED BY <1>5, <2>1 DEF Vectors, IsSpread
<1> HIDE DEF start
<1>7. IsStart(plan, start)
  <2>1. ASSUME NEW j \in Cols PROVE IsFinite(start[j])
    BY <1>3, <1>5 DEF IsWithin, IsFinite
  <2> QED BY <1>5, <1>6, <2>1 DEF IsStart, IsPoint
<1>8. ASSUME NEW coef \in Vectors
      PROVE  Activity(coef, start, plan.keepCol) = Activity(coef, z, plan.keepCol)
  <2>1. ASSUME NEW j \in Cols
        PROVE  Terms(coef, start, plan.keepCol)[j] = Terms(coef, z, plan.keepCol)[j]
    BY <1>2, <1>4, <1>6, ActivityIs
  <2> QED BY <1>2, <1>6, <2>1, ActivityAgree
<1>9. Solves(plan, start)
  <2>1. \A j \in plan.keepCol : Within(plan.l[j], start[j], plan.u[j])
    BY <1>4
  <2>2. \A i \in plan.keepRow : Within(plan.AL[i], Activity(plan.a[i], start, plan.keepCol), plan.AU[i])
    BY <1>1, <1>2, <1>8
  <2> QED BY <2>1, <2>2, SolvesIs
<1>10. CostOf(plan, start) = Activity(plan.c, z, plan.keepCol) + plan.delta
  BY <1>1, <1>8 DEF CostOf
<1>11. Recovered(z) = Replay(plan.tape, start)
  BY DEF Recovered, start
<1> QED BY <1>6, <1>7, <1>9, <1>10, <1>11 DEF start

\* What the invariant says of a point that postsolve starts from.
LEMMA ComesBackFeasible ==
  ASSUME ValuesInv, NEW z \in ReducedPoints
  PROVE  /\ ~HasInfiniteFix => Feasible(lp, Recovered(z))
         /\ IsPoint(Recovered(z)) =>
              Cost(lp, Recovered(z)) = Activity(plan.c, z, plan.keepCol) + plan.delta
<1>1. PICK start \in Vectors :
        /\ IsStart(plan, start) /\ IsSpread(plan, start) /\ Solves(plan, start)
        /\ CostOf(plan, start) = Activity(plan.c, z, plan.keepCol) + plan.delta
        /\ Recovered(z) = Replay(plan.tape, start)
  BY StartIs
<1>2. HasInfiniteFix <=> LeavesInfinite(plan)
  <2>1. DOMAIN plan.tape = 1..Len(plan.tape)
    BY DEF ValuesInv, PlanInv, Data
  <2> QED BY <2>1 DEF HasInfiniteFix, LeavesInfinite
<1>3. Comes(lp, plan)
  BY DEF ValuesInv, PlanInv
<1> QED BY <1>1, <1>2, <1>3 DEF Comes

\* Every point of the reduced LP comes back as a point of the LP the closure was
\* entered with, unless a column was left to an infinite fix, and costs there
\* what the reduced LP said: the one tape of all rounds, each of whose records
\* was written against the plan of its own round, undoes them all.
THEOREM ClosureRecoversFeasible == Spec => []RecoversFeasible
<1>1. ValuesInv => RecoversFeasible
  BY ComesBackFeasible DEF RecoversFeasible
<1> QED BY <1>1, ClosureValuesInvariant, PTL

\* The points of the LP that the runs enumerate.
LEMMA UserPointsAre ==
  ASSUME NEW x \in UserPoints(Box)
  PROVE  x \in Vectors /\ Feasible(lp, x)
<1> DEFINE p == NewPlan(lp)
<1>1. /\ p.keepCol = Cols /\ p.keepRow = Rows /\ p.l = lp.l /\ p.u = lp.u /\ p.a = lp.a
      /\ p.AL = lp.AL /\ p.AU = lp.AU
  BY DEF NewPlan
<1>2. x \in PointsOf(p, Box) /\ Box \in Nat
  BY SmallLpAssumption DEF UserPoints
<1> HIDE DEF p
<1>3. /\ x \in Vectors /\ \A j \in Cols : x[j] \in ValuesOf(p, Box, j)
      /\ \A i \in p.keepRow : Within(p.AL[i], Activity(p.a[i], x, p.keepCol), p.AU[i])
  BY <1>2, PointsAre
<1>4. \A j \in Cols : Within(lp.l[j], x[j], lp.u[j])
  BY <1>1, <1>3 DEF ValuesOf
<1> QED BY <1>1, <1>3, <1>4 DEF Feasible, Satisfies

\* A point of the LP is a point of the reduced LP, at no more cost there: with
\* ClosureRecoversFeasible, no rule of the closure loses an optimum.
THEOREM ClosureLosesNoBetterPoint == Spec => []NoBetterPointLost
<1>1. ValuesInv => NoBetterPointLost
  <2> SUFFICES ASSUME ValuesInv, NEW x \in UserPoints(Box)
               PROVE  /\ Satisfies(plan, plan.keepRow, plan.keepCol, x)
                      /\ Activity(plan.c, x, plan.keepCol) + plan.delta <= Cost(lp, x)
    BY DEF NoBetterPointLost
  <2>1. Goes(lp, plan)
    BY DEF ValuesInv, PlanInv
  <2>2. Solves(plan, x) /\ CostOf(plan, x) <= Cost(lp, x)
    BY <2>1, UserPointsAre DEF Goes
  <2> QED BY <2>2 DEF Solves, CostOf
<1> QED BY <1>1, ClosureValuesInvariant, PTL

\* From every point of the plan a step of one column leads to a cheaper one.
Escapes(p) ==
  \A x \in Vectors : Solves(p, x) =>
    \E j \in p.keepCol, d \in {-1, 1} :
      p.c[j] * d < 0 /\ Solves(p, [x EXCEPT ![j] = @ + d])

\* A column whose cost asks for a direction in which neither its bound nor any
\* of its rows holds it.
LEMMA OpenEscapes ==
  ASSUME NEW p, Data(p), NEW j \in p.keepCol, NEW d \in {-1, 1}, p.c[j] * d < 0,
         d < 0 => p.l[j] = -Inf,
         d > 0 => p.u[j] = Inf,
         \A i \in p.keepRow : p.a[i][j] * d < 0 => p.AL[i] = -Inf,
         \A i \in p.keepRow : p.a[i][j] * d > 0 => p.AU[i] = Inf
  PROVE  Escapes(p)
<1> SUFFICES ASSUME NEW x \in Vectors, Solves(p, x)
             PROVE  Solves(p, [x EXCEPT ![j] = @ + d])
  BY DEF Escapes
<1> DEFINE y == [x EXCEPT ![j] = @ + d]
<1>1. /\ j \in Cols /\ p.keepCol \subseteq Cols /\ p.keepRow \subseteq Rows /\ d \in Int
      /\ \A k \in p.keepCol : Within(p.l[k], x[k], p.u[k]) /\ p.l[k] \in Int /\ p.u[k] \in Int /\ x[k] \in Int
      /\ \A i \in p.keepRow : Within(p.AL[i], Activity(p.a[i], x, p.keepCol), p.AU[i])
      /\ \A i \in p.keepRow : p.AL[i] \in Int /\ p.AU[i] \in Int
  BY SolvesIs DEF Data, IsPlan, Vectors
<1>2. y \in Vectors /\ y[j] = x[j] + d /\ \A k \in Cols : k # j => y[k] = x[k]
  BY <1>1 DEF Vectors
<1>3. ASSUME NEW k \in p.keepCol PROVE Within(p.l[k], y[k], p.u[k])
  <2>1. CASE k # j
    <3>1. y[k] = x[k]
      BY <1>1, <1>2, <2>1
    <3> HIDE DEF y
    <3> QED BY <1>1, <3>1
  <2>2. CASE k = j
    <3> HIDE DEF y
    <3> QED BY <1>1, <1>2, <2>2 DEF Within
  <2> QED BY <2>1, <2>2
<1>4. ASSUME NEW i \in p.keepRow
      PROVE  Within(p.AL[i], Activity(p.a[i], y, p.keepCol), p.AU[i])
  <2>1. p.a[i] \in Vectors
    <3>1. p.a[i] \in [Cols -> -1..1]
      BY <1>1 DEF Data
    <3> QED BY <3>1 DEF Vectors
  <2>2. Activity(p.a[i], y, p.keepCol) = Activity(p.a[i], x, p.keepCol) + p.a[i][j] * d
    BY <1>1, <2>1, ActivityShift
  <2> DEFINE v == Activity(p.a[i], x, p.keepCol)
             e == p.a[i][j] * d
  <2>3. v \in Int /\ p.a[i][j] \in Int
    BY <1>1, <2>1, ActivityIs DEF Vectors
  <2>4. e \in Int
    BY <1>1, <2>3
  <2>5. e < 0 => p.AL[i] = -Inf
    OBVIOUS
  <2>6. e > 0 => p.AU[i] = Inf
    OBVIOUS
  <2>7. Within(p.AL[i], v, p.AU[i]) /\ p.AL[i] \in Int /\ p.AU[i] \in Int
    BY <1>1
  <2> HIDE DEF v, e
  <2>8. Within(p.AL[i], v + e, p.AU[i])
    BY <2>3, <2>4, <2>5, <2>6, <2>7 DEF Within
  <2> QED BY <2>2, <2>8 DEF v, e
<1> HIDE DEF y
<1>5. Solves(p, y)
  BY <1>3, <1>4, SolvesIs
<1> QED BY <1>5 DEF y

\* What dual fixing calls unbounded is: the column it found has such a cost.
LEMMA UnboundedEscapes ==
  ASSUME NEW p, Data(p), Reaching(p), NEW j \in p.keepCol, Fate(p, j) = "unbounded"
  PROVE  Escapes(p)
<1> DEFINE down == p.c[j] >= 0 /\ ~DownLocked(p, j)
           up == p.c[j] <= 0 /\ ~UpLocked(p, j)
<1>1. /\ p.l[j] \in Int /\ p.u[j] \in Int /\ p.c[j] \in Int /\ j \in Cols
      /\ p.keepRow \subseteq Rows /\ \A i \in p.keepRow : p.a[i][j] \in Int
  <2>1. j \in Cols /\ p.keepRow \subseteq Rows
    BY DEF Data, IsPlan
  <2>2. \A i \in Rows, k \in Cols : p.a[i][k] \in -1..1
    BY DEF Data
  <2>3. \A i \in p.keepRow : p.a[i][j] \in Int
    BY <2>1, <2>2
  <2> QED BY <2>1, <2>3 DEF Data, Vectors
<1>2. /\ down \/ up
      /\ p.c[j] # 0
      /\ ~IsFinite(IF down THEN p.l[j] ELSE p.u[j])
  BY DEF Fate
<1>3. Reach(p) \in Nat /\ Inf \in Nat /\ Reach(p) < Inf
  <2>1. p.keepCol \subseteq Cols
    BY DEF Data, IsPlan
  <2> QED BY <2>1, Sizes
<1>4. /\ LowerEnd(p.l[j], Reach(p)) /\ UpperEnd(p.u[j], Reach(p))
      /\ \A i \in p.keepRow : LowerEnd(p.AL[i], Reach(p)) /\ UpperEnd(p.AU[i], Reach(p))
      /\ \A i \in p.keepRow : p.AL[i] \in Int /\ p.AU[i] \in Int
  BY <1>1 DEF Reaching, Data
<1>5. /\ ~IsFinite(p.l[j]) => p.l[j] = -Inf
      /\ ~IsFinite(p.u[j]) => p.u[j] = Inf
      /\ \A i \in p.keepRow : ~IsFinite(p.AL[i]) => p.AL[i] = -Inf
      /\ \A i \in p.keepRow : ~IsFinite(p.AU[i]) => p.AU[i] = Inf
  BY <1>1, <1>3, <1>4 DEF LowerEnd, UpperEnd, IsWithin, IsFinite
<1>6. CASE down
  <2>1. p.c[j] * (-1) < 0 /\ p.l[j] = -Inf
    BY <1>1, <1>2, <1>5, <1>6
  <2>2. \A i \in p.keepRow : p.a[i][j] * (-1) < 0 => p.AL[i] = -Inf
    BY <1>1, <1>5, <1>6 DEF DownLocked, ColRows
  <2>3. \A i \in p.keepRow : p.a[i][j] * (-1) > 0 => p.AU[i] = Inf
    BY <1>1, <1>5, <1>6 DEF DownLocked, ColRows
  <2>4. (-1) \in {-1, 1} /\ -1 < 0 /\ ~(-1 > 0)
    OBVIOUS
  <2> QED BY <2>1, <2>2, <2>3, <2>4, OpenEscapes
<1>7. CASE ~down
  <2>0. up /\ p.u[j] = Inf
    BY <1>2, <1>5, <1>7
  <2>1. p.c[j] * 1 < 0
    BY <1>1, <1>2, <2>0
  <2>2. \A i \in p.keepRow : p.a[i][j] * 1 < 0 => p.AL[i] = -Inf
    BY <1>1, <1>5, <2>0 DEF UpLocked, ColRows
  <2>3. \A i \in p.keepRow : p.a[i][j] * 1 > 0 => p.AU[i] = Inf
    BY <1>1, <1>5, <2>0 DEF UpLocked, ColRows
  <2>4. 1 \in {-1, 1} /\ ~(1 < 0) /\ 1 > 0
    OBVIOUS
  <2> QED BY <2>0, <2>1, <2>2, <2>3, <2>4, OpenEscapes
<1> QED BY <1>6, <1>7

UnboundedInv == plan.verdict = "unbounded" => Escapes(plan)

\* Only dual fixing has that verdict, and no rule runs after it.
LEMMA UnboundedNext == ClosureInv /\ ValuesInv /\ UnboundedInv /\ [Next]_vars => UnboundedInv'
<1> SUFFICES ASSUME ClosureInv, ValuesInv, UnboundedInv, [Next]_vars, plan'.verdict = "unbounded"
             PROVE  Escapes(plan')
  BY DEF UnboundedInv
<1>1. /\ Data(plan) /\ Reaching(plan) /\ IsPlan(plan) /\ RowsReady /\ SweptInv
  BY DEF ValuesInv, ClosureInv, PlanInv
<1>2. CASE plan' = plan
  <2>1. Escapes(plan)
    BY <1>2 DEF UnboundedInv
  <2> QED BY <1>2, <2>1
<1>3. CASE EqStep /\ ~Stopped
  <2>1. plan' = ColumnSingletonsEq(plan, Owned(plan, singCol)) /\ plan.verdict = "none"
    BY <1>3 DEF EqStep, Stopped
  <2>2. plan'.verdict = plan.verdict
    BY <1>1, <2>1 DEF ColumnSingletonsEq, Solved, IsPlan, PlanFields
  <2> QED BY <2>1, <2>2
<1>4. CASE RowsStep
  <2>1. plan' = SingletonRows(plan, singRow) /\ plan.verdict = "none"
    BY <1>1, <1>4 DEF RowsStep, RowsReady
  <2>2. plan'.verdict \in {"none", "infeasible"}
    BY <1>1, <2>1 DEF SingletonRows, IsPlan, PlanFields
  <2> QED BY <2>2
<1>5. CASE DualStep
  <2>1. plan' = DualFix(plan, candidates) /\ plan.verdict = "none"
    BY <1>1, <1>5 DEF DualStep, SweptInv
  <2>2. CASE \E j \in plan.keepCol \cap candidates : Fate(plan, j) = "unbounded"
    <3>1. plan' = [plan EXCEPT !.verdict = "unbounded"]
      BY <2>1, <2>2 DEF DualFix
    <3>2. Escapes(plan)
      BY <1>1, <2>2, UnboundedEscapes
    <3>3. /\ plan'.a = plan.a /\ plan'.keepRow = plan.keepRow /\ plan'.keepCol = plan.keepCol
          /\ plan'.c = plan.c /\ plan'.l = plan.l /\ plan'.u = plan.u
          /\ plan'.AL = plan.AL /\ plan'.AU = plan.AU
      BY <1>1, <3>1 DEF IsPlan, PlanFields
    <3>4. \A x : Solves(plan', x) <=> Solves(plan, x)
      BY <3>3 DEF Solves, Satisfies
    <3> QED BY <3>2, <3>3, <3>4 DEF Escapes
  <2>3. CASE ~\E j \in plan.keepCol \cap candidates : Fate(plan, j) = "unbounded"
    <3>1. plan'.verdict \in {"none", "infeasible"}
      BY <1>1, <2>1, <2>3 DEF DualFix, IsPlan, PlanFields
    <3> QED BY <3>1
  <2> QED BY <2>2, <2>3
<1> QED BY <1>2, <1>3, <1>4, <1>5 DEF Next, vars, EqStep, MarkStep, RefreshStep, EndRound, Finish, Expire

\* What the closure calls unbounded is, as far as points within the box of the
\* run can tell: every point of the LP is undercut by one of the reduced LP, and
\* that one comes back.
LEMMA UndercutIs ==
  ASSUME ValuesInv, UnboundedInv, plan.verdict = "unbounded", NEW x \in UserPoints(Box - 1)
  PROVE  \E z \in ReducedPoints : CostOf(plan, z) < Cost(lp, x)
<1> DEFINE p == NewPlan(lp)
           start == [k \in Cols |-> IF k \in plan.keepCol THEN x[k] ELSE 0]
<1>1. /\ p.keepCol = Cols /\ p.keepRow = Rows /\ p.l = lp.l /\ p.u = lp.u /\ p.a = lp.a
      /\ p.AL = lp.AL /\ p.AU = lp.AU
  BY DEF NewPlan
<1>2. x \in PointsOf(p, Box - 1) /\ Box \in Nat /\ Box - 1 \in Int
  BY SmallLpAssumption DEF UserPoints
<1> HIDE DEF p
<1>3. /\ x \in Vectors /\ \A j \in Cols : x[j] \in ValuesOf(p, Box - 1, j)
      /\ \A i \in p.keepRow : Within(p.AL[i], Activity(p.a[i], x, p.keepCol), p.AU[i])
  BY <1>2, PointsAre
<1>4. Feasible(lp, x) /\ \A j \in Cols : x[j] \in (1 - Box)..(Box - 1) /\ Within(lp.l[j], x[j], lp.u[j])
  <2>1. ASSUME NEW j \in Cols PROVE x[j] \in (1 - Box)..(Box - 1) /\ Within(lp.l[j], x[j], lp.u[j])
    <3>1. x[j] \in (-(Box - 1))..(Box - 1) /\ Within(lp.l[j], x[j], lp.u[j])
      BY <1>1, <1>3 DEF ValuesOf
    <3> QED BY <1>2, <3>1
  <2> QED BY <1>1, <1>3, <2>1 DEF Feasible, Satisfies
<1>5. /\ Data(plan) /\ Goes(lp, plan) /\ plan.keepCol \subseteq Cols /\ plan.keepRow \subseteq Rows
      /\ plan.c \in Vectors /\ plan.delta \in Int /\ lp.c \in Vectors
      /\ \A i \in plan.keepRow : plan.a[i] \in Vectors
  <2>1. Data(plan) /\ Goes(lp, plan) /\ lp.c \in Vectors
    BY DEF ValuesInv, PlanInv
  <2>2. plan.keepCol \subseteq Cols /\ plan.keepRow \subseteq Rows
    BY <2>1 DEF Data, IsPlan
  <2>3. \A i \in Rows : plan.a[i] \in [Cols -> -1..1]
    BY <2>1 DEF Data
  <2>4. \A i \in Rows : plan.a[i] \in [Cols -> Int]
    BY <2>3
  <2> QED BY <2>1, <2>2, <2>4 DEF Data, Vectors
<1>6. Solves(plan, x) /\ CostOf(plan, x) <= Cost(lp, x)
  BY <1>3, <1>4, <1>5 DEF Goes
<1>7. start \in Vectors /\ \A k \in Cols : start[k] = IF k \in plan.keepCol THEN x[k] ELSE 0
  BY <1>3 DEF Vectors
<1> HIDE DEF start
<1>8. ASSUME NEW coef \in Vectors
      PROVE  Activity(coef, start, plan.keepCol) = Activity(coef, x, plan.keepCol)
  <2>1. ASSUME NEW k \in Cols
        PROVE  Terms(coef, start, plan.keepCol)[k] = Terms(coef, x, plan.keepCol)[k]
    BY <1>3, <1>7, ActivityIs
  <2> QED BY <1>3, <1>7, <2>1, ActivityAgree
<1>9. Solves(plan, start) /\ CostOf(plan, start) = CostOf(plan, x)
  <2>1. \A k \in plan.keepCol : Within(plan.l[k], start[k], plan.u[k])
    BY <1>5, <1>6, <1>7, SolvesIs
  <2>2. \A i \in plan.keepRow : Within(plan.AL[i], Activity(plan.a[i], start, plan.keepCol), plan.AU[i])
    BY <1>5, <1>6, <1>8, SolvesIs
  <2> QED BY <1>5, <1>8, <2>1, <2>2, SolvesIs DEF CostOf
<1>10. PICK j \in plan.keepCol, d \in {-1, 1} :
         plan.c[j] * d < 0 /\ Solves(plan, [start EXCEPT ![j] = @ + d])
  BY <1>7, <1>9 DEF UnboundedInv, Escapes
<1> DEFINE z == [start EXCEPT ![j] = @ + d]
<1>11. /\ j \in Cols /\ z \in Vectors /\ z[j] = start[j] + d
       /\ \A k \in Cols : k # j => z[k] = start[k]
  BY <1>5, <1>7 DEF Vectors
<1>12. Solves(plan, z)
  BY <1>10
<1>13. CostOf(plan, z) < CostOf(plan, start)
  <2>1. Activity(plan.c, z, plan.keepCol) = Activity(plan.c, start, plan.keepCol) + plan.c[j] * d
    BY <1>5, <1>7, <1>11, ActivityShift
  <2>2. Activity(plan.c, start, plan.keepCol) \in Int /\ plan.c[j] \in Int
    BY <1>5, <1>7, <1>11, ActivityIs DEF Vectors
  <2>3. plan.c[j] * d \in Int /\ plan.c[j] * d < 0
    BY <1>10, <2>2
  <2> HIDE DEF z
  <2> QED BY <1>5, <2>1, <2>2, <2>3 DEF CostOf
<1> HIDE DEF z
<1>14. ASSUME NEW k \in Cols PROVE z[k] \in ValuesOf(plan, Box, k)
  <2>1. CASE k \in plan.keepCol
    <3>1. z[k] \in (-Box)..Box
      <4>1. x[k] \in (1 - Box)..(Box - 1) /\ start[k] = x[k]
        BY <1>4, <1>7, <2>1
      <4> QED BY <1>2, <1>11, <4>1
    <3>2. Within(plan.l[k], z[k], plan.u[k])
      BY <1>12, <2>1, SolvesIs
    <3> QED BY <2>1, <3>1, <3>2 DEF ValuesOf
  <2>2. CASE k \notin plan.keepCol
    <3>1. z[k] = 0
      BY <1>7, <1>11, <2>2
    <3> QED BY <2>2, <3>1 DEF ValuesOf
  <2> QED BY <2>1, <2>2
<1>15. z \in ReducedPoints
  BY <1>2, <1>11, <1>12, <1>14, SolvesIs, PointsInclude DEF ReducedPoints
<1>16. CostOf(plan, z) < Cost(lp, x)
  <2>1. /\ CostOf(plan, z) \in Int /\ CostOf(plan, start) \in Int /\ CostOf(plan, x) \in Int
        /\ Cost(lp, x) \in Int
    BY <1>3, <1>5, <1>7, <1>11, ActivityIs DEF CostOf, Cost
  <2> QED BY <1>6, <1>9, <1>13, <2>1
<1> QED BY <1>15, <1>16

\* Verdicts of the closure are right: an LP that a singleton row calls infeasible,
\* however many rounds narrowed its column before, has no point, and one that dual
\* fixing calls unbounded has, for each of its points, a cheaper one that comes
\* back from the reduced LP.
THEOREM ClosureVerdictIsRight == Spec => []VerdictIsRight
<1>1. Init => UnboundedInv
  BY DEF Init, InitLp, NewPlan, UnboundedInv
<1>2. ClosureInv /\ ValuesInv /\ UnboundedInv /\ [Next]_vars => UnboundedInv'
  BY UnboundedNext
<1>3. ValuesInv /\ UnboundedInv => UnboundedIsRight
  <2> SUFFICES ASSUME ValuesInv, UnboundedInv, plan.verdict = "unbounded",
                      NEW x \in UserPoints(Box - 1)
               PROVE  \E z \in ReducedPoints :
                        /\ Activity(plan.c, z, plan.keepCol) + plan.delta < Cost(lp, x)
                        /\ ~HasInfiniteFix => Feasible(lp, Recovered(z))
                        /\ IsPoint(Recovered(z)) => Cost(lp, Recovered(z)) < Cost(lp, x)
    BY DEF UnboundedIsRight
  <2>1. PICK z \in ReducedPoints : CostOf(plan, z) < Cost(lp, x)
    BY UndercutIs
  <2>2. Activity(plan.c, z, plan.keepCol) + plan.delta = CostOf(plan, z)
    BY DEF CostOf
  <2>3. /\ ~HasInfiniteFix => Feasible(lp, Recovered(z))
        /\ IsPoint(Recovered(z)) => Cost(lp, Recovered(z)) = CostOf(plan, z)
    BY <2>2, ComesBackFeasible
  <2> QED BY <2>1, <2>2, <2>3
<1>4. ValuesInv => InfeasibleIsRight
  BY UserPointsAre DEF InfeasibleIsRight, ValuesInv, PlanInv
<1> QED BY <1>1, <1>2, <1>3, <1>4, ClosureInvariant, ClosureValuesInvariant, PTL
     DEF Spec, VerdictIsRight
=============================================================================
