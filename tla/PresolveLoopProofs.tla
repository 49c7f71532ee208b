------------------------- MODULE PresolveLoopProofs -------------------------
(***************************************************************************)
(* For every LP with integer coefficients, any parameters and any order of  *)
(* the phases: the working LP stays an LP over integers, rows and columns   *)
(* only ever leave it, the closure of implied bounds never loosens a bound  *)
(* and boxes no free column in, and every batch of doubleton equations      *)
(* removes a column.                                                       *)
(*                                                                         *)
(* A rule enters these proofs by one lemma, that its plan shrinks; the      *)
(* invariant knows nothing else of it, but for the rounds of implied        *)
(* bounds and the doubleton batches.                                       *)
(***************************************************************************)
EXTENDS PresolveLoop, IndexLemmas

\* A plan: its masks are of the rows and columns there are, and its numbers
\* are integers.
PlanFields == {"a", "keepRow", "keepCol", "c", "l", "u", "AL", "AU", "delta", "tape", "verdict"}
Numbers(p) ==
  /\ p.a \in [Rows -> [Cols -> Int]]
  /\ p.c \in [Cols -> Int] /\ p.l \in [Cols -> Int] /\ p.u \in [Cols -> Int]
  /\ p.AL \in [Rows -> Int] /\ p.AU \in [Rows -> Int] /\ p.delta \in Int
Typed(p) ==
  /\ DOMAIN p = PlanFields
  /\ p.keepRow \subseteq Rows /\ p.keepCol \subseteq Cols
  /\ Numbers(p)

-----------------------------------------------------------------------------
(* Sums and ends.                                                          *)

LEMMA Sizes ==
  /\ M \in Nat /\ N \in Nat /\ M + N \in Nat
  /\ Rows \subseteq 1..(M + N) /\ Cols \subseteq 1..(M + N)
  /\ IsFiniteSet(Rows) /\ IsFiniteSet(Cols)
  /\ Rows \subseteq Int /\ Cols \subseteq Int
<1>1. M \in Nat /\ N \in Nat /\ M + N \in Nat
  BY SmallLpAssumption
<1>2. Rows \subseteq 1..(M + N) /\ Cols \subseteq 1..(M + N)
  BY <1>1 DEF Rows, Cols
<1>3. IsFiniteSet(1..M) /\ IsFiniteSet(1..N)
  BY <1>1, FS_Interval
<1> QED BY <1>1, <1>2, <1>3 DEF Rows, Cols

\* A sum over integers is an integer.
LEMMA SumIsInt ==
  ASSUME NEW t, \A n \in 1..(M + N) : t[n] \in Int
  PROVE  Total(t, M + N) \in Int
BY Sizes, TotalStep DEF AreInts

LEMMA InfIsInt == Inf \in Int /\ -Inf \in Int
BY DEF Inf

LEMMA MinusIsInt == \A v, w \in Int : Minus(v, w) \in Int
BY DEF Minus

LEMMA EndsAre ==
  ASSUME NEW p, Typed(p), NEW i \in Rows, NEW j \in Cols
  PROVE  /\ p.a[i][j] \in Int /\ p.l[j] \in Int /\ p.u[j] \in Int
         /\ p.AL[i] \in Int /\ p.AU[i] \in Int /\ p.c[j] \in Int
         /\ Least(p, i, j) \in Int /\ Most(p, i, j) \in Int
<1>1. /\ p.a[i][j] \in Int /\ p.l[j] \in Int /\ p.u[j] \in Int
      /\ p.AL[i] \in Int /\ p.AU[i] \in Int /\ p.c[j] \in Int
  BY DEF Typed, Numbers
<1> QED BY <1>1 DEF Least, Most

\* So are the ends of a row's activity, infinite ones included.
LEMMA RestsAre ==
  ASSUME NEW p, Typed(p), NEW i \in Rows, NEW j
  PROVE  RestMin(p, i, j) \in Int /\ RestMax(p, i, j) \in Int
<1> DEFINE S == RowCols(p, i) \ {j}
           lows == [n \in 1..(M + N) |-> IF n \in S THEN Least(p, i, n) ELSE 0]
           highs == [n \in 1..(M + N) |-> IF n \in S THEN Most(p, i, n) ELSE 0]
<1>1. S \subseteq Cols
  BY DEF RowCols, Typed
<1>2. \A n \in 1..(M + N) : lows[n] \in Int /\ highs[n] \in Int
  BY <1>1, EndsAre
<1>3. /\ RestMin(p, i, j) = IF \E k \in S : ~IsFinite(Least(p, i, k)) THEN -Inf ELSE Total(lows, M + N)
      /\ RestMax(p, i, j) = IF \E k \in S : ~IsFinite(Most(p, i, k)) THEN Inf ELSE Total(highs, M + N)
  BY DEF RestMin, RestMax, Sum
<1> HIDE DEF lows, highs, S
<1> QED BY <1>2, <1>3, SumIsInt, InfIsInt

LEMMA RowEndsAre ==
  ASSUME NEW p, Typed(p), NEW i \in Rows, NEW j \in Cols
  PROVE  /\ RowLower(p, i, j) \in Int /\ RowUpper(p, i, j) \in Int
<1>1. /\ p.a[i][j] \in Int /\ p.AL[i] \in Int /\ p.AU[i] \in Int
      /\ RestMin(p, i, j) \in Int /\ RestMax(p, i, j) \in Int
  BY EndsAre, RestsAre
<1> QED BY <1>1, InfIsInt DEF RowLower, RowUpper

-----------------------------------------------------------------------------
(* What every rule does to a plan: its numbers stay numbers, and rows and   *)
(* columns only leave.                                                     *)

Shrinks(p, q) == Typed(q) /\ q.keepRow \subseteq p.keepRow /\ q.keepCol \subseteq p.keepCol

LEMMA ShrinksAgain ==
  ASSUME NEW p, NEW q, NEW r, Shrinks(p, q), Shrinks(q, r)
  PROVE  Shrinks(p, r)
BY DEF Shrinks

LEMMA StaysShrunk == ASSUME NEW p, Typed(p) PROVE Shrinks(p, p)
BY DEF Shrinks

\* A verdict alone, and the end of a phase.
LEMMA VerdictShrinks ==
  ASSUME NEW p, Typed(p), NEW v
  PROVE  Shrinks(p, [p EXCEPT !.verdict = v])
<1> DEFINE q == [p EXCEPT !.verdict = v]
<1>1. /\ DOMAIN q = PlanFields /\ q.keepRow = p.keepRow /\ q.keepCol = p.keepCol
      /\ q.a = p.a /\ q.c = p.c /\ q.l = p.l /\ q.u = p.u /\ q.AL = p.AL /\ q.AU = p.AU
      /\ q.delta = p.delta
  BY DEF Typed, PlanFields
<1> HIDE DEF q
<1> QED BY <1>1 DEF Shrinks, Typed, Numbers

LEMMA CompactedShrinks ==
  ASSUME NEW p, Typed(p)
  PROVE  Shrinks(p, Compacted(p))
<1> DEFINE q == Compacted(p)
<1>1. /\ DOMAIN q = PlanFields /\ q.keepRow = p.keepRow /\ q.keepCol = p.keepCol
      /\ q.a = [i \in Rows |-> [j \in Cols |->
                  IF i \in p.keepRow /\ j \in p.keepCol THEN p.a[i][j] ELSE 0]]
      /\ q.c = p.c /\ q.l = p.l /\ q.u = p.u /\ q.AL = p.AL /\ q.AU = p.AU /\ q.delta = p.delta
  BY DEF Typed, PlanFields, Compacted
<1>2. q.a \in [Rows -> [Cols -> Int]]
  <2>1. \A i \in Rows, j \in Cols : p.a[i][j] \in Int
    BY EndsAre
  <2> QED BY <1>1, <2>1
<1> HIDE DEF q
<1>3. Numbers(q)
  BY <1>1, <1>2 DEF Typed, Numbers
<1> QED BY <1>1, <1>3 DEF Shrinks, Typed, q

-----------------------------------------------------------------------------
(* The rules of the row and column phases, one lemma each.                 *)

LEMMA EmptyRowsShrinks == ASSUME NEW p, Typed(p) PROVE Shrinks(p, EmptyRows(p))
<1> DEFINE empty == {i \in p.keepRow : \A j \in Cols : p.a[i][j] = 0}
           q == [p EXCEPT !.keepRow = @ \ empty]
<1>1. /\ DOMAIN q = PlanFields /\ q.keepRow = p.keepRow \ empty /\ q.keepCol = p.keepCol
      /\ q.a = p.a /\ q.c = p.c /\ q.l = p.l /\ q.u = p.u /\ q.AL = p.AL /\ q.AU = p.AU
      /\ q.delta = p.delta
  BY DEF Typed, PlanFields
<1>2. EmptyRows(p) = Infeasible(p) \/ EmptyRows(p) = q
  BY DEF EmptyRows
<1> HIDE DEF q
<1>3. Shrinks(p, q)
  BY <1>1 DEF Shrinks, Typed, Numbers
<1> QED BY <1>2, <1>3, VerdictShrinks DEF Infeasible

LEMMA RedundantRowsShrinks == ASSUME NEW p, Typed(p) PROVE Shrinks(p, RedundantRows(p))
<1> DEFINE full == {i \in Tested(p) : LowerImplied(p, i) /\ UpperImplied(p, i)}
           dropLower == {i \in Tested(p) \ full : LowerImplied(p, i)}
           dropUpper == {i \in Tested(p) \ full : UpperImplied(p, i)}
           q == [p EXCEPT
                  !.keepRow = @ \ full,
                  !.AL = [i \in Rows |-> IF i \in dropLower THEN -Inf ELSE @[i]],
                  !.AU = [i \in Rows |-> IF i \in dropUpper THEN Inf ELSE @[i]]]
<1>1. RedundantRows(p) = Infeasible(p) \/ RedundantRows(p) = q
  BY DEF RedundantRows
<1> HIDE DEF full, dropLower, dropUpper
<1>2. /\ DOMAIN q = PlanFields /\ q.keepRow = p.keepRow \ full /\ q.keepCol = p.keepCol
      /\ q.a = p.a /\ q.c = p.c /\ q.l = p.l /\ q.u = p.u /\ q.delta = p.delta
      /\ q.AL = [i \in Rows |-> IF i \in dropLower THEN -Inf ELSE p.AL[i]]
      /\ q.AU = [i \in Rows |-> IF i \in dropUpper THEN Inf ELSE p.AU[i]]
  BY DEF Typed, PlanFields
<1>3. q.AL \in [Rows -> Int] /\ q.AU \in [Rows -> Int]
  BY <1>2, InfIsInt DEF Typed, Numbers
<1> HIDE DEF q
<1>4. Shrinks(p, q)
  BY <1>2, <1>3 DEF Shrinks, Typed, Numbers
<1> QED BY <1>1, <1>4, VerdictShrinks DEF Infeasible

\* Columns fixed at integers; they are the ones that leave.
LEMMA FixedShrinks ==
  ASSUME NEW p, Typed(p), NEW S \in SUBSET Cols, NEW value, \A j \in S : value[j] \in Int, NEW rows
  PROVE  Shrinks(p, Fixed(p, S, value, rows)) /\ Fixed(p, S, value, rows).keepCol = p.keepCol \ S
<1> DEFINE q == Fixed(p, S, value, rows)
           shares(i) == [n \in 1..(M + N) |-> IF n \in S THEN p.a[i][n] * value[n] ELSE 0]
           share(i) == IF i \in rows THEN Total(shares(i), M + N) ELSE 0
           costs == [n \in 1..(M + N) |-> IF n \in S THEN p.c[n] * value[n] ELSE 0]
<1>1. /\ DOMAIN q = PlanFields /\ q.keepRow = p.keepRow /\ q.keepCol = p.keepCol \ S
      /\ q.a = p.a /\ q.c = p.c /\ q.delta = p.delta + Total(costs, M + N)
      /\ q.l = [j \in Cols |-> IF j \in S THEN value[j] ELSE p.l[j]]
      /\ q.u = [j \in Cols |-> IF j \in S THEN value[j] ELSE p.u[j]]
      /\ q.AL = [i \in Rows |-> Minus(p.AL[i], share(i))]
      /\ q.AU = [i \in Rows |-> Minus(p.AU[i], share(i))]
  BY DEF Typed, PlanFields, Fixed, Sum
<1> HIDE DEF q
<1>2. \A i \in Rows : share(i) \in Int
  <2> SUFFICES ASSUME NEW i \in Rows PROVE Total(shares(i), M + N) \in Int
    OBVIOUS
  <2>1. ASSUME NEW n \in 1..(M + N) PROVE shares(i)[n] \in Int
    <3>1. n \in S => p.a[i][n] \in Int /\ value[n] \in Int
      BY EndsAre
    <3> QED BY <3>1
  <2> HIDE DEF shares
  <2> QED BY <2>1, SumIsInt
<1>3. Total(costs, M + N) \in Int
  <2>1. ASSUME NEW n \in 1..(M + N) PROVE costs[n] \in Int
    <3>1. n \in S => p.c[n] \in Int /\ value[n] \in Int
      BY DEF Typed, Numbers
    <3> QED BY <3>1
  <2> HIDE DEF costs
  <2> QED BY <2>1, SumIsInt
<1> HIDE DEF share, costs
<1>4. q.AL \in [Rows -> Int] /\ q.AU \in [Rows -> Int]
  <2>1. \A i \in Rows : p.AL[i] \in Int /\ p.AU[i] \in Int
    BY DEF Typed, Numbers
  <2>2. \A i \in Rows : Minus(p.AL[i], share(i)) \in Int /\ Minus(p.AU[i], share(i)) \in Int
    BY <1>2, <2>1, MinusIsInt
  <2> QED BY <1>1, <2>2
<1>5. q.l \in [Cols -> Int] /\ q.u \in [Cols -> Int] /\ q.delta \in Int
  BY <1>1, <1>3 DEF Typed, Numbers
<1> QED BY <1>1, <1>4, <1>5 DEF Shrinks, Typed, Numbers, q

LEMMA FixedVariablesShrinks == ASSUME NEW p, Typed(p) PROVE Shrinks(p, FixedVariables(p))
<1>1. EqualBounds(p) \in SUBSET Cols /\ \A j \in Cols : p.l[j] \in Int
  BY DEF EqualBounds, Typed, Numbers
<1> QED BY <1>1, FixedShrinks DEF FixedVariables

LEMMA EmptyColsShrinks == ASSUME NEW p, Typed(p) PROVE Shrinks(p, EmptyCols(p))
<1> DEFINE empty == {j \in p.keepCol : \A i \in Rows : p.a[i][j] = 0}
           value == [j \in empty |-> EmptyValue(p, j)]
<1>1. \/ EmptyCols(p) = Infeasible(p) \/ EmptyCols(p) = Unbounded(p)
      \/ EmptyCols(p) = Fixed(p, empty, value, {})
  BY DEF EmptyCols
<1>2. empty \in SUBSET Cols /\ \A j \in empty : value[j] \in Int
  BY DEF Typed, Numbers, EmptyValue
<1> HIDE DEF empty, value
<1>3. Shrinks(p, Fixed(p, empty, value, {}))
  BY <1>2, FixedShrinks
<1> QED BY <1>1, <1>3, VerdictShrinks DEF Infeasible, Unbounded

LEMMA SingletonRowsShrinks ==
  ASSUME NEW p, Typed(p), NEW singRow
  PROVE  Shrinks(p, SingletonRows(p, singRow))
<1> DEFINE rows == {i \in p.keepRow : singRow[i] # 0}
           at(j) == {h \in rows : singRow[h] = j}
           lower == [j \in Cols |-> Max({p.l[j]} \cup {ImpliedLower(p, i, j) : i \in at(j)})]
           upper == [j \in Cols |-> Min({p.u[j]} \cup {ImpliedUpper(p, i, j) : i \in at(j)})]
           q == SingletonRows(p, singRow)
<1>1. lower \in [Cols -> Int] /\ upper \in [Cols -> Int]
  <2> SUFFICES ASSUME NEW j \in Cols
               PROVE  /\ Max({p.l[j]} \cup {ImpliedLower(p, i, j) : i \in at(j)}) \in Int
                      /\ Min({p.u[j]} \cup {ImpliedUpper(p, i, j) : i \in at(j)}) \in Int
    OBVIOUS
  <2> DEFINE S == at(j)
             f == [i \in S |-> ImpliedLower(p, i, j)]
             g == [i \in S |-> ImpliedUpper(p, i, j)]
  <2>1. S \subseteq Rows /\ IsFiniteSet(S)
    <3>1. S \subseteq Rows
      BY DEF Typed
    <3> QED BY <3>1, Sizes, FS_Subset
  <2>2. \A i \in S : f[i] \in Int /\ g[i] \in Int
    <3>1. \A i \in S : p.a[i][j] \in Int /\ p.AL[i] \in Int /\ p.AU[i] \in Int
      BY <2>1, EndsAre
    <3> QED BY <3>1 DEF ImpliedLower, ImpliedUpper
  <2>3. /\ {f[i] : i \in S} = {ImpliedLower(p, i, j) : i \in S}
        /\ {g[i] : i \in S} = {ImpliedUpper(p, i, j) : i \in S}
    OBVIOUS
  <2>4. p.l[j] \in Int /\ p.u[j] \in Int
    BY DEF Typed, Numbers
  <2> HIDE DEF S, f, g
  <2>a. \A i \in S : f[i] \in Int
    BY <2>2
  <2>b. \A i \in S : g[i] \in Int
    BY <2>2
  <2>5. Max({p.l[j]} \cup {f[i] : i \in S}) \in Int
    BY <2>1, <2>a, <2>4, EndsWith
  <2> DEFINE v == p.u[j]
  <2>c. v \in Int
    BY <2>4
  <2> HIDE DEF v
  <2>6. Min({v} \cup {g[i] : i \in S}) \in Int
    BY <2>1, <2>b, <2>c, EndsWith
  <2> QED BY <2>3, <2>5, <2>6 DEF S, v
<1>2. \/ q = Infeasible(p)
      \/ /\ DOMAIN q = PlanFields /\ q.keepRow = p.keepRow \ rows /\ q.keepCol = p.keepCol
         /\ q.a = p.a /\ q.c = p.c /\ q.l = lower /\ q.u = upper /\ q.AL = p.AL /\ q.AU = p.AU
         /\ q.delta = p.delta
  BY DEF Typed, PlanFields, SingletonRows, Infeasible
<1> HIDE DEF q, lower, upper, rows
<1>3. CASE q = Infeasible(p)
  BY <1>3, VerdictShrinks DEF Infeasible, q
<1>4. CASE q # Infeasible(p)
  BY <1>1, <1>2, <1>4 DEF Shrinks, Typed, Numbers, q
<1> QED BY <1>3, <1>4

LEMMA TrivialRowsShrinks == ASSUME NEW p, Typed(p) PROVE Shrinks(p, TrivialRows(p))
<1> DEFINE q == EmptyRows(p)
<1>1. Shrinks(p, q) /\ Typed(q)
  BY EmptyRowsShrinks DEF Shrinks
<1>2. Shrinks(q, SingletonRows(q, SingletonRowOf(p)))
  BY <1>1, SingletonRowsShrinks
<1>3. Shrinks(p, SingletonRows(q, SingletonRowOf(p)))
  BY <1>1, <1>2, ShrinksAgain
<1>4. TrivialRows(p) = q \/ TrivialRows(p) = SingletonRows(q, SingletonRowOf(p))
  BY DEF TrivialRows
<1> HIDE DEF q
<1> QED BY <1>1, <1>3, <1>4

LEMMA TrivialColsShrinks == ASSUME NEW p, Typed(p) PROVE Shrinks(p, TrivialCols(p))
<1> DEFINE q == FixedVariables(p)
<1>1. Shrinks(p, q) /\ Typed(q)
  BY FixedVariablesShrinks DEF Shrinks
<1>2. Shrinks(q, EmptyCols(q))
  BY <1>1, EmptyColsShrinks
<1>3. Shrinks(p, EmptyCols(q))
  BY <1>1, <1>2, ShrinksAgain
<1>4. TrivialCols(p) = q \/ TrivialCols(p) = EmptyCols(q)
  BY DEF TrivialCols
<1> HIDE DEF q
<1> QED BY <1>1, <1>3, <1>4

LEMMA DualInferShrinks == ASSUME NEW p, Typed(p) PROVE Shrinks(p, DualInfer(p))
<1> DEFINE acting == {e \in Asked(p) : ~IsEquality(p, e[1]) /\ IsFinite(InferredSide(p, e[1], e[2]))}
           owned(i) == {e[2] : e \in {f \in acting : f[1] = i}}
           side(i) == InferredSide(p, i, Min(owned(i)))
           q == DualInfer(p)
<1>1. \/ q = Unbounded(p)
      \/ /\ DOMAIN q = PlanFields /\ q.keepRow = p.keepRow /\ q.keepCol = p.keepCol
         /\ q.a = p.a /\ q.c = p.c /\ q.l = p.l /\ q.u = p.u /\ q.delta = p.delta
         /\ q.AL = [i \in Rows |-> IF owned(i) # {} THEN side(i) ELSE p.AL[i]]
         /\ q.AU = [i \in Rows |-> IF owned(i) # {} THEN side(i) ELSE p.AU[i]]
  BY DEF Typed, PlanFields, DualInfer, Unbounded
<1>2. \A i \in Rows : p.AL[i] \in Int /\ p.AU[i] \in Int
  BY DEF Typed, Numbers
<1>3. \A i \in Rows : side(i) \in Int
  BY <1>2, InfIsInt DEF InferredSide, ActiveSide
<1> HIDE DEF q, owned, side
<1>4. CASE q = Unbounded(p)
  BY <1>4, VerdictShrinks DEF Unbounded, q
<1>5. CASE q # Unbounded(p)
  <2>1. q.AL \in [Rows -> Int] /\ q.AU \in [Rows -> Int]
    BY <1>1, <1>2, <1>3, <1>5
  <2> QED BY <1>1, <1>5, <2>1 DEF Shrinks, Typed, Numbers, q
<1> QED BY <1>4, <1>5

LEMMA DuplicateRowsShrinks == ASSUME NEW p, Typed(p) PROVE Shrinks(p, DuplicateRows(p))
<1> DEFINE reps == {<<Representative(p, g), g>> : g \in HashGroups(p)}
           merged == {e \in reps : Peers(p, e[1], e[2]) # {}}
           groupOf(i) == (CHOOSE e \in merged : e[1] = i)[2]
           sides(i) == MergedSides(p, i, Peers(p, i, groupOf(i)))
           kept == {e[1] : e \in merged}
           gone == UNION {Peers(p, e[1], e[2]) : e \in merged}
           q == DuplicateRows(p)
<1>1. \/ q = Infeasible(p)
      \/ /\ DOMAIN q = PlanFields /\ q.keepRow = p.keepRow \ gone /\ q.keepCol = p.keepCol
         /\ q.a = p.a /\ q.c = p.c /\ q.l = p.l /\ q.u = p.u /\ q.delta = p.delta
         /\ q.AL = [i \in Rows |-> IF i \in kept THEN sides(i)[1] ELSE p.AL[i]]
         /\ q.AU = [i \in Rows |-> IF i \in kept THEN sides(i)[2] ELSE p.AU[i]]
  BY DEF Typed, PlanFields, DuplicateRows, Infeasible
<1>2. \A i \in Rows : p.AL[i] \in Int /\ p.AU[i] \in Int
  BY DEF Typed, Numbers
<1>3. ASSUME NEW i \in Rows, i \in kept
      PROVE  sides(i)[1] \in Int /\ sides(i)[2] \in Int
  <2>1. PICK e \in merged : e[1] = i
    BY <1>3
  <2>2. groupOf(i) \in HashGroups(p)
    <3>1. (CHOOSE f \in merged : f[1] = i) \in merged
      BY <2>1
    <3>2. \A f \in merged : f[2] \in HashGroups(p)
      OBVIOUS
    <3> HIDE DEF merged
    <3> QED BY <3>1, <3>2
  <2>3. \A g \in HashGroups(p) : g \subseteq Rows
    BY DEF HashGroups, HashMates, Typed
  <2> DEFINE R == Peers(p, i, groupOf(i)) \cup {i}
             S == {ScaledSides(p, i, k) : k \in R}
             lows == {s[1] : s \in S}
             highs == {s[2] : s \in S}
  <2>4. R \subseteq Rows /\ R # {} /\ IsFiniteSet(R)
    <3> HIDE DEF groupOf
    <3>1. R \subseteq Rows
      BY <2>2, <2>3 DEF Peers
    <3> QED BY <3>1, Sizes, FS_Subset
  <2>5. \A k \in R : ScaledSides(p, i, k)[1] \in Int /\ ScaledSides(p, i, k)[2] \in Int
    BY <1>2, <2>4 DEF ScaledSides
  <2>6. sides(i)[1] = Max(lows) /\ sides(i)[2] = Min(highs)
    BY DEF MergedSides
  <2> HIDE DEF R
  <2> DEFINE f == [k \in R |-> ScaledSides(p, i, k)[1]]
             g == [k \in R |-> ScaledSides(p, i, k)[2]]
  <2>7. /\ f \in Surjection(R, lows) /\ g \in Surjection(R, highs)
        /\ lows \in SUBSET Int /\ lows # {} /\ highs \in SUBSET Int /\ highs # {}
    BY <2>4, <2>5 DEF Surjection
  <2> HIDE DEF lows, highs, f, g, sides
  <2>8. IsFiniteSet(lows) /\ IsFiniteSet(highs)
    BY <2>4, <2>7, FS_Surjection
  <2>9. Max(lows) \in Int /\ Min(highs) \in Int
    BY <2>7, <2>8, FiniteEnds
  <2> QED BY <2>6, <2>9
<1> HIDE DEF q, kept, sides, gone
<1>4. CASE q = Infeasible(p)
  BY <1>4, VerdictShrinks DEF Infeasible, q
<1>5. CASE q # Infeasible(p)
  <2>1. q.AL \in [Rows -> Int] /\ q.AU \in [Rows -> Int]
    BY <1>1, <1>2, <1>3, <1>5
  <2> QED BY <1>1, <1>5, <2>1 DEF Shrinks, Typed, Numbers, q
<1> QED BY <1>4, <1>5

LEMMA ImpliedEndsAre ==
  ASSUME NEW p, Typed(p), NEW i \in Rows, NEW j \in Cols
  PROVE  Shifted(p, i, j) \in Int
<1>1. /\ p.a[i][j] \in Int /\ p.AU[i] \in Int /\ p.l[j] \in Int /\ p.u[j] \in Int
  BY EndsAre
<1>2. p.a[i][j] * p.l[j] \in Int /\ p.a[i][j] * p.u[j] \in Int
  BY <1>1
<1> QED BY <1>1, <1>2, MinusIsInt DEF Shifted

LEMMA SolvedShrinks ==
  ASSUME NEW p, Typed(p), NEW owned \in SUBSET (Rows \X Cols)
  PROVE  Shrinks(p, Solved(p, owned))
<1> DEFINE rows == {e[1] : e \in owned}
           owner(i) == CHOOSE j \in Cols : <<i, j>> \in owned
           oneSided == {i \in rows : ~Deleted(p, i, owner(i))}
           lower == {i \in oneSided : KeepsLower(p, i, owner(i))}
           costs == [n \in 1..(M + N) |-> IF n \in rows
                       THEN p.c[owner(n)] * p.AU[n] * p.a[n][owner(n)] ELSE 0]
           q == Solved(p, owned)
<1>1. /\ DOMAIN q = PlanFields /\ q.keepRow = p.keepRow \ (rows \ oneSided)
      /\ q.keepCol = p.keepCol \ {e[2] : e \in owned}
      /\ q.a = p.a /\ q.c = p.c /\ q.l = p.l /\ q.u = p.u
      /\ q.AL = [i \in Rows |-> IF i \in lower THEN Shifted(p, i, owner(i))
                                ELSE IF i \in oneSided THEN -Inf ELSE p.AL[i]]
      /\ q.AU = [i \in Rows |-> IF i \in lower THEN Inf
                                ELSE IF i \in oneSided THEN Shifted(p, i, owner(i)) ELSE p.AU[i]]
      /\ q.delta = p.delta + Total(costs, M + N)
  BY DEF Typed, PlanFields, Solved, Sum
<1>2. \A i \in rows : i \in Rows /\ owner(i) \in Cols
  <2> SUFFICES ASSUME NEW i \in rows PROVE i \in Rows /\ owner(i) \in Cols
    OBVIOUS
  <2>1. PICK e \in owned : e[1] = i
    OBVIOUS
  <2>2. e \in Rows \X Cols /\ e = <<e[1], e[2]>>
    OBVIOUS
  <2>3. \E j \in Cols : <<i, j>> \in owned
    BY <2>1, <2>2
  <2> QED BY <2>1, <2>2, <2>3
<1>3. \A i \in rows : Shifted(p, i, owner(i)) \in Int
  BY <1>2, ImpliedEndsAre
<1>4. Total(costs, M + N) \in Int
  <2>1. ASSUME NEW n \in 1..(M + N) PROVE costs[n] \in Int
    <3>1. CASE n \in rows
      <4> DEFINE j == owner(n)
      <4>1. n \in Rows /\ j \in Cols
        BY <1>2, <3>1
      <4>2. costs[n] = p.c[j] * p.AU[n] * p.a[n][j]
        BY <3>1
      <4> HIDE DEF j, costs
      <4>3. p.c[j] \in Int /\ p.AU[n] \in Int /\ p.a[n][j] \in Int
        BY <4>1, EndsAre
      <4>4. p.c[j] * p.AU[n] \in Int
        BY <4>3
      <4> QED BY <4>2, <4>3, <4>4
    <3>2. CASE n \notin rows
      BY <3>2
    <3> QED BY <3>1, <3>2
  <2> HIDE DEF costs
  <2> QED BY <2>1, SumIsInt
<1>5. oneSided \subseteq rows /\ lower \subseteq rows
  OBVIOUS
<1> HIDE DEF q, rows, owner, oneSided, lower, costs
<1>6. q.AL \in [Rows -> Int] /\ q.AU \in [Rows -> Int]
  <2>1. \A i \in Rows : p.AL[i] \in Int /\ p.AU[i] \in Int
    BY DEF Typed, Numbers
  <2> QED BY <1>1, <1>3, <1>5, <2>1, InfIsInt
<1>7. q.delta \in Int
  BY <1>1, <1>4 DEF Typed, Numbers
<1> QED BY <1>1, <1>6, <1>7 DEF Shrinks, Typed, Numbers, q

LEMMA SingletonEqShrinks ==
  ASSUME NEW p, Typed(p), NEW owned \in SUBSET (Rows \X Cols)
  PROVE  Shrinks(p, ColumnSingletonsEq(p, owned))
<1> DEFINE at(k, i) == [n \in 1..(M + N) |-> IF n \in Cols
                         THEN (IF <<i, n>> \in owned THEN p.c[n] * p.a[i][k] * p.a[i][n] ELSE 0) ELSE 0]
           by(k) == [n \in 1..(M + N) |-> IF n \in Rows THEN Total(at(k, n), M + N) ELSE 0]
           moved(k) == Total(by(k), M + N)
           s == Solved(p, owned)
           q == ColumnSingletonsEq(p, owned)
<1>1. Shrinks(p, s)
  BY SolvedShrinks
<1> HIDE DEF s
<1>2. /\ DOMAIN q = PlanFields /\ q.keepRow = s.keepRow /\ q.keepCol = s.keepCol
      /\ q.a = s.a /\ q.l = s.l /\ q.u = s.u /\ q.AL = s.AL /\ q.AU = s.AU /\ q.delta = s.delta
      /\ q.c = [k \in Cols |-> IF k \in p.keepCol \ {e[2] : e \in owned}
                               THEN s.c[k] - moved(k) ELSE s.c[k]]
  BY <1>1 DEF Typed, PlanFields, Shrinks, ColumnSingletonsEq, Sum, s
<1>3. ASSUME NEW k \in Cols PROVE moved(k) \in Int
  <2>1. ASSUME NEW i \in Rows PROVE Total(at(k, i), M + N) \in Int
    <3>1. ASSUME NEW n \in 1..(M + N) PROVE at(k, i)[n] \in Int
      <4>1. CASE n \in Cols /\ <<i, n>> \in owned
        <5>1. p.c[n] \in Int /\ p.a[i][k] \in Int /\ p.a[i][n] \in Int
          BY <4>1, EndsAre
        <5>2. p.c[n] * p.a[i][k] \in Int
          BY <5>1
        <5>3. at(k, i)[n] = p.c[n] * p.a[i][k] * p.a[i][n]
          BY <4>1
        <5> HIDE DEF at
        <5> QED BY <5>1, <5>2, <5>3
      <4>2. CASE ~(n \in Cols /\ <<i, n>> \in owned)
        BY <4>2
      <4> QED BY <4>1, <4>2
    <3> HIDE DEF at
    <3> QED BY <3>1, SumIsInt
  <2>2. \A n \in 1..(M + N) : by(k)[n] \in Int
    BY <2>1
  <2> HIDE DEF by
  <2> QED BY <2>2, SumIsInt
<1> HIDE DEF q, moved
<1>4. q.c \in [Cols -> Int]
  <2>1. \A k \in Cols : s.c[k] \in Int
    BY <1>1 DEF Shrinks, Typed, Numbers
  <2> QED BY <1>2, <1>3, <2>1
<1> QED BY <1>1, <1>2, <1>4 DEF Shrinks, Typed, Numbers, q

LEMMA DualFixShrinks ==
  ASSUME NEW p, Typed(p), NEW candidates
  PROVE  Shrinks(p, DualFix(p, candidates))
<1> DEFINE asked == p.keepCol \cap candidates
           fixed == {j \in asked : Fate(p, j) = "fix"}
           infinite == {j \in asked : Fate(p, j) = "fixInfinite"}
           value == [j \in fixed \cup infinite |-> Goal(p, j)]
           rows == p.keepRow \ UNION {ColRows(p, j) : j \in infinite}
           shares(i) == [n \in 1..(M + N) |-> IF n \in fixed THEN p.a[i][n] * value[n] ELSE 0]
           moved(i) == IF i \in p.keepRow THEN Total(shares(i), M + N) ELSE 0
           costs == [n \in 1..(M + N) |-> IF n \in fixed THEN p.c[n] * value[n] ELSE 0]
           q == DualFix(p, candidates)
<1>1. \/ \E v : q = [p EXCEPT !.verdict = v]
      \/ /\ DOMAIN q = PlanFields /\ q.keepRow = rows /\ q.keepCol = p.keepCol \ (fixed \cup infinite)
         /\ q.a = p.a /\ q.c = p.c /\ q.delta = p.delta + Total(costs, M + N)
         /\ q.l = [j \in Cols |-> IF j \in fixed \cup infinite THEN value[j] ELSE p.l[j]]
         /\ q.u = [j \in Cols |-> IF j \in fixed \cup infinite THEN value[j] ELSE p.u[j]]
         /\ q.AL = [i \in Rows |-> Minus(p.AL[i], moved(i))]
         /\ q.AU = [i \in Rows |-> Minus(p.AU[i], moved(i))]
  <2>1. CASE \E j \in asked : Fate(p, j) = "unbounded"
    <3>1. q = [p EXCEPT !.verdict = "unbounded"]
      BY <2>1 DEF DualFix
    <3> QED BY <3>1
  <2>2. CASE ~(\E j \in asked : Fate(p, j) = "unbounded") /\ \E j \in asked : Fate(p, j) = "infeasible"
    <3>1. q = [p EXCEPT !.verdict = "infeasible"]
      BY <2>2 DEF DualFix
    <3> QED BY <3>1
  <2>3. CASE ~\E j \in asked : Fate(p, j) \in {"unbounded", "infeasible"}
    BY <2>3 DEF Typed, PlanFields, DualFix, Sum
  <2> QED BY <2>1, <2>2, <2>3
<1>2. fixed \cup infinite \subseteq Cols /\ \A j \in fixed \cup infinite : value[j] \in Int
  <2>1. fixed \cup infinite \subseteq Cols
    BY DEF Typed
  <2> QED BY <2>1 DEF Typed, Numbers, Goal
<1> HIDE DEF asked, value
<1>3. \A i \in Rows : moved(i) \in Int
  <2> SUFFICES ASSUME NEW i \in Rows PROVE Total(shares(i), M + N) \in Int
    OBVIOUS
  <2>1. ASSUME NEW n \in 1..(M + N) PROVE shares(i)[n] \in Int
    <3>1. n \in fixed => p.a[i][n] \in Int /\ value[n] \in Int
      BY <1>2, EndsAre
    <3> HIDE DEF fixed
    <3> QED BY <3>1
  <2> HIDE DEF shares
  <2> QED BY <2>1, SumIsInt
<1>4. Total(costs, M + N) \in Int
  <2>1. ASSUME NEW n \in 1..(M + N) PROVE costs[n] \in Int
    <3>1. n \in fixed => p.c[n] \in Int /\ value[n] \in Int
      BY <1>2 DEF Typed, Numbers
    <3> HIDE DEF fixed
    <3> QED BY <3>1
  <2> HIDE DEF costs
  <2> QED BY <2>1, SumIsInt
<1> HIDE DEF q, moved, costs, fixed, infinite, rows
<1>5. CASE \E v : q = [p EXCEPT !.verdict = v]
  BY <1>5, VerdictShrinks DEF q
<1>6. CASE ~\E v : q = [p EXCEPT !.verdict = v]
  <2>1. q.AL \in [Rows -> Int] /\ q.AU \in [Rows -> Int]
    <3>1. \A i \in Rows : p.AL[i] \in Int /\ p.AU[i] \in Int
      BY DEF Typed, Numbers
    <3>2. \A i \in Rows : Minus(p.AL[i], moved(i)) \in Int /\ Minus(p.AU[i], moved(i)) \in Int
      BY <1>3, <3>1, MinusIsInt
    <3> QED BY <1>1, <1>6, <3>2
  <2>2. q.l \in [Cols -> Int] /\ q.u \in [Cols -> Int]
    <3>1. \A j \in Cols : p.l[j] \in Int /\ p.u[j] \in Int
      BY DEF Typed, Numbers
    <3>2. /\ q.l = [j \in Cols |-> IF j \in fixed \cup infinite THEN value[j] ELSE p.l[j]]
          /\ q.u = [j \in Cols |-> IF j \in fixed \cup infinite THEN value[j] ELSE p.u[j]]
      BY <1>1, <1>6
    <3> QED BY <1>2, <3>1, <3>2
  <2>4. q.delta \in Int
    <3>1. q.delta = p.delta + Total(costs, M + N)
      BY <1>1, <1>6
    <3>2. p.delta \in Int
      BY DEF Typed, Numbers
    <3> QED BY <1>4, <3>1, <3>2
  <2>3. rows \subseteq p.keepRow
    BY DEF rows
  <2> QED BY <1>1, <1>6, <2>1, <2>2, <2>3, <2>4 DEF Shrinks, Typed, Numbers, q
<1> QED BY <1>5, <1>6

LEMMA DropBoundsShrinks == ASSUME NEW p, Typed(p) PROVE Shrinks(p, DropBounds(p))
<1> DEFINE upper == {j \in p.keepCol : UpperRedundant(p, j)}
           lower == {j \in p.keepCol : LowerRedundant(p, j)}
           selected == Selected(p, upper \cup lower)
           q == DropBounds(p)
<1>1. /\ DOMAIN q = PlanFields /\ q.keepRow = p.keepRow /\ q.keepCol = p.keepCol
      /\ q.a = p.a /\ q.c = p.c /\ q.AL = p.AL /\ q.AU = p.AU /\ q.delta = p.delta
      /\ q.l = [j \in Cols |-> IF j \in selected \cap lower THEN -Inf ELSE p.l[j]]
      /\ q.u = [j \in Cols |-> IF j \in selected \cap upper THEN Inf ELSE p.u[j]]
  BY DEF Typed, PlanFields, DropBounds
<1> HIDE DEF q, selected, lower, upper
<1>2. q.l \in [Cols -> Int] /\ q.u \in [Cols -> Int]
  <2>1. \A j \in Cols : p.l[j] \in Int /\ p.u[j] \in Int
    BY DEF Typed, Numbers
  <2> QED BY <1>1, <2>1, InfIsInt
<1> QED BY <1>1, <1>2 DEF Shrinks, Typed, Numbers, q

\* The function whose last value RedundantBounds is.
DropsOf(p, n, f) == f = [k \in 0..n |-> IF k = 0 THEN p ELSE DropBounds(f[k - 1])]
Drops(p, n) == CHOOSE f : DropsOf(p, n, f)

\* A recursive function exists: by induction over its length.
LEMMA DropsExist == ASSUME NEW p, NEW n \in Nat PROVE DropsOf(p, n, Drops(p, n))
<1> DEFINE Good == {m \in 0..n : \E f : DropsOf(p, m, f)}
<1>1. 0 \in Good
  <2> DEFINE f == [k \in 0..0 |-> p]
  <2>1. DropsOf(p, 0, f)
    BY DEF DropsOf
  <2> HIDE DEF f
  <2> QED BY <2>1
<1>2. ASSUME NEW m \in Good, m < n PROVE m + 1 \in Good
  <2>1. PICK f : DropsOf(p, m, f)
    OBVIOUS
  <2> DEFINE g == [k \in 0..(m + 1) |-> IF k = m + 1 THEN DropBounds(f[m]) ELSE f[k]]
             h == [k \in 0..(m + 1) |-> IF k = 0 THEN p ELSE DropBounds(g[k - 1])]
  <2>2. m \in Nat
    OBVIOUS
  <2>3. ASSUME NEW k \in 0..(m + 1) PROVE g[k] = h[k]
    <3>1. CASE k = m + 1
      <4>1. g[k] = DropBounds(f[m]) /\ g[k - 1] = f[m] /\ k # 0
        BY <2>2, <3>1
      <4> HIDE DEF g
      <4> QED BY <4>1
    <3>2. CASE k \in 0..m
      <4>1. g[k] = f[k] /\ (k # 0 => g[k - 1] = f[k - 1])
        BY <2>2, <3>2
      <4>2. f[k] = IF k = 0 THEN p ELSE DropBounds(f[k - 1])
        BY <2>1, <3>2 DEF DropsOf
      <4> HIDE DEF g
      <4> QED BY <4>1, <4>2
    <3> QED BY <2>2, <3>1, <3>2
  <2>4. g = h
    <3>1. g = [k \in 0..(m + 1) |-> g[k]] /\ h = [k \in 0..(m + 1) |-> h[k]]
      OBVIOUS
    <3> HIDE DEF g, h
    <3> QED BY <2>3, <3>1
  <2>5. DropsOf(p, m + 1, g)
    <3> HIDE DEF g
    <3> QED BY <2>4 DEF DropsOf
  <2> HIDE DEF g, h
  <2> QED BY <1>2, <2>2, <2>5
<1>3. n \in Good
  <2>1. Good \in SUBSET (0..n)
    OBVIOUS
  <2> HIDE DEF Good
  <2>2. Good = 0..n
    BY <1>1, <1>2, <2>1, IntervalInduction
  <2> QED BY <2>2
<1> QED BY <1>3 DEF Drops

LEMMA RedundantBoundsShrinks == ASSUME NEW p, Typed(p) PROVE Shrinks(p, RedundantBounds(p))
<1> DEFINE n == 2 * N
           f == Drops(p, n)
           Good == {k \in 0..n : Shrinks(p, f[k])}
<1>1. n \in Nat
  BY Sizes
<1>2. RedundantBounds(p) = f[n]
  BY DEF RedundantBounds, Drops, DropsOf
<1> HIDE DEF n
<1>3. \A k \in 0..n : f[k] = IF k = 0 THEN p ELSE DropBounds(f[k - 1])
  <2>1. DropsOf(p, n, f)
    BY <1>1, DropsExist
  <2> HIDE DEF f
  <2> QED BY <2>1 DEF DropsOf
<1> HIDE DEF f
<1>4. 0 \in Good
  <2>1. 0 \in 0..n /\ f[0] = p
    BY <1>1, <1>3
  <2> QED BY <2>1, StaysShrunk
<1>5. ASSUME NEW k \in Good, k < n PROVE k + 1 \in Good
  <2>1. k + 1 \in 0..n /\ k + 1 # 0 /\ (k + 1) - 1 = k
    BY <1>1, <1>5
  <2>2. f[k + 1] = DropBounds(f[k])
    BY <1>3, <2>1
  <2>3. Shrinks(p, f[k]) /\ Typed(f[k])
    BY DEF Shrinks
  <2>4. Shrinks(f[k], f[k + 1])
    BY <2>2, <2>3, DropBoundsShrinks
  <2>5. Shrinks(p, f[k + 1])
    BY <2>3, <2>4, ShrinksAgain
  <2> QED BY <2>1, <2>5
<1>6. n \in Good
  <2>1. Good \in SUBSET (0..n)
    OBVIOUS
  <2> HIDE DEF Good
  <2>2. Good = 0..n
    BY <1>1, <1>4, <1>5, <2>1, IntervalInduction
  <2> QED BY <1>1, <2>2
<1> QED BY <1>2, <1>6

-----------------------------------------------------------------------------
(* Rounds of implied bounds.                                               *)

\* What the rows say of a column, the column's own bound among it.
LEMMA CandidatesAre ==
  ASSUME NEW p, Typed(p), NEW entries, NEW j \in Cols
  PROVE  /\ CandidateLower(p, entries, j) \in Int /\ p.l[j] <= CandidateLower(p, entries, j)
         /\ CandidateUpper(p, entries, j) \in Int /\ CandidateUpper(p, entries, j) <= p.u[j]
         /\ p.l[j] \in Int /\ p.u[j] \in Int
<1> DEFINE w == Whole(p)
           S == AskedBy(p, entries, j)
           f == [i \in S |-> RowLower(w, i, j)]
           g == [i \in S |-> RowUpper(w, i, j)]
           l == p.l[j]
           u == p.u[j]
<1>1. Typed(w)
  <2>1. /\ DOMAIN w = PlanFields /\ w.keepRow = p.keepRow /\ w.keepCol = Cols
        /\ w.a = p.a /\ w.c = p.c /\ w.l = p.l /\ w.u = p.u /\ w.AL = p.AL /\ w.AU = p.AU
        /\ w.delta = p.delta
    BY DEF Typed, PlanFields, Whole
  <2> HIDE DEF w
  <2> QED BY <2>1 DEF Typed, Numbers
<1>2. S \subseteq Rows /\ IsFiniteSet(S)
  <2>1. S \subseteq Rows
    BY DEF Typed, AskedBy, Asking
  <2> QED BY <2>1, Sizes, FS_Subset
<1>3. l \in Int /\ u \in Int
  BY DEF Typed, Numbers
<1> HIDE DEF w, S
<1>4. \A i \in S : f[i] \in Int /\ g[i] \in Int
  BY <1>1, <1>2, RowEndsAre
<1>5. /\ CandidateLower(p, entries, j) = Max({l} \cup {f[i] : i \in S})
      /\ CandidateUpper(p, entries, j) = Min({u} \cup {g[i] : i \in S})
  BY DEF CandidateLower, CandidateUpper, w, S
<1> HIDE DEF f, g, l, u
<1>6. \A i \in S : f[i] \in Int
  BY <1>4
<1>7. \A i \in S : g[i] \in Int
  BY <1>4
<1>8. Max({l} \cup {f[i] : i \in S}) \in Int /\ l <= Max({l} \cup {f[i] : i \in S})
  BY <1>2, <1>3, <1>6, EndsWith
<1>9. Min({u} \cup {g[i] : i \in S}) \in Int /\ Min({u} \cup {g[i] : i \in S}) <= u
  <2>1. u \in Int /\ IsFiniteSet(S)
    BY <1>2, <1>3
  <2> QED BY <2>1, <1>7, EndsWith
<1> QED BY <1>3, <1>5, <1>8, <1>9 DEF l, u

\* Column j, free when the group started, is not boxed in by bounds l and u.
Open(entry, p, j, l, u) ==
  KeepFree /\ p.c[j] = 0 /\ ~IsFinite(entry.l[j]) /\ ~IsFinite(entry.u[j])
    => ~(IsFinite(l) /\ IsFinite(u))

LEMMA SettledIs ==
  ASSUME NEW p, NEW j, NEW lower, NEW upper, NEW crossed
  PROVE  LET s == Settled(p, j, lower, upper, crossed)
             atUpper == lower > p.l[j] /\ IsFinite(p.u[j]) /\ lower >= p.u[j]
             atLower == ~atUpper /\ upper < p.u[j] /\ IsFinite(lower) /\ upper <= lower
         IN /\ s.l = IF atUpper THEN p.u[j] ELSE lower
            /\ s.u = IF atLower THEN lower ELSE upper
            /\ s.crossed = crossed /\ s.fixed = (atUpper \/ atLower)
BY DEF Settled

\* What a round makes of one column.
LEMMA FinalizedIs ==
  ASSUME NEW p, Typed(p), NEW entry, NEW entries, NEW j \in Cols
  PROVE  LET new == Finalized(p, entry, entries, j)
         IN /\ new.l \in Int /\ new.u \in Int
            /\ ~new.crossed => /\ p.l[j] <= new.l /\ new.u <= p.u[j]
                               /\ new.fixed => new.l <= p.u[j]
            /\ /\ Open(entry, p, j, p.l[j], p.u[j])
               /\ ~new.crossed /\ ~new.fixed
               => Open(entry, p, j, new.l, new.u)
<1> DEFINE new == Finalized(p, entry, entries, j)
           low == CandidateLower(p, entries, j)
           up == CandidateUpper(p, entries, j)
           held == Preserved(p, entry, j, low, up)
<1>1. /\ low \in Int /\ p.l[j] <= low /\ up \in Int /\ up <= p.u[j]
      /\ p.l[j] \in Int /\ p.u[j] \in Int
  BY CandidatesAre
<1>2. new = IF held THEN Settled(p, j, p.l[j], p.u[j], low > up)
            ELSE Settled(p, j, low, up, low > up)
  BY DEF Finalized, FromRows
<1>3. held <=> /\ KeepFree /\ p.c[j] = 0 /\ ~IsFinite(entry.l[j]) /\ ~IsFinite(entry.u[j])
               /\ IsFinite(low) /\ IsFinite(up) /\ low < up
  BY DEF Preserved
<1> HIDE DEF new, low, up, held
<1>4. CASE held
  <2>1. new = Settled(p, j, p.l[j], p.u[j], low > up)
    BY <1>2, <1>4
  <2>2. new.l = p.l[j] /\ new.u = p.u[j] /\ ~new.fixed
    <3>1. ~(p.l[j] > p.l[j]) /\ ~(p.u[j] < p.u[j])
      BY <1>1
    <3> DEFINE atUpper == p.l[j] > p.l[j] /\ IsFinite(p.u[j]) /\ p.l[j] >= p.u[j]
               atLower == ~atUpper /\ p.u[j] < p.u[j] /\ IsFinite(p.l[j]) /\ p.u[j] <= p.l[j]
    <3>2. ~atUpper /\ ~atLower
      BY <3>1
    <3>3. /\ new.l = IF atUpper THEN p.u[j] ELSE p.l[j]
          /\ new.u = IF atLower THEN p.l[j] ELSE p.u[j]
          /\ new.fixed = (atUpper \/ atLower)
      BY <2>1, SettledIs
    <3> HIDE DEF atUpper, atLower
    <3> QED BY <3>2, <3>3
  <2> QED BY <1>1, <2>2 DEF new
<1>5. CASE ~held
  <2>1. new = Settled(p, j, low, up, low > up)
    BY <1>2, <1>5
  <2> DEFINE atUpper == low > p.l[j] /\ IsFinite(p.u[j]) /\ low >= p.u[j]
             atLower == ~atUpper /\ up < p.u[j] /\ IsFinite(low) /\ up <= low
  <2>2. /\ new.l = IF atUpper THEN p.u[j] ELSE low
        /\ new.u = IF atLower THEN low ELSE up
        /\ new.crossed = (low > up) /\ new.fixed = (atUpper \/ atLower)
    BY <2>1, SettledIs
  <2>3. new.l \in Int /\ new.u \in Int
    BY <1>1, <2>2
  <2>5. ASSUME ~new.crossed
        PROVE  /\ p.l[j] <= new.l /\ new.u <= p.u[j]
               /\ new.fixed => new.l <= p.u[j]
    <3>1. ~(low > up)
      BY <2>2, <2>5
    <3>2. CASE atUpper
      BY <1>1, <2>2, <3>1, <3>2
    <3>3. CASE ~atUpper /\ atLower
      BY <1>1, <2>2, <3>1, <3>3
    <3>4. CASE ~atUpper /\ ~atLower
      <4>1. ~new.fixed
        BY <2>2, <3>4
      <4>2. new.l = low /\ new.u = up
        BY <2>2, <3>4
      <4> QED BY <1>1, <4>1, <4>2
    <3> QED BY <3>2, <3>3, <3>4
  <2>4. ASSUME Open(entry, p, j, p.l[j], p.u[j]), ~new.crossed, ~new.fixed
        PROVE  Open(entry, p, j, new.l, new.u)
    <3>1. ~atUpper /\ ~atLower /\ ~(low > up) /\ new.l = low /\ new.u = up
      <4>1. ~(atUpper \/ atLower) /\ ~(low > up)
        BY <2>2, <2>4
      <4>2. ~atUpper /\ ~atLower
        BY <4>1
      <4> QED BY <2>2, <4>1, <4>2
    <3>2. SUFFICES ASSUME KeepFree /\ p.c[j] = 0 /\ ~IsFinite(entry.l[j]) /\ ~IsFinite(entry.u[j]),
                          IsFinite(low), IsFinite(up)
                   PROVE  FALSE
      BY <3>1 DEF Open
    <3>3. low = up
      BY <1>1, <1>3, <1>5, <3>1, <3>2
    <3>4. up = p.u[j]
      BY <1>1, <3>1, <3>2, <3>3
    <3>5. low = p.l[j]
      BY <1>1, <3>1, <3>2, <3>3, <3>4
    <3> QED BY <2>4, <3>2, <3>3, <3>4, <3>5 DEF Open
  <2> QED BY <2>3, <2>4, <2>5 DEF new
<1> QED BY <1>4, <1>5

LEMMA TightenedShrinks ==
  ASSUME NEW p, Typed(p), NEW entries, NEW new, DOMAIN new \subseteq Cols,
         \A j \in DOMAIN new : new[j].l \in Int /\ new[j].u \in Int
  PROVE  LET q == Tightened(p, entries, new)
         IN /\ Shrinks(p, q) /\ q.keepRow = p.keepRow /\ q.keepCol = p.keepCol /\ q.c = p.c
            /\ \A j \in Cols : /\ q.l[j] = IF j \in DOMAIN new THEN new[j].l ELSE p.l[j]
                               /\ q.u[j] = IF j \in DOMAIN new THEN new[j].u ELSE p.u[j]
<1> DEFINE q == Tightened(p, entries, new)
<1>1. /\ DOMAIN q = PlanFields /\ q.keepRow = p.keepRow /\ q.keepCol = p.keepCol
      /\ q.a = p.a /\ q.c = p.c /\ q.AL = p.AL /\ q.AU = p.AU /\ q.delta = p.delta
      /\ q.l = [j \in Cols |-> IF j \in DOMAIN new THEN new[j].l ELSE p.l[j]]
      /\ q.u = [j \in Cols |-> IF j \in DOMAIN new THEN new[j].u ELSE p.u[j]]
  BY DEF Typed, PlanFields, Tightened
<1> HIDE DEF q
<1>2. q.l \in [Cols -> Int] /\ q.u \in [Cols -> Int]
  <2>1. \A j \in Cols : p.l[j] \in Int /\ p.u[j] \in Int
    BY DEF Typed, Numbers
  <2> QED BY <1>1, <2>1
<1>3. Shrinks(p, q)
  BY <1>1, <1>2 DEF Shrinks, Typed, Numbers
<1> QED BY <1>1, <1>3 DEF q

LEMMA FixedKeeps ==
  ASSUME NEW p, Typed(p), NEW S, NEW value, NEW rows
  PROVE  LET q == Fixed(p, S, value, rows)
         IN /\ q.c = p.c /\ q.keepCol = p.keepCol \ S
            /\ \A j \in Cols \ S : q.l[j] = p.l[j] /\ q.u[j] = p.u[j]
            /\ \A j \in Cols \cap S : q.l[j] = value[j] /\ q.u[j] = value[j]
<1> DEFINE q == Fixed(p, S, value, rows)
<1>1. /\ q.c = p.c /\ q.keepCol = p.keepCol \ S
      /\ q.l = [j \in Cols |-> IF j \in S THEN value[j] ELSE p.l[j]]
      /\ q.u = [j \in Cols |-> IF j \in S THEN value[j] ELSE p.u[j]]
  BY DEF Typed, PlanFields, Fixed
<1> HIDE DEF q
<1> QED BY <1>1 DEF q

\* One round: the costs stay, no bound is loosened, and columns that are not
\* boxed in stay so.
RoundKeeps(entry, p, q) ==
  /\ Shrinks(p, q) /\ q.c = p.c
  /\ \A j \in Cols : p.l[j] <= q.l[j] /\ q.u[j] <= p.u[j]
  /\ \A j \in q.keepCol : Open(entry, p, j, p.l[j], p.u[j]) => Open(entry, p, j, q.l[j], q.u[j])

\* A column that is not fixed and gets both bounds from its rows had them: the
\* lower one would have had to stay below the old upper one and the upper one
\* above the lower one.
LEMMA RoundStep ==
  ASSUME NEW p, Typed(p), NEW entry, entry.keepCol \subseteq Cols, NEW entries
  PROVE  RoundKeeps(entry, p, ImpliedBoundsRule(p, entry, entries))
<1> DEFINE new == [j \in entry.keepCol |-> Finalized(p, entry, entries, j)]
           fixed == {j \in DOMAIN new : new[j].fixed}
           value == [j \in fixed |-> new[j].l]
           t == Tightened(p, entries, new)
           s == Fixings(t, fixed, value)
           w == [s EXCEPT !.keepRow = @ \ Emptied(s)]
           q == ImpliedBoundsRule(p, entry, entries)
<1>1. /\ DOMAIN new = entry.keepCol
      /\ \A j \in DOMAIN new :
           /\ j \in Cols /\ new[j].l \in Int /\ new[j].u \in Int
           /\ ~new[j].crossed => /\ p.l[j] <= new[j].l /\ new[j].u <= p.u[j]
                                 /\ new[j].fixed => new[j].l <= p.u[j]
           /\ /\ Open(entry, p, j, p.l[j], p.u[j])
              /\ ~new[j].crossed /\ ~new[j].fixed
              => Open(entry, p, j, new[j].l, new[j].u)
  BY FinalizedIs
<1>2. \/ q = p \/ q = Infeasible(p)
      \/ (\A j \in DOMAIN new : ~new[j].crossed) /\ fixed = {} /\ q = t
      \/ (\A j \in DOMAIN new : ~new[j].crossed) /\ q = w
  BY DEF ImpliedBoundsRule, WithBounds, WithoutEmptied
<1> HIDE DEF new
<1>0. \A j \in Cols : p.l[j] \in Int /\ p.u[j] \in Int
  BY DEF Typed, Numbers
<1>3. CASE q = p
  <2>1. Shrinks(p, p)
    BY StaysShrunk
  <2> QED BY <1>0, <1>3, <2>1 DEF RoundKeeps
<1>4. CASE q = Infeasible(p)
  <2>1. q.c = p.c /\ q.l = p.l /\ q.u = p.u
    BY <1>4 DEF Infeasible, Typed, PlanFields
  <2>2. Shrinks(p, q)
    BY <1>4, VerdictShrinks DEF Infeasible
  <2> HIDE DEF q
  <2> QED BY <1>0, <2>1, <2>2 DEF RoundKeeps, q
<1>5. /\ Shrinks(p, t) /\ t.keepRow = p.keepRow /\ t.keepCol = p.keepCol /\ t.c = p.c
      /\ \A j \in Cols : /\ t.l[j] = IF j \in DOMAIN new THEN new[j].l ELSE p.l[j]
                         /\ t.u[j] = IF j \in DOMAIN new THEN new[j].u ELSE p.u[j]
  BY <1>1, TightenedShrinks
<1> HIDE DEF t
<1>6. ASSUME \A j \in DOMAIN new : ~new[j].crossed,
             NEW j \in Cols \ fixed, Open(entry, p, j, p.l[j], p.u[j])
      PROVE  Open(entry, p, j, t.l[j], t.u[j])
  <2>1. CASE j \in DOMAIN new
    <3>1. ~new[j].fixed /\ ~new[j].crossed
      BY <1>6, <2>1
    <3> QED BY <1>1, <1>5, <1>6, <2>1, <3>1
  <2>2. CASE j \notin DOMAIN new
    BY <1>5, <1>6, <2>2
  <2> QED BY <2>1, <2>2
<1>9. ASSUME \A j \in DOMAIN new : ~new[j].crossed
      PROVE  \A j \in Cols : p.l[j] <= t.l[j] /\ t.u[j] <= p.u[j]
  BY <1>0, <1>1, <1>5, <1>9
<1>7. CASE (\A j \in DOMAIN new : ~new[j].crossed) /\ fixed = {} /\ q = t
  <2>1. t.keepCol \subseteq Cols
    BY <1>5 DEF Shrinks, Typed
  <2>2. \A j \in t.keepCol : Open(entry, p, j, p.l[j], p.u[j]) => Open(entry, p, j, t.l[j], t.u[j])
    BY <1>6, <1>7, <2>1
  <2> QED BY <1>5, <1>7, <1>9, <2>2 DEF RoundKeeps
<1>8. CASE (\A j \in DOMAIN new : ~new[j].crossed) /\ q = w
  <2>1. Typed(t) /\ fixed \in SUBSET Cols /\ \A j \in fixed : value[j] \in Int
    BY <1>1, <1>5 DEF Shrinks
  <2>0. \A j \in fixed : p.l[j] <= value[j] /\ value[j] <= p.u[j]
    BY <1>1, <1>8
  <2> HIDE DEF fixed, value
  <2>2. Shrinks(t, s) /\ Typed(s)
    BY <2>1, FixedShrinks DEF Fixings, Shrinks
  <2>3. /\ s.c = t.c /\ s.keepCol = t.keepCol \ fixed
        /\ \A j \in Cols \ fixed : s.l[j] = t.l[j] /\ s.u[j] = t.u[j]
        /\ \A j \in Cols \cap fixed : s.l[j] = value[j] /\ s.u[j] = value[j]
    BY <2>1, FixedKeeps DEF Fixings
  <2> HIDE DEF s
  <2>4. /\ DOMAIN w = PlanFields /\ w.keepRow \subseteq s.keepRow /\ w.keepCol = s.keepCol
        /\ w.a = s.a /\ w.c = s.c /\ w.l = s.l /\ w.u = s.u /\ w.AL = s.AL /\ w.AU = s.AU
        /\ w.delta = s.delta
    BY <2>2 DEF Typed, PlanFields
  <2> HIDE DEF w, q
  <2>5. Shrinks(s, w)
    BY <2>2, <2>4 DEF Shrinks, Typed, Numbers
  <2>6. Shrinks(p, w)
    BY <1>5, <2>2, <2>5, ShrinksAgain
  <2>7. ASSUME NEW j \in w.keepCol, Open(entry, p, j, p.l[j], p.u[j])
        PROVE  Open(entry, p, j, w.l[j], w.u[j])
    <3>1. j \in Cols \ fixed
      BY <2>2, <2>3, <2>4 DEF Typed
    <3>2. Open(entry, p, j, t.l[j], t.u[j])
      BY <1>6, <1>8, <2>7, <3>1
    <3> QED BY <2>3, <2>4, <3>1, <3>2
  <2>8. \A j \in Cols : p.l[j] <= w.l[j] /\ w.u[j] <= p.u[j]
    <3>1. \A j \in Cols \ fixed : p.l[j] <= s.l[j] /\ s.u[j] <= p.u[j]
      BY <1>8, <1>9, <2>3
    <3>2. \A j \in Cols \cap fixed : p.l[j] <= s.l[j] /\ s.u[j] <= p.u[j]
      BY <2>0, <2>3
    <3> QED BY <2>4, <3>1, <3>2
  <2> QED BY <1>5, <1>8, <2>3, <2>4, <2>6, <2>7, <2>8 DEF RoundKeeps, q
<1> QED BY <1>2, <1>3, <1>4, <1>7, <1>8

-----------------------------------------------------------------------------
(* Duplicate columns.                                                      *)

WorkTyped(p, w) ==
  /\ DOMAIN w = {"plan", "merged", "fixed", "value", "unbounded"}
  /\ Typed(w.plan) /\ w.plan.keepRow = p.keepRow /\ w.plan.keepCol = p.keepCol
  /\ w.fixed \subseteq Cols /\ w.value \in [Cols -> Int]

LEMMA DominatedIs ==
  ASSUME NEW p, Typed(p), NEW j \in Cols, NEW k \in Cols, Dominated(p, j, k) # {}
  PROVE  LET f == CHOOSE e \in Dominated(p, j, k) : TRUE IN f[1] \in Cols /\ f[2] \in Int
<1>1. p.l[j] \in Int /\ p.u[j] \in Int /\ p.l[k] \in Int /\ p.u[k] \in Int
  BY DEF Typed, Numbers
<1>2. \A e \in Dominated(p, j, k) : e[1] \in Cols /\ e[2] \in Int
  BY <1>1 DEF Dominated
<1>3. (CHOOSE e \in Dominated(p, j, k) : TRUE) \in Dominated(p, j, k)
  OBVIOUS
<1> QED BY <1>2, <1>3

LEMMA MergedAre ==
  ASSUME NEW t \in Int, NEW v \in Int, NEW w \in Int, NEW r \in Int
  PROVE  MergedLower(t, v, w, r) \in Int /\ MergedUpper(t, v, w, r) \in Int
<1>1. r * v \in Int /\ r * w \in Int
  OBVIOUS
<1> QED BY <1>1, InfIsInt DEF MergedLower, MergedUpper

LEMMA PairStep ==
  ASSUME NEW p, NEW w, WorkTyped(p, w), NEW j \in Cols, NEW k \in Cols
  PROVE  WorkTyped(p, Pair(w, j, k))
<1> DEFINE x == w.plan
           r == RatioOfCol(x, j, k)
           f == CHOOSE e \in Dominated(x, j, k) : TRUE
           newL == MergedLower(x.l[j], x.l[k], x.u[k], r)
           newU == MergedUpper(x.u[j], x.l[k], x.u[k], r)
           merge == [w EXCEPT
             !.merged = Append(@, DuplicateColumn(k, j, r, x.l[k], x.u[k], x.l[j], x.u[j])),
             !.plan = [x EXCEPT !.l[j] = newL, !.u[j] = newU]]
           fix == [w EXCEPT !.fixed = @ \cup {f[1]}, !.value[f[1]] = f[2]]
           stop == [w EXCEPT !.unbounded = TRUE]
           q == Pair(w, j, k)
<1>1. /\ Typed(x) /\ x.keepRow = p.keepRow /\ x.keepCol = p.keepCol
      /\ DOMAIN w = {"plan", "merged", "fixed", "value", "unbounded"}
      /\ w.fixed \subseteq Cols /\ w.value \in [Cols -> Int]
  BY DEF WorkTyped
<1>0. q = IF w.unbounded \/ {j, k} \cap Gone(w) # {} \/ ~ParallelCols(x, j, k) THEN w
          ELSE IF x.c[k] = r * x.c[j] THEN merge
          ELSE IF Dominated(x, j, k) = {} THEN w
          ELSE IF ~IsFinite(f[2]) THEN stop ELSE fix
  BY DEF Pair
<1> HIDE DEF merge, fix, stop, q, f, r, x
<1>2. \/ q = w
      \/ q = stop
      \/ ParallelCols(x, j, k) /\ q = merge
      \/ Dominated(x, j, k) # {} /\ q = fix
  BY <1>0
<1> USE DEF merge, fix, stop, f, r, x
<1>3. CASE q = stop
  <2>1. /\ DOMAIN q = DOMAIN w /\ q.plan = w.plan /\ q.fixed = w.fixed /\ q.value = w.value
    BY <1>1, <1>3
  <2> QED BY <1>1, <2>1 DEF WorkTyped, q
<1>4. CASE ParallelCols(x, j, k) /\ q = merge
  <2>1. r \in Int
    BY <1>4 DEF ParallelCols, RatioOfCol
  <2>2. x.l[j] \in Int /\ x.l[k] \in Int /\ x.u[j] \in Int /\ x.u[k] \in Int
    BY <1>1 DEF Typed, Numbers
  <2> HIDE DEF r
  <2>3. newL \in Int /\ newU \in Int
    BY <2>1, <2>2, MergedAre
  <2> HIDE DEF newL, newU
  <2>4. /\ DOMAIN q = DOMAIN w /\ q.fixed = w.fixed /\ q.value = w.value
        /\ q.plan = [x EXCEPT !.l[j] = newL, !.u[j] = newU]
    BY <1>1, <1>4
  <2>5. /\ DOMAIN q.plan = PlanFields /\ q.plan.keepRow = p.keepRow /\ q.plan.keepCol = p.keepCol
        /\ q.plan.a = x.a /\ q.plan.c = x.c /\ q.plan.AL = x.AL /\ q.plan.AU = x.AU
        /\ q.plan.delta = x.delta
        /\ q.plan.l = [x.l EXCEPT ![j] = newL] /\ q.plan.u = [x.u EXCEPT ![j] = newU]
    BY <1>1, <2>4 DEF Typed, PlanFields
  <2>6. q.plan.l \in [Cols -> Int] /\ q.plan.u \in [Cols -> Int]
    BY <1>1, <2>3, <2>5 DEF Typed, Numbers
  <2> HIDE DEF x
  <2>7. Typed(q.plan)
    BY <1>1, <2>5, <2>6 DEF Typed, Numbers
  <2> QED BY <1>1, <2>4, <2>5, <2>7 DEF WorkTyped, q
<1>5. CASE Dominated(x, j, k) # {} /\ q = fix
  <2>1. f[1] \in Cols /\ f[2] \in Int
    BY <1>1, <1>5, DominatedIs
  <2> HIDE DEF f
  <2>2. /\ DOMAIN q = DOMAIN w /\ q.plan = w.plan /\ q.fixed = w.fixed \cup {f[1]}
        /\ q.value = [w.value EXCEPT ![f[1]] = f[2]]
    BY <1>1, <1>5
  <2> QED BY <1>1, <2>1, <2>2 DEF WorkTyped, q
<1> QED BY <1>1, <1>2, <1>3, <1>4, <1>5 DEF q

\* The function whose last value AfterPairs is.
PairsFrom(p) ==
  [plan |-> p, merged |-> << >>, fixed |-> {}, value |-> [j \in Cols |-> 0], unbounded |-> FALSE]
PairAt(p, n, w) ==
  LET j == 1 + ((n - 1) \div N)
      k == 1 + ((n - 1) % N)
  IN IF IsPair(p, j, k) THEN Pair(w, j, k) ELSE w
WorksOf(p, n, f) ==
  f = [m \in 0..n |-> IF m = 0 THEN PairsFrom(p) ELSE PairAt(p, m, f[m - 1])]
Works(p, n) == CHOOSE f : WorksOf(p, n, f)

\* It exists, as above.
LEMMA WorksExist == ASSUME NEW p, NEW n \in Nat PROVE WorksOf(p, n, Works(p, n))
<1> DEFINE Good == {m \in 0..n : \E f : WorksOf(p, m, f)}
<1>1. 0 \in Good
  <2> DEFINE f == [k \in 0..0 |-> PairsFrom(p)]
  <2>1. WorksOf(p, 0, f)
    BY DEF WorksOf
  <2> HIDE DEF f
  <2> QED BY <2>1
<1>2. ASSUME NEW m \in Good, m < n PROVE m + 1 \in Good
  <2>1. PICK f : WorksOf(p, m, f)
    OBVIOUS
  <2> DEFINE g == [k \in 0..(m + 1) |-> IF k = m + 1 THEN PairAt(p, m + 1, f[m]) ELSE f[k]]
             h == [k \in 0..(m + 1) |-> IF k = 0 THEN PairsFrom(p) ELSE PairAt(p, k, g[k - 1])]
  <2>2. m \in Nat
    OBVIOUS
  <2>3. ASSUME NEW k \in 0..(m + 1) PROVE g[k] = h[k]
    <3>1. CASE k = m + 1
      <4>1. g[k] = PairAt(p, k, f[m]) /\ g[k - 1] = f[m] /\ k # 0
        BY <2>2, <3>1
      <4> HIDE DEF g
      <4> QED BY <4>1
    <3>2. CASE k \in 0..m
      <4>1. g[k] = f[k] /\ (k # 0 => g[k - 1] = f[k - 1])
        BY <2>2, <3>2
      <4>2. f[k] = IF k = 0 THEN PairsFrom(p) ELSE PairAt(p, k, f[k - 1])
        BY <2>1, <3>2 DEF WorksOf
      <4> HIDE DEF g
      <4> QED BY <4>1, <4>2
    <3> QED BY <2>2, <3>1, <3>2
  <2>4. g = h
    <3>1. g = [k \in 0..(m + 1) |-> g[k]] /\ h = [k \in 0..(m + 1) |-> h[k]]
      OBVIOUS
    <3> HIDE DEF g, h
    <3> QED BY <2>3, <3>1
  <2>5. WorksOf(p, m + 1, g)
    <3> HIDE DEF g
    <3> QED BY <2>4 DEF WorksOf
  <2> HIDE DEF g, h
  <2> QED BY <1>2, <2>2, <2>5
<1>3. n \in Good
  <2>1. Good \in SUBSET (0..n)
    OBVIOUS
  <2> HIDE DEF Good
  <2>2. Good = 0..n
    BY <1>1, <1>2, <2>1, IntervalInduction
  <2> QED BY <2>2
<1> QED BY <1>3 DEF Works

LEMMA AfterPairsIs == ASSUME NEW p, Typed(p) PROVE WorkTyped(p, AfterPairs(p))
<1> DEFINE n == N * N
           f == Works(p, n)
           Good == {k \in 0..n : WorkTyped(p, f[k])}
<1>1. n \in Nat
  BY Sizes
<1>2. AfterPairs(p) = f[n]
  BY DEF AfterPairs, Works, WorksOf, PairsFrom, PairAt
<1> HIDE DEF n
<1>3. \A k \in 0..n : f[k] = IF k = 0 THEN PairsFrom(p) ELSE PairAt(p, k, f[k - 1])
  <2>1. WorksOf(p, n, f)
    BY <1>1, WorksExist
  <2> HIDE DEF f
  <2> QED BY <2>1 DEF WorksOf
<1> HIDE DEF f
<1>4. 0 \in Good
  <2>1. 0 \in 0..n /\ f[0] = PairsFrom(p)
    BY <1>1, <1>3
  <2>2. WorkTyped(p, PairsFrom(p))
    BY DEF WorkTyped, PairsFrom
  <2> QED BY <2>1, <2>2
<1>5. ASSUME NEW m \in Good, m < n PROVE m + 1 \in Good
  <2>1. m + 1 \in 0..n /\ m + 1 # 0 /\ (m + 1) - 1 = m
    BY <1>1, <1>5
  <2>2. f[m + 1] = PairAt(p, m + 1, f[m])
    BY <1>3, <2>1
  <2>3. WorkTyped(p, f[m])
    OBVIOUS
  <2> DEFINE j == 1 + (((m + 1) - 1) \div N)
             k == 1 + (((m + 1) - 1) % N)
  <2>4. f[m + 1] = IF IsPair(p, j, k) THEN Pair(f[m], j, k) ELSE f[m]
    BY <2>2 DEF PairAt
  <2> HIDE DEF j, k
  <2>5. IsPair(p, j, k) => j \in Cols /\ k \in Cols
    BY DEF IsPair, Typed
  <2>6. WorkTyped(p, f[m + 1])
    BY <2>3, <2>4, <2>5, PairStep
  <2> QED BY <2>1, <2>6
<1>6. n \in Good
  <2>1. Good \in SUBSET (0..n)
    OBVIOUS
  <2> HIDE DEF Good
  <2>2. Good = 0..n
    BY <1>1, <1>4, <1>5, <2>1, IntervalInduction
  <2> QED BY <1>1, <2>2
<1> QED BY <1>2, <1>6

LEMMA DuplicateColumnsShrinks == ASSUME NEW p, Typed(p) PROVE Shrinks(p, DuplicateColumns(p))
<1> DEFINE w == AfterPairs(p)
           m == [w.plan EXCEPT !.keepCol = @ \ {w.merged[q].col : q \in DOMAIN w.merged},
                               !.tape = @ \o TapeOrder(w.merged)]
<1>1. WorkTyped(p, w)
  BY AfterPairsIs
<1>2. DuplicateColumns(p) = Unbounded(p) \/ DuplicateColumns(p) = Fixed(m, w.fixed, w.value, p.keepRow)
  BY DEF DuplicateColumns
<1> HIDE DEF w
<1>3. /\ DOMAIN m = PlanFields /\ m.keepRow = p.keepRow /\ m.keepCol \subseteq p.keepCol
      /\ m.a = w.plan.a /\ m.c = w.plan.c /\ m.l = w.plan.l /\ m.u = w.plan.u
      /\ m.AL = w.plan.AL /\ m.AU = w.plan.AU /\ m.delta = w.plan.delta
  BY <1>1 DEF WorkTyped, Typed, PlanFields
<1> HIDE DEF m
<1>4. Typed(m) /\ Shrinks(p, m)
  BY <1>1, <1>3 DEF WorkTyped, Shrinks, Typed, Numbers
<1>5. Shrinks(m, Fixed(m, w.fixed, w.value, p.keepRow))
  <2>1. w.fixed \in SUBSET Cols /\ \A j \in w.fixed : w.value[j] \in Int
    BY <1>1 DEF WorkTyped
  <2> QED BY <1>4, <2>1, FixedShrinks
<1>6. Shrinks(p, Fixed(m, w.fixed, w.value, p.keepRow))
  BY <1>4, <1>5, ShrinksAgain
<1> QED BY <1>2, <1>6, VerdictShrinks DEF Unbounded

-----------------------------------------------------------------------------
(* Batches of doubleton equations.                                         *)

LEMMA TwoEnds ==
  ASSUME NEW v \in Int, NEW w \in Int
  PROVE  Min({v, w}) \in Int /\ Max({v, w}) \in Int
<1>1. IsFiniteSet({v, w})
  <2>1. {v, w} = {v} \cup {w}
    OBVIOUS
  <2>2. IsFiniteSet({v}) /\ IsFiniteSet({w})
    BY FS_Singleton
  <2>3. IsFiniteSet({v} \cup {w})
    BY <2>2, FS_Union
  <2> QED BY <2>1, <2>3
<1>2. {v, w} \in SUBSET Int /\ {v, w} # {}
  OBVIOUS
<1>3. Min({v, w}) \in {v, w} /\ Max({v, w}) \in {v, w}
  BY <1>1, <1>2, FiniteEnds
<1> QED BY <1>3

\* What the rule remembers of a pivot.
PivotTyped(p, v) ==
  /\ v.row \in Rows /\ v.elim \in p.keepCol /\ v.keep \in p.keepCol
  /\ v.elimVal \in Int /\ v.keepVal \in Int /\ v.rhs \in Int
  /\ v.elimL \in Int /\ v.elimU \in Int /\ v.elimC \in Int
  /\ v.keepL \in Int /\ v.keepU \in Int

LEMMA PivotIs ==
  ASSUME NEW p, Typed(p), NEW i \in Acceptable(p)
  PROVE  PivotTyped(p, PivotOf(p, i)) /\ PivotOf(p, i).row = i
<1> DEFINE e == PairOf(p, i).elim
           k == PairOf(p, i).keep
           S == RowCols(p, i)
           v == PivotOf(p, i)
<1>1. i \in p.keepRow /\ i \in Rows /\ Cardinality(S) = 2
  BY DEF Acceptable, Doubletons, Typed
<1>2. S \subseteq p.keepCol /\ S \in SUBSET Int /\ IsFiniteSet(S) /\ S # {}
  <2>1. S \subseteq p.keepCol /\ S \subseteq Cols
    BY DEF RowCols, Typed
  <2>2. S # {}
    BY <1>1, FS_EmptySet
  <2> QED BY <2>1, <2>2, Sizes, FS_Subset
<1> HIDE DEF S
<1>3. Min(S) \in S /\ Max(S) \in S
  BY <1>2, FiniteEnds
<1>4. e \in S /\ k \in S
  BY <1>3 DEF PairOf, S
<1> HIDE DEF e, k
<1>5. e \in p.keepCol /\ k \in p.keepCol /\ e \in Cols /\ k \in Cols
  BY <1>2, <1>4 DEF Typed
<1>6. /\ p.a[i][e] \in Int /\ p.a[i][k] \in Int /\ p.AU[i] \in Int
      /\ p.l[e] \in Int /\ p.u[e] \in Int /\ p.c[e] \in Int /\ p.l[k] \in Int /\ p.u[k] \in Int
  BY <1>1, <1>5, EndsAre
<1>7. /\ v.row = i /\ v.elim = e /\ v.keep = k /\ v.elimVal = p.a[i][e] /\ v.keepVal = p.a[i][k]
      /\ v.rhs = p.AU[i] /\ v.elimL = p.l[e] /\ v.elimU = p.u[e] /\ v.elimC = p.c[e]
      /\ v.keepL = p.l[k] /\ v.keepU = p.u[k]
  BY DEF PivotOf, e, k
<1> HIDE DEF v
<1>8. PivotTyped(p, v) /\ v.row = i
  BY <1>1, <1>5, <1>6, <1>7 DEF PivotTyped
<1> QED BY <1>8 DEF v

LEMMA PivotNumbers ==
  ASSUME NEW p, Typed(p), NEW v, PivotTyped(p, v)
  PROVE  /\ Alpha(v) \in Int /\ Beta(v) \in Int
         /\ KeepLower(v) \in Int /\ KeepUpper(v) \in Int
<1>1. Alpha(v) \in Int /\ Beta(v) \in Int
  BY DEF PivotTyped, Alpha, Beta
<1> DEFINE f(w) == IF IsFinite(w) THEN (w - Beta(v)) * Alpha(v) ELSE w * Alpha(v)
           s == f(v.elimL)
           t == f(v.elimU)
<1>2. s \in Int /\ t \in Int
  <2>1. v.elimL \in Int /\ v.elimU \in Int
    BY DEF PivotTyped
  <2> QED BY <1>1, <2>1
<1>3. MappedEnds(v) = {s, t}
  BY DEF MappedEnds
<1> HIDE DEF s, t
<1>4. Min({s, t}) \in Int /\ Max({s, t}) \in Int
  BY <1>2, TwoEnds
<1>5. v.keepL \in Int /\ v.keepU \in Int
  BY DEF PivotTyped
<1>6. Max({v.keepL, Min({s, t})}) \in Int /\ Min({v.keepU, Max({s, t})}) \in Int
  BY <1>4, <1>5, TwoEnds
<1> QED BY <1>1, <1>3, <1>6 DEF KeepLower, KeepUpper

\* The pivot of a row.
At(pivots, n) == CHOOSE v \in pivots : v.row = n

LEMMA AtIs ==
  ASSUME NEW pivots, NEW n \in {v.row : v \in pivots}
  PROVE  At(pivots, n) \in pivots
BY DEF At

LEMMA NewCoefIs ==
  ASSUME NEW p, Typed(p), NEW solving, \A v \in solving : PivotTyped(p, v),
         NEW i \in Rows, NEW j \in Cols
  PROVE  NewCoef(p, solving, i, j) \in Int
<1> DEFINE S == Keeps(solving, j)
           rows == {v.row : v \in S}
           t == [n \in 1..(M + N) |-> IF n \in rows
                   THEN Alpha(At(S, n)) * p.a[i][At(S, n).elim] ELSE 0]
<1>1. NewCoef(p, solving, i, j) = p.a[i][j] + Total(t, M + N)
  BY DEF NewCoef, OverPivots, Sum, At
<1>2. \A v \in S : PivotTyped(p, v)
  BY DEF Keeps
<1> HIDE DEF S
<1>3. ASSUME NEW n \in 1..(M + N) PROVE t[n] \in Int
  <2>1. CASE n \in rows
    <3> DEFINE v == At(S, n)
    <3>1. PivotTyped(p, v)
      BY <1>2, <2>1, AtIs
    <3> HIDE DEF v
    <3>2. v.elim \in Cols
      BY <3>1 DEF PivotTyped, Typed
    <3>3. Alpha(v) \in Int /\ p.a[i][v.elim] \in Int
      BY <3>1, <3>2, PivotNumbers, EndsAre
    <3>4. t[n] = Alpha(v) * p.a[i][v.elim]
      BY <2>1 DEF v
    <3> HIDE DEF t
    <3> QED BY <3>3, <3>4
  <2>2. CASE n \notin rows
    BY <2>2
  <2> QED BY <2>1, <2>2
<1> HIDE DEF t
<1>4. Total(t, M + N) \in Int
  BY <1>3, SumIsInt
<1> QED BY <1>1, <1>4, EndsAre

LEMMA ShiftIs ==
  ASSUME NEW p, Typed(p), NEW solving, \A v \in solving : PivotTyped(p, v),
         NEW fixing, \A v \in fixing : PivotTyped(p, v), NEW i \in Rows
  PROVE  Shift(p, solving, fixing, i) \in Int
<1> DEFINE rows == {v.row : v \in solving}
           ends == {v.row : v \in fixing}
           s == [n \in 1..(M + N) |-> IF n \in rows
                   THEN p.a[i][At(solving, n).elim] * Beta(At(solving, n)) ELSE 0]
           t == [n \in 1..(M + N) |-> IF n \in ends
                   THEN p.a[i][At(fixing, n).keep] * KeepLower(At(fixing, n)) ELSE 0]
<1>1. Shift(p, solving, fixing, i) = Total(s, M + N) + Total(t, M + N)
  BY DEF Shift, OverPivots, Sum, At
<1>2. ASSUME NEW n \in 1..(M + N) PROVE s[n] \in Int
  <2>1. CASE n \in rows
    <3> DEFINE v == At(solving, n)
    <3>1. PivotTyped(p, v)
      BY <2>1, AtIs
    <3> HIDE DEF v
    <3>2. v.elim \in Cols
      BY <3>1 DEF PivotTyped, Typed
    <3>3. Beta(v) \in Int /\ p.a[i][v.elim] \in Int
      BY <3>1, <3>2, PivotNumbers, EndsAre
    <3>4. s[n] = p.a[i][v.elim] * Beta(v)
      BY <2>1 DEF v
    <3> HIDE DEF s
    <3> QED BY <3>3, <3>4
  <2>2. CASE n \notin rows
    BY <2>2
  <2> QED BY <2>1, <2>2
<1>3. ASSUME NEW n \in 1..(M + N) PROVE t[n] \in Int
  <2>1. CASE n \in ends
    <3> DEFINE v == At(fixing, n)
    <3>1. PivotTyped(p, v)
      BY <2>1, AtIs
    <3> HIDE DEF v
    <3>2. v.keep \in Cols
      BY <3>1 DEF PivotTyped, Typed
    <3>3. KeepLower(v) \in Int /\ p.a[i][v.keep] \in Int
      BY <3>1, <3>2, PivotNumbers, EndsAre
    <3>4. t[n] = p.a[i][v.keep] * KeepLower(v)
      BY <2>1 DEF v
    <3> HIDE DEF t
    <3> QED BY <3>3, <3>4
  <2>2. CASE n \notin ends
    BY <2>2
  <2> QED BY <2>1, <2>2
<1> HIDE DEF s, t
<1>4. Total(s, M + N) \in Int /\ Total(t, M + N) \in Int
  BY <1>2, <1>3, SumIsInt
<1> QED BY <1>1, <1>4

Spent(p, fixing) == OverPivots(LAMBDA v : p.c[v.keep] * KeepLower(v), fixing)

\* What the pivots add to a cost, and to the constant of the objective.
LEMMA CostsAre ==
  ASSUME NEW p, Typed(p), NEW solving, \A v \in solving : PivotTyped(p, v),
         NEW fixing, \A v \in fixing : PivotTyped(p, v)
  PROVE  /\ OverPivots(LAMBDA v : v.elimC * Alpha(v), solving) \in Int
         /\ OverPivots(LAMBDA v : v.elimC * Beta(v), solving) \in Int
         /\ Spent(p, fixing) \in Int
<1> DEFINE rows == {v.row : v \in solving}
           ends == {v.row : v \in fixing}
           r == [n \in 1..(M + N) |-> IF n \in rows
                   THEN At(solving, n).elimC * Alpha(At(solving, n)) ELSE 0]
           s == [n \in 1..(M + N) |-> IF n \in rows
                   THEN At(solving, n).elimC * Beta(At(solving, n)) ELSE 0]
           t == [n \in 1..(M + N) |-> IF n \in ends
                   THEN p.c[At(fixing, n).keep] * KeepLower(At(fixing, n)) ELSE 0]
<1>1. /\ OverPivots(LAMBDA v : v.elimC * Alpha(v), solving) = Total(r, M + N)
      /\ OverPivots(LAMBDA v : v.elimC * Beta(v), solving) = Total(s, M + N)
      /\ Spent(p, fixing) = Total(t, M + N)
  BY DEF OverPivots, Sum, At, Spent
<1>2. ASSUME NEW n \in 1..(M + N) PROVE r[n] \in Int /\ s[n] \in Int
  <2>1. CASE n \in rows
    <3> DEFINE v == At(solving, n)
    <3>1. PivotTyped(p, v)
      BY <2>1, AtIs
    <3> HIDE DEF v
    <3>2. Alpha(v) \in Int /\ Beta(v) \in Int /\ v.elimC \in Int
      BY <3>1, PivotNumbers DEF PivotTyped
    <3>3. r[n] = v.elimC * Alpha(v) /\ s[n] = v.elimC * Beta(v)
      BY <2>1 DEF v
    <3> HIDE DEF r, s
    <3> QED BY <3>2, <3>3
  <2>2. CASE n \notin rows
    BY <2>2
  <2> QED BY <2>1, <2>2
<1>3. ASSUME NEW n \in 1..(M + N) PROVE t[n] \in Int
  <2>1. CASE n \in ends
    <3> DEFINE v == At(fixing, n)
    <3>1. PivotTyped(p, v)
      BY <2>1, AtIs
    <3> HIDE DEF v
    <3>2. p.c[v.keep] \in Int
      BY <3>1 DEF PivotTyped, Typed, Numbers
    <3>3. KeepLower(v) \in Int
      BY <3>1, PivotNumbers
    <3>4. t[n] = p.c[v.keep] * KeepLower(v)
      BY <2>1 DEF v
    <3> HIDE DEF t
    <3> QED BY <3>2, <3>3, <3>4
  <2>2. CASE n \notin ends
    BY <2>2
  <2> QED BY <2>1, <2>2
<1> HIDE DEF r, s, t
<1>4. \A n \in 1..(M + N) : r[n] \in Int
  BY <1>2
<1>5. \A n \in 1..(M + N) : s[n] \in Int
  BY <1>2
<1>6. Total(r, M + N) \in Int /\ Total(s, M + N) \in Int /\ Total(t, M + N) \in Int
  BY <1>3, <1>4, <1>5, SumIsInt
<1> QED BY <1>1, <1>6

\* The rewriting of a batch takes away the columns Removed names.
LEMMA RewrittenShrinks ==
  ASSUME NEW p, Typed(p), NEW solving, \A v \in solving : PivotTyped(p, v),
         NEW fixing, \A v \in fixing : PivotTyped(p, v)
  PROVE  LET q == Rewritten(p, solving, fixing)
         IN Shrinks(p, q) /\ q.keepCol = p.keepCol \ Removed(solving, fixing)
<1> DEFINE rows == p.keepRow \ {v.row : v \in solving}
           writers(j) == Keeps(solving \cup fixing, j)
           writer(j) == CHOOSE v \in writers(j) : TRUE
           moved(j) == OverPivots(LAMBDA v : v.elimC * Alpha(v), Keeps(solving, j))
           gained == OverPivots(LAMBDA v : v.elimC * Beta(v), solving)
           spent == Spent(p, fixing)
           shift(i) == Shift(p, solving, fixing, i)
           q == Rewritten(p, solving, fixing)
<1>1. /\ DOMAIN q = PlanFields /\ q.keepRow = rows
      /\ q.keepCol = p.keepCol \ Removed(solving, fixing)
      /\ q.a = [i \in Rows |-> [j \in Cols |->
                  IF i \in rows THEN NewCoef(p, solving, i, j) ELSE p.a[i][j]]]
      /\ q.l = [j \in Cols |-> IF writers(j) = {} THEN p.l[j] ELSE KeepLower(writer(j))]
      /\ q.u = [j \in Cols |-> IF writers(j) = {} THEN p.u[j] ELSE KeepUpper(writer(j))]
      /\ q.c = [j \in Cols |-> p.c[j] + moved(j)]
      /\ q.AL = [i \in Rows |-> IF i \in rows THEN Minus(p.AL[i], shift(i)) ELSE p.AL[i]]
      /\ q.AU = [i \in Rows |-> IF i \in rows THEN Minus(p.AU[i], shift(i)) ELSE p.AU[i]]
      /\ q.delta = p.delta + gained + spent
  BY DEF Typed, PlanFields, Rewritten, Spent
<1>2. \A i \in Rows, j \in Cols : NewCoef(p, solving, i, j) \in Int /\ p.a[i][j] \in Int
  BY NewCoefIs, EndsAre
<1>3. \A i \in Rows : shift(i) \in Int
  BY ShiftIs
<1>4. gained \in Int /\ spent \in Int
  BY CostsAre
<1>5. ASSUME NEW j \in Cols PROVE moved(j) \in Int
  <2> DEFINE S == Keeps(solving, j)
  <2>1. \A v \in S : PivotTyped(p, v)
    BY DEF Keeps
  <2> HIDE DEF S
  <2>2. OverPivots(LAMBDA v : v.elimC * Alpha(v), S) \in Int
    BY <2>1, CostsAre
  <2> QED BY <2>2 DEF S
<1>6. ASSUME NEW j \in Cols, writers(j) # {}
      PROVE  KeepLower(writer(j)) \in Int /\ KeepUpper(writer(j)) \in Int
  <2>1. writer(j) \in writers(j)
    BY <1>6
  <2>2. PivotTyped(p, writer(j))
    BY <2>1 DEF Keeps
  <2> HIDE DEF writer
  <2> QED BY <2>2, PivotNumbers
<1> HIDE DEF q, rows, writers, writer, moved, gained, spent, shift
<1>7. q.a \in [Rows -> [Cols -> Int]]
  BY <1>1, <1>2
<1>8. q.l \in [Cols -> Int] /\ q.u \in [Cols -> Int] /\ q.c \in [Cols -> Int]
  <2>1. \A j \in Cols : p.l[j] \in Int /\ p.u[j] \in Int /\ p.c[j] \in Int
    BY DEF Typed, Numbers
  <2>2. \A j \in Cols : p.c[j] + moved(j) \in Int
    BY <1>5, <2>1
  <2> QED BY <1>1, <1>6, <2>1, <2>2
<1>9. q.AL \in [Rows -> Int] /\ q.AU \in [Rows -> Int]
  <2>1. \A i \in Rows : p.AL[i] \in Int /\ p.AU[i] \in Int
    BY DEF Typed, Numbers
  <2>2. \A i \in Rows : Minus(p.AL[i], shift(i)) \in Int /\ Minus(p.AU[i], shift(i)) \in Int
    BY <1>3, <2>1, MinusIsInt
  <2> QED BY <1>1, <2>1, <2>2
<1>10. q.delta \in Int
  BY <1>1, <1>4 DEF Typed, Numbers
<1>11. q.keepRow \subseteq p.keepRow /\ q.keepCol \subseteq p.keepCol
  BY <1>1 DEF rows
<1>12. Shrinks(p, q)
  BY <1>1, <1>7, <1>8, <1>9, <1>10, <1>11 DEF Shrinks, Typed, Numbers
<1> QED BY <1>1, <1>12 DEF q

\* The rows of a batch are candidates.
LEMMA TakenIs == ASSUME NEW p PROVE Taken(p) \subseteq Acceptable(p)
<1> DEFINE pairs == [i \in Acceptable(p) |-> PairOf(p, i)]
<1>1. DOMAIN pairs = Acceptable(p)
  OBVIOUS
<1>2. Taken(p) = Matched(pairs, MatchingRounds)
  BY DEF Taken
<1> HIDE DEF pairs
<1> QED BY <1>1, <1>2, BatchesAssumption, MatchedTyped

\* A batch that is not too small removes a column, unless it finds the LP
\* infeasible.
LEMMA SolveBatchStep ==
  ASSUME NEW p, Typed(p)
  PROVE  LET q == SolveBatch(p, Taken(p))
         IN /\ Shrinks(p, q)
            /\ ~TooFew(p) /\ q.verdict = "none" => q.keepCol # p.keepCol
<1> DEFINE pivots == {PivotOf(p, i) : i \in Taken(p)}
           fixing == {v \in pivots : Meets(v)}
           solving == pivots \ fixing
           r == Rewritten(p, solving, fixing)
           q == SolveBatch(p, Taken(p))
<1>1. q = [p EXCEPT !.verdict = "infeasible"] \/ q = r
  BY DEF SolveBatch
<1>2. \A v \in pivots : PivotTyped(p, v)
  BY TakenIs, PivotIs
<1>3. Taken(p) # {} => pivots # {}
  OBVIOUS
<1> HIDE DEF pivots
<1>4. (\A v \in solving : PivotTyped(p, v)) /\ (\A v \in fixing : PivotTyped(p, v))
  BY <1>2
<1>5. solving \cup fixing = pivots
  OBVIOUS
<1> HIDE DEF solving, fixing
<1>6. Shrinks(p, r) /\ r.keepCol = p.keepCol \ Removed(solving, fixing)
  BY <1>4, RewrittenShrinks
<1>7. ASSUME Taken(p) # {} PROVE r.keepCol # p.keepCol
  <2>1. PICK v \in pivots : TRUE
    BY <1>3, <1>7
  <2>2. \E j \in p.keepCol : j \in Removed(solving, fixing)
    BY <1>2, <1>5, <2>1 DEF Removed, PivotTyped
  <2> QED BY <1>6, <2>2
<1> HIDE DEF r, q
<1>8. CASE q = [p EXCEPT !.verdict = "infeasible"]
  <2>1. Shrinks(p, q)
    BY <1>8, VerdictShrinks
  <2>2. q.verdict = "infeasible"
    BY <1>8 DEF Typed, PlanFields
  <2> QED BY <2>1, <2>2 DEF q
<1>9. CASE q = r
  BY <1>6, <1>7, <1>9 DEF q, TooFew
<1> QED BY <1>1, <1>8, <1>9

-----------------------------------------------------------------------------
(* The phases.                                                             *)

LEMMA RowPhaseShrinks ==
  ASSUME NEW p, Typed(p), NEW name \in RowPhases
  PROVE  Shrinks(p, RowPhase(name, p))
<1> USE DEF RowPhases, RowPhase
<1>1. CASE name = "emptyRows"
  BY <1>1, EmptyRowsShrinks
<1>2. CASE name = "singletonRows"
  BY <1>2, SingletonRowsShrinks
<1>3. CASE name = "trivialRows"
  BY <1>3, TrivialRowsShrinks
<1>4. CASE name = "redundantRows"
  BY <1>4, RedundantRowsShrinks
<1>5. CASE name = "duplicateRows"
  BY <1>5, DuplicateRowsShrinks
<1> QED BY <1>1, <1>2, <1>3, <1>4, <1>5

LEMMA ColPhaseShrinks ==
  ASSUME NEW p, Typed(p), NEW name \in ColPhases
  PROVE  Shrinks(p, ColPhase(name, p))
<1> USE DEF ColPhases, ColPhase
<1>1. CASE name = "fixedCols"
  BY <1>1, FixedVariablesShrinks
<1>2. CASE name = "emptyCols"
  BY <1>2, EmptyColsShrinks
<1>3. CASE name = "trivialCols"
  BY <1>3, TrivialColsShrinks
<1>4. CASE name = "dualInfer"
  BY <1>4, DualInferShrinks
<1>5. CASE name = "singletonEq"
  <2> DEFINE owned == Owned(p, SingletonColOf(p))
  <2>1. owned \in SUBSET (Rows \X Cols)
    BY DEF Owned
  <2>2. ColPhase(name, p) = ColumnSingletonsEq(p, owned)
    BY <1>5
  <2> HIDE DEF owned
  <2> QED BY <2>1, <2>2, SingletonEqShrinks
<1>6. CASE name = "dualFix"
  BY <1>6, DualFixShrinks
<1>7. CASE name = "duplicateCols"
  BY <1>7, DuplicateColumnsShrinks
<1> QED BY <1>1, <1>2, <1>3, <1>4, <1>5, <1>6, <1>7

-----------------------------------------------------------------------------
(* The invariant.                                                          *)

\* The plan of a group of rounds: what it keeps is of the LP the group started
\* with, its costs are the LP's, and no column that was free is boxed in.
GroupInv ==
  /\ Typed(plan) /\ plan.c = current.c
  /\ plan.keepRow \subseteq current.keepRow /\ plan.keepCol \subseteq current.keepCol
  /\ \A j \in plan.keepCol : Open(current, plan, j, plan.l[j], plan.u[j])
\* The closure and the batches are never both at work.
LoopTypeOK ==
  /\ Typed(current)
  /\ pc \in {"idle", "group", "round", "commit", "rows"}
  /\ stage \in {"idle", "batches", "commit"}
  /\ pc = "idle" \/ stage = "idle"
  /\ batches \in Nat
LoopInv == LoopTypeOK /\ (pc \in {"round", "commit"} => GroupInv)

\* The families are LPs over integers.
LEMMA InitTyped == Init => Typed(current)
<1> SUFFICES ASSUME Init PROVE Typed(current)
  OBVIOUS
<1>1. PICK q \in DOMAIN Families :
        LET f == Families[q]
        IN \E a \in f.matrices, k \in [f.cols -> f.columns], r \in [f.rows -> f.sides] :
             LET column(j) == IF j \in f.cols THEN k[j] ELSE [c |-> 0, l |-> 0, u |-> 0]
                 row(i) == IF i \in f.rows THEN r[i] ELSE [AL |-> -Inf, AU |-> Inf]
             IN /\ lp = [a |-> a,
                         c |-> [j \in Cols |-> column(j).c],
                         l |-> [j \in Cols |-> column(j).l], u |-> [j \in Cols |-> column(j).u],
                         AL |-> [i \in Rows |-> row(i).AL], AU |-> [i \in Rows |-> row(i).AU]]
                /\ current = [NewPlan(lp) EXCEPT !.keepRow = f.rows, !.keepCol = f.cols]
  BY DEF Init, InitLp
<1> DEFINE f == Families[q]
<1>2. /\ f.rows \subseteq Rows /\ f.cols \subseteq Cols
      /\ f.matrices \subseteq [Rows -> [Cols -> Int]]
      /\ f.columns \subseteq [c : Int, l : (-Inf)..Inf, u : (-Inf)..Inf]
      /\ f.sides \subseteq [AL : (-Inf)..Inf, AU : (-Inf)..Inf]
  BY FamiliesAssumption
<1>3. PICK a \in f.matrices, k \in [f.cols -> f.columns], r \in [f.rows -> f.sides] :
        LET column(j) == IF j \in f.cols THEN k[j] ELSE [c |-> 0, l |-> 0, u |-> 0]
            row(i) == IF i \in f.rows THEN r[i] ELSE [AL |-> -Inf, AU |-> Inf]
        IN /\ lp = [a |-> a,
                    c |-> [j \in Cols |-> column(j).c],
                    l |-> [j \in Cols |-> column(j).l], u |-> [j \in Cols |-> column(j).u],
                    AL |-> [i \in Rows |-> row(i).AL], AU |-> [i \in Rows |-> row(i).AU]]
           /\ current = [NewPlan(lp) EXCEPT !.keepRow = f.rows, !.keepCol = f.cols]
  BY <1>1
<1> DEFINE column(j) == IF j \in f.cols THEN k[j] ELSE [c |-> 0, l |-> 0, u |-> 0]
           row(i) == IF i \in f.rows THEN r[i] ELSE [AL |-> -Inf, AU |-> Inf]
<1> HIDE DEF f
<1>4. ASSUME NEW j \in Cols PROVE column(j).c \in Int /\ column(j).l \in Int /\ column(j).u \in Int
  <2>1. CASE j \in f.cols
    <3>1. k[j] \in [c : Int, l : (-Inf)..Inf, u : (-Inf)..Inf]
      BY <1>2, <1>3, <2>1
    <3> QED BY <2>1, <3>1, InfIsInt
  <2>2. CASE j \notin f.cols
    BY <2>2
  <2> QED BY <2>1, <2>2
<1>5. ASSUME NEW i \in Rows PROVE row(i).AL \in Int /\ row(i).AU \in Int
  <2>1. CASE i \in f.rows
    <3>1. r[i] \in [AL : (-Inf)..Inf, AU : (-Inf)..Inf]
      BY <1>2, <1>3, <2>1
    <3> QED BY <2>1, <3>1, InfIsInt
  <2>2. CASE i \notin f.rows
    BY <2>2, InfIsInt
  <2> QED BY <2>1, <2>2
<1>6. /\ lp.a = a /\ lp.c = [j \in Cols |-> column(j).c]
      /\ lp.l = [j \in Cols |-> column(j).l] /\ lp.u = [j \in Cols |-> column(j).u]
      /\ lp.AL = [i \in Rows |-> row(i).AL] /\ lp.AU = [i \in Rows |-> row(i).AU]
      /\ current = [NewPlan(lp) EXCEPT !.keepRow = f.rows, !.keepCol = f.cols]
  BY <1>3 DEF f
<1> HIDE DEF column, row
<1>7. /\ lp.a \in [Rows -> [Cols -> Int]]
      /\ lp.c \in [Cols -> Int] /\ lp.l \in [Cols -> Int] /\ lp.u \in [Cols -> Int]
      /\ lp.AL \in [Rows -> Int] /\ lp.AU \in [Rows -> Int]
  BY <1>2, <1>4, <1>5, <1>6
<1>8. /\ DOMAIN current = PlanFields /\ current.keepRow = f.rows /\ current.keepCol = f.cols
      /\ current.a = lp.a /\ current.c = lp.c /\ current.l = lp.l /\ current.u = lp.u
      /\ current.AL = lp.AL /\ current.AU = lp.AU /\ current.delta = 0
  BY <1>6 DEF NewPlan, PlanFields
<1> QED BY <1>2, <1>7, <1>8 DEF Typed, Numbers

LEMMA InitLoopInv == Init => LoopInv
BY InitTyped DEF Init, InitBounds, InitBatches, LoopInv, LoopTypeOK

-----------------------------------------------------------------------------
(* The steps.  Every step keeps the invariant and removes rows and columns  *)
(* of the working LP or leaves them; the batches count what they removed.  *)

StepKeeps ==
  /\ LoopInv'
  /\ Shrinks(current, current')
  /\ batches' > batches => current'.keepCol # current.keepCol

LEMMA CommitShrinks ==
  ASSUME NEW p, Typed(p), NEW q, Shrinks(p, q)
  PROVE  Shrinks(p, IF q.verdict = "none" THEN Compacted(q) ELSE [p EXCEPT !.verdict = q.verdict])
<1>1. Typed(q)
  BY DEF Shrinks
<1>2. Shrinks(p, Compacted(q))
  BY <1>1, CompactedShrinks, ShrinksAgain
<1> QED BY <1>2, VerdictShrinks

\* A phase of rows or columns, or the last one.
LEMMA CommitStep ==
  ASSUME LoopInv, Idle, NEW q, Shrinks(current, q), Commit(q)
  PROVE  StepKeeps
<1>1. Typed(current)
  BY DEF LoopInv, LoopTypeOK
<1>2. Shrinks(current, current')
  BY <1>1, CommitShrinks DEF Commit
<1>3. Typed(current')
  BY <1>2 DEF Shrinks
<1>4. UNCHANGED <<pc, stage, batches>>
  BY DEF Commit, boundsVars, groupVars, batchVars
<1>5. pc = "idle" /\ batches \in Nat
  BY DEF Idle, LoopInv, LoopTypeOK
<1>6. LoopInv'
  BY <1>3, <1>4, <1>5 DEF LoopInv, LoopTypeOK
<1> QED BY <1>2, <1>4, <1>5, <1>6 DEF StepKeeps

\* Nothing but the program counters and counters moves.
LEMMA CallStep ==
  ASSUME LoopInv, UNCHANGED current, pc' \notin {"round", "commit"},
         pc' \in {"idle", "group", "round", "commit", "rows"},
         stage' \in {"idle", "batches", "commit"},
         (pc' = "idle" \/ stage' = "idle"), batches' = 0 \/ batches' = batches
  PROVE  StepKeeps
<1>1. Typed(current) /\ batches \in Nat
  BY DEF LoopInv, LoopTypeOK
<1>2. LoopInv'
  BY <1>1 DEF LoopInv, LoopTypeOK
<1>3. Shrinks(current, current')
  BY <1>1, StaysShrunk
<1>4. ~(batches' > batches)
  BY <1>1
<1> QED BY <1>2, <1>3, <1>4 DEF StepKeeps

LEMMA RunRoundStep == ASSUME LoopInv, RunRound, UNCHANGED batchVars PROVE StepKeeps
<1> DEFINE q == ImpliedBoundsRule(plan, current, nnz)
<1>1. pc = "round" /\ Typed(current) /\ GroupInv /\ stage = "idle" /\ batches \in Nat
  BY DEF RunRound, LoopInv, LoopTypeOK
<1>2. current.keepCol \subseteq Cols /\ Typed(plan)
  BY <1>1 DEF Typed, GroupInv
<1>3. RoundKeeps(current, plan, q)
  BY <1>2, RoundStep
<1> HIDE DEF q
<1>4. /\ plan' = q /\ current' = [current EXCEPT !.verdict = q.verdict]
      /\ pc' \in {"idle", "round", "commit"} /\ stage' = stage /\ batches' = batches
  BY DEF RunRound, Became, AfterRound, batchVars, q
<1>5. Shrinks(current, current')
  BY <1>1, <1>4, VerdictShrinks
<1>6. /\ current'.c = current.c /\ current'.keepRow = current.keepRow
      /\ current'.keepCol = current.keepCol /\ current'.l = current.l /\ current'.u = current.u
  BY <1>1, <1>4 DEF Typed, PlanFields
<1>7. GroupInv'
  <2>1. /\ Typed(plan') /\ plan'.c = plan.c
        /\ plan'.keepRow \subseteq plan.keepRow /\ plan'.keepCol \subseteq plan.keepCol
    BY <1>3, <1>4 DEF RoundKeeps, Shrinks
  <2>2. /\ plan.c = current.c
        /\ plan.keepRow \subseteq current.keepRow /\ plan.keepCol \subseteq current.keepCol
    BY <1>1 DEF GroupInv
  <2>3. ASSUME NEW j \in plan'.keepCol
        PROVE  Open(current', plan', j, plan'.l[j], plan'.u[j])
    <3>1. Open(current, plan, j, plan.l[j], plan.u[j])
      BY <1>1, <2>1, <2>3 DEF GroupInv
    <3>2. Open(current, plan, j, plan'.l[j], plan'.u[j])
      BY <1>3, <1>4, <2>3, <3>1 DEF RoundKeeps
    <3> QED BY <1>6, <2>1, <3>2 DEF Open
  <2> QED BY <1>6, <2>1, <2>2, <2>3 DEF GroupInv
<1>8. Typed(current')
  BY <1>5 DEF Shrinks
<1>9. LoopInv'
  BY <1>1, <1>4, <1>7, <1>8 DEF LoopInv, LoopTypeOK
<1> QED BY <1>1, <1>4, <1>5, <1>9 DEF StepKeeps

LEMMA StartGroupStep == ASSUME LoopInv, StartGroup, UNCHANGED batchVars PROVE StepKeeps
<1>1. /\ pc = "group" /\ Typed(current) /\ stage = "idle" /\ batches \in Nat
      /\ plan' = current /\ current' = current /\ pc' = "round"
      /\ stage' = stage /\ batches' = batches
  BY DEF StartGroup, LoopInv, LoopTypeOK, lpVars, batchVars
<1>2. GroupInv'
  BY <1>1 DEF GroupInv, Open
<1>3. LoopInv'
  BY <1>1, <1>2 DEF LoopInv, LoopTypeOK
<1>4. Shrinks(current, current')
  BY <1>1, StaysShrunk
<1> QED BY <1>1, <1>3, <1>4 DEF StepKeeps

LEMMA CommitGroupStep == ASSUME LoopInv, CommitGroup, UNCHANGED batchVars PROVE StepKeeps
<1>1. /\ pc = "commit" /\ Typed(current) /\ GroupInv /\ stage = "idle" /\ batches \in Nat
      /\ current' = IF changed THEN Compacted(plan) ELSE current
      /\ pc' \in {"group", "rows"} /\ stage' = stage /\ batches' = batches
  BY DEF CommitGroup, LoopInv, LoopTypeOK, batchVars
<1>2. Shrinks(current, plan)
  BY <1>1 DEF GroupInv, Shrinks
<1>3. Shrinks(current, Compacted(plan))
  <2>1. Shrinks(plan, Compacted(plan))
    BY <1>1, CompactedShrinks DEF GroupInv
  <2> QED BY <1>2, <2>1, ShrinksAgain
<1>4. Shrinks(current, current')
  BY <1>1, <1>3, StaysShrunk
<1>5. LoopInv'
  BY <1>1, <1>4 DEF LoopInv, LoopTypeOK, Shrinks
<1> QED BY <1>1, <1>4, <1>5 DEF StepKeeps

LEMMA LastRowsStep == ASSUME LoopInv, LastRows, UNCHANGED batchVars PROVE StepKeeps
<1> DEFINE q == RedundantRows(current)
           r == IF q.verdict = "none" THEN Compacted(q) ELSE [current EXCEPT !.verdict = q.verdict]
<1>1. /\ Typed(current) /\ stage = "idle" /\ batches \in Nat
      /\ current' = r \/ current' = current
      /\ pc' = "idle" /\ stage' = stage /\ batches' = batches
  BY DEF LastRows, LoopInv, LoopTypeOK, batchVars
<1>2. Shrinks(current, q)
  BY <1>1, RedundantRowsShrinks
<1> HIDE DEF q
<1>3. Shrinks(current, r)
  BY <1>1, <1>2, CommitShrinks
<1> HIDE DEF r
<1>4. Shrinks(current, current')
  BY <1>1, <1>3, StaysShrunk
<1>5. LoopInv'
  BY <1>1, <1>4 DEF LoopInv, LoopTypeOK, Shrinks
<1> QED BY <1>1, <1>4, <1>5 DEF StepKeeps

\* The clock, and the end of the rounds of a group.
LEMMA WaitStep ==
  ASSUME LoopInv, UNCHANGED <<current, plan, batches, stage>>,
         (pc' = pc \/ (pc = "round" /\ pc' = "commit"))
  PROVE  StepKeeps
<1>1. Typed(current) /\ batches \in Nat
  BY DEF LoopInv, LoopTypeOK
<1>2. LoopInv'
  <2>1. pc' \in {"round", "commit"} => pc \in {"round", "commit"}
    OBVIOUS
  <2>2. GroupInv => GroupInv'
    BY DEF GroupInv
  <2>3. LoopTypeOK'
    BY DEF LoopInv, LoopTypeOK
  <2> QED BY <2>1, <2>2, <2>3 DEF LoopInv
<1>3. Shrinks(current, current')
  BY <1>1, StaysShrunk
<1> QED BY <1>1, <1>2, <1>3 DEF StepKeeps

LEMMA BoundsStepKeeps == ASSUME LoopInv, ContinueBounds PROVE StepKeeps
<1>1. UNCHANGED batchVars /\ stage' = stage /\ batches' = batches
  BY DEF ContinueBounds, batchVars
<1>2. CASE Expire
  <2>1. UNCHANGED <<current, plan>> /\ pc' = pc
    BY <1>2 DEF Expire, lpVars, groupVars
  <2> QED BY <1>1, <2>1, WaitStep
<1>3. CASE StartGroup
  BY <1>1, <1>3, StartGroupStep
<1>4. CASE RunRound
  BY <1>1, <1>4, RunRoundStep
<1>5. CASE LeaveRounds
  BY <1>1, <1>5, WaitStep DEF LeaveRounds, lpVars, groupVars
<1>6. CASE CommitGroup
  BY <1>1, <1>6, CommitGroupStep
<1>7. CASE LeaveGroups
  <2>1. current' = current /\ pc' = "rows" /\ pc = "group"
    BY <1>7 DEF LeaveGroups, lpVars
  <2>2. stage = "idle"
    BY <2>1 DEF LoopInv, LoopTypeOK
  <2> QED BY <1>1, <2>1, <2>2, CallStep
<1>8. CASE LastRows
  BY <1>1, <1>8, LastRowsStep
<1> QED BY <1>2, <1>3, <1>4, <1>5, <1>6, <1>7, <1>8 DEF ContinueBounds, BoundsStep

LEMMA RunBatchStep == ASSUME LoopInv, RunBatch, UNCHANGED boundsVars PROVE StepKeeps
<1> DEFINE q == SolveBatch(current, Taken(current))
<1>1. /\ Typed(current) /\ stage = "batches" /\ pc = "idle" /\ batches \in Nat
      /\ current' = q /\ ~TooFew(current) /\ pc' = pc
      /\ \/ q.verdict = "none" /\ batches' = batches + 1 /\ stage' = stage
         \/ stage' = "commit" /\ batches' = batches
  BY DEF RunBatch, LoopInv, LoopTypeOK, boundsVars
<1>2. /\ Shrinks(current, q)
      /\ q.verdict = "none" => q.keepCol # current.keepCol
  BY <1>1, SolveBatchStep
<1> HIDE DEF q
<1>3. LoopInv'
  BY <1>1, <1>2 DEF LoopInv, LoopTypeOK, Shrinks
<1>4. batches' > batches => current'.keepCol # current.keepCol
  BY <1>1, <1>2
<1> QED BY <1>1, <1>2, <1>3, <1>4 DEF StepKeeps

LEMMA CommitBatchesStep == ASSUME LoopInv, CommitBatches, UNCHANGED boundsVars PROVE StepKeeps
<1>1. /\ Typed(current) /\ pc = "idle" /\ batches \in Nat /\ pc' = pc
      /\ current' = Compacted(current) \/ current' = current
      /\ stage' \in {"batches", "idle"} /\ batches' = 0
  BY DEF CommitBatches, LoopInv, LoopTypeOK, boundsVars
<1>2. Shrinks(current, current')
  BY <1>1, CompactedShrinks, StaysShrunk
<1>3. LoopInv'
  BY <1>1, <1>2 DEF LoopInv, LoopTypeOK, Shrinks
<1> QED BY <1>1, <1>2, <1>3 DEF StepKeeps

LEMMA BatchesStepKeeps == ASSUME LoopInv, ContinueBatches PROVE StepKeeps
<1>1. UNCHANGED boundsVars /\ pc' = pc
  BY DEF ContinueBatches, boundsVars
<1>2. CASE RunBatch
  BY <1>1, <1>2, RunBatchStep
<1>3. CASE CommitBatches
  BY <1>1, <1>3, CommitBatchesStep
<1>4. CASE LeaveBatches \/ LeaveUnits
  <2>1. /\ stage = "batches" /\ stage' = "commit" /\ current' = current /\ batches' = batches
    BY <1>4 DEF LeaveBatches, LeaveUnits, lpVars
  <2>2. pc = "idle"
    BY <2>1 DEF LoopInv, LoopTypeOK
  <2> QED BY <1>1, <2>1, <2>2, CallStep
<1> QED BY <1>2, <1>3, <1>4 DEF ContinueBatches, BatchesStep

LEMMA StepLoopInv == LoopInv /\ Next => StepKeeps
<1> SUFFICES ASSUME LoopInv, Next PROVE StepKeeps
  OBVIOUS
<1>0. Typed(current)
  BY DEF LoopInv, LoopTypeOK
<1>1. CASE RunRowPhase
  <2>1. PICK name \in RowPhases : Running /\ Commit(RowPhase(name, current))
    BY <1>1 DEF RunRowPhase
  <2> QED BY <1>0, <2>1, RowPhaseShrinks, CommitStep DEF Running
<1>2. CASE RunColPhase
  <2>1. PICK name \in ColPhases : Running /\ Commit(ColPhase(name, current))
    BY <1>2 DEF RunColPhase
  <2> QED BY <1>0, <2>1, ColPhaseShrinks, CommitStep DEF Running
<1>3. CASE RunBounds
  <2>1. current' = current /\ pc' = "group" /\ stage = "idle" /\ stage' = stage /\ batches' = batches
    BY <1>3 DEF RunBounds, Running, Idle, CallBounds, batchVars
  <2> QED BY <2>1, CallStep
<1>4. CASE RunDoubletons
  <2>1. current' = current /\ pc' = "idle" /\ stage' = "batches" /\ batches' = 0
    BY <1>4 DEF RunDoubletons, Running, Idle, CallDoubletons, boundsVars
  <2> QED BY <2>1, CallStep
<1>5. CASE ContinueBounds
  BY <1>5, BoundsStepKeeps
<1>6. CASE ContinueBatches
  BY <1>6, BatchesStepKeeps
<1>7. CASE LastPhase
  BY <1>0, <1>7, RedundantBoundsShrinks, CommitStep DEF LastPhase
<1> QED BY <1>1, <1>2, <1>3, <1>4, <1>5, <1>6, <1>7 DEF Next

LEMMA StutterLoopInv == LoopInv /\ UNCHANGED vars => LoopInv'
<1> SUFFICES ASSUME LoopInv, UNCHANGED vars PROVE LoopInv'
  OBVIOUS
<1>1. UNCHANGED <<current, plan, pc, stage, batches>>
  BY DEF vars, lpVars, boundsVars, groupVars, batchVars
<1> QED BY <1>1 DEF LoopInv, LoopTypeOK, GroupInv

LEMMA LoopInvariant == Spec => []LoopInv
<1>1. LoopInv /\ [Next]_vars => LoopInv'
  BY StepLoopInv, StutterLoopInv DEF StepKeeps
<1> QED BY <1>1, InitLoopInv, PTL DEF Spec

\* Types: whatever phases have run, the working LP has integer coefficients,
\* bounds and sides; and the closure of implied bounds and the doubleton
\* batches, which share the working LP, are never both under way.
THEOREM LoopTypes == Spec => []LoopTypeOK
<1>1. LoopInv => LoopTypeOK
  BY DEF LoopInv
<1> QED BY <1>1, LoopInvariant, PTL

\* A free column without a cost is not boxed in by the closure of implied
\* bounds (preserve_free_zero_cost), whatever rounds its bounds come from:
\* the flag is asked about the LP the group of rounds started with.
THEOREM LoopFreeStaysFree == Spec => []FreeStaysFree
<1>1. LoopInv => FreeStaysFree
  BY DEF LoopInv, GroupInv, Open, FreeStaysFree
<1> QED BY <1>1, LoopInvariant, PTL

\* A batch of doubleton equations that counts as one that changed the plan has
\* removed a column, so the loops over batches and phases end.
THEOREM LoopBatchesShrink == Spec => BatchesShrink
<1>1. LoopInv /\ [Next]_vars =>
        [batches' > batches =>
           current'.keepCol \subseteq current.keepCol /\ current'.keepCol # current.keepCol]_<<lpVars, batchVars>>
  <2> SUFFICES ASSUME LoopInv, [Next]_vars, batches' > batches
               PROVE  current'.keepCol \subseteq current.keepCol /\ current'.keepCol # current.keepCol
    OBVIOUS
  <2>1. batches \in Nat
    BY DEF LoopInv, LoopTypeOK
  <2>2. Next
    BY <2>1 DEF vars, batchVars
  <2> QED BY <2>2, StepLoopInv DEF StepKeeps, Shrinks
<1> QED BY <1>1, LoopInvariant, PTL DEF Spec, BatchesShrink

\* No round of implied bounds loosens a bound, that of a column it fixes
\* included: bounds close in on a column within a group.
RoundTightens ==
  RunRound => \A j \in Cols : plan.l[j] <= plan'.l[j] /\ plan'.u[j] <= plan.u[j]
\* RoundTightens of every step: apply_rule_implied_variable_bounds.
THEOREM LoopRoundsTighten == Spec => [][RoundTightens]_vars
<1>1. LoopInv /\ Next => RoundTightens
  <2> SUFFICES ASSUME LoopInv, RunRound
               PROVE  \A j \in Cols : plan.l[j] <= plan'.l[j] /\ plan'.u[j] <= plan.u[j]
    BY DEF RoundTightens
  <2>1. Typed(plan) /\ current.keepCol \subseteq Cols
    BY DEF RunRound, LoopInv, LoopTypeOK, GroupInv, Typed
  <2>2. plan' = ImpliedBoundsRule(plan, current, nnz)
    BY DEF RunRound, Became
  <2> QED BY <2>1, <2>2, RoundStep DEF RoundKeeps
<1> QED BY <1>1, LoopInvariant, PTL DEF Spec

\* Rows and columns of the working LP only ever leave.
OnlyRemoves == current'.keepRow \subseteq current.keepRow /\ current'.keepCol \subseteq current.keepCol
\* OnlyRemoves of every step: no phase, closure or batch brings back what an
\* earlier one has removed, so the loop's progress is bounded by the LP.
THEOREM LoopOnlyRemoves == Spec => [][OnlyRemoves]_vars
<1>1. LoopInv /\ Next => OnlyRemoves
  BY StepLoopInv DEF StepKeeps, Shrinks, OnlyRemoves
<1> QED BY <1>1, LoopInvariant, PTL DEF Spec
=============================================================================
