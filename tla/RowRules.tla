------------------------------ MODULE RowRules ------------------------------
(***************************************************************************)
(* The rules of a row phase besides singleton rows, as functions of a plan: *)
(* empty rows, infeasible and redundant rows, duplicate rows.              *)
(*                                                                         *)
(* None of them leaves a record with a primal effect, and duplicate rows    *)
(* alone one the dual pass acts on.  A rule that finds the LP infeasible    *)
(* changes nothing else.                                                   *)
(***************************************************************************)
EXTENDS SingletonRules

\* The hash of duplicate rows and columns: TRUE when all rows, and all
\* columns, collide, FALSE when only parallel ones do.
CONSTANT Collide

ASSUME CollideAssumption == Collide \in BOOLEAN

Infeasible(plan) == [plan EXCEPT !.verdict = "infeasible"]
Unbounded(plan) == [plan EXCEPT !.verdict = "unbounded"]

-----------------------------------------------------------------------------
(* apply_rule_empty_rows.                                                  *)

Holds(plan, i) == plan.AL[i] <= 0 /\ 0 <= plan.AU[i]
EmptyRows(plan) ==
  LET empty == {i \in plan.keepRow : \A j \in Cols : plan.a[i][j] = 0}
  IN IF \E i \in empty : ~Holds(plan, i) THEN Infeasible(plan)
     ELSE [plan EXCEPT !.keepRow = @ \ empty]

-----------------------------------------------------------------------------
(* apply_rule_infeasible_redundant_rows.  The activity is that of the whole *)
(* row of the matrix.                                                      *)

RowMin(plan, i) ==
  LET entries == {j \in Cols : plan.a[i][j] # 0}
  IN IF \E j \in entries : ~IsFinite(Least(plan, i, j)) THEN -Inf
     ELSE Sum(LAMBDA j : Least(plan, i, j), entries)
RowMax(plan, i) ==
  LET entries == {j \in Cols : plan.a[i][j] # 0}
  IN IF \E j \in entries : ~IsFinite(Most(plan, i, j)) THEN Inf
     ELSE Sum(LAMBDA j : Most(plan, i, j), entries)

Tested(plan) ==
  {i \in plan.keepRow : /\ Cardinality({j \in Cols : plan.a[i][j] # 0}) > 1
                        /\ ~(IsFinite(plan.AL[i]) /\ plan.AL[i] = plan.AU[i])}
CannotHold(plan, i) == RowMax(plan, i) < plan.AL[i] \/ RowMin(plan, i) > plan.AU[i]
LowerImplied(plan, i) == RowMin(plan, i) >= plan.AL[i]
UpperImplied(plan, i) == RowMax(plan, i) <= plan.AU[i]

\* A row with both sides implied goes; of another an implied side is dropped.
RedundantRows(plan) ==
  LET full == {i \in Tested(plan) : LowerImplied(plan, i) /\ UpperImplied(plan, i)}
      dropLower == {i \in Tested(plan) \ full : LowerImplied(plan, i)}
      dropUpper == {i \in Tested(plan) \ full : UpperImplied(plan, i)}
  IN IF \E i \in Tested(plan) : CannotHold(plan, i) THEN Infeasible(plan)
     ELSE [plan EXCEPT
            !.keepRow = @ \ full,
            !.AL = [i \in Rows |-> IF i \in dropLower THEN -Inf ELSE @[i]],
            !.AU = [i \in Rows |-> IF i \in dropUpper THEN Inf ELSE @[i]]]

-----------------------------------------------------------------------------
(* apply_rule_duplicate_rows.  One thread per hash group merges the rows    *)
(* parallel to one representative; a group that has others, by a collision, *)
(* leaves them to a later phase.                                           *)

\* Row i is r times row k.
RowRatio(plan, i, k, r) ==
  /\ \A j \in Cols : plan.a[i][j] = r * plan.a[k][j]
  /\ RowCols(plan, i) # {} \/ r = 1
ParallelRows(plan, i, k) == \E r \in {-1, 1} : RowRatio(plan, i, k, r)
RatioOfRow(plan, i, k) == CHOOSE r \in {-1, 1} : RowRatio(plan, i, k, r)

\* Mutant of ScaledSides: the sides are not swapped under a negative ratio.
ScaledSidesUnswapped(plan, i, k) ==
  LET r == RatioOfRow(plan, i, k) IN <<r * plan.AL[k], r * plan.AU[k]>>
\* The sides of row k in units of row i.
ScaledSides(plan, i, k) ==
  LET r == RatioOfRow(plan, i, k)
  IN IF r > 0 THEN <<plan.AL[k], plan.AU[k]>> ELSE <<-plan.AU[k], -plan.AL[k]>>

\* Empty rows have hashes of their own.
HashMates(plan, i) ==
  IF RowCols(plan, i) = {} THEN {i}
  ELSE {k \in plan.keepRow : /\ RowCols(plan, k) # {}
                             /\ Collide \/ ParallelRows(plan, i, k)}
HashGroups(plan) == {HashMates(plan, i) : i \in plan.keepRow}
IsEquality(plan, i) == IsFinite(plan.AL[i]) /\ plan.AL[i] = plan.AU[i]

\* The representative: the first equality, else the first row; then any
\* parallel row whose sides lie within those of the last choice.
Seed(plan, group) ==
  LET equalities == {i \in group : IsEquality(plan, i)}
  IN Min(IF equalities # {} THEN equalities ELSE group)
Representative(plan, group) ==
  LET seed == Seed(plan, group)
      tighter(rep, k) ==
        LET s == ScaledSides(plan, seed, rep)  t == ScaledSides(plan, seed, k)
        IN s[1] <= t[1] /\ t[2] <= s[2]
      others == Ascending({k \in group \ {seed} : ParallelRows(plan, seed, k)})
  IN FoldLeft(LAMBDA rep, k : IF tighter(rep, k) THEN k ELSE rep, seed, others)

Peers(plan, rep, group) == {k \in group \ {rep} : ParallelRows(plan, rep, k)}
\* Mutant of MergedSides: the representative's own sides are forgotten.
MergedSidesOfPeers(plan, rep, rows) ==
  LET sides == {ScaledSides(plan, rep, k) : k \in rows}
  IN <<Max({s[1] : s \in sides}), Min({s[2] : s \in sides})>>
\* Merging one row after the other into the representative: the sides of the
\* representative so far.
MergedSides(plan, rep, rows) ==
  LET sides == {ScaledSides(plan, rep, k) : k \in rows \cup {rep}}
  IN <<Max({s[1] : s \in sides}), Min({s[2] : s \in sides})>>
\* Mutant of Disjoint: sides that meet in one point are disjoint.
DisjointTouching(plan, rep, group) ==
  LET s == MergedSides(plan, rep, Peers(plan, rep, group)) IN s[1] >= s[2]
\* The thread stops at the first row whose sides are disjoint from those so far.
Disjoint(plan, rep, group) ==
  LET s == MergedSides(plan, rep, Peers(plan, rep, group)) IN s[1] > s[2]

\* The records of the merges, each with the sides of the representative just
\* before it: the first merges of all groups, then the second ones.
DuplicateRecord(plan, rep, k, sidesSoFar) ==
  [type |-> "DuplicateRow", kept |-> rep, deleted |-> k, ratio |-> RatioOfRow(plan, rep, k),
   keptAL |-> sidesSoFar[1], keptAU |-> sidesSoFar[2], AL |-> plan.AL[k], AU |-> plan.AU[k]]
DuplicateRecords(plan, merged) ==
  LET peers(p) == Peers(plan, p[1], p[2])
      pairs == {q \in merged \X Rows : q[2] \in peers(q[1])}
      merges == {[rep |-> q[1][1], row |-> q[2], before |-> {h \in peers(q[1]) : h < q[2]}] : q \in pairs}
      step(e) == Cardinality(e.before)
      inOrder == SetToSortSeq(merges, LAMBDA e, f :
                   step(e) < step(f) \/ (step(e) = step(f) /\ e.row < f.row))
  IN [q \in DOMAIN inOrder |->
        LET e == inOrder[q]
        IN DuplicateRecord(plan, e.rep, e.row, MergedSides(plan, e.rep, e.before))]
DuplicateRows(plan) ==
  LET reps == {<<Representative(plan, g), g>> : g \in HashGroups(plan)}
      merged == {p \in reps : Peers(plan, p[1], p[2]) # {}}
      groupOf(i) == (CHOOSE p \in merged : p[1] = i)[2]
      sides(i) == MergedSides(plan, i, Peers(plan, i, groupOf(i)))
      kept == {p[1] : p \in merged}
  IN IF \E p \in merged : Disjoint(plan, p[1], p[2]) THEN Infeasible(plan)
     ELSE [plan EXCEPT
            !.keepRow = @ \ UNION {Peers(plan, p[1], p[2]) : p \in merged},
            !.AL = [i \in Rows |-> IF i \in kept THEN sides(i)[1] ELSE @[i]],
            !.AU = [i \in Rows |-> IF i \in kept THEN sides(i)[2] ELSE @[i]],
            !.tape = @ \o DuplicateRecords(plan, merged)]
=============================================================================
