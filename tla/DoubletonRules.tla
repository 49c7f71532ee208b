--------------------------- MODULE DoubletonRules ---------------------------
(***************************************************************************)
(* The rule of doubleton equations (rule_doubleton_equations.cu), as        *)
(* functions of a plan: which rows a(elim) x(elim) + a(keep) x(keep) = rhs  *)
(* it may solve for x(elim), and what solving them does to the plan.       *)
(*                                                                         *)
(* Coefficients of a pivot are 1 or -1 here, so both ratios of the choice   *)
(* of the eliminated column are integral and the pivot ratio is 1.  The     *)
(* other coefficients of a rewritten row may be any integers.              *)
(***************************************************************************)
EXTENDS SingletonRules, Matching

CONSTANT MaxFill    \* params.doubleton_equations_max_fill_in_proxy

ASSUME FillAssumption == MaxFill \in Nat

-----------------------------------------------------------------------------
(* Candidates.                                                             *)

Degree(plan, j) == Cardinality(ColRows(plan, j))
\* _choose_doubleton_equations_columns: the shorter column goes, the second of
\* two as long.
PairOf(plan, i) ==
  LET first == Min(RowCols(plan, i))
      second == Max(RowCols(plan, i))
  IN IF Degree(plan, first) < Degree(plan, second)
     THEN [elim |-> first, keep |-> second] ELSE [elim |-> second, keep |-> first]

Doubletons(plan) ==
  {i \in plan.keepRow : /\ IsFinite(plan.AL[i]) /\ plan.AL[i] = plan.AU[i]
                        /\ Cardinality(RowCols(plan, i)) = 2}

\* Rows that would gain the kept column, the pivot not among them.
Fill(plan, pair) ==
  Cardinality(ColRows(plan, pair.elim) \ ColRows(plan, pair.keep)) - 1
Acceptable(plan) ==
  {i \in Doubletons(plan) :
     LET pair == PairOf(plan, i)
     IN /\ Degree(plan, pair.elim) <= Degree(plan, pair.keep) + MaxFill + 1
        /\ Fill(plan, pair) <= MaxFill}
UnitPivots(plan) ==
  \A i \in Acceptable(plan) : \A j \in RowCols(plan, i) : plan.a[i][j] \in {-1, 1}

-----------------------------------------------------------------------------
(* What the rule remembers of a pivot before it rewrites the plan, and the  *)
(* substitution x(elim) = Beta + Alpha * x(keep).                          *)

PivotOf(plan, i) ==
  LET e == PairOf(plan, i).elim
      k == PairOf(plan, i).keep
  IN [row |-> i, elim |-> e, keep |-> k, elimVal |-> plan.a[i][e], keepVal |-> plan.a[i][k],
      rhs |-> plan.AU[i], elimL |-> plan.l[e], elimU |-> plan.u[e], elimC |-> plan.c[e],
      keepL |-> plan.l[k], keepU |-> plan.u[k]]

Alpha(p) == -p.keepVal * p.elimVal
Beta(p) == p.rhs * p.elimVal

\* The bounds of the eliminated column, as bounds of the kept one.  Ends that
\* come out crossed are swapped.
MappedEnds(p) ==
  {IF IsFinite(v) THEN (v - Beta(p)) * Alpha(p) ELSE v * Alpha(p) : v \in {p.elimL, p.elimU}}
KeepLower(p) == Max({p.keepL, Min(MappedEnds(p))})
KeepUpper(p) == Min({p.keepU, Max(MappedEnds(p))})
Crosses(p) == KeepLower(p) > KeepUpper(p)
Meets(p) == IsFinite(KeepLower(p)) /\ KeepLower(p) = KeepUpper(p)

-----------------------------------------------------------------------------
(* The rewriting: pivots of solving lose their row and eliminated column,   *)
(* pivots of fixing only their kept column, which has one value left.  The  *)
(* pivots share no column, so each column is written by one of them.       *)

Keeps(pivots, j) == {p \in pivots : p.keep = j}
\* The sum over some pivots, each of which has a row of its own.
OverPivots(f(_), pivots) ==
  Sum(LAMBDA i : f(CHOOSE p \in pivots : p.row = i), {p.row : p \in pivots})
\* Mutant of NewCoef: the kept column takes the eliminated one's coefficient.
NewCoefReplaced(plan, solving, i, j) ==
  IF Keeps(solving, j) = {} THEN plan.a[i][j]
  ELSE OverPivots(LAMBDA p : Alpha(p) * plan.a[i][p.elim], Keeps(solving, j))
NewCoef(plan, solving, i, j) ==
  plan.a[i][j] + OverPivots(LAMBDA p : Alpha(p) * plan.a[i][p.elim], Keeps(solving, j))
\* Mutant of Shift: what the fixed columns add to a row is forgotten.
ShiftOfSolved(plan, solving, fixing, i) ==
  OverPivots(LAMBDA p : plan.a[i][p.elim] * Beta(p), solving)
Shift(plan, solving, fixing, i) ==
  OverPivots(LAMBDA p : plan.a[i][p.elim] * Beta(p), solving)
  + OverPivots(LAMBDA p : plan.a[i][p.keep] * KeepLower(p), fixing)

Record(p) ==
  [type |-> "Doubleton", col |-> p.elim, keep |-> p.keep, row |-> p.row,
   rows |-> <<[side |-> p.rhs,
               coef |-> [j \in Cols |-> IF j = p.elim THEN p.elimVal
                                        ELSE IF j = p.keep THEN p.keepVal ELSE 0]]>>,
   elimVal |-> p.elimVal, alpha |-> Alpha(p), cost |-> p.elimC,
   oldL |-> p.keepL, oldU |-> p.keepU, newL |-> KeepLower(p), newU |-> KeepUpper(p)]

\* Mutant of Removed: a column with one value left stays in the plan.
RemovedSolved(solving, fixing) == {p.elim : p \in solving}
\* The columns a batch removes.
Removed(solving, fixing) == {p.elim : p \in solving} \cup {p.keep : p \in fixing}

Rewritten(plan, solving, fixing) ==
  LET rows == plan.keepRow \ {p.row : p \in solving}
      writers(j) == Keeps(solving \cup fixing, j)
      writer(j) == CHOOSE p \in writers(j) : TRUE
      inOrder == SetToSortSeq(solving, LAMBDA p, q : p.row < q.row)
  IN [plan EXCEPT
       !.keepRow = rows,
       !.keepCol = @ \ Removed(solving, fixing),
       !.a = [i \in Rows |-> [j \in Cols |->
                IF i \in rows THEN NewCoef(plan, solving, i, j) ELSE @[i][j]]],
       !.l = [j \in Cols |-> IF writers(j) = {} THEN @[j] ELSE KeepLower(writer(j))],
       !.u = [j \in Cols |-> IF writers(j) = {} THEN @[j] ELSE KeepUpper(writer(j))],
       !.c = [j \in Cols |-> @[j] + OverPivots(LAMBDA p : p.elimC * Alpha(p), Keeps(solving, j))],
       !.AL = [i \in Rows |-> IF i \in rows THEN Minus(@[i], Shift(plan, solving, fixing, i)) ELSE @[i]],
       !.AU = [i \in Rows |-> IF i \in rows THEN Minus(@[i], Shift(plan, solving, fixing, i)) ELSE @[i]],
       !.delta = @ + OverPivots(LAMBDA p : p.elimC * Beta(p), solving)
                   + OverPivots(LAMBDA p : plan.c[p.keep] * KeepLower(p), fixing),
       !.tape = @ \o [q \in DOMAIN inOrder |-> Record(inOrder[q])]]

\* apply_rule_doubleton_equations_batch_once after the matching: pivots of the
\* given rows.  A pivot whose bounds cross makes the LP infeasible.
SolveBatch(plan, taken) ==
  LET pivots == {PivotOf(plan, i) : i \in taken}
      fixing == {p \in pivots : Meets(p)}
  IN IF \E p \in pivots : Crosses(p) THEN [plan EXCEPT !.verdict = "infeasible"]
     ELSE Rewritten(plan, pivots \ fixing, fixing)

\* The scalar path: one pivot, from the metadata; a kept column with one value
\* left stays, for the rule on fixed variables.
SolveOne(plan, p) ==
  IF Crosses(p) THEN [plan EXCEPT !.verdict = "infeasible"] ELSE Rewritten(plan, {p}, {})
=============================================================================
