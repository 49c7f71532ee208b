--------------------------- MODULE SingletonRules ---------------------------
(***************************************************************************)
(* The three rules of the batched closure, as functions of a plan.         *)
(*                                                                         *)
(* A plan starts as a copy of the LP with every row and column kept.  A    *)
(* rule reads the plan's masks, costs and bounds (the matrix is that of    *)
(* the LP, unchanged), removes rows and columns from the masks, rewrites   *)
(* costs and bounds, and appends to the plan's tape.                       *)
(***************************************************************************)
EXTENDS SmallLp

CONSTANT MaxCostDegree    \* params.dual_fix_max_nonzero_cost_col_degree

ASSUME DegreeAssumption == MaxCostDegree \in Nat

NewPlan(lp) ==
  [a |-> lp.a, keepRow |-> Rows, keepCol |-> Cols, c |-> lp.c, l |-> lp.l, u |-> lp.u,
   AL |-> lp.AL, AU |-> lp.AU, delta |-> 0, tape |-> << >>, verdict |-> "none"]

RowCols(plan, i) == {j \in plan.keepCol : plan.a[i][j] # 0}
ColRows(plan, j) == {i \in plan.keepRow : plan.a[i][j] # 0}

-----------------------------------------------------------------------------
(* apply_rule_column_singletons_eq: a column whose one row is an equality  *)
(* is solved for, when the row implies at least one of its bounds.  singCol *)
(* gives a singleton column its row, and 0 to the others.                  *)

\* An end of a_ik x_k over the bounds of column k, and an end of the activity
\* of row i without column j.
Least(plan, i, k) == plan.a[i][k] * (IF plan.a[i][k] > 0 THEN plan.l[k] ELSE plan.u[k])
Most(plan, i, k) == plan.a[i][k] * (IF plan.a[i][k] > 0 THEN plan.u[k] ELSE plan.l[k])
RestMin(plan, i, j) ==
  LET rest == RowCols(plan, i) \ {j}
  IN IF \E k \in rest : ~IsFinite(Least(plan, i, k)) THEN -Inf
     ELSE Sum(LAMBDA k : Least(plan, i, k), rest)
RestMax(plan, i, j) ==
  LET rest == RowCols(plan, i) \ {j}
  IN IF \E k \in rest : ~IsFinite(Most(plan, i, k)) THEN Inf
     ELSE Sum(LAMBDA k : Most(plan, i, k), rest)

ImpliedEnds(plan, i, j) ==
  {Minus(plan.AU[i], RestMin(plan, i, j)) * plan.a[i][j],
   Minus(plan.AU[i], RestMax(plan, i, j)) * plan.a[i][j]}
FreeAbove(plan, i, j) == IsFinite(plan.u[j]) => Max(ImpliedEnds(plan, i, j)) <= plan.u[j]
FreeBelow(plan, i, j) == IsFinite(plan.l[j]) => Min(ImpliedEnds(plan, i, j)) >= plan.l[j]

\* A row that this column may be solved from.  A row with no other column is
\* left to the singleton rows.
Solvable(plan, i, j) ==
  /\ i \in plan.keepRow /\ j \in plan.keepCol
  /\ Cardinality(RowCols(plan, i)) > 1
  /\ IsFinite(plan.AL[i]) /\ IsFinite(plan.AU[i]) /\ plan.AL[i] = plan.AU[i]
  /\ FreeAbove(plan, i, j) \/ FreeBelow(plan, i, j)

\* Which row is solved for which column: of several columns the one with the
\* smallest index gets the row (atomicMin).
Owned(plan, singCol) ==
  LET solvable == {p \in Rows \X Cols : singCol[p[2]] = p[1] /\ Solvable(plan, p[1], p[2])}
  IN {p \in solvable : \A q \in solvable : q[1] = p[1] => p[2] <= q[2]}

\* The row without its owner: gone when both bounds are implied, else one
\* side of it stands for the bound that is not.
Deleted(plan, i, j) == FreeAbove(plan, i, j) /\ FreeBelow(plan, i, j)
Shifted(plan, i, j) ==
  Minus(plan.AU[i], plan.a[i][j] * (IF FreeAbove(plan, i, j) THEN plan.l[j] ELSE plan.u[j]))
\* Mutant of KeepsLower: the side of the row is the side of the bound.
KeepsLowerBySide(plan, i, j) == ~FreeBelow(plan, i, j)
KeepsLower(plan, i, j) ==
  IF FreeAbove(plan, i, j) THEN plan.a[i][j] < 0 ELSE plan.a[i][j] > 0

\* The plan with every owner solved for; the costs are moved below.
Solved(plan, owned) ==
  LET rows == {p[1] : p \in owned}
      owner(i) == CHOOSE j \in Cols : <<i, j>> \in owned
      oneSided == {i \in rows : ~Deleted(plan, i, owner(i))}
      lower == {i \in oneSided : KeepsLower(plan, i, owner(i))}
      inOrder == Ascending(rows)
      live == [i \in Rows |-> [k \in Cols |-> IF k \in plan.keepCol THEN plan.a[i][k] ELSE 0]]
  IN [plan EXCEPT
       !.keepCol = @ \ {p[2] : p \in owned},
       !.keepRow = @ \ (rows \ oneSided),
       !.AL = [i \in Rows |-> IF i \in lower THEN Shifted(plan, i, owner(i))
                              ELSE IF i \in oneSided THEN -Inf ELSE @[i]],
       !.AU = [i \in Rows |-> IF i \in lower THEN Inf
                              ELSE IF i \in oneSided THEN Shifted(plan, i, owner(i)) ELSE @[i]],
       !.delta = @ + Sum(LAMBDA i : plan.c[owner(i)] * plan.AU[i] * plan.a[i][owner(i)], rows),
       !.tape = @ \o [q \in DOMAIN inOrder |->
                        LET i == inOrder[q]  j == owner(i)
                        IN SubCol(j, i, plan.AU[i], live[i], plan.c[j], Deleted(plan, i, j))]]
\* An owner's cost goes to the other columns of its row, on the plan's old costs.
ColumnSingletonsEq(plan, owned) ==
  LET moved(k) == Sum(LAMBDA i : Sum(LAMBDA j : IF <<i, j>> \in owned
                        THEN plan.c[j] * plan.a[i][k] * plan.a[i][j] ELSE 0, Cols), Rows)
  IN [Solved(plan, owned) EXCEPT
       !.c = [k \in Cols |-> IF k \in plan.keepCol \ {p[2] : p \in owned}
                             THEN @[k] - moved(k) ELSE @[k]]]

-----------------------------------------------------------------------------
(* apply_rule_dual_fix.                                                    *)

\* Mutant of DownLocked: negative coefficients are forgotten.
DownLockedByPositive(plan, j) ==
  \E i \in ColRows(plan, j) : plan.a[i][j] > 0 /\ IsFinite(plan.AL[i])
\* Mutant of DownLocked: the sides are swapped.
DownLockedSwapped(plan, j) ==
  \E i \in ColRows(plan, j) : IsFinite(IF plan.a[i][j] > 0 THEN plan.AU[i] ELSE plan.AL[i])
DownLocked(plan, j) ==
  \E i \in ColRows(plan, j) : IsFinite(IF plan.a[i][j] > 0 THEN plan.AL[i] ELSE plan.AU[i])
\* Mutant of UpLocked, likewise.
UpLockedByPositive(plan, j) ==
  \E i \in ColRows(plan, j) : plan.a[i][j] > 0 /\ IsFinite(plan.AU[i])
UpLocked(plan, j) ==
  \E i \in ColRows(plan, j) : IsFinite(IF plan.a[i][j] > 0 THEN plan.AU[i] ELSE plan.AL[i])
\* The degree is that of the matrix, removed rows included.
TooLong(plan, j) ==
  plan.c[j] # 0 /\ Cardinality({i \in Rows : plan.a[i][j] # 0}) > MaxCostDegree

\* What _kernel_dual_fix_candidates finds for one column.
Fate(plan, j) ==
  LET down == plan.c[j] >= 0 /\ ~DownLocked(plan, j)
      up == plan.c[j] <= 0 /\ ~UpLocked(plan, j)
      bound == IF down THEN plan.l[j] ELSE plan.u[j]
  IN IF plan.l[j] > plan.u[j] THEN "infeasible"
     ELSE IF TooLong(plan, j) \/ ~(down \/ up) THEN "keep"
     ELSE IF IsFinite(bound) THEN "fix"
     ELSE IF plan.c[j] # 0 THEN "unbounded" ELSE "fixInfinite"
Goal(plan, j) ==
  IF plan.c[j] >= 0 /\ ~DownLocked(plan, j) THEN plan.l[j] ELSE plan.u[j]

\* The rows an infinite fix leaves to postsolve, each in full, with the one
\* finite side the plan has for it.
Demands(plan, j) ==
  [q \in 1..Cardinality(ColRows(plan, j)) |->
     LET i == Ascending(ColRows(plan, j))[q]
     IN [side |-> IF IsFinite(plan.AL[i]) THEN plan.AL[i] ELSE plan.AU[i],
         coef |-> plan.a[i]]]
InfiniteRecord(plan, j) ==
  IF Goal(plan, j) > 0 THEN FixedColInf(j, 1, plan.l[j], Demands(plan, j))
  ELSE FixedColInf(j, -1, plan.u[j], Demands(plan, j))

\* The entries of column j in the given rows, for the record of a fixed column.
Entries(plan, j, rows) == [i \in rows |-> plan.a[i][j]]
DualFix(plan, candidates) ==
  LET asked == plan.keepCol \cap candidates
      fixed == {j \in asked : Fate(plan, j) = "fix"}
      infinite == {j \in asked : Fate(plan, j) = "fixInfinite"}
      value == [j \in fixed \cup infinite |-> Goal(plan, j)]
      rows == plan.keepRow \ UNION {ColRows(plan, j) : j \in infinite}
      moved(i) == IF i \in plan.keepRow
                  THEN Sum(LAMBDA j : plan.a[i][j] * value[j], fixed) ELSE 0
  IN IF \E j \in asked : Fate(plan, j) = "unbounded"
     THEN [plan EXCEPT !.verdict = "unbounded"]
     ELSE IF \E j \in asked : Fate(plan, j) = "infeasible"
     THEN [plan EXCEPT !.verdict = "infeasible"]
     ELSE [plan EXCEPT
            !.keepCol = @ \ (fixed \cup infinite),
            !.keepRow = rows,
            !.l = [j \in Cols |-> IF j \in fixed \cup infinite THEN value[j] ELSE @[j]],
            !.u = [j \in Cols |-> IF j \in fixed \cup infinite THEN value[j] ELSE @[j]],
            !.AL = [i \in Rows |-> Minus(@[i], moved(i))],
            !.AU = [i \in Rows |-> Minus(@[i], moved(i))],
            !.delta = @ + Sum(LAMBDA j : plan.c[j] * value[j], fixed),
            !.tape = @ \o [q \in 1..Cardinality(infinite) |->
                             InfiniteRecord(plan, Ascending(infinite)[q])]
                       \o [q \in 1..Cardinality(fixed) |->
                             LET j == Ascending(fixed)[q]
                             IN FixedCol(j, value[j], plan.c[j], Entries(plan, j, rows))]]

-----------------------------------------------------------------------------
(* apply_rule_singleton_rows: the row becomes bounds of its column.         *)
(* singRow gives a singleton row its column, and 0 to the others.          *)

\* Mutant of ImpliedLower: the sign of the coefficient is forgotten.
ImpliedLowerUnsigned(plan, i, j) == plan.AL[i] * plan.a[i][j]
ImpliedLower(plan, i, j) ==
  (IF plan.a[i][j] > 0 THEN plan.AL[i] ELSE plan.AU[i]) * plan.a[i][j]
ImpliedUpper(plan, i, j) ==
  (IF plan.a[i][j] > 0 THEN plan.AU[i] ELSE plan.AL[i]) * plan.a[i][j]

DeletedRow(plan, i, j) ==
  [type |-> "DeletedRow", row |-> i, col |-> j, coef |-> plan.a[i][j],
   AL |-> plan.AL[i], AU |-> plan.AU[i]]
SingletonRows(plan, singRow) ==
  LET rows == {i \in plan.keepRow : singRow[i] # 0}
      lower == [j \in Cols |-> Max({plan.l[j]} \cup
                  {ImpliedLower(plan, i, j) : i \in {h \in rows : singRow[h] = j}})]
      upper == [j \in Cols |-> Min({plan.u[j]} \cup
                  {ImpliedUpper(plan, i, j) : i \in {h \in rows : singRow[h] = j}})]
      inOrder == Ascending(rows)
  IN IF \E j \in Cols : lower[j] > upper[j]
     THEN [plan EXCEPT !.verdict = "infeasible"]
     ELSE [plan EXCEPT
            !.keepRow = @ \ rows, !.l = lower, !.u = upper,
            !.tape = @ \o [q \in DOMAIN inOrder |->
                             DeletedRow(plan, inOrder[q], singRow[inOrder[q]])]]
=============================================================================
