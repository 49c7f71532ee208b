---------------------------- MODULE ColumnRules ----------------------------
(***************************************************************************)
(* The rules of a column phase besides dual fixing and the singleton        *)
(* columns of equalities, as functions of a plan: fixed variables, empty    *)
(* columns, the singleton columns of inequalities, duplicate columns,       *)
(* redundant bounds.                                                        *)
(***************************************************************************)
EXTENDS RowRules

CONSTANT AllowOneSided    \* params.enable_redundant_bounds

ASSUME OneSidedAssumption == AllowOneSided \in BOOLEAN

\* The plan with the columns of S fixed at value: gone from the masks, their
\* shares taken off the sides of the given rows, on the tape in column order.
Fixed(plan, S, value, rows) ==
  LET share(i) == IF i \in rows THEN Sum(LAMBDA j : plan.a[i][j] * value[j], S) ELSE 0
      inOrder == Ascending(S)
  IN [plan EXCEPT
       !.keepCol = @ \ S,
       !.l = [j \in Cols |-> IF j \in S THEN value[j] ELSE @[j]],
       !.u = [j \in Cols |-> IF j \in S THEN value[j] ELSE @[j]],
       !.AL = [i \in Rows |-> Minus(@[i], share(i))],
       !.AU = [i \in Rows |-> Minus(@[i], share(i))],
       !.delta = @ + Sum(LAMBDA j : plan.c[j] * value[j], S),
       !.tape = @ \o [q \in DOMAIN inOrder |->
                        LET j == inOrder[q]
                        IN FixedCol(j, value[j], plan.c[j], Entries(plan, j, rows \cap plan.keepRow))]]

-----------------------------------------------------------------------------
(* apply_rule_infeasible_fixed_variables: despite its name it finds no LP   *)
(* infeasible.                                                             *)

EqualBounds(plan) == {j \in plan.keepCol : IsFinite(plan.l[j]) /\ plan.l[j] = plan.u[j]}
FixedVariables(plan) == Fixed(plan, EqualBounds(plan), plan.l, Rows)

-----------------------------------------------------------------------------
(* apply_rule_empty_cols.  The empty columns are those of the LP the phase  *)
(* started with, live still.                                               *)

EmptyValue(plan, j) ==
  IF plan.c[j] > 0 THEN plan.l[j]
  ELSE IF plan.c[j] < 0 THEN plan.u[j]
  ELSE IF IsFinite(plan.l[j]) THEN plan.l[j]
  ELSE IF IsFinite(plan.u[j]) THEN plan.u[j] ELSE 0
EmptyCols(plan) ==
  LET empty == {j \in plan.keepCol : \A i \in Rows : plan.a[i][j] = 0}
      value == [j \in empty |-> EmptyValue(plan, j)]
  IN IF \E j \in empty : plan.l[j] > plan.u[j] THEN Infeasible(plan)
     ELSE IF \E j \in empty : ~IsFinite(value[j]) THEN Unbounded(plan)
     ELSE Fixed(plan, empty, value, {})

-----------------------------------------------------------------------------
(* apply_rule_column_singletons_dual_infer: the cost of a column whose one  *)
(* row is an inequality tells which side of the row an optimum meets.  The  *)
(* column stays, for the rule on equalities to solve it from the row.      *)

SingletonCols(plan) == {j \in plan.keepCol : Cardinality(ColRows(plan, j)) = 1}
SupportRow(plan, j) == CHOOSE i \in plan.keepRow : plan.a[i][j] # 0
\* Mutant of DirectUnbounded: the bound of the column is not asked.
DirectUnboundedByRow(plan, i, j) ==
  \/ plan.c[j] > 0 /\ ~IsFinite(IF plan.a[i][j] > 0 THEN plan.AL[i] ELSE plan.AU[i])
  \/ plan.c[j] < 0 /\ ~IsFinite(IF plan.a[i][j] > 0 THEN plan.AU[i] ELSE plan.AL[i])
\* The cheap direction of the column has neither a bound nor a row's side.
DirectUnbounded(plan, i, j) ==
  \/ /\ plan.c[j] > 0
     /\ ~IsFinite(plan.l[j])
     /\ ~IsFinite(IF plan.a[i][j] > 0 THEN plan.AL[i] ELSE plan.AU[i])
  \/ /\ plan.c[j] < 0
     /\ ~IsFinite(plan.u[j])
     /\ ~IsFinite(IF plan.a[i][j] > 0 THEN plan.AU[i] ELSE plan.AL[i])

\* The bounds of the column that its row implies.
RowUpper(plan, i, j) ==
  LET up == plan.a[i][j] > 0
      side == IF up THEN plan.AU[i] ELSE plan.AL[i]
      rest == IF up THEN RestMin(plan, i, j) ELSE RestMax(plan, i, j)
  IN IF IsFinite(side) /\ IsFinite(rest) THEN (side - rest) * plan.a[i][j] ELSE Inf
RowLower(plan, i, j) ==
  LET up == plan.a[i][j] > 0
      side == IF up THEN plan.AL[i] ELSE plan.AU[i]
      rest == IF up THEN RestMax(plan, i, j) ELSE RestMin(plan, i, j)
  IN IF IsFinite(side) /\ IsFinite(rest) THEN (side - rest) * plan.a[i][j] ELSE -Inf
\* Mutant of RowFreeAbove: the upper bound is forgotten.
RowFreeAboveAlways(plan, i, j) == plan.AL[i] <= plan.AU[i]
RowFreeAbove(plan, i, j) == ~IsFinite(plan.u[j]) \/ RowUpper(plan, i, j) <= plan.u[j]
RowFreeBelow(plan, i, j) == ~IsFinite(plan.l[j]) \/ RowLower(plan, i, j) >= plan.l[j]

\* The side the cost asks for: a low column makes the row's activity low or
\* high by the sign of its coefficient.
WantsLower(plan, i, j) == plan.c[j] * plan.a[i][j] > 0
WantsUpper(plan, i, j) == plan.c[j] * plan.a[i][j] < 0
ActiveSide(plan, i, j) ==
  IF WantsLower(plan, i, j) THEN plan.AL[i]
  ELSE IF WantsUpper(plan, i, j) THEN plan.AU[i]
  ELSE IF IsFinite(plan.AL[i]) THEN plan.AL[i] ELSE plan.AU[i]

\* The value both sides of the row take: an infinity when there is none.
InferredSide(plan, i, j) ==
  LET cheapFree == IF plan.c[j] > 0 THEN RowFreeBelow(plan, i, j) ELSE RowFreeAbove(plan, i, j)
  IN IF RowFreeAbove(plan, i, j) /\ RowFreeBelow(plan, i, j) THEN ActiveSide(plan, i, j)
     ELSE IF plan.c[j] # 0 /\ cheapFree THEN ActiveSide(plan, i, j) ELSE Inf

Asked(plan) ==
  {p \in Rows \X SingletonCols(plan) :
     p[1] = SupportRow(plan, p[2]) /\ Cardinality(RowCols(plan, p[1])) > 1}
DualInfer(plan) ==
  LET acting == {p \in Asked(plan) : ~IsEquality(plan, p[1])
                                     /\ IsFinite(InferredSide(plan, p[1], p[2]))}
      owned(i) == {p[2] : p \in {q \in acting : q[1] = i}}
      side(i) == InferredSide(plan, i, Min(owned(i)))
      inOrder == Ascending({p[1] : p \in acting})
  IN IF \E p \in Asked(plan) : DirectUnbounded(plan, p[1], p[2]) THEN Unbounded(plan)
     ELSE [plan EXCEPT
            !.AL = [i \in Rows |-> IF owned(i) # {} THEN side(i) ELSE @[i]],
            !.AU = [i \in Rows |-> IF owned(i) # {} THEN side(i) ELSE @[i]],
            !.tape = @ \o [q \in DOMAIN inOrder |-> [type |-> "EqToIneq", row |-> inOrder[q]]]]

-----------------------------------------------------------------------------
(* apply_rule_duplicate_columns.  One thread per hash group; pairs are      *)
(* taken in column order, and what one pair decides the later ones see.    *)

\* Column k is r times column j on the live rows.
ColRatio(plan, j, k, r) ==
  ColRows(plan, j) # {} /\ \A i \in plan.keepRow : plan.a[i][k] = r * plan.a[i][j]
ParallelCols(plan, j, k) == \E r \in {-1, 1} : ColRatio(plan, j, k, r)
RatioOfCol(plan, j, k) == CHOOSE r \in {-1, 1} : ColRatio(plan, j, k, r)

DuplicateColumn(k, j, r, sourceL, sourceU, targetL, targetU) ==
  [type |-> "DuplicateColumn", col |-> k, target |-> j, ratio |-> r,
   l |-> sourceL, u |-> sourceU, targetL |-> targetL, targetU |-> targetU]

\* Bounds of x_j + r x_k.
MergedLower(targetL, sourceL, sourceU, r) ==
  LET source == IF r > 0 THEN sourceL ELSE sourceU
  IN IF IsFinite(targetL) /\ IsFinite(source) THEN targetL + r * source ELSE -Inf
MergedUpper(targetU, sourceL, sourceU, r) ==
  LET source == IF r > 0 THEN sourceU ELSE sourceL
  IN IF IsFinite(targetU) /\ IsFinite(source) THEN targetU + r * source ELSE Inf

\* Mutant of Dominated: the other bound of the target is asked for.
DominatedByOtherBound(plan, j, k) ==
  LET r == RatioOfCol(plan, j, k)
      gap == plan.c[k] - r * plan.c[j]
      open == IF gap * r > 0 THEN ~IsFinite(plan.l[j]) ELSE ~IsFinite(plan.u[j])
      sourceOpen == ~IsFinite(IF gap > 0 THEN plan.l[k] ELSE plan.u[k])
  IN IF gap = 0 THEN {}
     ELSE IF open THEN {<<k, IF gap > 0 THEN plan.l[k] ELSE plan.u[k]>>}
     ELSE IF sourceOpen THEN {<<j, IF gap * r > 0 THEN plan.u[j] ELSE plan.l[j]>>}
     ELSE {}
\* Of two columns the dearer one goes to a bound when the cheaper one can
\* make up for it without limit.  The column that is fixed, and where: the
\* source k is asked before the target j.
Dominated(plan, j, k) ==
  LET r == RatioOfCol(plan, j, k)
      gap == plan.c[k] - r * plan.c[j]
      open == IF gap * r > 0 THEN ~IsFinite(plan.u[j]) ELSE ~IsFinite(plan.l[j])
      sourceOpen == ~IsFinite(IF gap > 0 THEN plan.l[k] ELSE plan.u[k])
  IN IF gap = 0 THEN {}
     ELSE IF open THEN {<<k, IF gap > 0 THEN plan.l[k] ELSE plan.u[k]>>}
     ELSE IF sourceOpen THEN {<<j, IF gap * r > 0 THEN plan.u[j] ELSE plan.l[j]>>}
     ELSE {}

\* The columns the group's thread has merged or fixed so far.
Gone(work) == {work.merged[q].col : q \in DOMAIN work.merged} \cup work.fixed
\* One pair, on what the group's thread has decided so far: the bounds of the
\* targets, the records of the columns merged, the values of those fixed.
Pair(work, j, k) ==
  LET plan == work.plan
      r == RatioOfCol(plan, j, k)
      fix == Dominated(plan, j, k)
      col == (CHOOSE f \in fix : TRUE)[1]
      val == (CHOOSE f \in fix : TRUE)[2]
  IN IF work.unbounded \/ {j, k} \cap Gone(work) # {} \/ ~ParallelCols(plan, j, k) THEN work
     ELSE IF plan.c[k] = r * plan.c[j]
     THEN [work EXCEPT
            !.merged = Append(@, DuplicateColumn(k, j, r, plan.l[k], plan.u[k],
                                                 plan.l[j], plan.u[j])),
            !.plan = [plan EXCEPT !.l[j] = MergedLower(plan.l[j], plan.l[k], plan.u[k], r),
                                  !.u[j] = MergedUpper(plan.u[j], plan.l[k], plan.u[k], r)]]
     ELSE IF fix = {} THEN work
     ELSE IF ~IsFinite(val) THEN [work EXCEPT !.unbounded = TRUE]
     ELSE [work EXCEPT !.fixed = @ \cup {col}, !.value[col] = val]

\* The pairs j < k of live columns of one hash.  The groups share nothing, so
\* their threads may be taken one after another.
HashTogether(plan, j, k) ==
  /\ ColRows(plan, j) # {} /\ ColRows(plan, k) # {}
  /\ Collide \/ ParallelCols(plan, j, k)
IsPair(plan, j, k) == {j, k} \subseteq plan.keepCol /\ j < k /\ HashTogether(plan, j, k)
\* The two loops over the columns of a group: k runs within j.
AfterPairs(plan) ==
  LET after[n \in 0..N * N] ==
        IF n = 0
        THEN [plan |-> plan, merged |-> << >>, fixed |-> {}, value |-> [j \in Cols |-> 0],
              unbounded |-> FALSE]
        ELSE LET j == 1 + ((n - 1) \div N)
                 k == 1 + ((n - 1) % N)
             IN IF IsPair(plan, j, k) THEN Pair(after[n - 1], j, k) ELSE after[n - 1]
  IN after[N * N]

\* Mutant of TapeOrder: the other way round.
TapeOrderDown(records) == SortSeq(records, LAMBDA r, s : r.col > s.col)
\* The records, in the order of the columns they delete.
TapeOrder(records) == SortSeq(records, LAMBDA r, s : r.col < s.col)
DuplicateColumns(plan) ==
  LET work == AfterPairs(plan)
  IN IF work.unbounded THEN Unbounded(plan)
     ELSE Fixed([work.plan EXCEPT !.keepCol = @ \ {work.merged[q].col : q \in DOMAIN work.merged},
                                  !.tape = @ \o TapeOrder(work.merged)],
                work.fixed, work.value, plan.keepRow)

-----------------------------------------------------------------------------
(* Postsolve of a duplicate column: x_target holds the sum, and is split.   *)
(* Where the code takes the middle of an interval the model takes the       *)
(* integer below it.                                                       *)

\* What x_k may be, given the sum y: its own bounds and what the target's ask.
SplitLow(r, y) ==
  Max({r.l} \cup (IF r.ratio > 0 THEN (IF IsFinite(r.targetU) THEN {y - r.targetU} ELSE {})
                  ELSE IF IsFinite(r.targetL) THEN {r.targetL - y} ELSE {}))
\* Mutant of SplitHigh: the target's bounds are not asked.
SplitHighAlone(r, y) == r.u
SplitHigh(r, y) ==
  Min({r.u} \cup (IF r.ratio > 0 THEN (IF IsFinite(r.targetL) THEN {y - r.targetL} ELSE {})
                  ELSE IF IsFinite(r.targetU) THEN {r.targetU - y} ELSE {}))
\* _choose_merged_source_value: the interior when there is one.
Chosen(lo, hi) ==
  IF IsFinite(lo) /\ IsFinite(hi) THEN (lo + hi) \div 2
  ELSE IF IsFinite(lo) THEN (IF lo < 0 THEN 0 ELSE lo + 1)
  ELSE IF IsFinite(hi) THEN (IF hi > 0 THEN 0 ELSE hi - 1)
  ELSE 0
\* z is the reduced cost the target has when it is split.
SplitSource(r, y, z) ==
  LET lower == MergedLower(r.targetL, r.l, r.u, r.ratio)
      upper == MergedUpper(r.targetU, r.l, r.u, r.ratio)
  IN IF z > 0 /\ IsFinite(lower) /\ y = lower THEN (IF r.ratio > 0 THEN r.l ELSE r.u)
     ELSE IF z < 0 /\ IsFinite(upper) /\ y = upper THEN (IF r.ratio > 0 THEN r.u ELSE r.l)
     ELSE Chosen(SplitLow(r, y), SplitHigh(r, y))
Split(r, x, z) ==
  LET source == SplitSource(r, x[r.target], z[r.target])
  IN [x EXCEPT ![r.col] = source, ![r.target] = @ - r.ratio * source]

\* The whole tape, last record first; z are the reduced costs of the columns.
ReplayAll(tape, x, z) ==
  FoldRight(LAMBDA r, y : IF r.type = "DuplicateColumn" THEN Split(r, y, z)
                          ELSE [y EXCEPT ![r.col] = Replayed(r, y)], Primal(tape), x)

-----------------------------------------------------------------------------
(* apply_rule_redundant_bounds: bounds that a row implies are dropped, in   *)
(* batches in which no two columns share a row.                            *)

\* Columns with two bounds are eligible when they cost nothing.
Eligible(plan, j) ==
  IF IsFinite(plan.l[j]) /\ IsFinite(plan.u[j]) THEN plan.c[j] = 0 ELSE AllowOneSided
UpperRedundant(plan, j) ==
  /\ Eligible(plan, j) /\ IsFinite(plan.u[j])
  /\ \E i \in ColRows(plan, j) : RowUpper(plan, i, j) <= plan.u[j]
LowerRedundant(plan, j) ==
  /\ Eligible(plan, j) /\ IsFinite(plan.l[j])
  /\ \E i \in ColRows(plan, j) : RowLower(plan, i, j) >= plan.l[j]

\* A candidate is selected when in every row of its own it has the smallest
\* (degree, index) of the candidates.
Before(plan, j, k) ==
  LET degree(q) == Cardinality(ColRows(plan, q))
  IN degree(j) < degree(k) \/ (degree(j) = degree(k) /\ j <= k)
\* Mutant of Selected: all candidates are.
SelectedAll(plan, candidates) == plan.keepCol \cap candidates
Selected(plan, candidates) ==
  {j \in candidates : \A i \in ColRows(plan, j) : \A k \in RowCols(plan, i) \cap candidates :
                        Before(plan, j, k)}

\* One batch; its records have no primal effect.
DropBounds(plan) ==
  LET upper == {j \in plan.keepCol : UpperRedundant(plan, j)}
      lower == {j \in plan.keepCol : LowerRedundant(plan, j)}
      selected == Selected(plan, upper \cup lower)
  IN [plan EXCEPT
       !.l = [j \in Cols |-> IF j \in selected \cap lower THEN -Inf ELSE @[j]],
       !.u = [j \in Cols |-> IF j \in selected \cap upper THEN Inf ELSE @[j]]]
\* Batches until one selects nothing: every batch drops a bound.
RedundantBounds(plan) ==
  LET after[n \in 0..2 * N] == IF n = 0 THEN plan ELSE DropBounds(after[n - 1])
  IN after[2 * N]
=============================================================================
