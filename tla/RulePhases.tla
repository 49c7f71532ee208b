----------------------------- MODULE RulePhases -----------------------------
(***************************************************************************)
(* The phases of run_row_phase and run_col_phase, with the rule sets the    *)
(* scheduler asks for, as functions of the plan a phase starts with.        *)
(***************************************************************************)
EXTENDS ColumnRules

RowPhases == {"emptyRows", "singletonRows", "trivialRows", "redundantRows", "duplicateRows"}
ColPhases == {"fixedCols", "emptyCols", "trivialCols", "dualInfer", "singletonEq",
              "dualFix", "duplicateCols"}

\* Statistics are taken when the phase starts.
SingletonRowOf(plan) ==
  [i \in Rows |-> IF i \in plan.keepRow /\ Cardinality(RowCols(plan, i)) = 1
                  THEN Min(RowCols(plan, i)) ELSE 0]
SingletonColOf(plan) ==
  [j \in Cols |-> IF j \in SingletonCols(plan) THEN SupportRow(plan, j) ELSE 0]

\* A rule is skipped once there is a verdict.
TrivialRows(plan) ==
  LET p == EmptyRows(plan)
  IN IF p.verdict = "none" THEN SingletonRows(p, SingletonRowOf(plan)) ELSE p
TrivialCols(plan) ==
  LET p == FixedVariables(plan) IN IF p.verdict = "none" THEN EmptyCols(p) ELSE p

RowPhase(name, plan) ==
  CASE name = "emptyRows" -> EmptyRows(plan)
    [] name = "singletonRows" -> SingletonRows(plan, SingletonRowOf(plan))
    [] name = "trivialRows" -> TrivialRows(plan)
    [] name = "redundantRows" -> RedundantRows(plan)
    [] name = "duplicateRows" -> DuplicateRows(plan)
ColPhase(name, plan) ==
  CASE name = "fixedCols" -> FixedVariables(plan)
    [] name = "emptyCols" -> EmptyCols(plan)
    [] name = "trivialCols" -> TrivialCols(plan)
    [] name = "dualInfer" -> DualInfer(plan)
    [] name = "singletonEq" -> ColumnSingletonsEq(plan, Owned(plan, SingletonColOf(plan)))
    [] name = "dualFix" -> DualFix(plan, Cols)
    [] name = "duplicateCols" -> DuplicateColumns(plan)
=============================================================================
