---------------------------- MODULE MCScheduler ----------------------------
(* Model-checking instance of Scheduler: every rule enabled.               *)
EXTENDS Scheduler

AllRules ==
  {"empty_rows", "singleton_rows", "infeasible_redundant_rows",
   "implied_variable_bounds", "duplicate_rows", "infeasible_fixed_variables",
   "structural_l1", "empty_cols", "column_singletons_dual",
   "column_singletons_eq", "doubleton_equations", "dual_fix",
   "duplicate_columns", "redundant_bounds", "covering_cost_dominance",
   "linf_components", "antipodal_components", "bounded_two_row_projection",
   "orphan_mccormick_projection"}
=============================================================================
