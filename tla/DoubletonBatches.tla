-------------------------- MODULE DoubletonBatches --------------------------
(***************************************************************************)
(* The column phases of the doubleton rule: run_repeated_doubleton runs     *)
(* phases until one changes nothing, a phase runs batches until one changes *)
(* nothing, and a batch solves the rows its matching takes                 *)
(* (DoubletonMatching: the threads take the rows of Matched, whatever their *)
(* order).  Every batch after the first reads the matrix the last one       *)
(* rebuilt, under the masks of the phase.                                  *)
(***************************************************************************)
EXTENDS WorkingLp

CONSTANTS
  MatchingRounds,    \* DOUBLETON_EQUATION_BATCH_MATCHING_ROUNDS
  MaxBatches,        \* DOUBLETON_EQUATION_BATCH_INNER_ROUNDS or max_batch_rounds
  MinSelected,       \* doubleton_equations_min_selected_per_batch
  MinPercent,        \* doubleton_equations_min_selected_ratio, in percent
  SinglePhase,       \* doubleton_equations_single_batch_per_iter
  TimeLimit          \* there is a doubleton_equations_max_time

ASSUME BatchesAssumption ==
  /\ {MatchingRounds, MaxBatches, MinSelected, MinPercent} \subseteq Nat
  /\ {SinglePhase, TimeLimit} \subseteq BOOLEAN

VARIABLES
  batches,    \* batches of the running phase that changed the plan
  stage       \* "idle", "batches" or "commit"; current holds the plan as well

batchVars == <<batches, stage>>

InitBatches == batches = 0 /\ stage = "idle"

\* run_repeated_doubleton, or a phase of its own.
CallDoubletons ==
  /\ stage = "idle"
  /\ stage' = "batches" /\ batches' = 0
  /\ phasesLeft' = phasesLeft - 1
  /\ UNCHANGED <<lp, current, enabled>>

Taken(plan) == Matched([i \in Acceptable(plan) |-> PairOf(plan, i)], MatchingRounds)
TooFew(plan) ==
  \/ Taken(plan) = {}
  \/ Cardinality(Taken(plan)) < MinSelected
  \/ 100 * Cardinality(Taken(plan)) < MinPercent * Cardinality(Acceptable(plan))

MoreBatches == batches < MaxBatches
\* A batch that changes the plan, or finds it infeasible.
RunBatch ==
  /\ stage = "batches" /\ MoreBatches
  /\ UnitPivots(current) /\ ~TooFew(current)
  /\ current' = SolveBatch(current, Taken(current))
  /\ IF current'.verdict = "none" THEN batches' = batches + 1 /\ UNCHANGED stage
     ELSE stage' = "commit" /\ UNCHANGED batches
  /\ UNCHANGED <<lp, enabled, phasesLeft>>
\* The loop over the batches ends: too few rows, all batches used, out of time.
LeaveBatches ==
  /\ stage = "batches"
  /\ \/ UnitPivots(current) /\ TooFew(current)
     \/ batches = MaxBatches
     \/ TimeLimit
  /\ stage' = "commit"
  /\ UNCHANGED <<lpVars, batches>>

\* The end of a phase.  A verdict ends presolve; the plan is dropped then, and
\* no property here reads it.
CommitBatches ==
  /\ stage = "commit"
  /\ current' = IF current.verdict = "none" /\ batches > 0 THEN Compacted(current) ELSE current
  /\ stage' = IF current.verdict = "none" /\ batches > 0 /\ ~SinglePhase THEN "batches" ELSE "idle"
  /\ batches' = 0
  /\ UNCHANGED <<lp, enabled, phasesLeft>>

\* Bound: the run ends at a pivot that is not 1 or -1.
LeaveUnits ==
  /\ stage = "batches" /\ ~UnitPivots(current)
  /\ stage' = "commit"
  /\ UNCHANGED <<lpVars, batches>>

BatchesStep == RunBatch \/ LeaveBatches \/ CommitBatches \/ LeaveUnits
-----------------------------------------------------------------------------
\* The loops over batches and phases end, because a batch that changes anything
\* removes a column: one that did not would be found again by the next phase,
\* and run_repeated_doubleton has no limit of its own.
BatchesShrink ==
  [][batches' > batches =>
       current'.keepCol \subseteq current.keepCol /\ current'.keepCol # current.keepCol]_<<lpVars, batchVars>>
=============================================================================
