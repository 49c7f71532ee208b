---------------------------- MODULE ImpliedBounds ----------------------------
(***************************************************************************)
(* The closure of implied variable bounds: rounds of a rule that tightens   *)
(* the bounds of all columns from all rows at once, on one plan as long as  *)
(* only bounds change, and on a new plan after a column was fixed.          *)
(*                                                                         *)
(* The rule works on all columns in parallel, each from the bounds the      *)
(* round was entered with.  It is deterministic: one action per round.      *)
(***************************************************************************)
EXTENDS WorkingLp

CONSTANTS
  KeepFree,        \* params.implied_variable_bounds_preserve_free_zero_cost
  MaxRounds,       \* params.implied_variable_bounds_max_rounds
  MaxBoundOnly     \* rounds in a row that change only bounds

ASSUME ClosureAssumption ==
  /\ KeepFree \in BOOLEAN
  /\ MaxRounds \in Nat \ {0} /\ MaxBoundOnly \in Nat \ {0}

VARIABLES
  plan,        \* the plan of the group of rounds
  nnz,         \* stats.row_nnz, taken when the group started
  rounds, boundOnly,
  structural,  \* the last round fixed a column
  changed,     \* the group changed its plan
  changedAny,
  expired,     \* the time limit
  pc           \* "idle", "group", "round", "commit" or "rows"

groupVars == <<plan, nnz, rounds, boundOnly, structural, changed, changedAny>>
boundsVars == <<groupVars, expired, pc>>

-----------------------------------------------------------------------------
(* What the rows imply.  The activity summary is that of the matrix, whose  *)
(* columns were all live when the group started.                           *)

Whole(p) == [p EXCEPT !.keepCol = Cols]
Asking(p, entries) == {i \in p.keepRow : entries[i] > 1}
AskedBy(p, entries, j) == {i \in Asking(p, entries) : p.a[i][j] # 0}
CandidateLower(p, entries, j) ==
  Max({p.l[j]} \cup {RowLower(Whole(p), i, j) : i \in AskedBy(p, entries, j)})
CandidateUpper(p, entries, j) ==
  Min({p.u[j]} \cup {RowUpper(Whole(p), i, j) : i \in AskedBy(p, entries, j)})

-----------------------------------------------------------------------------
(* The new bounds of a column.                                             *)

\* Mutant of Preserved: the bounds of the round are asked, not those of the plan's start.
PreservedByRound(p, entry, j, lower, upper) ==
  /\ KeepFree /\ p.c[j] = 0 /\ ~IsFinite(p.l[j]) /\ ~IsFinite(p.u[j])
  /\ IsFinite(lower) /\ IsFinite(upper) /\ lower < upper
\* A free column without a cost is not boxed in: entry is the LP the group
\* started with.
Preserved(p, entry, j, lower, upper) ==
  /\ KeepFree /\ p.c[j] = 0 /\ ~IsFinite(entry.l[j]) /\ ~IsFinite(entry.u[j])
  /\ IsFinite(lower) /\ IsFinite(upper) /\ lower < upper

\* Fixed at the old upper bound when the lower one reaches it, else at the new
\* lower bound when the upper one does.
Settled(p, j, lower, upper, crossed) ==
  LET atUpper == lower > p.l[j] /\ IsFinite(p.u[j]) /\ lower >= p.u[j]
      atLower == ~atUpper /\ upper < p.u[j] /\ IsFinite(lower) /\ upper <= lower
  IN [l |-> IF atUpper THEN p.u[j] ELSE lower,
      u |-> IF atLower THEN lower ELSE upper,
      crossed |-> crossed, fixed |-> atUpper \/ atLower]
\* What the rows of the column say, unless it is not to be boxed in.
FromRows(p, entry, j, rowLower, rowUpper) ==
  IF Preserved(p, entry, j, rowLower, rowUpper)
  THEN Settled(p, j, p.l[j], p.u[j], rowLower > rowUpper)
  ELSE Settled(p, j, rowLower, rowUpper, rowLower > rowUpper)
Finalized(p, entry, entries, j) ==
  FromRows(p, entry, j, CandidateLower(p, entries, j), CandidateUpper(p, entries, j))

-----------------------------------------------------------------------------
(* The records of a round: for each column in order its new lower bound,   *)
(* then its new upper bound, each with the first row that implies it.       *)

\* Mutant of LowerSupport: the first row of the column.
LowerSupportFirst(p, entries, j, bound) == Min(AskedBy(p, entries, j) \cup {M + 1})
LowerSupport(p, entries, j, bound) ==
  Min({i \in AskedBy(p, entries, j) : RowLower(Whole(p), i, j) = bound} \cup {M + 1})
UpperSupport(p, entries, j, bound) ==
  Min({i \in AskedBy(p, entries, j) : RowUpper(Whole(p), i, j) = bound} \cup {M + 1})

\* Row M + 1 stands for BoundChangeNoRow.
BoundChange(j, i, oldL, oldU, newL, newU) ==
  [type |-> "BoundChange", col |-> j, row |-> i,
   oldL |-> oldL, oldU |-> oldU, newL |-> newL, newU |-> newU]
ColumnRecords(p, entries, j, new) ==
  (IF new.fixed \/ new.l = p.l[j] THEN << >>
   ELSE <<BoundChange(j, LowerSupport(p, entries, j, new.l), p.l[j], p.u[j], new.l, p.u[j])>>)
  \o (IF new.fixed \/ new.u = p.u[j] THEN << >>
      ELSE <<BoundChange(j, UpperSupport(p, entries, j, new.u), new.l, p.u[j], new.l, new.u)>>)

-----------------------------------------------------------------------------
\* Mutant of Fixings: the rows keep the share of the fixed columns.
FixingsUnshifted(p, fixed, value) == Fixed(p, fixed, value, {})
\* apply_rule_implied_variable_bounds: one round.
Fixings(p, fixed, value) == Fixed(p, fixed, value, p.keepRow)

Emptied(p) == {i \in p.keepRow : RowCols(p, i) = {}}

\* The plan with the new bounds and their records.
Tightened(p, entries, new) ==
  LET columns == DOMAIN new
      inOrder == Ascending(columns)
  IN [p EXCEPT
        !.l = [j \in Cols |-> IF j \in columns THEN new[j].l ELSE @[j]],
        !.u = [j \in Cols |-> IF j \in columns THEN new[j].u ELSE @[j]],
        !.tape = @ \o FlattenSeq([q \in DOMAIN inOrder |->
                                   ColumnRecords(p, entries, inOrder[q], new[inOrder[q]])])]

\* The rows a round leaves without a live column are checked and go.
WithoutEmptied(p, shifted) ==
  IF \E i \in Emptied(shifted) : ~Holds(shifted, i) THEN Infeasible(p)
  ELSE [shifted EXCEPT !.keepRow = @ \ Emptied(shifted)]
WithBounds(p, entries, new) ==
  LET fixed == {j \in DOMAIN new : new[j].fixed}
  IN IF \E j \in DOMAIN new : new[j].crossed THEN Infeasible(p)
     ELSE IF fixed = {} THEN Tightened(p, entries, new)
     ELSE WithoutEmptied(p, Fixings(Tightened(p, entries, new), fixed,
                                    [j \in fixed |-> new[j].l]))
ImpliedBoundsRule(p, entry, entries) ==
  IF p.keepRow = {} \/ p.keepCol = {} THEN p
  ELSE WithBounds(p, entries, [j \in entry.keepCol |-> Finalized(p, entry, entries, j)])

-----------------------------------------------------------------------------
\* The locals of run_implied_variable_bounds_closure when it is called; they
\* are gone when it has returned.
Fresh ==
  /\ plan' = NewPlan(lp)
  /\ nnz' = [i \in Rows |-> 0]
  /\ rounds' = 0 /\ boundOnly' = 0
  /\ structural' = FALSE /\ changed' = FALSE /\ changedAny' = FALSE

InitBounds ==
  /\ plan = NewPlan(lp)
  /\ nnz = [i \in Rows |-> 0]
  /\ rounds = 0 /\ boundOnly = 0
  /\ structural = FALSE /\ changed = FALSE /\ changedAny = FALSE
  /\ expired = FALSE
  /\ pc = "idle"

CallBounds ==
  /\ pc = "idle" /\ ~expired
  /\ Fresh
  /\ pc' = "group"
  /\ phasesLeft' = phasesLeft - 1
  /\ UNCHANGED <<lp, current, enabled, expired>>

\* The clock; between phases it only keeps the next ones from running.
Expire ==
  /\ pc # "idle" /\ ~expired
  /\ expired' = TRUE
  /\ UNCHANGED <<lpVars, groupVars, pc>>

OutOfRounds == rounds >= MaxRounds \/ expired

StartGroup ==
  /\ pc = "group" /\ ~OutOfRounds
  /\ plan' = current
  /\ nnz' = [i \in Rows |-> Cardinality(RowCols(current, i))]
  /\ structural' = FALSE /\ changed' = FALSE
  /\ pc' = "round"
  /\ UNCHANGED <<lpVars, rounds, boundOnly, changedAny, expired>>

\* Where a round leads: a verdict ends the closure, a change of bounds alone
\* goes on until its limit.
AfterRound(p, only) ==
  IF p.verdict # "none" THEN "idle"
  ELSE IF p = plan \/ p.keepCol # plan.keepCol \/ only >= MaxBoundOnly THEN "commit"
  ELSE "round"

Became(p) ==
  LET acts == p.verdict = "none" /\ p # plan
  IN /\ plan' = p
     /\ changed' = (changed \/ acts)
     /\ changedAny' = (changedAny \/ acts)
     /\ structural' = IF acts THEN p.keepCol # plan.keepCol ELSE structural
     /\ boundOnly' = IF ~acts THEN boundOnly
                     ELSE IF structural' THEN 0 ELSE boundOnly + 1
     /\ pc' = AfterRound(p, boundOnly')
     /\ current' = [current EXCEPT !.verdict = p.verdict]
RunRound ==
  /\ pc = "round" /\ ~OutOfRounds
  /\ Became(ImpliedBoundsRule(plan, current, nnz))
  /\ rounds' = rounds + 1
  /\ UNCHANGED <<lp, enabled, phasesLeft, nnz, expired>>
LeaveRounds ==
  /\ pc = "round" /\ OutOfRounds
  /\ pc' = "commit"
  /\ UNCHANGED <<lpVars, groupVars, expired>>

CommitGroup ==
  /\ pc = "commit"
  /\ current' = IF changed THEN Compacted(plan) ELSE current
  /\ pc' = IF changed /\ structural /\ boundOnly < MaxBoundOnly THEN "group" ELSE "rows"
  /\ UNCHANGED <<lp, enabled, phasesLeft, groupVars, expired>>
LeaveGroups ==
  /\ pc = "group" /\ OutOfRounds
  /\ pc' = "rows"
  /\ UNCHANGED <<lpVars, groupVars, expired>>

\* A closure that changed something ends with a phase of redundant rows.
LastRows ==
  /\ pc = "rows"
  /\ current' = IF changedAny /\ ~expired
                THEN LET p == RedundantRows(current)
                     IN IF p.verdict = "none" THEN Compacted(p)
                        ELSE [current EXCEPT !.verdict = p.verdict]
                ELSE current
  /\ Fresh
  /\ pc' = "idle"
  /\ UNCHANGED <<lp, enabled, phasesLeft, expired>>

BoundsStep ==
  Expire \/ StartGroup \/ RunRound \/ LeaveRounds \/ CommitGroup \/ LeaveGroups \/ LastRows
-----------------------------------------------------------------------------
\* The row a tightened bound is recorded with implies it from the bounds in
\* force at that place of the tape, those of later records of the same round
\* not among them: what the dual pass, which undoes the records last to
\* first, relies on when it moves a reduced cost to that row.
AtRecord(tape, q, bounds) ==
  FoldLeft(LAMBDA b, r : IF r.type # "BoundChange" THEN b
                         ELSE [b EXCEPT !.l[r.col] = r.newL, !.u[r.col] = r.newU],
           bounds, SubSeq(tape, 1, q - 1))
RowImplies(p, r) ==
  /\ r.row \in p.keepRow
  /\ <<p.l[r.col], p.u[r.col]>> = <<r.oldL, r.oldU>>
  /\ r.newL # r.oldL => RowLower(p, r.row, r.col) >= r.newL
  /\ r.newU # r.oldU => RowUpper(p, r.row, r.col) <= r.newU
SupportRowsImply ==
  [][pc = "round" /\ plan' # plan =>
       LET added == SubSeq(plan'.tape, Len(plan.tape) + 1, Len(plan'.tape))
       IN \A q \in DOMAIN added :
            added[q].type = "BoundChange" => RowImplies(AtRecord(added, q, plan), added[q])]_<<lpVars, boundsVars>>

\* "Avoid wide redundant boxes on free zero-cost auxiliaries": a column that
\* was free when its plan was made does not get both bounds from that plan,
\* whatever rounds they come from, unless they fix it.
FreeStaysFree ==
  KeepFree /\ pc \in {"round", "commit"} =>
    \A j \in plan.keepCol :
      current.c[j] = 0 /\ ~IsFinite(current.l[j]) /\ ~IsFinite(current.u[j])
        => ~(IsFinite(plan.l[j]) /\ IsFinite(plan.u[j]))
=============================================================================
