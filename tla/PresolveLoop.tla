---------------------------- MODULE PresolveLoop ----------------------------
(***************************************************************************)
(* What the presolve loop does to one LP: phases of row and column rules,   *)
(* the closure of implied bounds (ImpliedBounds) and the batches of          *)
(* doubleton equations (DoubletonBatches), one after the other on one        *)
(* working LP and one record, and last the phase of redundant bounds.       *)
(*                                                                         *)
(* The scheduler's loops and switches allow the phases in many orders       *)
(* (Scheduler is about which); here any order of the enabled ones may        *)
(* happen, and the module states what the reduced LP and postsolve must     *)
(* keep whatever the order was.                                            *)
(***************************************************************************)
EXTENDS RulePhases, ImpliedBounds, DoubletonBatches, DualReplay

VARIABLE ended    \* the last phase of the run has ended

vars == <<lpVars, boundsVars, batchVars, ended>>

Idle == pc = "idle" /\ stage = "idle"
Running ==
  /\ Idle /\ ~ended /\ ~expired
  /\ current.verdict = "none" /\ phasesLeft > 0 /\ Unit(current)

Init == InitLp /\ InitBounds /\ InitBatches /\ ended = FALSE

\* The end of a phase: a verdict leaves the LP as it was; a plan that changed
\* nothing is dropped.
Commit(p) ==
  /\ current' = IF p.verdict = "none" THEN Compacted(p) ELSE [current EXCEPT !.verdict = p.verdict]
  /\ phasesLeft' = IF current' # current THEN phasesLeft - 1 ELSE phasesLeft
  /\ UNCHANGED <<lp, enabled, boundsVars, batchVars>>

RunRowPhase ==
  \E name \in enabled \cap RowPhases :
    Running /\ Commit(RowPhase(name, current)) /\ UNCHANGED ended
RunColPhase ==
  \E name \in enabled \cap ColPhases :
    Running /\ Commit(ColPhase(name, current)) /\ UNCHANGED ended
RunBounds ==
  Running /\ "impliedBounds" \in enabled /\ CallBounds /\ UNCHANGED <<batchVars, ended>>
RunDoubletons ==
  Running /\ "doubletons" \in enabled /\ CallDoubletons /\ UNCHANGED <<boundsVars, ended>>
ContinueBounds == BoundsStep /\ UNCHANGED <<batchVars, ended>>
ContinueBatches == BatchesStep /\ UNCHANGED <<boundsVars, ended>>
\* The one phase of redundant bounds comes after all the others.
LastPhase ==
  /\ Idle /\ ~ended /\ ~expired /\ current.verdict = "none" /\ Unit(current)
  /\ "redundantBounds" \in enabled
  /\ Commit(RedundantBounds(current))
  /\ ended' = TRUE

Next == \/ RunRowPhase \/ RunColPhase \/ RunBounds \/ RunDoubletons
        \/ ContinueBounds \/ ContinueBatches \/ LastPhase

Spec == Init /\ [][Next]_vars
-----------------------------------------------------------------------------
\* A point of the reduced LP is recovered to a point of the LP of the user
\* that costs what the reduced LP says, through the records of all phases.
RecoversPoint ==
  Idle /\ current.verdict = "none" /\ ~HasInfinite(current.tape) =>
    \A x \in PointsOf(current, Box), z \in Splits :
      LET user == Recovered(x, z)
      IN Feasible(lp, user) /\ Cost(lp, user) = ReducedCost(x)

\* What the dual pass needs of a tape, and no rule sees to: every removed column
\* has a record that settles its reduced cost, from all its rows; and a record
\* is replayed on the values and the LP it was written on.
NoneAfter(tape, late, early) ==
  \A p, q \in DOMAIN tape : tape[p].type \in early /\ tape[q].type \in late => q < p
Accounted(tape) ==
  /\ ~HasInfinite(tape) /\ RecordsOf(tape, {"EqToIneq"}) = {}
  /\ \A j \in Cols \ current.keepCol :
       (\A i \in Rows : lp.a[i][j] = 0) \/ \E r \in RecordsOf(tape, PrimalTypes) : r.col = j
  /\ \A r \in RecordsOf(tape, {"Doubleton"}) : \A i \in Rows \ {r.row} : lp.a[i][r.col] = 0
  /\ RecordsOf(tape, {"FixedCol"}) = {} \/ "impliedBounds" \notin enabled
ReplayedAsWritten(tape) ==
  /\ NoneAfter(tape, {"DeletedRow", "DuplicateRow", "BoundChange"},
                     {"SubCol", "Doubleton", "DuplicateColumn"})
  /\ NoneAfter(tape, {"DuplicateRow"}, {"FixedCol"})
  /\ NoneAfter(tape, {"Doubleton"}, {"DuplicateColumn"})
\* An optimum of the reduced LP, with its duals, is recovered to an optimum of
\* the LP of the user with its duals, when the tape has what the pass needs.
RecoversDuals ==
  /\ Idle /\ current.verdict = "none"
  /\ Accounted(current.tape) /\ ReplayedAsWritten(current.tape)
  => \A x \in PointsOf(current, Box) : \A y \in RowDuals(x, Box) :
       LET z == ReducedCosts(y)
       IN (\A j \in current.keepCol : Complementary(x[j], current.l[j], current.u[j], z[j]))
          => OptimalForUser(RecoveredAll(x, y, z))

\* No optimum is lost: for every point of the LP of the user the reduced LP
\* has one that costs no more.  The phases may drop points, and merged columns
\* range further than the columns they stand for.
NoOptimumLost ==
  Idle /\ current.verdict = "none" =>
    LET costs == {ReducedCost(z) : z \in PointsOf(current, Box)}
    IN \A x \in UserPoints(1) : \E v \in costs : v <= Cost(lp, x)

\* Verdicts are right: an LP called infeasible has no point, and from any point
\* of an LP called unbounded there is a cheaper one nearby.
VerdictIsRight ==
  /\ current.verdict = "infeasible" => UserPoints(Box) = {}
  /\ current.verdict = "unbounded" =>
       \A x \in UserPoints(1) : \E y \in UserPoints(Box) : Cost(lp, y) < Cost(lp, x)

\* The closure of implied bounds, whenever the clock stops it, and each batch
\* of substitutions drop nothing and add nothing: the working LP before and
\* after has the same points, at the same cost, seen through the records made
\* in between.
Undone(z) ==
  Replay(SubSeq(current'.tape, Len(current.tape) + 1, Len(current'.tape)),
         [j \in Cols |-> IF j \in current'.keepCol THEN z[j]
                         ELSE IF j \in current.keepCol /\ current'.l[j] = current'.u[j]
                         THEN current'.l[j] ELSE 0])
SamePointsAfter ==
  LET after == PointsOf(current', Box)
  IN /\ \A z \in after :
          /\ Satisfies(current, current.keepRow, current.keepCol, Undone(z))
          /\ ReducedCost(Undone(z)) = Activity(current'.c, z, current'.keepCol) + current'.delta
     /\ PointsOf(current, Box) \subseteq {Undone(z) : z \in after}
SamePoints ==
  [][~Idle /\ current' # current /\ current'.verdict = "none" => SamePointsAfter]_vars
=============================================================================
