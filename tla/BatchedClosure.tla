--------------------------- MODULE BatchedClosure ---------------------------
(***************************************************************************)
(* run_batched_singleton_cleanup_closure: the cascade of column            *)
(* singletons, dual fixing and singleton rows on a very large LP, in one   *)
(* plan and with one compaction at its end.                                *)
(*                                                                         *)
(* The matrix stays as it was; what the rules need to know of the plan's   *)
(* live part is kept up to date instead: row and column degrees are        *)
(* reduced by what left since the last refresh, and dual fixing looks only *)
(* at columns whose costs, bounds or rows changed since it last looked.    *)
(* The module states what these shortcuts must not lose, and what the one  *)
(* tape of all rounds must still say to postsolve.                         *)
(***************************************************************************)
EXTENDS SingletonRules

CONSTANTS
  Families,   \* a sequence of families [cols, coefs, columns, sides]: the LPs
              \* the closure may be entered with, any matrix over coefs on some
              \* of the columns, with columns [c, l, u] and rows [AL, AU] of the
              \* given kinds
  Largest     \* bound: the finite bounds and sides of these LPs are within it

Numbers == (-Largest)..Largest
ASSUME FamiliesAssumption ==
  \A q \in DOMAIN Families :
    LET f == Families[q]
    IN /\ f.cols \subseteq Cols /\ f.coefs \subseteq -1..1
       /\ f.columns \subseteq [c : Int, l : {-Inf} \cup Numbers, u : {Inf} \cup Numbers]
       /\ f.sides \subseteq [AL : {-Inf} \cup Numbers, AU : {Inf} \cup Numbers]

\* A number multiplied by N + 1, n times: what the bounds and sides of a plan
\* grow to when n columns leave it, and the values of a point when n columns
\* are recovered.
Grown(base, n) ==
  LET after[k \in 0..n] == IF k = 0 THEN base ELSE (N + 1) * after[k - 1]
  IN after[n]
\* Inf is beyond all of them.
ASSUME InfIsFar ==
  Largest \in Nat /\ Grown(Box + Grown(Largest, N), N) < Inf

VARIABLES
  lp,          \* current.lp
  plan,        \* the one plan of all rounds
  rowNnz, colNnz,        \* stats.row_nnz, stats.col_nnz
  singRow, singCol,      \* singleton masks with their support: 0 is not a singleton
  rowsBefore, colsBefore,  \* keep_row_before, keep_col_before
  seen,        \* the plan when dual fixing last looked (dual_..._seen)
  candidates,  \* dual_candidate_mask
  firstSweep,  \* first_dual_sweep
  changedRound, changedAny,
  rounds,      \* rounds so far
  expired,     \* time_exceeded()
  pc           \* what the loop does next

statVars == <<rowNnz, colNnz, singRow, singCol, rowsBefore, colsBefore>>
dualVars == <<seen, candidates, firstSweep>>
vars == <<lp, plan, statVars, dualVars, changedRound, changedAny, rounds, expired, pc>>

-----------------------------------------------------------------------------
(* Statistics.                                                             *)

\* The first live column of a row, or row of a column (0: none), when its
\* degree is one.
SingletonOf(p, nnz, i) ==
  IF i \in p.keepRow /\ nnz[i] = 1 /\ RowCols(p, i) # {} THEN Min(RowCols(p, i)) ELSE 0
SingletonColOf(p, nnz, j) ==
  IF j \in p.keepCol /\ nnz[j] = 1 /\ ColRows(p, j) # {} THEN Min(ColRows(p, j)) ELSE 0

\* Live degrees, counted from nothing.
RowDegree(p, i) == Cardinality(RowCols(p, i))
ColDegree(p, j) == Cardinality(ColRows(p, j))

\* Mutant of RefreshStats: the masks of the last refresh are not replaced.
RefreshStatsTwice(p) ==
  LET rows == rowsBefore \ p.keepRow
      cols == colsBefore \ p.keepCol
      rowNext == [i \in Rows |-> rowNnz[i] -
                    IF i \in p.keepRow THEN Cardinality({j \in cols : p.a[i][j] # 0}) ELSE 0]
      colNext == [j \in Cols |-> colNnz[j] -
                    IF j \in p.keepCol THEN Cardinality({i \in rows : p.a[i][j] # 0}) ELSE 0]
  IN /\ rowNnz' = rowNext
     /\ colNnz' = colNext
     /\ singRow' = [i \in Rows |-> SingletonOf(p, rowNext, i)]
     /\ singCol' = [j \in Cols |-> SingletonColOf(p, colNext, j)]
     /\ UNCHANGED <<rowsBefore, colsBefore>>
\* refresh_incremental_stats.
RefreshStats(p) ==
  LET rows == rowsBefore \ p.keepRow
      cols == colsBefore \ p.keepCol
      rowNext == [i \in Rows |-> rowNnz[i] -
                    IF i \in p.keepRow THEN Cardinality({j \in cols : p.a[i][j] # 0}) ELSE 0]
      colNext == [j \in Cols |-> colNnz[j] -
                    IF j \in p.keepCol THEN Cardinality({i \in rows : p.a[i][j] # 0}) ELSE 0]
  IN /\ rowNnz' = rowNext
     /\ colNnz' = colNext
     /\ singRow' = [i \in Rows |-> SingletonOf(p, rowNext, i)]
     /\ singCol' = [j \in Cols |-> SingletonColOf(p, colNext, j)]
     /\ rowsBefore' = p.keepRow
     /\ colsBefore' = p.keepCol

\* Mutant of ChangedCols: a removed row is not taken for a change.
ChangedColsByData ==
  {j \in plan.keepCol :
     \/ plan.c[j] # seen.c[j] \/ plan.l[j] # seen.l[j] \/ plan.u[j] # seen.u[j]
     \/ \E i \in Rows : /\ plan.a[i][j] # 0
                        /\ plan.AL[i] # seen.AL[i] \/ plan.AU[i] # seen.AU[i]}
\* The columns whose dual-fix test may come out differently: their cost or
\* bounds changed, or a row of theirs left or changed a side.
ChangedCols ==
  {j \in plan.keepCol :
     \/ plan.c[j] # seen.c[j] \/ plan.l[j] # seen.l[j] \/ plan.u[j] # seen.u[j]
     \/ \E i \in Rows : /\ plan.a[i][j] # 0
                        /\ \/ i \in seen.keepRow \ plan.keepRow
                           \/ plan.AL[i] # seen.AL[i] \/ plan.AU[i] # seen.AU[i]}

-----------------------------------------------------------------------------
\* A column outside of the family is fixed at zero; an earlier phase removed it.
InitLp ==
  \E q \in DOMAIN Families :
    LET f == Families[q]
    IN \E a \in [Rows -> [f.cols -> f.coefs]], k \in [f.cols -> f.columns], r \in [Rows -> f.sides] :
         LET column(j) == IF j \in f.cols THEN k[j] ELSE [c |-> 0, l |-> 0, u |-> 0]
         IN /\ lp = [a |-> [i \in Rows |-> [j \in Cols |-> IF j \in f.cols THEN a[i][j] ELSE 0]],
                     c |-> [j \in Cols |-> column(j).c],
                     l |-> [j \in Cols |-> column(j).l], u |-> [j \in Cols |-> column(j).u],
                     AL |-> [i \in Rows |-> r[i].AL], AU |-> [i \in Rows |-> r[i].AU]]
            /\ plan = [NewPlan(lp) EXCEPT !.keepCol = f.cols]

Init ==
  /\ InitLp
  /\ rowNnz = [i \in Rows |-> RowDegree(plan, i)]
  /\ colNnz = [j \in Cols |-> ColDegree(plan, j)]
  /\ singRow = [i \in Rows |-> SingletonOf(plan, rowNnz, i)]
  /\ singCol = [j \in Cols |-> SingletonColOf(plan, colNnz, j)]
  /\ rowsBefore = plan.keepRow /\ colsBefore = plan.keepCol
  /\ seen = plan /\ candidates = {} /\ firstSweep = TRUE
  /\ changedRound = FALSE /\ changedAny = FALSE /\ rounds = 0
  /\ expired = FALSE
  /\ pc = "eq"

Stopped == plan.verdict # "none" \/ expired
\* plan.has_change of a rule: all three remove a row or a column.
Changed(p) == p.keepRow # plan.keepRow \/ p.keepCol # plan.keepCol

\* The head of the loop and apply_rule_column_singletons_eq.
EqStep ==
  /\ pc = "eq"
  /\ IF Stopped
     THEN /\ pc' = "end"
          /\ UNCHANGED <<plan, changedRound>>
     ELSE /\ plan' = ColumnSingletonsEq(plan, Owned(plan, singCol))
          /\ changedRound' = Changed(plan')
          /\ pc' = "mark"
  /\ UNCHANGED <<lp, statVars, dualVars, changedAny, rounds, expired>>

\* The candidates of this round's sweep, and the snapshot for the next one.
MarkStep ==
  /\ pc = "mark"
  /\ IF Stopped
     THEN pc' = "round" /\ UNCHANGED dualVars
     ELSE /\ candidates' = IF firstSweep THEN Cols ELSE ChangedCols
          /\ firstSweep' = FALSE
          /\ seen' = plan
          /\ pc' = "dual"
  /\ UNCHANGED <<lp, plan, statVars, changedRound, changedAny, rounds, expired>>

DualStep ==
  /\ pc = "dual"
  /\ plan' = DualFix(plan, candidates)
  /\ changedRound' = (changedRound \/ Changed(plan'))
  /\ pc' = "refresh"
  /\ UNCHANGED <<lp, statVars, dualVars, changedAny, rounds, expired>>

RefreshStep ==
  /\ pc = "refresh"
  /\ IF Stopped
     THEN pc' = "round" /\ UNCHANGED statVars
     ELSE RefreshStats(plan) /\ pc' = "rows"
  /\ UNCHANGED <<lp, plan, dualVars, changedRound, changedAny, rounds, expired>>

\* apply_rule_singleton_rows, and another refresh if it removed rows.
RowsStep ==
  /\ pc = "rows"
  /\ plan' = SingletonRows(plan, singRow)
  /\ changedRound' = (changedRound \/ Changed(plan'))
  /\ IF Changed(plan') THEN RefreshStats(plan') ELSE UNCHANGED statVars
  /\ pc' = "round"
  /\ UNCHANGED <<lp, dualVars, changedAny, rounds, expired>>

\* Mutant of EndRound: any earlier change asks for another round.
EndRoundAny ==
  /\ pc = "round"
  /\ changedAny' = (changedAny \/ changedRound)
  /\ changedRound' = FALSE
  /\ rounds' = rounds + 1
  /\ pc' = IF changedAny' THEN "eq" ELSE "end"
  /\ UNCHANGED <<lp, plan, statVars, dualVars, expired>>
EndRound ==
  /\ pc = "round"
  /\ changedAny' = (changedAny \/ changedRound)
  /\ changedRound' = FALSE
  /\ rounds' = rounds + 1
  /\ pc' = IF changedRound THEN "eq" ELSE "end"
  /\ UNCHANGED <<lp, plan, statVars, dualVars, expired>>

\* The one compaction; a verdict leaves the LP as it was.
Finish ==
  /\ pc = "end"
  /\ pc' = IF changedAny /\ plan.verdict = "none" THEN "committed" ELSE "left"
  /\ UNCHANGED <<lp, plan, statVars, dualVars, changedRound, changedAny, rounds, expired>>

Expire ==
  /\ pc \notin {"committed", "left"} /\ ~expired
  /\ expired' = TRUE
  /\ UNCHANGED <<lp, plan, statVars, dualVars, changedRound, changedAny, rounds, pc>>

Next ==
  \/ EqStep \/ MarkStep \/ DualStep \/ RefreshStep \/ RowsStep \/ EndRound \/ Finish
  \/ Expire

Spec == Init /\ [][Next]_vars
-----------------------------------------------------------------------------
\* Where a rule reads them, the degrees kept up by subtraction are those of
\* the live part of the matrix, and the singleton masks name exactly the
\* live singletons with their live supports.
StatsAreLive ==
  (pc \in {"eq", "rows"} /\ ~Stopped) =>
    /\ \A i \in plan.keepRow : rowNnz[i] = RowDegree(plan, i)
    /\ \A j \in plan.keepCol : colNnz[j] = ColDegree(plan, j)
    /\ \A i \in Rows : singRow[i] # 0 <=> (i \in plan.keepRow /\ RowDegree(plan, i) = 1)
    /\ \A j \in Cols : singCol[j] # 0 <=> (j \in plan.keepCol /\ ColDegree(plan, j) = 1)
    /\ \A i \in Rows : singRow[i] # 0 => RowCols(plan, i) = {singRow[i]}
    /\ \A j \in Cols : singCol[j] # 0 => ColRows(plan, j) = {singCol[j]}

\* An incremental sweep leaves out no column that a full sweep would act on.
CandidatesComplete ==
  pc = "dual" => \A j \in plan.keepCol \ candidates : Fate(plan, j) = "keep"

\* The point postsolve returns for a point z of the reduced LP: zero, the
\* kept columns, the fixed values, then the tape.
Recovered(z) ==
  LET start == [j \in Cols |-> IF j \in plan.keepCol THEN z[j]
                               ELSE IF IsFinite(plan.l[j]) /\ plan.l[j] = plan.u[j] THEN plan.l[j]
                               ELSE 0]
  IN Replay(plan.tape, start)
ReducedPoints == PointsOf(plan, Box)
UserPoints(width) == PointsOf(NewPlan(lp), width)
IsPoint(x) == \A j \in Cols : IsFinite(x[j])
HasInfiniteFix == \E q \in DOMAIN plan.tape : plan.tape[q].type = "FixedColInf"

\* Every point of the reduced LP comes back as a point of the LP the closure
\* was entered with, when no column was left to an infinite fix, and a point
\* that comes back costs what the reduced LP says it costs.
RecoversFeasible ==
  pc = "committed" =>
    \A z \in ReducedPoints :
      LET x == Recovered(z)
      IN /\ ~HasInfiniteFix => Feasible(lp, x)
         /\ IsPoint(x) => Cost(lp, x) = Activity(plan.c, z, plan.keepCol) + plan.delta

\* Nothing better is lost: what a point of the LP says about the kept columns
\* is a point of the reduced LP, and costs no more there.  With
\* RecoversFeasible, the optima of the two LPs are the same.
NoBetterPointLost ==
  pc = "committed" =>
    \A x \in UserPoints(Box) :
      /\ Satisfies(plan, plan.keepRow, plan.keepCol, x)
      /\ Activity(plan.c, x, plan.keepCol) + plan.delta <= Cost(lp, x)

\* Verdicts are right.  An LP called infeasible has no point; of one called
\* unbounded, every point is undercut by one of the reduced LP, which comes back
\* as a point of the LP just as after a commit.
InfeasibleIsRight == plan.verdict = "infeasible" => UserPoints(Box) = {}
UnboundedIsRight ==
  plan.verdict = "unbounded" =>
    LET points == ReducedPoints
    IN \A x \in UserPoints(Box - 1) : \E z \in points :
         /\ Activity(plan.c, z, plan.keepCol) + plan.delta < Cost(lp, x)
         /\ ~HasInfiniteFix => Feasible(lp, Recovered(z))
         /\ IsPoint(Recovered(z)) => Cost(lp, Recovered(z)) < Cost(lp, x)
VerdictIsRight == InfeasibleIsRight /\ UnboundedIsRight

\* The cascade makes progress: but for the last one, every round has removed a
\* row or a column for good, so the rounds end.
RoundsShrink ==
  rounds <= 1 + Cardinality(Rows \ plan.keepRow) + Cardinality(Cols \ plan.keepCol)

-----------------------------------------------------------------------------
(* What the comment on the closure and the repository's README say, and    *)
(* the code does not do.                                                   *)

\* "Live statistics honor the masks, so A and AT need only one compaction
\* while reduction and postsolve tape order are preserved": the tape of all
\* rounds recovers a point of the LP whenever it recovers a point at all.
OneCompactionRecovers ==
  pc = "committed" =>
    \A z \in ReducedPoints : IsPoint(Recovered(z)) => Feasible(lp, Recovered(z))

\* "recovers a solution in the original model space": no column comes back
\* as an infinity.
RecoversFinite ==
  pc = "committed" => \A z \in ReducedPoints : IsPoint(Recovered(z))
=============================================================================
