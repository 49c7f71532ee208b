----------------------------- MODULE WorkingLp -----------------------------
(***************************************************************************)
(* The LP the routines of the presolve loop work on in turn, the LPs they   *)
(* may be entered with, and what postsolve makes of a point of it.          *)
(*                                                                         *)
(* Indices stay those of the LP of the user: a removed row or column is     *)
(* only out of the masks.  Their maps are MapCompaction's and               *)
(* PresolveRecord's.                                                       *)
(***************************************************************************)
EXTENDS ColumnRules, DoubletonRules

\* A sequence of families [matrices, cols, columns, rows, sides, enabled,
\* phases]: the LPs over some rows and columns with coefficients, bounds and
\* sides of a few kinds, the phases the parameters enable, and a bound on them.
CONSTANT Families

ASSUME FamiliesAssumption ==
  \A q \in DOMAIN Families :
    LET f == Families[q]
    IN /\ f.rows \subseteq Rows /\ f.cols \subseteq Cols
       /\ f.matrices \subseteq [Rows -> [Cols -> Int]]
       /\ f.columns \subseteq [c : Int, l : (-Inf)..Inf, u : (-Inf)..Inf]
       /\ f.sides \subseteq [AL : (-Inf)..Inf, AU : (-Inf)..Inf]
       /\ f.phases \in Nat

VARIABLES
  lp,          \* the LP of the user
  current,     \* the working LP: live rows and columns, costs, bounds, sides,
               \* objective constant and the tape of the record
  enabled,     \* the phases the parameters enable
  phasesLeft   \* bound: phases still to come

lpVars == <<lp, current, enabled, phasesLeft>>

\* A row outside of the family is free, a column fixed at zero; an earlier
\* phase has removed them.
InitLp ==
  \E q \in DOMAIN Families :
    LET f == Families[q]
    IN \E a \in f.matrices, k \in [f.cols -> f.columns], r \in [f.rows -> f.sides] :
         LET column(j) == IF j \in f.cols THEN k[j] ELSE [c |-> 0, l |-> 0, u |-> 0]
             row(i) == IF i \in f.rows THEN r[i] ELSE [AL |-> -Inf, AU |-> Inf]
         IN /\ lp = [a |-> a,
                     c |-> [j \in Cols |-> column(j).c],
                     l |-> [j \in Cols |-> column(j).l], u |-> [j \in Cols |-> column(j).u],
                     AL |-> [i \in Rows |-> row(i).AL], AU |-> [i \in Rows |-> row(i).AU]]
            /\ current = [NewPlan(lp) EXCEPT !.keepRow = f.rows, !.keepCol = f.cols]
            /\ enabled = f.enabled
            /\ phasesLeft = f.phases

\* The LP a plan is compacted to: the entries of removed rows and columns are
\* gone from the matrix.
Compacted(plan) ==
  [plan EXCEPT !.a = [i \in Rows |-> [j \in Cols |->
     IF i \in plan.keepRow /\ j \in plan.keepCol THEN plan.a[i][j] ELSE 0]]]
\* Bound: but for the doubleton rule, the rules are modelled for coefficients
\* of 1 and -1, which SmallLp's divisions ask for.
Unit(plan) == \A i \in plan.keepRow : \A j \in plan.keepCol : plan.a[i][j] \in -1..1

-----------------------------------------------------------------------------
\* The points of the LP of the user.
UserPoints(width) == PointsOf(NewPlan(lp), width)

\* What postsolve makes of a point of the working LP and its reduced costs z,
\* which split merged columns: kept columns, columns with one value left, the
\* tape from its end.
Recovered(x, z) ==
  ReplayAll(current.tape,
            [j \in Cols |-> IF j \in current.keepCol THEN x[j]
                            ELSE IF IsFinite(current.l[j]) /\ current.l[j] = current.u[j]
                            THEN current.l[j] ELSE 0],
            z)
ReducedCost(x) == Activity(current.c, x, current.keepCol) + current.delta
RecordsOf(tape, types) == {tape[q] : q \in {p \in DOMAIN tape : tape[p].type \in types}}
\* The reduced costs that can make a difference to the splits.
Splits ==
  LET targets == current.keepCol \cap {r.target : r \in RecordsOf(current.tape, {"DuplicateColumn"})}
  IN {[j \in Cols |-> IF j \in targets THEN sign[j] ELSE 0] : sign \in [targets -> -1..1]}
HasInfinite(tape) == RecordsOf(tape, {"FixedColInf"}) # {}
=============================================================================
