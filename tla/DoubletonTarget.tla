-------------------------- MODULE DoubletonTarget --------------------------
(***************************************************************************)
(* The scalar path of the doubleton rule (doubleton_equations_scan off):    *)
(* one kernel picks the target row, the next solves it.                    *)
(*                                                                         *)
(* Every acceptable row is a thread: it lowers target_row_ref to its index  *)
(* with an atomicMin, and when it has lowered it, stores eleven fields of   *)
(* metadata with plain stores.  Nothing orders the stores of one thread     *)
(* and of another: the next kernel reads, field by field, what was stored  *)
(* last.                                                                   *)
(***************************************************************************)
EXTENDS DoubletonRules

CONSTANTS Matrices, ColumnKinds, RowKinds    \* the LPs presolve may be entered with

NoTarget == M + 1
\* The stores of a thread, in order: target_meta_i32, then target_meta_f64.
Fields == <<"row", "elim", "keep", "elimVal", "keepVal", "rhs", "elimL", "elimU", "elimC",
            "keepL", "keepU">>

VARIABLES
  lp,        \* the LP of the user
  current,   \* the plan of the phase
  target,    \* target_row_ref
  meta,      \* target_meta_i32 and target_meta_f64; a field nobody stored is 0
  pc,        \* the thread of each row: 0 before its atomicMin, then the field it
             \* stores next; past the last field it has ended
  done       \* the rule has returned

vars == <<lp, current, target, meta, pc, done>>

Ended == Len(Fields) + 1

Init ==
  /\ \E a \in Matrices, k \in [Cols -> ColumnKinds], r \in [Rows -> RowKinds] :
       lp = [a |-> a,
             c |-> [j \in Cols |-> k[j].c], l |-> [j \in Cols |-> k[j].l],
             u |-> [j \in Cols |-> k[j].u],
             AL |-> [i \in Rows |-> r[i].AL], AU |-> [i \in Rows |-> r[i].AU]]
  /\ current = NewPlan(lp)
  /\ target = NoTarget
  /\ meta = [f \in {Fields[q] : q \in DOMAIN Fields} |-> 0]
  /\ pc = [i \in Rows |-> IF i \in Acceptable(current) THEN 0 ELSE Ended]
  /\ done = FALSE

LowerTarget(i) ==
  /\ pc[i] = 0
  /\ target' = Min({target, i})
  /\ pc' = [pc EXCEPT ![i] = IF i < target THEN 1 ELSE Ended]
  /\ UNCHANGED <<lp, current, meta, done>>
StoreField(i) ==
  /\ pc[i] \in DOMAIN Fields
  /\ meta' = [meta EXCEPT ![Fields[pc[i]]] = PivotOf(current, i)[Fields[pc[i]]]]
  /\ pc' = [pc EXCEPT ![i] = @ + 1]
  /\ UNCHANGED <<lp, current, target, done>>

\* _kernel_doubleton_equations_apply and the new matrix, once all threads ended.
Solve ==
  /\ ~done /\ \A i \in Rows : pc[i] = Ended
  /\ current' = IF target = NoTarget THEN current ELSE SolveOne(current, meta)
  /\ done' = TRUE
  /\ UNCHANGED <<lp, target, meta, pc>>

Next == (\E i \in Rows : LowerTarget(i) \/ StoreField(i)) \/ Solve
Spec == Init /\ [][Next]_vars
-----------------------------------------------------------------------------

Recovered(z) == Replay(current.tape, z)
OnKept(x) == [j \in Cols |-> IF j \in current.keepCol THEN x[j] ELSE 0]
Exact ==
  /\ current.verdict = "none" =>
       /\ \A z \in {OnKept(x) : x \in Points(Box)} :
            Satisfies(current, current.keepRow, current.keepCol, z) =>
              LET x == Recovered(z)
              IN Feasible(lp, x)
                 /\ Cost(lp, x) = Activity(current.c, z, current.keepCol) + current.delta
       /\ \A x \in Points(Box) : Feasible(lp, x) =>
            Satisfies(current, current.keepRow, current.keepCol, OnKept(x))
  /\ current.verdict = "infeasible" => \A x \in Points(Box) : ~Feasible(lp, x)

\* The rule is exact: presolve "recovers a solution in the original model
\* space" (src/README.md:5) of any LP with several doubleton equations.
AnyRowsAreExact == done => Exact
=============================================================================
