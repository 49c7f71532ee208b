------------------------------ MODULE SmallLp ------------------------------
(***************************************************************************)
(* Linear programs small enough to enumerate: what a rule of the presolver *)
(* rewrites, and what postsolve replays.                                   *)
(*                                                                         *)
(* An LP is a record [a, c, l, u, AL, AU] with a coefficient a[i][j] in    *)
(* {-1, 0, 1}: dividing by a nonzero coefficient is multiplying by it, so  *)
(* all values are integers and every tolerance is zero.  A coefficient 0   *)
(* is an entry the CSR matrix does not have.                               *)
(***************************************************************************)
EXTENDS Ranks, Sums, Sequences, FiniteSets, FiniteSetsExt, SequencesExt

CONSTANTS
  M, N,    \* rows and columns
  Box      \* bound: points are looked for in -Box..Box

ASSUME SmallLpAssumption == M \in Nat /\ N \in Nat /\ Box \in Nat

Rows == 1..M
Cols == 1..N

-----------------------------------------------------------------------------
(* Numbers.  Inf is far from every finite value the runs meet.             *)

Inf == 10000000
IsFinite(v) == v # Inf /\ v # -Inf
Minus(v, w) == IF IsFinite(v) THEN (IF IsFinite(w) THEN v - w ELSE -w) ELSE v
\* The sum of f over a set of rows or columns.
Sum(f(_), S) == Total([n \in 1..(M + N) |-> IF n \in S THEN f(n) ELSE 0], M + N)
\* The members of a set in the slots that a scan gives them.
Ascending(S) == [q \in 1..Cardinality(S) |-> CHOOSE j \in S : Rank(S, j) = q]

-----------------------------------------------------------------------------
(* Points.                                                                 *)

Points(width) == [Cols -> (-width)..width]
Activity(coef, x, S) == Total([j \in Cols |-> IF j \in S THEN coef[j] * x[j] ELSE 0], N)
\* An infinite bound or side bounds nothing.
Within(lower, v, upper) == (lower = -Inf \/ lower <= v) /\ (upper = Inf \/ v <= upper)
Satisfies(lp, rows, cols, x) ==
  /\ \A j \in cols : Within(lp.l[j], x[j], lp.u[j])
  /\ \A i \in rows : Within(lp.AL[i], Activity(lp.a[i], x, cols), lp.AU[i])
\* The points of a plan within the given width, zero in removed columns, built
\* column by column.
ValuesOf(plan, width, j) ==
  IF j \in plan.keepCol THEN {v \in (-width)..width : Within(plan.l[j], v, plan.u[j])} ELSE {0}
Longer(starts, values) == UNION {{Append(x, v) : v \in values} : x \in starts}
PointsOf(plan, width) ==
  LET upTo[n \in 0..N] == IF n = 0 THEN {<< >>}
                          ELSE Longer(upTo[n - 1], ValuesOf(plan, width, n))
  IN {x \in upTo[N] : \A i \in plan.keepRow :
        Within(plan.AL[i], Activity(plan.a[i], x, plan.keepCol), plan.AU[i])}
Feasible(lp, x) == Satisfies(lp, Rows, Cols, x)
Cost(lp, x) == Activity(lp.c, x, Cols)

-----------------------------------------------------------------------------
(* Postsolve records with a primal effect.  All of them compute one column *)
(* from rows <<side, coef>> in which it has a nonzero coefficient:         *)
(* SubCol and Doubleton solve their one row, FixedColInf goes as far in    *)
(* direction dir as its bound and its rows ask for, FixedCol has no row at *)
(* all.  For the dual pass SubCol has the column's cost, its row and        *)
(* whether that was deleted, FixedCol the cost and the column's entries.    *)

SubCol(col, row, side, coef, cost, deleted) ==
  [type |-> "SubCol", col |-> col, rows |-> <<[side |-> side, coef |-> coef]>>,
   row |-> row, cost |-> cost, deleted |-> deleted]
FixedCol(col, value, cost, entries) ==
  [type |-> "FixedCol", col |-> col, bound |-> value, cost |-> cost, entries |-> entries]
FixedColInf(col, dir, bound, rows) ==
  [type |-> "FixedColInf", col |-> col, dir |-> dir, bound |-> bound, rows |-> rows]

\* The value that makes a row tight.  One infinite column decides it; several
\* of opposite signs, NaN in the code, count as the first of them.
Tight(row, col, x) ==
  LET others == Cols \ {col}
      far == {k \in others : row.coef[k] # 0 /\ ~IsFinite(x[k])}
  IN row.coef[col] * (IF ~IsFinite(row.side) THEN row.side
                      ELSE IF far = {} THEN row.side - Activity(row.coef, x, others)
                      ELSE LET k == Min(far) IN -row.coef[k] * x[k])

Replayed(r, x) ==
  LET candidates == {r.bound} \cup {Tight(r.rows[q], r.col, x) : q \in DOMAIN r.rows}
  IN IF r.type \in {"SubCol", "Doubleton"} THEN Tight(r.rows[1], r.col, x)
     ELSE IF r.type = "FixedCol" THEN r.bound
     ELSE IF r.dir > 0 THEN Max(candidates) ELSE Min(candidates)

\* The other records only matter to the duals.
PrimalTypes == {"SubCol", "Doubleton", "FixedCol", "FixedColInf", "DuplicateColumn"}
Primal(tape) == SelectSeq(tape, LAMBDA r : r.type \in PrimalTypes)
\* What has become of x once n records are undone, last record first.
Rewound(tape, x, n) ==
  LET after[q \in 0..n] ==
        IF q = 0 THEN x
        ELSE LET r == tape[Len(tape) + 1 - q]
                 y == after[q - 1]
             IN IF r.type \in PrimalTypes THEN [y EXCEPT ![r.col] = Replayed(r, y)] ELSE y
  IN after[n]
Replay(tape, x) == Rewound(tape, x, Len(tape))
=============================================================================
