----------------------------- MODULE DualReplay -----------------------------
(***************************************************************************)
(* The dual pass of postsolve: when all primal values are final the tape is *)
(* replayed once more from its end, for the row duals y and the reduced     *)
(* costs z, and last the reduced costs no record has settled are projected. *)
(*                                                                         *)
(* The pass has the values of the user's columns and the LP of the user,    *)
(* not the LP a record was written on.  A replay state is a record          *)
(* [x, y, z, got]: got are the columns whose z is there (z_retrieved).      *)
(***************************************************************************)
EXTENDS WorkingLp

AtLower(v, lower) == IsFinite(lower) /\ v <= lower
AtUpper(v, upper) == IsFinite(upper) /\ v >= upper
Clamped(v, lo, hi) == Min({hi, Max({lo, v})})
\* c - A'y of a column, over some rows of the LP of the user.
Residual(y, j, rows) == lp.c[j] - Sum(LAMBDA i : lp.a[i][j] * y[i], rows)

-----------------------------------------------------------------------------
(* Duplicate rows: the dual of the kept row is shared with the deleted one. *)
(* The duals a row may have by where its activity is are an interval.       *)

\* _duplicate_row_dual_state, _duplicate_row_state_interval.
Allowed(activity, lower, upper) ==
  [lo |-> IF AtUpper(activity, upper) THEN -Inf ELSE 0,
   hi |-> IF AtLower(activity, lower) THEN Inf ELSE 0]
\* Mutant of LeftByKept: the interval is not turned around by a negative ratio.
LeftByKeptUnsigned(y, ratio, kept) ==
  [lo |-> IF kept.hi = Inf THEN -Inf ELSE ratio * y,
   hi |-> IF kept.lo = -Inf THEN Inf ELSE ratio * y]
\* _duplicate_row_deleted_dual_interval: what leaves the kept row an allowed dual.
LeftByKept(y, ratio, kept) ==
  LET below == IF (IF ratio > 0 THEN kept.hi ELSE -kept.lo) = Inf THEN -Inf ELSE ratio * y
      above == IF (IF ratio > 0 THEN -kept.lo ELSE kept.hi) = Inf THEN Inf ELSE ratio * y
  IN [lo |-> below, hi |-> above]
\* _duplicate_row_scaled_interval: the sides of the deleted row in units of the kept one.
DeletedSides(r) == IF r.ratio > 0 THEN <<r.AL, r.AU>> ELSE <<-r.AU, -r.AL>>
Nested(r) == DeletedSides(r)[1] <= r.keptAL /\ r.keptAU <= DeletedSides(r)[2]

\* _duplicate_row_doc_dual_split: where the merge tightened one side alone, that
\* side's dual goes to the row it came from.
SplitBySide(r, w) ==
  LET lower == DeletedSides(r)[1] > r.keptAL
      upper == DeletedSides(r)[2] < r.keptAU
      crossed == Max({r.keptAL, DeletedSides(r)[1]}) > Min({r.keptAU, DeletedSides(r)[2]})
      y == w.y[r.kept]
  IN IF y = 0 THEN [w EXCEPT !.y[r.deleted] = 0]
     ELSE IF crossed \/ (lower /\ upper) THEN w
     ELSE IF (lower /\ y > 0) \/ (upper /\ y < 0)
     THEN [w EXCEPT !.y[r.kept] = 0, !.y[r.deleted] = r.ratio * y]
     ELSE [w EXCEPT !.y[r.deleted] = 0]

ReplayDuplicateRow(r, w) ==
  LET allowed(i, lower, upper) == Allowed(Activity(lp.a[i], w.x, Cols), lower, upper)
      own == allowed(r.deleted, r.AL, r.AU)
      left == LeftByKept(w.y[r.kept], r.ratio, allowed(r.kept, r.keptAL, r.keptAU))
      lo == Max({own.lo, left.lo})
      hi == Min({own.hi, left.hi})
      share == Clamped(0, lo, hi)
  IN IF Nested(r) THEN [w EXCEPT !.y[r.deleted] = 0]
     ELSE IF lo <= hi
     THEN [w EXCEPT !.y[r.deleted] = share, !.y[r.kept] = @ - share * r.ratio]
     ELSE SplitBySide(r, w)

-----------------------------------------------------------------------------
(* Deleted singleton rows: the row had become bounds of its column, whose   *)
(* reduced cost is divided between the row and the column's own bounds.     *)

\* Mutant of LeftByRow: the sign of the coefficient is forgotten.
LeftByRowUnsigned(r, value, gamma) ==
  [lo |-> IF AtLower(r.coef * value, r.AL) THEN -Inf ELSE gamma,
   hi |-> IF AtUpper(r.coef * value, r.AU) THEN Inf ELSE gamma]
\* The reduced costs that leave the row a dual its activity allows; gamma is
\* what the row and the column have to share.
LeftByRow(r, value, gamma) ==
  LET lower == AtLower(r.coef * value, r.AL)
      upper == AtUpper(r.coef * value, r.AU)
  IN [lo |-> IF IF r.coef > 0 THEN lower ELSE upper THEN -Inf ELSE gamma,
      hi |-> IF IF r.coef > 0 THEN upper ELSE lower THEN Inf ELSE gamma]
\* Of them, those the column's own bounds allow; an inner column has none but
\* zero, and leaves all to the row only when the row cannot do without.
LeftByBounds(row, value, j, gamma) ==
  LET lower == AtLower(value, lp.l[j])
      upper == AtUpper(value, lp.u[j])
      inner == IF (IsFinite(row.lo) /\ row.lo > 0) \/ (IsFinite(row.hi) /\ row.hi < 0)
               THEN gamma ELSE 0
  IN IF ~lower /\ ~upper THEN [lo |-> inner, hi |-> inner]
     ELSE [lo |-> IF lower /\ ~upper THEN Max({row.lo, 0}) ELSE row.lo,
           hi |-> IF upper /\ ~lower THEN Min({row.hi, 0}) ELSE row.hi]

ReplayDeletedRow(r, w) ==
  LET j == r.col
      gamma == Residual(w.y, j, Rows \ {r.row})
      z == LeftByBounds(LeftByRow(r, w.x[j], gamma), w.x[j], j, gamma)
      share == Clamped(w.z[j], z.lo, z.hi)
  IN IF z.lo > z.hi THEN w
     ELSE [w EXCEPT !.z[j] = share, !.y[r.row] = (gamma - share) * r.coef, !.got = @ \cup {j}]

-----------------------------------------------------------------------------
(* The other records.                                                      *)

\* Mutant of Inherited: an upper bound is always inherited.
InheritedUpper(r, x) == AtLower(x, r.newL) => r.newL = r.oldL
\* Whether the bound the kept column is at was its own.
Inherited(r, x) == IF AtLower(x, r.newL) THEN r.newL = r.oldL ELSE r.newU = r.oldU
\* The reduced cost of the kept column goes to the eliminated one when the
\* bound it belongs to came from there (_doubleton_equations_recover_z_split).
\* The other rows of the eliminated column are not on the tape.
ReplayDoubleton(r, w) ==
  LET x == w.x[r.keep]
      total == IF AtLower(x, r.newL) \/ AtUpper(x, r.newU) THEN w.z[r.keep] ELSE 0
      keep == IF Inherited(r, x) THEN total ELSE 0
      elim == IF Inherited(r, x) THEN 0 ELSE total * r.alpha
  IN [w EXCEPT !.y[r.row] = (r.cost - elim) * r.elimVal,
               !.z[r.keep] = keep, !.z[r.col] = elim, !.got = @ \cup {r.keep, r.col}]

\* Mutant of SubColDual: what the kept row has is forgotten.
SubColDualAlone(r, w) == r.cost * r.rows[1].coef[r.col]
\* A row that was kept has a dual already, for the side that stands for the
\* bound of the solved column.
SubColDual(r, w) ==
  (IF r.deleted THEN 0 ELSE w.y[r.row]) + r.cost * r.rows[1].coef[r.col]
ReplaySubCol(r, w) ==
  LET y == SubColDual(r, w)
  IN [w EXCEPT !.y[r.row] = y, !.got = @ \cup {r.col},
               !.z[r.col] = IF r.deleted THEN 0 ELSE r.cost - r.rows[1].coef[r.col] * y]

ReplayFixedCol(r, w) ==
  [w EXCEPT !.z[r.col] = r.cost - Sum(LAMBDA i : r.entries[i] * w.y[i], DOMAIN r.entries),
            !.got = @ \cup {r.col}]
ReplayFixedColInf(r, w) == [w EXCEPT !.z[r.col] = 0, !.got = @ \cup {r.col}]
ReplayDuplicateColumn(r, w) ==
  [w EXCEPT !.z[r.col] = r.ratio * w.z[r.target], !.got = @ \cup {r.col}]

\* A column at a bound that a row implied gives its reduced cost to that row,
\* unless its own other bound can have it.  Row M + 1 is no row.
MovesToRow(r, w) ==
  LET j == r.col
      lower == r.newL > r.oldL
      upper == r.newU < r.oldU
      other == IF lower THEN r.oldU ELSE r.oldL
  IN /\ r.row \in Rows /\ j \in w.got /\ lower # upper
     /\ w.x[j] = IF lower THEN r.newL ELSE r.newU
     /\ lp.a[r.row][j] # 0
     /\ ~(IsFinite(other) /\ w.x[j] = other /\ IF lower THEN w.z[j] <= 0 ELSE w.z[j] >= 0)
\* Mutant of ReplayBoundChange: the other columns of the row keep their reduced costs.
ReplayBoundChangeAlone(r, w) ==
  IF ~MovesToRow(r, w) THEN w
  ELSE [w EXCEPT !.y[r.row] = @ + w.z[r.col] * lp.a[r.row][r.col], !.z[r.col] = 0]
ReplayBoundChange(r, w) ==
  LET moved == w.z[r.col] * lp.a[r.row][r.col]
  IN IF ~MovesToRow(r, w) THEN w
     ELSE [w EXCEPT !.y[r.row] = @ + moved,
                    !.z = [k \in Cols |-> IF k = r.col THEN 0
                                          ELSE IF k \in w.got THEN @[k] - lp.a[r.row][k] * moved
                                          ELSE @[k]]]

ReplayDual(r, w) ==
  CASE r.type = "DuplicateRow" -> ReplayDuplicateRow(r, w)
    [] r.type = "DeletedRow" -> ReplayDeletedRow(r, w)
    [] r.type = "Doubleton" -> ReplayDoubleton(r, w)
    [] r.type = "SubCol" -> ReplaySubCol(r, w)
    [] r.type = "FixedCol" -> ReplayFixedCol(r, w)
    [] r.type = "FixedColInf" -> ReplayFixedColInf(r, w)
    [] r.type = "DuplicateColumn" -> ReplayDuplicateColumn(r, w)
    [] r.type = "BoundChange" -> ReplayBoundChange(r, w)
    [] r.type = "EqToIneq" -> w    \* adds a zero to the dual of its row

-----------------------------------------------------------------------------
(* The whole pass.                                                         *)

\* build_exact_replay_column_mask.
Protected(tape) ==
  LET byRecord == RecordsOf(tape, {"SubCol", "FixedColInf", "DuplicateColumn", "Doubleton"})
  IN {r.col : r \in byRecord} \cup {r.keep : r \in RecordsOf(tape, {"Doubleton"})}
\* _postsolve_project_single_column_dual_from_original.
Projection(w, j) ==
  LET residual == Residual(w.y, j, Rows)
      lower == AtLower(w.x[j], lp.l[j])
      upper == AtUpper(w.x[j], lp.u[j])
  IN IF lower /\ upper THEN residual
     ELSE IF lower THEN Max({residual, 0})
     ELSE IF upper THEN Min({residual, 0}) ELSE 0
Projected(tape, w) ==
  [w EXCEPT !.z = [j \in Cols |-> IF j \in Protected(tape) THEN @[j] ELSE Projection(w, j)]]

\* postsolve_gpu on a point x of the working LP with row duals y and reduced
\* costs z, all zero where the working LP has no row or column.
RecoveredAll(x, y, z) ==
  LET start == [x |-> Recovered(x, z), y |-> y, z |-> z, got |-> current.keepCol]
  IN Projected(current.tape, FoldRight(ReplayDual, current.tape, start))

-----------------------------------------------------------------------------
(* Optimality.                                                             *)

\* A dual d of something with value v between two bounds.
Complementary(v, lower, upper, d) ==
  /\ d > 0 => AtLower(v, lower)
  /\ d < 0 => AtUpper(v, upper)
\* The row duals of the working LP within the width that go with a point.
RowDuals(x, width) ==
  LET duals(i) ==
        IF i \notin current.keepRow THEN {0}
        ELSE LET v == Activity(current.a[i], x, current.keepCol)
             IN {d \in -width..width : Complementary(v, current.AL[i], current.AU[i], d)}
      upTo[n \in 0..M] == IF n = 0 THEN {<< >>}
                          ELSE {Append(y, d) : y \in upTo[n - 1], d \in duals(n)}
  IN upTo[M]
ReducedCosts(y) ==
  [j \in Cols |-> IF j \in current.keepCol
                  THEN current.c[j] - Sum(LAMBDA i : current.a[i][j] * y[i], current.keepRow)
                  ELSE 0]
\* x, y and z are optimal for the LP of the user, x being a point of it.
OptimalForUser(w) ==
  /\ \A i \in Rows : Complementary(Activity(lp.a[i], w.x, Cols), lp.AL[i], lp.AU[i], w.y[i])
  /\ \A j \in Cols : /\ w.z[j] = Residual(w.y, j, Rows)
                     /\ Complementary(w.x[j], lp.l[j], lp.u[j], w.z[j])
=============================================================================
