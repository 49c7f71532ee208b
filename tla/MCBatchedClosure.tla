-------------------------- MODULE MCBatchedClosure --------------------------
(* Model-checking instances of BatchedClosure.                              *)
EXTENDS BatchedClosure

Column(c, l, u) == [c |-> c, l |-> l, u |-> u]
Row(lower, upper) == [AL |-> lower, AU |-> upper]
\* Equalities and inequalities of either side.
SomeRows == {Row(1, 1), Row(2, Inf), Row(-Inf, 1)}

\* Any signs: free, half-bounded and boxed columns, with and without cost.
TwoColumns ==
  [cols |-> 1..2, coefs |-> -1..1, sides |-> SomeRows,
   columns |-> {Column(0, -Inf, Inf), Column(1, 0, Inf), Column(-1, 0, 2),
                Column(-1, -Inf, Inf), Column(0, -1, 1)}]
\* Rows that outlive a singleton or a fixed column.
ThreeColumns ==
  [cols |-> 1..3, coefs |-> 0..1, sides |-> SomeRows,
   columns |-> {Column(0, -Inf, Inf), Column(1, 0, 2), Column(-1, 0, Inf)}]
SmallFamilies == <<TwoColumns, ThreeColumns>>

\* Columns that a row of the right side lets go upwards to a bound, or
\* without bound, as soon as the other rows are gone.
CascadeFamilies ==
  <<[cols |-> 1..4, coefs |-> 0..1, columns |-> {Column(0, -Inf, 2), Column(0, -2, Inf)},
     sides |-> {Row(2, Inf), Row(-Inf, 1)}]>>

\* One row over two columns, which the rules may leave without rows.
OneRowFamilies ==
  <<[cols |-> 1..2, coefs |-> {1}, sides |-> {Row(1, 1), Row(-Inf, 2)},
     columns |-> {Column(0, -Inf, Inf), Column(1, 0, 2), Column(-1, 0, Inf)}]>>
=============================================================================
