--------------------------- MODULE MCPresolveLoop ---------------------------
(* Model-checking instances of PresolveLoop.                                *)
EXTENDS PresolveLoop

Column(c, l, u) == [c |-> c, l |-> l, u |-> u]
Row(lower, upper) == [AL |-> lower, AU |-> upper]

\* All matrices with coefficients in coefs over the given rows and columns.
Matrices(rows, cols, coefs) ==
  {[i \in Rows |-> [j \in Cols |-> IF i \in rows /\ j \in cols THEN b[i][j] ELSE 0]] :
     b \in [rows -> [cols -> coefs]]}
Padded(row) == [j \in Cols |-> IF j \in DOMAIN row THEN row[j] ELSE 0]
\* The first rows of a matrix, the others being empty.
Stacked(b) == [i \in Rows |-> Padded(IF i \in DOMAIN b THEN b[i] ELSE << >>)]

\* Every matrix of two rows and columns: half-bounded and boxed columns,
\* equalities and one side, through every sequence of phases.
Small ==
  [matrices |-> Matrices(1..2, 1..2, -1..1), cols |-> 1..2, rows |-> 1..2,
   columns |-> {Column(1, 0, Inf), Column(-1, -Inf, 1), Column(0, -1, 1)},
   sides |-> {Row(1, 1), Row(-1, Inf)},
   enabled |-> RowPhases \cup ColPhases \cup {"redundantBounds"}, phases |-> 3]

\* Chains of three duplicate columns, all under one hash.
ParallelColumns ==
  [matrices |-> Matrices(1..1, 1..3, -1..1), cols |-> 1..3, rows |-> 1..1,
   columns |-> {Column(1, 0, 1), Column(-1, -1, Inf), Column(1, -Inf, 0)},
   sides |-> {Row(1, 1), Row(-Inf, 1)},
   enabled |-> {"duplicateCols", "dualInfer", "singletonEq", "fixedCols", "emptyCols"},
   phases |-> 3]

\* Three rows, parallel ones with nested, crossing and disjoint sides, under
\* one hash with rows that are not parallel.
ParallelThree ==
  [matrices |-> Matrices(1..3, 1..2, {-1, 1}), cols |-> 1..2, rows |-> 1..3,
   columns |-> {Column(1, -1, 1), Column(-1, 0, Inf)},
   sides |-> {Row(1, 1), Row(-1, 1), Row(-2, 0)},
   enabled |-> {"duplicateRows", "redundantRows", "trivialRows", "trivialCols"},
   phases |-> 3]

\* Bounds implied by two rows: boxed, half-bounded and free columns.
Bounds ==
  [matrices |-> {Stacked(<<p, q>>) : p \in {<<1, 1>>, <<1, -1>>}, q \in [1..2 -> -1..1]},
   cols |-> 1..2, rows |-> 1..2,
   columns |-> {Column(1, 0, 2), Column(-1, -Inf, 1), Column(0, -Inf, Inf)},
   sides |-> {Row(1, 1), Row(-1, 2), Row(2, Inf)},
   enabled |-> {"impliedBounds"}, phases |-> 1]
\* Chains over three columns: the bound of one gives that of the next.
BoundChains ==
  [matrices |-> {Stacked(<<p, q>>) : p \in {<<1, 1, 0>>, <<1, 1, 1>>},
                                     q \in {<<0, 1, 1>>, <<1, 1, 1>>, <<0, 0, 1>>}},
   cols |-> 1..3, rows |-> 1..2,
   columns |-> {Column(0, -Inf, Inf), Column(0, -1, 1), Column(1, -Inf, 1)},
   sides |-> {Row(0, 1), Row(2, Inf)},
   enabled |-> {"impliedBounds"}, phases |-> 1]

\* Two pivots that share a column or do not, and a row over some columns.
TwoPivots ==
  [matrices |-> {Stacked(<<p, q, r>>) :
                   p \in {<<1, 1, 0, 0>>, <<-1, 1, 0, 0>>},
                   q \in {<<0, 0, 1, 1>>, <<0, 1, -1, 0>>},
                   r \in {<<1, 1, 1, 1>>, <<0, 1, 0, 0>>}},
   cols |-> 1..4, rows |-> 1..3,
   columns |-> {Column(1, 0, 1), Column(-1, -1, Inf)}, sides |-> {Row(1, 1), Row(-1, 1)},
   enabled |-> {"doubletons"}, phases |-> 1]
\* A pivot and any other row, over columns with any bounds.
OnePivot ==
  [matrices |-> {Stacked(<<p, q>>) : p \in {<<1, 1, 0>>, <<1, -1, 0>>}, q \in [1..3 -> 0..1]},
   cols |-> 1..3, rows |-> 1..2,
   columns |-> {Column(1, 0, Inf), Column(-1, -1, 1), Column(2, -Inf, 0)},
   sides |-> {Row(1, 1), Row(-Inf, 1)},
   enabled |-> {"doubletons"}, phases |-> 1]

\* All kinds of routines in turn on one LP.
Mixed ==
  [matrices |-> {Stacked(<<p, q>>) : p \in {<<1, 1, 0>>, <<1, -1, 1>>},
                                     q \in {<<1, 1, 1>>, <<1, -1, 0>>}},
   cols |-> 1..3, rows |-> 1..2,
   columns |-> {Column(-1, -1, 1), Column(1, 0, Inf)},
   sides |-> {Row(1, 1), Row(-1, 1)},
   enabled |-> {"impliedBounds", "doubletons", "duplicateCols", "singletonEq", "dualFix",
                "trivialCols", "redundantBounds"},
   phases |-> 3]

AllFamilies ==
  <<Small, ParallelColumns, ParallelThree, Bounds, BoundChains, TwoPivots, OnePivot, Mixed>>
=============================================================================
