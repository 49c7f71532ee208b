-------------------------- MODULE MCDoubletonTarget --------------------------
(* Model-checking instances of DoubletonTarget.                            *)
EXTENDS DoubletonTarget

Column(c, l, u) == [c |-> c, l |-> l, u |-> u]
Row(lower, upper) == [AL |-> lower, AU |-> upper]

\* Two rows that may both be solved, with a column in common or not.
TwoRows == {<<p, q>> : p \in {<<1, 1, 0>>, <<1, -1, 0>>},
                       q \in {<<0, 1, 1>>, <<1, 1, 0>>, <<0, 1, -1>>, <<1, 1, 1>>}}
FewColumns == {Column(1, 0, 1), Column(-1, -1, Inf)}
FewRows == {Row(1, 1), Row(0, 0), Row(-1, 1)}
=============================================================================
