-------------------------- MODULE MCPairComponents --------------------------
(* Model-checking instances of PairComponents.                              *)
EXTENDS PairComponents

Column(c, l, u) == [c |-> c, l |-> l, u |-> u]
Pair(plus, minus) == [plus |-> plus, minus |-> minus]
Row(coef, lower, upper) == [coef |-> coef, AL |-> lower, AU |-> upper]

\* Pairs of the antipodal rule: equal and different lower bounds and caps, and
\* costs that do and do not match.
CostlyPairs ==
  {Pair(Column(1, 0, 1), Column(1, 0, Inf)), Pair(Column(2, 1, Inf), Column(2, 1, 2)),
   Pair(Column(1, 0, 0), Column(1, 0, 2)), Pair(Column(1, 1, 2), Column(1, 0, 2)),
   Pair(Column(2, 0, 2), Column(2, -1, 1)), Pair(Column(1, 0, 1), Column(2, 0, 1))}
\* The same for rows over two pairs; the last of them is no pair row.
TwoPairRows ==
  {Row(<<1, -1, -1, 1>>, 0, 0), Row(<<1, -1, -1, 1>>, 1, 1), Row(<<1, -1, -1, 1>>, -1, Inf),
   Row(<<1, 1, -1, -1>>, 2, 2), Row(<<1, 0, -1, 0>>, 1, Inf), Row(<<0, -1, 0, 1>>, -2, -1),
   Row(<<1, 1, 0, -1>>, 0, 0)}

\* Three pairs joined in one chain or in part.
FewCostlyPairs ==
  {Pair(Column(1, 0, 1), Column(1, 0, Inf)), Pair(Column(2, 1, 2), Column(2, 1, 2))}
ThreePairRows ==
  {Row(<<1, -1, 0, -1, 1, 0>>, 0, 0), Row(<<0, -1, 1, 0, 1, -1>>, 0, 0),
   Row(<<1, 1, 0, -1, -1, 0>>, 2, 2), Row(<<1, 0, -1, -1, 0, 1>>, 1, Inf),
   Row(<<0, 0, 1, 0, 0, -1>>, -1, 0)}

\* Pairs of the Linf rule, none of which has equal bounds but at zero, and one
\* that has.
FreePairs ==
  {Pair(Column(0, 0, 1), Column(0, 0, Inf)), Pair(Column(0, 0, 0), Column(0, 0, 2)),
   Pair(Column(0, -1, 1), Column(0, 0, 2)), Pair(Column(0, -1, 2), Column(0, -1, 1))}
FixedPairs ==
  {Pair(Column(0, 1, 1), Column(0, 0, 2)), Pair(Column(0, 1, 2), Column(0, 0, 2))}
Tails == {Column(1, 0, Inf), Column(1, -1, 2), Column(0, 0, 1)}
EpigraphRowKinds ==
  {Row(<<-1, 0, -1, 0, 1>>, 0, Inf), Row(<<0, -1, 0, -1, 1>>, 0, Inf),
   Row(<<0, -1, 0, -1, 1>>, -1, Inf)}
LinfRowKinds == EpigraphRowKinds \cup
  {Row(<<1, -1, -1, 1, 0>>, 0, 0), Row(<<1, -1, -1, 1, 0>>, 1, 2),
   Row(<<1, 1, -1, -1, 0>>, 2, 2), Row(<<1, 0, -1, 0, 0>>, 1, Inf),
   Row(<<0, 1, 0, -1, 0>>, -Inf, -1)}

Family(pairs, pairKinds, tail, tailKinds, height, rowKinds) ==
  [pairs |-> pairs, pairKinds |-> pairKinds, tail |-> tail, tailKinds |-> tailKinds,
   height |-> height, rowKinds |-> rowKinds]
AllFamilies ==
  <<Family(2, CostlyPairs, 0, {}, 3, TwoPairRows),
    Family(3, FewCostlyPairs, 0, {}, 3, ThreePairRows),
    Family(2, FreePairs, 1, Tails, 4, LinfRowKinds)>>
FixedRootFamilies == <<Family(2, FixedPairs, 1, Tails, 4, LinfRowKinds)>>
=============================================================================
