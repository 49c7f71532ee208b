------------------------ MODULE MCDoubletonMatching ------------------------
(* Model-checking instances of DoubletonMatching.                          *)
EXTENDS DoubletonMatching

Pair(elim, keep) == [elim |-> elim, keep |-> keep]
\* A path of three columns and a chord, both ways round.
Chains == {Pair(1, 2), Pair(3, 2), Pair(3, 4), Pair(4, 1)}
=============================================================================
