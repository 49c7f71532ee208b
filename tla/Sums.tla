-------------------------------- MODULE Sums --------------------------------
(***************************************************************************)
(* Sums of the entries of a row, a column or a cost vector.                 *)
(***************************************************************************)
EXTENDS Integers

\* The first n entries of t, added up.
Total(t, n) ==
  LET upTo[k \in 0..n] == IF k = 0 THEN 0 ELSE upTo[k - 1] + t[k]
  IN upTo[n]
=============================================================================
