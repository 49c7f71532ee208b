------------------------------- MODULE Ranks -------------------------------
(***************************************************************************)
(* Ranks: what the prefix scans of the presolver compute.                  *)
(*                                                                         *)
(* Every compaction (columns, rows, removed columns, fixed values) gives   *)
(* the member j of a set of indices the slot Rank(S, j): an inclusive scan *)
(* over the membership mask.                                               *)
(***************************************************************************)
EXTENDS Naturals, FiniteSets

\* Entry j of the inclusive scan over the mask of S.
Rank(S, j) == Cardinality({h \in S : h <= j})
=============================================================================
