------------------------------ MODULE Merging ------------------------------
(***************************************************************************)
(* What a parallel connected-components pass promises: starting from one   *)
(* block per vertex, each step merges two blocks that an edge joins.       *)
(* Nothing else ever happens to the partition.                             *)
(***************************************************************************)
EXTENDS Integers

CONSTANTS Vertices

VARIABLES
  edges,    \* the edges, as a set of pairs <<u, v>>
  blocks    \* a partition of Vertices

vars == <<edges, blocks>>

Init == blocks = {{v} : v \in Vertices}

Merge(B, C) ==
  /\ B # C
  /\ \E e \in edges : {e[1], e[2]} \cap B # {} /\ {e[1], e[2]} \cap C # {}
  /\ blocks' = (blocks \ {B, C}) \cup {B \cup C}
  /\ UNCHANGED edges

Next == \E B, C \in blocks : Merge(B, C)

Spec == Init /\ [][Next]_vars
=============================================================================
