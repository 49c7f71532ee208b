-------------------------- MODULE MCMapCompaction --------------------------
(* Model-checking instance of MapCompaction; the host stops at pc = "done". *)
EXTENDS MapCompaction
=============================================================================
