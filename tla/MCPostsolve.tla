---------------------------- MODULE MCPostsolve ----------------------------
(* Model-checking instance of Postsolve.                                   *)
EXTENDS Postsolve
=============================================================================
