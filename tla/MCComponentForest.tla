------------------------- MODULE MCComponentForest -------------------------
(* An instance of ComponentForest small enough for TLC.                    *)
EXTENDS ComponentForest
=============================================================================
