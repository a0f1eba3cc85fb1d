----------------------------- MODULE MCRunLoop -----------------------------
(* RunLoop on small instances; the bounds are in the cfg files.             *)
EXTENDS RunLoop
=============================================================================
