------------------------------ MODULE MCFleet ------------------------------
(* Fleet on small instances; the bounds are in the cfg files.               *)
EXTENDS Fleet
=============================================================================
