------------------------------ MODULE MCEngine ------------------------------
(* Engine on small instances; the bounds are in the cfg files.              *)
EXTENDS Engine
=============================================================================
