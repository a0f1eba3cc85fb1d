----------------------------- MODULE MCSessions -----------------------------
(* Sessions on small instances; the bounds are in the cfg files.            *)
EXTENDS Sessions
=============================================================================
