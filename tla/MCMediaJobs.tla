----------------------------- MODULE MCMediaJobs -----------------------------
(* MediaJobs on a small instance; the bounds are in the cfg files.           *)
EXTENDS MediaJobs
=============================================================================
