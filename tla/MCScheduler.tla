---------------------------- MODULE MCScheduler ----------------------------
(* Scheduler on a small instance; the bounds are in the cfg file.           *)
EXTENDS Scheduler
=============================================================================
