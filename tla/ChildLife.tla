----------------------------- MODULE ChildLife -----------------------------
(***************************************************************************)
(* What the database promises about one delegated child                     *)
(* (db/mod.rs: create_subagent_run, set_subagent_status,                    *)
(* finish_subagent_run): its row is created running, may wait in the pool's  *)
(* queue, and ends exactly once, with a status that is then final.  A child  *)
(* that is still waiting when it ends never did any work, so it can only     *)
(* end as "stopped".                                                         *)
(***************************************************************************)
EXTENDS Naturals

CONSTANT Runs
VARIABLE status     \* status[r]: the row's status column, "none" when no row

Unfinished == {"running", "queued"}
Finished == {"done", "stopped"}      \* "done" stands for done and error

\* The moves one row may make.
Moves ==
    {<<"none", "running">>, <<"running", "queued">>, <<"queued", "running">>,
     <<"queued", "stopped">>} \cup ({"running"} \X Finished)

Init == status = [r \in Runs |-> "none"]

\* Several rows may move at once: a lead settles all its children together,
\* and start-up settles every row a crash left unfinished.
Next ==
    /\ status' \in [Runs -> {"none"} \cup Unfinished \cup Finished]
    /\ \A r \in Runs : \/ status'[r] = status[r]
                       \/ <<status[r], status'[r]>> \in Moves

Spec == Init /\ [][Next]_status
=============================================================================
