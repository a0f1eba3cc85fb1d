------------------------------ MODULE MediaJobs ------------------------------
(***************************************************************************)
(* Pictures and clips as background jobs (media/jobs.rs, the media_jobs    *)
(* rows of db/mod.rs) and the tile the window shows for each               *)
(* (src/lib/store.ts).                                                     *)
(*                                                                         *)
(* A submit writes a row and spawns a worker; the worker, the cancel       *)
(* command and the sweep after a restart all want to close the row, and    *)
(* only the one that finds it running does.  An event on the app's channel *)
(* tells the window; replies of commands travel on another channel, so a   *)
(* job's event may overtake the reply of the submit that started it, or    *)
(* the list of running jobs a window asked for when it opened the chat.    *)
(*                                                                         *)
(* The backends are external: they make a file, fail, or notice the flag   *)
(* between two polls, and they give up after a while.                      *)
(***************************************************************************)
EXTENDS Naturals, FiniteSets

CONSTANTS
    Jobs,         \* the jobs of one conversation
    MaxCrashes,   \* bound: times the app dies
    MaxOpens      \* bound: times the window opens the chat again

ASSUME MediaAssumption == MaxCrashes \in Nat /\ MaxOpens \in Nat

VARIABLES
    row,        \* media_jobs.status, "none" before the insert
    artifact,   \* the jobs whose artifact is recorded
    attached,   \* the jobs whose artifact is attached to their message
    file,       \* the jobs whose file is on disk
    live,       \* LIVE: the jobs with a cancel flag in the map
    flag,       \* the jobs whose flag is set
    worker,     \* run_job of each job
    canceller,  \* cancel() of each job
    up, crashes,
    events,     \* announced and not yet delivered: <<job, status>>
    told,       \* history: everything announced for a job
    reply,      \* the window's submit: "none", "out" or "back"
    tile,       \* what the window shows for the job's turn
    named,      \* the jobs whose id the window's tile knows
    opening,    \* setActiveConversation under way: "no", "read", "listed"
    snap,       \* what it has read: the attached and the running jobs
    opens,
    overtaken   \* history: jobs cancelled after their worker had looked

rows == <<row, artifact, attached, file>>
work == <<live, flag, worker, canceller>>
win  == <<reply, tile, named, opening, snap, opens>>
app  == <<up, crashes>>
vars == <<rows, work, win, app, events, told, overtaken>>

Final == {"done", "failed", "cancelled"}
NoSnap == [attached |-> {}, running |-> {}]

Init ==
    /\ row = [j \in Jobs |-> "none"] /\ artifact = {} /\ attached = {} /\ file = {}
    /\ live = {} /\ flag = {}
    /\ worker = [j \in Jobs |-> "none"] /\ canceller = [j \in Jobs |-> "none"]
    /\ up = TRUE /\ crashes = 0
    /\ events = {} /\ told = [j \in Jobs |-> {}]
    /\ reply = [j \in Jobs |-> "none"] /\ tile = [j \in Jobs |-> "none"] /\ named = {}
    /\ opening = "no" /\ snap = NoSnap /\ opens = 0
    /\ overtaken = {}

-----------------------------------------------------------------------------
(* The job.                                                                *)

\* Mutant: the row is closed whether or not it is still running.
FinishOver(j, status) == row' = [row EXCEPT ![j] = status]

\* finish_media_job: UPDATE ... WHERE status = 'running'.
Finish(j, status) ==
    row' = IF row[j] = "running" THEN [row EXCEPT ![j] = status] ELSE row

\* announce, when the update touched a row.
Announce(j, status) ==
    IF row[j] = "running"
    THEN /\ events' = events \cup {<<j, status>>}
         /\ told' = [told EXCEPT ![j] = @ \cup {status}]
    ELSE UNCHANGED <<events, told>>

\* submit: the row is inserted.  The window shows its tile before it asks; the
\* agent's generate_image tool has none.  A submit that finds no backend makes
\* no row and is not a job.
Submit(j) ==
    /\ up /\ row[j] = "none"
    /\ row' = [row EXCEPT ![j] = "running"]
    /\ \/ /\ reply' = [reply EXCEPT ![j] = "out"]
          /\ tile' = [tile EXCEPT ![j] = "spin"]
       \/ UNCHANGED <<reply, tile>>
    /\ UNCHANGED <<artifact, attached, file, work, app, events, told, named, opening, snap, opens, overtaken>>

\* submit: the flag is put into the map, the worker is spawned, the reply leaves.
Spawn(j) ==
    /\ up /\ row[j] = "running" /\ worker[j] = "none"
    /\ live' = live \cup {j}
    /\ worker' = [worker EXCEPT ![j] = "make"]
    /\ reply' = IF reply[j] = "out" THEN [reply EXCEPT ![j] = "back"] ELSE reply
    /\ UNCHANGED <<rows, flag, canceller, app, events, told, tile, named, opening, snap, opens, overtaken>>

\* generate: nothing when the flag is up before the work, or between two polls;
\* else a file in the media directory, or an error.
Make(j) ==
    /\ up /\ worker[j] = "make"
    /\ \/ j \in flag /\ worker' = [worker EXCEPT ![j] = "nothing"] /\ UNCHANGED file
       \/ worker' = [worker EXCEPT ![j] = "made"] /\ file' = file \cup {j}
       \/ worker' = [worker EXCEPT ![j] = "error"] /\ UNCHANGED file
    /\ UNCHANGED <<row, artifact, attached, live, flag, canceller, win, app, events, told, overtaken>>

\* run_job after generate: the job leaves the map.
LeaveMap(j) ==
    /\ up /\ worker[j] \in {"made", "error", "nothing"} /\ j \in live
    /\ live' = live \ {j}
    /\ UNCHANGED <<rows, flag, worker, canceller, win, app, events, told, overtaken>>

\* run_job looks at the flag: what was made for a cancelled job is removed.
LookCancelled(j) ==
    /\ up /\ worker[j] \in {"made", "error", "nothing"} /\ j \notin live /\ j \in flag
    /\ file' = file \ {j}
    /\ worker' = [worker EXCEPT ![j] = "end"]
    /\ UNCHANGED <<row, artifact, attached, live, flag, canceller, win, app, events, told, overtaken>>

LookGoesOn(j) ==
    /\ up /\ worker[j] \in {"made", "error"} /\ j \notin live /\ j \notin flag
    /\ worker' = [worker EXCEPT ![j] = IF @ = "made" THEN "record" ELSE "fail"]
    /\ UNCHANGED <<rows, live, flag, canceller, win, app, events, told, overtaken>>

\* record: the artifact's insert, which fails the job when it fails.
Record(j) ==
    /\ up /\ worker[j] = "record"
    /\ \/ artifact' = artifact \cup {j} /\ worker' = [worker EXCEPT ![j] = "attach"]
       \/ worker' = [worker EXCEPT ![j] = "fail"] /\ UNCHANGED artifact
    /\ UNCHANGED <<row, attached, file, live, flag, canceller, win, app, events, told, overtaken>>

\* add_attachment: there may be no message to attach to, and an insert that
\* fails is passed over.
Attach(j) ==
    /\ up /\ worker[j] = "attach"
    /\ worker' = [worker EXCEPT ![j] = "close"]
    /\ attached' = attached \cup {j} \/ UNCHANGED attached
    /\ UNCHANGED <<row, artifact, file, live, flag, canceller, win, app, events, told, overtaken>>

CloseDone(j) ==
    /\ up /\ worker[j] = "close"
    /\ Finish(j, "done") /\ Announce(j, "done")
    /\ worker' = [worker EXCEPT ![j] = "end"]
    /\ UNCHANGED <<artifact, attached, file, live, flag, canceller, win, app, overtaken>>

\* fail.
CloseFailed(j) ==
    /\ up /\ worker[j] = "fail"
    /\ Finish(j, "failed") /\ Announce(j, "failed")
    /\ worker' = [worker EXCEPT ![j] = "end"]
    /\ UNCHANGED <<artifact, attached, file, live, flag, canceller, win, app, overtaken>>

\* cancel from a tile that knows its job: the flag is taken from the map; a job
\* that is not there was too late to stop.
CancelTake(j) ==
    /\ up /\ tile[j] = "spin" /\ j \in named /\ j \in live /\ canceller[j] = "none"
    /\ canceller' = [canceller EXCEPT ![j] = "set"]
    /\ UNCHANGED <<rows, live, flag, worker, win, app, events, told, overtaken>>

\* The flag is set, by now perhaps behind the worker's look.
CancelSet(j) ==
    /\ up /\ canceller[j] = "set"
    /\ flag' = flag \cup {j}
    /\ canceller' = [canceller EXCEPT ![j] = "close"]
    /\ overtaken' = IF worker[j] \in {"record", "attach", "close", "fail", "end"}
                    THEN overtaken \cup {j} ELSE overtaken
    /\ UNCHANGED <<rows, live, worker, win, app, events, told>>

\* The row is closed at once, whatever the worker is doing.
CancelClose(j) ==
    /\ up /\ canceller[j] = "close"
    /\ Finish(j, "cancelled") /\ Announce(j, "cancelled")
    /\ canceller' = [canceller EXCEPT ![j] = "end"]
    /\ UNCHANGED <<artifact, attached, file, live, flag, worker, win, app, overtaken>>

-----------------------------------------------------------------------------
(* The app dies and comes back.                                            *)

Crash ==
    /\ up /\ crashes < MaxCrashes
    /\ up' = FALSE /\ crashes' = crashes + 1
    /\ live' = {} /\ flag' = {}
    /\ worker' = [j \in Jobs |-> IF worker[j] = "none" /\ row[j] = "none" THEN "none" ELSE "end"]
    /\ canceller' = [j \in Jobs |-> "none"]
    /\ events' = {}
    /\ reply' = [j \in Jobs |-> "none"] /\ tile' = [j \in Jobs |-> "none"] /\ named' = {}
    /\ opening' = "no" /\ snap' = NoSnap
    /\ UNCHANGED <<rows, told, opens, overtaken>>

\* Mutant: the rows an earlier session left running are left alone.
SweepNothing(r) == r

\* fail_interrupted_media_jobs.
Sweep(r) == [j \in Jobs |-> IF r[j] = "running" THEN "failed" ELSE r[j]]

\* init, on launch.
Restart ==
    /\ ~up /\ up' = TRUE
    /\ row' = Sweep(row)
    /\ UNCHANGED <<artifact, attached, file, work, win, crashes, events, told, overtaken>>

-----------------------------------------------------------------------------
(* The window.                                                             *)

\* applyMediaJobEvent.
Deliver(j, status) ==
    /\ <<j, status>> \in events
    /\ events' = events \ {<<j, status>>}
    /\ tile' = [tile EXCEPT ![j] = status]
    /\ UNCHANGED <<rows, work, app, told, reply, named, opening, snap, opens, overtaken>>

\* startMediaTurn, after the submit has been answered: the tile is put up again
\* with the job's id.
Replied(j) ==
    /\ reply[j] = "back"
    /\ reply' = [reply EXCEPT ![j] = "none"]
    /\ tile' = [tile EXCEPT ![j] = "spin"] /\ named' = named \cup {j}
    /\ UNCHANGED <<rows, work, app, events, told, opening, snap, opens, overtaken>>

\* setActiveConversation: the messages with their attachments are read, then
\* the running jobs, and both are shown in place of what was there.
OpenChat ==
    /\ up /\ opening = "no" /\ opens < MaxOpens
    /\ opening' = "read" /\ opens' = opens + 1
    /\ snap' = [NoSnap EXCEPT !.attached = attached]
    /\ UNCHANGED <<rows, work, app, events, told, reply, tile, named, overtaken>>

ListRunning ==
    /\ up /\ opening = "read"
    /\ opening' = "listed"
    /\ snap' = [snap EXCEPT !.running = {j \in Jobs : row[j] = "running"}]
    /\ UNCHANGED <<rows, work, app, events, told, reply, tile, named, opens, overtaken>>

ShowChat ==
    /\ up /\ opening = "listed"
    /\ opening' = "no" /\ snap' = NoSnap
    /\ tile' = [j \in Jobs |-> IF j \in snap.running THEN "spin"
                               ELSE IF j \in snap.attached THEN "done" ELSE "none"]
    /\ named' = named \cup snap.running
    /\ UNCHANGED <<rows, work, app, events, told, reply, opens, overtaken>>

Worker(j) ==
    \/ Spawn(j) \/ Make(j) \/ LeaveMap(j) \/ LookCancelled(j) \/ LookGoesOn(j)
    \/ Record(j) \/ Attach(j) \/ CloseDone(j) \/ CloseFailed(j)
Canceller(j) == CancelSet(j) \/ CancelClose(j)

Next ==
    \/ \E j \in Jobs :
          \/ Submit(j) \/ Worker(j) \/ CancelTake(j) \/ Canceller(j) \/ Replied(j)
          \/ \E status \in Final : Deliver(j, status)
    \/ Crash \/ Restart \/ OpenChat \/ ListRunning \/ ShowChat

Spec == Init /\ [][Next]_vars

\* A worker and a cancel command go on while the app runs: the backends' calls
\* have a ceiling (poll_until_done, the request timeouts).  The app is started
\* again after it died.
Fairness == WF_vars(Restart) /\ \A j \in Jobs : WF_vars(Worker(j)) /\ WF_vars(Canceller(j))
FairSpec == Spec /\ Fairness

-----------------------------------------------------------------------------
(* Properties.                                                             *)

\* A job has one outcome, whoever gets there first (finish_media_job): what was
\* announced for it is what its row says, a row that is done has its picture,
\* and what was made for a cancelled job is discarded, unless the flag was set
\* only after the worker had looked at it.
OneOutcome ==
    \A j \in Jobs :
        /\ told[j] \subseteq {row[j]}
        /\ row[j] = "done" => j \in artifact /\ j \in file
        /\ row[j] = "cancelled" /\ j \notin overtaken =>
              j \notin artifact /\ (worker[j] = "end" /\ crashes = 0 => j \notin file)

\* No row stays running for ever: not when the worker leaves the row to a cancel
\* command that is still on its way, and not when the app dies under the worker
\* (fail_interrupted_media_jobs).
JobSettles ==
    \A j \in Jobs : row[j] = "running" ~> row[j] # "running"

\* db/mod.rs, fail_interrupted_media_jobs: a placeholder does not spin for ever.
\* Once a job's row is closed and nothing about it is on its way to the window,
\* its tile shows that it has ended.
TileEnds ==
    \A j \in Jobs :
        (/\ row[j] \in Final /\ opening = "no" /\ reply[j] = "none"
         /\ \A status \in Final : <<j, status>> \notin events)
        => tile[j] # "spin"
=============================================================================
