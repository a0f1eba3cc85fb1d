----------------------------- MODULE Scheduler -----------------------------
(***************************************************************************)
(* Scheduled tasks (commands/scheduler.rs).                                  *)
(*                                                                           *)
(* The task list is one setting that every writer reads whole and writes     *)
(* back whole: the commands that create, edit and delete a task, and the     *)
(* bookkeeping at the end of a run.  One slot says which task is running.    *)
(* The ticker and any number of "Run now" commands go through it.  Time is   *)
(* abstracted: a task is due or not, the app has been quiet for two minutes  *)
(* or not.  What a task reads and writes, and its list of past runs, are     *)
(* left out.                                                                 *)
(***************************************************************************)
EXTENDS Naturals

CONSTANTS
    MaxJobs,      \* how many tasks of their own the user makes (bound)
    MaxManual,    \* how many Run now commands (bound)
    MaxEdits,     \* how many edits: creations, updates, deletions (bound)
    MaxCrashes    \* how many deaths of the app (bound)

ASSUME SchedulerAssumption ==
    MaxJobs \in Nat /\ MaxManual \in Nat /\ MaxEdits \in Nat /\ MaxCrashes \in Nat

VARIABLES
    jobs,      \* the stored list (JOBS_KEY)
    slot,      \* SchedulerState.running
    quiet,     \* idle_for(now) >= IDLE_BEFORE_START_MS
    exec,      \* where the ticker (0) and each Run now are in execute_job
    editor,    \* the editing command under way; commands run one at a time
    edits, made, crashes,
    told,      \* history: what the user was last told is in the list
    raced      \* history: the tasks whose last edit was saved while the end of a run
               \* was between its own load_jobs and save_jobs

vars == <<jobs, slot, quiet, exec, editor, edits, made, crashes, told, raced>>
userVars == <<edits, made, told, raced>>

BuiltIn == 0                  \* the daily tidy-up, seeded first
Jobs == 0..MaxJobs            \* list order: a new task goes to the end
Ticker == 0
Execs == 0..MaxManual

\* A task in the list: enabled, next_run_at <= now, and which edit wrote it.
Job(on, d, n) == [enabled |-> on, due |-> d, edit |-> n]
Absent == Job(FALSE, FALSE, 0)
Present(list, j) == list[j] # Absent
View(job) == [enabled |-> job.enabled, edit |-> job.edit]

\* The slot's cancel flag is kept with who raised it.
NoSlot == [exec |-> MaxManual + 1, job |-> BuiltIn, manual |-> FALSE, cancelled |-> {},
           stopped |-> FALSE]
NoList == [j \in Jobs |-> Absent]
NoExec == [pc |-> "idle", job |-> BuiltIn, cut |-> FALSE, unfinished |-> FALSE,
           pressed |-> FALSE, asof |-> NoList]
NoEditor == [op |-> "none", job |-> BuiltIn, enabled |-> FALSE, asof |-> NoList]
-----------------------------------------------------------------------------
\* The app starts with the list an earlier session left.  load_jobs has seeded
\* the built-in task; the user's own come after it.
Init ==
    /\ made \in 0..MaxJobs
    /\ jobs \in [Jobs -> {Absent} \cup {Job(on, TRUE, 1) : on \in BOOLEAN}]
    /\ \A j \in Jobs : Present(jobs, j) <=> j <= made
    /\ slot = NoSlot /\ quiet = FALSE
    /\ exec = [e \in Execs |-> NoExec]
    /\ editor = NoEditor /\ edits = 0 /\ crashes = 0
    /\ told = [j \in Jobs |-> View(jobs[j])] /\ raced = {}

\* save_jobs: the list as it was read, with one task replaced.
Save(asof, j, job) == jobs' = [asof EXCEPT ![j] = job]

\* The first half of a command: load_jobs.  A new task goes to the end of the
\* list; only a task that is there is changed, and the built-in one is not deleted.
EditRead ==
    /\ editor = NoEditor /\ edits < MaxEdits
    /\ \E j \in Jobs, on \in BOOLEAN, op \in {"create", "update", "delete"} :
          /\ op = "create" => j = made + 1
          /\ op # "create" => Present(jobs, j)
          /\ op = "delete" => j # BuiltIn /\ ~on
          /\ editor' = [op |-> op, job |-> j, enabled |-> on, asof |-> jobs]
          /\ made' = IF op = "create" THEN j ELSE made
    /\ edits' = edits + 1
    /\ UNCHANGED <<jobs, slot, quiet, exec, crashes, told, raced>>

\* What the command leaves of the task: one that is switched on is due at once.
Edited ==
    LET was == editor.asof[editor.job] IN
    CASE editor.op = "create" -> Job(editor.enabled, editor.enabled, edits + 1)
      [] editor.op = "update" -> Job(editor.enabled, was.due \/ (editor.enabled /\ ~was.enabled),
                                     edits + 1)
      [] editor.op = "delete" -> Absent

\* The second half: save_jobs, and the answer to the window.
EditSave ==
    /\ editor # NoEditor
    /\ Save(editor.asof, editor.job, Edited)
    /\ told' = [told EXCEPT ![editor.job] = View(Edited)]
    /\ raced' = IF \E e \in Execs : exec[e].pc = "saving" THEN raced \cup {editor.job}
                ELSE raced \ {editor.job}
    /\ editor' = NoEditor
    /\ UNCHANGED <<slot, quiet, exec, edits, made, crashes>>
-----------------------------------------------------------------------------
\* The ticker takes the first task in the list that is enabled and due; the
\* built-in one waits for a quiet app.
Startable(j) == jobs[j].enabled /\ jobs[j].due /\ (j = BuiltIn => quiet)

Tick ==
    /\ exec[Ticker].pc = "idle"
    /\ \E j \in Jobs :
          /\ Startable(j) /\ \A k \in Jobs : k < j => ~Startable(k)
          /\ exec' = [exec EXCEPT ![Ticker].pc = "chosen", ![Ticker].job = j]
    /\ UNCHANGED <<jobs, slot, quiet, editor, userVars, crashes>>

\* run_scheduler_job_now_cmd; each of the bound's commands is used once.
RunNow(e, j) ==
    /\ e # Ticker /\ exec[e] = NoExec /\ told[j].edit > 0
    /\ exec' = [exec EXCEPT ![e].pc = "chosen", ![e].job = j]
    /\ UNCHANGED <<jobs, slot, quiet, editor, userVars, crashes>>

Over(e) == IF e = Ticker THEN NoExec ELSE [NoExec EXCEPT !.pc = "done"]
Ends(e) == exec' = [exec EXCEPT ![e] = Over(e)]

Claimed(e) ==
    /\ slot' = [NoSlot EXCEPT !.exec = e, !.job = exec[e].job, !.manual = (e # Ticker)]
    /\ exec' = [exec EXCEPT ![e].pc = "running", ![e].asof = jobs]

\* Mutant: the slot is taken without a look at who is in it.
ClaimAnyway(e) ==
    /\ exec[e].pc = "chosen" /\ Present(jobs, exec[e].job)
    /\ Claimed(e)
    /\ UNCHANGED <<jobs, quiet, editor, userVars, crashes>>

\* execute_job up to the run: load_jobs, the task may be gone, and the slot taken.
\* What was read of the list is kept in asof until it is read again.
Claim(e) ==
    /\ exec[e].pc = "chosen"
    /\ \/ /\ ~Present(jobs, exec[e].job) \/ slot # NoSlot
          /\ Ends(e) /\ UNCHANGED slot
       \/ /\ Present(jobs, exec[e].job) /\ slot = NoSlot
          /\ Claimed(e)
    /\ UNCHANGED <<jobs, quiet, editor, userVars, crashes>>

\* The run is over: done, skipped by its condition, without an engine, or cut
\* short.  Only the built-in pass reports that it was cut short.
RunEnds(e) ==
    /\ exec[e].pc = "running"
    /\ LET cut == exec[e].job = BuiltIn /\ slot.cancelled # {} IN
       exec' = [exec EXCEPT ![e].pc = "over", ![e].cut = cut]
    /\ UNCHANGED <<jobs, slot, quiet, editor, userVars, crashes>>

\* Mutant: a pass the person stopped is treated like one that input ended.
FinishForgetsStop(e) ==
    /\ exec[e].pc = "over"
    /\ exec' = [exec EXCEPT ![e].pc = "finished", ![e].unfinished = exec[e].cut]
    /\ slot' = NoSlot
    /\ UNCHANGED <<jobs, quiet, editor, userVars, crashes>>

\* Mutant: a run that was stopped does not give its slot back.
FinishKeepsSlot(e) ==
    /\ exec[e].pc = "over"
    /\ exec' = [exec EXCEPT ![e].pc = "finished", ![e].unfinished = exec[e].cut /\ ~slot.stopped]
    /\ slot' = IF slot.stopped THEN slot ELSE NoSlot
    /\ UNCHANGED <<jobs, quiet, editor, userVars, crashes>>

\* finish: the slot is free again, before anything is recorded.
Finish(e) ==
    /\ exec[e].pc = "over"
    /\ exec' = [exec EXCEPT ![e].pc = "finished", ![e].unfinished = exec[e].cut /\ ~slot.stopped]
    /\ slot' = NoSlot
    /\ UNCHANGED <<jobs, quiet, editor, userVars, crashes>>

\* Mutant: the list as it was read before the run is the one written back.
RereadNothing(e) ==
    /\ exec[e].pc = "finished"
    /\ \/ ~Present(jobs, exec[e].job) /\ Ends(e)
       \/ /\ Present(jobs, exec[e].job)
          /\ exec' = [exec EXCEPT ![e].pc = "saving"]
    /\ UNCHANGED <<jobs, slot, quiet, editor, userVars, crashes>>

\* load_jobs once more: the list as it is now, unless the task is gone from it.
Reread(e) ==
    /\ exec[e].pc = "finished"
    /\ \/ ~Present(jobs, exec[e].job) /\ Ends(e)
       \/ /\ Present(jobs, exec[e].job)
          /\ exec' = [exec EXCEPT ![e].pc = "saving", ![e].asof = jobs]
    /\ UNCHANGED <<jobs, slot, quiet, editor, userVars, crashes>>

\* record_run and save_jobs: due again a period from now, or still due.
Record(e) ==
    /\ exec[e].pc = "saving"
    /\ Save(exec[e].asof, exec[e].job, [exec[e].asof[exec[e].job] EXCEPT !.due = exec[e].unfinished])
    /\ Ends(e)
    /\ UNCHANGED <<slot, quiet, editor, userVars, crashes>>
-----------------------------------------------------------------------------
\* Mutant: a key press ends whatever is running.
NoteInputEndsAll ==
    /\ quiet' = FALSE
    /\ slot' = IF slot = NoSlot THEN slot ELSE [slot EXCEPT !.cancelled = @ \cup {"input"}]
    /\ UNCHANGED <<jobs, exec, editor, userVars, crashes>>

\* note_input(true): a key or a click ends a tidy-up that started by itself.
NoteInput ==
    /\ quiet' = FALSE
    /\ slot' = IF slot # NoSlot /\ slot.job = BuiltIn /\ ~slot.manual
               THEN [slot EXCEPT !.cancelled = @ \cup {"input"}] ELSE slot
    /\ UNCHANGED <<jobs, exec, editor, userVars, crashes>>

\* note_input(false): a turn is streaming.
NoteTurn ==
    /\ quiet' = FALSE
    /\ UNCHANGED <<jobs, slot, exec, editor, userVars, crashes>>

\* Mutant: Stop leaves a mark and does not reach the run.
StopMarksOnly ==
    /\ slot # NoSlot
    /\ slot' = [slot EXCEPT !.stopped = TRUE]
    /\ exec' = [exec EXCEPT ![slot.exec].pressed = TRUE]
    /\ UNCHANGED <<jobs, quiet, editor, userVars, crashes>>

\* stop_scheduler_job_cmd.
Stop ==
    /\ slot # NoSlot
    /\ slot' = [slot EXCEPT !.stopped = TRUE, !.cancelled = @ \cup {"stop"}]
    /\ exec' = [exec EXCEPT ![slot.exec].pressed = TRUE]
    /\ UNCHANGED <<jobs, quiet, editor, userVars, crashes>>

\* Stop in a chat, or on the run in the fleet: a custom task's run is a turn of
\* the fleet under the slot's own cancel flag.  The slot's stopped mark stays.
FleetStop ==
    /\ slot # NoSlot /\ slot.job # BuiltIn /\ exec[slot.exec].pc = "running"
    /\ slot' = [slot EXCEPT !.cancelled = @ \cup {"fleet"}]
    /\ UNCHANGED <<jobs, quiet, exec, editor, userVars, crashes>>

\* Two minutes without input; a period has passed.  Neither passes within the
\* few instructions between reading the list and writing it.
QuietAgain ==
    /\ ~quiet /\ quiet' = TRUE
    /\ UNCHANGED <<jobs, slot, exec, editor, userVars, crashes>>

DueAgain(j) ==
    /\ Present(jobs, j) /\ ~jobs[j].due
    /\ editor = NoEditor /\ \A e \in Execs : exec[e].pc # "saving"
    /\ jobs' = [jobs EXCEPT ![j].due = TRUE]
    /\ UNCHANGED <<slot, quiet, exec, editor, userVars, crashes>>

\* The app dies and is started again: the list is what was saved, and starting
\* counts as use.
Crash ==
    /\ crashes < MaxCrashes
    /\ crashes' = crashes + 1
    /\ slot' = NoSlot /\ quiet' = FALSE /\ editor' = NoEditor
    /\ exec' = [e \in Execs |-> IF exec[e] = NoExec THEN NoExec ELSE Over(e)]
    /\ UNCHANGED <<jobs, userVars>>

ExecStep(e) == Claim(e) \/ RunEnds(e) \/ Finish(e) \/ Reread(e) \/ Record(e)

Next ==
    \/ EditRead \/ EditSave
    \/ Tick \/ \E e \in Execs : ExecStep(e) \/ \E j \in Jobs : RunNow(e, j)
    \/ NoteInput \/ NoteTurn \/ Stop \/ FleetStop \/ QuietAgain \/ Crash
    \/ \E j \in Jobs : DueAgain(j)

Spec == Init /\ [][Next]_vars

\* The ticker ticks, and what execute_job has begun goes on: a run of a task has
\* a deadline of ten minutes, the tidy-up a cap.
FairSpec ==
    /\ Spec
    /\ WF_vars(Tick) /\ \A e \in Execs : WF_vars(ExecStep(e))
-----------------------------------------------------------------------------
JobRecs == [enabled : BOOLEAN, due : BOOLEAN, edit : 0..(MaxEdits + 1)]
Lists == [Jobs -> JobRecs]

(* The list, the slot and the tasks; a run that was stopped is also cancelled. *)
TypeOK ==
    /\ jobs \in Lists
    /\ slot \in [exec : 0..(MaxManual + 1), job : Jobs, manual : BOOLEAN,
                 cancelled : SUBSET {"input", "stop", "fleet"}, stopped : BOOLEAN]
    /\ slot.stopped => "stop" \in slot.cancelled
    /\ quiet \in BOOLEAN /\ raced \subseteq Jobs
    /\ exec \in [Execs -> [pc : {"idle", "chosen", "running", "over", "finished", "saving", "done"},
                           job : Jobs, cut : BOOLEAN, unfinished : BOOLEAN, pressed : BOOLEAN,
                           asof : Lists]]
    /\ editor \in [op : {"none", "create", "update", "delete"}, job : Jobs, enabled : BOOLEAN,
                   asof : Lists]
    /\ edits \in 0..MaxEdits /\ made \in 0..MaxJobs /\ crashes \in 0..MaxCrashes
    /\ told \in [Jobs -> [enabled : BOOLEAN, edit : 0..(MaxEdits + 1)]]

(* Concurrency 1: the slot names the one execution that is running a task, and *)
(* is empty when none is (try_start, finish).                                  *)
SlotIsTheRun ==
    \A e \in Execs : exec[e].pc \in {"running", "over"} <=> (slot # NoSlot /\ slot.exec = e)

(* What the user created, edited, switched off or deleted before a task ran or *)
(* while it ran is still so after it ended: the end of a run writes onto the   *)
(* list as it is then, not onto the one it read at its start.  The one way out *)
(* the code leaves: the edit of that task was saved in the moment in which the *)
(* end of some run had read the list and not yet written it back.              *)
EditsSurvive == \A j \in Jobs \ raced : told[j] = View(jobs[j])

(* Typing and clicking never end a run the person asked for, nor one of their  *)
(* own tasks: the cancel flag of such a run is raised by a Stop alone.         *)
InputSparesTheUsersRuns == slot.manual \/ slot.job # BuiltIn => "input" \notin slot.cancelled

(* Stop means stop: a recorded run leaves its task due at once exactly when    *)
(* input cut it short and nobody pressed Stop up to the end of the run.        *)
StopMeansStop ==
    [][\A e \in Execs : (exec[e].pc = "saving" /\ exec'[e].pc \in {"idle", "done"} /\ crashes' = crashes)
          => (jobs'[exec[e].job].due <=> exec[e].cut /\ ~exec[e].pressed)]_vars

(* A task that is due is not stranded: a run starts, or nothing is due any     *)
(* more (the ticker, and the slot given back on every path).                   *)
DueStarts ==
    (\E j \in Jobs \ {BuiltIn} : Startable(j))
        ~> ((\E e \in Execs : exec[e].pc = "running") \/ \A j \in Jobs \ {BuiltIn} : ~Startable(j))
=============================================================================
