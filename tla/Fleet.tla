------------------------------- MODULE Fleet -------------------------------
(***************************************************************************)
(* The run registry and everything that starts, stops and settles a run:    *)
(*   agent/fleet.rs       Fleet (open, close, cancel_tree, cancel_all)       *)
(*   agent/subagents.rs   delegate, collect_agents                           *)
(*   agent/background.rs  the pool (submit, pump, run_one) and init          *)
(*   db/mod.rs            the subagent_runs rows                             *)
(*   commands/agent.rs    execute_turn, the top-level run                    *)
(*   commands/*.rs        stop_run_cmd, stop_chat_cmd                        *)
(*                                                                           *)
(* A run's own loop is one place ("loop") here; RunLoop.tla models it.       *)
(* The locks that several tasks contend for (the pool's, and the registry's   *)
(* at every turn of a Stop's walk) each guard one step, and anything may     *)
(* happen between two of them.  A row and its handle are written together:   *)
(* no await separates the two writes and no other task writes either, so a   *)
(* thread that looks in between sees a row that is one write ahead, no more. *)
(***************************************************************************)
EXTENDS Naturals, Sequences, FiniteSets, FiniteSetsExt

CONSTANTS
    MaxRuns,        \* how many run ids a behaviour may allocate (bound)
    MaxRoots,       \* how many of them are top-level turns (bound)
    MaxCrashes,     \* how many times the app dies (bound)
    MaxConcurrent,  \* background.rs MAX_CONCURRENT
    MaxParallel,    \* subagents.rs MAX_PARALLEL_CAP
    MaxPerTurn,     \* subagents.rs MAX_PER_TURN
    AllowNested,    \* the setting subagents.allow_nested
    OpenMayFail     \* whether create_conversation can return an error

Runs == 1..MaxRuns
NoRun == 0

ASSUME FleetAssumption ==
    /\ MaxRuns \in Nat /\ MaxRoots \in Nat /\ MaxCrashes \in Nat
    /\ MaxConcurrent \in Nat \ {0}
    /\ MaxParallel \in Nat \ {0} /\ MaxPerTurn \in Nat \ {0}
    /\ AllowNested \in BOOLEAN /\ OpenMayFail \in BOOLEAN

VARIABLES
    up,         \* the process is alive
    crashes,    \* how often it died
    live,       \* Fleet.runs: the ids that have a handle
    parent,     \* RunHandle.parent
    line,       \* every run above this one; its size is RunHandle.depth
    cancelled,  \* RunHandle.cancel
    kind,       \* "root", "fore" or "back": who runs it
    pc,         \* where its task is
    kids,       \* the children of the delegate call in progress, in order
    left,       \* how many children that call has still to open
    bg,         \* whether that call was asked to run them in the background
    outcome,    \* what run_agent returned
    row,        \* subagent_runs.status
    queue,      \* Pool.queue
    running,    \* Pool.running
    lim,        \* the limit a pump() call read from the settings when it began
    walk,       \* a cancel_tree call in progress
    promised    \* history: the runs that were live below a run when Stop was pressed

runVars  == <<live, parent, line, kind>>
poolVars == <<queue, running, lim>>
callVars == <<kids, left, bg>>
stopVars == <<cancelled, walk, promised>>
appVars  == <<up, crashes>>
vars == <<up, crashes, live, parent, line, cancelled, kind, pc, kids, left, bg,
          outcome, row, queue, running, lim, walk, promised>>

Life == INSTANCE ChildLife WITH status <- row

Unfinished == {"running", "queued"}
Finished == {"done", "stopped"}      \* "done" stands for done and error: no step tells them apart
Children(p) == {c \in Runs : parent[c] = p}

\* Places where a run occupies a slot of the pool, from pump's pop to the
\* decrement after run_one.
PoolPlaces == {"popped", "loop", "returned", "closed"}
InSlot == {c \in Runs : kind[c] = "back" /\ pc[c] \in PoolPlaces}

\* A flag lives as long as its handle.
Dropped(S) == [r \in Runs |-> cancelled[r] /\ r \notin S]

Idle == [todo |-> {}, seen |-> {}, at |-> NoRun]
-----------------------------------------------------------------------------
Init ==
    /\ up = TRUE /\ crashes = 0
    /\ live = {}
    /\ parent = [r \in Runs |-> NoRun]
    /\ line = [r \in Runs |-> {}]
    /\ cancelled = [r \in Runs |-> FALSE]
    /\ kind = [r \in Runs |-> "root"]
    /\ pc = [r \in Runs |-> "new"]
    /\ kids = [r \in Runs |-> <<>>]
    /\ left = [r \in Runs |-> 0]
    /\ bg = [r \in Runs |-> FALSE]
    /\ outcome = [r \in Runs |-> "none"]
    /\ row = [r \in Runs |-> "none"]
    /\ queue = <<>> /\ running = 0
    /\ lim = [r \in Runs |-> 0]
    /\ walk = Idle
    /\ promised = {}

\* A fresh id.  Ids are random in the code; handing them out in order loses
\* nothing, because no step depends on which id a run got.
Fresh(r) == pc[r] = "new" /\ \A q \in Runs : q < r => pc[q] # "new"

\* The bound MaxRuns: ids that no delegate call in progress still needs.
Spare == Cardinality({q \in Runs : pc[q] = "new"}) - MapThenSumSet(LAMBDA q : left[q], Runs)
-----------------------------------------------------------------------------
(***************************** top-level turns *****************************)

\* execute_turn (and scheduler::run_job) up to the call of run_agent.
OpenRoot(r) ==
    /\ up /\ Fresh(r) /\ Spare > 0
    /\ Cardinality({q \in Runs : pc[q] # "new" /\ kind[q] = "root"}) < MaxRoots
    /\ live' = live \cup {r}
    /\ pc' = [pc EXCEPT ![r] = "loop"]
    /\ UNCHANGED <<parent, line, kind, outcome, row, callVars, poolVars, stopVars, appVars>>

\* run_agent returned to execute_turn, which closes the run.
CloseRoot(r) ==
    /\ pc[r] = "loop" /\ kind[r] = "root"
    /\ live' = live \ {r}
    /\ cancelled' = Dropped({r})
    /\ pc' = [pc EXCEPT ![r] = "gone"]
    /\ UNCHANGED <<parent, line, kind, outcome, row, callVars, poolVars, walk, promised, appVars>>

(******************************** delegation *******************************)

\* The children of p's delegate call in progress.
InKids(p) == {kids[p][i] : i \in DOMAIN kids[p]}

\* RunLimits.max_depth > 0: a turn may delegate, a foreground child only when
\* nesting is allowed, a background child never.
MayDelegate(p) == \/ kind[p] = "root"
                  \/ kind[p] = "fore" /\ AllowNested

\* Seeded fault: counts only the children still going.
RoomUnfinished(p) == MaxPerTurn - Cardinality({c \in Children(p) : row[c] \in Unfinished})

\* How many more children this turn may have.
Room(p) == MaxPerTurn - Cardinality(Children(p))

\* delegate's guards and caps.  What follows (preparing agent-app tasks, which
\* may wait for the user) happens after the only look at the cancel flag.
DelegateBegin(p) ==
    /\ pc[p] = "loop" /\ MayDelegate(p)
    /\ ~cancelled[p]
    /\ \E n \in 1..MaxParallel : n <= Room(p) /\ n <= Spare /\ left' = [left EXCEPT ![p] = n]
    /\ \E b \in BOOLEAN : bg' = [bg EXCEPT ![p] = b]
    /\ kids' = [kids EXCEPT ![p] = <<>>]
    /\ pc' = [pc EXCEPT ![p] = "opening"]
    /\ UNCHANGED <<outcome, row, runVars, poolVars, stopVars, appVars>>

\* One turn of the loop that opens children: a handle with a flag of its own,
\* then a row.
OpenChild(p, c) ==
    /\ pc[p] = "opening" /\ left[p] > 0 /\ Fresh(c)
    /\ live' = live \cup {c}
    /\ parent' = [parent EXCEPT ![c] = p]
    /\ line' = [line EXCEPT ![c] = line[p] \cup {p}]
    /\ kind' = [kind EXCEPT ![c] = IF bg[p] THEN "back" ELSE "fore"]
    /\ row' = [row EXCEPT ![c] = "running"]
    /\ pc' = [pc EXCEPT ![c] = "opened"]
    /\ kids' = [kids EXCEPT ![p] = Append(@, c)]
    /\ left' = [left EXCEPT ![p] = @ - 1]
    /\ UNCHANGED <<bg, outcome, poolVars, stopVars, appVars>>

\* create_conversation failed: `?` leaves delegate with whatever it had opened.
\* Nobody closes those handles or settles those rows: their children are lost.
OpenFails(p) ==
    /\ OpenMayFail
    /\ pc[p] = "opening" /\ left[p] > 0
    /\ pc' = [r \in Runs |-> IF r = p THEN "loop"
                             ELSE IF r \in InKids(p) THEN "lost" ELSE pc[r]]
    /\ kids' = [kids EXCEPT ![p] = <<>>]
    /\ left' = [left EXCEPT ![p] = 0]
    /\ bg' = [bg EXCEPT ![p] = FALSE]
    /\ UNCHANGED <<outcome, row, runVars, poolVars, stopVars, appVars>>

\* What concurrency_limit may return: the user can set subagents.max_background
\* to anything at any time, and the code clamps it.
Limits == 1..MaxConcurrent

\* Foreground: every child starts, and the lead waits on join_all.
RunTogether(p) ==
    /\ pc[p] = "opening" /\ left[p] = 0 /\ ~bg[p]
    /\ pc' = [r \in Runs |-> IF r = p THEN "joining"
                             ELSE IF r \in InKids(p) THEN "loop" ELSE pc[r]]
    /\ UNCHANGED <<outcome, row, runVars, callVars, poolVars, stopVars, appVars>>

\* Seeded fault: stores the stop reason where the status belongs.
ReturnRaw(c) ==
    /\ pc[c] = "loop" /\ kind[c] # "root"
    /\ outcome' = [outcome EXCEPT ![c] = IF cancelled[c] THEN "aborted" ELSE "done"]
    /\ pc' = [pc EXCEPT ![c] = "returned"]
    /\ UNCHANGED <<row, runVars, callVars, poolVars, stopVars, appVars>>

\* run_agent (or run_external) returned for a child.  It reports "aborted"
\* only when its own flag was tripped; a run that was already writing its
\* answer may still finish after a Stop.
Return(c) ==
    /\ pc[c] = "loop" /\ kind[c] # "root"
    /\ \E s \in Finished : /\ s = "stopped" => cancelled[c]
                           /\ outcome' = [outcome EXCEPT ![c] = s]
    /\ pc' = [pc EXCEPT ![c] = "returned"]
    /\ UNCHANGED <<row, runVars, callVars, poolVars, stopVars, appVars>>

\* Seeded fault: reports as soon as one child has returned.
ReportFirst(p) ==
    /\ pc[p] = "joining"
    /\ \E c \in InKids(p) :
          /\ pc[c] = "returned"
          /\ row' = [row EXCEPT ![c] = outcome[c]]
          /\ live' = live \ {c}
          /\ cancelled' = Dropped({c})
          /\ pc' = [pc EXCEPT ![p] = "loop", ![c] = "gone"]
          /\ outcome' = [outcome EXCEPT ![c] = "none"]
    /\ kids' = [kids EXCEPT ![p] = <<>>]
    /\ UNCHANGED <<left, bg, parent, line, kind, poolVars, walk, promised, appVars>>

\* join_all is done: finish_subagent_run and close for every child in turn.
\* No await separates them, and no other task touches these rows or handles.
ReportBack(p) ==
    /\ pc[p] = "joining"
    /\ \A c \in InKids(p) : pc[c] = "returned"
    /\ row' = [r \in Runs |-> IF r \in InKids(p) THEN outcome[r] ELSE row[r]]
    /\ live' = live \ InKids(p)
    /\ cancelled' = Dropped(InKids(p))
    /\ pc' = [r \in Runs |-> IF r = p THEN "loop"
                             ELSE IF r \in InKids(p) THEN "gone" ELSE pc[r]]
    /\ outcome' = [r \in Runs |-> IF r \in InKids(p) THEN "none" ELSE outcome[r]]
    /\ kids' = [kids EXCEPT ![p] = <<>>]
    /\ UNCHANGED <<left, bg, parent, line, kind, poolVars, walk, promised, appVars>>

\* Background: rows marked queued, the queue extended under the pool's lock;
\* then pump begins by reading the limit.
Submit(p) ==
    /\ pc[p] = "opening" /\ left[p] = 0 /\ bg[p]
    /\ row' = [r \in Runs |-> IF r \in InKids(p) THEN "queued" ELSE row[r]]
    /\ queue' = queue \o kids[p]
    /\ \E n \in Limits : lim' = [lim EXCEPT ![p] = n]
    /\ pc' = [r \in Runs |-> IF r = p THEN "pumping"
                             ELSE IF r \in InKids(p) THEN "queued" ELSE pc[r]]
    /\ kids' = [kids EXCEPT ![p] = <<>>]
    /\ bg' = [bg EXCEPT ![p] = FALSE]
    /\ UNCHANGED <<left, outcome, running, runVars, stopVars, appVars>>

\* collect_agents polls the rows until they have all ended, the lead is
\* stopped, or its own clock runs out.  (A call that asks for some of them only,
\* or not to wait, may return at any time like one that runs out of time.)
CollectBegin(p) ==
    /\ pc[p] = "loop" /\ MayDelegate(p) /\ Children(p) # {}
    /\ pc' = [pc EXCEPT ![p] = "collecting"]
    /\ UNCHANGED <<outcome, row, runVars, callVars, poolVars, stopVars, appVars>>

CollectEnd(p) ==
    /\ pc[p] = "collecting"
    /\ (\E c \in Children(p) : row[c] \in Unfinished) => cancelled[p]
    /\ pc' = [pc EXCEPT ![p] = "loop"]
    /\ UNCHANGED <<outcome, row, runVars, callVars, poolVars, stopVars, appVars>>

CollectTimeout(p) ==
    /\ pc[p] = "collecting"
    /\ pc' = [pc EXCEPT ![p] = "loop"]
    /\ UNCHANGED <<outcome, row, runVars, callVars, poolVars, stopVars, appVars>>
-----------------------------------------------------------------------------
(********************************* the pool ********************************)

\* Seeded fault: keeps one slot free.
CanTakeOffByOne(t) == running + 1 < lim[t] /\ queue # <<>>

CanTake(t) == running < lim[t] /\ queue # <<>>

\* Seeded fault: takes the whole queue and starts its head.
PumpTakeDrains(t) ==
    /\ pc[t] = "pumping" /\ CanTake(t)
    /\ queue' = <<>>
    /\ running' = running + 1
    /\ pc' = [pc EXCEPT ![Head(queue)] = "popped"]
    /\ UNCHANGED <<lim, outcome, row, runVars, callVars, stopVars, appVars>>

\* One turn of pump's loop: pop the front and count it, under the lock.
PumpTake(t) ==
    /\ pc[t] = "pumping" /\ CanTake(t)
    /\ queue' = Tail(queue)
    /\ running' = running + 1
    /\ pc' = [pc EXCEPT ![Head(queue)] = "popped"]
    /\ UNCHANGED <<lim, outcome, row, runVars, callVars, stopVars, appVars>>

\* No room or nothing waiting: pump returns, to the lead or to a task that ends.
PumpDone(t) ==
    /\ pc[t] = "pumping" /\ ~CanTake(t)
    /\ lim' = [lim EXCEPT ![t] = 0]
    /\ pc' = [pc EXCEPT ![t] = IF kind[t] = "back" THEN "gone" ELSE "loop"]
    /\ UNCHANGED <<queue, running, outcome, row, runVars, callVars, stopVars, appVars>>

\* Seeded fault: the early return forgets the slot.
RunOneSkipLeak(c) ==
    /\ pc[c] = "popped" /\ cancelled[c]
    /\ row' = [row EXCEPT ![c] = "stopped"]
    /\ live' = live \ {c}
    /\ cancelled' = Dropped({c})
    /\ pc' = [pc EXCEPT ![c] = "gone"]
    /\ UNCHANGED <<parent, line, kind, outcome, callVars, poolVars, walk, promised, appVars>>

\* run_one finds the handle gone or its flag tripped: the row ends without
\* the child ever having run.
RunOneSkip(c) ==
    /\ pc[c] = "popped"
    /\ c \in live => cancelled[c]
    /\ row' = [row EXCEPT ![c] = "stopped"]
    /\ live' = live \ {c}
    /\ cancelled' = Dropped({c})
    /\ pc' = [pc EXCEPT ![c] = "closed"]
    /\ UNCHANGED <<parent, line, kind, outcome, callVars, poolVars, walk, promised, appVars>>

RunOneStart(c) ==
    /\ pc[c] = "popped" /\ c \in live /\ ~cancelled[c]
    /\ row' = [row EXCEPT ![c] = "running"]
    /\ pc' = [pc EXCEPT ![c] = "loop"]
    /\ UNCHANGED <<outcome, runVars, callVars, poolVars, stopVars, appVars>>

\* run_one's ending: the row, then the handle.
RunOneSettle(c) ==
    /\ pc[c] = "returned" /\ kind[c] = "back"
    /\ row' = [row EXCEPT ![c] = outcome[c]]
    /\ outcome' = [outcome EXCEPT ![c] = "none"]
    /\ live' = live \ {c}
    /\ cancelled' = Dropped({c})
    /\ pc' = [pc EXCEPT ![c] = "closed"]
    /\ UNCHANGED <<parent, line, kind, callVars, poolVars, walk, promised, appVars>>

\* Seeded fault: gives the slot back and does not pump.
ReleaseOnly(c) ==
    /\ pc[c] = "closed"
    /\ running' = running - 1
    /\ pc' = [pc EXCEPT ![c] = "gone"]
    /\ UNCHANGED <<queue, lim, outcome, row, runVars, callVars, stopVars, appVars>>

\* After run_one: give the slot back, then pump again.
Release(c) ==
    /\ pc[c] = "closed"
    /\ running' = IF running = 0 THEN 0 ELSE running - 1
    /\ \E n \in Limits : lim' = [lim EXCEPT ![c] = n]
    /\ pc' = [pc EXCEPT ![c] = "pumping"]
    /\ UNCHANGED <<queue, outcome, row, runVars, callVars, stopVars, appVars>>
-----------------------------------------------------------------------------
(********************************* stopping ********************************)

\* stop_run_cmd: cancel_tree walks from a live run.
StopRun(r) ==
    /\ walk = Idle /\ r \in live
    /\ walk' = [Idle EXCEPT !.todo = {r}]
    /\ promised' = {q \in live : q = r \/ r \in line[q]}
    /\ UNCHANGED <<cancelled, pc, outcome, row, runVars, callVars, poolVars, appVars>>

\* Seeded fault: Stop also closes a run that is still queued.
WalkPopCloses(r) ==
    /\ walk.at = NoRun /\ r \in walk.todo
    /\ cancelled' = [cancelled EXCEPT ![r] = @ \/ r \in live]
    /\ live' = IF pc[r] = "queued" THEN live \ {r} ELSE live
    /\ walk' = [todo |-> walk.todo \ {r}, seen |-> walk.seen \cup {r}, at |-> r]
    /\ UNCHANGED <<parent, line, kind, promised, pc, outcome, row, callVars, poolVars, appVars>>

\* Pop one id and trip its flag, if it still has a handle.  (The order of the
\* stack depends on a hash map; the walk takes any waiting id.)
WalkPop(r) ==
    /\ walk.at = NoRun /\ r \in walk.todo
    /\ cancelled' = [cancelled EXCEPT ![r] = @ \/ r \in live]
    /\ walk' = [todo |-> walk.todo \ {r}, seen |-> walk.seen \cup {r}, at |-> r]
    /\ UNCHANGED <<promised, pc, outcome, row, runVars, callVars, poolVars, appVars>>

\* Seeded fault: a run that has closed meanwhile ends its branch of the walk.
WalkLiveOnly ==
    /\ walk.at # NoRun
    /\ LET todo == (walk.todo \cup {c \in live : parent[c] = walk.at /\ walk.at \in live}) \ walk.seen
       IN /\ walk' = IF todo = {} THEN Idle
                     ELSE [todo |-> todo, seen |-> walk.seen, at |-> NoRun]
          /\ promised' = IF todo = {} THEN {} ELSE promised
    /\ UNCHANGED <<cancelled, pc, outcome, row, runVars, callVars, poolVars, appVars>>

\* children_of, under the lock again: only the runs that are live now.
WalkChildren ==
    /\ walk.at # NoRun
    /\ LET todo == (walk.todo \cup {c \in live : parent[c] = walk.at}) \ walk.seen
       IN /\ walk' = IF todo = {} THEN Idle
                     ELSE [todo |-> todo, seen |-> walk.seen, at |-> NoRun]
          /\ promised' = IF todo = {} THEN {} ELSE promised
    /\ UNCHANGED <<cancelled, pc, outcome, row, runVars, callVars, poolVars, appVars>>

\* stop_chat_cmd: every live run, under one lock.
CancelAll ==
    /\ up /\ \E r \in live : ~cancelled[r]
    /\ cancelled' = [r \in Runs |-> cancelled[r] \/ r \in live]
    /\ UNCHANGED <<walk, promised, pc, outcome, row, runVars, callVars, poolVars, appVars>>
-----------------------------------------------------------------------------
(***************************** crash and restart ****************************)

\* The process dies: handles, flags, tasks and the queue go, rows stay.
Crash ==
    /\ up /\ crashes < MaxCrashes
    /\ up' = FALSE /\ crashes' = crashes + 1
    /\ live' = {}
    /\ cancelled' = [r \in Runs |-> FALSE]
    /\ pc' = [r \in Runs |-> IF pc[r] = "new" THEN "new" ELSE "gone"]
    /\ kids' = [r \in Runs |-> <<>>]
    /\ left' = [r \in Runs |-> 0]
    /\ bg' = [r \in Runs |-> FALSE]
    /\ queue' = <<>> /\ running' = 0
    /\ lim' = [r \in Runs |-> 0]
    /\ walk' = Idle /\ promised' = {}
    /\ outcome' = [r \in Runs |-> "none"]
    /\ UNCHANGED <<parent, line, kind, row>>

\* Seeded fault: settles every row.
BootEveryRow ==
    /\ ~up
    /\ up' = TRUE
    /\ row' = [r \in Runs |-> IF row[r] # "none" THEN "stopped" ELSE row[r]]
    /\ UNCHANGED <<crashes, pc, outcome, runVars, callVars, poolVars, stopVars>>

\* background::init: fail_interrupted_subagent_runs settles what was left.
Boot ==
    /\ ~up
    /\ up' = TRUE
    /\ row' = [r \in Runs |-> IF row[r] \in Unfinished THEN "stopped" ELSE row[r]]
    /\ UNCHANGED <<crashes, pc, outcome, runVars, callVars, poolVars, stopVars>>
-----------------------------------------------------------------------------
RunStep(r) ==
    \/ CloseRoot(r) \/ RunTogether(r) \/ Return(r) \/ ReportBack(r) \/ Submit(r)
    \/ (\E c \in Runs : OpenChild(r, c)) \/ OpenFails(r)
    \/ CollectEnd(r) \/ PumpTake(r) \/ PumpDone(r)
    \/ RunOneSkip(r) \/ RunOneStart(r) \/ RunOneSettle(r) \/ Release(r)

Next ==
    \/ \E r \in Runs : \/ RunStep(r) \/ OpenRoot(r) \/ DelegateBegin(r)
                       \/ CollectBegin(r) \/ CollectTimeout(r)
                       \/ StopRun(r) \/ WalkPop(r)
    \/ WalkChildren \/ CancelAll \/ Crash \/ Boot

Spec == Init /\ [][Next]_vars

\* Every task is scheduled and every run ends by itself (RunLoop's step
\* budget).  Nothing obliges the model to delegate or the user to press Stop.
FairSpec == Spec /\ (\A r \in Runs : WF_vars(RunStep(r)) /\ WF_vars(WalkPop(r)))
                 /\ WF_vars(WalkChildren) /\ WF_vars(Boot)
-----------------------------------------------------------------------------
(******************************** properties *******************************)

Places == {"new", "loop", "opening", "joining", "collecting", "pumping", "opened",
           "lost", "queued", "popped", "returned", "closed", "gone"}

\* Types of the registry, the pool, the rows and the walk.
TypeOK ==
    /\ up \in BOOLEAN /\ crashes \in 0..MaxCrashes
    /\ live \subseteq Runs
    /\ parent \in [Runs -> Runs \cup {NoRun}]
    /\ line \in [Runs -> SUBSET Runs]
    /\ cancelled \in [Runs -> BOOLEAN]
    /\ kind \in [Runs -> {"root", "fore", "back"}]
    /\ pc \in [Runs -> Places]
    /\ kids \in [Runs -> Seq(Runs)]
    /\ left \in [Runs -> 0..MaxParallel]
    /\ bg \in [Runs -> BOOLEAN]
    /\ outcome \in [Runs -> {"none"} \cup Finished]
    /\ row \in [Runs -> {"none"} \cup Unfinished \cup Finished]
    /\ queue \in Seq(Runs)
    /\ running \in 0..MaxConcurrent
    /\ lim \in [Runs -> 0..MaxConcurrent]
    /\ walk \in [todo : SUBSET Runs, seen : SUBSET Runs, at : Runs \cup {NoRun}]
    /\ promised \subseteq Runs

\* Pool.running counts exactly the tasks between pump's pop and the decrement
\* after run_one, on every path through run_one, and whatever the setting was
\* changed to it never passes MAX_CONCURRENT.
PoolAccounting == running = Cardinality(InSlot) /\ running <= MaxConcurrent

\* pump has no timer: while a child waits, some task holds a slot (and will
\* pump when it gives it back) or is inside pump right now.
NoStrandedQueue == queue # <<>> => \E t \in Runs : t \in InSlot \/ pc[t] = "pumping"

\* background.rs: "a queued child must be visible and stoppable while it
\* waits": everything in the queue, once each, has a handle and a row that
\* says queued; so run_one never finds a handle gone.
QueuedStoppable ==
    /\ \A i, j \in DOMAIN queue : queue[i] = queue[j] => i = j
    /\ \A i \in DOMAIN queue : pc[queue[i]] = "queued"
    /\ \A c \in Runs : pc[c] \in {"queued", "popped"} => c \in live /\ row[c] = "queued"

\* Who will settle a child's row: the delegate call that opened it, the pool's
\* queue, or the task in its slot.
Attended(c) ==
    \/ c \in InKids(parent[c])
    \/ \E i \in DOMAIN queue : queue[i] = c
    \/ c \in InSlot

\* db/mod.rs: an unfinished row "means a child that is genuinely still working".
\* A child's row is unfinished exactly while it has a handle, and then somebody
\* has the child in hand, after a restart too.  The one exception the code makes
\* is named: children of a delegate call that failed to open a later one.
RowMatchesHandle ==
    up => \A c \in Runs : kind[c] # "root" =>
            /\ c \in live <=> row[c] \in Unfinished
            /\ row[c] \in Unfinished => Attended(c) \/ pc[c] = "lost"

\* A foreground child runs only inside its lead's delegate call: until the row
\* and the handle are settled, the lead is alive and waiting on it.
LeadWaits ==
    \A c \in Runs : kind[c] = "fore" /\ pc[c] \in (Places \ {"new", "opened", "lost", "gone"}) =>
        /\ parent[c] \in live
        /\ pc[parent[c]] = "joining"
        /\ c \in InKids(parent[c])

\* delegate's caps across any number of calls in one turn: at most
\* MAX_PER_TURN children, and without nesting nothing below a child.
DelegationBounded ==
    \A p \in Runs :
        /\ Cardinality(Children(p)) <= MaxPerTurn
        /\ ~AllowNested => Cardinality(line[p]) <= 1

\* A Stop on one run, when its walk is over, has tripped the flag of every run
\* that was live below it when it was pressed, or that run has ended: however
\* runs open, end and queue while cancel_tree walks from lock to lock.
StopReachesAll ==
    [][walk # Idle /\ walk' = Idle => \A r \in promised : cancelled'[r] \/ r \notin live']_vars

\* fleet.rs: "Stop a run and everything it started."  No run goes on untripped
\* below a run that was stopped.
NoOrphans ==
    walk = Idle => \A r \in live : \A a \in line[r] \cap live : cancelled[a] => cancelled[r]

\* A row ends once, with a final status, and only from the states the
\* database's contract allows: this module implements ChildLife.
ChildRowsFollowTheirLife == Life!Spec

\* A child that was opened ends, through its lead's call, the pool, a Stop, a
\* change of the limit or a restart, unless its opening call failed.
EveryChildEnds ==
    \A c \in Runs : row[c] \in Unfinished ~> (row[c] \in Finished \/ pc[c] = "lost")
=============================================================================
