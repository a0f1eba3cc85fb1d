# Poiesis: a TLA+ model of its agent core

Poiesis is a desktop assistant (Tauri: a Rust back end under `src/src-tauri`, a
React window under `src/src`). A person types a turn; the back end runs a model in
a loop of requests and tool calls, may hand parts of the work to child agents, keeps
a log from which an interrupted run can be picked up, and does work of its own on a
schedule. This project models the part in which runs start, take steps, stop, fail
and are resumed, checks it with TLC on small instances and proves the central
invariants with TLAPS for every value of the constants.

## 1. Inventory

| component | source | state | operations | what makes it correct |
|---|---|---|---|---|
| fleet | `agent/fleet.rs` | handles by run id: parent, depth, cancel flag, steer inbox | open, close, children_of, cancel_tree, cancel_all, steer | a Stop reaches all that was running below; a handle exists exactly while the run can be stopped |
| delegation | `agent/subagents.rs` | the children of a call in progress | delegate, collect_agents | caps hold over many calls; a lead waits for the children it joined |
| background pool | `agent/background.rs` | slot count, queue | submit, pump, run_one, init | slots are neither leaked nor doubled; the queue drains without a timer |
| child rows | `db/mod.rs` (`subagent_runs`) | status per child | create, set status, finish, settle at start | a row ends once and never changes after; a restart leaves none unfinished |
| run loop | `agent/run.rs` | transcript, watermark, five counters, wrap-up flag, batch | six phases per turn, `end` | bounded, ends, obeys Stop, each call answered once, all that was sent is logged |
| session log | `agent/log.rs`, `db/mod.rs` (`session_events`) | rows per conversation, tagged with run and kind | append, replay, outward_done, last_logged_run, record_decision | replay is what the model was sent |
| turns | `agent/turn.rs`, `commands/agent.rs` | the assistant message and its stop_reason | run_turn, resume_turn, execute_turn, finalize | a resumed run loses nothing and repeats nothing that left the machine |
| branching | `db/mod.rs` (`fork_conversation_at`) | copies of messages and rows | fork | a branch goes on as the original would |
| window | `lib/store.ts`, `AgentRun.tsx` | busy, which turn may be continued | send, resume, branch, stop | "continue" means the run at the end |
| answer check | `agent/autocheck.rs` | sentences waiting to be checked | feed, finish, abandon | outlives its run without disturbing the log |
| engine | `runtime/manager.rs`, `watchdog.rs`, `window.rs` | engine process, generation, last working configuration, restart history | load, stop, health check, heal | a repair yields to the user; no engine is left unwatched; a dead one is noticed |
| scheduler | `commands/scheduler.rs` | the task list (one setting), one run slot, time of the last input | tick, run now, stop, input, edit | one task at a time; an edit during a run survives; Stop means stop |
| media jobs | `media/jobs.rs`, `db/mod.rs` (`media_jobs`), `store.ts` | live flags, job rows, the window's tile | submit, cancel, finish, sweep at start | one outcome per job; nothing runs or spins for ever |
| permissions, questions | `permissions/mod.rs` | pending one-shot answers | open, resolve, give up with the run | an answer starts at most what was asked; Stop frees the run |
| connector gate | `agent/connector_gate.rs`, `app_calls.rs`, `mail.rs` | policies per app, rungs, the day's count of sends, parked calls | plan, weigh, ask, count, call; accept, dismiss; settings | the cap holds; a no is final; "always" changes one word |
| decision engine | `agent/decide/*`, `runtime/decideserver.rs` | lane, budgets, calibration | ask, settle, check turn | hot asks before checks; a budget per turn |
| file changes | `agent/trash.rs`, `ledger.rs`, `rewind.rs` | blobs and entries | record, undo, prune | undo restores what was there |
| scripts | `agent/coderun.rs`, `toolrpc.rs` | a gate per script | call, refuse | a script gets no more than its run |
| agent apps | `engines/*` | an external agent's session | run, approve | an approval answers the right request |

Left aside: retrieval and ranking, prompts and memory text, browser, IMAP and network
I/O, downloads, catalogs, voice audio, telemetry and the rendering of the window.
`PROJECT.json` lists every component with its status and reason.

**How they interact.** `turn.rs` saves the assistant message, `commands/agent.rs`
opens a handle in the fleet and runs the loop of `run.rs`; the loop writes to the log
and dispatches tools, one of which is `delegate`; that opens more handles, runs the
children inside its own future (foreground) or hands them to the pool (background).
The window reaches a run in progress only through its handle: Stop sets flags, a steer
goes into the inbox. After a restart only the database is left: `background::init`
settles child rows, `media::jobs::init` settles media rows, and the window offers to
continue a run by its saved stop_reason. A tool call that leaves the machine passes the
connector gate, which may ask the person (a one-shot channel the window resolves) or,
when nobody is there, park the call in the inbox of proposals. The scheduler starts runs
nobody is watching; the model they use is the engine that loads, Stops and the watchdog
fight over.

**What is hard.** A Stop is a walk over a registry that changes underneath; the pool
has no timer; the log is written in a few places of a loop that also rewrites its
transcript; a crash can fall between two inserts; a resumed run is a new run whose
prompt is the old one's replay; a branch copies rows with their run ids; checks of an
answer write to the log after the run. A load and a repair of the engine take minutes
without a lock, and only a generation number keeps them apart; the task list, the app
policies and the inbox rows are read, decided on and written in separate statements,
some with a network call or a person's answer in between; a job's event and the reply
of the command that started it travel on different channels. `PROJECT.json` "hazards" lists each at its line.

## 2. Modules

| module | models | composed with |
|---|---|---|
| `ChildLife` | the contract of a child's row: created running, may queue, ends once | abstract specification of `Fleet` |
| `Fleet` | registry, delegation, pool, rows, Stop, crash and restart | instances `ChildLife` with `status <- row` |
| `RunLoop` | one run's loop, its inbox and its log rows | |
| `Sessions` | conversations, log, turns, resume, branching, late decision rows | a run reduced to what it logs |
| `Engine` | the engine's slot, loads, Stops, watchdogs and repairs | the child process is external |
| `Scheduler` | the task list and its writers, the run slot, ticker, Run now, Stop, input | a run reduced to whether it was cut short |
| `Gate` | connector gate, permission panel, mail's rung, inbox of parked calls, settings | the app servers and the mail host are external |
| `MediaJobs` | job rows, workers, cancel, restart, events and the window's tile | the backends are external |
| `FleetProofs`, `RunLoopProofs`, `SessionsProofs`, `EngineProofs`, `SchedulerProofs`, `GateProofs`, `MediaJobsProofs` | theorems | extend the module of their name |
| `FlattenProofs` | induction over the naturals, what `FlattenSeq` gives, prefixes | extended by `RunLoopProofs` and `SessionsProofs` |
| `MCFleet`, `MCRunLoop`, `MCSessions`, `MCEngine`, `MCScheduler`, `MCGate`, `MCMediaJobs` | instances for TLC | |

### Fleet
A run is a number; `pc` says where its task is: `loop` (its own loop, see RunLoop),
`opening`, `joining` and `collecting` (inside delegate or collect_agents), `opened`,
`lost` (opened by a delegate call that then failed to open another), `queued`, `popped`,
`returned`, `closed`, `pumping`, `gone`. `live` is the
registry, `row` the database, `queue` and `running` the pool. A step is what the code
does under one lock or between two awaits; where the code writes a row and opens or
closes the handle with no await in between, the two are one step. `pump` is a loop of
steps: each reads the pool under its lock, and the limit (`lim`) is the one read from
the settings at its start, any value the setting can have. `cancel_tree` is a walk
(`walk`): pop a run and set its flag, then read its children, with anything in between.
Its stack is a set, since no property depends on the order. `Crash` drops all but rows;
`Boot` is `init`. `promised` is a history variable: what was live below a run when Stop
was pressed on it. "done" stands for done and error, which no step tells apart. `Attended`
says who has a child in hand: its lead's call, the queue, or a task in a slot.

### RunLoop
A phase is a step, named as in `run.rs`. The model's answer is chosen freely: calls,
narration, nothing, an answer with an open plan or unchecked edits, a failure. A batch
starts its reads together (`StartReads`), the other calls in order (`StartNext`), each
returns on its own (`FinishCall`), and `Record` writes all results in call order,
including those of calls that never ran. `Prepare` is `prepare_turn`: flush, Stop
check, drain the steers, test the budget, flush, make room by clearing old results.
A message is its kind and a number. `Crash` may cut the flush of pending rows anywhere
(the log keeps a prefix of them). `sent` is a history variable: the last request.

### Sessions
`rows[c]` are the log rows of conversation c in seq order; `turns[c]` its assistant
messages with the saved stop_reason, reduced to "over" (completed, error) and "cut"
(aborted, timeout, max_steps), as only that decides whether Continue is offered. A flush
is one insert per step. `EventsForRun` selects by run id over all conversations, as the
SQL does. `Cut` is where a branch cuts the log. `checks` holds the runs whose answer is
being checked in the background. `NoModel` is a turn for which no engine could be
resolved: it saves an empty assistant row. Whether a run has said something when it ends
is fixed by how it ends (nothing when stopped between two turns, something otherwise);
both happen, and no guard reads it. A send is a call that `outward_of` takes for one. It
comes back done or as an error (a time limit and a Stop included), or is under way when the
app dies (`UnderWay`). History: `seen` (what a run last sent), `from` (what it was resumed
from), `world` (every send that may have left, with how it came back: "ok", "err", "lost").

### Engine
A step is what `load_with_window`, `load_model`, `stop`, `heal` and the watchdog's loop
do between two awaits or under one lock. `stop` is two steps (advance the generation,
then empty the slot under its lock), inside a load as in `stop_engine_cmd`. A load may
die while starting and try a smaller window, fail for good, or answer; the child then
goes into the slot, last_config is set, the history forgiven and a watchdog spawned,
each a step of its own. A watchdog compares its generation, looks at the slot, and gets
the answer of its request later, by which time the slot may hold something else.
`heal` reads the generation, spends the budget (which earlier restarts have aged out of
the rolling hour is free), sleeps, checks, reaps, starts, and puts the child back under
the lock if the generation is still the one it read. `EngineDies` may fall anywhere. A
child carries who put it there and for which generation; `proven` (configurations that
once answered) and `overlaps` (loads under way together) are history.

### Scheduler
`jobs` is the stored list; every writer reads it whole (`EditRead`, `Reread`) and writes
it whole (`Save`), with anything in between. `exec[0]` is the ticker, the others Run now
commands: choose, `Claim` the slot (having read the list), run, `Finish` (the slot is given
back and says whether Stop was pressed), `Reread`, `Record`. The slot's cancel flag is kept
with who raised it, input, Stop, or a Stop in a chat or in the fleet (`FleetStop`), where a
run of the person's task is a turn under the same flag. Time is two facts, a task is due and the app
has been quiet. Which tasks exist at the start, on or off, is free. `told` is what the
person was last told is in the list; `raced` are the tasks whose last edit was saved between a
`Reread` and its `Record`, the one moment in which the code loses it.

### Gate
A call is a batch of app tools. `Plan` computes, per app, the strictest kind and the
number of sends (`PartsOf`), a quick decision having perhaps raised some to a send, but none
whose kind the person set (`MayRaise`). A connector of its own (`Plain`) is a batch of one,
and its accepted send counts as one by the kind the card was left with, where a Composio
batch is counted by the kinds its tools have then. (In the code a plain tool's kind is
looked up when the run starts; the model takes the one it has when the call is planned.) The
weighing is one step: the statements it makes only read, and what it read is kept in the
call (`held`, `seen`) since it may be old when used: when the sends are counted, and
when "always" writes the policies back. A question waits in `pending`; a run that is
stopped gives it up, which leaves the sender in the map, so a late answer goes nowhere.
`SendMail` is the other way out, with a rung of its own. A parked call is accepted by
commands that may be under way together: read the row, count and call, close the row.
`Settings`, corrections of a tool's kind and rungs change at any time. `AutoKind` stands
for what `classify` makes of a tool's name. History: `ran`, `left`, `quiet` (sends
counted without a question), `top`, `told`, `blurred`, `refused`.

### MediaJobs
A job's row is closed by whoever finds it running: its worker, the cancel command or the
sweep at start (`Finish`, `Sweep`). The worker makes a file or fails, leaves the map of
live jobs, looks at the cancel flag, records the artifact, attaches it to the message (a
failure of the first fails the job, one of the second is passed over), closes; the cancel takes the flag from the
map, sets it and closes the row, each a step. `events` are announced and not delivered,
`reply` is the answer to the window's submit, and they may overtake each other, as may
the list of running jobs that a window asks for when it opens a chat.

## 3. Runs

| run | expects | states | shows |
|---|---|---|---|
| `Fleet` | pass | 147,164 | all fleet properties, liveness included |
| `FleetOrphan` | violation of `NoOrphans` | | a Stop between delegate's look at the flag and the opening of the children leaves them running |
| `RunLoop` | pass | 2,076,118 | all loop properties, liveness included |
| `Sessions` | pass | 3,331,667 | replay, resume and continue over crashes, chains and branches |
| `SessionsFork` | violation of `ReplayExactEver` | | after a branch a run's replay doubles |
| `Engine` | pass | 939,072 | loads, Stops and repairs beside each other, liveness included |
| `EngineStop` | violation of `StopNotHealed` | | a Stop during a health check is undone by the repair that follows |
| `Scheduler` | pass | 725,188 | slot, edits, input, Stop and restart, liveness included |
| `Gate` | pass | 3,554,542 | cap, refusals and policies over two calls and two accepts |
| `GateTwice` | violation of `AcceptedOnce` | | two accepts of one card send twice |
| `MediaJobs` | pass | 741,756 | outcomes and ends of two jobs over a restart, liveness included |
| `MediaTile` | violation of `TileEnds` | | an event that overtakes the submit's reply leaves a tile spinning |

The properties, in words, stand above their definitions. What the passing runs state:

* **Fleet.** `PoolAccounting`, `NoStrandedQueue`, `QueuedStoppable`,
  `RowMatchesHandle`, `LeadWaits`, `DelegationBounded`; the action property
  `StopReachesAll`; the refinement `ChildRowsFollowTheirLife`; the liveness property
  `EveryChildEnds`. `RowMatchesHandle` says that an unfinished row has a handle and somebody
  who will settle it; it and `EveryChildEnds` except the children of a delegate call that
  failed to open a later one (`lost`, section 5), and those alone.
* **RunLoop.** `StepBudget`, `SeenIsReplayable`, `CallsAnswered`,
  `SteersReadInOrder`; the action property `StopIsPrompt`; the liveness property
  `RunEnds`.
* **Sessions.** `ReplayExact` and `ResumeKeepsWork` (for runs whose conversation was
  not branched, see `SessionsFork`), `ResumeNeverRepeats`, `ContinueMeansTheLastRun`
  (both without answers checked in the background, see section 5). `ResumeNeverRepeats`: a
  resumed run had no send that came back done, and none under way when the app died; one that
  may have left and came back as an error is in what the resumed run sends its model, as a
  call that failed. It does not say that such a send is not made again (section 5).
* **Engine.** `HealYields`: a repair is never put back over a Stop or load that came
  after it began. `OneWatchdog`: two watchdogs act on one generation only if their loads
  overlapped. `EngineIsWatched`, `RepairsWhatWorked`; the liveness property
  `DeadIsNoticed`. `TypeOK` includes the bound on restarts.
* **Scheduler.** `SlotIsTheRun`, `EditsSurvive` (what the person changed before or during a
  run is so after it; writing back the list as it was before the run is the fault it is
  checked against, and the moment between the end-of-run's own read and write is excepted),
  `InputSparesTheUsersRuns`; the action property
  `StopMeansStop`; the liveness property `DueStarts`.
* **Gate.** `CapHolds` (all that left is counted; what left unasked stays within the
  cap, but for a call overtaken between its look and its count), `NoMeansNo`,
  `AlwaysKeepsTheRest` (but for an app whose settings moved under its open question).
* **MediaJobs.** `OneOutcome` (a cancel set after the worker's look leaves the picture),
  and the liveness property `JobSettles`.

**Bounds, and why they are enough.** `Fleet`: one lead and three more runs, two slots,
two children a call and a turn, one crash. That gives a full pool with a child waiting,
a second delegate call in the same turn that meets the cap, a foreground and a
background batch of one lead, a setting lowered under running children, and a restart
with rows in every state. `RunLoop`: two charged turns plus one free, batches of two,
two steers, one of each nudge, results cleared after two: every nudge meets every other
and the budget's edge, and a steer falls into each phase. `Sessions`: three runs (a
resume of a resume), two conversations (a branch), two calls in a batch of up to two (a
flush cut in the middle of a batch), one crash or missing model, one decision row.
`Engine`: two loads (overlapping, or one after the other with the first one's watchdog
still about), one Stop, two windows, two failed polls and two restarts: a Stop or load
falls into every step of a load and of a repair, and the budget runs out. `Scheduler`:
the built-in task and one of the person's, ticker and one Run now, one edit, one crash:
two writers of the list, two claims of the slot. `Gate`: two calls of batches over three
apps, one of them a plain connector, two accepts, one change of settings, two clicks, caps
of one and two: two calls meet at the cap, and a card is clicked twice. `MediaJobs`: two jobs, one crash, one
opening of the chat. The violating runs use the smallest bounds that show the behaviour.
Deadlock is checked in `Scheduler` only, where time goes on for ever: elsewhere the
system is idle when the bounds are used up, as the app is between turns.

**Fairness.** `Fleet`: weak fairness of each task's steps, of the walk and of the
restart. Tasks are futures of a multi-threaded executor; a run ends by itself, which
is `RunLoop`'s `RunEnds`; a restart is the person's next start of the app. No fairness
is put on what nobody is obliged to do: delegating, collecting, steering, stopping,
crashing. `RunLoop`: weak fairness of the loop; it rests on the model answering (the
stream has timeouts) and on tools returning. A tool that waits for the person
(permission, `ask_user`) has no timeout, and for it `RunEnds` says that the run ends
once the person has answered. With tools switched off nothing bounds an engine that
keeps calling tools it was not offered; `MaxUnoffered` does in the model. `Engine`: weak
fairness of what a load, a Stop or a watchdog has begun: sleeps end, requests and the
wait for health have timeouts. Nobody has to load, stop or crash anything. `Scheduler`:
weak fairness of the ticker (a timer) and of an execution that has begun; a run of the
person's task has a deadline of ten minutes, the tidy-up a cap on its items. `MediaJobs`:
weak fairness of a worker (the backends' requests and polls have a ceiling), of a cancel
that has begun and of the restart. `Gate` states no liveness: a question may stay
unanswered.

Each property of a passing run has a seeded fault (in the modules, marked so, before
the definition it replaces) under which TLC finds the property violated.

## 4. What is proved

For every number of runs, crashes, slots, caps and settings that `FleetAssumption`
admits, nesting and failures to open included (`FleetProofs`):

* `TypeCorrect`; then `RunsInvariant`, the inductive invariant `RunsInv`. The
  properties are not inductive alone: that a queued child has a handle needs to know
  who could have closed it. `RunsInv` says for each place of a run what holds of its
  kind, handle, row and outcome (`PlaceInv`), for each delegate call how far its
  children can be (`CallInv`), that the queue holds each waiting child once
  (`QueueInv`) and that nothing runs while the app is down (`DownInv`).
* From it `QueuedAreStoppable`; with `HeldInv` (a child that was opened and not handed over
  is among the children of the call that opened it, one that waits is in the queue)
  `RowsMatchHandles`; with `PoolInv`,
  `PoolCountsItsSlots` and `QueueIsNeverStranded` (a step takes or gives back a slot
  exactly when it counts it; cardinalities by the finite-set theorems); with
  `LeadInv`, `LeadsWait`; and the refinement `ChildrenLiveTheirLife`.
* `DelegationIsBounded`, by `CapInv`: the cap alone is not inductive, since a call is
  let in on the number of children there are and opens its own one by one. `Counted`
  adds what the call has still to open, and `Lineage` that a fresh id was nobody's
  child and that without nesting only a turn is ever opening children.
* `StopReaches`, under the hypothesis `~AllowNested` (with nesting it is false, see
  section 5). `WalkInv` says what the walk owes: every promised run that goes on
  untripped is on the stack, or its lead is, or its lead was just popped. It needs that
  a run on the stack was never seen before, and that what was seen and is live is
  tripped; the end of the walk, an empty stack, then leaves nothing owed.

For every limit that `RunLoopAssumption` admits (`RunLoopProofs`):

* `BudgetHolds`, by `BudgetInv`: while the wrap-up is not set, the turn about to be
  spent is still in the budget; once it is set, only the wrap-up turn is left.
* `StopHolds`, directly from the actions: each that starts a call or a turn tests
  the flag.
* `RunLoopTypes`, by `LoopTypes`: a batch has as many outcomes as calls, and the
  watermark stays within the transcript.
* `SeenIsOnRecord`, by `Recorded`: while the run lives, the replay of the log followed
  by what is pending above the watermark is the transcript, with cleared results in
  full. Every action either appends to the transcript, or moves the watermark and logs
  exactly what it passes, or clears results, which the right side does not see. The
  last request was a prefix of the transcript when it was sent.
* `SteersInOrder`, inductive with `Transcript`: what is past the watermark was said by
  the last turn and holds no steer, so a flush adds none to the log and `Prepare` alone
  writes the event and the message together.
* `CallsAreAnswered`, by `Batch`: the log is closed (every call in it answered) while the
  run lives; during a batch the one open call is all that is pending; when the results
  are in, what is pending is closed and only its head is a call, so that a crash at any
  row leaves at most the last batch open. That `Record` answers a batch of any size is an
  induction over the batch.

**Induction.** The library's induction theorems cannot be instantiated here, but
induction over a *set* of naturals can: `SetInduction` (`FlattenProofs`) says that a set
with 0 that is closed under successor holds every natural. A fold is reasoned about by
taking the set of lengths for which the claim holds. With it `FlattenProofs` proves what
`FlattenSeq` gives for an empty sequence, an appended element, a concatenation, and
sequences of singles or of empties; that is what the operators `Without`, `Replay` and
`Numbers` of `RunLoop` and `RowsOf`, `Spoken`, `Replay` and `Cut` of `Sessions` are made
of or reasoned with.

For every number of conversations, runs, calls, decisions and faults, chains of resumes and
branches of branches included (`SessionsProofs`):

* `SessionsTyped`, by `BaseInv`, which also says what every later proof leans on: what is
  not in the log yet (`TailInv`), that the places where turns begin in the log do not go
  back (`PlaceInv`), that whatever is logged, checked or saved is of a run that was started,
  and each such run has rows somewhere (`SightInv`), and that the run going on is the newest
  and that of its conversation's last turn (`GoingInv`).
* `ReplayIsExact`, by `ReplayInv`: while a run lives, what its rows say followed by what is
  not logged yet is its transcript (`TranscriptInv`), and what it last sent is a prefix of
  the first part; after it, of what its rows say where they are in one conversation
  (`SeenInv`). A flush moves a message from one part to the other, so a crash at any insert
  leaves a prefix at least as long as the last request. That `EventsForRun`, which selects
  by run over all conversations, gives just the rows of that one log is where the lemmas on
  `FlattenSeq` are needed (`EventsOneHome`): of the conversations' rows at one place at
  most one is the run's.
* `ResumeKeepsTheWork`: a run begins as the replay of the one before it and a note, and
  `ReplayInv` gives what that replay begins with. `FromInv` (a run is resumed from an
  earlier one) keeps the two ends of a chain from being disturbed by the run going on.
* `ContinueIsTheLastRun`, by `CutInv`: the rows up to the end of a turn that was cut off
  end with a row of its run, so a branch cuts the log where it cuts the messages.
* `ResumeRepeatsNothing`, by `SentInv`: as long as the run lives, the call of a send that
  came back, done or as an error, and its result are both logged or both about to be
  (`SentHas`), unless the run ended for good; once it is cut off, both are logged
  (`SentCut`), in some conversation, and no send of it was lost with the app. With `CutInv`
  the run that Resume looks at is the one cut off: `OutwardDone` sees a result that is done,
  and one that is an error is in the replay the new run opens with (`ResumedHas`).

The last two have the hypothesis `~AnswerChecks`, as in the run that checks them; with
answers checked in the background both are false (section 5).

For every number of loads, Stops, windows, failed polls and restarts that
`EngineAssumption` admits (`EngineProofs`):

* `EngineTypes`, with the bound on the restart history; `HealYieldsHolds`, which is
  inductive with the types: whoever moves the generation is on the way to empty the
  slot, leaves that place only by emptying it, and a repair puts its child there only
  for the generation of the moment; `RepairsHold`, which needs `Shown`: a load's
  configuration has answered before the child goes into the slot, and a watchdog exists
  only when last_config is such a configuration.
* `OneWatchdogHolds` and `EngineIsWatchedHolds`, by `WatchInv`: no watchdog is ahead of
  the generation and no repair behind its watchdog (`Ages`); a load that is past its
  advance while a watchdog of the current generation exists was under way when that one
  was spawned (`Together`); and an engine without a watchdog has a load that is about to
  spawn one (`Attended`).

For every number of tasks, commands, edits and crashes (`SchedulerProofs`):

* `SchedulerTypes`, `OneRunAtATime`, `EditsAreKept`, `InputSparesHolds` and the action
  property `StopIsFinal`, by one invariant, `SchedulerInvariant`. Stop is pressed on the
  slot and honoured two steps after the slot was given back, so the invariant follows the
  press (`StopIsMarked`): nothing before the run, the slot's mark during it, and what
  `finish` made of the mark after it. `EditsSurvive` needs that what each writer holds is as
  the person was told, a list read before an edit included, but for the tasks in `raced`
  (`ReadAsTold`).

For every finite set of tools, every set of apps, plain ones among them, calls and accepts,
and every cap
(`GateProofs`, from `GateAssumption`; that the tools are finitely many is needed to count
the sends of a batch, and a batch is a list in the code):

* `GateTypes`, `CapHoldsAlways`, `NoIsFinal` and `AlwaysIsNarrow`, by `GateInvariant`. A
  send is counted before the call that makes it, so `CapHolds` needs the account of what
  is counted and has not left, over all calls and accepts (`Underway`: a sum, stated as
  the size of a set of units so that the finite-set theorems apply), and that what was let
  through unasked fits under the cap on top of the count it saw (`Caps`). `NoIsFinal` needs
  that a refused call is over and that nobody is accepting it (`Refusals`), and
  `GateTypes`, which bounds how often a call is carried out, needs the clicks (`Carried`).

For every set of jobs and number of crashes (`MediaJobsProofs`):

* `OneOutcomeHolds`. The strengthening says, for each place of the worker and of the
  cancel command, what the row, the flag, the file and the attachment can be; it is
  needed because the row is closed long after the look at the flag.

The inductive invariants were model-checked with the bounds of the runs (the fleet's with
nesting on as well, but for `WalkInv`; those of `Sessions` that quantify over all sequences
of calls, over the ones the bounds allow).

**Only model-checked.** Liveness (`EveryChildEnds`, `RunEnds`, `DeadIsNoticed`,
`DueStarts`, `JobSettles`) is out of this prover's reach, as is anything with ENABLED.
Every other property of the passing runs, invariant or action property, is proved:
`StopReachesAll` without nesting (with it, it does not hold), `ContinueMeansTheLastRun` and
`ResumeNeverRepeats` without answers checked in the background (likewise). What the
violating runs refute is theirs alone.

## 5. Divergences

Places where a comment or document says more than the code does. Five are shown by a
violating run and quoted in `PROJECT.json` "findings":

* the window between delegate's look at the cancel flag and the opening of its children
  (`FleetOrphan`);
* replay after a branch (`SessionsFork`);
* a Stop during a health check, which the repair takes for its own generation
  (`EngineStop`). `heal` would have to be given the generation its watchdog compared;
* a parked mail or call accepted twice while the first accept waits for the network
  (`GateTwice`). Closing the row before the call, with the status in the WHERE clause,
  would make the second one fail;
* a media event that overtakes the reply of its submit (`MediaTile`).

Others met while modelling, which the models show and a property excepts or a bound
leaves out:

* with nested delegation, background children of a run that has ended are not reached by
  a walk over live handles (`Fleet` with `AllowNested`; `StopReachesAll` is checked
  without nesting, the default);
* the guided retry is keyed by call id, so a tool that keeps failing is given the note
  each time (`run.rs:1812` says exactly one);
* a decision row about an earlier run's answer can be the newest row when the next run is
  cut off, and Continue picks up the earlier run (`Sessions` with `AnswerChecks`, which
  violates `ContinueMeansTheLastRun`). If that one ended on a sign-in card, whose batch is
  not logged, a send of that batch is not seen and the run is resumed
  (`ResumeNeverRepeats`);
* `fleet.rs:366-367` wants `close` called "including on the error paths", and
  `db/mod.rs:2351-2353` lets every reader believe that an unfinished row means "a child that
  is genuinely still working". When `delegate` has opened one child and `create_conversation`
  fails for the next, the `?` at `subagents.rs:901` leaves the first with an open handle and
  a row that says running and no task behind them, until the app is started again. Stop sets
  its flag, which nobody reads. In the model such a child is in the place `lost`, which
  `RowMatchesHandle` and `EveryChildEnds` except by name;
* `log.rs:373-374` says that when `outward_done` is `None` "a resume cannot repeat anything
  the outside world has seen". A send that left and came back as an error (a time limit, a
  Stop, an answer that could not be read) is in the rows as an error and does not count, so
  the run is resumed and its model may send again; `docs/AGENT_HARNESS.md:1300-1302` and
  `log.rs:380-381` say so of a send without a result row. `ResumeNeverRepeats` claims no more
  than that the model is told of the failed call. A send with no result row at all belongs to
  a run that died with the app, for which the window offers no Continue;
* the end of a scheduled run reads the task list again and writes it back whole
  (`scheduler.rs:358-364`), without a lock: an edit saved in between is undone, though the
  person was told it is there. `EditsSurvive` excepts that task until it is edited again.
  (The other way round an edit writes back when the task was due before the run's end was
  recorded, so that it runs once more.)
* overlapping loads leave two watchdogs of one generation (`watchdog.rs:52` says never
  more than one), which `OneWatchdog` excepts;
* a repair that ends in Failed leaves no engine, and no engine counts as healthy: the
  watchdog does not try again;
* "always" writes back the policy it read before the question, undoing a correction of a
  tool's kind made in the same panel (`connectors.rs:216` says it is kept), which
  `AlwaysKeepsTheRest` excepts;
* two calls can both see the last free place under the cap, which `CapHolds` excepts;
* a cancel that lands after the worker's look leaves its picture in the message
  (`jobs.rs:187` says it is discarded), which `OneOutcome` excepts.

## 6. Not modelled, and the plan

The repository has some 120,000 lines; most of them fetch, parse, format, rank, render or
phrase, and hold no state that several actors share. The modules cover the parts that
decide: what runs, what stops, what is written, what leaves the machine. Not modelled:
prompts and what a model judges (memory, reflection, improvement, decisions), retrieval
and its scores, the browser, IMAP, downloads, catalogs, the wire formats of agent apps
and MCP, voice audio, the rendering of the window, and of the database all but the tables
named above. `PROJECT.json` gives the reason for each component.

Next, in this order:

1. `FileUndo` (trash, ledger, rewind): an undo looks at the flag of the entry it was
   given, not of the row.
2. `DecideLane` (hot asks before checks), `ToolRpc` (a script's calls while a batch
   runs), agent apps' approvals, the voice floor.
