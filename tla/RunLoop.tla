------------------------------ MODULE RunLoop ------------------------------
(***************************************************************************)
(* One run's loop (agent/run.rs: run_agent_inner and its six phases), the    *)
(* inbox other tasks write to (agent/fleet.rs: steer, drain_steers) and the  *)
(* session-log rows the run leaves (agent/log.rs: SessionLog, replay).       *)
(*                                                                           *)
(* A phase is one step; a Stop, a steering message, the clock or the death   *)
(* of the app may fall between any two of them, and between the calls of a   *)
(* batch.  What the model answers is chosen freely.  Texts are abstracted:   *)
(* a message is its kind and a number (which steer, which result).           *)
(***************************************************************************)
EXTENDS Naturals, Sequences, FiniteSets, SequencesExt

CONSTANTS
    MaxIterations,   \* RunLimits.max_iterations
    MaxFree,         \* MAX_FREE_PLAN_STEPS
    MaxNarration,    \* MAX_NARRATION_NUDGES
    MaxEmpty,        \* MAX_EMPTY_RETRIES
    MaxPlanNudges,   \* MAX_PLAN_NUDGES
    KeepRecent,      \* KEEP_RECENT_RESULTS
    MaxCalls,        \* the longest batch the model asks for (bound)
    MaxSteers,       \* how many steering messages arrive (bound)
    MaxUnoffered     \* turns in which an engine calls tools it was not offered (bound)

ASSUME RunLoopAssumption ==
    /\ MaxIterations \in Nat \ {0}      \* RunLimits clamps it to 1..50
    /\ MaxFree \in Nat /\ MaxNarration \in Nat /\ MaxEmpty \in Nat
    /\ MaxPlanNudges \in Nat /\ KeepRecent \in Nat
    /\ MaxCalls \in Nat \ {0} /\ MaxSteers \in Nat /\ MaxUnoffered \in Nat

VARIABLES
    pc,          \* the phase the run is in; "dead" once the app has died
    tools,       \* tools_enabled
    messages,    \* RunState.messages
    logged,      \* RunState.logged, the watermark
    log,         \* this run's rows in session_events
    sent,        \* history: the messages of the last request to the model
    iteration, free, narration, empties, planNudges,    \* RunState's counters
    said,        \* final_text is not empty
    planOpen,    \* the run's plan has open items
    reminded,    \* the ledger's `nudged`: the run was asked about its unchecked edits
    wrap,        \* RunState.wrap_up: "none", or the reason the budget ended for
    cancelled,   \* RunHandle.cancel
    inbox,       \* RunHandle.inbox
    steers,      \* how many steering messages were queued
    calls, outs, \* the batch being dispatched, and where each call is
    waiting,     \* waiting_on_person
    reason       \* the StopReason, "none" while the run goes on

countVars == <<iteration, free, narration, empties, planNudges>>
batchVars == <<calls, outs, waiting>>
inVars    == <<cancelled, inbox, steers>>
vars == <<pc, tools, messages, logged, log, sent, countVars, said, planOpen, reminded, wrap,
          inVars, batchVars, reason>>

\* What a call can be: a read that may run beside others, any other built-in,
\* run bookkeeping (plan, harness, ask_user), or a connector's tool.
Tools == {"read", "builtin", "plan", "connector"}
Builtin == {"read", "builtin"}
Reasons == {"completed", "aborted", "timeout", "max_steps", "error"}

Msg(k, n) == [kind |-> k, n |-> n, cleared |-> FALSE]
Note == Msg("system_note", 0)
FixNote(t) == Msg("system_note", IF t = "read" THEN 1 ELSE 2)    \* names the tool
Original(m) == [m EXCEPT !.cleared = FALSE]

\* A sequence of messages without those of some kinds.
Without(s, kinds) == FlattenSeq([i \in DOMAIN s |-> IF s[i].kind \in kinds THEN <<>> ELSE <<s[i]>>])

\* kind_of and replay: rows about the run are skipped, the rest are the messages.
Replay(rows) == Without(rows, {"steer", "stop", "plan", "command"})

\* Everything past the watermark.
Pending == SubSeq(messages, logged + 1, Len(messages))

Results == {i \in DOMAIN messages : messages[i].kind = "tool_result"}
DidToolWork == Results # {}
Charged == iteration - free
-----------------------------------------------------------------------------
\* run_agent_inner up to the loop: the opening array is logged whole.
Init ==
    /\ pc = "start" /\ tools \in BOOLEAN
    /\ messages = <<Msg("prompt", 0)>> /\ logged = 1 /\ log = <<Msg("prompt", 0)>>
    /\ sent = <<>>
    /\ iteration = 0 /\ free = 0 /\ narration = 0 /\ empties = 0 /\ planNudges = 0
    /\ said = FALSE /\ planOpen \in BOOLEAN /\ reminded = FALSE /\ wrap = "none"
    /\ cancelled = FALSE /\ inbox = <<>> /\ steers = 0
    /\ calls = <<>> /\ outs = <<>> /\ waiting = FALSE
    /\ reason = "none"

\* The `end` closure: the answer, then the stop row, on every exit path.
EndRows(text) == (IF text THEN <<Msg("assistant", 0)>> ELSE <<>>) \o <<Msg("stop", 0)>>

\* Leaving the loop from a phase after prepare_turn.
End(why, text) ==
    /\ pc' = "ended" /\ reason' = why
    /\ said' = text
    /\ log' = log \o EndRows(text)

Begin ==
    /\ pc = "start" /\ pc' = "prepare"
    /\ UNCHANGED <<tools, messages, logged, log, sent, countVars, said, planOpen, reminded, wrap,
                   inVars, batchVars, reason>>

\* Seeded fault: bookkeeping is free without a cap.
StartBatchUncapped(b) ==
    /\ free' = IF \A i \in DOMAIN b : b[i] = "plan" THEN free + 1 ELSE free
    /\ messages' = Append(messages, Msg("tool_call", Len(b)))
    /\ calls' = b /\ outs' = [i \in DOMAIN b |-> "none"]
    /\ pc' = "dispatch"
    /\ UNCHANGED waiting

\* The head of dispatch_batch: a turn of pure bookkeeping is free, up to a cap.
StartBatch(b) ==
    /\ free' = IF (\A i \in DOMAIN b : b[i] = "plan") /\ free < MaxFree THEN free + 1 ELSE free
    /\ messages' = Append(messages, Msg("tool_call", Len(b)))
    /\ calls' = b /\ outs' = [i \in DOMAIN b |-> "none"]
    /\ pc' = "dispatch"
    /\ UNCHANGED waiting

\* preload_skill: the user named a skill; it is called before the first turn.
PreloadSkill ==
    /\ pc = "start" /\ tools
    /\ StartBatch(<<"builtin">>)
    /\ UNCHANGED <<tools, logged, log, sent, iteration, narration, empties, planNudges, said,
                   planOpen, reminded, wrap, inVars, reason>>
-----------------------------------------------------------------------------
(******************************* prepare_turn ******************************)

\* Stop is looked at after the flush, so what the last turn did is on record.
PrepareStopped ==
    /\ pc = "prepare" /\ cancelled
    /\ pc' = "ended" /\ reason' = "aborted"
    /\ log' = log \o Pending \o EndRows(said)
    /\ logged' = Len(messages)
    /\ UNCHANGED <<tools, messages, sent, countVars, said, planOpen, reminded, wrap, inVars, batchVars>>

\* Seeded faults: the budget compared one too late; the newest steer only;
\* the messages of this preamble logged one turn late.
SpentLate == IF Charged >= MaxIterations THEN {"timeout", "max_steps"} ELSE {"timeout", "none"}
DrainedNewest == IF inbox = <<>> THEN <<>> ELSE <<Msg("user", inbox[Len(inbox)])>>
FlushedBefore(new) == [rows |-> Pending, upto |-> Len(messages)]

\* open_turn: is this the last turn?  The deadline is looked at first, and may
\* have passed by any turn.
Spent == IF Charged + 1 >= MaxIterations THEN {"timeout", "max_steps"} ELSE {"timeout", "none"}

\* drain_steers: all of the inbox, in arrival order, as user messages.
Drained == [i \in DOMAIN inbox |-> Msg("user", inbox[i])]

\* The two flushes of prepare_turn around open_turn, which writes the `steer`
\* rows itself; `new` is what open_turn appended.
Flushed(new) == [rows |-> Pending \o [i \in DOMAIN inbox |-> Msg("steer", inbox[i])] \o new,
                 upto |-> Len(messages) + Len(new)]

\* make_room: when the window is nearly full, some of the tool results older
\* than the newest KeepRecent become stubs; the log keeps the originals and
\* says that room was made.
Cleared(ms, S) == [i \in DOMAIN ms |-> IF i \in S THEN [ms[i] EXCEPT !.cleared = TRUE] ELSE ms[i]]
Old == {i \in Results : ~messages[i].cleared /\ Cardinality({j \in Results : j > i}) >= KeepRecent}
MadeRoom(S) == IF S = {} THEN <<>> ELSE <<Msg("command", 0)>>

Prepare ==
    /\ pc = "prepare" /\ ~cancelled
    /\ wrap' \in IF wrap = "none" /\ tools THEN Spent ELSE {wrap}
    /\ LET new == Drained \o (IF wrap' # wrap THEN <<Note>> ELSE <<>>)
       IN /\ \E S \in SUBSET Old : /\ messages' = Cleared(messages, S) \o new
                                   /\ log' = log \o Flushed(new).rows \o MadeRoom(S)
          /\ logged' = Flushed(new).upto
    /\ pc' = IF wrap' # "none" THEN "wrapup" ELSE "request"
    /\ sent' = messages'
    /\ inbox' = <<>>
    /\ iteration' = iteration + 1
    /\ UNCHANGED <<tools, free, narration, empties, planNudges, said, planOpen, reminded,
                   cancelled, steers, batchVars, reason>>
-----------------------------------------------------------------------------
(*************************** request and classify **************************)

\* Prose streams out before the turn's shape is known: it may add to
\* final_text whatever the turn then turns out to be.
Streamed == {said, TRUE}

\* A nudge shows the model its own words, if any, and then the note.
Nudge(text) == messages \o (IF text THEN <<Msg("assistant", 0)>> ELSE <<>>) \o <<Note>>

Batches == UNION {[1..n -> Tools] : n \in 1..MaxCalls}

\* Structured tool calls, or calls written as text.
TurnCalls ==
    /\ pc = "request"
    /\ tools \/ iteration <= MaxUnoffered
    /\ \E b \in Batches : StartBatch(b)
    /\ said' \in Streamed
    /\ UNCHANGED <<tools, logged, log, sent, iteration, narration, empties, planNudges, planOpen,
                   reminded, wrap, inVars, reason>>

\* A call described instead of made.
TurnNarrates ==
    /\ pc = "request" /\ tools /\ narration < MaxNarration
    /\ narration' = narration + 1
    /\ said' \in Streamed
    /\ messages' = Nudge(TRUE)
    /\ pc' = "prepare"
    /\ UNCHANGED <<tools, logged, log, sent, iteration, free, empties, planNudges, planOpen, reminded,
                   wrap, inVars, batchVars, reason>>

\* rescue_empty_answer: nothing said, but tool results or thinking behind it.
TurnEmpty ==
    /\ pc = "request" /\ tools /\ ~said /\ empties < MaxEmpty
    /\ empties' = empties + 1
    /\ messages' = Nudge(FALSE)
    /\ pc' = "prepare"
    /\ UNCHANGED <<tools, logged, log, sent, iteration, free, narration, planNudges, said, planOpen,
                   reminded, wrap, inVars, batchVars, reason>>

\* A Final turn that rescue_empty_answer lets through: `text` was written, or
\* there is nothing to rescue.
Settled(text) == said \/ text \/ empties >= MaxEmpty \/ ~DidToolWork

\* judge_plan may tick every open item off, if the answer has any text.
Judged(text) == IF text /\ planOpen THEN BOOLEAN ELSE {planOpen}

\* nudge_unfinished_plan: an answer while the plan has open items.
TurnPlanOpen ==
    /\ pc = "request" /\ tools /\ planOpen /\ planNudges < MaxPlanNudges
    /\ \E text \in BOOLEAN : /\ Settled(text)
                             /\ said' = (said \/ text)
                             /\ messages' = Nudge(text)
    /\ planNudges' = planNudges + 1
    /\ pc' = "prepare"
    /\ UNCHANGED <<tools, logged, log, sent, iteration, free, narration, empties, planOpen, reminded,
                   wrap, inVars, batchVars, reason>>

\* unverified_note: edited files that no check has seen; asked once.
TurnUnverified ==
    /\ pc = "request" /\ tools /\ DidToolWork /\ ~reminded
    /\ \E text \in BOOLEAN : /\ Settled(text)
                             /\ said' = (said \/ text)
                             /\ messages' = Nudge(text)
                             /\ planOpen' \in Judged(text)
    /\ ~planOpen' \/ planNudges = MaxPlanNudges
    /\ reminded' = TRUE
    /\ pc' = "prepare"
    /\ UNCHANGED <<tools, logged, log, sent, countVars, wrap, inVars, batchVars, reason>>

\* A finished answer.  (An unchecked edit lets it through when the answer
\* claims nothing, which the decision model judges.)
TurnFinal ==
    /\ pc = "request"
    /\ \E text \in BOOLEAN :
          /\ tools => Settled(text)
          /\ IF tools THEN planOpen' \in Judged(text) ELSE planOpen' = planOpen
          /\ End("completed", said \/ text)
    /\ tools => ~planOpen' \/ planNudges = MaxPlanNudges
    /\ UNCHANGED <<tools, messages, logged, sent, countVars, reminded, wrap, inVars, batchVars>>

\* Stopped while streaming, or the model call failed.
TurnCut ==
    /\ pc = "request"
    /\ \E why \in {"aborted", "error"}, text \in Streamed :
          (why = "aborted" => cancelled) /\ End(why, text)
    /\ UNCHANGED <<tools, messages, logged, sent, countVars, planOpen, reminded, wrap, inVars, batchVars>>

\* wrap_up_turn: no tools, and it always ends the run.  Its plan line is added
\* after the flush.
WrapUp ==
    /\ pc = "wrapup"
    /\ messages' = IF planOpen THEN Append(messages, Msg("plan_line", 0)) ELSE messages
    /\ sent' = messages'
    /\ \E why \in {wrap, "aborted", "error"}, text \in Streamed :
          /\ why = "aborted" => cancelled
          /\ why # wrap => text = said
          /\ End(why, text)
    /\ UNCHANGED <<tools, logged, countVars, planOpen, reminded, wrap, inVars, batchVars>>
-----------------------------------------------------------------------------
(****************************** dispatch_batch *****************************)

\* partition_calls: reads run together when there are at least two of them.
Concurrent == LET reads == {i \in DOMAIN calls : calls[i] = "read"}
              IN IF Cardinality(reads) < 2 THEN {} ELSE reads
Going == {i \in DOMAIN outs : outs[i] = "going"}

\* The reads first, all at once.
StartReads ==
    /\ pc = "dispatch" /\ ~cancelled
    /\ Concurrent # {} /\ \A i \in DOMAIN outs : outs[i] = "none"
    /\ outs' = [i \in DOMAIN outs |-> IF i \in Concurrent THEN "going" ELSE "none"]
    /\ UNCHANGED <<pc, tools, messages, logged, log, sent, countVars, said, planOpen, reminded, wrap,
                   inVars, calls, waiting, reason>>

\* Seeded fault: Stop is not looked at between the calls of a batch.
StartNextAnyway(i) ==
    /\ pc = "dispatch" /\ Going = {} /\ i \in DOMAIN outs
    /\ \A j \in DOMAIN outs : outs[j] = "none" => j >= i
    /\ outs[i] = "none"
    /\ outs' = [outs EXCEPT ![i] = "going"]
    /\ UNCHANGED <<pc, tools, messages, logged, log, sent, countVars, said, planOpen, reminded, wrap,
                   inVars, calls, waiting, reason>>

\* Then the others, one after the other, unless Stop was pressed meanwhile.
StartNext(i) ==
    /\ pc = "dispatch" /\ ~cancelled /\ Going = {} /\ i \in DOMAIN outs
    /\ \A j \in Concurrent : outs[j] # "none"
    /\ outs[i] = "none" /\ \A j \in DOMAIN outs : outs[j] = "none" => j >= i
    /\ outs' = [outs EXCEPT ![i] = "going"]
    /\ UNCHANGED <<pc, tools, messages, logged, log, sent, countVars, said, planOpen, reminded, wrap,
                   inVars, calls, waiting, reason>>

\* A call returns.  A plan call rewrites the plan and logs it there and then;
\* a connector may leave a sign-in card for the person.
FinishCall(i) ==
    /\ pc = "dispatch" /\ i \in Going
    /\ \E o \in {"ok", "err"} :
          /\ outs' = [outs EXCEPT ![i] = o]
          /\ IF calls[i] = "plan" /\ o = "ok"
             THEN planOpen' \in BOOLEAN /\ log' = Append(log, Msg("plan", 0))
             ELSE UNCHANGED <<planOpen, log>>
          /\ IF calls[i] = "connector" /\ o = "ok" THEN waiting' \in BOOLEAN ELSE waiting' = waiting
    /\ UNCHANGED <<pc, tools, messages, logged, sent, countVars, said, reminded, wrap,
                   inVars, calls, reason>>

\* Results land in call order; a failed built-in is told to fix the call.
ResultOf(i) == <<Msg("tool_result", i)>> \o
               (IF outs[i] = "err" /\ calls[i] \in Builtin THEN <<FixNote(calls[i])>> ELSE <<>>)

\* Seeded faults: a call that never ran gets no result; the batch waits for
\* calls that Stop kept from starting.
RecordRan ==
    /\ pc = "dispatch" /\ Going = {}
    /\ cancelled \/ \A i \in DOMAIN outs : outs[i] # "none"
    /\ messages' = messages \o FlattenSeq([i \in DOMAIN outs |-> IF outs[i] = "none" THEN <<>>
                                                                ELSE ResultOf(i)])
    /\ calls' = <<>> /\ outs' = <<>> /\ waiting' = FALSE
    /\ pc' = "prepare"
    /\ UNCHANGED <<tools, logged, log, sent, countVars, said, planOpen, reminded, wrap, inVars, reason>>

RecordWaits ==
    /\ pc = "dispatch" /\ Going = {}
    /\ \A i \in DOMAIN outs : outs[i] # "none"
    /\ messages' = messages \o FlattenSeq([i \in DOMAIN outs |-> ResultOf(i)])
    /\ calls' = <<>> /\ outs' = <<>> /\ waiting' = FALSE
    /\ pc' = "prepare"
    /\ UNCHANGED <<tools, logged, log, sent, countVars, said, planOpen, reminded, wrap, inVars, reason>>

\* The batch is over.  A call that Stop kept from running still gets a result.
\* A sign-in card ends the run here, without another flush.
Record ==
    /\ pc = "dispatch" /\ Going = {}
    /\ cancelled \/ \A i \in DOMAIN outs : outs[i] # "none"
    /\ messages' = messages \o FlattenSeq([i \in DOMAIN outs |-> ResultOf(i)])
    /\ calls' = <<>> /\ outs' = <<>> /\ waiting' = FALSE
    /\ IF waiting THEN End("completed", TRUE)
       ELSE pc' = "prepare" /\ UNCHANGED <<reason, said, log>>
    /\ UNCHANGED <<tools, logged, sent, countVars, planOpen, reminded, wrap, inVars>>
-----------------------------------------------------------------------------
(********************************* outside *********************************)

\* steer_run_cmd on a run that still has a handle.
Steer ==
    /\ pc \notin {"dead", "ended"} /\ steers < MaxSteers
    /\ steers' = steers + 1 /\ inbox' = Append(inbox, steers + 1)
    /\ UNCHANGED <<pc, tools, messages, logged, log, sent, countVars, said, planOpen, reminded, wrap,
                   cancelled, batchVars, reason>>

Stop ==
    /\ pc \notin {"dead", "ended"} /\ ~cancelled
    /\ cancelled' = TRUE
    /\ UNCHANGED <<pc, tools, messages, logged, log, sent, countVars, said, planOpen, reminded, wrap,
                   inbox, steers, batchVars, reason>>

\* The app dies.  A flush is one insert per row, so it can be cut anywhere.
Crash ==
    /\ pc \notin {"dead", "ended"}
    /\ pc' = "dead"
    /\ IF pc = "prepare" THEN \E k \in 0..Len(Pending) : log' = log \o SubSeq(Pending, 1, k)
       ELSE log' = log
    /\ messages' = <<>> /\ logged' = 0 /\ inbox' = <<>> /\ steers' = 0
    /\ iteration' = 0 /\ free' = 0 /\ narration' = 0 /\ empties' = 0 /\ planNudges' = 0
    /\ said' = FALSE /\ planOpen' = FALSE /\ reminded' = FALSE /\ wrap' = "none"
    /\ cancelled' = FALSE
    /\ calls' = <<>> /\ outs' = <<>> /\ waiting' = FALSE
    /\ UNCHANGED <<tools, sent, reason>>

LoopStep ==
    \/ Begin \/ PreloadSkill \/ PrepareStopped \/ Prepare
    \/ TurnCalls \/ TurnNarrates \/ TurnEmpty \/ TurnPlanOpen \/ TurnUnverified
    \/ TurnFinal \/ TurnCut \/ WrapUp
    \/ StartReads \/ Record
    \/ \E i \in 1..MaxCalls : StartNext(i) \/ FinishCall(i)

Next == LoopStep \/ Steer \/ Stop \/ Crash

Spec == Init /\ [][Next]_vars

\* The loop is a task of its own: it goes on as long as the model answers and
\* its tools return.  Nobody is obliged to steer it or to stop it.
FairSpec == Spec /\ WF_vars(LoopStep)
-----------------------------------------------------------------------------
(******************************** properties *******************************)

Kinds == {"prompt", "user", "assistant", "tool_call", "tool_result", "system_note",
          "plan_line", "steer", "stop", "plan", "command"}
Messages == [kind : Kinds, n : Nat, cleared : BOOLEAN]

\* Types of the run's state.
TypeOK ==
    /\ pc \in {"start", "prepare", "request", "wrapup", "dispatch", "ended", "dead"}
    /\ tools \in BOOLEAN
    /\ messages \in Seq(Messages) /\ log \in Seq(Messages) /\ sent \in Seq(Messages)
    /\ logged \in Nat
    /\ iteration \in Nat /\ free \in 0..MaxFree /\ narration \in 0..MaxNarration
    /\ empties \in 0..MaxEmpty /\ planNudges \in 0..MaxPlanNudges
    /\ said \in BOOLEAN /\ planOpen \in BOOLEAN /\ reminded \in BOOLEAN
    /\ wrap \in {"none", "timeout", "max_steps"}
    /\ cancelled \in BOOLEAN
    /\ inbox \in Seq(1..MaxSteers) /\ steers \in 0..MaxSteers
    /\ calls \in Seq(Tools) /\ outs \in Seq({"none", "going", "ok", "err"})
    /\ waiting \in BOOLEAN
    /\ reason \in Reasons \cup {"none"}

\* RunLimits.max_iterations with the free bookkeeping turns of PLN-2: however
\* calls, nudges, retries and plan updates alternate, a run with tools asks the
\* model at most max_iterations times plus its free turns, which are capped.
StepBudget == tools => iteration <= MaxIterations + free /\ free <= MaxFree

\* log.rs: "anything the model saw must be reconstructible from these rows".
\* In every state, also after the app died, replay of the log begins with the
\* messages of the last request (cleared results in full; the lines that show
\* the plan are rendered again from the plan and exempt).
SeenIsReplayable ==
    LET seen == Without(sent, {"plan_line"})
    IN IsPrefix([i \in DOMAIN seen |-> Original(seen[i])], Replay(log))

\* Calls and results without the notes between them.
Bare(s) == Without(s, {"system_note", "plan_line"})
AnsweredAt(s, i) == \A k \in 1..s[i].n : i + k \in DOMAIN s /\ s[i + k].kind = "tool_result"
                                                        /\ s[i + k].n = k
CallsIn(s) == {i \in DOMAIN s : s[i].kind = "tool_call"}

\* The transcript a resume would send is valid: every call on record is
\* followed by one result per call in call order, with no steer or answer in
\* between, also when Stop cut the batch short.  Only the death of the app in
\* the middle of a flush can leave a batch open, and only the last one.
CallsAnswered ==
    LET s == Bare(Replay(log))
    IN \A i \in CallsIn(s) : AnsweredAt(s, i) \/ (pc = "dead" /\ \A j \in CallsIn(s) : j <= i)

Numbers(s, k) == FlattenSeq([i \in DOMAIN s |-> IF s[i].kind = k THEN <<s[i].n>> ELSE <<>>])

\* Steering messages are taken in arrival order and once each, whatever phase
\* they arrive in: read ones (in the transcript), then waiting ones; and each is
\* on record both as the event and as the message it became.
SteersReadInOrder ==
    pc # "dead" => /\ Numbers(messages, "user") \o inbox = [i \in 1..steers |-> i]
                   /\ Numbers(log, "steer") = Numbers(log, "user")

\* CHT-2b: once Stop is pressed no further call of the batch and no further
\* turn begins.
StopIsPrompt ==
    [][cancelled => /\ iteration' <= iteration
                    /\ {i \in DOMAIN outs' : outs'[i] = "going"} \subseteq Going]_vars

\* Every run ends: by an answer, its budget, its clock, a Stop or a failure.
RunEnds == <>(pc \in {"ended", "dead"})
=============================================================================
