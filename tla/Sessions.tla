------------------------------ MODULE Sessions ------------------------------
(***************************************************************************)
(* Conversations, the session log they share and what is built on it:       *)
(*   agent/log.rs    the rows a run writes, replay, outward_done             *)
(*   agent/turn.rs   run_turn and resume_turn ("Continue where I stopped")   *)
(*   db/mod.rs       session_events, last_logged_run, fork_conversation_at   *)
(*   AgentRun.tsx    when the window offers to continue                      *)
(* over crashes, resumes of resumed runs and branches of a conversation.     *)
(* A run's loop is reduced to what it logs and when (RunLoop.tla has the     *)
(* rest): a batch of calls, the flush of its rows, the next request, an end. *)
(***************************************************************************)
EXTENDS Naturals, Sequences, FiniteSets, SequencesExt

CONSTANTS
    MaxConvs,        \* how many conversations there are (bound)
    MaxRuns,         \* how many runs start (bound)
    MaxCalls,        \* how many tool calls are made in all (bound)
    MaxBatch,        \* how many of them in one batch (bound)
    MaxFaults,       \* how often the app dies or finds no model to run a turn on (bound)
    MaxDecisions,    \* how many decision rows are written (bound)
    AnswerChecks     \* the fast-slow experiment: answers are checked in the background

Convs == 1..MaxConvs
Runs == 1..MaxRuns
NoRun == 0

ASSUME SessionsAssumption ==
    /\ MaxConvs \in Nat /\ MaxRuns \in Nat /\ MaxCalls \in Nat /\ MaxBatch \in Nat
    /\ MaxFaults \in Nat /\ MaxDecisions \in Nat /\ AnswerChecks \in BOOLEAN

VARIABLES
    rows,       \* session_events of each conversation, in seq order
    turns,      \* its assistant messages: whose run, the saved stop_reason, rows before it
    active,     \* the run going on in it
    phase,      \* where that run is
    messages,   \* its transcript
    unlogged,   \* the tail of the transcript that is not in the log yet
    batch,      \* the calls being made: [id, send, out]
    checks,     \* the runs of a conversation whose answer is being checked
    nextRun, nextCall, faults, decisions,
    seen,       \* history: what the model was last sent, by run
    from,       \* history: the run a run was resumed from
    world       \* history: the sends that may have left the machine, and how they came back

counters == <<nextRun, nextCall, faults, decisions>>
history == <<seen, from, world>>
vars == <<rows, turns, active, phase, messages, unlogged, batch, checks, counters, history>>

\* A stop_reason by what it leads to: "cut" is aborted, timeout or max_steps,
\* "over" is completed or error.
Reasons == {"none", "over", "cut"}

\* AgentRun.tsx and commands.ts: when "Continue where I stopped" is offered.
Offered(c) == turns[c] # <<>> /\ turns[c][Len(turns[c])].reason = "cut"

\* store.ts, busy: the window has one turn going at a time, and branches and
\* continues only between turns.
Free == \A c \in Convs : active[c] = NoRun

Msg(k, ids) == [kind |-> k, ids |-> ids]
Row(r, k, ms) == [run |-> r, kind |-> k, msgs |-> ms]

\* A send that may have left the machine: it came back done, or as an error, or
\* the app died before it came back.
Gone(r, call, out) == [run |-> r, call |-> call, out |-> out]
-----------------------------------------------------------------------------
(****************************** reading the log *****************************)

\* The conversations that hold rows of a run.
Homes(r) == {c \in Convs : \E i \in DOMAIN rows[c] : rows[c][i].run = r}

\* The rows of a run in one conversation.
RowsOf(log, r) == FlattenSeq([i \in DOMAIN log |-> IF log[i].run = r THEN <<log[i]>> ELSE <<>>])

\* session_events_for_run: selected by run id alone and ordered by seq.  With
\* rows in several conversations that is all of their first rows, then all of
\* their second rows, and so on.
EventsForRun(r) ==
    LET longest == CHOOSE n \in {Len(rows[c]) : c \in Convs} : \A c \in Convs : Len(rows[c]) <= n
        at(i) == [c \in Convs |-> IF i <= Len(rows[c]) /\ rows[c][i].run = r
                                  THEN <<rows[c][i]>> ELSE <<>>]
    IN IF Cardinality(Homes(r)) = 1
       THEN RowsOf(rows[CHOOSE c \in Homes(r) : TRUE], r)
       ELSE FlattenSeq([i \in 1..longest |-> FlattenSeq(at(i))])

\* The messages of the rows, except those of some kinds.
Spoken(es, about) ==
    FlattenSeq([i \in DOMAIN es |-> IF es[i].kind \in about THEN <<>> ELSE es[i].msgs])

\* Seeded fault: a kind the reader does not know is replayed.
ReplayAll(r) == Spoken(EventsForRun(r), {"stop"})

\* replay: rows about the run are skipped, the prompt row is spliced in.
Replay(r) == Spoken(EventsForRun(r), {"stop", "decision"})

\* outward_done: a call of this run's own rows that is a send and whose result
\* row came back without an error.
OutwardDone(r) ==
    \E e, f \in Range(EventsForRun(r)) :
        /\ e.kind = "tool_call" /\ f.kind = "tool_result"
        /\ \E i \in DOMAIN e.msgs[1].ids :
              /\ e.msgs[1].ids[i].send
              /\ f.msgs[1] = Msg("ok", <<e.msgs[1].ids[i]>>)

\* last_logged_run: whose row is the newest.
LastLogged(c) == IF rows[c] = <<>> THEN NoRun ELSE rows[c][Len(rows[c])].run
-----------------------------------------------------------------------------
Init ==
    /\ rows = [c \in Convs |-> <<>>] /\ turns = [c \in Convs |-> <<>>]
    /\ active = [c \in Convs |-> NoRun] /\ phase = [c \in Convs |-> "idle"]
    /\ messages = [c \in Convs |-> <<>>] /\ unlogged = [c \in Convs |-> <<>>]
    /\ batch = [c \in Convs |-> <<>>] /\ checks = {}
    /\ nextRun = 1 /\ nextCall = 1 /\ faults = 0 /\ decisions = 0
    /\ seen = [r \in Runs |-> <<>>] /\ from = [r \in Runs |-> NoRun] /\ world = {}

\* execute_turn: the assistant row is saved first, the opening array is logged
\* whole, the check of the answer to come is set up, and the first request
\* goes out.
Launch(c, opening) ==
    /\ nextRun <= MaxRuns /\ nextRun' = nextRun + 1
    /\ turns' = [turns EXCEPT ![c] = Append(@, [run |-> nextRun, reason |-> "none",
                                                at |-> Len(rows[c])])]
    /\ rows' = [rows EXCEPT ![c] = Append(@, Row(nextRun, "prompt", opening))]
    /\ active' = [active EXCEPT ![c] = nextRun]
    /\ phase' = [phase EXCEPT ![c] = "turn"]
    /\ messages' = [messages EXCEPT ![c] = opening]
    /\ checks' = IF AnswerChecks THEN checks \cup {<<c, nextRun>>} ELSE checks
    /\ seen' = [seen EXCEPT ![nextRun] = opening]
    /\ UNCHANGED <<unlogged, batch, nextCall, faults, decisions, world>>

\* A typed turn.  (Conversations are used in order: their ids are random and
\* no step depends on them.)
StartTurn(c) ==
    /\ Free /\ \A d \in Convs : d < c => turns[d] # <<>>
    /\ Launch(c, <<Msg("prompt", <<>>)>>)
    /\ UNCHANGED from

\* Seeded fault: the tool results of the interrupted run are left behind.
ResumedBare(r) == <<Msg("prompt", <<>>), Msg("note", <<>>)>>

\* resume_turn: the array to go on with.
Resumed(r) == Replay(r) \o <<Msg("note", <<>>)>>

Resume(c) ==
    /\ Free /\ Offered(c)
    /\ LastLogged(c) # NoRun /\ Replay(LastLogged(c)) # <<>>
    /\ ~OutwardDone(LastLogged(c))
    /\ Launch(c, Resumed(LastLogged(c)))
    /\ from' = [from EXCEPT ![nextRun] = LastLogged(c)]

\* A turn that saves its assistant row and starts no run.
RowOnly(c) ==
    /\ Free
    /\ turns' = [turns EXCEPT ![c] = Append(@, [run |-> NoRun, reason |-> "none",
                                                at |-> Len(rows[c])])]
    /\ UNCHANGED <<rows, active, phase, messages, unlogged, batch, checks, nextRun, nextCall,
                   decisions, history>>

\* Nothing is done again that has left the machine: the reply says so.
ResumeRefused(c) == Offered(c) /\ OutwardDone(LastLogged(c)) /\ RowOnly(c) /\ UNCHANGED faults

\* resolve_turn failed, for a typed turn or a resumed one: there is no model to
\* run it on.  (Taken where it hides an offer to continue; elsewhere the empty
\* row changes nothing.)
NoModel(c) == Offered(c) /\ RowOnly(c) /\ faults < MaxFaults /\ faults' = faults + 1
-----------------------------------------------------------------------------
(********************************* one run *********************************)

\* The model asks for calls.
AskCalls(c) ==
    /\ phase[c] = "turn"
    /\ \E n \in 1..MaxBatch : \E send \in [1..n -> BOOLEAN] :
          LET ids == [i \in 1..n |-> [id |-> nextCall + i - 1, send |-> send[i]]]
          IN /\ nextCall + n - 1 <= MaxCalls /\ nextCall' = nextCall + n
             /\ batch' = [batch EXCEPT ![c] = ids]
             /\ messages' = [messages EXCEPT ![c] = Append(@, Msg("tool_call", ids))]
             /\ unlogged' = [unlogged EXCEPT ![c] = <<Msg("tool_call", ids)>>]
    /\ phase' = [phase EXCEPT ![c] = "batch"]
    /\ UNCHANGED <<rows, turns, active, checks, nextRun, faults, decisions, history>>

\* The next call of the batch is over: done, or failed or never run (which is
\* told apart for sends only).  A send that came back as an error, after a time
\* limit or a Stop, may have left all the same, and is remembered as if it had.
\* Nothing is logged before the whole batch is.
CallReturns(c) ==
    /\ phase[c] = "batch"
    /\ \E out \in IF Head(batch[c]).send THEN {"ok", "err"} ELSE {"ok"} :
          LET call == Head(batch[c])
              result == Msg(out, <<call>>)
          IN /\ messages' = [messages EXCEPT ![c] = Append(@, result)]
             /\ unlogged' = [unlogged EXCEPT ![c] = Append(@, result)]
             /\ world' = IF call.send THEN world \cup {Gone(active[c], call, out)} ELSE world
    /\ batch' = [batch EXCEPT ![c] = Tail(@)]
    /\ phase' = [phase EXCEPT ![c] = IF Len(batch[c]) = 1 THEN "flush" ELSE "batch"]
    /\ UNCHANGED <<rows, turns, active, checks, counters, seen, from>>

\* Seeded fault: the row gets the message's own kind.
KindOfRaw(m) == m.kind

\* kind_of
KindOf(m) == IF m.kind \in {"ok", "err"} THEN "tool_result" ELSE m.kind

\* flush_log, one insert at a time.
FlushRow(c) ==
    /\ phase[c] = "flush" /\ unlogged[c] # <<>>
    /\ LET m == Head(unlogged[c])
       IN rows' = [rows EXCEPT ![c] = Append(@, Row(active[c], KindOf(m), <<m>>))]
    /\ unlogged' = [unlogged EXCEPT ![c] = Tail(@)]
    /\ UNCHANGED <<turns, active, phase, messages, batch, checks, counters, history>>

\* The flush is done: the next request goes out.
Request(c) ==
    /\ phase[c] = "flush" /\ unlogged[c] = <<>>
    /\ seen' = [seen EXCEPT ![active[c]] = messages[c]]
    /\ phase' = [phase EXCEPT ![c] = "turn"]
    /\ UNCHANGED <<rows, turns, active, messages, unlogged, batch, checks, counters, from, world>>

\* Seeded fault: Stop is looked at before the flush.
CanEndUnflushed(c, why) == phase[c] = "turn" \/ phase[c] = "flush"

\* The loop ends with a reason: out of the model's turn, at the Stop check
\* that follows the flush, or, for a sign-in card, right after the batch.
CanEnd(c, why) ==
    \/ phase[c] = "turn"
    \/ phase[c] = "flush" /\ unlogged[c] = <<>> /\ why = "cut"
    \/ phase[c] = "flush" /\ why = "over"
          /\ Len(unlogged[c]) > 1 /\ Head(unlogged[c]).kind = "tool_call"

\* The answer so far, as a row if there is one.  (A run stopped between two
\* turns is taken to have said nothing yet, any other to have said something.)
Answer(c, why) ==
    IF phase[c] = "flush" /\ why = "cut" THEN <<>>
    ELSE <<Row(active[c], "assistant", <<Msg("assistant", <<>>)>>)>>

\* `end` writes the answer and the stop row; the phase remembers the reason.
\* finish_check: a run that said nothing has nothing to check; any other's check
\* may be over, or goes on with the sentences it was given, an abandoned one too.
EndLoop(c) ==
    /\ \E why \in Reasons \ {"none"} :
          /\ CanEnd(c, why)
          /\ phase' = [phase EXCEPT ![c] = why]
          /\ rows' = [rows EXCEPT ![c] = @ \o Answer(c, why) \o <<Row(active[c], "stop", <<>>)>>]
          /\ \/ checks' = checks \ {<<c, active[c]>>}
             \/ Answer(c, why) # <<>> /\ checks' = checks
    /\ unlogged' = [unlogged EXCEPT ![c] = <<>>]
    /\ UNCHANGED <<turns, active, messages, batch, counters, history>>

\* finalize: the reason is saved on the assistant message.
Finalize(c) ==
    /\ phase[c] \in Reasons
    /\ turns' = [turns EXCEPT ![c][Len(turns[c])].reason = phase[c]]
    /\ active' = [active EXCEPT ![c] = NoRun]
    /\ phase' = [phase EXCEPT ![c] = "idle"]
    /\ messages' = [messages EXCEPT ![c] = <<>>]
    /\ UNCHANGED <<rows, unlogged, batch, checks, counters, history>>

\* record_decision: asked for by the run itself, about its turn or its calls, or
\* by the check of an answer, which goes on beside and after the run.
DecisionRow(c) ==
    /\ decisions < MaxDecisions /\ decisions' = decisions + 1
    /\ \E r \in Runs :
          /\ (r = active[c] /\ phase[c] \in {"turn", "batch"}) \/ <<c, r>> \in checks
          /\ rows' = [rows EXCEPT ![c] = Append(@, Row(r, "decision", <<Msg("decision", <<>>)>>))]
    /\ UNCHANGED <<turns, active, phase, messages, unlogged, batch, checks, nextRun, nextCall,
                   faults, history>>
-----------------------------------------------------------------------------
(*************************** branching and crashes **************************)

\* Seeded fault: a branch takes the whole log, wherever the messages are cut.
CutAll(c, n) == Len(rows[c])

\* Where the log is cut for a branch that keeps the first n turns.
Cut(c, n) == IF n = Len(turns[c]) THEN Len(rows[c]) ELSE turns[c][n + 1].at

\* fork_conversation_at: "Try again from here" keeps the turns before one,
\* /fork keeps it as well.  Messages and log rows are copied, run ids included.
Fork(c, d) ==
    /\ Free /\ turns[c] # <<>>
    /\ turns[d] = <<>> /\ \A e \in Convs : e < d => turns[e] # <<>>
    /\ \E n \in 1..Len(turns[c]) :
          /\ turns' = [turns EXCEPT ![d] = SubSeq(turns[c], 1, n)]
          /\ rows' = [rows EXCEPT ![d] = SubSeq(rows[c], 1, Cut(c, n))]
    /\ UNCHANGED <<active, phase, messages, unlogged, batch, checks, counters, history>>

\* The sends that may be under way when the app dies.
UnderWay == {Gone(active[c], batch[c][1], "lost") :
                c \in {d \in Convs : phase[d] = "batch" /\ batch[d][1].send}}

\* The app dies: runs and transcripts go, rows and messages stay.
Crash ==
    /\ faults < MaxFaults /\ faults' = faults + 1
    /\ \E c \in Convs : active[c] # NoRun
    /\ active' = [c \in Convs |-> NoRun] /\ phase' = [c \in Convs |-> "idle"]
    /\ messages' = [c \in Convs |-> <<>>] /\ unlogged' = [c \in Convs |-> <<>>]
    /\ batch' = [c \in Convs |-> <<>>] /\ checks' = {}
    /\ world' = world \cup UnderWay
    /\ UNCHANGED <<rows, turns, nextRun, nextCall, decisions, seen, from>>

Next ==
    \/ \E c \in Convs :
          \/ StartTurn(c) \/ Resume(c) \/ ResumeRefused(c) \/ NoModel(c)
          \/ AskCalls(c) \/ CallReturns(c) \/ FlushRow(c) \/ Request(c)
          \/ EndLoop(c) \/ Finalize(c) \/ DecisionRow(c)
          \/ \E d \in Convs : Fork(c, d)
    \/ Crash

Spec == Init /\ [][Next]_vars
-----------------------------------------------------------------------------
(******************************** properties *******************************)

Calls == [id : 1..MaxCalls, send : BOOLEAN]
Messages == [kind : {"prompt", "note", "tool_call", "ok", "err", "assistant", "decision"}, ids : Seq(Calls)]
Sends == {w \in [run : Runs, call : Calls, out : {"ok", "err", "lost"}] : w.call.send}

\* Types of the log, the messages and the runs in progress.
TypeOK ==
    /\ \A c \in Convs :
          /\ rows[c] \in Seq([run : Runs, msgs : Seq(Messages),
                              kind : {"prompt", "tool_call", "tool_result", "assistant",
                                      "stop", "decision"}])
          /\ turns[c] \in Seq([run : Runs \cup {NoRun}, reason : Reasons, at : Nat])
          /\ active[c] \in Runs \cup {NoRun}
          /\ phase[c] \in Reasons \cup {"idle", "turn", "batch", "flush"}
          /\ messages[c] \in Seq(Messages) /\ unlogged[c] \in Seq(Messages)
          /\ batch[c] \in Seq(Calls)
    /\ checks \subseteq Convs \X Runs
    /\ nextRun \in 1..(MaxRuns + 1) /\ nextCall \in 1..(MaxCalls + 1)
    /\ faults \in 0..MaxFaults /\ decisions \in 0..MaxDecisions
    /\ seen \in [Runs -> Seq(Messages)] /\ from \in [Runs -> Runs \cup {NoRun}]
    /\ world \subseteq Sends

\* The runs there have been.
Started == 1..(nextRun - 1)

\* CTX-T2: "rebuild the exact message array a run sent": through crashes in
\* the middle of a flush and runs that began as the replay of another, the
\* replay of a run begins with what the model was last sent.
ReplayExactEver == \A r \in Started : IsPrefix(seen[r], Replay(r))

\* The same for every run whose conversation was not branched.
ReplayExact == \A r \in Started : Cardinality(Homes(r)) <= 1 => IsPrefix(seen[r], Replay(r))

\* resume_turn: "pick an interrupted run back up with its work intact": a
\* resumed run begins with all the model had seen in the run before it, along
\* any chain of resumes.
ResumeKeepsWork ==
    \A r \in Started : from[r] # NoRun /\ Cardinality(Homes(from[r])) <= 1 =>
        IsPrefix(seen[from[r]], seen[r])

\* LRN-2: "never do again what has already left the machine".  However a run
\* ended, crashed or was branched or resumed itself: if it is resumed, no send of
\* it came back done and none was under way when the app died; and one that may
\* have left but came back as an error, which resume_turn does not count, is in
\* what the resumed run sends its model, as a call that failed.
ResumeNeverRepeats ==
    \A r \in Started : \A w \in world :
        from[r] = w.run => w.out = "err" /\ Msg("err", <<w.call>>) \in Range(seen[r])

\* AgentRun.tsx: "'continue' has one meaning and it is the run at the end":
\* where continuing is offered, the run it would pick up is the one whose
\* answer is the last message, in the original and in every branch.
ContinueMeansTheLastRun ==
    \A c \in Convs : Offered(c) /\ Free => LastLogged(c) = turns[c][Len(turns[c])].run
=============================================================================
