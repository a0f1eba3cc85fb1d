--------------------------- MODULE RunLoopProofs ---------------------------
(***************************************************************************)
(* What the loop of a run promises for every step limit, every cap on nudges *)
(* and free turns, every batch and every number of steering messages.        *)
(***************************************************************************)
EXTENDS RunLoop, FlattenProofs, TLAPS

\* The counters, and where the wrap-up turn stands with the step budget: as
\* long as the run may still be asked, the step it is about to spend is there.
BudgetInv ==
    /\ pc \in {"start", "prepare", "request", "wrapup", "dispatch", "ended", "dead"}
    /\ tools \in BOOLEAN
    /\ iteration \in Nat /\ free \in 0..MaxFree
    /\ wrap \in {"none", "timeout", "max_steps"}
    /\ tools /\ wrap = "none" => iteration + 1 <= MaxIterations + free
    /\ tools /\ wrap # "none" => /\ iteration <= MaxIterations + free
                                 /\ pc \in {"wrapup", "ended", "dead"}

\* Every step keeps the budget.
LEMMA BudgetStep == BudgetInv /\ [Next]_vars => BudgetInv'
<1> SUFFICES ASSUME BudgetInv, [Next]_vars PROVE BudgetInv'
  OBVIOUS
<1> USE RunLoopAssumption
<1>1. ASSUME UNCHANGED <<tools, iteration, free, wrap>>,
             pc' \in {"start", "prepare", "request", "wrapup", "dispatch", "ended", "dead"},
             pc' \in {"ended", "dead"} \/ pc \notin {"wrapup", "ended", "dead"} \/ pc' = pc
      PROVE  BudgetInv'
  BY <1>1 DEF BudgetInv
<1>2. ASSUME Prepare PROVE BudgetInv'
  <2>1. UNCHANGED <<tools, free>> /\ iteration' = iteration + 1 /\ pc = "prepare"
    BY <1>2 DEF Prepare
  <2>2. wrap' \in IF wrap = "none" /\ tools THEN Spent ELSE {wrap}
    BY <1>2 DEF Prepare
  <2>3. pc' = IF wrap' # "none" THEN "wrapup" ELSE "request"
    BY <1>2 DEF Prepare
  <2>4. QED
    BY <2>1, <2>2, <2>3 DEF BudgetInv, Spent, Charged
<1>3. ASSUME NEW b \in Batches \cup {<<"builtin">>}, StartBatch(b), pc \in {"start", "request"},
             UNCHANGED <<tools, iteration, wrap>>
      PROVE  BudgetInv'
  BY <1>3 DEF StartBatch, BudgetInv
<1>4. ASSUME PreloadSkill \/ TurnCalls PROVE BudgetInv'
  BY <1>3, <1>4 DEF PreloadSkill, TurnCalls
<1>5. ASSUME Crash PROVE BudgetInv'
  BY <1>5 DEF Crash, BudgetInv
<1>6. ASSUME Begin \/ PrepareStopped PROVE BudgetInv'
  BY <1>1, <1>6 DEF Begin, PrepareStopped, countVars
<1>7. ASSUME TurnNarrates \/ TurnEmpty \/ TurnPlanOpen \/ TurnUnverified PROVE BudgetInv'
  BY <1>1, <1>7 DEF TurnNarrates, TurnEmpty, TurnPlanOpen, TurnUnverified, countVars
<1>8. ASSUME TurnFinal \/ TurnCut \/ WrapUp PROVE BudgetInv'
  BY <1>1, <1>8 DEF TurnFinal, TurnCut, WrapUp, End, countVars
<1>9. ASSUME StartReads \/ (\E i \in 1..MaxCalls : StartNext(i) \/ FinishCall(i)) \/ Record
      PROVE  BudgetInv'
  BY <1>1, <1>9 DEF StartReads, StartNext, FinishCall, Record, End, countVars
<1>10. ASSUME Steer \/ Stop \/ UNCHANGED vars PROVE BudgetInv'
  BY <1>1, <1>10 DEF Steer, Stop, vars, countVars, BudgetInv
<1>11. QED
  BY <1>2, <1>4, <1>5, <1>6, <1>7, <1>8, <1>9, <1>10 DEF Next, LoopStep

\* RunLimits.max_iterations bounds the turns of a run with tools, whatever mix
\* of calls, nudges, retries and plan updates they were spent on; bookkeeping
\* turns are free, and the free ones are capped.
THEOREM BudgetHolds == Spec => []StepBudget
<1>1. Init => BudgetInv
  BY RunLoopAssumption DEF Init, BudgetInv
<1>2. BudgetInv => StepBudget
  BY RunLoopAssumption DEF BudgetInv, StepBudget
<1>3. QED
  BY <1>1, <1>2, BudgetStep, PTL DEF Spec

\* CHT-2b: a step taken after Stop starts no call and no turn, wherever in the
\* loop or in a batch the Stop fell.
THEOREM StopHolds == Spec => StopIsPrompt
<1> DEFINE Prompt == cancelled => /\ iteration' <= iteration
                                  /\ {i \in DOMAIN outs' : outs'[i] = "going"} \subseteq Going
<1>1. ASSUME BudgetInv, [Next]_vars, cancelled PROVE Prompt
  <2>0. iteration \in Nat
    BY <1>1 DEF BudgetInv
  <2>1. ASSUME iteration' = iteration, outs' = outs \/ \A i \in DOMAIN outs' : outs'[i] = "none"
        PROVE  Prompt
    BY <2>0, <2>1 DEF Going
  <2>2. ASSUME \E i \in 1..MaxCalls : FinishCall(i) PROVE Prompt
    BY <2>0, <2>2 DEF FinishCall, Going, countVars
  <2>3. ASSUME Record \/ Crash PROVE Prompt
    <3>1. outs' = <<>> /\ iteration' \in {0, iteration}
      BY <2>3 DEF Record, Crash, countVars
    <3>2. QED
      BY <2>0, <3>1 DEF Going
  <2>4. ASSUME PreloadSkill \/ TurnCalls PROVE Prompt
    <3>1. PICK b : outs' = [i \in DOMAIN b |-> "none"]
      BY <2>4 DEF PreloadSkill, TurnCalls, StartBatch
    <3>2. iteration' = iteration
      BY <2>4 DEF PreloadSkill, TurnCalls
    <3>3. QED
      BY <2>1, <3>1, <3>2
  <2>5. ~Prepare /\ ~StartReads /\ \A i \in 1..MaxCalls : ~StartNext(i)
    BY <1>1 DEF Prepare, StartReads, StartNext
  <2>6. ASSUME Begin \/ PrepareStopped \/ TurnNarrates \/ TurnEmpty \/ TurnPlanOpen \/ TurnUnverified
               \/ TurnFinal \/ TurnCut \/ WrapUp \/ Steer \/ Stop \/ UNCHANGED vars
        PROVE  Prompt
    <3>1. iteration' = iteration /\ outs' = outs
      BY <2>6 DEF Begin, PrepareStopped, TurnNarrates, TurnEmpty, TurnPlanOpen, TurnUnverified,
         TurnFinal, TurnCut, WrapUp, Steer, Stop, vars, countVars, batchVars
    <3>2. QED
      BY <2>1, <3>1
  <2>7. QED
    BY <1>1, <2>2, <2>3, <2>4, <2>5, <2>6 DEF Next, LoopStep
<1>2. Init => BudgetInv
  BY RunLoopAssumption DEF Init, BudgetInv
<1>3. BudgetInv /\ [Next]_vars => [Prompt]_vars
  BY <1>1
<1>4. QED
  BY <1>2, <1>3, BudgetStep, PTL DEF Spec, StopIsPrompt
-----------------------------------------------------------------------------
(************************* rows, messages and kinds ************************)

\* Messages without some kinds are messages.
LEMMA WithoutType ==
    ASSUME NEW S, NEW s \in Seq(S), NEW ks
    PROVE  Without(s, ks) \in Seq(S)
<1> DEFINE f == [i \in DOMAIN s |-> IF s[i].kind \in ks THEN <<>> ELSE <<s[i]>>]
<1>1. \A i \in 1..Len(s) : s[i] \in S
  OBVIOUS
<1>2. \A x \in S : <<x>> \in Seq(S)
  OBVIOUS
<1>3. <<>> \in Seq(S)
  OBVIOUS
<1>4. f \in [1..Len(s) -> Seq(S)] /\ Len(s) \in Nat
  BY <1>1, <1>2, <1>3
<1> HIDE DEF f
<1>5. f \in Seq(Seq(S))
  BY <1>4
<1>6. FlattenSeq(f) \in Seq(S)
  BY <1>5, FlattenType
<1> QED
  BY <1>6 DEF f, Without

\* Dropping kinds distributes over concatenation.
LEMMA WithoutConcat ==
    ASSUME NEW S, NEW s \in Seq(S), NEW t \in Seq(S), NEW ks
    PROVE  Without(s \o t, ks) = Without(s, ks) \o Without(t, ks)
<1> DEFINE F(x) == IF x.kind \in ks THEN <<>> ELSE <<x>>
           f(u) == [i \in DOMAIN u |-> F(u[i])]
<1>1. ASSUME NEW u \in Seq(S) PROVE f(u) \in Seq(Seq(S)) /\ Len(f(u)) = Len(u)
  <2>1. \A i \in 1..Len(u) : u[i] \in S
    OBVIOUS
  <2>2. \A x \in S : F(x) \in Seq(S)
    OBVIOUS
  <2> HIDE DEF F
  <2>3. f(u) \in [1..Len(u) -> Seq(S)] /\ Len(u) \in Nat
    BY <2>1, <2>2
  <2> QED
    BY <2>3
<1>2. f(s \o t) = f(s) \o f(t)
  <2>1. s \o t \in Seq(S) /\ Len(s \o t) = Len(s) + Len(t) /\ Len(s) \in Nat /\ Len(t) \in Nat
    OBVIOUS
  <2> DEFINE g == f(s) \o f(t)
  <2>2. g \in Seq(Seq(S)) /\ Len(g) = Len(s) + Len(t)
    <3>1. PICK x \in Seq(Seq(S)), y \in Seq(Seq(S)) : x = f(s) /\ y = f(t) /\ Len(x) = Len(s) /\ Len(y) = Len(t)
      BY <1>1
    <3>2. x \o y \in Seq(Seq(S)) /\ Len(x \o y) = Len(x) + Len(y)
      BY ConcatProperties
    <3> HIDE DEF f
    <3> QED
      BY <3>1, <3>2
  <2>3. ASSUME NEW i \in 1..(Len(s) + Len(t)) PROVE g[i] = F((s \o t)[i])
    <3>1. CASE i <= Len(s)
      BY <3>1
    <3>2. CASE i > Len(s)
      <4>1. i - Len(s) \in 1..Len(t) /\ (s \o t)[i] = t[i - Len(s)]
        BY <2>1, <3>2
      <4>2. g[i] = f(t)[i - Len(s)]
        <5>1. f(s) \in Seq(Seq(S)) /\ f(t) \in Seq(Seq(S)) /\ Len(f(s)) = Len(s) /\ Len(f(t)) = Len(t)
          BY <1>1
        <5> HIDE DEF f
        <5> QED
          BY <2>1, <3>2, <5>1, ConcatProperties
      <4>3. f(t)[i - Len(s)] = F(t[i - Len(s)])
        BY <4>1
      <4> QED
        BY <4>1, <4>2, <4>3
    <3> QED
      BY <2>1, <3>1, <3>2
  <2>4. f(s \o t) \in Seq(Seq(S)) /\ Len(f(s \o t)) = Len(s) + Len(t)
    BY <1>1, <2>1
  <2>5. \A i \in 1..(Len(s) + Len(t)) : f(s \o t)[i] = F((s \o t)[i])
    BY <2>1
  <2> HIDE DEF g, f, F
  <2>6. f(s \o t) = g
    BY <2>2, <2>3, <2>4, <2>5, SeqEqual
  <2> QED
    BY <2>6 DEF g
<1>3. /\ Without(s \o t, ks) = FlattenSeq(f(s \o t))
      /\ Without(s, ks) = FlattenSeq(f(s)) /\ Without(t, ks) = FlattenSeq(f(t))
  BY DEF Without
<1> HIDE DEF f, F
<1>4. FlattenSeq(f(s) \o f(t)) = FlattenSeq(f(s)) \o FlattenSeq(f(t))
  BY <1>1, FlattenConcat
<1> QED
  BY <1>2, <1>3, <1>4

\* If every message is of a dropped kind, nothing is left.
LEMMA WithoutAll ==
    ASSUME NEW S, NEW s \in Seq(S), NEW ks, \A i \in 1..Len(s) : s[i].kind \in ks
    PROVE  Without(s, ks) = <<>>
<1> DEFINE f == [i \in DOMAIN s |-> IF s[i].kind \in ks THEN <<>> ELSE <<s[i]>>]
<1>1. f \in [1..Len(s) -> {<<>>}] /\ Len(s) \in Nat
  OBVIOUS
<1> HIDE DEF f
<1>2. f \in Seq({<<>>})
  BY <1>1
<1>3. FlattenSeq(f) = <<>>
  BY <1>2, FlattenEmpties
<1> QED
  BY <1>3 DEF f, Without

\* If no message is, everything is.
LEMMA WithoutNone ==
    ASSUME NEW S, NEW s \in Seq(S), NEW ks, \A i \in 1..Len(s) : s[i].kind \notin ks
    PROVE  Without(s, ks) = s
<1>1. [i \in DOMAIN s |-> IF s[i].kind \in ks THEN <<>> ELSE <<s[i]>>] = [i \in DOMAIN s |-> <<s[i]>>]
  OBVIOUS
<1>2. FlattenSeq([i \in DOMAIN s |-> <<s[i]>>]) = s
  BY FlattenSingles
<1> QED
  BY <1>1, <1>2 DEF Without

\* The numbers of the messages of one kind are numbers.
LEMMA NumbersType ==
    ASSUME NEW s \in Seq(Messages), NEW k
    PROVE  Numbers(s, k) \in Seq(Nat)
<1> DEFINE f == [i \in DOMAIN s |-> IF s[i].kind = k THEN <<s[i].n>> ELSE <<>>]
<1>0. \A i \in 1..Len(s) : s[i] \in Messages
  OBVIOUS
<1>1. \A i \in 1..Len(s) : s[i].n \in Nat
  BY <1>0 DEF Messages
<1>2. \A x \in Nat : <<x>> \in Seq(Nat)
  OBVIOUS
<1>3. <<>> \in Seq(Nat)
  OBVIOUS
<1>4. f \in [1..Len(s) -> Seq(Nat)] /\ Len(s) \in Nat
  BY <1>1, <1>2, <1>3
<1> HIDE DEF f
<1>5. f \in Seq(Seq(Nat))
  BY <1>4
<1>6. FlattenSeq(f) \in Seq(Nat)
  BY <1>5, FlattenType
<1> QED
  BY <1>6 DEF f, Numbers

\* They distribute over concatenation.
LEMMA NumbersConcat ==
    ASSUME NEW s \in Seq(Messages), NEW t \in Seq(Messages), NEW k
    PROVE  Numbers(s \o t, k) = Numbers(s, k) \o Numbers(t, k)
<1> DEFINE F(x) == IF x.kind = k THEN <<x.n>> ELSE <<>>
           f(u) == [i \in DOMAIN u |-> F(u[i])]
<1>1. ASSUME NEW u \in Seq(Messages) PROVE f(u) \in Seq(Seq(Nat)) /\ Len(f(u)) = Len(u)
  <2>1. \A i \in 1..Len(u) : u[i] \in Messages
    OBVIOUS
  <2>2. \A x \in Messages : F(x) \in Seq(Nat)
    BY DEF Messages
  <2> HIDE DEF F
  <2>3. f(u) \in [1..Len(u) -> Seq(Nat)] /\ Len(u) \in Nat
    BY <2>1, <2>2
  <2> QED
    BY <2>3
<1>2. f(s \o t) = f(s) \o f(t)
  <2>1. s \o t \in Seq(Messages) /\ Len(s \o t) = Len(s) + Len(t) /\ Len(s) \in Nat /\ Len(t) \in Nat
    OBVIOUS
  <2> DEFINE g == f(s) \o f(t)
  <2>2. g \in Seq(Seq(Nat)) /\ Len(g) = Len(s) + Len(t)
    <3>1. PICK x \in Seq(Seq(Nat)), y \in Seq(Seq(Nat)) : x = f(s) /\ y = f(t) /\ Len(x) = Len(s) /\ Len(y) = Len(t)
      BY <1>1
    <3>2. x \o y \in Seq(Seq(Nat)) /\ Len(x \o y) = Len(x) + Len(y)
      BY ConcatProperties
    <3> HIDE DEF f
    <3> QED
      BY <3>1, <3>2
  <2>3. ASSUME NEW i \in 1..(Len(s) + Len(t)) PROVE g[i] = F((s \o t)[i])
    <3>1. CASE i <= Len(s)
      BY <3>1
    <3>2. CASE i > Len(s)
      <4>1. i - Len(s) \in 1..Len(t) /\ (s \o t)[i] = t[i - Len(s)]
        BY <2>1, <3>2
      <4>2. g[i] = f(t)[i - Len(s)]
        <5>1. f(s) \in Seq(Seq(Nat)) /\ f(t) \in Seq(Seq(Nat)) /\ Len(f(s)) = Len(s) /\ Len(f(t)) = Len(t)
          BY <1>1
        <5> HIDE DEF f
        <5> QED
          BY <2>1, <3>2, <5>1, ConcatProperties
      <4>3. f(t)[i - Len(s)] = F(t[i - Len(s)])
        BY <4>1
      <4> QED
        BY <4>1, <4>2, <4>3
    <3> QED
      BY <2>1, <3>1, <3>2
  <2>4. f(s \o t) \in Seq(Seq(Nat)) /\ Len(f(s \o t)) = Len(s) + Len(t)
    BY <1>1, <2>1
  <2>5. \A i \in 1..(Len(s) + Len(t)) : f(s \o t)[i] = F((s \o t)[i])
    BY <2>1
  <2> HIDE DEF g, f, F
  <2>6. f(s \o t) = g
    BY <2>2, <2>3, <2>4, <2>5, SeqEqual
  <2> QED
    BY <2>6 DEF g
<1>3. /\ Numbers(s \o t, k) = FlattenSeq(f(s \o t))
      /\ Numbers(s, k) = FlattenSeq(f(s)) /\ Numbers(t, k) = FlattenSeq(f(t))
  BY DEF Numbers
<1> HIDE DEF f, F
<1>4. FlattenSeq(f(s) \o f(t)) = FlattenSeq(f(s)) \o FlattenSeq(f(t))
  BY <1>1, FlattenConcat
<1> QED
  BY <1>2, <1>3, <1>4

\* Without a message of the kind there are none.
LEMMA NumbersNone ==
    ASSUME NEW s \in Seq(Messages), NEW k, \A i \in 1..Len(s) : s[i].kind # k
    PROVE  Numbers(s, k) = <<>>
<1> DEFINE f == [i \in DOMAIN s |-> IF s[i].kind = k THEN <<s[i].n>> ELSE <<>>]
<1>1. f \in [1..Len(s) -> {<<>>}] /\ Len(s) \in Nat
  OBVIOUS
<1> HIDE DEF f
<1>2. f \in Seq({<<>>})
  BY <1>1
<1>3. FlattenSeq(f) = <<>>
  BY <1>2, FlattenEmpties
<1> QED
  BY <1>3 DEF f, Numbers

\* A message per number: the numbers are those.
LEMMA NumbersAll ==
    ASSUME NEW ns \in Seq(Nat), NEW k \in Kinds
    PROVE  /\ [i \in DOMAIN ns |-> Msg(k, ns[i])] \in Seq(Messages)
           /\ Numbers([i \in DOMAIN ns |-> Msg(k, ns[i])], k) = ns
<1> DEFINE s == [i \in DOMAIN ns |-> Msg(k, ns[i])]
<1>1. \A i \in 1..Len(ns) : ns[i] \in Nat
  OBVIOUS
<1>2. \A n \in Nat : Msg(k, n) \in Messages /\ Msg(k, n).kind = k /\ Msg(k, n).n = n
  BY DEF Msg, Messages
<1>3. s \in [1..Len(ns) -> Messages] /\ Len(ns) \in Nat
  BY <1>1, <1>2
<1>4. DOMAIN s = DOMAIN ns /\ \A i \in DOMAIN ns : s[i].kind = k /\ s[i].n = ns[i]
  BY <1>1, <1>2
<1> HIDE DEF s
<1>5. s \in Seq(Messages)
  BY <1>3
<1>6. [i \in DOMAIN s |-> IF s[i].kind = k THEN <<s[i].n>> ELSE <<>>] = [i \in DOMAIN ns |-> <<ns[i]>>]
  BY <1>4
<1>7. FlattenSeq([i \in DOMAIN ns |-> <<ns[i]>>]) = ns
  BY FlattenSingles
<1>8. Numbers(s, k) = ns
  BY <1>6, <1>7 DEF Numbers
<1> QED
  BY <1>5, <1>8 DEF s
-----------------------------------------------------------------------------
(********************************** types **********************************)

\* What a turn adds to the transcript, and what a transcript that is still
\* going on consists of.
Fresh  == [kind : {"assistant", "tool_call", "tool_result", "system_note"}, n : Nat, cleared : {FALSE}]
Spoken == [kind : {"prompt", "user", "assistant", "tool_call", "tool_result", "system_note"},
           n : Nat, cleared : BOOLEAN]

\* These are messages.
LEMMA MessageTypes ==
    /\ Fresh \subseteq Spoken /\ Spoken \subseteq Messages
    /\ \A k \in Kinds, n \in Nat : Msg(k, n) \in Messages
    /\ Note \in Fresh /\ \A t : FixNote(t) \in Fresh
    /\ \A n \in Nat : Msg("assistant", n) \in Fresh /\ Msg("tool_call", n) \in Fresh
                      /\ Msg("tool_result", n) \in Fresh
  BY DEF Fresh, Spoken, Messages, Kinds, Msg, Note, FixNote

\* The results of a batch, in call order, are a sequence of fresh messages.
LEMMA ResultTypes ==
    ASSUME NEW n \in Nat, n = Len(outs), outs \in Seq({"none", "going", "ok", "err"})
    PROVE  /\ [i \in DOMAIN outs |-> ResultOf(i)] \in Seq(Seq(Fresh))
           /\ FlattenSeq([i \in DOMAIN outs |-> ResultOf(i)]) \in Seq(Fresh)
<1> DEFINE rs == [i \in DOMAIN outs |-> ResultOf(i)]
<1>1. DOMAIN outs = 1..n
  OBVIOUS
<1>2. ASSUME NEW i \in 1..n PROVE ResultOf(i) \in Seq(Fresh)
  <2>1. Msg("tool_result", i) \in Fresh /\ FixNote(calls[i]) \in Fresh
    BY MessageTypes
  <2>2. <<Msg("tool_result", i)>> \in Seq(Fresh) /\ <<FixNote(calls[i])>> \in Seq(Fresh) /\ <<>> \in Seq(Fresh)
    BY <2>1
  <2> QED
    BY <2>2 DEF ResultOf
<1>3. rs \in [1..n -> Seq(Fresh)]
  BY <1>1, <1>2
<1> HIDE DEF rs
<1>4. rs \in Seq(Seq(Fresh))
  BY <1>3
<1> QED
  BY <1>4, FlattenType DEF rs

\* The rows at the end of a run.
LEMMA EndTypes == \A text \in BOOLEAN : EndRows(text) \in Seq(Messages)
<1>1. Msg("assistant", 0) \in Messages /\ Msg("stop", 0) \in Messages
  BY MessageTypes DEF Kinds
<1> QED
  BY <1>1 DEF EndRows

\* What Nudge adds.
LEMMA NudgeTypes ==
    ASSUME messages \in Seq(Messages), NEW text \in BOOLEAN
    PROVE  /\ Nudge(text) = messages \o ((IF text THEN <<Msg("assistant", 0)>> ELSE <<>>) \o <<Note>>)
           /\ (IF text THEN <<Msg("assistant", 0)>> ELSE <<>>) \o <<Note>> \in Seq(Fresh)
<1> DEFINE words == IF text THEN <<Msg("assistant", 0)>> ELSE <<>>
<1>1. Msg("assistant", 0) \in Fresh /\ Note \in Fresh /\ Fresh \subseteq Messages
  BY MessageTypes
<1>2. words \in Seq(Fresh) /\ <<Note>> \in Seq(Fresh) /\ words \in Seq(Messages) /\ <<Note>> \in Seq(Messages)
  BY <1>1
<1>3. Nudge(text) = (messages \o words) \o <<Note>>
  BY DEF Nudge
<1> HIDE DEF words
<1>4. (messages \o words) \o <<Note>> = messages \o (words \o <<Note>>)
  BY <1>2, ConcatAssociative
<1>5. words \o <<Note>> \in Seq(Fresh)
  BY <1>2
<1> QED
  BY <1>3, <1>4, <1>5 DEF words

\* The types, with a place for each call of the batch, and a watermark that is
\* inside the transcript.
Alive == pc \notin {"ended", "dead"}
LoopTypes ==
    /\ BudgetInv /\ TypeOK
    /\ Len(calls) = Len(outs)
    /\ Alive => logged <= Len(messages)

\* What a step may do to the transcript, the log and the inbox.
Quietly ==
    /\ UNCHANGED <<messages, logged, sent, inbox, steers>>
    /\ log' = log \/ (log' = log \o <<Msg("plan", 0)>> /\ pc = "dispatch")
    /\ pc' = pc \/ (pc = "start" /\ pc' = "prepare")
Steered ==
    /\ UNCHANGED <<messages, logged, log, sent, pc>> /\ Alive
    /\ steers < MaxSteers /\ steers' = steers + 1 /\ inbox' = Append(inbox, steers + 1)
Speaks ==
    /\ UNCHANGED <<logged, log, sent, inbox, steers>> /\ Alive /\ pc' \in {"prepare", "dispatch"}
    /\ \E m \in Seq(Fresh) : messages' = messages \o m
Leaves ==
    /\ UNCHANGED <<logged, sent, inbox, steers>> /\ Alive /\ pc' = "ended"
    /\ \E m \in Seq(Fresh) : messages' = messages \o m
    /\ \E text \in BOOLEAN : log' = log \o EndRows(text)

\* Every step is one of these.
LEMMA Effects ==
    ASSUME LoopTypes, [Next]_vars
    PROVE  Quietly \/ Steered \/ Speaks \/ Leaves \/ WrapUp \/ PrepareStopped \/ Prepare \/ Crash
<1> DEFINE Goal == Quietly \/ Steered \/ Speaks \/ Leaves \/ WrapUp \/ PrepareStopped \/ Prepare \/ Crash
<1>0. messages \in Seq(Messages) /\ log \in Seq(Messages) /\ said \in BOOLEAN
  BY DEF LoopTypes, TypeOK
<1>1. ASSUME Begin \/ StartReads \/ (\E i \in 1..MaxCalls : StartNext(i)) \/ Stop \/ UNCHANGED vars PROVE Goal
  BY <1>1 DEF Begin, StartReads, StartNext, Stop, vars, inVars, Quietly
<1>2. ASSUME NEW i \in 1..MaxCalls, FinishCall(i) PROVE Goal
  <2>1. Msg("plan", 0) \in Messages
    BY MessageTypes DEF Kinds
  <2>2. Append(log, Msg("plan", 0)) = log \o <<Msg("plan", 0)>>
    BY <1>0, <2>1, AppendIsConcat
  <2> QED
    BY <1>2, <2>2 DEF FinishCall, inVars, Quietly
<1>3. ASSUME Steer PROVE Goal
  BY <1>3 DEF Steer, Steered, Alive
<1>4. ASSUME NEW b, Len(b) \in Nat, StartBatch(b) PROVE \E m \in Seq(Fresh) : messages' = messages \o m
  <2>1. Msg("tool_call", Len(b)) \in Fresh /\ Msg("tool_call", Len(b)) \in Messages
    BY <1>4, MessageTypes
  <2>2. messages' = messages \o <<Msg("tool_call", Len(b))>>
    BY <1>0, <1>4, <2>1, AppendIsConcat DEF StartBatch
  <2>3. <<Msg("tool_call", Len(b))>> \in Seq(Fresh)
    BY <2>1
  <2> QED
    BY <2>2, <2>3
<1>5. ASSUME PreloadSkill PROVE Goal
  <2>1. \E m \in Seq(Fresh) : messages' = messages \o m
    BY <1>4, <1>5 DEF PreloadSkill
  <2> QED
    BY <1>5, <2>1 DEF PreloadSkill, StartBatch, Speaks, Alive, inVars
<1>6. ASSUME TurnCalls PROVE Goal
  <2>1. PICK b \in Batches : StartBatch(b)
    BY <1>6 DEF TurnCalls
  <2>2. Len(b) \in Nat
    BY <2>1 DEF Batches
  <2>3. \E m \in Seq(Fresh) : messages' = messages \o m
    BY <1>4, <2>1, <2>2
  <2> QED
    BY <1>6, <2>1, <2>3 DEF TurnCalls, StartBatch, Speaks, Alive, inVars
<1>7. ASSUME TurnNarrates \/ TurnEmpty \/ TurnPlanOpen \/ TurnUnverified PROVE Goal
  <2>1. PICK text \in BOOLEAN : messages' = Nudge(text)
    BY <1>7 DEF TurnNarrates, TurnEmpty, TurnPlanOpen, TurnUnverified
  <2>2. \E m \in Seq(Fresh) : messages' = messages \o m
    BY <1>0, <2>1, NudgeTypes
  <2> QED
    BY <1>7, <2>2 DEF TurnNarrates, TurnEmpty, TurnPlanOpen, TurnUnverified, Speaks, Alive, inVars
<1>8. ASSUME TurnFinal \/ TurnCut PROVE Goal
  <2>1. <<>> \in Seq(Fresh) /\ messages \o <<>> = messages
    BY <1>0
  <2>2. \E m \in Seq(Fresh) : messages' = messages \o m
    BY <1>8, <2>1 DEF TurnFinal, TurnCut
  <2>3. \E text \in BOOLEAN : log' = log \o EndRows(text)
    BY <1>0, <1>8 DEF TurnFinal, TurnCut, End, Streamed
  <2> QED
    BY <1>8, <2>2, <2>3 DEF TurnFinal, TurnCut, End, Leaves, Alive, inVars
<1>9. ASSUME Record PROVE Goal
  <2>1. outs \in Seq({"none", "going", "ok", "err"}) /\ Len(outs) \in Nat
    BY DEF LoopTypes, TypeOK
  <2>2. \E m \in Seq(Fresh) : messages' = messages \o m
    BY <1>9, <2>1, ResultTypes DEF Record
  <2>3. CASE waiting
    BY <1>9, <2>2, <2>3 DEF Record, End, Leaves, Alive, inVars
  <2>4. CASE ~waiting
    BY <1>9, <2>2, <2>4 DEF Record, Speaks, Alive, inVars
  <2> QED
    BY <2>3, <2>4
<1> QED
  BY <1>1, <1>2, <1>3, <1>5, <1>6, <1>7, <1>8, <1>9 DEF Next, LoopStep

\* What is past the watermark is a sequence of messages.
LEMMA PendingTypes ==
    ASSUME NEW S, messages \in Seq(S), logged \in Nat, logged <= Len(messages)
    PROVE  /\ Pending \in Seq(S) /\ Len(Pending) = Len(messages) - logged
           /\ \A i \in 1..Len(Pending) : Pending[i] = messages[logged + i]
           /\ SubSeq(messages, 1, logged) \in Seq(S) /\ messages = SubSeq(messages, 1, logged) \o Pending
<1>0. Len(messages) \in Nat
  OBVIOUS
<1>1. /\ SubSeq(messages, logged + 1, Len(messages)) \in Seq(S)
      /\ SubSeq(messages, 1, logged) \in Seq(S)
  BY <1>0
<1>2. /\ Len(SubSeq(messages, logged + 1, Len(messages))) = Len(messages) - logged
      /\ Len(SubSeq(messages, 1, logged)) = logged
  BY <1>0
<1>3. \A i \in 1..(Len(messages) - logged) : SubSeq(messages, logged + 1, Len(messages))[i] = messages[logged + i]
  BY <1>0
<1>4. \A i \in 1..logged : SubSeq(messages, 1, logged)[i] = messages[i]
  BY <1>0
<1> DEFINE p == SubSeq(messages, logged + 1, Len(messages))
           q == SubSeq(messages, 1, logged)
<1> HIDE DEF p, q
<1>5. p = Pending
  BY DEF p, Pending
<1>6. /\ p \in Seq(S) /\ q \in Seq(S) /\ Len(p) = Len(messages) - logged /\ Len(q) = logged
      /\ \A i \in 1..(Len(messages) - logged) : p[i] = messages[logged + i]
      /\ \A i \in 1..logged : q[i] = messages[i]
  BY <1>1, <1>2, <1>3, <1>4 DEF p, q
<1>7. q \o p \in Seq(S) /\ Len(q \o p) = Len(messages)
  BY <1>0, <1>6
<1>8. \A i \in 1..Len(messages) : (q \o p)[i] = messages[i]
  <2> SUFFICES ASSUME NEW i \in 1..Len(messages) PROVE (q \o p)[i] = messages[i]
    OBVIOUS
  <2>1. CASE i <= logged
    BY <1>0, <1>6, <2>1
  <2>2. CASE i > logged
    <3>1. i - logged \in 1..(Len(messages) - logged) /\ logged + (i - logged) = i
      BY <1>0, <2>2
    <3>2. (q \o p)[i] = p[i - logged]
      BY <1>0, <1>6, <2>2, ConcatProperties
    <3> QED
      BY <1>6, <3>1, <3>2
  <2>3. i <= logged \/ i > logged
    BY <1>0
  <2> QED
    BY <2>1, <2>2, <2>3
<1>9. messages = q \o p
  BY <1>7, <1>8, SeqEqual
<1> QED
  BY <1>5, <1>6, <1>9 DEF q

\* What open_turn adds, and the rows it writes beside it.
Asked == [kind : {"user", "system_note"}, n : Nat, cleared : {FALSE}]
SteerRows == [i \in DOMAIN inbox |-> Msg("steer", inbox[i])]

\* What prepare_turn does to the transcript and the log.
Prepares(new, S) ==
    /\ messages' = Cleared(messages, S) \o new
    /\ log' = (log \o ((Pending \o SteerRows) \o new)) \o MadeRoom(S)
    /\ logged' = Len(messages) + Len(new)
    /\ new = Drained \o <<>> \/ new = Drained \o <<Note>>

\* prepare_turn does that, with what arrived in the inbox and for some of the
\* old results.
LEMMA PrepareMoves ==
    ASSUME LoopTypes, Prepare
    PROVE  /\ inbox \in Seq(Nat) /\ Drained \in Seq(Asked) /\ SteerRows \in Seq(Messages)
           /\ \E new \in Seq(Asked), S \in SUBSET Old : Prepares(new, S)
           /\ sent' = messages' /\ inbox' = <<>> /\ steers' = steers /\ pc = "prepare"
           /\ pc' \in {"wrapup", "request"}
<1>1. inbox \in Seq(1..MaxSteers) /\ MaxSteers \in Nat
  BY RunLoopAssumption DEF LoopTypes, TypeOK
<1>2. inbox \in Seq(Nat)
  BY <1>1
<1>3. \A i \in 1..Len(inbox) : inbox[i] \in Nat
  BY <1>2
<1>4. \A n \in Nat : Msg("user", n) \in Asked /\ Msg("steer", n) \in Messages
  BY DEF Msg, Asked, Messages, Kinds
<1>5. Drained \in [1..Len(inbox) -> Asked] /\ SteerRows \in [1..Len(inbox) -> Messages] /\ Len(inbox) \in Nat
  BY <1>2, <1>3, <1>4 DEF Drained, SteerRows
<1>6. Drained \in Seq(Asked) /\ SteerRows \in Seq(Messages)
  BY <1>5
<1>7. Note \in Asked
  BY DEF Note, Msg, Asked
<1>8. <<Note>> \in Seq(Asked) /\ <<>> \in Seq(Asked)
  BY <1>7
<1> DEFINE note == IF wrap' # wrap THEN <<Note>> ELSE <<>>
           new  == Drained \o note
<1>9. note = <<>> \/ note = <<Note>>
  OBVIOUS
<1>10. /\ \E S \in SUBSET Old : /\ messages' = Cleared(messages, S) \o new
                                /\ log' = log \o Flushed(new).rows \o MadeRoom(S)
       /\ logged' = Flushed(new).upto
  BY DEF Prepare
<1> HIDE DEF note
<1>11. new \in Seq(Asked) /\ (new = Drained \o <<>> \/ new = Drained \o <<Note>>)
  <2>1. PICK d \in Seq(Asked) : d = Drained
    BY <1>6
  <2>2. d \o <<>> \in Seq(Asked) /\ d \o <<Note>> \in Seq(Asked)
    BY <1>8, ConcatProperties
  <2> QED
    BY <1>9, <2>1, <2>2
<1> HIDE DEF new
<1>12. \E S \in SUBSET Old : Prepares(new, S)
  BY <1>10, <1>11 DEF Prepares, Flushed, SteerRows
<1>13. /\ sent' = messages' /\ inbox' = <<>> /\ steers' = steers /\ pc = "prepare"
       /\ pc' \in {"wrapup", "request"}
  BY DEF Prepare
<1> QED
  BY <1>2, <1>6, <1>11, <1>12, <1>13

\* Clearing changes no length and no kind, and new messages are messages.
LEMMA ClearedTypes ==
    ASSUME NEW M, messages \in Seq(M), NEW S,
           \A x \in M : [x EXCEPT !.cleared = TRUE] \in M
    PROVE  /\ Cleared(messages, S) \in Seq(M) /\ Len(Cleared(messages, S)) = Len(messages)
           /\ \A i \in 1..Len(messages) : Cleared(messages, S)[i] =
                 IF i \in S THEN [messages[i] EXCEPT !.cleared = TRUE] ELSE messages[i]
<1>1. \A i \in 1..Len(messages) : messages[i] \in M
  OBVIOUS
<1>2. Cleared(messages, S) \in [1..Len(messages) -> M] /\ Len(messages) \in Nat
  BY <1>1 DEF Cleared
<1>3. Cleared(messages, S) \in Seq(M) /\ Len(Cleared(messages, S)) = Len(messages)
  BY <1>2
<1>4. DOMAIN messages = 1..Len(messages)
  OBVIOUS
<1>5. \A i \in DOMAIN messages : Cleared(messages, S)[i] =
         IF i \in S THEN [messages[i] EXCEPT !.cleared = TRUE] ELSE messages[i]
  BY ONLY TRUE DEF Cleared
<1> QED
  BY <1>3, <1>4, <1>5

\* The transcript, the log and the inbox.
TranscriptTypes ==
    /\ messages \in Seq(Messages) /\ log \in Seq(Messages) /\ sent \in Seq(Messages)
    /\ logged \in Nat
    /\ inbox \in Seq(1..MaxSteers) /\ steers \in 0..MaxSteers
    /\ Alive => logged <= Len(messages)

\* Every step keeps their types.
LEMMA TranscriptStep == ASSUME LoopTypes, [Next]_vars PROVE TranscriptTypes'
<1>0. TranscriptTypes /\ MaxSteers \in Nat /\ Len(messages) \in Nat
  BY RunLoopAssumption DEF LoopTypes, TypeOK, TranscriptTypes
<1>1. Fresh \subseteq Messages /\ Asked \subseteq Messages
  BY MessageTypes DEF Asked, Messages, Kinds
<1>2. ASSUME NEW m \in Seq(Fresh) \cup Seq(Asked) \cup Seq(Messages), NEW u \in Seq(Messages)
      PROVE  u \o m \in Seq(Messages) /\ Len(u \o m) = Len(u) + Len(m) /\ Len(m) \in Nat
  <2>1. m \in Seq(Messages)
    BY <1>1, <1>2, SeqMonotonic
  <2> QED
    BY <2>1
<1>3. ASSUME Quietly PROVE TranscriptTypes'
  <2>1. <<Msg("plan", 0)>> \in Seq(Messages)
    BY MessageTypes DEF Kinds
  <2>2. log' \in Seq(Messages)
    BY <1>0, <1>2, <1>3, <2>1 DEF Quietly, TranscriptTypes
  <2> QED
    BY <1>0, <1>3, <2>2 DEF Quietly, TranscriptTypes, Alive
<1>4. ASSUME Steered PROVE TranscriptTypes'
  <2>1. inbox' \in Seq(1..MaxSteers) /\ steers' \in 0..MaxSteers
    <3>1. steers + 1 \in 1..MaxSteers
      BY <1>0, <1>4 DEF Steered, TranscriptTypes
    <3> QED
      BY <1>0, <1>4, <3>1 DEF Steered, TranscriptTypes
  <2> QED
    BY <1>0, <1>4, <2>1 DEF Steered, TranscriptTypes, Alive
<1>5. ASSUME Speaks \/ Leaves PROVE TranscriptTypes'
  <2>1. PICK m \in Seq(Fresh) : messages' = messages \o m
    BY <1>5 DEF Speaks, Leaves
  <2>2. messages' \in Seq(Messages) /\ Len(messages') = Len(messages) + Len(m) /\ Len(m) \in Nat
    BY <1>0, <1>2, <2>1 DEF TranscriptTypes
  <2>3. log' \in Seq(Messages)
    BY <1>0, <1>2, <1>5, EndTypes DEF Speaks, Leaves, TranscriptTypes
  <2> QED
    BY <1>0, <1>5, <2>2, <2>3 DEF Speaks, Leaves, TranscriptTypes, Alive
<1>6. ASSUME WrapUp PROVE TranscriptTypes'
  <2>1. Msg("plan_line", 0) \in Messages
    BY MessageTypes DEF Kinds
  <2>2. messages' \in Seq(Messages) /\ sent' = messages'
    BY <1>0, <1>6, <2>1 DEF WrapUp, TranscriptTypes
  <2>3. PICK text \in BOOLEAN : log' = log \o EndRows(text)
    BY <1>6 DEF WrapUp, End, Streamed, LoopTypes, TypeOK
  <2>4. log' \in Seq(Messages)
    BY <1>0, <1>2, <2>3, EndTypes DEF TranscriptTypes
  <2>5. UNCHANGED <<logged, inbox, steers>> /\ pc' = "ended"
    BY <1>6 DEF WrapUp, End, inVars
  <2> QED
    BY <1>0, <2>2, <2>4, <2>5 DEF TranscriptTypes, Alive
<1>7. ASSUME pc = "prepare" PROVE Pending \in Seq(Messages)
  BY <1>0, <1>7, PendingTypes DEF TranscriptTypes, Alive
<1>8. ASSUME PrepareStopped PROVE TranscriptTypes'
  <2>1. Pending \in Seq(Messages)
    BY <1>7, <1>8 DEF PrepareStopped
  <2>2. log' = (log \o Pending) \o EndRows(said) /\ said \in BOOLEAN
    BY <1>8 DEF PrepareStopped, LoopTypes, TypeOK
  <2>3. log \o Pending \in Seq(Messages)
    BY <1>0, <1>2, <2>1 DEF TranscriptTypes
  <2>4. log' \in Seq(Messages)
    BY <1>2, <2>2, <2>3, EndTypes
  <2>5. UNCHANGED <<messages, sent, inbox, steers>> /\ logged' = Len(messages) /\ pc' = "ended"
    BY <1>8 DEF PrepareStopped, inVars
  <2> QED
    BY <1>0, <2>4, <2>5 DEF TranscriptTypes, Alive
<1>9. ASSUME Prepare PROVE TranscriptTypes'
  <2>1. Pending \in Seq(Messages)
    BY <1>7, <1>9 DEF Prepare
  <2>2. PICK new \in Seq(Asked), S \in SUBSET Old : Prepares(new, S)
    BY <1>9, PrepareMoves
  <2>3. SteerRows \in Seq(Messages) /\ sent' = messages' /\ inbox' = <<>> /\ steers' = steers
    BY <1>9, PrepareMoves
  <2>4. MadeRoom(S) \in Seq(Messages)
    <3>1. Msg("command", 0) \in Messages
      BY MessageTypes DEF Kinds
    <3> QED
      BY <3>1 DEF MadeRoom
  <2>5. \A x \in Messages : [x EXCEPT !.cleared = TRUE] \in Messages
    BY DEF Messages
  <2>6. Cleared(messages, S) \in Seq(Messages) /\ Len(Cleared(messages, S)) = Len(messages)
    BY <1>0, <2>5, ClearedTypes DEF TranscriptTypes
  <2>7. messages' \in Seq(Messages) /\ Len(messages') = Len(messages) + Len(new) /\ Len(new) \in Nat
    BY <1>2, <2>2, <2>6 DEF Prepares
  <2>8. log' \in Seq(Messages)
    <3>1. Pending \o SteerRows \in Seq(Messages)
      BY <1>2, <2>1, <2>3
    <3>2. (Pending \o SteerRows) \o new \in Seq(Messages)
      BY <1>2, <3>1
    <3>3. log \o ((Pending \o SteerRows) \o new) \in Seq(Messages)
      BY <1>0, <1>2, <3>2 DEF TranscriptTypes
    <3> QED
      BY <1>2, <2>2, <2>4, <3>3 DEF Prepares
  <2>9. logged' \in Nat /\ logged' = Len(messages')
    BY <1>0, <2>2, <2>7 DEF Prepares
  <2> QED
    BY <1>0, <2>3, <2>7, <2>8, <2>9 DEF TranscriptTypes
<1>10. ASSUME Crash PROVE TranscriptTypes'
  <2>1. log' \in Seq(Messages)
    <3>1. CASE pc = "prepare"
      <4>1. PICK k \in 0..Len(Pending) : log' = log \o SubSeq(Pending, 1, k)
        BY <1>10, <3>1 DEF Crash
      <4>2. SubSeq(Pending, 1, k) \in Seq(Messages)
        BY <1>7, <3>1
      <4> QED
        BY <1>0, <1>2, <4>1, <4>2 DEF TranscriptTypes
    <3>2. CASE pc # "prepare"
      BY <1>0, <1>10, <3>2 DEF Crash, TranscriptTypes
    <3> QED
      BY <3>1, <3>2
  <2> QED
    BY <1>0, <1>10, <2>1 DEF Crash, TranscriptTypes, Alive
<1> QED
  BY <1>3, <1>4, <1>5, <1>6, <1>8, <1>9, <1>10, Effects
\* The counters and flags a run keeps besides.
FlagTypes ==
    /\ narration \in 0..MaxNarration /\ empties \in 0..MaxEmpty /\ planNudges \in 0..MaxPlanNudges
    /\ said \in BOOLEAN /\ planOpen \in BOOLEAN /\ reminded \in BOOLEAN
    /\ cancelled \in BOOLEAN /\ reason \in Reasons \cup {"none"}

\* Every step keeps their types.
LEMMA FlagStep == ASSUME LoopTypes, [Next]_vars PROVE FlagTypes'
<1>0. FlagTypes /\ wrap \in {"none", "timeout", "max_steps"} /\ tools \in BOOLEAN
  BY DEF LoopTypes, TypeOK, FlagTypes
<1> USE RunLoopAssumption
<1>1. ASSUME Begin \/ PreloadSkill \/ Prepare \/ StartReads \/ (\E i \in 1..MaxCalls : StartNext(i))
             \/ Steer \/ UNCHANGED vars
      PROVE  FlagTypes'
  BY <1>0, <1>1 DEF Begin, PreloadSkill, Prepare, StartReads, StartNext, Steer, vars, countVars, inVars, FlagTypes
<1>2. ASSUME PrepareStopped \/ Stop PROVE FlagTypes'
  BY <1>0, <1>2 DEF PrepareStopped, Stop, countVars, inVars, FlagTypes, Reasons
<1>3. ASSUME TurnCalls \/ TurnNarrates \/ TurnEmpty PROVE FlagTypes'
  <2>1. CASE TurnCalls
    BY <1>0, <2>1 DEF TurnCalls, Streamed, inVars, FlagTypes
  <2>2. CASE TurnNarrates
    <3>1. narration' \in 0..MaxNarration
      BY <1>0, <2>2 DEF TurnNarrates, FlagTypes
    <3>2. said' \in {said, TRUE}
      BY <2>2 DEF TurnNarrates, Streamed
    <3>3. said' \in BOOLEAN
      BY <1>0, <3>2, Zenon DEF FlagTypes
    <3> QED
      BY <1>0, <2>2, <3>1, <3>3 DEF TurnNarrates, inVars, FlagTypes
  <2>3. CASE TurnEmpty
    BY <1>0, <2>3 DEF TurnEmpty, inVars, FlagTypes
  <2> QED
    BY <1>3, <2>1, <2>2, <2>3
<1>4. ASSUME TurnPlanOpen PROVE FlagTypes'
  BY <1>0, <1>4 DEF TurnPlanOpen, inVars, FlagTypes
<1>5. ASSUME TurnUnverified PROVE FlagTypes'
  BY <1>0, <1>5 DEF TurnUnverified, Judged, inVars, countVars, FlagTypes
<1>6. ASSUME TurnFinal PROVE FlagTypes'
  BY <1>0, <1>6 DEF TurnFinal, End, Judged, inVars, countVars, FlagTypes, Reasons
<1>7. ASSUME TurnCut PROVE FlagTypes'
  BY <1>0, <1>7 DEF TurnCut, End, Streamed, inVars, countVars, FlagTypes, Reasons
<1>8. ASSUME WrapUp PROVE FlagTypes'
  BY <1>0, <1>8 DEF WrapUp, End, Streamed, inVars, countVars, FlagTypes, Reasons
<1>9. ASSUME NEW i \in 1..MaxCalls, FinishCall(i) PROVE FlagTypes'
  BY <1>0, <1>9 DEF FinishCall, inVars, countVars, FlagTypes
<1>10. ASSUME Record \/ Crash PROVE FlagTypes'
  <2>1. CASE Record
    BY <1>0, <2>1 DEF Record, End, inVars, countVars, FlagTypes, Reasons
  <2>2. CASE Crash
    <3>1. /\ narration' \in 0..MaxNarration /\ empties' \in 0..MaxEmpty
          /\ planNudges' \in 0..MaxPlanNudges /\ reason' = reason
      BY <2>2 DEF Crash
    <3>2. said' = FALSE /\ planOpen' = FALSE /\ reminded' = FALSE /\ cancelled' = FALSE
      BY <2>2 DEF Crash
    <3> QED
      BY <1>0, <3>1, <3>2, Zenon DEF FlagTypes
  <2> QED
    BY <1>10, <2>1, <2>2
<1> QED
  BY <1>1, <1>2, <1>3, <1>4, <1>5, <1>6, <1>7, <1>8, <1>9, <1>10 DEF Next, LoopStep

\* The batch.
BatchTypes ==
    /\ calls \in Seq(Tools) /\ outs \in Seq({"none", "going", "ok", "err"})
    /\ waiting \in BOOLEAN /\ Len(calls) = Len(outs)

\* Every step keeps its types.
LEMMA BatchStep == ASSUME LoopTypes, [Next]_vars PROVE BatchTypes'
<1>0. BatchTypes
  BY DEF LoopTypes, TypeOK, BatchTypes
<1>1. ASSUME Begin \/ PrepareStopped \/ Prepare \/ TurnNarrates \/ TurnEmpty \/ TurnPlanOpen
             \/ TurnUnverified \/ TurnFinal \/ TurnCut \/ WrapUp \/ Steer \/ Stop \/ UNCHANGED vars
      PROVE  BatchTypes'
  BY <1>0, <1>1 DEF Begin, PrepareStopped, Prepare, TurnNarrates, TurnEmpty, TurnPlanOpen,
     TurnUnverified, TurnFinal, TurnCut, WrapUp, Steer, Stop, vars, batchVars, BatchTypes
<1>2. ASSUME NEW b \in Seq(Tools), StartBatch(b) PROVE BatchTypes'
  <2>1. outs' = [i \in 1..Len(b) |-> "none"] /\ Len(b) \in Nat
    BY <1>2 DEF StartBatch
  <2>2. outs' \in Seq({"none", "going", "ok", "err"}) /\ Len(outs') = Len(b)
    BY <2>1
  <2> QED
    BY <1>0, <1>2, <2>2 DEF StartBatch, BatchTypes
<1>3. ASSUME PreloadSkill \/ TurnCalls PROVE BatchTypes'
  <2>1. <<"builtin">> \in Seq(Tools)
    BY DEF Tools
  <2>2. \A b \in Batches : b \in Seq(Tools)
    BY DEF Batches
  <2> QED
    BY <1>2, <1>3, <2>1, <2>2 DEF PreloadSkill, TurnCalls
<1>4. ASSUME StartReads PROVE BatchTypes'
  <2>1. outs' = [i \in 1..Len(outs) |-> IF i \in Concurrent THEN "going" ELSE "none"] /\ Len(outs) \in Nat
    BY <1>0, <1>4 DEF StartReads, BatchTypes
  <2>2. outs' \in Seq({"none", "going", "ok", "err"}) /\ Len(outs') = Len(outs)
    BY <2>1
  <2> QED
    BY <1>0, <1>4, <2>2 DEF StartReads, BatchTypes
<1>5. ASSUME NEW i \in 1..MaxCalls, StartNext(i) \/ FinishCall(i) PROVE BatchTypes'
  <2>1. PICK o \in {"going", "ok", "err"} : outs' = [outs EXCEPT ![i] = o]
    BY <1>5 DEF StartNext, FinishCall
  <2>2. outs' \in Seq({"none", "going", "ok", "err"}) /\ Len(outs') = Len(outs)
    <3>1. outs \in [1..Len(outs) -> {"none", "going", "ok", "err"}] /\ Len(outs) \in Nat
      BY <1>0 DEF BatchTypes
    <3>2. outs' \in [1..Len(outs) -> {"none", "going", "ok", "err"}]
      BY <2>1, <3>1
    <3> QED
      BY <3>1, <3>2
  <2>3. calls' = calls /\ waiting' \in BOOLEAN
    BY <1>0, <1>5 DEF StartNext, FinishCall, BatchTypes
  <2> QED
    BY <1>0, <2>2, <2>3 DEF BatchTypes
<1>6. ASSUME Record \/ Crash PROVE BatchTypes'
  <2>1. calls' = <<>> /\ outs' = <<>> /\ waiting' = FALSE
    BY <1>6 DEF Record, Crash
  <2>2. <<>> \in Seq(Tools) /\ <<>> \in Seq({"none", "going", "ok", "err"}) /\ Len(<<>>) = Len(<<>>)
    OBVIOUS
  <2> QED
    BY <2>1, <2>2 DEF BatchTypes
<1> QED
  BY <1>1, <1>3, <1>4, <1>5, <1>6 DEF Next, LoopStep

\* Every step keeps the types.
LEMMA LoopTypesStep == LoopTypes /\ [Next]_vars => LoopTypes'
<1> SUFFICES ASSUME LoopTypes, [Next]_vars PROVE LoopTypes'
  OBVIOUS
<1>1. BudgetInv'
  BY BudgetStep DEF LoopTypes
<1>2. TranscriptTypes' /\ FlagTypes' /\ BatchTypes'
  BY TranscriptStep, FlagStep, BatchStep
<1> QED
  BY <1>1, <1>2 DEF LoopTypes, TypeOK, BudgetInv, TranscriptTypes, FlagTypes, BatchTypes

\* The run starts with them.
LEMMA LoopTypesInit == Init => LoopTypes
<1> SUFFICES ASSUME Init PROVE LoopTypes
  OBVIOUS
<1>1. Msg("prompt", 0) \in Messages
  BY MessageTypes DEF Kinds
<1>2. <<Msg("prompt", 0)>> \in Seq(Messages) /\ Len(<<Msg("prompt", 0)>>) = 1
  BY <1>1
<1>3. BudgetInv
  BY RunLoopAssumption DEF Init, BudgetInv
<1>4. TranscriptTypes
  BY <1>2, RunLoopAssumption DEF Init, TranscriptTypes
<1>5. FlagTypes
  <2>1. narration \in 0..MaxNarration /\ empties \in 0..MaxEmpty /\ planNudges \in 0..MaxPlanNudges
    BY RunLoopAssumption DEF Init
  <2>2. /\ said = FALSE /\ planOpen \in BOOLEAN /\ reminded = FALSE /\ cancelled = FALSE
        /\ reason \in Reasons \cup {"none"}
    BY DEF Init
  <2> QED
    BY <2>1, <2>2, Zenon DEF FlagTypes
<1>6. BatchTypes
  <2>1. calls = <<>> /\ outs = <<>> /\ waiting = FALSE
    BY DEF Init
  <2>2. <<>> \in Seq(Tools) /\ <<>> \in Seq({"none", "going", "ok", "err"})
    OBVIOUS
  <2>3. waiting \in BOOLEAN
    BY <2>1
  <2>4. Len(calls) = Len(outs)
    BY <2>1
  <2> QED
    BY <2>1, <2>2, <2>3, <2>4 DEF BatchTypes
<1> QED
  BY <1>3, <1>4, <1>5, <1>6 DEF LoopTypes, TypeOK, BudgetInv, TranscriptTypes, FlagTypes, BatchTypes

\* Types of the run's state, for every limit and every number of steers.
THEOREM RunLoopTypes == Spec => []TypeOK
<1>1. LoopTypes => TypeOK
  BY DEF LoopTypes
<1> QED
  BY <1>1, LoopTypesInit, LoopTypesStep, PTL DEF Spec
-----------------------------------------------------------------------------
(********************************* steering ********************************)

\* While the run goes on the transcript has nothing in it that only the log or
\* the wrap-up turn writes, what is past the watermark was said by the last
\* turn, and a run starts and a request is made only when nothing is.
Transcript ==
    Alive => /\ messages \in Seq(Spoken) /\ Pending \in Seq(Fresh)
             /\ pc \in {"start", "wrapup", "request"} => Pending = <<>>

\* What a turn says is past the watermark.
LEMMA PendingGrows ==
    ASSUME messages \in Seq(Messages), logged \in Nat, logged <= Len(messages),
           NEW m \in Seq(Messages), messages' = messages \o m, logged' = logged
    PROVE  Pending' = Pending \o m
<1>0. Len(messages) \in Nat /\ Len(m) \in Nat
  OBVIOUS
<1>1. Pending \in Seq(Messages) /\ Len(Pending) = Len(messages) - logged
      /\ \A i \in 1..Len(Pending) : Pending[i] = messages[logged + i]
  BY PendingTypes
<1>2. messages' \in Seq(Messages) /\ Len(messages') = Len(messages) + Len(m)
  BY ConcatProperties
<1>3. Pending' = SubSeq(messages', logged + 1, Len(messages'))
  BY DEF Pending
<1>4. /\ Pending' \in Seq(Messages) /\ Len(Pending') = Len(messages') - logged
      /\ \A i \in 1..(Len(messages') - logged) : Pending'[i] = messages'[logged + i]
  <2>1. /\ Len(messages') \in Nat /\ logged + 1 \in 1..(Len(messages') + 1)
        /\ Len(messages') - (logged + 1) + 1 = Len(messages') - logged
    BY <1>0, <1>2
  <2>2. PICK M \in Seq(Messages) : M = messages'
    BY <1>2
  <2>3. /\ SubSeq(M, logged + 1, Len(M)) \in Seq(Messages)
        /\ Len(SubSeq(M, logged + 1, Len(M))) = Len(M) - logged
        /\ \A i \in 1..(Len(M) - logged) : SubSeq(M, logged + 1, Len(M))[i] = M[logged + i]
    <3>1. PICK n \in Nat : n = Len(M) /\ logged + 1 \in 1..(n + 1)
      BY <2>1, <2>2
    <3>2. SubSeq(M, logged + 1, n) \in Seq(Messages) /\ Len(SubSeq(M, logged + 1, n)) = n - logged
      BY ONLY M \in Seq(Messages), logged \in Nat, n \in Nat, <3>1
    <3>3. \A i \in 1..(n - logged) : SubSeq(M, logged + 1, n)[i] = M[logged + i]
      BY ONLY M \in Seq(Messages), logged \in Nat, n \in Nat, <3>1
    <3> QED
      BY <3>1, <3>2, <3>3
  <2> QED
    BY <1>3, <2>2, <2>3
<1> DEFINE a == Pending
           b == Pending'
<1> HIDE DEF a, b
<1>5. a \o m \in Seq(Messages) /\ Len(a \o m) = Len(b)
  BY <1>0, <1>1, <1>2, <1>4 DEF a, b
<1>6. \A i \in 1..Len(b) : b[i] = (a \o m)[i]
  <2> SUFFICES ASSUME NEW i \in 1..Len(b) PROVE b[i] = (a \o m)[i]
    OBVIOUS
  <2>0. Len(a) = Len(messages) - logged /\ a \in Seq(Messages) /\ i \in 1..(Len(messages) + Len(m) - logged)
    BY <1>0, <1>1, <1>2, <1>4 DEF a, b
  <2>1. b[i] = messages'[logged + i]
    BY <1>0, <1>4 DEF b
  <2>2. CASE i <= Len(a)
    <3>1. (a \o m)[i] = a[i] /\ a[i] = messages[logged + i]
      BY <1>0, <1>1, <2>0, <2>2, ConcatProperties DEF a
    <3>2. logged + i \in 1..Len(messages)
      BY <1>0, <2>0, <2>2
    <3>3. (messages \o m)[logged + i] = messages[logged + i]
      BY <1>0, <3>2, ConcatProperties
    <3> QED
      BY <2>1, <3>1, <3>3
  <2>3. CASE i > Len(a)
    <3>1. (a \o m)[i] = m[i - Len(a)]
      BY <1>0, <2>0, <2>3, ConcatProperties
    <3>2. logged + i \in 1..(Len(messages) + Len(m)) /\ logged + i > Len(messages)
          /\ (logged + i) - Len(messages) = i - Len(a)
      BY <1>0, <2>0, <2>3
    <3>3. (messages \o m)[logged + i] = m[(logged + i) - Len(messages)]
      BY <1>0, <3>2, ConcatProperties
    <3> QED
      BY <2>1, <3>1, <3>2, <3>3
  <2>4. i <= Len(a) \/ i > Len(a)
    BY <1>0, <2>0
  <2> QED
    BY <2>2, <2>3, <2>4
<1>7. b \in Seq(Messages)
  BY <1>4 DEF b
<1>8. b = a \o m
  BY <1>5, <1>6, <1>7, SeqEqual
<1> QED
  BY <1>8 DEF a, b

\* A turn adds what is spoken, and prepare_turn too.
LEMMA SpokenTypes ==
    /\ Fresh \subseteq Spoken /\ Asked \subseteq Spoken /\ Spoken \subseteq Messages
    /\ Fresh \subseteq Messages /\ Asked \subseteq Messages
    /\ \A x \in Spoken : [x EXCEPT !.cleared = TRUE] \in Spoken
  BY DEF Fresh, Asked, Spoken, Messages, Kinds

\* Every step keeps the transcript.
LEMMA SpokenStep == ASSUME LoopTypes, Transcript, [Next]_vars PROVE Transcript'
<1>0. /\ messages \in Seq(Messages) /\ logged \in Nat /\ (Alive => logged <= Len(messages))
      /\ Len(messages) \in Nat
  BY DEF LoopTypes, TypeOK
<1>1. ASSUME Quietly \/ Steered PROVE Transcript'
  <2>1. Pending' = Pending
    BY <1>1 DEF Pending, Quietly, Steered
  <2> QED
    BY <1>1, <2>1 DEF Transcript, Alive, Quietly, Steered
<1>2. ASSUME Speaks PROVE Transcript'
  <2>1. PICK m \in Seq(Fresh) : messages' = messages \o m
    BY <1>2 DEF Speaks
  <2>2. m \in Seq(Messages) /\ m \in Seq(Spoken)
    BY SpokenTypes, SeqMonotonic
  <2>3. Alive /\ logged' = logged /\ pc' \in {"prepare", "dispatch"}
    BY <1>2 DEF Speaks
  <2>4. Pending' = Pending \o m
    BY <1>0, <2>1, <2>2, <2>3, PendingGrows
  <2>5. messages \in Seq(Spoken) /\ Pending \in Seq(Fresh)
    BY <2>3 DEF Transcript
  <2>6. PICK p \in Seq(Fresh) : p = Pending
    BY <2>5
  <2>7. p \o m \in Seq(Fresh) /\ messages \o m \in Seq(Spoken)
    BY <2>2, <2>5, ConcatProperties
  <2> QED
    BY <2>1, <2>3, <2>4, <2>6, <2>7 DEF Transcript
<1>3. ASSUME Prepare PROVE Transcript'
  <2>1. PICK new \in Seq(Asked), S \in SUBSET Old : Prepares(new, S)
    BY <1>3, PrepareMoves
  <2>2. messages \in Seq(Spoken)
    BY <1>3 DEF Prepare, Transcript, Alive
  <2>3. Cleared(messages, S) \in Seq(Spoken) /\ Len(Cleared(messages, S)) = Len(messages)
    BY <2>2, SpokenTypes, ClearedTypes
  <2>4. PICK c \in Seq(Spoken) : c = Cleared(messages, S) /\ Len(c) = Len(messages)
    BY <2>3
  <2>5. new \in Seq(Spoken)
    BY SpokenTypes, SeqMonotonic
  <2>6. c \o new \in Seq(Spoken) /\ Len(c \o new) = Len(messages) + Len(new) /\ Len(new) \in Nat
    <3>1. c \o new \in Seq(Spoken) /\ Len(c \o new) = Len(c) + Len(new)
      BY ONLY c \in Seq(Spoken), <2>5, ConcatProperties
    <3> QED
      BY <2>4, <3>1
  <2>7. messages' = c \o new /\ logged' = Len(messages) + Len(new)
    BY <2>1, <2>4 DEF Prepares
  <2>8. Pending' = SubSeq(messages', logged' + 1, Len(messages'))
    BY DEF Pending
  <2>9. Pending' = <<>>
    BY <1>0, <2>6, <2>7, <2>8
  <2>10. <<>> \in Seq(Fresh)
    OBVIOUS
  <2> QED
    BY <2>6, <2>7, <2>9, <2>10 DEF Transcript
<1>4. ASSUME Leaves \/ WrapUp \/ PrepareStopped \/ Crash PROVE Transcript'
  BY <1>4 DEF Leaves, WrapUp, End, PrepareStopped, Crash, Transcript, Alive
<1> QED
  BY <1>1, <1>2, <1>3, <1>4, Effects

\* The run starts with it.
LEMMA SpokenInit == Init => Transcript
<1> SUFFICES ASSUME Init PROVE Transcript
  OBVIOUS
<1>1. messages = <<Msg("prompt", 0)>> /\ logged = 1 /\ pc = "start"
  BY DEF Init
<1>2. Msg("prompt", 0) \in Spoken
  BY DEF Msg, Spoken
<1>3. messages \in Seq(Spoken) /\ Len(messages) = 1
  BY <1>1, <1>2
<1>4. Pending = <<>>
  BY <1>1, <1>3 DEF Pending
<1> QED
  BY <1>3, <1>4 DEF Transcript
\* Neither a turn nor the end of a run writes a steer or a user's message.
LEMMA NoSteers ==
    ASSUME NEW k \in {"user", "steer"}
    PROVE  /\ \A m \in Seq(Fresh) : m \in Seq(Messages) /\ Numbers(m, k) = <<>>
           /\ \A text \in BOOLEAN : Numbers(EndRows(text), k) = <<>>
           /\ \A S : MadeRoom(S) \in Seq(Messages) /\ Numbers(MadeRoom(S), k) = <<>>
           /\ <<Note>> \in Seq(Messages) /\ Numbers(<<Note>>, k) = <<>> /\ Numbers(<<>>, k) = <<>>
           /\ \A x \in {"plan", "plan_line"} : <<Msg(x, 0)>> \in Seq(Messages) /\ Numbers(<<Msg(x, 0)>>, k) = <<>>
<1>1. ASSUME NEW m \in Seq(Fresh) PROVE m \in Seq(Messages) /\ Numbers(m, k) = <<>>
  <2>1. \A x \in Fresh : x.kind # k
    BY DEF Fresh
  <2>2. m \in Seq(Messages)
    BY SpokenTypes, SeqMonotonic
  <2>3. \A i \in 1..Len(m) : m[i].kind # k
    BY <2>1
  <2> QED
    BY <2>2, <2>3, NumbersNone
<1>2. ASSUME NEW x \in {"assistant", "stop", "plan", "plan_line", "command", "system_note"}
      PROVE  <<Msg(x, 0)>> \in Seq(Messages) /\ Numbers(<<Msg(x, 0)>>, k) = <<>>
  <2>1. Msg(x, 0) \in Messages /\ Msg(x, 0).kind # k
    BY DEF Msg, Messages, Kinds
  <2>2. <<Msg(x, 0)>> \in Seq(Messages) /\ \A i \in 1..Len(<<Msg(x, 0)>>) : <<Msg(x, 0)>>[i].kind # k
    BY <2>1
  <2> QED
    BY <2>2, NumbersNone
<1>3. <<>> \in Seq(Messages) /\ Numbers(<<>>, k) = <<>>
  <2>1. <<>> \in Seq(Messages) /\ \A i \in 1..Len(<<>>) : <<>>[i].kind # k
    OBVIOUS
  <2> QED
    BY <2>1, NumbersNone
<1>4. ASSUME NEW text \in BOOLEAN PROVE Numbers(EndRows(text), k) = <<>>
  <2>1. PICK w \in Seq(Messages) : w = (IF text THEN <<Msg("assistant", 0)>> ELSE <<>>) /\ Numbers(w, k) = <<>>
    BY <1>2, <1>3
  <2>2. PICK e \in Seq(Messages) : e = <<Msg("stop", 0)>> /\ Numbers(e, k) = <<>>
    BY <1>2
  <2>3. EndRows(text) = w \o e
    BY <2>1, <2>2 DEF EndRows
  <2>4. Numbers(w \o e, k) = Numbers(w, k) \o Numbers(e, k)
    BY NumbersConcat
  <2>5. <<>> \o <<>> = <<>>
    OBVIOUS
  <2> QED
    BY <2>1, <2>2, <2>3, <2>4, <2>5
<1> QED
  BY <1>1, <1>2, <1>3, <1>4 DEF MadeRoom, Note

\* Clearing old results leaves the steers as they are.
LEMMA NumbersCleared ==
    ASSUME messages \in Seq(Messages), NEW S, NEW k
    PROVE  Numbers(Cleared(messages, S), k) = Numbers(messages, k)
<1>1. \A i \in 1..Len(messages) : messages[i] \in Messages
  OBVIOUS
<1>2. \A x \in Messages : [x EXCEPT !.cleared = TRUE].kind = x.kind /\ [x EXCEPT !.cleared = TRUE].n = x.n
  BY DEF Messages
<1>3. \A x \in Messages : [x EXCEPT !.cleared = TRUE] \in Messages
  BY DEF Messages
<1>4. /\ Cleared(messages, S) \in Seq(Messages) /\ Len(Cleared(messages, S)) = Len(messages)
      /\ \A i \in 1..Len(messages) : Cleared(messages, S)[i] =
            IF i \in S THEN [messages[i] EXCEPT !.cleared = TRUE] ELSE messages[i]
  BY <1>3, ClearedTypes
<1>5. PICK c \in Seq(Messages) : c = Cleared(messages, S)
  BY <1>4
<1>6. DOMAIN c = DOMAIN messages /\ \A i \in DOMAIN messages : c[i].kind = messages[i].kind /\ c[i].n = messages[i].n
  <2>1. DOMAIN c = 1..Len(messages) /\ DOMAIN messages = 1..Len(messages)
    BY <1>4, <1>5
  <2>2. ASSUME NEW i \in 1..Len(messages) PROVE c[i].kind = messages[i].kind /\ c[i].n = messages[i].n
    <3>1. PICK x \in Messages : x = messages[i]
      BY <1>1
    <3>2. c[i] = x \/ c[i] = [x EXCEPT !.cleared = TRUE]
      BY <1>4, <1>5, <3>1
    <3> QED
      BY <1>2, <3>1, <3>2
  <2> QED
    BY <2>1, <2>2
<1>7. [i \in DOMAIN c |-> IF c[i].kind = k THEN <<c[i].n>> ELSE <<>>]
      = [i \in DOMAIN messages |-> IF messages[i].kind = k THEN <<messages[i].n>> ELSE <<>>]
  BY <1>6
<1> QED
  BY <1>5, <1>7 DEF Numbers

\* What prepare_turn takes from the inbox.
LEMMA NumbersAsked ==
    ASSUME LoopTypes, Prepare, NEW new \in Seq(Asked), NEW S, Prepares(new, S)
    PROVE  /\ new \in Seq(Messages) /\ Numbers(new, "user") = inbox /\ Numbers(new, "steer") = <<>>
           /\ SteerRows \in Seq(Messages) /\ Numbers(SteerRows, "steer") = inbox
           /\ Numbers(SteerRows, "user") = <<>>
<1>1. inbox \in Seq(Nat) /\ SteerRows \in Seq(Messages)
  BY PrepareMoves
<1>2. Drained \in Seq(Messages) /\ Numbers(Drained, "user") = inbox
  BY <1>1, NumbersAll DEF Drained, Kinds
<1>3. Numbers(SteerRows, "steer") = inbox
  BY <1>1, NumbersAll DEF SteerRows, Kinds
<1>4. new \in Seq(Messages)
  BY SpokenTypes, SeqMonotonic
<1>5. \A i \in 1..Len(new) : new[i].kind # "steer"
  <2>1. \A x \in Asked : x.kind # "steer"
    BY DEF Asked
  <2> QED
    BY <2>1
<1>6. Numbers(new, "steer") = <<>>
  BY <1>4, <1>5, NumbersNone
<1>7. Numbers(SteerRows, "user") = <<>>
  <2>1. DOMAIN SteerRows = DOMAIN inbox
    BY DEF SteerRows
  <2>2. \A i \in DOMAIN inbox : SteerRows[i].kind # "user"
    BY DEF SteerRows, Msg
  <2>3. PICK r \in Seq(Messages) : r = SteerRows
    BY <1>1
  <2>4. \A i \in 1..Len(r) : r[i].kind # "user"
    BY <2>1, <2>2, <2>3
  <2> QED
    BY <2>3, <2>4, NumbersNone
<1>8. Numbers(new, "user") = inbox
  <2>1. PICK d \in Seq(Messages) : d = Drained /\ Numbers(d, "user") = inbox
    BY <1>2
  <2>2. ASSUME NEW t \in Seq(Messages), Numbers(t, "user") = <<>>, new = d \o t PROVE Numbers(new, "user") = inbox
    <3>1. Numbers(d \o t, "user") = Numbers(d, "user") \o Numbers(t, "user")
      BY NumbersConcat
    <3>2. inbox \o <<>> = inbox
      BY <1>1
    <3> QED
      BY <2>1, <2>2, <3>1, <3>2
  <2>3. <<>> \in Seq(Messages) /\ <<Note>> \in Seq(Messages)
        /\ Numbers(<<>>, "user") = <<>> /\ Numbers(<<Note>>, "user") = <<>>
    BY NoSteers
  <2>4. new = d \o <<>> \/ new = d \o <<Note>>
    BY <2>1 DEF Prepares
  <2> QED
    BY <2>2, <2>3, <2>4
<1> QED
  BY <1>1, <1>3, <1>4, <1>6, <1>7, <1>8
\* Rows that hold neither a steer nor a user's message.
LEMMA QuietRows ==
    ASSUME NEW u \in Seq(Messages), NEW m \in Seq(Messages), NEW k, Numbers(m, k) = <<>>
    PROVE  u \o m \in Seq(Messages) /\ Numbers(u \o m, k) = Numbers(u, k)
<1>1. Numbers(u \o m, k) = Numbers(u, k) \o Numbers(m, k) /\ u \o m \in Seq(Messages)
  BY NumbersConcat, ConcatProperties
<1>2. PICK x \in Seq(Nat) : x = Numbers(u, k)
  BY NumbersType
<1>3. x \o <<>> = x
  OBVIOUS
<1> QED
  BY <1>1, <1>2, <1>3

\* A sequence of messages, as a predicate: the provers lose their way among
\* many sequences when they know all of them to be sequences.
Rows(s) == s \in Seq(Messages)

\* Rows after rows are rows.
LEMMA RowsConcat == \A s, t : Rows(s) /\ Rows(t) => Rows(s \o t)
  BY ConcatProperties DEF Rows

\* Their numbers.
LEMMA RowsNumbers == \A s, t, k : Rows(s) /\ Rows(t) => Numbers(s \o t, k) = Numbers(s, k) \o Numbers(t, k)
  BY NumbersConcat DEF Rows

\* The numbers in the rows that prepare_turn flushes.
LEMMA NumbersRows ==
    ASSUME NEW k, NEW l, NEW p, NEW r, NEW w, Rows(l), Rows(p), Rows(r), Rows(w), Numbers(p, k) = <<>>
    PROVE  /\ Rows(l \o ((p \o r) \o w))
           /\ Numbers(l \o ((p \o r) \o w), k) = Numbers(l, k) \o (Numbers(r, k) \o Numbers(w, k))
<1>1. Rows(p \o r)
  BY ONLY Rows(p), Rows(r), RowsConcat, Zenon
<1>2. Rows((p \o r) \o w)
  BY ONLY Rows(w), <1>1, RowsConcat, Zenon
<1>3. Rows(l \o ((p \o r) \o w))
  BY ONLY Rows(l), <1>2, RowsConcat, Zenon
<1>5. Numbers(p \o r, k) = Numbers(p, k) \o Numbers(r, k)
  BY ONLY Rows(p), Rows(r), RowsNumbers
<1>6. Numbers((p \o r) \o w, k) = Numbers(p \o r, k) \o Numbers(w, k)
  BY <1>1, RowsNumbers
<1>7. Numbers(l \o ((p \o r) \o w), k) = Numbers(l, k) \o Numbers((p \o r) \o w, k)
  BY <1>2, RowsNumbers
<1>4. <<>> \o Numbers(r, k) = Numbers(r, k)
  <2>1. r \in Seq(Messages)
    BY DEF Rows
  <2>2. PICK nr \in Seq(Nat) : nr = Numbers(r, k)
    BY <2>1, NumbersType
  <2>3. <<>> \o nr = nr
    OBVIOUS
  <2> QED
    BY <2>2, <2>3
<1> QED
  BY <1>3, <1>4, <1>5, <1>6, <1>7, Zenon

\* Every step keeps the steers in order.
LEMMA SteeringStep == ASSUME LoopTypes, Transcript, SteersReadInOrder, [Next]_vars PROVE SteersReadInOrder'
<1>0. /\ messages \in Seq(Messages) /\ log \in Seq(Messages) /\ said \in BOOLEAN
      /\ inbox \in Seq(Nat) /\ steers \in Nat
  <2>1. inbox \in Seq(1..MaxSteers) /\ steers \in 0..MaxSteers /\ MaxSteers \in Nat
    BY RunLoopAssumption DEF LoopTypes, TypeOK
  <2> QED
    BY <2>1 DEF LoopTypes, TypeOK
<1>a. ASSUME NEW u \in Seq(Messages), NEW v \in Seq(Messages), NEW ns \in Seq(Nat), steers' = steers, pc # "dead",
             messages' = u, inbox' = ns, log' = v,
             Numbers(u, "user") \o ns = Numbers(messages, "user") \o inbox,
             Numbers(v, "steer") = Numbers(v, "user")
      PROVE  SteersReadInOrder'
  BY <1>a DEF SteersReadInOrder
<1>b. ASSUME NEW text \in BOOLEAN, NEW v \in Seq(Messages), Numbers(v, "steer") = Numbers(v, "user")
      PROVE  v \o EndRows(text) \in Seq(Messages) /\ Numbers(v \o EndRows(text), "steer") = Numbers(v \o EndRows(text), "user")
  <2>1. EndRows(text) \in Seq(Messages) /\ Numbers(EndRows(text), "steer") = <<>> /\ Numbers(EndRows(text), "user") = <<>>
    BY EndTypes, NoSteers
  <2> QED
    BY <1>b, <2>1, QuietRows
<1>1. ASSUME Quietly PROVE SteersReadInOrder'
  <2>1. \A k \in {"user", "steer"} : <<Msg("plan", 0)>> \in Seq(Messages) /\ Numbers(<<Msg("plan", 0)>>, k) = <<>>
    BY NoSteers
  <2>2. log' = log \/ \A k \in {"user", "steer"} : Numbers(log', k) = Numbers(log, k)
    <3> SUFFICES ASSUME log' # log PROVE \A k \in {"user", "steer"} : Numbers(log', k) = Numbers(log, k)
      OBVIOUS
    <3>1. PICK r \in Seq(Messages) : r = <<Msg("plan", 0)>> /\ \A k \in {"user", "steer"} : Numbers(r, k) = <<>>
      BY <2>1
    <3>2. log' = log \o r
      BY <1>1, <3>1 DEF Quietly
    <3>3. /\ log \in Seq(Messages) /\ r \in Seq(Messages)
          /\ Numbers(r, "user") = <<>> /\ Numbers(r, "steer") = <<>>
      BY <1>0, <3>1
    <3>4. Numbers(log \o r, "user") = Numbers(log, "user")
      BY ONLY <3>3, QuietRows, Zenon
    <3>5. Numbers(log \o r, "steer") = Numbers(log, "steer")
      BY ONLY <3>3, QuietRows, Zenon
    <3> QED
      BY <3>2, <3>4, <3>5
  <2> QED
    BY <1>1, <2>2 DEF Quietly, SteersReadInOrder
<1>2. ASSUME Steered PROVE SteersReadInOrder'
  <2>1. PICK a \in Seq(Nat) : a = Numbers(messages, "user")
    BY <1>0, NumbersType
  <2>2. a \o inbox = [i \in 1..steers |-> i]
    BY <1>2, <2>1 DEF Steered, Alive, SteersReadInOrder
  <2>3. a \o Append(inbox, steers + 1) = Append(a \o inbox, steers + 1)
    <3>1. steers + 1 \in Nat /\ a \o inbox \in Seq(Nat)
      BY <1>0
    <3>2. <<steers + 1>> \in Seq(Nat)
      BY <3>1
    <3>3. Append(inbox, steers + 1) = inbox \o <<steers + 1>> /\ Append(a \o inbox, steers + 1) = (a \o inbox) \o <<steers + 1>>
      BY <1>0, <3>1, AppendIsConcat
    <3>4. (a \o inbox) \o <<steers + 1>> = a \o (inbox \o <<steers + 1>>)
      BY <1>0, <3>2, ConcatAssociative
    <3> QED
      BY <3>3, <3>4
  <2>4. Append([i \in 1..steers |-> i], steers + 1) = [i \in 1..(steers + 1) |-> i]
    <3>1. [i \in 1..steers |-> i] \in Seq(Nat) /\ Len([i \in 1..steers |-> i]) = steers
      BY <1>0
    <3>2. [i \in 1..(steers + 1) |-> i] \in Seq(Nat) /\ Len([i \in 1..(steers + 1) |-> i]) = steers + 1
      BY <1>0
    <3> DEFINE x == Append([i \in 1..steers |-> i], steers + 1)
               y == [i \in 1..(steers + 1) |-> i]
    <3>3. x \in Seq(Nat) /\ Len(x) = steers + 1
      BY <1>0, <3>1
    <3>4. \A i \in 1..(steers + 1) : x[i] = i
      BY <1>0, <3>1
    <3>5. \A i \in 1..(steers + 1) : y[i] = i
      OBVIOUS
    <3> HIDE DEF x, y
    <3>6. y \in Seq(Nat) /\ Len(y) = steers + 1
      BY <3>2 DEF y
    <3>7. x = y
      BY <3>3, <3>4, <3>5, <3>6, SeqEqual
    <3> QED
      BY <3>7 DEF x, y
  <2>5. a \o inbox' = [i \in 1..steers' |-> i]
    BY <1>2, <2>2, <2>3, <2>4 DEF Steered
  <2> QED
    BY <1>2, <2>1, <2>5 DEF Steered, SteersReadInOrder, Alive
<1>3. ASSUME Speaks \/ Leaves PROVE SteersReadInOrder'
  <2>1. PICK m \in Seq(Fresh) : messages' = messages \o m
    BY <1>3 DEF Speaks, Leaves
  <2>2. m \in Seq(Messages) /\ Numbers(m, "user") = <<>>
    BY NoSteers
  <2>3. messages \o m \in Seq(Messages) /\ Numbers(messages \o m, "user") = Numbers(messages, "user")
    BY <1>0, <2>2, QuietRows
  <2>4. inbox' = inbox /\ steers' = steers /\ pc # "dead" /\ (log' = log \/ \E text \in BOOLEAN : log' = log \o EndRows(text))
    BY <1>3 DEF Speaks, Leaves, Alive
  <2>5. log' \in Seq(Messages) /\ Numbers(log', "steer") = Numbers(log', "user")
    BY <1>0, <1>b, <2>4 DEF SteersReadInOrder
  <2> QED
    BY <1>0, <1>a, <2>1, <2>3, <2>4, <2>5
<1>4. ASSUME WrapUp PROVE SteersReadInOrder'
  <2>1. <<Msg("plan_line", 0)>> \in Seq(Messages) /\ Numbers(<<Msg("plan_line", 0)>>, "user") = <<>>
    BY NoSteers
  <2>2. messages' = messages \/ messages' = messages \o <<Msg("plan_line", 0)>>
    <3>1. Msg("plan_line", 0) \in Messages
      BY MessageTypes DEF Kinds
    <3> QED
      BY <1>0, <1>4, <3>1, AppendIsConcat DEF WrapUp
  <2>3. messages' \in Seq(Messages) /\ Numbers(messages', "user") = Numbers(messages, "user")
    <3>1. PICK r \in Seq(Messages) : r = <<Msg("plan_line", 0)>> /\ Numbers(r, "user") = <<>>
      BY <2>1
    <3>2. messages \in Seq(Messages) /\ r \in Seq(Messages) /\ Numbers(r, "user") = <<>>
      BY <1>0, <3>1
    <3>3. messages \o r \in Seq(Messages) /\ Numbers(messages \o r, "user") = Numbers(messages, "user")
      BY ONLY <3>2, QuietRows, Zenon
    <3> QED
      BY <1>0, <2>2, <3>1, <3>3
  <2>4. inbox' = inbox /\ steers' = steers /\ pc # "dead"
    BY <1>4 DEF WrapUp, inVars
  <2>5. PICK text \in BOOLEAN : log' = log \o EndRows(text)
    BY <1>0, <1>4 DEF WrapUp, End, Streamed
  <2>6. log' \in Seq(Messages) /\ Numbers(log', "steer") = Numbers(log', "user")
    BY <1>0, <1>b, <2>4, <2>5 DEF SteersReadInOrder
  <2> QED
    BY <1>0, <1>a, <2>3, <2>4, <2>6
<1>5. ASSUME pc = "prepare" PROVE Pending \in Seq(Messages) /\ Numbers(Pending, "user") = <<>> /\ Numbers(Pending, "steer") = <<>>
  <2>1. Pending \in Seq(Fresh)
    BY <1>5 DEF Transcript, Alive
  <2> QED
    BY <2>1, NoSteers
<1>6. ASSUME PrepareStopped PROVE SteersReadInOrder'
  <2>1. pc = "prepare" /\ inbox' = inbox /\ steers' = steers /\ messages' = messages
        /\ log' = (log \o Pending) \o EndRows(said)
    BY <1>6 DEF PrepareStopped, inVars
  <2>2. PICK v \in Seq(Messages) : v = log \o Pending /\ Numbers(v, "user") = Numbers(log, "user")
                                   /\ Numbers(v, "steer") = Numbers(log, "steer")
    <3>1. PICK q \in Seq(Messages) : q = Pending /\ Numbers(q, "user") = <<>> /\ Numbers(q, "steer") = <<>>
      BY <1>5, <2>1
    <3>2. log \o q \in Seq(Messages) /\ Numbers(log \o q, "user") = Numbers(log, "user")
      BY <1>0, <3>1, QuietRows
    <3>3. Numbers(log \o q, "steer") = Numbers(log, "steer")
      BY <1>0, <3>1, QuietRows
    <3> QED
      BY <3>1, <3>2, <3>3
  <2>3. Numbers(v, "steer") = Numbers(v, "user")
    BY <2>1, <2>2 DEF SteersReadInOrder
  <2>4. log' \in Seq(Messages) /\ Numbers(log', "steer") = Numbers(log', "user")
    BY <1>0, <1>b, <2>1, <2>2, <2>3
  <2> QED
    BY <1>0, <1>a, <2>1, <2>4
<1>7. ASSUME Prepare PROVE SteersReadInOrder'
  <2>1. PICK new \in Seq(Asked), S \in SUBSET Old : Prepares(new, S)
    BY <1>7, PrepareMoves
  <2>2. inbox' = <<>> /\ steers' = steers /\ pc = "prepare" /\ <<>> \in Seq(Nat)
    BY <1>7, PrepareMoves
  <2>3. /\ new \in Seq(Messages) /\ Numbers(new, "user") = inbox /\ Numbers(new, "steer") = <<>>
        /\ SteerRows \in Seq(Messages) /\ Numbers(SteerRows, "steer") = inbox
        /\ Numbers(SteerRows, "user") = <<>>
    BY <1>7, <2>1, NumbersAsked
  <2>4. \A x \in Messages : [x EXCEPT !.cleared = TRUE] \in Messages
    BY DEF Messages
  <2>5. PICK c \in Seq(Messages) : c = Cleared(messages, S) /\ Numbers(c, "user") = Numbers(messages, "user")
    BY <1>0, <2>4, NumbersCleared, ClearedTypes
  <2>6. messages' = c \o new /\ c \o new \in Seq(Messages) /\ Numbers(c \o new, "user") = Numbers(messages, "user") \o inbox
    <3>1. messages' = c \o new
      BY <2>1, <2>5 DEF Prepares
    <3>2. c \o new \in Seq(Messages) /\ Numbers(c \o new, "user") = Numbers(c, "user") \o Numbers(new, "user")
      BY ONLY c \in Seq(Messages), <2>3, NumbersConcat, ConcatProperties
    <3> QED
      BY <2>3, <2>5, <3>1, <3>2
  <2>7. PICK a \in Seq(Nat) : a = Numbers(messages, "user") /\ a \o inbox \in Seq(Nat)
    BY <1>0, NumbersType, ConcatProperties
  <2>8. (a \o inbox) \o <<>> = a \o inbox
    BY <2>7
  <2>9. Numbers(messages', "user") \o inbox' = Numbers(messages, "user") \o inbox
    BY <2>2, <2>6, <2>7, <2>8
  <2>10. /\ Rows(log) /\ Rows(Pending) /\ Rows(SteerRows) /\ Rows(new) /\ Rows(MadeRoom(S))
         /\ Numbers(Pending, "user") = <<>> /\ Numbers(Pending, "steer") = <<>>
         /\ Numbers(MadeRoom(S), "user") = <<>> /\ Numbers(MadeRoom(S), "steer") = <<>>
    BY <1>0, <1>5, <2>2, <2>3, NoSteers DEF Rows
  <2>11. PICK v : v = log \o ((Pending \o SteerRows) \o new)
    OBVIOUS
  <2>12. /\ Rows(v)
         /\ Numbers(v, "user") = Numbers(log, "user") \o (Numbers(SteerRows, "user") \o Numbers(new, "user"))
    BY <2>10, <2>11, NumbersRows
  <2>13. Numbers(v, "steer") = Numbers(log, "steer") \o (Numbers(SteerRows, "steer") \o Numbers(new, "steer"))
    BY <2>10, <2>11, NumbersRows
  <2>14. Numbers(v, "steer") = Numbers(v, "user")
    <3>1. inbox \o <<>> = inbox /\ <<>> \o inbox = inbox
      BY <1>0
    <3>2. Numbers(log, "steer") = Numbers(log, "user")
      BY <2>2 DEF SteersReadInOrder
    <3> QED
      BY <2>3, <2>12, <2>13, <3>1, <3>2, Zenon
  <2>15. PICK h : h = MadeRoom(S) /\ log' = v \o h
    BY <2>1, <2>11 DEF Prepares
  <2>16. v \o h \in Seq(Messages) /\ Numbers(v \o h, "steer") = Numbers(v \o h, "user")
    <3>1. v \in Seq(Messages) /\ h \in Seq(Messages) /\ Numbers(h, "user") = <<>> /\ Numbers(h, "steer") = <<>>
      BY <2>10, <2>12, <2>15 DEF Rows
    <3>2. v \o h \in Seq(Messages) /\ Numbers(v \o h, "user") = Numbers(v, "user")
      BY <3>1, QuietRows
    <3>3. Numbers(v \o h, "steer") = Numbers(v, "steer")
      BY <3>1, QuietRows
    <3> QED
      BY <2>14, <3>2, <3>3
  <2> QED
    BY <1>a, <2>2, <2>6, <2>9, <2>15, <2>16
<1>8. ASSUME Crash PROVE SteersReadInOrder'
  BY <1>8 DEF Crash, SteersReadInOrder
<1> QED
  BY <1>1, <1>2, <1>3, <1>4, <1>6, <1>7, <1>8, Effects

\* Steers reach the transcript in arrival order and once each, whatever phase
\* they arrive in, and the log has each as the event and as the message.
THEOREM SteersInOrder == Spec => []SteersReadInOrder
<1>1. Init => SteersReadInOrder
  <2> SUFFICES ASSUME Init PROVE SteersReadInOrder
    OBVIOUS
  <2>1. messages = <<Msg("prompt", 0)>> /\ log = messages /\ inbox = <<>> /\ steers = 0
    BY DEF Init
  <2>2. Msg("prompt", 0) \in Messages /\ Msg("prompt", 0).kind = "prompt"
    BY DEF Msg, Messages, Kinds
  <2>3. messages \in Seq(Messages) /\ \A i \in 1..Len(messages) : messages[i].kind = "prompt"
    BY <2>1, <2>2
  <2>4. Numbers(messages, "user") = <<>> /\ Numbers(messages, "steer") = <<>>
    BY <2>3, NumbersNone
  <2>5. <<>> \o <<>> = [i \in 1..0 |-> i]
    OBVIOUS
  <2> QED
    BY <2>1, <2>4, <2>5 DEF SteersReadInOrder
<1>2. LoopTypes /\ Transcript /\ SteersReadInOrder /\ [Next]_vars => (LoopTypes /\ Transcript /\ SteersReadInOrder)'
  BY LoopTypesStep, SpokenStep, SteeringStep
<1> QED
  BY <1>1, <1>2, LoopTypesInit, SpokenInit, PTL DEF Spec
-----------------------------------------------------------------------------
(******************************** the record *******************************)

\* Messages with their results in full.
Full(s) == [i \in DOMAIN s |-> Original(s[i])]

\* While the run goes on, the log replayed and then what is past the watermark
\* are the transcript, in full.
Recorded == Alive => Replay(log) \o Pending = Full(messages)

\* A message in full is a message; one that was not cleared is in full.
LEMMA OriginalTypes ==
    /\ \A x \in Messages : Original(x) \in Messages /\ (x.cleared = FALSE => Original(x) = x)
    /\ \A x \in Messages : Original([x EXCEPT !.cleared = TRUE]) = Original(x)
  BY DEF Original, Messages

\* Messages in full are messages.
LEMMA FullTypes ==
    ASSUME NEW s \in Seq(Messages)
    PROVE  /\ Full(s) \in Seq(Messages) /\ Len(Full(s)) = Len(s)
           /\ \A i \in 1..Len(s) : Full(s)[i] = Original(s[i])
<1>1. \A i \in 1..Len(s) : s[i] \in Messages
  OBVIOUS
<1>2. \A i \in 1..Len(s) : Original(s[i]) \in Messages
  BY <1>1, OriginalTypes
<1>3. Full(s) \in [1..Len(s) -> Messages] /\ Len(s) \in Nat
  BY <1>2 DEF Full
<1>4. \A i \in 1..Len(s) : Full(s)[i] = Original(s[i])
  BY DEF Full
<1> QED
  BY <1>3, <1>4

\* Nothing cleared: they are as they are.
LEMMA FullSame ==
    ASSUME NEW s \in Seq(Messages), \A i \in 1..Len(s) : s[i].cleared = FALSE
    PROVE  Full(s) = s
<1>1. \A i \in 1..Len(s) : s[i] \in Messages
  OBVIOUS
<1>2. \A i \in 1..Len(s) : Full(s)[i] = s[i]
  BY <1>1, FullTypes, OriginalTypes
<1>3. PICK f \in Seq(Messages) : f = Full(s) /\ Len(f) = Len(s)
  BY FullTypes
<1> QED
  BY <1>2, <1>3, SeqEqual

\* In full after in full.
LEMMA FullConcat ==
    ASSUME NEW s \in Seq(Messages), NEW t \in Seq(Messages)
    PROVE  Full(s \o t) = Full(s) \o Full(t)
<1>0. /\ s \o t \in Seq(Messages) /\ Len(s \o t) = Len(s) + Len(t)
      /\ \A i \in 1..(Len(s) + Len(t)) : (s \o t)[i] = IF i <= Len(s) THEN s[i] ELSE t[i - Len(s)]
  BY ConcatProperties
<1>1. PICK u \in Seq(Messages) : u = s \o t /\ Len(u) = Len(s) + Len(t)
                                 /\ \A i \in 1..(Len(s) + Len(t)) : u[i] = IF i <= Len(s) THEN s[i] ELSE t[i - Len(s)]
  BY <1>0, Zenon
<1>2. PICK f : f = Full(s)
  OBVIOUS
<1>3. PICK g : g = Full(t)
  OBVIOUS
<1>4. PICK h : h = Full(u)
  OBVIOUS
<1>5. f \in Seq(Messages) /\ Len(f) = Len(s) /\ \A i \in 1..Len(s) : f[i] = Original(s[i])
  BY <1>2, FullTypes
<1>6. g \in Seq(Messages) /\ Len(g) = Len(t) /\ \A i \in 1..Len(t) : g[i] = Original(t[i])
  BY <1>3, FullTypes
<1>7. h \in Seq(Messages) /\ Len(h) = Len(u) /\ \A i \in 1..Len(u) : h[i] = Original(u[i])
  BY <1>4, FullTypes
<1>8. f \o g \in Seq(Messages) /\ Len(f \o g) = Len(s) + Len(t)
      /\ \A i \in 1..(Len(s) + Len(t)) : (f \o g)[i] = IF i <= Len(s) THEN f[i] ELSE g[i - Len(s)]
  <2>1. /\ f \o g \in Seq(Messages) /\ Len(f \o g) = Len(f) + Len(g)
        /\ \A i \in 1..(Len(f) + Len(g)) : (f \o g)[i] = IF i <= Len(f) THEN f[i] ELSE g[i - Len(f)]
    <3>1. f \in Seq(Messages) /\ g \in Seq(Messages)
      BY <1>5, <1>6
    <3> QED
      BY ONLY <3>1, ConcatProperties
  <2> QED
    BY <1>5, <1>6, <2>1, Zenon
<1>9. \A i \in 1..(Len(s) + Len(t)) : h[i] = (f \o g)[i]
  <2> SUFFICES ASSUME NEW i \in 1..(Len(s) + Len(t)) PROVE h[i] = (f \o g)[i]
    OBVIOUS
  <2>0. Len(s) \in Nat /\ Len(t) \in Nat
    OBVIOUS
  <2>1. h[i] = Original(u[i])
    BY <1>1, <1>7
  <2>2. CASE i <= Len(s)
    <3>1. i \in 1..Len(s)
      BY <2>0, <2>2
    <3> QED
      BY <1>1, <1>5, <1>8, <2>1, <2>2, <3>1
  <2>3. CASE ~(i <= Len(s))
    <3>1. i - Len(s) \in 1..Len(t)
      BY <2>0, <2>3
    <3> QED
      BY <1>1, <1>6, <1>8, <2>1, <2>3, <3>1
  <2> QED
    BY <2>2, <2>3
<1>10. PICK z \in Seq(Messages) : z = f \o g /\ Len(z) = Len(h) /\ \A i \in 1..Len(h) : h[i] = z[i]
  BY <1>1, <1>7, <1>8, <1>9
<1>11. h = z
  BY <1>7, <1>10, SeqEqual
<1> QED
  BY <1>1, <1>2, <1>3, <1>4, <1>10, <1>11

\* Clearing loses nothing that the full message has.
LEMMA FullCleared ==
    ASSUME messages \in Seq(Messages), NEW S
    PROVE  Full(Cleared(messages, S)) = Full(messages)
<1>1. \A i \in 1..Len(messages) : messages[i] \in Messages
  OBVIOUS
<1>2. \A x \in Messages : [x EXCEPT !.cleared = TRUE] \in Messages
  BY DEF Messages
<1>3. PICK c \in Seq(Messages) :
         /\ c = Cleared(messages, S) /\ Len(c) = Len(messages)
         /\ \A i \in 1..Len(messages) : c[i] = IF i \in S THEN [messages[i] EXCEPT !.cleared = TRUE] ELSE messages[i]
  BY <1>2, ClearedTypes
<1>4. DOMAIN c = 1..Len(messages) /\ DOMAIN messages = 1..Len(messages)
  BY <1>3
<1>5. ASSUME NEW i \in 1..Len(messages) PROVE Original(c[i]) = Original(messages[i])
  <2>1. PICK x \in Messages : x = messages[i]
    BY <1>1
  <2>2. c[i] = x \/ c[i] = [x EXCEPT !.cleared = TRUE]
    BY <1>3, <2>1
  <2> QED
    BY <2>1, <2>2, OriginalTypes
<1>6. Full(c) = Full(messages)
  BY <1>4, <1>5 DEF Full
<1> QED
  BY <1>3, <1>6

\* Replay of rows after rows.
LEMMA RowsReplay == \A s, t : Rows(s) /\ Rows(t) => Replay(s \o t) = Replay(s) \o Replay(t)
  BY WithoutConcat DEF Rows, Replay

\* Replay gives messages.
LEMMA ReplayRows == \A s : Rows(s) => Rows(Replay(s))
  BY WithoutType DEF Rows, Replay

\* What a turn says and what prepare_turn asks is replayed as it is.
LEMMA ReplaySpoken ==
    ASSUME NEW s \in Seq(Spoken)
    PROVE  /\ Rows(s) /\ Replay(s) = s /\ Without(s, {"plan_line"}) = s
           /\ (s \in Seq(Fresh) \cup Seq(Asked) => Full(s) = s)
<1>1. s \in Seq(Messages)
  BY SpokenTypes, SeqMonotonic
<1>2. \A x \in Spoken : x.kind \notin {"steer", "stop", "plan", "command"} /\ x.kind \notin {"plan_line"}
  BY DEF Spoken
<1>3. /\ \A i \in 1..Len(s) : s[i].kind \notin {"steer", "stop", "plan", "command"}
      /\ \A i \in 1..Len(s) : s[i].kind \notin {"plan_line"}
  BY <1>2
<1>4. Replay(s) = s /\ Without(s, {"plan_line"}) = s
  BY <1>1, <1>3, WithoutNone DEF Replay
<1>5. ASSUME s \in Seq(Fresh) \cup Seq(Asked) PROVE Full(s) = s
  <2>1. \A x \in Fresh \cup Asked : x.cleared = FALSE
    BY DEF Fresh, Asked
  <2>2. s \in Seq(Fresh \cup Asked)
    BY <1>5, SeqMonotonic
  <2>3. \A i \in 1..Len(s) : s[i].cleared = FALSE
    BY <2>1, <2>2
  <2> QED
    BY <1>1, <2>3, FullSame
<1> QED
  BY <1>1, <1>4, <1>5 DEF Rows

\* Rows about the run are not replayed.
LEMMA ReplayAbout ==
    /\ Rows(<<Msg("plan", 0)>>) /\ Replay(<<Msg("plan", 0)>>) = <<>>
    /\ \A S : Rows(MadeRoom(S)) /\ Replay(MadeRoom(S)) = <<>>
    /\ inbox \in Seq(Nat) => Rows(SteerRows) /\ Replay(SteerRows) = <<>>
<1>1. ASSUME NEW s \in Seq(Messages), \A i \in 1..Len(s) : s[i].kind \in {"steer", "stop", "plan", "command"}
      PROVE  Rows(s) /\ Replay(s) = <<>>
  BY <1>1, WithoutAll DEF Rows, Replay
<1>2. ASSUME NEW x \in {"plan", "command"}
      PROVE  /\ <<Msg(x, 0)>> \in Seq(Messages)
             /\ \A i \in 1..Len(<<Msg(x, 0)>>) : <<Msg(x, 0)>>[i].kind \in {"steer", "stop", "plan", "command"}
  <2>1. Msg(x, 0) \in Messages /\ Msg(x, 0).kind = x
    BY DEF Msg, Messages, Kinds
  <2> QED
    BY <2>1
<1>3. \A x \in {"plan", "command"} : Rows(<<Msg(x, 0)>>) /\ Replay(<<Msg(x, 0)>>) = <<>>
  BY <1>1, <1>2
<1>4. Rows(<<>>) /\ Replay(<<>>) = <<>>
  <2>1. <<>> \in Seq(Messages) /\ \A i \in 1..Len(<<>>) : <<>>[i].kind \in {"steer", "stop", "plan", "command"}
    OBVIOUS
  <2> QED
    BY <1>1, <2>1
<1>5. ASSUME inbox \in Seq(Nat) PROVE Rows(SteerRows) /\ Replay(SteerRows) = <<>>
  <2>1. SteerRows \in Seq(Messages)
    BY <1>5, NumbersAll DEF SteerRows, Kinds
  <2>2. DOMAIN SteerRows = DOMAIN inbox /\ \A i \in DOMAIN inbox : SteerRows[i].kind = "steer"
    BY DEF SteerRows, Msg
  <2>3. PICK r \in Seq(Messages) : r = SteerRows
    BY <2>1
  <2>4. \A i \in 1..Len(r) : r[i].kind \in {"steer", "stop", "plan", "command"}
    BY <2>2, <2>3
  <2> QED
    BY <1>1, <2>3, <2>4
<1> QED
  BY <1>3, <1>4, <1>5 DEF MadeRoom
\* Rows and concatenation.
LEMMA RowsLaws == Rows(<<>>) /\ \A s : Rows(s) => s \o <<>> = s /\ <<>> \o s = s
  BY ConcatEmptySeq DEF Rows

\* Rows are joined in any order.
LEMMA RowsJoin ==
    ASSUME NEW s, NEW t, NEW u, Rows(s), Rows(t), Rows(u)
    PROVE  s \o (t \o u) = (s \o t) \o u
  BY ConcatAssociative DEF Rows

\* What prepare_turn flushes, replayed.
LEMMA ReplayFlush ==
    ASSUME NEW l, NEW p, NEW r, NEW w, NEW h, Rows(l), Rows(p), Rows(r), Rows(w), Rows(h),
           Replay(p) = p, Replay(r) = <<>>, Replay(w) = w, Replay(h) = <<>>
    PROVE  /\ Rows((l \o ((p \o r) \o w)) \o h)
           /\ Replay((l \o ((p \o r) \o w)) \o h) = (Replay(l) \o p) \o w
<1>1. Rows(p \o r)
  BY ONLY Rows(p), Rows(r), RowsConcat, Zenon
<1>2. Rows((p \o r) \o w)
  BY ONLY Rows(w), <1>1, RowsConcat, Zenon
<1>3. Rows(l \o ((p \o r) \o w))
  BY ONLY Rows(l), <1>2, RowsConcat, Zenon
<1>4. Rows((l \o ((p \o r) \o w)) \o h)
  BY ONLY Rows(h), <1>3, RowsConcat, Zenon
<1>5. Replay(p \o r) = Replay(p) \o Replay(r)
  BY ONLY Rows(p), Rows(r), RowsReplay, Zenon
<1>6. Replay((p \o r) \o w) = Replay(p \o r) \o Replay(w)
  BY ONLY Rows(w), <1>1, RowsReplay, Zenon
<1>7. Replay(l \o ((p \o r) \o w)) = Replay(l) \o Replay((p \o r) \o w)
  BY ONLY Rows(l), <1>2, RowsReplay, Zenon
<1>8. Replay((l \o ((p \o r) \o w)) \o h) = Replay(l \o ((p \o r) \o w)) \o Replay(h)
  BY ONLY Rows(h), <1>3, RowsReplay, Zenon
<1>9. p \o <<>> = p
  BY ONLY Rows(p), RowsLaws, Zenon
<1>10. Replay(l \o ((p \o r) \o w)) \o <<>> = Replay(l \o ((p \o r) \o w))
  BY ONLY <1>3, ReplayRows, RowsLaws, Zenon
<1>11. Replay(l) \o (p \o w) = (Replay(l) \o p) \o w
  <2>1. Rows(Replay(l))
    BY ReplayRows
  <2> QED
    BY ONLY <2>1, Rows(p), Rows(w), RowsJoin
<1> QED
  BY <1>4, <1>5, <1>6, <1>7, <1>8, <1>9, <1>10, <1>11, Zenon

\* prepare_turn leaves a log that replays to the transcript it sends.
LEMMA PrepareRecords ==
    ASSUME LoopTypes, Transcript, Recorded, Prepare
    PROVE  /\ Rows(messages') /\ Rows(log')
           /\ Replay(log') = Full(messages') /\ Pending' = <<>> /\ sent' = messages'
<1>0. messages \in Seq(Messages) /\ Rows(log) /\ pc = "prepare"
  BY DEF LoopTypes, TypeOK, Prepare, Rows
<1>1. PICK new \in Seq(Asked), S \in SUBSET Old : Prepares(new, S)
  BY PrepareMoves
<1>2. inbox \in Seq(Nat) /\ sent' = messages'
  BY PrepareMoves
<1>3. Pending \in Seq(Fresh) /\ messages \in Seq(Spoken)
  BY <1>0 DEF Transcript, Alive
<1>4. Rows(Pending) /\ Replay(Pending) = Pending
  <2>1. Pending \in Seq(Spoken)
    BY <1>3, SpokenTypes, SeqMonotonic
  <2> QED
    BY <2>1, ReplaySpoken
<1>5. Rows(new) /\ Replay(new) = new /\ Full(new) = new
  <2>1. new \in Seq(Spoken) /\ new \in Seq(Fresh) \cup Seq(Asked)
    BY SpokenTypes, SeqMonotonic
  <2> QED
    BY <2>1, ReplaySpoken
<1>6. Rows(SteerRows) /\ Replay(SteerRows) = <<>> /\ Rows(MadeRoom(S)) /\ Replay(MadeRoom(S)) = <<>>
  BY <1>2, ReplayAbout
<1>7. log' = (log \o ((Pending \o SteerRows) \o new)) \o MadeRoom(S)
  BY <1>1 DEF Prepares
<1>8. Rows(log') /\ Replay(log') = (Replay(log) \o Pending) \o new
  BY <1>0, <1>4, <1>5, <1>6, <1>7, ReplayFlush
<1>9. Replay(log) \o Pending = Full(messages)
  BY <1>0 DEF Recorded, Alive
<1>10. Rows(messages') /\ Full(messages') = Full(messages) \o new
  <2>1. \A x \in Messages : [x EXCEPT !.cleared = TRUE] \in Messages
    BY DEF Messages
  <2>2. PICK c \in Seq(Messages) : c = Cleared(messages, S) /\ Full(c) = Full(messages)
    <3>1. Cleared(messages, S) \in Seq(Messages)
      BY <1>0, <2>1, ClearedTypes
    <3>2. Full(Cleared(messages, S)) = Full(messages)
      BY <1>0, FullCleared
    <3> QED
      BY <3>1, <3>2, Zenon
  <2>3. messages' = c \o new
    BY <1>1, <2>2 DEF Prepares
  <2>4. new \in Seq(Messages)
    BY <1>5 DEF Rows
  <2>5. Full(c \o new) = Full(c) \o Full(new) /\ c \o new \in Seq(Messages)
    BY ONLY c \in Seq(Messages), <2>4, FullConcat, ConcatProperties
  <2> QED
    BY <1>5, <2>2, <2>3, <2>5 DEF Rows
<1>11. Pending' = <<>>
  <2>1. Transcript' /\ pc' \in {"wrapup", "request"}
    BY SpokenStep, PrepareMoves DEF Next, LoopStep
  <2> QED
    BY <2>1 DEF Transcript, Alive
<1> QED
  BY <1>2, <1>8, <1>9, <1>10, <1>11

\* Every step keeps the record.
LEMMA RecordedStep == ASSUME LoopTypes, Transcript, Recorded, [Next]_vars PROVE Recorded'
<1>0. messages \in Seq(Messages) /\ Rows(log) /\ logged \in Nat /\ (Alive => logged <= Len(messages))
  BY DEF LoopTypes, TypeOK, Rows
<1>1. ASSUME Quietly \/ Steered PROVE Recorded'
  <2>1. Pending' = Pending /\ messages' = messages
    BY <1>1 DEF Pending, Quietly, Steered
  <2>2. Replay(log') = Replay(log)
    <3>1. Replay(log \o <<Msg("plan", 0)>>) = Replay(log) \o Replay(<<Msg("plan", 0)>>)
      BY <1>0, ReplayAbout, RowsReplay, Zenon
    <3>2. Replay(log) \o <<>> = Replay(log)
      BY <1>0, ReplayRows, RowsLaws, Zenon
    <3> QED
      BY <1>1, <3>1, <3>2, ReplayAbout DEF Quietly, Steered
  <2> QED
    BY <1>1, <2>1, <2>2 DEF Quietly, Steered, Recorded, Alive
<1>2. ASSUME Speaks PROVE Recorded'
  <2>1. PICK m \in Seq(Fresh) : messages' = messages \o m
    BY <1>2 DEF Speaks
  <2>2. m \in Seq(Spoken) /\ m \in Seq(Fresh) \cup Seq(Asked)
    BY SpokenTypes, SeqMonotonic
  <2>3. Rows(m) /\ Full(m) = m
    BY <2>2, ReplaySpoken
  <2>4. m \in Seq(Messages)
    BY <2>3 DEF Rows
  <2>5. Alive /\ logged' = logged /\ log' = log
    BY <1>2 DEF Speaks
  <2>6. Pending' = Pending \o m
    BY <1>0, <2>1, <2>4, <2>5, PendingGrows
  <2>7. Full(messages') = Full(messages) \o m
    BY <1>0, <2>1, <2>3, <2>4, FullConcat
  <2>8. Rows(Pending)
    BY <1>0, <2>5, PendingTypes DEF Rows
  <2>9. Replay(log) \o (Pending \o m) = (Replay(log) \o Pending) \o m
    <3>1. Rows(Replay(log))
      BY <1>0, ReplayRows
    <3> QED
      BY ONLY <2>3, <2>8, <3>1, RowsJoin
  <2> QED
    BY <2>5, <2>6, <2>7, <2>9 DEF Recorded
<1>3. ASSUME Prepare PROVE Recorded'
  <2>1. Replay(log') = Full(messages') /\ Pending' = <<>> /\ Rows(log')
    BY <1>3, PrepareRecords
  <2>2. Replay(log') \o <<>> = Replay(log')
    BY <2>1, ReplayRows, RowsLaws, Zenon
  <2> QED
    BY <2>1, <2>2 DEF Recorded
<1>4. ASSUME Leaves \/ WrapUp \/ PrepareStopped \/ Crash PROVE Recorded'
  BY <1>4 DEF Leaves, WrapUp, End, PrepareStopped, Crash, Recorded, Alive
<1> QED
  BY <1>1, <1>2, <1>3, <1>4, Effects
\* Rows are only ever added to the log.
LEMMA LogGrows == ASSUME LoopTypes, Transcript, [Next]_vars PROVE \E m : Rows(m) /\ log' = log \o m
<1>0. Rows(log) /\ said \in BOOLEAN
  BY DEF LoopTypes, TypeOK, Rows
<1>1. ASSUME Quietly \/ Steered \/ Speaks PROVE \E m : Rows(m) /\ log' = log \o m
  <2>1. log \o <<>> = log /\ Rows(<<>>)
    BY <1>0, RowsLaws
  <2>2. Rows(<<Msg("plan", 0)>>)
    BY ReplayAbout
  <2> QED
    BY <1>1, <2>1, <2>2 DEF Quietly, Steered, Speaks
<1>2. \A text \in BOOLEAN : Rows(EndRows(text))
  BY EndTypes DEF Rows
<1>3. ASSUME Leaves \/ WrapUp PROVE \E m : Rows(m) /\ log' = log \o m
  <2>1. \E text \in BOOLEAN : log' = log \o EndRows(text)
    BY <1>0, <1>3 DEF Leaves, WrapUp, End, Streamed
  <2> QED
    BY <1>2, <2>1
<1>4. ASSUME pc = "prepare" PROVE Rows(Pending)
  BY <1>4, PendingTypes DEF LoopTypes, TypeOK, Alive, Rows
<1>5. ASSUME PrepareStopped PROVE \E m : Rows(m) /\ log' = log \o m
  <2>1. Rows(Pending) /\ Rows(EndRows(said)) /\ log' = (log \o Pending) \o EndRows(said)
    BY <1>0, <1>2, <1>4, <1>5 DEF PrepareStopped
  <2>2. (log \o Pending) \o EndRows(said) = log \o (Pending \o EndRows(said))
    BY <1>0, <2>1, RowsJoin
  <2>3. Rows(Pending \o EndRows(said))
    BY <2>1, RowsConcat
  <2> QED
    BY <2>1, <2>2, <2>3
<1>6. ASSUME Prepare PROVE \E m : Rows(m) /\ log' = log \o m
  <2>1. PICK new \in Seq(Asked), S \in SUBSET Old : Prepares(new, S)
    BY <1>6, PrepareMoves
  <2>2. Rows(new)
    BY SpokenTypes, SeqMonotonic DEF Rows
  <2>3. Rows(SteerRows) /\ Rows(MadeRoom(S)) /\ Rows(Pending)
    BY <1>4, <1>6, PrepareMoves, ReplayAbout
  <2>4. PICK w : w = (Pending \o SteerRows) \o new
    OBVIOUS
  <2>5. Rows(Pending \o SteerRows)
    BY ONLY <2>3, RowsConcat, Zenon
  <2>6. Rows(w)
    BY ONLY <2>2, <2>4, <2>5, RowsConcat, Zenon
  <2>7. Rows(w \o MadeRoom(S))
    BY ONLY <2>3, <2>6, RowsConcat, Zenon
  <2>8. log' = (log \o w) \o MadeRoom(S)
    BY <2>1, <2>4 DEF Prepares
  <2>9. (log \o w) \o MadeRoom(S) = log \o (w \o MadeRoom(S))
    <3>1. Rows(log) /\ Rows(w) /\ Rows(MadeRoom(S))
      BY <1>0, <2>3, <2>6
    <3> QED
      BY ONLY <3>1, RowsJoin
  <2> QED
    BY <2>7, <2>8, <2>9
<1>7. ASSUME Crash PROVE \E m : Rows(m) /\ log' = log \o m
  <2>1. CASE pc = "prepare"
    <3>1. PICK k \in 0..Len(Pending) : log' = log \o SubSeq(Pending, 1, k)
      BY <1>7, <2>1 DEF Crash
    <3>2. Rows(SubSeq(Pending, 1, k))
      BY <1>4, <2>1 DEF Rows
    <3> QED
      BY <3>1, <3>2
  <2>2. CASE pc # "prepare"
    BY <1>0, <1>7, <2>2, RowsLaws DEF Crash
  <2> QED
    BY <2>1, <2>2
<1> QED
  BY <1>1, <1>3, <1>5, <1>6, <1>7, Effects

\* The messages of the last request, as the log must have them.
Seen(s) == Full(Without(s, {"plan_line"}))

\* Every step keeps what the model saw in the log.
LEMMA SeenStep ==
    ASSUME LoopTypes, Transcript, Recorded, SeenIsReplayable, [Next]_vars PROVE SeenIsReplayable'
<1>0. Rows(log) /\ Rows(sent) /\ messages \in Seq(Messages) /\ said \in BOOLEAN
  BY DEF LoopTypes, TypeOK, Rows
<1>1. SeenIsReplayable <=> IsPrefix(Seen(sent), Replay(log))
  BY DEF SeenIsReplayable, Seen, Full
<1>2. SeenIsReplayable' <=> IsPrefix(Seen(sent'), Replay(log'))
  BY DEF SeenIsReplayable, Seen, Full
<1>3. ASSUME NEW s, Rows(s) PROVE Seen(s) \in Seq(Messages)
  BY <1>3, WithoutType, FullTypes DEF Rows, Seen
<1>4. ASSUME NEW s, NEW m, Rows(s), Rows(m), IsPrefix(Seen(s), Replay(log))
      PROVE  IsPrefix(Seen(s), Replay(log \o m))
  <2>1. Replay(log \o m) = Replay(log) \o Replay(m)
    BY <1>0, <1>4, RowsReplay
  <2>2. Replay(log) \in Seq(Messages) /\ Replay(m) \in Seq(Messages)
    BY <1>0, <1>4, ReplayRows DEF Rows
  <2>3. PICK x \in Seq(Messages) : x = Seen(s)
    BY <1>3, <1>4
  <2>4. IsPrefix(x, Replay(log) \o Replay(m))
    BY <1>4, <2>2, <2>3, PrefixConcat
  <2> QED
    BY <2>1, <2>3, <2>4
<1>5. ASSUME sent' = sent PROVE SeenIsReplayable'
  <2>1. PICK m : Rows(m) /\ log' = log \o m
    BY LogGrows
  <2>2. IsPrefix(Seen(sent), Replay(log \o m))
    BY <1>0, <1>1, <1>4, <2>1
  <2> QED
    BY <1>2, <1>5, <2>1, <2>2
<1>6. ASSUME NEW s \in Seq(Spoken) PROVE Seen(s) = Full(s)
  BY ReplaySpoken DEF Seen
<1>7. ASSUME Prepare PROVE SeenIsReplayable'
  <2>1. Rows(log') /\ Replay(log') = Full(messages') /\ sent' = messages'
    BY <1>7, PrepareRecords
  <2>2. messages' \in Seq(Spoken)
    <3>1. Transcript' /\ pc' \in {"wrapup", "request"}
      BY <1>7, SpokenStep, PrepareMoves
    <3> QED
      BY <3>1 DEF Transcript, Alive
  <2>3. Seen(sent') = Replay(log')
    BY <1>6, <2>1, <2>2
  <2>4. IsPrefix(Replay(log'), Replay(log'))
    BY <2>1, ReplayRows, PrefixSelf DEF Rows
  <2> QED
    BY <1>2, <2>3, <2>4
<1>8. ASSUME WrapUp PROVE SeenIsReplayable'
  <2>1. pc = "wrapup" /\ Alive /\ sent' = messages'
    BY <1>8 DEF WrapUp, Alive
  <2>2. Pending = <<>> /\ messages \in Seq(Spoken)
    BY <2>1 DEF Transcript
  <2>3. Replay(log) = Full(messages)
    <3>1. Replay(log) \o <<>> = Replay(log)
      BY <1>0, ReplayRows, RowsLaws, Zenon
    <3> QED
      BY <2>1, <2>2, <3>1 DEF Recorded
  <2>4. Seen(messages') = Full(messages)
    <3>1. CASE messages' = messages
      BY <1>6, <2>2, <3>1
    <3>2. CASE messages' # messages
      <4>1. Msg("plan_line", 0) \in Messages /\ Msg("plan_line", 0).kind = "plan_line"
        BY DEF Msg, Messages, Kinds
      <4>2. PICK r \in Seq(Messages) : r = <<Msg("plan_line", 0)>> /\ \A i \in 1..Len(r) : r[i].kind \in {"plan_line"}
        <5>1. <<Msg("plan_line", 0)>> \in Seq(Messages)
              /\ \A i \in 1..Len(<<Msg("plan_line", 0)>>) : <<Msg("plan_line", 0)>>[i].kind \in {"plan_line"}
          BY <4>1
        <5> QED
          BY <5>1, Zenon
      <4>3. messages' = messages \o r
        BY <1>0, <1>8, <3>2, <4>1, <4>2, AppendIsConcat DEF WrapUp
      <4>4. Without(r, {"plan_line"}) = <<>>
        BY <4>2, WithoutAll
      <4>5. Without(messages \o r, {"plan_line"}) = Without(messages, {"plan_line"}) \o Without(r, {"plan_line"})
        BY <1>0, WithoutConcat
      <4>6. Without(messages, {"plan_line"}) = messages
        BY <2>2, ReplaySpoken
      <4>7. messages \o <<>> = messages
        BY <1>0
      <4> QED
        BY <4>3, <4>4, <4>5, <4>6, <4>7 DEF Seen
    <3> QED
      BY <3>1, <3>2
  <2>5. IsPrefix(Seen(messages'), Replay(log))
    BY <1>0, <2>3, <2>4, ReplayRows, PrefixSelf DEF Rows
  <2>6. Rows(messages')
    BY LoopTypesStep DEF LoopTypes, TypeOK, Rows
  <2>7. PICK m : Rows(m) /\ log' = log \o m
    BY LogGrows
  <2>8. IsPrefix(Seen(messages'), Replay(log \o m))
    BY <1>4, <2>5, <2>6, <2>7
  <2> QED
    BY <1>2, <2>1, <2>7, <2>8
<1>9. Prepare \/ WrapUp \/ sent' = sent
  BY Effects DEF Quietly, Steered, Speaks, Leaves, PrepareStopped, Crash
<1> QED
  BY <1>5, <1>7, <1>8, <1>9

\* log.rs: anything the model saw is reconstructible from the rows, in every
\* state and also after the app died in the middle of a flush.
THEOREM SeenIsOnRecord == Spec => []SeenIsReplayable
<1>1. Init => Recorded /\ SeenIsReplayable
  <2> SUFFICES ASSUME Init PROVE Recorded /\ SeenIsReplayable
    OBVIOUS
  <2>1. Transcript /\ pc = "start" /\ log = messages /\ sent = <<>> /\ messages = <<Msg("prompt", 0)>>
    BY SpokenInit DEF Init
  <2>2. messages \in Seq(Spoken) /\ Pending = <<>>
    BY <2>1 DEF Transcript, Alive
  <2>3. Replay(messages) = messages /\ Rows(messages)
    BY <2>2, ReplaySpoken
  <2>4. messages \o <<>> = messages
    BY <2>3, RowsLaws
  <2>5. Full(messages) = messages
    <3>1. Msg("prompt", 0).cleared = FALSE
      BY DEF Msg
    <3>2. messages \in Seq(Messages) /\ \A i \in 1..Len(messages) : messages[i].cleared = FALSE
      BY <2>1, <2>3, <3>1 DEF Rows
    <3> QED
      BY <3>2, FullSame
  <2>6. Recorded
    BY <2>1, <2>2, <2>3, <2>4, <2>5 DEF Recorded
  <2>7. Without(<<>>, {"plan_line"}) = <<>>
    <3>1. <<>> \in Seq(Messages) /\ \A i \in 1..Len(<<>>) : <<>>[i].kind \notin {"plan_line"}
      OBVIOUS
    <3> QED
      BY <3>1, WithoutNone
  <2>8. [i \in DOMAIN <<>> |-> Original(<<>>[i])] = <<>>
    OBVIOUS
  <2>9. IsPrefix(<<>>, messages)
    BY <2>3 DEF IsPrefix, Rows
  <2>10. SeenIsReplayable
    BY <2>1, <2>3, <2>7, <2>8, <2>9 DEF SeenIsReplayable
  <2> QED
    BY <2>6, <2>10
<1>2. LoopTypes /\ Transcript /\ Recorded /\ SeenIsReplayable /\ [Next]_vars
      => (LoopTypes /\ Transcript /\ Recorded /\ SeenIsReplayable)'
  BY LoopTypesStep, SpokenStep, RecordedStep, SeenStep
<1> QED
  BY <1>1, <1>2, LoopTypesInit, SpokenInit, PTL DEF Spec
-----------------------------------------------------------------------------
(*************************** calls and their results ***********************)

\* Messages that ask for nothing, and a transcript whose calls all have their
\* results behind them.
NoCall == {m \in Messages : m.kind # "tool_call"}
Closed(s) == \A i \in CallsIn(s) : AnsweredAt(s, i)

\* The log is closed.  While a batch is dispatched its calls are past the
\* watermark and nothing else is; what a turn leaves there for prepare_turn to
\* flush is closed, and begins with its calls if it has any.
Batch ==
    /\ pc # "dead" => Closed(Bare(Replay(log)))
    /\ pc = "dispatch" => Pending = <<Msg("tool_call", Len(outs))>>
    /\ pc = "prepare" => /\ Closed(Bare(Pending))
                         /\ \A i \in 2..Len(Pending) : Pending[i].kind # "tool_call"

\* What asks for nothing is closed.
LEMMA NoCallClosed ==
    ASSUME NEW s \in Seq(NoCall)
    PROVE  Rows(s) /\ CallsIn(s) = {} /\ Closed(s) /\ Bare(s) \in Seq(NoCall) /\ Replay(s) \in Seq(NoCall)
<1>1. NoCall \subseteq Messages
  BY DEF NoCall
<1>2. Rows(s)
  BY <1>1, SeqMonotonic DEF Rows
<1>3. \A i \in 1..Len(s) : s[i] \in NoCall
  OBVIOUS
<1>4. CallsIn(s) = {}
  BY <1>3 DEF CallsIn, NoCall
<1>5. Bare(s) \in Seq(NoCall)
  BY WithoutType DEF Bare
<1>6. Replay(s) \in Seq(NoCall)
  BY WithoutType DEF Replay
<1> QED
  BY <1>2, <1>4, <1>5, <1>6 DEF Closed

\* Without notes, rows are rows, and after one another they stay so.
LEMMA BareRows == \A s : Rows(s) => Rows(Bare(s))
  BY WithoutType DEF Rows, Bare

\* The same for rows after rows.
LEMMA RowsBare == \A s, t : Rows(s) /\ Rows(t) => Bare(s \o t) = Bare(s) \o Bare(t)
  BY WithoutConcat DEF Rows, Bare

\* The entries of rows after rows.
LEMMA RowsAt ==
    ASSUME NEW s, NEW t, Rows(s), Rows(t)
    PROVE  /\ Len(s) \in Nat /\ Len(t) \in Nat /\ DOMAIN s = 1..Len(s) /\ DOMAIN t = 1..Len(t)
           /\ DOMAIN (s \o t) = 1..(Len(s) + Len(t))
           /\ \A i \in 1..Len(s) : (s \o t)[i] = s[i] /\ s[i] \in Messages
           /\ \A i \in 1..Len(t) : (s \o t)[Len(s) + i] = t[i] /\ t[i] \in Messages
<1>1. s \in Seq(Messages) /\ t \in Seq(Messages)
  BY DEF Rows
<1>2. /\ s \o t \in Seq(Messages) /\ Len(s \o t) = Len(s) + Len(t)
      /\ \A i \in 1..(Len(s) + Len(t)) : (s \o t)[i] = IF i <= Len(s) THEN s[i] ELSE t[i - Len(s)]
  BY ONLY <1>1, ConcatProperties
<1>3. Len(s) \in Nat /\ Len(t) \in Nat /\ DOMAIN s = 1..Len(s) /\ DOMAIN t = 1..Len(t)
  BY <1>1
<1>4. DOMAIN (s \o t) = 1..(Len(s) + Len(t))
  BY <1>2
<1>5. ASSUME NEW i \in 1..Len(s) PROVE (s \o t)[i] = s[i] /\ s[i] \in Messages
  <2>1. i \in 1..(Len(s) + Len(t)) /\ i <= Len(s)
    BY <1>3
  <2>2. s[i] \in Messages
    BY <1>1
  <2> QED
    BY <1>2, <2>1, <2>2
<1>6. ASSUME NEW i \in 1..Len(t) PROVE (s \o t)[Len(s) + i] = t[i] /\ t[i] \in Messages
  <2>1. Len(s) + i \in 1..(Len(s) + Len(t)) /\ ~(Len(s) + i <= Len(s)) /\ (Len(s) + i) - Len(s) = i
    BY <1>3
  <2>2. t[i] \in Messages
    BY <1>1
  <2> QED
    BY <1>2, <2>1, <2>2
<1> QED
  BY <1>3, <1>4, <1>5, <1>6

\* The calls in rows after rows.
LEMMA CallsConcat ==
    ASSUME NEW s, NEW t, Rows(s), Rows(t), NEW i \in CallsIn(s \o t)
    PROVE  i \in CallsIn(s) \/ (i - Len(s) \in CallsIn(t) /\ i = Len(s) + (i - Len(s)))
<1>0. /\ Len(s) \in Nat /\ Len(t) \in Nat /\ DOMAIN s = 1..Len(s) /\ DOMAIN t = 1..Len(t)
      /\ DOMAIN (s \o t) = 1..(Len(s) + Len(t))
      /\ \A j \in 1..Len(s) : (s \o t)[j] = s[j]
      /\ \A j \in 1..Len(t) : (s \o t)[Len(s) + j] = t[j]
  BY RowsAt
<1>1. PICK u : u = s \o t
  OBVIOUS
<1>2. i \in 1..(Len(s) + Len(t)) /\ u[i].kind = "tool_call"
  BY <1>0, <1>1 DEF CallsIn
<1>3. CASE i <= Len(s)
  <2>1. i \in 1..Len(s)
    BY <1>0, <1>2, <1>3
  <2> QED
    BY <1>0, <1>1, <1>2, <2>1 DEF CallsIn
<1>4. CASE ~(i <= Len(s))
  <2>1. i - Len(s) \in 1..Len(t) /\ i = Len(s) + (i - Len(s))
    BY <1>0, <1>2, <1>4
  <2> QED
    BY <1>0, <1>1, <1>2, <2>1 DEF CallsIn
<1> QED
  BY <1>3, <1>4

\* What is answered on the left is answered.
LEMMA AnsweredLeft ==
    ASSUME NEW s, NEW t, Rows(s), Rows(t), NEW i \in CallsIn(s), AnsweredAt(s, i)
    PROVE  AnsweredAt(s \o t, i)
<1>0. /\ Len(s) \in Nat /\ Len(t) \in Nat /\ DOMAIN s = 1..Len(s)
      /\ DOMAIN (s \o t) = 1..(Len(s) + Len(t))
      /\ \A j \in 1..Len(s) : (s \o t)[j] = s[j]
  BY RowsAt
<1>1. PICK u : u = s \o t
  OBVIOUS
<1>2. i \in 1..Len(s) /\ u[i] = s[i]
  BY <1>0, <1>1 DEF CallsIn
<1>3. ASSUME NEW k \in 1..s[i].n PROVE i + k \in DOMAIN u /\ u[i + k].kind = "tool_result" /\ u[i + k].n = k
  <2>1. i + k \in 1..Len(s) /\ s[i + k].kind = "tool_result" /\ s[i + k].n = k
    BY <1>0, <1>3 DEF AnsweredAt
  <2>2. i + k \in 1..(Len(s) + Len(t))
    BY <1>0, <2>1
  <2> QED
    BY <1>0, <1>1, <2>1, <2>2
<1> QED
  BY <1>1, <1>2, <1>3 DEF AnsweredAt

\* And on the right.
LEMMA AnsweredRight ==
    ASSUME NEW s, NEW t, Rows(s), Rows(t), NEW j \in CallsIn(t), AnsweredAt(t, j)
    PROVE  AnsweredAt(s \o t, Len(s) + j)
<1>0. /\ Len(s) \in Nat /\ Len(t) \in Nat /\ DOMAIN t = 1..Len(t)
      /\ DOMAIN (s \o t) = 1..(Len(s) + Len(t))
      /\ \A i \in 1..Len(t) : (s \o t)[Len(s) + i] = t[i] /\ t[i] \in Messages
  BY RowsAt
<1>1. PICK u : u = s \o t
  OBVIOUS
<1>2. j \in 1..Len(t) /\ u[Len(s) + j] = t[j] /\ t[j].n \in Nat
  <2>1. j \in 1..Len(t)
    BY <1>0 DEF CallsIn
  <2>2. t[j] \in Messages
    BY <1>0, <2>1
  <2> QED
    BY <1>0, <1>1, <2>1, <2>2 DEF Messages
<1>3. ASSUME NEW k \in 1..t[j].n
      PROVE  (Len(s) + j) + k \in DOMAIN u /\ u[(Len(s) + j) + k].kind = "tool_result" /\ u[(Len(s) + j) + k].n = k
  <2>1. j + k \in 1..Len(t) /\ t[j + k].kind = "tool_result" /\ t[j + k].n = k
    BY <1>0, <1>3 DEF AnsweredAt
  <2>2. Len(s) + (j + k) \in 1..(Len(s) + Len(t)) /\ (Len(s) + j) + k = Len(s) + (j + k)
    BY <1>0, <1>2, <2>1
  <2> QED
    BY <1>0, <1>1, <2>1, <2>2
<1> QED
  BY <1>1, <1>2, <1>3 DEF AnsweredAt

\* Closed rows after closed rows are closed.
LEMMA ClosedConcat ==
    ASSUME NEW s, NEW t, Rows(s), Rows(t), Closed(s), Closed(t)
    PROVE  Closed(s \o t)
<1> SUFFICES ASSUME NEW i \in CallsIn(s \o t) PROVE AnsweredAt(s \o t, i)
  BY DEF Closed
<1>1. CASE i \in CallsIn(s)
  BY <1>1, AnsweredLeft DEF Closed
<1>2. CASE i - Len(s) \in CallsIn(t) /\ i = Len(s) + (i - Len(s))
  <2>1. PICK j \in CallsIn(t) : i = Len(s) + j
    BY <1>2
  <2>2. AnsweredAt(s \o t, Len(s) + j)
    BY AnsweredRight DEF Closed
  <2> QED
    BY <2>1, <2>2
<1> QED
  BY <1>1, <1>2, CallsConcat

\* After closed rows, rows with calls only at their head leave at most the last
\* batch open.
LEMMA OpenConcat ==
    ASSUME NEW s, NEW t, Rows(s), Rows(t), Closed(s), CallsIn(t) \subseteq {1}, NEW i \in CallsIn(s \o t)
    PROVE  AnsweredAt(s \o t, i) \/ \A j \in CallsIn(s \o t) : j <= i
<1>1. CASE i \in CallsIn(s)
  BY <1>1, AnsweredLeft DEF Closed
<1>2. CASE ~(i \in CallsIn(s))
  <2>1. Len(s) \in Nat /\ DOMAIN s = 1..Len(s)
    BY RowsAt
  <2>2. i = Len(s) + 1
    BY <1>2, <2>1, CallsConcat
  <2>3. ASSUME NEW j \in CallsIn(s \o t) PROVE j <= i
    <3>1. j \in CallsIn(s) \/ (j - Len(s) \in CallsIn(t) /\ j = Len(s) + (j - Len(s)))
      BY CallsConcat
    <3>2. CASE j \in CallsIn(s)
      BY <2>1, <2>2, <3>2 DEF CallsIn
    <3>3. CASE j - Len(s) \in CallsIn(t) /\ j = Len(s) + (j - Len(s))
      BY <2>1, <2>2, <3>3
    <3> QED
      BY <3>1, <3>2, <3>3
  <2> QED
    BY <2>3
<1> QED
  BY <1>1, <1>2
\* With calls only at the head of what is flushed, the same without the notes.
LEMMA HeadCalls ==
    ASSUME NEW u \in Seq(Messages), \A i \in 2..Len(u) : u[i].kind # "tool_call"
    PROVE  CallsIn(Bare(u)) \subseteq {1}
<1>1. CASE u = <<>>
  <2>1. u \in Seq(NoCall)
    BY <1>1
  <2>2. Bare(u) \in Seq(NoCall)
    BY <2>1, NoCallClosed
  <2>3. CallsIn(Bare(u)) = {}
    BY <2>2, NoCallClosed
  <2> QED
    BY <2>3
<1>2. CASE u # <<>>
  <2>0. Len(u) \in Nat \ {0}
    BY <1>2
  <2>1. u = <<u[1]>> \o SubSeq(u, 2, Len(u))
    <3>1. 1 \in 1..Len(u) /\ Len(u) \in 1..Len(u) /\ 1 + 1 = 2
      BY <2>0
    <3>2. SubSeq(u, 1, Len(u)) = <<u[1]>> \o SubSeq(u, 1 + 1, Len(u))
      BY <3>1, SubSeqRecursiveFirst
    <3>3. SubSeq(u, 1, Len(u)) = u
      BY SubSeqFull
    <3> QED
      BY <3>1, <3>2, <3>3
  <2>2. \A i \in 2..Len(u) : u[i] \in NoCall
    <3>1. \A i \in 2..Len(u) : u[i] \in Messages
      BY <2>0
    <3> QED
      BY <3>1 DEF NoCall
  <2>3. SubSeq(u, 2, Len(u)) \in Seq(NoCall)
    BY <2>0, <2>2, SubSeqProperties
  <2>4. PICK v \in Seq(NoCall) : v = SubSeq(u, 2, Len(u))
    BY <2>3
  <2>5. u[1] \in Messages
    BY <2>0
  <2>6. PICK x \in Messages : x = u[1]
    BY <2>5
  <2>7. Rows(<<x>>) /\ Rows(v)
    BY NoCallClosed DEF Rows
  <2>8. Bare(u) = Bare(<<x>>) \o Bare(v)
    BY <2>1, <2>4, <2>6, <2>7, RowsBare, Zenon
  <2>9. Bare(<<x>>) = <<>> \/ Bare(<<x>>) = <<x>>
    <3>1. <<x>> \in Seq(Messages) /\ Len(<<x>>) = 1 /\ <<x>>[1] = x
      OBVIOUS
    <3>2. CASE x.kind \in {"system_note", "plan_line"}
      <4>1. \A i \in 1..Len(<<x>>) : <<x>>[i].kind \in {"system_note", "plan_line"}
        BY <3>2
      <4> QED
        BY <3>1, <4>1, WithoutAll DEF Bare
    <3>3. CASE x.kind \notin {"system_note", "plan_line"}
      <4>1. \A i \in 1..Len(<<x>>) : <<x>>[i].kind \notin {"system_note", "plan_line"}
        BY <3>3
      <4> QED
        BY <3>1, <4>1, WithoutNone DEF Bare
    <3> QED
      BY <3>2, <3>3
  <2>10. PICK y : y = Bare(v) /\ Rows(y) /\ CallsIn(y) = {}
    <3>1. Bare(v) \in Seq(NoCall)
      BY NoCallClosed
    <3>2. Rows(Bare(v)) /\ CallsIn(Bare(v)) = {}
      BY <3>1, NoCallClosed
    <3> QED
      BY <3>2
  <2>11. PICK h : h = Bare(<<x>>) /\ Rows(h) /\ Len(h) <= 1
    <3>1. Len(<<>>) <= 1 /\ Len(<<x>>) <= 1 /\ Rows(<<>>)
      BY RowsLaws
    <3> QED
      BY <2>7, <2>9, <3>1
  <2>12. ASSUME NEW i \in CallsIn(h \o y) PROVE i = 1
    <3>1. i \in CallsIn(h)
      BY <2>10, <2>11, CallsConcat
    <3>2. i \in 1..Len(h) /\ Len(h) \in Nat
      BY <2>10, <2>11, <3>1, RowsAt DEF CallsIn
    <3> QED
      BY <2>11, <3>2
  <2> QED
    BY <2>8, <2>10, <2>11, <2>12
<1> QED
  BY <1>1, <1>2

\* The result of a call, without the note that may follow it.
LEMMA BareResult ==
    ASSUME NEW i \in Nat
    PROVE  ResultOf(i) \in Seq(Messages) /\ Bare(ResultOf(i)) = <<Msg("tool_result", i)>>
<1>1. Msg("tool_result", i) \in Messages /\ Msg("tool_result", i).kind = "tool_result"
  BY DEF Msg, Messages, Kinds
<1>2. FixNote(calls[i]) \in Messages /\ FixNote(calls[i]).kind = "system_note"
  BY DEF FixNote, Msg, Messages, Kinds
<1>3. PICK a : a = <<Msg("tool_result", i)>>
  OBVIOUS
<1>4. a \in Seq(Messages) /\ \A j \in 1..Len(a) : a[j].kind \notin {"system_note", "plan_line"}
  BY <1>1, <1>3
<1>5. Bare(a) = a
  BY <1>4, WithoutNone DEF Bare
<1>6. PICK b : b = IF outs[i] = "err" /\ calls[i] \in Builtin THEN <<FixNote(calls[i])>> ELSE <<>>
  OBVIOUS
<1>7. b \in Seq(Messages) /\ \A j \in 1..Len(b) : b[j].kind \in {"system_note", "plan_line"}
  BY <1>2, <1>6
<1>8. Bare(b) = <<>>
  BY <1>7, WithoutAll DEF Bare
<1>9. ResultOf(i) = a \o b
  BY <1>3, <1>6 DEF ResultOf
<1>10. Rows(a) /\ Rows(b)
  BY <1>4, <1>7 DEF Rows
<1>11. Rows(a \o b) /\ Bare(a \o b) = Bare(a) \o Bare(b)
  BY ONLY <1>10, RowsBare, RowsConcat, Zenon
<1>12. a \o <<>> = a
  BY <1>10, RowsLaws
<1> QED
  BY <1>3, <1>5, <1>8, <1>9, <1>11, <1>12 DEF Rows

\* The results of a batch, without notes, are one per call in call order.
Answers(n) == [k \in 1..n |-> Msg("tool_result", k)]
ResultsTo(n) == [k \in 1..n |-> ResultOf(k)]

\* Answers, one by one.
LEMMA AnswersTypes ==
    ASSUME NEW n \in Nat
    PROVE  /\ Answers(n) \in Seq(Messages) /\ Len(Answers(n)) = n
           /\ Answers(n) \o <<Msg("tool_result", n + 1)>> = Answers(n + 1)
<1>1. \A m \in Nat : Msg("tool_result", m) \in Messages
  BY DEF Msg, Messages, Kinds
<1>2. \A m \in Nat : Answers(m) \in Seq(Messages) /\ Len(Answers(m)) = m
  <2> SUFFICES ASSUME NEW m \in Nat PROVE Answers(m) \in Seq(Messages) /\ Len(Answers(m)) = m
    OBVIOUS
  <2>1. Answers(m) \in [1..m -> Messages]
    BY <1>1 DEF Answers
  <2> QED
    BY <2>1
<1>3. n + 1 \in Nat
  OBVIOUS
<1>4. PICK a \in Seq(Messages) : a = Answers(n) /\ Len(a) = n /\ \A k \in 1..n : a[k] = Msg("tool_result", k)
  <2>1. \A k \in 1..n : Answers(n)[k] = Msg("tool_result", k)
    BY DEF Answers
  <2> QED
    BY <1>2, <2>1
<1>5. PICK b \in Seq(Messages) : b = Answers(n + 1) /\ Len(b) = n + 1 /\ \A k \in 1..(n + 1) : b[k] = Msg("tool_result", k)
  <2>1. \A k \in 1..(n + 1) : Answers(n + 1)[k] = Msg("tool_result", k)
    BY DEF Answers
  <2> QED
    BY <1>2, <1>3, <2>1
<1>6. PICK x \in Messages : x = Msg("tool_result", n + 1)
  BY <1>1
<1>7. /\ Append(a, x) \in Seq(Messages) /\ Len(Append(a, x)) = n + 1 /\ Append(a, x)[n + 1] = x
      /\ \A k \in 1..n : Append(a, x)[k] = a[k]
  BY <1>4
<1>8. \A k \in 1..(n + 1) : Append(a, x)[k] = b[k]
  <2> SUFFICES ASSUME NEW k \in 1..(n + 1) PROVE Append(a, x)[k] = b[k]
    OBVIOUS
  <2>1. CASE k = n + 1
    BY <1>5, <1>6, <1>7, <2>1
  <2>2. CASE k # n + 1
    <3>1. k \in 1..n
      BY <2>2
    <3> QED
      BY <1>4, <1>5, <1>7, <3>1
  <2> QED
    BY <2>1, <2>2
<1>9. Append(a, x) = b
  BY <1>5, <1>7, <1>8, SeqEqual
<1>10. a \o <<x>> = Append(a, x)
  BY AppendIsConcat
<1> QED
  BY <1>2, <1>4, <1>5, <1>6, <1>9, <1>10
\* The results up to any call of a batch.
LEMMA ResultsAnswer ==
    \A n \in Nat : FlattenSeq(ResultsTo(n)) \in Seq(Messages) /\ Bare(FlattenSeq(ResultsTo(n))) = Answers(n)
<1> DEFINE T == {n \in Nat : FlattenSeq(ResultsTo(n)) \in Seq(Messages) /\ Bare(FlattenSeq(ResultsTo(n))) = Answers(n)}
<1>1. 0 \in T
  <2>1. ResultsTo(0) = <<>> /\ Answers(0) = <<>>
    BY DEF ResultsTo, Answers
  <2>2. <<>> \in Seq(Messages) /\ \A i \in 1..Len(<<>>) : <<>>[i].kind \in {"system_note", "plan_line"}
    OBVIOUS
  <2>3. Bare(<<>>) = <<>>
    BY <2>2, WithoutAll DEF Bare
  <2> QED
    BY <2>1, <2>2, <2>3, FlattenEmpty
<1>2. ASSUME NEW n \in Nat, n \in T PROVE n + 1 \in T
  <2>1. \A k \in Nat : ResultOf(k) \in Seq(Messages)
    BY BareResult
  <2>2. ResultsTo(n) \in Seq(Seq(Messages)) /\ Len(ResultsTo(n)) = n
    <3>1. ResultsTo(n) \in [1..n -> Seq(Messages)]
      BY <2>1 DEF ResultsTo
    <3> QED
      BY <3>1
  <2>3. n + 1 \in Nat /\ ResultsTo(n + 1) \in Seq(Seq(Messages)) /\ Len(ResultsTo(n + 1)) = n + 1
    <3>1. ResultsTo(n + 1) \in [1..(n + 1) -> Seq(Messages)]
      BY <2>1 DEF ResultsTo
    <3> QED
      BY <3>1
  <2>4. PICK r \in Seq(Seq(Messages)) : r = ResultsTo(n) /\ Len(r) = n /\ \A k \in 1..n : r[k] = ResultOf(k)
    <3>1. \A k \in 1..n : ResultsTo(n)[k] = ResultOf(k)
      BY DEF ResultsTo
    <3> QED
      BY <2>2, <3>1
  <2>5. PICK q \in Seq(Seq(Messages)) : q = ResultsTo(n + 1) /\ Len(q) = n + 1 /\ \A k \in 1..(n + 1) : q[k] = ResultOf(k)
    <3>1. \A k \in 1..(n + 1) : ResultsTo(n + 1)[k] = ResultOf(k)
      BY DEF ResultsTo
    <3> QED
      BY <2>3, <3>1
  <2>6. PICK x \in Seq(Messages) : x = ResultOf(n + 1) /\ Bare(x) = <<Msg("tool_result", n + 1)>>
    BY <2>3, BareResult
  <2>7. Append(r, x) = q
    <3>1. /\ Append(r, x) \in Seq(Seq(Messages)) /\ Len(Append(r, x)) = n + 1 /\ Append(r, x)[n + 1] = x
          /\ \A k \in 1..n : Append(r, x)[k] = r[k]
      BY <2>4
    <3>2. ASSUME NEW k \in 1..(n + 1) PROVE Append(r, x)[k] = q[k]
      <4>1. CASE k = n + 1
        BY <2>5, <2>6, <3>1, <4>1
      <4>2. CASE k # n + 1
        <5>1. k \in 1..n
          BY <4>2
        <5> QED
          BY <2>4, <2>5, <3>1, <5>1
      <4> QED
        BY <4>1, <4>2
    <3> QED
      BY <2>5, <3>1, <3>2, SeqEqual
  <2>8. FlattenSeq(q) = FlattenSeq(r) \o x
    BY <2>7, FlattenAppend
  <2>9. Rows(FlattenSeq(r)) /\ Bare(FlattenSeq(r)) = Answers(n) /\ Rows(x)
    BY <1>2, <2>4 DEF Rows
  <2>10. Rows(FlattenSeq(q))
    BY ONLY <2>8, <2>9, RowsConcat, Zenon
  <2>11. Bare(FlattenSeq(q)) = Bare(FlattenSeq(r)) \o Bare(x)
    BY ONLY <2>8, <2>9, RowsBare, Zenon
  <2>12. Answers(n) \o <<Msg("tool_result", n + 1)>> = Answers(n + 1)
    BY AnswersTypes
  <2> QED
    BY <2>3, <2>5, <2>6, <2>9, <2>10, <2>11, <2>12 DEF Rows
<1> HIDE DEF T
<1>3. \A n \in Nat : n \in T
  BY <1>1, <1>2, SetInduction
<1> QED
  BY <1>3 DEF T

\* A batch and its results, without notes, is closed.
LEMMA BatchAnswered ==
    ASSUME outs \in Seq({"none", "going", "ok", "err"}), NEW c, c = <<Msg("tool_call", Len(outs))>>,
           NEW r, r = FlattenSeq([i \in DOMAIN outs |-> ResultOf(i)])
    PROVE  Closed(Bare(c \o r)) /\ \A i \in 2..Len(c \o r) : (c \o r)[i].kind # "tool_call"
<1>1. PICK n \in Nat : n = Len(outs)
  OBVIOUS
<1>2. r = FlattenSeq(ResultsTo(n))
  <2>1. DOMAIN outs = 1..n
    BY <1>1
  <2> QED
    BY <2>1, Zenon DEF ResultsTo
<1>3. r \in Seq(Messages) /\ Bare(r) = Answers(n)
  BY <1>2, ResultsAnswer
<1>4. PICK x \in Messages : x = Msg("tool_call", n) /\ x.kind = "tool_call" /\ x.n = n
  <2>1. /\ Msg("tool_call", n) \in Messages
        /\ Msg("tool_call", n).kind = "tool_call" /\ Msg("tool_call", n).n = n
    BY DEF Msg, Messages, Kinds
  <2> QED
    BY <2>1
<1>5. c = <<x>>
  BY <1>1, <1>4
<1>6. Rows(c) /\ Rows(r) /\ Len(c) = 1 /\ c[1] = x
  BY <1>3, <1>5 DEF Rows
<1>7. Bare(c) = c
  <2>1. c \in Seq(Messages) /\ \A i \in 1..Len(c) : c[i].kind \notin {"system_note", "plan_line"}
    BY <1>4, <1>6 DEF Rows
  <2> QED
    BY <2>1, WithoutNone DEF Bare
<1>8. PICK a : a = Answers(n) /\ Rows(a) /\ Len(a) = n
  BY AnswersTypes DEF Rows
<1>9. \A k \in 1..n : a[k].kind = "tool_result" /\ a[k].n = k
  BY <1>8 DEF Answers, Msg
<1>10. Bare(c \o r) = c \o a
  <2>1. Bare(c \o r) = Bare(c) \o Bare(r)
    BY ONLY <1>6, RowsBare, Zenon
  <2>2. Bare(c) = c /\ Bare(r) = a
    BY <1>3, <1>7, <1>8
  <2> QED
    BY ONLY <2>1, <2>2, Zenon
<1>11. /\ DOMAIN (c \o a) = 1..(1 + n) /\ (c \o a)[1] = x
       /\ \A k \in 1..n : (c \o a)[1 + k] = a[k]
  <2>1. /\ DOMAIN (c \o a) = 1..(Len(c) + Len(a)) /\ \A i \in 1..Len(c) : (c \o a)[i] = c[i]
        /\ \A i \in 1..Len(a) : (c \o a)[Len(c) + i] = a[i]
    BY <1>6, <1>8, RowsAt
  <2> QED
    BY <1>6, <1>8, <2>1
<1>12. Closed(c \o a)
  <2> SUFFICES ASSUME NEW i \in CallsIn(c \o a) PROVE AnsweredAt(c \o a, i)
    BY DEF Closed
  <2>1. PICK u : u = c \o a
    OBVIOUS
  <2>2. i \in 1..(1 + n) /\ u[i].kind = "tool_call"
    BY <1>11, <2>1 DEF CallsIn
  <2>3. i = 1
    <3> SUFFICES ASSUME i # 1 PROVE FALSE
      OBVIOUS
    <3>1. i - 1 \in 1..n /\ 1 + (i - 1) = i
      BY <2>2
    <3>2. u[i] = a[i - 1]
      BY <1>11, <2>1, <3>1
    <3> QED
      BY <1>9, <2>2, <3>1, <3>2
  <2>4. u[i].n = n
    BY <1>4, <1>11, <2>1, <2>3
  <2>5. ASSUME NEW k \in 1..n PROVE i + k \in DOMAIN u /\ u[i + k].kind = "tool_result" /\ u[i + k].n = k
    <3>1. i + k = 1 + k /\ 1 + k \in 1..(1 + n)
      BY <2>3
    <3> QED
      BY <1>9, <1>11, <2>1, <3>1
  <2> QED
    BY <2>1, <2>4, <2>5 DEF AnsweredAt
<1>13. \A i \in 2..Len(c \o r) : (c \o r)[i].kind # "tool_call"
  <2>1. /\ Len(r) \in Nat /\ \A i \in 1..Len(r) : (c \o r)[1 + i] = r[i]
    BY <1>6, RowsAt
  <2>2. Len(c \o r) = 1 + Len(r)
    <3>1. DOMAIN (c \o r) = 1..(Len(c) + Len(r)) /\ Rows(c \o r)
      BY <1>6, RowsAt, RowsConcat
    <3>2. c \o r \in Seq(Messages)
      BY <3>1 DEF Rows
    <3> QED
      BY <1>6, <3>2, ConcatProperties DEF Rows
  <2>3. \A i \in 1..Len(r) : r[i].kind # "tool_call"
    <3>1. r \in Seq({m \in Fresh : m.kind # "tool_call"})
      <4> DEFINE Quiet == {m \in Fresh : m.kind # "tool_call"}
      <4>1. \A i \in Nat : Msg("tool_result", i) \in Quiet /\ FixNote(calls[i]) \in Quiet
        BY DEF Msg, FixNote, Fresh
      <4>2. \A i \in Nat : ResultOf(i) \in Seq(Quiet)
        <5> HIDE DEF Quiet
        <5> SUFFICES ASSUME NEW i \in Nat PROVE ResultOf(i) \in Seq(Quiet)
          OBVIOUS
        <5>1. <<Msg("tool_result", i)>> \in Seq(Quiet) /\ <<FixNote(calls[i])>> \in Seq(Quiet) /\ <<>> \in Seq(Quiet)
          BY <4>1
        <5> QED
          BY <5>1 DEF ResultOf
      <4> HIDE DEF Quiet
      <4>3. ResultsTo(n) \in [1..n -> Seq(Quiet)]
        BY <4>2 DEF ResultsTo
      <4>4. ResultsTo(n) \in Seq(Seq(Quiet))
        BY <4>3
      <4>5. r \in Seq(Quiet)
        BY <1>2, <4>4, FlattenType
      <4> QED
        BY <4>5 DEF Quiet
    <3> QED
      BY <3>1
  <2>4. ASSUME NEW i \in 2..Len(c \o r) PROVE (c \o r)[i].kind # "tool_call"
    <3>1. i - 1 \in 1..Len(r) /\ 1 + (i - 1) = i
      BY <2>1, <2>2
    <3> QED
      BY <2>1, <2>3, <3>1
  <2> QED
    BY <2>4
<1> QED
  BY <1>10, <1>12, <1>13
\* A turn that only talks leaves what prepare_turn may flush.
LEMMA NoCallPending ==
    ASSUME NEW s \in Seq(NoCall)
    PROVE  Closed(Bare(s)) /\ \A i \in 2..Len(s) : s[i].kind # "tool_call"
<1>1. Bare(s) \in Seq(NoCall)
  BY NoCallClosed
<1>2. Closed(Bare(s))
  BY <1>1, NoCallClosed
<1>3. \A i \in 2..Len(s) : s[i] \in NoCall
  OBVIOUS
<1> QED
  BY <1>2, <1>3 DEF NoCall

\* Rows that ask for nothing keep the log closed.
LEMMA QuietLog ==
    ASSUME NEW l, NEW m, Rows(l), Closed(Bare(Replay(l))), m \in Seq(NoCall)
    PROVE  Rows(l \o m) /\ Closed(Bare(Replay(l \o m)))
<1>1. Rows(m) /\ Replay(m) \in Seq(NoCall)
  BY NoCallClosed
<1>2. Closed(Bare(Replay(m)))
  BY <1>1, NoCallPending
<1>3. Rows(Replay(l)) /\ Rows(Replay(m)) /\ Rows(Bare(Replay(l))) /\ Rows(Bare(Replay(m)))
  BY <1>1, ReplayRows, BareRows
<1>4. Replay(l \o m) = Replay(l) \o Replay(m)
  BY ONLY Rows(l), <1>1, RowsReplay, Zenon
<1>5. Bare(Replay(l) \o Replay(m)) = Bare(Replay(l)) \o Bare(Replay(m))
  BY ONLY <1>3, RowsBare, Zenon
<1>6. Closed(Bare(Replay(l)) \o Bare(Replay(m)))
  BY ONLY <1>2, <1>3, Closed(Bare(Replay(l))), ClosedConcat
<1>7. Rows(l \o m)
  BY ONLY Rows(l), <1>1, RowsConcat, Zenon
<1> QED
  BY <1>4, <1>5, <1>6, <1>7

\* What prepare_turn finds past the watermark keeps the log closed.
LEMMA PendingLog ==
    ASSUME LoopTypes, Transcript, Batch, pc = "prepare"
    PROVE  Rows(log \o Pending) /\ Closed(Bare(Replay(log \o Pending)))
<1>0. Rows(log)
  BY DEF LoopTypes, TypeOK, Rows
<1>1. Pending \in Seq(Fresh)
  BY DEF Transcript, Alive
<1>2. Pending \in Seq(Spoken)
  BY <1>1, SpokenTypes, SeqMonotonic
<1>3. Rows(Pending) /\ Replay(Pending) = Pending
  BY <1>2, ReplaySpoken
<1>4. Closed(Bare(Replay(log))) /\ Closed(Bare(Pending))
  BY DEF Batch
<1>5. Rows(Replay(log)) /\ Rows(Bare(Replay(log))) /\ Rows(Bare(Pending))
  BY <1>0, <1>3, ReplayRows, BareRows
<1>6. Replay(log \o Pending) = Replay(log) \o Replay(Pending)
  BY ONLY <1>0, <1>3, RowsReplay, Zenon
<1>7. Bare(Replay(log) \o Pending) = Bare(Replay(log)) \o Bare(Pending)
  BY ONLY <1>3, <1>5, RowsBare, Zenon
<1>8. Closed(Bare(Replay(log)) \o Bare(Pending))
  BY ONLY <1>4, <1>5, ClosedConcat
<1>9. Rows(log \o Pending)
  BY ONLY <1>0, <1>3, RowsConcat, Zenon
<1> QED
  BY <1>3, <1>6, <1>7, <1>8, <1>9

\* Rows at the end of a run, about the run and from open_turn ask for nothing.
LEMMA RowsAskNothing ==
    /\ \A text \in BOOLEAN : EndRows(text) \in Seq(NoCall)
    /\ <<Msg("plan", 0)>> \in Seq(NoCall) /\ \A S : MadeRoom(S) \in Seq(NoCall)
    /\ \A new \in Seq(Asked) : new \in Seq(NoCall)
    /\ inbox \in Seq(Nat) => SteerRows \in Seq(NoCall)
    /\ \A text \in BOOLEAN : (IF text THEN <<Msg("assistant", 0)>> ELSE <<>>) \o <<Note>> \in Seq(NoCall)
<1>1. \A x \in Kinds \ {"tool_call"}, n \in Nat : Msg(x, n) \in NoCall
  BY DEF Msg, NoCall, Messages
<1>2. \A x \in {"assistant", "stop", "plan", "command", "system_note"} : <<Msg(x, 0)>> \in Seq(NoCall)
  BY <1>1 DEF Kinds
<1>3. \A text \in BOOLEAN : EndRows(text) \in Seq(NoCall)
  BY <1>2 DEF EndRows
<1>4. \A S : MadeRoom(S) \in Seq(NoCall)
  BY <1>2 DEF MadeRoom
<1>5. ASSUME NEW new \in Seq(Asked) PROVE new \in Seq(NoCall)
  <2>1. Asked \subseteq NoCall
    BY DEF Asked, NoCall, Messages, Kinds
  <2> QED
    BY <2>1, SeqMonotonic
<1>6. ASSUME inbox \in Seq(Nat) PROVE SteerRows \in Seq(NoCall)
  <2>1. \A i \in 1..Len(inbox) : inbox[i] \in Nat
    BY <1>6
  <2>2. SteerRows \in [1..Len(inbox) -> NoCall] /\ Len(inbox) \in Nat
    BY <1>1, <1>6, <2>1 DEF SteerRows, Kinds
  <2> QED
    BY <2>2
<1>7. ASSUME NEW text \in BOOLEAN PROVE (IF text THEN <<Msg("assistant", 0)>> ELSE <<>>) \o <<Note>> \in Seq(NoCall)
  <2>1. <<Msg("assistant", 0)>> \in Seq(NoCall) /\ <<Note>> \in Seq(NoCall)
    BY <1>2 DEF Note
  <2> QED
    BY <2>1
<1> QED
  BY <1>2, <1>3, <1>4, <1>5, <1>6, <1>7
\* As long as the app lives every step keeps the log closed.
LEMMA LogClosed ==
    ASSUME LoopTypes, Transcript, Batch, [Next]_vars, pc' # "dead"
    PROVE  Closed(Bare(Replay(log')))
<1>0. Rows(log) /\ said \in BOOLEAN
  BY DEF LoopTypes, TypeOK, Rows
<1>1. ASSUME Quietly \/ Steered \/ Speaks PROVE Closed(Bare(Replay(log')))
  <2>1. Closed(Bare(Replay(log)))
    BY <1>1 DEF Quietly, Steered, Speaks, Alive, Batch
  <2>2. Closed(Bare(Replay(log \o <<Msg("plan", 0)>>)))
    BY <1>0, <2>1, QuietLog, RowsAskNothing
  <2> QED
    BY <1>1, <2>1, <2>2 DEF Quietly, Steered, Speaks
<1>2. ASSUME Leaves \/ WrapUp PROVE Closed(Bare(Replay(log')))
  <2>1. Closed(Bare(Replay(log)))
    BY <1>2 DEF Leaves, WrapUp, Alive, Batch
  <2>2. PICK text \in BOOLEAN : log' = log \o EndRows(text)
    BY <1>0, <1>2 DEF Leaves, WrapUp, End, Streamed
  <2>3. EndRows(text) \in Seq(NoCall)
    BY RowsAskNothing
  <2> QED
    BY <1>0, <2>1, <2>2, <2>3, QuietLog
<1>3. ASSUME PrepareStopped PROVE Closed(Bare(Replay(log')))
  <2>1. pc = "prepare" /\ log' = (log \o Pending) \o EndRows(said)
    BY <1>3 DEF PrepareStopped
  <2>2. PICK l : l = log \o Pending /\ Rows(l) /\ Closed(Bare(Replay(l)))
    BY <2>1, PendingLog
  <2>3. EndRows(said) \in Seq(NoCall)
    BY <1>0, RowsAskNothing
  <2> QED
    BY <2>1, <2>2, <2>3, QuietLog
<1>4. ASSUME Prepare PROVE Closed(Bare(Replay(log')))
  <2>1. PICK new \in Seq(Asked), S \in SUBSET Old : Prepares(new, S)
    BY <1>4, PrepareMoves
  <2>2. pc = "prepare" /\ SteerRows \in Seq(NoCall) /\ new \in Seq(NoCall) /\ MadeRoom(S) \in Seq(NoCall)
    BY <1>4, PrepareMoves, RowsAskNothing
  <2>3. PICK l : l = log \o Pending /\ Rows(l) /\ Closed(Bare(Replay(l)))
    BY <2>2, PendingLog
  <2>4. Rows(l \o SteerRows) /\ Closed(Bare(Replay(l \o SteerRows)))
    BY <2>2, <2>3, QuietLog
  <2>5. Rows((l \o SteerRows) \o new) /\ Closed(Bare(Replay((l \o SteerRows) \o new)))
    BY <2>2, <2>4, QuietLog
  <2>6. Closed(Bare(Replay(((l \o SteerRows) \o new) \o MadeRoom(S))))
    BY <2>2, <2>5, QuietLog
  <2>7. log' = (log \o ((Pending \o SteerRows) \o new)) \o MadeRoom(S)
    BY <2>1 DEF Prepares
  <2>8. Rows(Pending)
    BY <2>2, PendingTypes DEF LoopTypes, TypeOK, Alive, Rows
  <2>9. Rows(SteerRows) /\ Rows(new) /\ Rows(Pending \o SteerRows)
    BY <2>2, <2>8, NoCallClosed, RowsConcat
  <2>10. log \o ((Pending \o SteerRows) \o new) = (log \o (Pending \o SteerRows)) \o new
    BY ONLY <1>0, <2>9, RowsJoin
  <2>11. log \o (Pending \o SteerRows) = (log \o Pending) \o SteerRows
    BY ONLY <1>0, <2>8, <2>9, RowsJoin
  <2> QED
    BY <2>3, <2>6, <2>7, <2>10, <2>11
<1>5. ~Crash
  BY DEF Crash
<1> QED
  BY <1>1, <1>2, <1>3, <1>4, <1>5, Effects

\* What is past the watermark while a batch is dispatched and before the next
\* turn.
BatchPending ==
    /\ pc = "dispatch" => Pending = <<Msg("tool_call", Len(outs))>>
    /\ pc = "prepare" => /\ Closed(Bare(Pending))
                         /\ \A i \in 2..Len(Pending) : Pending[i].kind # "tool_call"

\* Every step keeps that.
LEMMA PendingStep == ASSUME LoopTypes, Transcript, Batch, [Next]_vars PROVE BatchPending'
<1>0. /\ messages \in Seq(Messages) /\ logged \in Nat /\ (Alive => logged <= Len(messages))
      /\ outs \in Seq({"none", "going", "ok", "err"}) /\ Len(outs) \in Nat
  BY DEF LoopTypes, TypeOK
<1>1. BatchPending
  BY DEF Batch, BatchPending
<1>2. ASSUME NEW m \in Seq(Messages), messages' = messages \o m, logged' = logged, Alive
      PROVE  /\ Pending' = Pending \o m
             /\ pc \in {"start", "request"} => Pending' = m
  <2>1. Pending' = Pending \o m
    BY <1>0, <1>2, PendingGrows
  <2>2. pc \in {"start", "request"} => Pending = <<>>
    BY <1>2 DEF Transcript
  <2>3. <<>> \o m = m
    OBVIOUS
  <2> QED
    BY <2>1, <2>2, <2>3
<1>3. ASSUME pc' = pc, messages' = messages, logged' = logged, pc = "dispatch" => Len(outs') = Len(outs)
      PROVE  BatchPending'
  <2>1. Pending' = Pending
    BY <1>3 DEF Pending
  <2> QED
    BY <1>1, <1>3, <2>1 DEF BatchPending
<1>4. ASSUME Begin PROVE BatchPending'
  <2>1. Pending' = Pending /\ Pending = <<>> /\ pc' = "prepare"
    BY <1>4 DEF Begin, Pending, Transcript, Alive
  <2>2. Pending' \in Seq(NoCall)
    BY <2>1
  <2> QED
    BY <2>1, <2>2, NoCallPending DEF BatchPending
<1>5. ASSUME NEW b, StartBatch(b), b \in Seq(Tools), pc \in {"start", "request"}, logged' = logged
      PROVE  BatchPending'
  <2>1. PICK x \in Messages : x = Msg("tool_call", Len(b))
    BY <1>5, MessageTypes DEF Kinds
  <2>2. messages' = messages \o <<x>> /\ <<x>> \in Seq(Messages)
    BY <1>0, <1>5, <2>1, AppendIsConcat DEF StartBatch
  <2>3. Pending' = <<x>>
    BY <1>2, <1>5, <2>2 DEF Alive
  <2>4. Len(outs') = Len(b) /\ pc' = "dispatch"
    BY <1>5 DEF StartBatch
  <2> QED
    BY <2>1, <2>3, <2>4 DEF BatchPending
<1>6. ASSUME PreloadSkill \/ TurnCalls PROVE BatchPending'
  <2>1. <<"builtin">> \in Seq(Tools)
    BY DEF Tools
  <2>2. \A b \in Batches : b \in Seq(Tools)
    BY DEF Batches
  <2> QED
    BY <1>5, <1>6, <2>1, <2>2 DEF PreloadSkill, TurnCalls
<1>7. ASSUME TurnNarrates \/ TurnEmpty \/ TurnPlanOpen \/ TurnUnverified PROVE BatchPending'
  <2>1. PICK text \in BOOLEAN : messages' = Nudge(text)
    BY <1>7 DEF TurnNarrates, TurnEmpty, TurnPlanOpen, TurnUnverified
  <2>2. PICK m : m = (IF text THEN <<Msg("assistant", 0)>> ELSE <<>>) \o <<Note>>
    OBVIOUS
  <2>3. messages' = messages \o m /\ m \in Seq(NoCall)
    BY <1>0, <2>1, <2>2, NudgeTypes, RowsAskNothing
  <2>4. m \in Seq(Messages)
    BY <2>3, NoCallClosed DEF Rows
  <2>5. pc = "request" /\ logged' = logged /\ pc' = "prepare"
    BY <1>7 DEF TurnNarrates, TurnEmpty, TurnPlanOpen, TurnUnverified
  <2>6. Pending' = m
    BY <1>2, <2>3, <2>4, <2>5 DEF Alive
  <2> QED
    BY <2>3, <2>5, <2>6, NoCallPending DEF BatchPending
<1>8. ASSUME Record PROVE BatchPending'
  <2>1. PICK r : r = FlattenSeq([i \in DOMAIN outs |-> ResultOf(i)])
    OBVIOUS
  <2>2. r \in Seq(Messages)
    <3>1. r \in Seq(Fresh)
      BY <1>0, <2>1, ResultTypes
    <3> QED
      BY <3>1, SpokenTypes, SeqMonotonic
  <2>3. messages' = messages \o r /\ logged' = logged /\ pc = "dispatch"
    BY <1>8, <2>1 DEF Record
  <2>4. Pending' = <<Msg("tool_call", Len(outs))>> \o r
    BY <1>1, <1>2, <2>2, <2>3 DEF BatchPending, Alive
  <2>5. Closed(Bare(Pending')) /\ \A i \in 2..Len(Pending') : Pending'[i].kind # "tool_call"
    BY <1>0, <2>1, <2>4, BatchAnswered
  <2>6. pc' \in {"ended", "prepare"}
    BY <1>8 DEF Record, End
  <2> QED
    BY <2>5, <2>6 DEF BatchPending
<1>9. ASSUME Prepare \/ PrepareStopped \/ TurnFinal \/ TurnCut \/ WrapUp \/ Crash PROVE BatchPending'
  BY <1>9 DEF Prepare, PrepareStopped, TurnFinal, TurnCut, WrapUp, Crash, End, BatchPending
<1>10. ASSUME StartReads \/ (\E i \in 1..MaxCalls : StartNext(i) \/ FinishCall(i)) PROVE BatchPending'
  <2>1. Len(outs') = Len(outs)
    <3>1. Len(calls) = Len(outs) /\ Len(calls') = Len(outs') /\ calls' = calls
      BY <1>10, LoopTypesStep DEF StartReads, StartNext, FinishCall, LoopTypes
    <3> QED
      BY <3>1
  <2> QED
    BY <1>3, <1>10, <2>1 DEF StartReads, StartNext, FinishCall
<1>11. ASSUME Steer \/ Stop \/ UNCHANGED vars PROVE BatchPending'
  BY <1>3, <1>11 DEF Steer, Stop, vars, batchVars
<1> QED
  BY <1>4, <1>6, <1>7, <1>8, <1>9, <1>10, <1>11 DEF Next, LoopStep

\* Every step keeps the transcript answerable.
LEMMA BatchInvStep == ASSUME LoopTypes, Transcript, Batch, [Next]_vars PROVE Batch'
  BY LogClosed, PendingStep DEF Batch, BatchPending

\* The death of the app leaves at most the last batch open.
LEMMA CrashAnswered == ASSUME LoopTypes, Transcript, Batch, Crash PROVE CallsAnswered'
<1>0. Rows(log) /\ pc # "dead" /\ pc' = "dead"
  BY DEF LoopTypes, TypeOK, Rows, Crash
<1>1. Closed(Bare(Replay(log)))
  BY <1>0 DEF Batch
<1>2. CASE pc # "prepare"
  <2>1. log' = log
    BY <1>2 DEF Crash
  <2> QED
    BY <1>1, <2>1 DEF Closed, CallsAnswered
<1>3. CASE pc = "prepare"
  <2>1. PICK k \in 0..Len(Pending) : log' = log \o SubSeq(Pending, 1, k)
    BY <1>3 DEF Crash
  <2>2. Pending \in Seq(Fresh) /\ \A i \in 2..Len(Pending) : Pending[i].kind # "tool_call"
    BY <1>3 DEF Transcript, Alive, Batch
  <2>3. PICK p \in Seq(Fresh) : p = Pending
    BY <2>2
  <2>4. PICK u : u = SubSeq(p, 1, k)
    OBVIOUS
  <2>5. u \in Seq(Fresh) /\ Len(u) = k /\ \A i \in 1..k : u[i] = p[i]
    BY <2>3, <2>4
  <2>6. u \in Seq(Spoken)
    BY <2>5, SpokenTypes, SeqMonotonic
  <2>7. Rows(u) /\ Replay(u) = u
    BY <2>6, ReplaySpoken
  <2>8. \A i \in 2..Len(u) : u[i].kind # "tool_call"
    <3>1. \A i \in 2..k : i \in 1..k /\ i \in 2..Len(p)
      BY <2>3
    <3> QED
      BY <2>2, <2>3, <2>5, <3>1
  <2>9. CallsIn(Bare(u)) \subseteq {1}
    BY <2>7, <2>8, HeadCalls DEF Rows
  <2>10. Rows(Replay(log)) /\ Rows(Bare(Replay(log))) /\ Rows(Bare(u))
    BY <1>0, <2>7, ReplayRows, BareRows
  <2>11. Replay(log \o u) = Replay(log) \o u
    BY <1>0, <2>7, RowsReplay
  <2>12. Bare(Replay(log) \o u) = Bare(Replay(log)) \o Bare(u)
    BY <2>7, <2>10, RowsBare
  <2>13. PICK s, t : s = Bare(Replay(log)) /\ t = Bare(u)
    OBVIOUS
  <2>14. \A i \in CallsIn(s \o t) : AnsweredAt(s \o t, i) \/ \A j \in CallsIn(s \o t) : j <= i
    BY <1>1, <2>9, <2>10, <2>13, OpenConcat
  <2>15. Bare(Replay(log')) = s \o t
    BY <2>1, <2>3, <2>4, <2>11, <2>12, <2>13
  <2> QED
    BY <1>0, <2>14, <2>15 DEF CallsAnswered
<1> QED
  BY <1>2, <1>3

\* Every step keeps every call answered.
LEMMA AnsweredStep ==
    ASSUME LoopTypes, Transcript, Batch, CallsAnswered, [Next]_vars PROVE CallsAnswered'
<1>1. CASE pc' # "dead"
  <2>1. Closed(Bare(Replay(log')))
    BY <1>1, LogClosed
  <2> QED
    BY <2>1 DEF Closed, CallsAnswered
<1>2. CASE Crash
  BY <1>2, CrashAnswered
<1>3. CASE pc' = "dead" /\ ~Crash
  <2>1. log' = log /\ pc' = pc
    BY <1>3, Effects DEF Quietly, Steered, Speaks, Leaves, WrapUp, End, PrepareStopped, Prepare, Alive
  <2> QED
    BY <2>1 DEF CallsAnswered
<1> QED
  BY <1>1, <1>2, <1>3

\* The transcript a resume would send is valid: every call on record has its
\* results behind it, in call order, whatever Stop cut short; only the death of
\* the app in the middle of a flush leaves a batch open, and only the last one.
THEOREM CallsAreAnswered == Spec => []CallsAnswered
<1>1. Init => Batch /\ CallsAnswered
  <2> SUFFICES ASSUME Init PROVE Batch /\ CallsAnswered
    OBVIOUS
  <2>1. log = <<Msg("prompt", 0)>> /\ pc = "start"
    BY DEF Init
  <2>2. Msg("prompt", 0) \in NoCall
    BY DEF Msg, NoCall, Messages, Kinds
  <2>3. log \in Seq(NoCall)
    BY <2>1, <2>2
  <2>4. Replay(log) \in Seq(NoCall)
    BY <2>3, NoCallClosed
  <2>5. Closed(Bare(Replay(log)))
    BY <2>4, NoCallPending
  <2> QED
    BY <2>1, <2>5 DEF Batch, Closed, CallsAnswered
<1>2. LoopTypes /\ Transcript /\ Batch /\ CallsAnswered /\ [Next]_vars
      => (LoopTypes /\ Transcript /\ Batch /\ CallsAnswered)'
  BY LoopTypesStep, SpokenStep, BatchInvStep, AnsweredStep
<1> QED
  BY <1>1, <1>2, LoopTypesInit, SpokenInit, PTL DEF Spec
=============================================================================
