-------------------------- MODULE SchedulerProofs --------------------------
(***************************************************************************)
(* Type correctness of Scheduler, its four safety properties, for any      *)
(* number of tasks, Run now commands, edits and crashes.                   *)
(***************************************************************************)
EXTENDS Scheduler, TLAPS

Pcs == {"idle", "chosen", "running", "over", "finished", "saving", "done"}
ExecType == [pc : Pcs, job : Jobs, cut : BOOLEAN, unfinished : BOOLEAN, pressed : BOOLEAN,
             asof : Lists]
SlotType == [exec : 0..(MaxManual + 1), job : Jobs, manual : BOOLEAN,
             cancelled : SUBSET {"input", "stop", "fleet"}, stopped : BOOLEAN]
EditorType == [op : {"none", "create", "update", "delete"}, job : Jobs, enabled : BOOLEAN,
               asof : Lists]

\* A slot that is taken names an execution.
SlotNames == slot # NoSlot => slot.exec \in Execs

\* What is known of a press of Stop by how far the execution has come: nothing
\* before the run, the slot's mark during it, and what finish made of both after it.
StopIsMarked ==
    \A e \in Execs :
        /\ exec[e].pc \in {"idle", "chosen"} => ~exec[e].pressed
        /\ exec[e].pc \in {"running", "over"} => exec[e].pressed = slot.stopped
        /\ exec[e].pc \in {"finished", "saving"}
              => exec[e].unfinished = (exec[e].cut /\ ~exec[e].pressed)

\* A command under way is one of the three.
EditorIsBusy == editor = NoEditor \/ editor.op # "none"

\* A list that is about to be written back shows the user what they were told,
\* but for the tasks an edit of which fell in between.
AsTold(list) == \A j \in Jobs \ raced : View(list[j]) = told[j]
ReadAsTold ==
    /\ editor # NoEditor => AsTold(editor.asof)
    /\ \A e \in Execs : exec[e].pc = "saving" => AsTold(exec[e].asof)

\* The inductive invariant.
Inv ==
    /\ TypeOK /\ EditorIsBusy /\ SlotIsTheRun /\ SlotNames /\ StopIsMarked
    /\ EditsSurvive /\ ReadAsTold /\ InputSparesTheUsersRuns

\* The constants' records have their types, and the empty slot names nobody.
LEMMA Records ==
    /\ BuiltIn \in Jobs /\ Ticker \in Execs
    /\ Absent \in JobRecs /\ NoList \in Lists
    /\ NoSlot \in SlotType /\ NoSlot.exec \notin Execs /\ ~NoSlot.stopped /\ NoSlot.cancelled = {}
    /\ NoExec \in ExecType /\ NoExec.pc = "idle" /\ ~NoExec.pressed
    /\ NoEditor \in EditorType
    /\ \A e \in Execs : Over(e) \in ExecType /\ Over(e).pc \in {"idle", "done"} /\ ~Over(e).pressed
<1>1. BuiltIn \in Jobs /\ Ticker \in Execs
  BY SchedulerAssumption DEF BuiltIn, Jobs, Ticker, Execs
<1>2. Absent \in JobRecs
  BY SchedulerAssumption DEF Absent, Job, JobRecs
<1>3. NoList \in Lists
  BY <1>2 DEF NoList, Lists
<1>4. NoSlot \in SlotType /\ NoSlot.exec \notin Execs /\ ~NoSlot.stopped /\ NoSlot.cancelled = {}
  BY <1>1, SchedulerAssumption DEF NoSlot, SlotType, Execs
<1>5. NoExec \in ExecType /\ NoExec.pc = "idle" /\ ~NoExec.pressed
  BY <1>1, <1>3 DEF NoExec, ExecType, Pcs
<1>6. NoEditor \in EditorType
  BY <1>1, <1>3 DEF NoEditor, EditorType
<1>7. \A e \in Execs : Over(e) \in ExecType /\ Over(e).pc \in {"idle", "done"} /\ ~Over(e).pressed
  BY <1>5 DEF Over, ExecType, Pcs
<1> QED
  BY <1>1, <1>2, <1>3, <1>4, <1>5, <1>6, <1>7

\* TypeOK, with the record types by name.
LEMMA Types ==
    TypeOK <=> /\ jobs \in Lists /\ slot \in SlotType /\ (slot.stopped => "stop" \in slot.cancelled)
               /\ quiet \in BOOLEAN /\ raced \subseteq Jobs
               /\ exec \in [Execs -> ExecType] /\ editor \in EditorType
               /\ edits \in 0..MaxEdits /\ made \in 0..MaxJobs /\ crashes \in 0..MaxCrashes
               /\ told \in [Jobs -> [enabled : BOOLEAN, edit : 0..(MaxEdits + 1)]]
  BY DEF TypeOK, SlotType, ExecType, EditorType, Pcs

\* What an edit leaves of a task is a task, and the user is told so.
LEMMA EditedType ==
    ASSUME TypeOK, EditorIsBusy, editor # NoEditor
    PROVE  Edited \in JobRecs
<1>1. /\ editor.asof[editor.job] \in JobRecs /\ editor.enabled \in BOOLEAN
      /\ editor.op \in {"create", "update", "delete"}
  BY Types DEF EditorType, Lists, EditorIsBusy
<1>2. edits + 1 \in 0..(MaxEdits + 1)
  BY Types, SchedulerAssumption
<1>3. \A on, d \in BOOLEAN : Job(on, d, edits + 1) \in JobRecs
  BY <1>2 DEF Job, JobRecs
<1> QED
  BY <1>1, <1>3, Records DEF Edited, JobRecs

\* The initial state satisfies the invariant.
LEMMA InitInv == Init => Inv
<1> SUFFICES ASSUME Init PROVE Inv
  OBVIOUS
<1>1. jobs \in Lists
  <2>1. \A on \in BOOLEAN : Job(on, TRUE, 1) \in JobRecs
    BY SchedulerAssumption DEF Job, JobRecs
  <2> QED
    BY <2>1, Records DEF Init, Lists
<1>2. told \in [Jobs -> [enabled : BOOLEAN, edit : 0..(MaxEdits + 1)]]
  BY <1>1 DEF Init, View, Lists, JobRecs
<1>3. TypeOK
  <2>1. 0 \in 0..MaxEdits /\ 0 \in 0..MaxCrashes
    BY SchedulerAssumption
  <2> QED
    BY <1>1, <1>2, <2>1, Types, Records DEF Init
<1>4. SlotIsTheRun /\ SlotNames /\ StopIsMarked /\ EditorIsBusy
  BY Records DEF Init, SlotIsTheRun, SlotNames, StopIsMarked, EditorIsBusy
<1>5. EditsSurvive /\ ReadAsTold
  BY Records DEF Init, EditsSurvive, ReadAsTold
<1>6. InputSparesTheUsersRuns
  BY Records DEF Init, InputSparesTheUsersRuns
<1> QED
  BY <1>3, <1>4, <1>5, <1>6 DEF Inv

\* The list stays a list of tasks, and what the user was told stays a view of one.
LEMMA ListStep ==
    ASSUME TypeOK, EditorIsBusy, [Next]_vars
    PROVE  /\ jobs' \in Lists
           /\ told' \in [Jobs -> [enabled : BOOLEAN, edit : 0..(MaxEdits + 1)]]
           /\ edits' \in 0..MaxEdits /\ made' \in 0..MaxJobs /\ crashes' \in 0..MaxCrashes
           /\ editor' \in EditorType /\ EditorIsBusy'
           /\ quiet' \in BOOLEAN /\ raced' \subseteq Jobs
<1> DEFINE Goal ==
       /\ jobs' \in Lists
       /\ told' \in [Jobs -> [enabled : BOOLEAN, edit : 0..(MaxEdits + 1)]]
       /\ edits' \in 0..MaxEdits /\ made' \in 0..MaxJobs /\ crashes' \in 0..MaxCrashes
       /\ editor' \in EditorType /\ EditorIsBusy'
       /\ quiet' \in BOOLEAN /\ raced' \subseteq Jobs
<1> SUFFICES Goal
  OBVIOUS
<1>0. /\ jobs \in Lists /\ quiet \in BOOLEAN /\ raced \subseteq Jobs
      /\ exec \in [Execs -> ExecType] /\ editor \in EditorType
      /\ edits \in 0..MaxEdits /\ made \in 0..MaxJobs /\ crashes \in 0..MaxCrashes
      /\ told \in [Jobs -> [enabled : BOOLEAN, edit : 0..(MaxEdits + 1)]]
  BY Types
<1> HIDE DEF Goal
<1>1. CASE EditRead
  <2>1. edits' \in 0..MaxEdits
    BY <1>0, <1>1, SchedulerAssumption DEF EditRead
  <2>2. made' \in 0..MaxJobs
    BY <1>0, <1>1, SchedulerAssumption DEF EditRead, Jobs
  <2>3. editor' \in EditorType /\ EditorIsBusy'
    BY <1>0, <1>1 DEF EditRead, EditorType, EditorIsBusy
  <2> QED
    BY <1>0, <1>1, <2>1, <2>2, <2>3 DEF EditRead, Goal
<1>2. CASE EditSave
  <2>1. Edited \in JobRecs
    BY <1>2, EditedType DEF EditSave
  <2>2. editor.asof \in Lists
    BY <1>0 DEF EditorType
  <2>3. jobs' \in Lists
    BY <1>2, <2>1, <2>2 DEF EditSave, Save, Lists
  <2>4. View(Edited) \in [enabled : BOOLEAN, edit : 0..(MaxEdits + 1)]
    BY <2>1 DEF View, JobRecs
  <2>5. told' \in [Jobs -> [enabled : BOOLEAN, edit : 0..(MaxEdits + 1)]]
    BY <1>0, <1>2, <2>4 DEF EditSave
  <2>6. editor' \in EditorType /\ EditorIsBusy'
    BY <1>2, Records DEF EditSave, EditorIsBusy
  <2>7. raced' \subseteq Jobs
    BY <1>0, <1>2 DEF EditSave, EditorType
  <2> QED
    BY <1>0, <1>2, <2>3, <2>5, <2>6, <2>7 DEF EditSave, Goal
<1>3. ASSUME NEW e \in Execs, Record(e) PROVE Goal
  <2>1. exec[e].asof \in Lists
    BY <1>0 DEF ExecType
  <2>2. exec[e].job \in Jobs /\ exec[e].unfinished \in BOOLEAN
    BY <1>0 DEF ExecType
  <2>3. [exec[e].asof[exec[e].job] EXCEPT !.due = exec[e].unfinished] \in JobRecs
    BY <2>1, <2>2 DEF Lists, JobRecs
  <2>4. jobs' \in Lists
    BY <1>3, <2>1, <2>3 DEF Record, Save, Lists
  <2> QED
    BY <1>0, <1>3, <2>4 DEF Record, userVars, Goal, EditorIsBusy
<1>4. ASSUME NEW j \in Jobs, DueAgain(j) PROVE Goal
  <2>1. jobs' \in Lists
    BY <1>0, <1>4 DEF DueAgain, Lists, JobRecs
  <2> QED
    BY <1>0, <1>4, <2>1 DEF DueAgain, userVars, Goal, EditorIsBusy
<1>5. CASE Crash
  <2>1. crashes' \in 0..MaxCrashes
    BY <1>0, <1>5, SchedulerAssumption DEF Crash
  <2> QED
    BY <1>0, <1>5, <2>1, Records DEF Crash, userVars, Goal, EditorIsBusy
<1>6. ASSUME NEW e \in Execs, Claim(e) \/ RunEnds(e) \/ Finish(e) \/ Reread(e) PROVE Goal
  BY <1>0, <1>6 DEF Claim, RunEnds, Finish, Reread, userVars, Goal, EditorIsBusy
<1>7. ASSUME NEW e \in Execs, NEW j \in Jobs, RunNow(e, j) PROVE Goal
  BY <1>0, <1>7 DEF RunNow, userVars, Goal, EditorIsBusy
<1>8. CASE Tick \/ NoteInput \/ NoteTurn \/ Stop \/ FleetStop \/ QuietAgain \/ UNCHANGED vars
  BY <1>0, <1>8 DEF Tick, NoteInput, NoteTurn, Stop, FleetStop, QuietAgain, vars, userVars, Goal, EditorIsBusy
<1> QED
  BY <1>1, <1>2, <1>3, <1>4, <1>5, <1>6, <1>7, <1>8 DEF Next, ExecStep

\* The slot and the executions, as one formula for the step below.
RunsInv ==
    /\ slot \in SlotType /\ exec \in [Execs -> ExecType] /\ (slot.stopped => "stop" \in slot.cancelled)
    /\ SlotIsTheRun /\ SlotNames /\ StopIsMarked /\ InputSparesTheUsersRuns

\* An execution that is not in the slot may take any step outside it.
LEMMA Outside ==
    ASSUME RunsInv, NEW e \in Execs, exec[e].pc \notin {"running", "over"},
           NEW r \in ExecType, r.pc \notin {"running", "over"},
           r.pc \in {"idle", "chosen"} => ~r.pressed,
           r.pc \in {"finished", "saving"} => r.unfinished = (r.cut /\ ~r.pressed),
           exec' = [exec EXCEPT ![e] = r], slot' = slot
    PROVE  RunsInv'
<1>1. \A d \in Execs : exec'[d] = IF d = e THEN r ELSE exec[d]
  BY DEF RunsInv
<1>2. exec' \in [Execs -> ExecType]
  BY DEF RunsInv
<1>3. SlotIsTheRun'
  BY <1>1 DEF RunsInv, SlotIsTheRun
<1>4. StopIsMarked'
  BY <1>1 DEF RunsInv, StopIsMarked
<1> QED
  BY <1>2, <1>3, <1>4 DEF RunsInv, SlotNames, InputSparesTheUsersRuns

\* Every step keeps the slot, the executions and what is known of Stop.
LEMMA RunsStep == TypeOK /\ RunsInv /\ [Next]_vars => RunsInv'
<1> SUFFICES ASSUME TypeOK, RunsInv, [Next]_vars PROVE RunsInv'
  OBVIOUS
<1>0. /\ slot \in SlotType /\ exec \in [Execs -> ExecType] /\ jobs \in Lists
      /\ \A e \in Execs : exec[e] \in ExecType
  BY Types
<1>1. ASSUME UNCHANGED <<slot, exec>> PROVE RunsInv'
  BY <1>1 DEF RunsInv, SlotIsTheRun, SlotNames, StopIsMarked, InputSparesTheUsersRuns
<1>2. ASSUME NEW e \in Execs, Ends(e), exec[e].pc \notin {"running", "over"}, UNCHANGED slot
      PROVE  RunsInv'
  <2>1. Over(e) \in ExecType /\ Over(e).pc \in {"idle", "done"} /\ ~Over(e).pressed
    BY Records
  <2> QED
    BY <1>2, <2>1, Outside DEF Ends
<1>3. CASE Tick
  <2>1. PICK j \in Jobs : exec' = [exec EXCEPT ![Ticker].pc = "chosen", ![Ticker].job = j]
    BY <1>3 DEF Tick
  <2> DEFINE r == [exec[Ticker] EXCEPT !.pc = "chosen", !.job = j]
  <2>2. Ticker \in Execs /\ exec[Ticker].pc = "idle" /\ slot' = slot
    BY <1>3, Records DEF Tick
  <2>3. exec' = [exec EXCEPT ![Ticker] = r]
    BY <2>1, <2>2, <1>0
  <2>4. r \in ExecType /\ r.pc = "chosen" /\ r.pressed = exec[Ticker].pressed
    BY <2>2, <1>0 DEF ExecType, Pcs
  <2>5. ~exec[Ticker].pressed
    BY <2>2 DEF RunsInv, StopIsMarked
  <2> HIDE DEF r
  <2> QED
    BY <2>2, <2>3, <2>4, <2>5, Outside
<1>4. ASSUME NEW e \in Execs, NEW j \in Jobs, RunNow(e, j) PROVE RunsInv'
  <2> DEFINE r == [exec[e] EXCEPT !.pc = "chosen", !.job = j]
  <2>1. exec' = [exec EXCEPT ![e] = r] /\ slot' = slot /\ exec[e].pc = "idle"
    BY <1>0, <1>4, Records DEF RunNow
  <2>2. r \in ExecType /\ r.pc = "chosen" /\ r.pressed = exec[e].pressed
    BY <1>0 DEF ExecType, Pcs
  <2>3. ~exec[e].pressed
    BY <2>1 DEF RunsInv, StopIsMarked
  <2> HIDE DEF r
  <2> QED
    BY <2>1, <2>2, <2>3, Outside
<1>5. ASSUME NEW e \in Execs, Claim(e) PROVE RunsInv'
  <2>1. CASE Ends(e) /\ UNCHANGED slot
    BY <1>2, <1>5, <2>1 DEF Claim
  <2>2. CASE slot = NoSlot /\ Claimed(e)
    <3>1. exec' \in [Execs -> ExecType]
      BY <1>0, <2>2 DEF Claimed, ExecType, Pcs
    <3>2. \A d \in Execs : exec'[d] = IF d = e THEN [exec[e] EXCEPT !.pc = "running", !.asof = jobs]
                                              ELSE exec[d]
      BY <1>0, <2>2 DEF Claimed
    <3>3. /\ slot' \in SlotType /\ slot'.exec = e
          /\ slot'.cancelled = {} /\ ~slot'.stopped
      <4>1. e \in 0..(MaxManual + 1) /\ exec[e].job \in Jobs
        BY <1>0, SchedulerAssumption DEF Execs, ExecType
      <4>2. /\ slot'.exec = e /\ slot'.job = exec[e].job /\ slot'.manual = (e # Ticker)
            /\ slot'.cancelled = {} /\ slot'.stopped = FALSE
            /\ slot' = [NoSlot EXCEPT !.exec = e, !.job = exec[e].job, !.manual = (e # Ticker)]
        BY <2>2 DEF Claimed, NoSlot
      <4>3. NoSlot \in SlotType
        BY Records
      <4> QED
        BY <4>1, <4>2, <4>3 DEF SlotType
    <3>4. slot' # NoSlot
      BY <3>3, Records
    <3>5. \A d \in Execs : exec[d].pc \notin {"running", "over"}
      BY <2>2 DEF RunsInv, SlotIsTheRun
    <3>6. exec'[e].pc = "running" /\ exec'[e].pressed = exec[e].pressed
      BY <1>0, <3>2 DEF ExecType
    <3>7. SlotIsTheRun'
      BY <3>2, <3>3, <3>4, <3>5, <3>6 DEF SlotIsTheRun
    <3>8. ~exec[e].pressed
      BY <1>5 DEF Claim, RunsInv, StopIsMarked
    <3>9. StopIsMarked'
      <4> SUFFICES ASSUME NEW d \in Execs
                   PROVE  /\ exec'[d].pc \in {"idle", "chosen"} => ~exec'[d].pressed
                          /\ exec'[d].pc \in {"running", "over"} => exec'[d].pressed = slot'.stopped
                          /\ exec'[d].pc \in {"finished", "saving"}
                                => exec'[d].unfinished = (exec'[d].cut /\ ~exec'[d].pressed)
        BY DEF StopIsMarked
      <4>1. CASE d = e
        <5>1. exec'[e].pressed \in BOOLEAN /\ slot'.stopped \in BOOLEAN
          BY <3>1, <3>3 DEF ExecType, SlotType
        <5> QED
          BY <4>1, <5>1, <3>3, <3>6, <3>8
      <4>2. CASE d # e
        BY <4>2, <3>2, <3>5 DEF RunsInv, StopIsMarked
      <4> QED
        BY <4>1, <4>2
    <3> QED
      BY <3>1, <3>3, <3>7, <3>9 DEF RunsInv, SlotNames, InputSparesTheUsersRuns
  <2> QED
    BY <1>5, <2>1, <2>2 DEF Claim
<1>6. ASSUME NEW e \in Execs, RunEnds(e) PROVE RunsInv'
  <2> DEFINE cut == exec[e].job = BuiltIn /\ slot.cancelled # {}
  <2>1. exec' = [exec EXCEPT ![e].pc = "over", ![e].cut = cut] /\ slot' = slot
    BY <1>6 DEF RunEnds
  <2>2. cut \in BOOLEAN
    BY <1>0 DEF SlotType
  <2> HIDE DEF cut
  <2>3. \A d \in Execs : exec'[d] = IF d = e THEN [exec[e] EXCEPT !.pc = "over", !.cut = cut] ELSE exec[d]
    BY <1>0, <2>1
  <2>4. exec' \in [Execs -> ExecType]
    BY <1>0, <2>1, <2>2 DEF ExecType, Pcs
  <2>5. exec[e].pc = "running" /\ exec'[e].pc = "over" /\ exec'[e].pressed = exec[e].pressed
    BY <1>0, <1>6, <2>3 DEF RunEnds, ExecType
  <2>6. SlotIsTheRun'
    BY <2>1, <2>3, <2>5 DEF RunsInv, SlotIsTheRun
  <2>7. StopIsMarked'
    BY <2>1, <2>3, <2>5 DEF RunsInv, StopIsMarked
  <2> QED
    BY <2>1, <2>4, <2>6, <2>7 DEF RunsInv, SlotNames, InputSparesTheUsersRuns
<1>7. ASSUME NEW e \in Execs, Finish(e) PROVE RunsInv'
  <2> DEFINE left == exec[e].cut /\ ~slot.stopped
  <2>1. exec' = [exec EXCEPT ![e].pc = "finished", ![e].unfinished = left] /\ slot' = NoSlot
    BY <1>7 DEF Finish
  <2>2. left \in BOOLEAN
    BY <1>0 DEF SlotType, ExecType
  <2>3. exec[e].pc = "over" /\ exec[e].pressed = slot.stopped
    BY <1>7 DEF Finish, RunsInv, StopIsMarked
  <2>4. left = (exec[e].cut /\ ~exec[e].pressed)
    BY <2>3
  <2> HIDE DEF left
  <2>5. \A d \in Execs : exec'[d] = IF d = e THEN [exec[e] EXCEPT !.pc = "finished", !.unfinished = left]
                                             ELSE exec[d]
    BY <1>0, <2>1
  <2>6. exec' \in [Execs -> ExecType]
    BY <1>0, <2>1, <2>2 DEF ExecType, Pcs
  <2>7. /\ exec'[e].pc = "finished" /\ exec'[e].unfinished = left
        /\ exec'[e].pressed = exec[e].pressed /\ exec'[e].cut = exec[e].cut
    BY <1>0, <2>5 DEF ExecType
  <2>8. \A d \in Execs : d # e => exec[d].pc \notin {"running", "over"}
    BY <2>3 DEF RunsInv, SlotIsTheRun
  <2>9. SlotIsTheRun'
    BY <2>1, <2>5, <2>7, <2>8 DEF SlotIsTheRun
  <2>10. StopIsMarked'
    BY <2>4, <2>5, <2>7, <2>8 DEF RunsInv, StopIsMarked
  <2> QED
    BY <2>1, <2>6, <2>9, <2>10, Records DEF RunsInv, SlotNames, InputSparesTheUsersRuns
<1>8. ASSUME NEW e \in Execs, Reread(e) PROVE RunsInv'
  <2>1. CASE Ends(e)
    BY <1>2, <1>8, <2>1 DEF Reread
  <2>2. CASE exec' = [exec EXCEPT ![e].pc = "saving", ![e].asof = jobs]
    <3> DEFINE r == [exec[e] EXCEPT !.pc = "saving", !.asof = jobs]
    <3>1. exec' = [exec EXCEPT ![e] = r] /\ slot' = slot /\ exec[e].pc = "finished"
      BY <1>0, <1>8, <2>2 DEF Reread
    <3>2. /\ r \in ExecType /\ r.pc = "saving" /\ r.pressed = exec[e].pressed
          /\ r.cut = exec[e].cut /\ r.unfinished = exec[e].unfinished
      BY <1>0 DEF ExecType, Pcs
    <3>3. exec[e].unfinished = (exec[e].cut /\ ~exec[e].pressed)
      BY <3>1 DEF RunsInv, StopIsMarked
    <3> HIDE DEF r
    <3> QED
      BY <3>1, <3>2, <3>3, Outside
  <2> QED
    BY <1>8, <2>1, <2>2 DEF Reread
<1>9. ASSUME NEW e \in Execs, Record(e) PROVE RunsInv'
  BY <1>2, <1>9 DEF Record
<1>10. CASE NoteInput
  <2>1. exec' = exec /\ slot' \in SlotType /\ slot'.exec = slot.exec /\ slot'.stopped = slot.stopped
    BY <1>0, <1>10 DEF NoteInput, SlotType
  <2>2. slot' = NoSlot <=> slot = NoSlot
    BY <1>10, <2>1, Records DEF NoteInput, RunsInv, SlotNames
  <2>3. (slot'.stopped => "stop" \in slot'.cancelled) /\ InputSparesTheUsersRuns'
    BY <1>0, <1>10 DEF NoteInput, RunsInv, InputSparesTheUsersRuns, SlotType
  <2> QED
    BY <2>1, <2>2, <2>3 DEF RunsInv, SlotIsTheRun, SlotNames, StopIsMarked
<1>11. CASE Stop
  <2>1. slot' \in SlotType /\ slot'.exec = slot.exec /\ slot'.stopped /\ "stop" \in slot'.cancelled
    BY <1>0, <1>11 DEF Stop, SlotType
  <2>2. slot # NoSlot /\ slot' # NoSlot /\ slot.exec \in Execs
    BY <1>11, <2>1, Records DEF Stop, RunsInv, SlotNames
  <2>3. \A d \in Execs : exec'[d] = IF d = slot.exec THEN [exec[d] EXCEPT !.pressed = TRUE] ELSE exec[d]
    BY <1>0, <1>11 DEF Stop
  <2>4. exec' \in [Execs -> ExecType]
    BY <1>0, <1>11 DEF Stop, ExecType
  <2>5. \A d \in Execs : exec'[d].pc = exec[d].pc
    BY <1>0, <2>3 DEF ExecType
  <2>6. \A d \in Execs : d # slot.exec => exec[d].pc \notin {"running", "over"}
    BY DEF RunsInv, SlotIsTheRun
  <2>7. exec[slot.exec].pc \in {"running", "over"} /\ exec'[slot.exec].pressed = TRUE
    BY <1>0, <2>2, <2>3 DEF RunsInv, SlotIsTheRun, ExecType
  <2>8. SlotIsTheRun'
    BY <2>1, <2>2, <2>5 DEF RunsInv, SlotIsTheRun
  <2>9. slot'.stopped = TRUE
    BY <2>1 DEF SlotType
  <2>10. StopIsMarked'
    <3> SUFFICES ASSUME NEW d \in Execs
                 PROVE  /\ exec'[d].pc \in {"idle", "chosen"} => ~exec'[d].pressed
                        /\ exec'[d].pc \in {"running", "over"} => exec'[d].pressed = slot'.stopped
                        /\ exec'[d].pc \in {"finished", "saving"}
                              => exec'[d].unfinished = (exec'[d].cut /\ ~exec'[d].pressed)
      BY DEF StopIsMarked
    <3>1. exec'[d].pc = exec[d].pc
      BY <2>5
    <3>2. CASE d = slot.exec
      BY <2>7, <2>9, <3>1, <3>2
    <3>3. CASE d # slot.exec
      <4>1. exec'[d] = exec[d] /\ exec[d].pc \notin {"running", "over"}
        BY <1>0, <2>3, <2>6, <3>3
      <4> QED
        BY <4>1 DEF RunsInv, StopIsMarked
    <3> QED
      BY <3>2, <3>3
  <2>11. InputSparesTheUsersRuns'
    BY <1>0, <1>11 DEF Stop, SlotType, RunsInv, InputSparesTheUsersRuns
  <2> QED
    BY <2>1, <2>2, <2>4, <2>8, <2>10, <2>11 DEF RunsInv, SlotNames
<1>12. CASE Crash
  <2>1. \A d \in Execs : exec'[d] \in ExecType /\ exec'[d].pc \in {"idle", "done"} /\ ~exec'[d].pressed
    BY <1>12, Records DEF Crash
  <2>2. exec' \in [Execs -> ExecType]
    BY <1>12, Records DEF Crash
  <2>3. slot' = NoSlot
    BY <1>12 DEF Crash
  <2> QED
    BY <2>1, <2>2, <2>3, Records DEF RunsInv, SlotIsTheRun, SlotNames, StopIsMarked,
       InputSparesTheUsersRuns
<1>13. CASE EditRead \/ EditSave \/ NoteTurn \/ QuietAgain \/ (\E j \in Jobs : DueAgain(j)) \/ UNCHANGED vars
  BY <1>1, <1>13 DEF EditRead, EditSave, NoteTurn, QuietAgain, DueAgain, vars
<1>14. CASE FleetStop
  <2>1. /\ exec' = exec /\ slot' \in SlotType /\ slot'.exec = slot.exec
        /\ slot'.stopped = slot.stopped /\ (slot'.stopped => "stop" \in slot'.cancelled)
    BY <1>0, <1>14 DEF FleetStop, SlotType, RunsInv
  <2>2. slot # NoSlot /\ slot' # NoSlot
    BY <1>14, <2>1, Records DEF FleetStop, RunsInv, SlotNames
  <2>3. InputSparesTheUsersRuns'
    BY <1>0, <1>14 DEF FleetStop, SlotType, RunsInv, InputSparesTheUsersRuns
  <2> QED
    BY <2>1, <2>2, <2>3 DEF RunsInv, SlotIsTheRun, SlotNames, StopIsMarked
<1> QED
  BY <1>3, <1>4, <1>5, <1>6, <1>7, <1>8, <1>9, <1>10, <1>11, <1>12, <1>13, <1>14 DEF Next, ExecStep

\* A list with one task replaced by one that looks the same shows the same.
LEMMA SameView ==
    ASSUME NEW list \in Lists, NEW k \in Jobs, NEW d \in BOOLEAN, NEW j \in Jobs
    PROVE  View([list EXCEPT ![k] = [list[k] EXCEPT !.due = d]][j]) = View(list[j])
  BY DEF View, Lists, JobRecs

\* A list read now, or one read earlier and not yet written back, shows what the
\* user was told; so does what is written back.
LEMMA EditsStep ==
    TypeOK /\ EditorIsBusy /\ EditsSurvive /\ ReadAsTold /\ [Next]_vars
        => EditsSurvive' /\ ReadAsTold'
<1> DEFINE Goal == EditsSurvive' /\ ReadAsTold'
<1> SUFFICES ASSUME TypeOK, EditorIsBusy, EditsSurvive, ReadAsTold, [Next]_vars PROVE Goal
  OBVIOUS
<1> HIDE DEF Goal
<1>0. /\ jobs \in Lists /\ exec \in [Execs -> ExecType] /\ editor \in EditorType
      /\ told \in [Jobs -> [enabled : BOOLEAN, edit : 0..(MaxEdits + 1)]]
  BY Types
<1>1. ASSUME UNCHANGED <<told, raced>>, \A j \in Jobs : View(jobs'[j]) = View(jobs[j]),
             editor' \in {editor, NoEditor},
             \A e \in Execs : exec'[e].pc = "saving" => exec[e].pc = "saving" /\ exec'[e].asof = exec[e].asof
      PROVE  Goal
  BY <1>1 DEF EditsSurvive, ReadAsTold, AsTold, Goal
<1>2. CASE EditRead
  <2>1. UNCHANGED <<jobs, exec, told, raced>> /\ editor'.asof = jobs
    BY <1>2 DEF EditRead
  <2> QED
    BY <2>1 DEF EditsSurvive, ReadAsTold, AsTold, Goal
<1>3. CASE EditSave
  <2>1. /\ jobs' = [editor.asof EXCEPT ![editor.job] = Edited] /\ editor # NoEditor
        /\ told' = [told EXCEPT ![editor.job] = View(Edited)]
        /\ editor' = NoEditor /\ exec' = exec
    BY <1>3 DEF EditSave, Save
  <2>2. editor.asof \in Lists /\ editor.job \in Jobs
    BY <1>0 DEF EditorType
  <2>3. \A j \in Jobs \ raced' : j = editor.job \/ j \notin raced
    BY <1>3 DEF EditSave
  <2>4. EditsSurvive'
    <3> SUFFICES ASSUME NEW j \in Jobs, j \notin raced' PROVE told'[j] = View(jobs'[j])
      BY DEF EditsSurvive
    <3>1. CASE j = editor.job
      BY <1>0, <2>1, <2>2, <3>1 DEF Lists
    <3>2. CASE j # editor.job
      <4>1. told'[j] = told[j] /\ jobs'[j] = editor.asof[j] /\ j \notin raced
        BY <1>0, <2>1, <2>2, <2>3, <3>2 DEF Lists
      <4> QED
        BY <2>1, <4>1 DEF ReadAsTold, AsTold
    <3> QED
      BY <3>1, <3>2
  <2>5. ReadAsTold'
    <3> SUFFICES ASSUME NEW e \in Execs, exec[e].pc = "saving", NEW j \in Jobs, j \notin raced'
                 PROVE  View(exec[e].asof[j]) = told'[j]
      BY <2>1 DEF ReadAsTold, AsTold
    <3>1. j \notin raced /\ j # editor.job
      BY <1>3 DEF EditSave
    <3>2. told'[j] = told[j]
      BY <1>0, <2>1, <3>1
    <3> QED
      BY <3>1, <3>2 DEF ReadAsTold, AsTold
  <2> QED
    BY <2>4, <2>5 DEF Goal
<1>4. ASSUME NEW e \in Execs, Reread(e) PROVE Goal
  <2>1. UNCHANGED <<jobs, editor, told, raced>>
    BY <1>4 DEF Reread, userVars
  <2>2. CASE Ends(e)
    BY <1>0, <1>1, <2>1, <2>2, Records DEF Ends
  <2>3. CASE exec' = [exec EXCEPT ![e].pc = "saving", ![e].asof = jobs]
    <3>1. /\ exec'[e].asof = jobs
          /\ \A d \in Execs : d # e => exec'[d] = exec[d]
      BY <1>0, <2>3 DEF ExecType
    <3>2. EditsSurvive'
      BY <2>1 DEF EditsSurvive
    <3>3. ReadAsTold'
      BY <2>1, <3>1 DEF EditsSurvive, ReadAsTold, AsTold
    <3> QED
      BY <3>2, <3>3 DEF Goal
  <2> QED
    BY <1>4, <2>2, <2>3 DEF Reread
<1>5. ASSUME NEW e \in Execs, Record(e) PROVE Goal
  <2> DEFINE list == exec[e].asof
             k == exec[e].job
  <2>1. /\ jobs' = [list EXCEPT ![k] = [list[k] EXCEPT !.due = exec[e].unfinished]]
        /\ Ends(e) /\ UNCHANGED <<editor, told, raced>> /\ exec[e].pc = "saving"
    BY <1>5 DEF Record, Save, userVars
  <2>2. list \in Lists /\ k \in Jobs /\ exec[e].unfinished \in BOOLEAN
    BY <1>0 DEF ExecType
  <2>3. AsTold(list)
    BY <2>1 DEF ReadAsTold
  <2> HIDE DEF list, k
  <2>4. \A j \in Jobs : View(jobs'[j]) = View(list[j])
    BY <2>1, <2>2, SameView
  <2>5. EditsSurvive'
    BY <2>1, <2>3, <2>4 DEF EditsSurvive, AsTold
  <2>6. \A d \in Execs : exec'[d].pc = "saving" => exec'[d] = exec[d]
    BY <1>0, <2>1, Records DEF Ends
  <2>7. ReadAsTold'
    BY <2>1, <2>6 DEF ReadAsTold, AsTold
  <2> QED
    BY <2>5, <2>7 DEF Goal
<1>6. ASSUME NEW k \in Jobs, DueAgain(k) PROVE Goal
  <2>1. /\ jobs' = [jobs EXCEPT ![k] = [jobs[k] EXCEPT !.due = TRUE]]
        /\ UNCHANGED <<exec, editor, told, raced>>
    BY <1>0, <1>6 DEF DueAgain, userVars, Lists
  <2>2. \A j \in Jobs : View(jobs'[j]) = View(jobs[j])
    BY <1>0, <2>1 DEF View, Lists, JobRecs
  <2> QED
    BY <1>1, <2>1, <2>2
<1>7. ASSUME NEW e \in Execs, Claim(e) PROVE Goal
  <2>1. UNCHANGED <<jobs, editor, told, raced>>
    BY <1>7 DEF Claim, userVars
  <2>2. \A d \in Execs : d # e => exec'[d] = exec[d]
    BY <1>0, <1>7 DEF Claim, Claimed, Ends
  <2>3. exec'[e].pc # "saving"
    <3>1. CASE Ends(e)
      BY <1>0, <3>1, Records DEF Ends
    <3>2. CASE Claimed(e)
      BY <1>0, <3>2 DEF Claimed, ExecType
    <3> QED
      BY <1>7, <3>1, <3>2 DEF Claim
  <2> QED
    BY <1>1, <2>1, <2>2, <2>3
<1>8. ASSUME NEW e \in Execs, RunEnds(e) \/ Finish(e) PROVE Goal
  <2>1. UNCHANGED <<jobs, editor, told, raced>>
    BY <1>8 DEF RunEnds, Finish, userVars
  <2>2. \A d \in Execs : exec'[d].pc = "saving" => exec'[d] = exec[d]
    BY <1>0, <1>8 DEF RunEnds, Finish, ExecType
  <2> QED
    BY <1>1, <2>1, <2>2
<1>9. ASSUME NEW e \in Execs, NEW k \in Jobs, UNCHANGED <<jobs, editor, userVars>>,
             exec' = [exec EXCEPT ![e].pc = "chosen", ![e].job = k]
      PROVE  Goal
  <2>1. UNCHANGED <<jobs, editor, told, raced>>
    BY <1>9 DEF userVars
  <2>2. \A d \in Execs : exec'[d].pc = "saving" => exec'[d] = exec[d]
    BY <1>0, <1>9 DEF ExecType
  <2> QED
    BY <1>1, <2>1, <2>2
<1>10. CASE Stop
  <2>1. UNCHANGED <<jobs, editor, told, raced>>
    BY <1>10 DEF Stop, userVars
  <2>2. \A d \in Execs : exec'[d].pc = exec[d].pc /\ exec'[d].asof = exec[d].asof
    BY <1>0, <1>10 DEF Stop, ExecType
  <2> QED
    BY <1>1, <2>1, <2>2
<1>11. CASE Crash
  <2>1. UNCHANGED <<jobs, told, raced>> /\ editor' = NoEditor
    BY <1>11 DEF Crash, userVars
  <2>2. \A d \in Execs : exec'[d].pc # "saving"
    BY <1>11, Records DEF Crash
  <2> QED
    BY <1>1, <2>1, <2>2
<1>12. CASE NoteInput \/ NoteTurn \/ FleetStop \/ QuietAgain \/ UNCHANGED vars
  BY <1>1, <1>12 DEF NoteInput, NoteTurn, FleetStop, QuietAgain, vars, userVars
<1>13. CASE Tick
  BY <1>9, <1>13, Records DEF Tick
<1>14. ASSUME NEW e \in Execs, NEW k \in Jobs, RunNow(e, k) PROVE Goal
  BY <1>9, <1>14 DEF RunNow
<1> QED
  BY <1>2, <1>3, <1>4, <1>5, <1>6, <1>7, <1>8, <1>10, <1>11, <1>12, <1>13, <1>14 DEF Next, ExecStep

\* Every step keeps the invariant.
LEMMA NextInv == Inv /\ [Next]_vars => Inv'
<1> SUFFICES ASSUME Inv, [Next]_vars PROVE Inv'
  OBVIOUS
<1>1. TypeOK /\ EditorIsBusy /\ EditsSurvive /\ ReadAsTold /\ RunsInv
  BY Types DEF Inv, RunsInv
<1>2. RunsInv' /\ EditsSurvive' /\ ReadAsTold'
  BY <1>1, RunsStep, EditsStep
<1>3. TypeOK' /\ EditorIsBusy'
  <2>1. /\ jobs' \in Lists
        /\ told' \in [Jobs -> [enabled : BOOLEAN, edit : 0..(MaxEdits + 1)]]
        /\ edits' \in 0..MaxEdits /\ made' \in 0..MaxJobs /\ crashes' \in 0..MaxCrashes
        /\ editor' \in EditorType /\ EditorIsBusy'
        /\ quiet' \in BOOLEAN /\ raced' \subseteq Jobs
    BY <1>1, ListStep
  <2>2. slot' \in SlotType /\ exec' \in [Execs -> ExecType] /\ (slot'.stopped => "stop" \in slot'.cancelled)
    BY <1>2 DEF RunsInv
  <2> QED
    BY <2>1, <2>2 DEF TypeOK, SlotType, ExecType, EditorType, Pcs
<1> QED
  BY <1>2, <1>3 DEF Inv, RunsInv

\* The invariant holds in every reachable state.
THEOREM SchedulerInvariant == Spec => []Inv
<1> QED
  BY InitInv, NextInv, PTL DEF Spec

(* The list, the slot, the executions and the editing command keep their types *)
(* whatever the ticker, Run now, the editor and the person interleave.         *)
THEOREM SchedulerTypes == Spec => []TypeOK
<1>1. Inv => TypeOK
  BY DEF Inv
<1> QED
  BY <1>1, SchedulerInvariant, PTL

(* Concurrency 1: at any time at most one execution runs a task, it is the one *)
(* the slot names, and the slot is free exactly when none does (try_start,     *)
(* finish).                                                                    *)
THEOREM OneRunAtATime == Spec => []SlotIsTheRun
<1>1. Inv => SlotIsTheRun
  BY DEF Inv
<1> QED
  BY <1>1, SchedulerInvariant, PTL

(* What the user was told is in the list is what the list holds, however many  *)
(* runs of tasks began, ran and ended around the edits: the end of a run       *)
(* (execute_job) writes onto the list it has read again.  Excepted is a task   *)
(* whose edit was saved between that reading and the writing.                  *)
THEOREM EditsAreKept == Spec => []EditsSurvive
<1>1. Inv => EditsSurvive
  BY DEF Inv
<1> QED
  BY <1>1, SchedulerInvariant, PTL

(* A key press or a click cancels nothing but a tidy-up that started by itself *)
(* (note_input): the flag of any other run is raised by a Stop alone.           *)
THEOREM InputSparesHolds == Spec => []InputSparesTheUsersRuns
<1>1. Inv => InputSparesTheUsersRuns
  BY DEF Inv
<1> QED
  BY <1>1, SchedulerInvariant, PTL

(* A run's bookkeeping leaves its task due at once exactly when input cut it   *)
(* short and Stop was not pressed before it ended (finish, record_run).        *)
THEOREM StopIsFinal == Spec => StopMeansStop
<1>1. Inv /\ [Next]_vars =>
        [\A e \in Execs : (exec[e].pc = "saving" /\ exec'[e].pc \in {"idle", "done"} /\ crashes' = crashes)
           => (jobs'[exec[e].job].due <=> exec[e].cut /\ ~exec[e].pressed)]_vars
  <2> SUFFICES ASSUME Inv, Next, NEW e \in Execs, exec[e].pc = "saving",
                      exec'[e].pc \in {"idle", "done"}, crashes' = crashes
               PROVE  jobs'[exec[e].job].due <=> exec[e].cut /\ ~exec[e].pressed
    OBVIOUS
  <2>0. /\ exec \in [Execs -> ExecType] /\ exec[e] \in ExecType /\ slot \in SlotType
        /\ crashes \in Nat
    BY Types, SchedulerAssumption DEF Inv
  <2>1. CASE Record(e)
    <3>1. exec[e].asof \in Lists /\ exec[e].job \in Jobs
      BY <2>0 DEF ExecType
    <3>2. exec[e].asof[exec[e].job] \in JobRecs
      BY <3>1 DEF Lists
    <3>3. jobs'[exec[e].job] = [exec[e].asof[exec[e].job] EXCEPT !.due = exec[e].unfinished]
      BY <2>1, <3>1 DEF Record, Save, Lists
    <3>4. jobs'[exec[e].job].due = exec[e].unfinished
      BY <3>2, <3>3 DEF JobRecs
    <3> QED
      BY <3>4 DEF Inv, StopIsMarked
  <2>2. CASE ~Record(e)
    <3>1. exec'[e].pc = exec[e].pc
      <4>1. CASE UNCHANGED exec
        BY <4>1
      <4>2. CASE Tick
        BY <2>0, <4>2 DEF Tick, ExecType, Ticker
      <4>3. ASSUME NEW d \in Execs, NEW j \in Jobs, RunNow(d, j) PROVE exec'[e].pc = exec[e].pc
        BY <2>0, <4>3, Records DEF RunNow
      <4>4. ASSUME NEW d \in Execs, ExecStep(d) PROVE exec'[e].pc = exec[e].pc
        <5>1. d # e
          BY <2>2, <4>4 DEF ExecStep, Claim, RunEnds, Finish, Reread
        <5> QED
          BY <2>0, <4>4, <5>1 DEF ExecStep, Claim, Claimed, Ends, RunEnds, Finish, Reread, Record
      <4>5. CASE Stop
        BY <2>0, <4>5 DEF Stop, ExecType
      <4>6. ~Crash /\ (FleetStop => UNCHANGED exec)
        BY <2>0 DEF Crash, FleetStop
      <4> QED
        BY <4>1, <4>2, <4>3, <4>4, <4>5, <4>6 DEF Next, EditRead, EditSave, NoteInput, NoteTurn,
           QuietAgain, DueAgain
    <3> QED
      BY <3>1
  <2> QED
    BY <2>1, <2>2
<1> QED
  BY <1>1, SchedulerInvariant, PTL DEF Spec, StopMeansStop
=============================================================================
