--------------------------- MODULE MediaJobsProofs ---------------------------
(***************************************************************************)
(* OneOutcome, for every set of jobs and any number of crashes.            *)
(***************************************************************************)
EXTENDS MediaJobs, TLAPS

Statuses == {"none", "running"} \cup Final
WorkerPcs == {"none", "make", "made", "error", "nothing", "record", "attach", "close", "fail", "end"}

\* The shape of the parts the argument is about.
Shape ==
    /\ row \in [Jobs -> Statuses]
    /\ worker \in [Jobs -> WorkerPcs]
    /\ canceller \in [Jobs -> {"none", "set", "close", "end"}]
    /\ told \in [Jobs -> SUBSET Final]
    /\ crashes \in Nat

\* What a worker holds: the picture is recorded only behind the look at the
\* flag, the file is there from the making to the recording, and a job that is
\* done has no worker any more.
WorkerHolds(j) ==
    /\ worker[j] \in {"none", "make", "made", "error", "nothing", "record"} => j \notin artifact
    /\ worker[j] \in {"attach", "close"} => j \in artifact
    /\ worker[j] \in {"made", "record", "attach", "close"} => j \in file
    /\ row[j] = "done" => worker[j] = "end" /\ j \in artifact /\ j \in file

\* A job that is being cancelled, or is cancelled, and whose worker had not
\* looked yet: the worker cannot get past the look any more.
Caught(j) ==
    /\ worker[j] \notin {"record", "attach", "close", "fail"}
    /\ worker[j] # "end" => j \in flag
    /\ j \notin artifact
    /\ worker[j] = "end" /\ crashes = 0 => j \notin file

CancelHolds(j) ==
    j \notin overtaken =>
        /\ canceller[j] \in {"close", "end"} => Caught(j)
        /\ row[j] = "cancelled" => Caught(j)

\* The inductive invariant.
Inv ==
    /\ Shape
    /\ \A j \in Jobs : told[j] \subseteq {row[j]} /\ WorkerHolds(j) /\ CancelHolds(j)

\* The invariant holds at the start.
LEMMA InitInv == Init => Inv
  BY DEF Init, Inv, Shape, Statuses, WorkerPcs, WorkerHolds, CancelHolds, Caught, Final

USE DEF Statuses, WorkerPcs, Final

\* Every step of the worker keeps the invariant.
LEMMA WorkerInv == \A i \in Jobs : Inv /\ Worker(i) => Inv'
<1> SUFFICES ASSUME NEW i \in Jobs, Inv, Worker(i) PROVE Inv'
  OBVIOUS
<1> USE DEF Inv, Shape, WorkerHolds, CancelHolds, Caught, rows, work, win, app
<1>1. CASE Spawn(i)
  BY <1>1 DEF Spawn
<1>2. CASE Make(i)
  BY <1>2 DEF Make
<1>3. CASE LeaveMap(i)
  BY <1>3 DEF LeaveMap
<1>4. CASE LookCancelled(i)
  BY <1>4 DEF LookCancelled
<1>5. CASE LookGoesOn(i)
  BY <1>5 DEF LookGoesOn
<1>6. CASE Record(i)
  BY <1>6 DEF Record
<1>7. CASE Attach(i)
  BY <1>7 DEF Attach
<1>8. CASE CloseDone(i)
  BY <1>8 DEF CloseDone, Finish, Announce
<1>9. CASE CloseFailed(i)
  BY <1>9 DEF CloseFailed, Finish, Announce
<1> QED
  BY <1>1, <1>2, <1>3, <1>4, <1>5, <1>6, <1>7, <1>8, <1>9 DEF Worker

\* Every step of a cancel command keeps the invariant.
LEMMA CancelInv == \A i \in Jobs : Inv /\ (CancelTake(i) \/ Canceller(i)) => Inv'
<1> SUFFICES ASSUME NEW i \in Jobs, Inv, CancelTake(i) \/ Canceller(i) PROVE Inv'
  OBVIOUS
<1> USE DEF Inv, Shape, WorkerHolds, CancelHolds, Caught, rows, work, win, app
<1>1. CASE CancelTake(i)
  BY <1>1 DEF CancelTake
<1>2. CASE CancelSet(i)
  BY <1>2 DEF CancelSet
<1>3. CASE CancelClose(i)
  BY <1>3 DEF CancelClose, Finish, Announce
<1> QED
  BY <1>1, <1>2, <1>3 DEF Canceller

\* The app's death and its next launch keep the invariant.
LEMMA CrashInv == Inv /\ (Crash \/ Restart) => Inv'
<1> SUFFICES ASSUME Inv, Crash \/ Restart PROVE Inv'
  OBVIOUS
<1> USE DEF Inv, Shape, WorkerHolds, CancelHolds, Caught, rows, work, win, app
<1>1. CASE Crash
  BY <1>1 DEF Crash
<1>2. CASE Restart
  BY <1>2 DEF Restart, Sweep
<1> QED
  BY <1>1, <1>2

\* Every step keeps the invariant.
LEMMA NextInv == Inv /\ [Next]_vars => Inv'
<1> SUFFICES ASSUME Inv, [Next]_vars PROVE Inv'
  OBVIOUS
<1>1. CASE \E j \in Jobs : Submit(j)
  BY <1>1 DEF Inv, Shape, WorkerHolds, CancelHolds, Caught, Submit, work, app
<1>2. CASE \E j \in Jobs : Worker(j)
  BY <1>2, WorkerInv
<1>3. CASE \E j \in Jobs : CancelTake(j) \/ Canceller(j)
  BY <1>3, CancelInv
<1>4. CASE Crash \/ Restart
  BY <1>4, CrashInv
<1>5. CASE \/ \E j \in Jobs : Replied(j) \/ \E status \in Final : Deliver(j, status)
           \/ OpenChat \/ ListRunning \/ ShowChat \/ UNCHANGED vars
  <2>1. UNCHANGED <<rows, work, app, told, overtaken>>
    BY <1>5 DEF Replied, Deliver, OpenChat, ListRunning, ShowChat, vars
  <2> QED
    BY <2>1 DEF Inv, Shape, WorkerHolds, CancelHolds, Caught, rows, work, app
<1> QED
  BY <1>1, <1>2, <1>3, <1>4, <1>5 DEF Next

\* A job has one outcome: what was announced is what the row says, a done row
\* has its picture, and what was made for a cancelled job is discarded unless
\* its worker had already looked at the flag (run_job, cancel,
\* finish_media_job, fail_interrupted_media_jobs).
THEOREM OneOutcomeHolds == Spec => []OneOutcome
<1>1. Inv => OneOutcome
  BY DEF Inv, Shape, WorkerHolds, CancelHolds, Caught, OneOutcome
<1> QED
  BY <1>1, InitInv, NextInv, PTL DEF Spec
=============================================================================
