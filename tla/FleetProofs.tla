---------------------------- MODULE FleetProofs ----------------------------
(***************************************************************************)
(* What Fleet promises for every number of runs, every pool size, every cap  *)
(* and either setting of nesting.                                            *)
(***************************************************************************)
EXTENDS Fleet, FiniteSetTheorems, TLAPS

-----------------------------------------------------------------------------
(********************************** types **********************************)

\* Every step of Fleet keeps the types.
LEMMA TypeStep == TypeOK /\ [Next]_vars => TypeOK'
<1> SUFFICES ASSUME TypeOK, [Next]_vars PROVE TypeOK'
  OBVIOUS
<1> USE FleetAssumption DEF TypeOK
<1>1. CASE UNCHANGED vars
  BY <1>1 DEF vars
<1>2. ASSUME NEW r \in Runs, OpenRoot(r) PROVE TypeOK'
  BY <1>2 DEF OpenRoot, callVars, poolVars, stopVars, appVars, Places
<1>3. ASSUME NEW r \in Runs, CloseRoot(r) PROVE TypeOK'
  BY <1>3 DEF CloseRoot, Dropped, callVars, poolVars, appVars, Places
<1>4. ASSUME NEW r \in Runs, DelegateBegin(r) PROVE TypeOK'
  BY <1>4 DEF DelegateBegin, runVars, poolVars, stopVars, appVars, Places
<1>5. ASSUME NEW r \in Runs, NEW c \in Runs, OpenChild(r, c) PROVE TypeOK'
  <2>1. kids' \in [Runs -> Seq(Runs)]
    BY <1>5 DEF OpenChild
  <2>2. left' \in [Runs -> 0..MaxParallel]
    BY <1>5 DEF OpenChild
  <2>3. line' \in [Runs -> SUBSET Runs] /\ parent' \in [Runs -> Runs \cup {NoRun}]
    BY <1>5 DEF OpenChild
  <2>4. row' \in [Runs -> {"none"} \cup Unfinished \cup Finished] /\ pc' \in [Runs -> Places]
    BY <1>5 DEF OpenChild, Places, Unfinished
  <2>5. QED
    BY <1>5, <2>1, <2>2, <2>3, <2>4, SMTT(30) DEF OpenChild, poolVars, stopVars, appVars
<1>6. ASSUME NEW r \in Runs, OpenFails(r) PROVE TypeOK'
  BY <1>6 DEF OpenFails, runVars, poolVars, stopVars, appVars, Places
<1>7. ASSUME NEW r \in Runs, RunTogether(r) PROVE TypeOK'
  BY <1>7 DEF RunTogether, runVars, callVars, poolVars, stopVars, appVars, Places
<1>8. ASSUME NEW r \in Runs, Return(r) PROVE TypeOK'
  BY <1>8 DEF Return, runVars, callVars, poolVars, stopVars, appVars, Places, Finished
<1>9. ASSUME NEW r \in Runs, ReportBack(r) PROVE TypeOK'
  BY <1>9 DEF ReportBack, Dropped, poolVars, appVars, Places
<1>10. ASSUME NEW r \in Runs, Submit(r) PROVE TypeOK'
  <2>1. queue' \in Seq(Runs) /\ kids' \in [Runs -> Seq(Runs)]
    BY <1>10 DEF Submit
  <2>2. lim' \in [Runs -> 0..MaxConcurrent]
    BY <1>10 DEF Submit, Limits
  <2>3. row' \in [Runs -> {"none"} \cup Unfinished \cup Finished] /\ pc' \in [Runs -> Places]
    BY <1>10 DEF Submit, Places, Unfinished
  <2>4. QED
    BY <1>10, <2>1, <2>2, <2>3 DEF Submit, runVars, stopVars, appVars
<1>11. ASSUME NEW r \in Runs, CollectBegin(r) \/ CollectEnd(r) \/ CollectTimeout(r) PROVE TypeOK'
  <2>1. pc' \in [Runs -> Places]
    <3>1. PICK v \in {"loop", "collecting"} : pc' = [pc EXCEPT ![r] = v]
      BY <1>11 DEF CollectBegin, CollectEnd, CollectTimeout
    <3>2. QED
      BY <3>1 DEF Places
  <2>2. UNCHANGED <<outcome, row, runVars, callVars, poolVars, stopVars, appVars>>
    BY <1>11 DEF CollectBegin, CollectEnd, CollectTimeout
  <2>3. QED
    BY <2>1, <2>2 DEF runVars, callVars, poolVars, stopVars, appVars
<1>12. ASSUME NEW r \in Runs, PumpTake(r) PROVE TypeOK'
  <2>1. queue' \in Seq(Runs) /\ Head(queue) \in Runs
    BY <1>12 DEF PumpTake, CanTake
  <2>2. running' \in 0..MaxConcurrent
    BY <1>12 DEF PumpTake, CanTake
  <2>3. pc' \in [Runs -> Places]
    BY <1>12, <2>1 DEF PumpTake, Places
  <2>4. QED
    BY <1>12, <2>1, <2>2, <2>3 DEF PumpTake, runVars, callVars, stopVars, appVars
<1>13. ASSUME NEW r \in Runs, PumpDone(r) PROVE TypeOK'
  BY <1>13 DEF PumpDone, runVars, callVars, stopVars, appVars, Places
<1>14. ASSUME NEW r \in Runs, RunOneSkip(r) PROVE TypeOK'
  BY <1>14 DEF RunOneSkip, Dropped, callVars, poolVars, appVars, Places, Finished
<1>15. ASSUME NEW r \in Runs, RunOneStart(r) PROVE TypeOK'
  BY <1>15 DEF RunOneStart, runVars, callVars, poolVars, stopVars, appVars, Places, Unfinished
<1>16. ASSUME NEW r \in Runs, RunOneSettle(r) PROVE TypeOK'
  BY <1>16 DEF RunOneSettle, Dropped, callVars, poolVars, appVars, Places
<1>17. ASSUME NEW r \in Runs, Release(r) PROVE TypeOK'
  BY <1>17 DEF Release, Limits, runVars, callVars, stopVars, appVars, Places
<1>18. ASSUME NEW r \in Runs, StopRun(r) PROVE TypeOK'
  BY <1>18 DEF StopRun, Idle, runVars, callVars, poolVars, appVars
<1>19. ASSUME NEW r \in Runs, WalkPop(r) PROVE TypeOK'
  BY <1>19 DEF WalkPop, runVars, callVars, poolVars, appVars
<1>20. CASE WalkChildren
  BY <1>20 DEF WalkChildren, Idle, runVars, callVars, poolVars, appVars
<1>21. CASE CancelAll
  BY <1>21 DEF CancelAll, runVars, callVars, poolVars, appVars
<1>22. CASE Crash
  <2>1. crashes' \in 0..MaxCrashes /\ running' \in 0..MaxConcurrent
    BY <1>22 DEF Crash
  <2>2. pc' \in [Runs -> Places] /\ walk' \in [todo : SUBSET Runs, seen : SUBSET Runs, at : Runs \cup {NoRun}]
    BY <1>22 DEF Crash, Idle, Places
  <2>3. kids' \in [Runs -> Seq(Runs)] /\ queue' \in Seq(Runs)
    BY <1>22 DEF Crash
  <2>4. left' \in [Runs -> 0..MaxParallel] /\ lim' \in [Runs -> 0..MaxConcurrent]
    BY <1>22 DEF Crash
  <2>5. QED
    BY <1>22, <2>1, <2>2, <2>3, <2>4 DEF Crash
<1>23. CASE Boot
  BY <1>23 DEF Boot, runVars, callVars, poolVars, stopVars, Finished
<1>24. QED
  BY <1>1, <1>2, <1>3, <1>4, <1>5, <1>6, <1>7, <1>8, <1>9, <1>10, <1>11, <1>12, <1>13,
     <1>14, <1>15, <1>16, <1>17, <1>18, <1>19, <1>20, <1>21, <1>22, <1>23 DEF Next, RunStep

\* The registry, the pool, the rows and the walk keep their types through
\* every step of every run, and the pool's counter never passes MAX_CONCURRENT
\* whatever the setting is changed to while pump runs.
THEOREM TypeCorrect == Spec => []TypeOK
<1>1. Init => TypeOK
  BY FleetAssumption DEF Init, TypeOK, Runs, NoRun, Idle, Places, Unfinished, Finished
<1>2. QED
  BY <1>1, TypeStep, PTL DEF Spec
-----------------------------------------------------------------------------
(************************ the invariant of the runs ************************)

Working == {"loop", "opening", "joining", "collecting", "returned"}

\* What a run's place says of its handle, its row and who runs it.
PlaceInv(c) ==
    /\ pc[c] = "new" => kind[c] = "root" /\ c \notin live /\ row[c] = "none"
    /\ pc[c] \in {"opened", "lost"} => kind[c] # "root" /\ c \in live /\ row[c] = "running"
    /\ pc[c] \in {"queued", "popped"} => kind[c] = "back" /\ c \in live /\ row[c] = "queued"
    /\ pc[c] \in Working => c \in live /\ (kind[c] # "root" => row[c] = "running")
    /\ pc[c] \in {"opening", "joining", "collecting"} => kind[c] # "back"
    /\ pc[c] = "returned" => kind[c] # "root" /\ outcome[c] \in Finished
    /\ pc[c] = "closed" => kind[c] = "back" /\ c \notin live
    /\ pc[c] = "pumping" => /\ lim[c] >= 1
                            /\ c \in live <=> kind[c] # "back"
                            /\ kind[c] = "fore" => row[c] = "running"
    /\ pc[c] = "gone" => c \notin live
    /\ up /\ kind[c] # "root" /\ c \notin live => row[c] \notin Unfinished

\* The children of a delegate call in progress, by how far it has come.
CallInv(p) ==
    /\ \A i \in DOMAIN kids[p] : parent[kids[p][i]] = p
    /\ \A i, j \in DOMAIN kids[p] : kids[p][i] = kids[p][j] => i = j
    /\ \A i \in DOMAIN kids[p] :
          \/ /\ pc[p] = "opening" /\ pc[kids[p][i]] = "opened"
             /\ kind[kids[p][i]] = IF bg[p] THEN "back" ELSE "fore"
          \/ /\ pc[p] = "joining" /\ kind[kids[p][i]] = "fore"
             /\ pc[kids[p][i]] \in Working \cup {"pumping"}

\* Everything in the pool's queue waits there, and is there once.
QueueInv ==
    /\ \A i, j \in DOMAIN queue : queue[i] = queue[j] => i = j
    /\ \A i \in DOMAIN queue : pc[queue[i]] = "queued"

\* Between a crash and the restart nothing runs.
DownInv == ~up => live = {} /\ \A r \in Runs : pc[r] \in {"new", "gone"}

RunsInv == /\ TypeOK
           /\ \A c \in Runs : PlaceInv(c)
           /\ \A p \in Runs : CallInv(p)
           /\ QueueInv /\ DownInv

\* Every step keeps what a run's place says of it, its handle and its row.
LEMMA RunsStep == RunsInv /\ [Next]_vars => RunsInv'
<1> SUFFICES ASSUME RunsInv, [Next]_vars PROVE RunsInv'
  OBVIOUS
<1>0. TypeOK /\ TypeOK'
  BY TypeStep DEF RunsInv
<1>types. /\ pc \in [Runs -> Places] /\ kind \in [Runs -> {"root", "fore", "back"}]
          /\ kids \in [Runs -> Seq(Runs)] /\ parent \in [Runs -> Runs \cup {NoRun}]
          /\ row \in [Runs -> {"none"} \cup Unfinished \cup Finished]
          /\ outcome \in [Runs -> {"none"} \cup Finished] /\ lim \in [Runs -> 0..MaxConcurrent]
          /\ bg \in [Runs -> BOOLEAN] /\ up \in BOOLEAN /\ live \subseteq Runs
          /\ queue \in Seq(Runs)
  BY <1>0 DEF TypeOK
<1>inv. /\ \A c \in Runs : PlaceInv(c)
        /\ \A p \in Runs : CallInv(p)
        /\ QueueInv /\ DownInv
  BY DEF RunsInv
<1>kids. \A p \in Runs : \A i \in DOMAIN kids[p] :
            /\ kids[p][i] \in Runs /\ parent[kids[p][i]] = p
            /\ pc[p] \in {"opening", "joining"}
            /\ pc[kids[p][i]] \notin {"new", "queued"}
            /\ pc[p] = "opening" => pc[kids[p][i]] = "opened"
  <2> SUFFICES ASSUME NEW p \in Runs, NEW i \in DOMAIN kids[p]
               PROVE  /\ kids[p][i] \in Runs /\ parent[kids[p][i]] = p
                      /\ pc[p] \in {"opening", "joining"}
                      /\ pc[kids[p][i]] \notin {"new", "queued"}
                      /\ pc[p] = "opening" => pc[kids[p][i]] = "opened"
    OBVIOUS
  <2>1. kids[p][i] \in Runs
    BY <1>types
  <2>2. QED
    BY <1>inv, <2>1 DEF CallInv, Working
<1>queued. \A i \in DOMAIN queue : i \in Nat /\ queue[i] \in Runs /\ pc[queue[i]] = "queued"
  BY <1>types, <1>inv DEF QueueInv
<1> DEFINE Good == /\ \A c \in Runs : PlaceInv(c)
                   /\ \A p \in Runs : CallInv(p)
                   /\ QueueInv /\ DownInv
<1>1. ASSUME UNCHANGED <<live, parent, kind, pc, kids, bg, outcome, row, queue, lim, up>> PROVE Good'
  BY <1>inv, <1>1 DEF PlaceInv, CallInv, QueueInv, DownInv
<1>2. ASSUME NEW r \in Runs, NEW c \in Runs, OpenChild(r, c) PROVE Good'
  <2>1. ASSUME NEW d \in Runs PROVE PlaceInv(d)'
    BY <1>types, <1>inv, <1>2 DEF OpenChild, Fresh, PlaceInv, Working, Unfinished, poolVars, appVars
  <2>2. ASSUME NEW d \in Runs PROVE CallInv(d)'
    <3>1. CASE d = r
      <4>1. pc'[r] = "opening" /\ pc[r] = "opening" /\ c # r /\ bg' = bg
        BY <1>types, <1>2 DEF OpenChild, Fresh
      <4>2. kids'[r] = Append(kids[r], c) /\ DOMAIN kids'[r] = 1..(Len(kids[r]) + 1)
        BY <1>types, <1>2 DEF OpenChild
      <4>3. \A i \in DOMAIN kids[r] : kids[r][i] \in Runs /\ kids[r][i] # c /\ kids'[r][i] = kids[r][i]
        BY <1>types, <1>kids, <1>2, <4>2 DEF OpenChild, Fresh
      <4>4. kids'[r][Len(kids[r]) + 1] = c /\ DOMAIN kids[r] = 1..Len(kids[r]) /\ Len(kids[r]) \in Nat
        BY <1>types, <4>2
      <4>5. parent'[c] = r /\ pc'[c] = "opened" /\ kind'[c] = IF bg[r] THEN "back" ELSE "fore"
        BY <1>types, <1>2 DEF OpenChild
      <4>6. \A e \in Runs : e # c => parent'[e] = parent[e] /\ pc'[e] = pc[e] /\ kind'[e] = kind[e]
        BY <1>types, <1>2 DEF OpenChild
      <4>7. QED
        BY <1>inv, <3>1, <4>1, <4>2, <4>3, <4>4, <4>5, <4>6 DEF CallInv
    <3>2. CASE d # r
      <4>1. \A i \in DOMAIN kids[d] : kids[d][i] \in Runs /\ kids[d][i] # c
        BY <1>kids, <1>2 DEF OpenChild, Fresh
      <4>2. kids'[d] = kids[d] /\ bg' = bg /\ (d # c => pc'[d] = pc[d])
        BY <1>types, <1>2, <3>2 DEF OpenChild
      <4>3. d = c => DOMAIN kids[d] = {}
        BY <1>kids, <1>2 DEF OpenChild, Fresh
      <4>4. \A e \in Runs : e # c => parent'[e] = parent[e] /\ pc'[e] = pc[e] /\ kind'[e] = kind[e]
        BY <1>types, <1>2 DEF OpenChild
      <4>5. QED
        BY <1>inv, <4>1, <4>2, <4>3, <4>4 DEF CallInv
    <3>3. QED
      BY <3>1, <3>2
  <2>3. QueueInv'
    BY <1>types, <1>inv, <1>2 DEF OpenChild, Fresh, QueueInv, poolVars
  <2>4. DownInv'
    BY <1>types, <1>inv, <1>2 DEF OpenChild, DownInv, appVars
  <2>5. QED
    BY <2>1, <2>2, <2>3, <2>4
<1>3. ASSUME NEW r \in Runs, OpenRoot(r) PROVE Good'
  <2>1. ASSUME NEW d \in Runs PROVE PlaceInv(d)'
    BY <1>types, <1>inv, <1>3 DEF OpenRoot, Fresh, PlaceInv, CallInv, DownInv, Working,
       Unfinished, callVars, poolVars, appVars
  <2>2. ASSUME NEW d \in Runs PROVE CallInv(d)'
    BY <1>types, <1>inv, <1>3 DEF OpenRoot, Fresh, CallInv, PlaceInv, Working, callVars, poolVars,
       appVars
  <2>3. QueueInv'
    BY <1>types, <1>inv, <1>3 DEF OpenRoot, Fresh, QueueInv, CallInv, callVars, poolVars
  <2>4. DownInv'
    BY <1>types, <1>inv, <1>3 DEF OpenRoot, Fresh, DownInv, appVars
  <2>5. QED
    BY <2>1, <2>2, <2>3, <2>4
<1>4. ASSUME NEW r \in Runs, CloseRoot(r) PROVE Good'
  <2>1. ASSUME NEW d \in Runs PROVE PlaceInv(d)'
    BY <1>types, <1>inv, <1>4 DEF CloseRoot, PlaceInv, CallInv, DownInv, Working, Unfinished,
       callVars, poolVars, appVars
  <2>2. ASSUME NEW d \in Runs PROVE CallInv(d)'
    BY <1>types, <1>inv, <1>4 DEF CloseRoot, CallInv, PlaceInv, Working, callVars, poolVars,
       appVars
  <2>3. QueueInv'
    BY <1>types, <1>inv, <1>4 DEF CloseRoot, QueueInv, CallInv, callVars, poolVars
  <2>4. DownInv'
    BY <1>types, <1>inv, <1>4 DEF CloseRoot, DownInv, appVars
  <2>5. QED
    BY <2>1, <2>2, <2>3, <2>4
<1>5. ASSUME NEW r \in Runs, DelegateBegin(r) PROVE Good'
  <2>1. ASSUME NEW d \in Runs PROVE PlaceInv(d)'
    BY <1>types, <1>inv, <1>5 DEF DelegateBegin, MayDelegate, PlaceInv, CallInv, DownInv, Working,
       Unfinished, runVars, poolVars, appVars
  <2>2. ASSUME NEW d \in Runs PROVE CallInv(d)'
    BY <1>types, <1>inv, <1>5 DEF DelegateBegin, MayDelegate, CallInv, PlaceInv, Working, runVars,
       poolVars, appVars
  <2>3. QueueInv'
    BY <1>types, <1>inv, <1>5 DEF DelegateBegin, MayDelegate, QueueInv, CallInv, runVars, poolVars
  <2>4. DownInv'
    BY <1>types, <1>inv, <1>5 DEF DelegateBegin, MayDelegate, DownInv, runVars, appVars
  <2>5. QED
    BY <2>1, <2>2, <2>3, <2>4
<1>6. ASSUME NEW r \in Runs, OpenFails(r) PROVE Good'
  <2>1. ASSUME NEW d \in Runs PROVE PlaceInv(d)'
    BY <1>types, <1>inv, <1>6 DEF OpenFails, InKids, PlaceInv, CallInv, DownInv, Working, Unfinished,
       runVars, poolVars, appVars
  <2>2. ASSUME NEW d \in Runs PROVE CallInv(d)'
    <3>1. CASE d = r
      BY <1>types, <1>6, <3>1 DEF OpenFails, CallInv
    <3>2. CASE d # r
      <4>1. \A i \in DOMAIN kids[d] : kids[d][i] \in Runs \ InKids(r)
        BY <1>kids, <3>2 DEF InKids
      <4>2. d \in InKids(r) => DOMAIN kids[d] = {}
        BY <1>kids, <1>6 DEF OpenFails, InKids
      <4>3. QED
        BY <1>types, <1>inv, <1>6, <3>2, <4>1, <4>2 DEF OpenFails, CallInv, Working, runVars
    <3>3. QED
      BY <3>1, <3>2
  <2>3. QueueInv'
    <3>1. \A i \in DOMAIN queue : queue[i] \in Runs /\ queue[i] \notin InKids(r) \cup {r}
      BY <1>kids, <1>queued, <1>6 DEF OpenFails, InKids
    <3>2. QED
      BY <1>types, <1>inv, <1>6, <3>1 DEF OpenFails, QueueInv, poolVars
  <2>4. DownInv'
    BY <1>types, <1>inv, <1>6 DEF OpenFails, InKids, DownInv, runVars, appVars
  <2>5. QED
    BY <2>1, <2>2, <2>3, <2>4
<1>7. ASSUME NEW r \in Runs, RunTogether(r) PROVE Good'
  <2>1. ASSUME NEW d \in Runs PROVE PlaceInv(d)'
    BY <1>types, <1>inv, <1>7 DEF RunTogether, InKids, PlaceInv, CallInv, DownInv, Working,
       Unfinished, runVars, callVars, poolVars, appVars
  <2>2. ASSUME NEW d \in Runs PROVE CallInv(d)'
    BY <1>types, <1>inv, <1>7 DEF RunTogether, InKids, CallInv, PlaceInv, Working, runVars,
       callVars, poolVars, appVars
  <2>3. QueueInv'
    <3>1. \A i \in DOMAIN queue : queue[i] \in Runs /\ queue[i] \notin InKids(r) \cup {r}
      BY <1>kids, <1>queued, <1>7 DEF RunTogether, InKids
    <3>2. QED
      BY <1>types, <1>inv, <1>7, <3>1 DEF RunTogether, QueueInv, poolVars
  <2>4. DownInv'
    BY <1>types, <1>inv, <1>7 DEF RunTogether, InKids, DownInv, runVars, appVars
  <2>5. QED
    BY <2>1, <2>2, <2>3, <2>4
<1>8. ASSUME NEW r \in Runs, Return(r) PROVE Good'
  <2>1. ASSUME NEW d \in Runs PROVE PlaceInv(d)'
    BY <1>types, <1>inv, <1>8 DEF Return, PlaceInv, CallInv, DownInv, Working, Unfinished,
       Finished, runVars, callVars, poolVars, appVars
  <2>2. ASSUME NEW d \in Runs PROVE CallInv(d)'
    BY <1>types, <1>inv, <1>8 DEF Return, CallInv, PlaceInv, Working, runVars, callVars, poolVars,
       appVars
  <2>3. QueueInv'
    BY <1>types, <1>inv, <1>8 DEF Return, QueueInv, CallInv, runVars, callVars, poolVars
  <2>4. DownInv'
    BY <1>types, <1>inv, <1>8 DEF Return, DownInv, runVars, appVars
  <2>5. QED
    BY <2>1, <2>2, <2>3, <2>4
<1>9. ASSUME NEW r \in Runs, ReportBack(r) PROVE Good'
  <2>1. ASSUME NEW d \in Runs PROVE PlaceInv(d)'
    BY <1>types, <1>inv, <1>9 DEF ReportBack, InKids, PlaceInv, CallInv, DownInv, Working,
       Unfinished, Finished, poolVars, appVars
  <2>2. ASSUME NEW d \in Runs PROVE CallInv(d)'
    <3>1. CASE d = r
      BY <1>types, <1>9, <3>1 DEF ReportBack, CallInv
    <3>2. CASE d # r
      <4>1. \A i \in DOMAIN kids[d] : kids[d][i] \in Runs \ InKids(r)
        BY <1>kids, <3>2 DEF InKids
      <4>2. d \in InKids(r) => DOMAIN kids[d] = {}
        <5> SUFFICES ASSUME d \in InKids(r), NEW i \in DOMAIN kids[d] PROVE FALSE
          OBVIOUS
        <5>1. pc[d] = "returned"
          BY <1>9 DEF ReportBack
        <5>2. QED
          BY <1>kids, <5>1
      <4>3. QED
        BY <1>types, <1>inv, <1>9, <3>2, <4>1, <4>2 DEF ReportBack, CallInv, Working
    <3>3. QED
      BY <3>1, <3>2
  <2>3. QueueInv'
    <3>1. \A i \in DOMAIN queue : queue[i] \in Runs /\ queue[i] \notin InKids(r) \cup {r}
      BY <1>kids, <1>queued, <1>9 DEF ReportBack, InKids
    <3>2. QED
      BY <1>types, <1>inv, <1>9, <3>1 DEF ReportBack, QueueInv, poolVars
  <2>4. DownInv'
    BY <1>types, <1>inv, <1>9 DEF ReportBack, InKids, DownInv, appVars
  <2>5. QED
    BY <2>1, <2>2, <2>3, <2>4
<1>10. ASSUME NEW r \in Runs, Submit(r) PROVE Good'
  <2>1. ASSUME NEW d \in Runs PROVE PlaceInv(d)'
    BY <1>types, <1>inv, <1>10 DEF Submit, InKids, Limits, PlaceInv, CallInv, DownInv, Working,
       Unfinished, runVars, appVars
  <2>2. ASSUME NEW d \in Runs PROVE CallInv(d)'
    BY <1>types, <1>inv, <1>10, SMTT(30) DEF Submit, InKids, Limits, CallInv, PlaceInv, Working,
       runVars, appVars
  <2>3. QueueInv'
    <3>1. /\ queue' = queue \o kids[r] /\ kids[r] \in Seq(Runs)
          /\ pc' = [q \in Runs |-> IF q = r THEN "pumping"
                                  ELSE IF q \in InKids(r) THEN "queued" ELSE pc[q]]
      BY <1>types, <1>10 DEF Submit
    <3>2. \A i \in DOMAIN queue : queue[i] \in Runs /\ queue[i] \notin InKids(r) \cup {r}
      BY <1>kids, <1>queued, <1>10 DEF Submit, InKids
    <3>3. \A i \in DOMAIN kids[r] : kids[r][i] \in InKids(r) /\ kids[r][i] \in Runs /\ kids[r][i] # r
      BY <1>kids, <1>10 DEF Submit, InKids
    <3>4. ASSUME NEW i \in DOMAIN queue'
          PROVE  \/ i \in DOMAIN queue /\ queue'[i] = queue[i]
                 \/ /\ i \notin DOMAIN queue /\ i - Len(queue) \in DOMAIN kids[r]
                    /\ queue'[i] = kids[r][i - Len(queue)]
      BY <1>types, <3>1
    <3>5. \A i \in DOMAIN queue' : pc'[queue'[i]] = "queued"
      BY <1>inv, <3>1, <3>2, <3>3, <3>4 DEF QueueInv
    <3>6. ASSUME NEW i \in DOMAIN queue', NEW j \in DOMAIN queue', queue'[i] = queue'[j] PROVE i = j
      <4>1. i \in Nat /\ j \in Nat /\ Len(queue) \in Nat
        BY <1>types, <3>1
      <4>2. QED
        BY <1>inv, <3>2, <3>3, <3>4, <3>6, <4>1 DEF QueueInv, CallInv
    <3>7. QED
      BY <3>5, <3>6 DEF QueueInv
  <2>4. DownInv'
    BY <1>types, <1>inv, <1>10 DEF Submit, InKids, Limits, DownInv, runVars, appVars
  <2>5. QED
    BY <2>1, <2>2, <2>3, <2>4
<1>11. ASSUME NEW r \in Runs, CollectBegin(r) PROVE Good'
  <2>1. ASSUME NEW d \in Runs PROVE PlaceInv(d)'
    BY <1>types, <1>inv, <1>11 DEF CollectBegin, MayDelegate, PlaceInv, CallInv, DownInv, Working,
       Unfinished, runVars, callVars, poolVars, appVars
  <2>2. ASSUME NEW d \in Runs PROVE CallInv(d)'
    BY <1>types, <1>inv, <1>11 DEF CollectBegin, MayDelegate, CallInv, PlaceInv, Working, runVars,
       callVars, poolVars, appVars
  <2>3. QueueInv'
    BY <1>types, <1>inv, <1>11 DEF CollectBegin, MayDelegate, QueueInv, CallInv, runVars,
       callVars, poolVars
  <2>4. DownInv'
    BY <1>types, <1>inv, <1>11 DEF CollectBegin, MayDelegate, DownInv, runVars, appVars
  <2>5. QED
    BY <2>1, <2>2, <2>3, <2>4
<1>12. ASSUME NEW r \in Runs, CollectEnd(r) PROVE Good'
  <2>1. ASSUME NEW d \in Runs PROVE PlaceInv(d)'
    BY <1>types, <1>inv, <1>12 DEF CollectEnd, PlaceInv, CallInv, DownInv, Working, Unfinished,
       runVars, callVars, poolVars, appVars
  <2>2. ASSUME NEW d \in Runs PROVE CallInv(d)'
    BY <1>types, <1>inv, <1>12 DEF CollectEnd, CallInv, PlaceInv, Working, runVars, callVars,
       poolVars, appVars
  <2>3. QueueInv'
    BY <1>types, <1>inv, <1>12 DEF CollectEnd, QueueInv, CallInv, runVars, callVars, poolVars
  <2>4. DownInv'
    BY <1>types, <1>inv, <1>12 DEF CollectEnd, DownInv, runVars, appVars
  <2>5. QED
    BY <2>1, <2>2, <2>3, <2>4
<1>13. ASSUME NEW r \in Runs, CollectTimeout(r) PROVE Good'
  <2>1. ASSUME NEW d \in Runs PROVE PlaceInv(d)'
    BY <1>types, <1>inv, <1>13 DEF CollectTimeout, PlaceInv, CallInv, DownInv, Working,
       Unfinished, runVars, callVars, poolVars, appVars
  <2>2. ASSUME NEW d \in Runs PROVE CallInv(d)'
    BY <1>types, <1>inv, <1>13 DEF CollectTimeout, CallInv, PlaceInv, Working, runVars, callVars,
       poolVars, appVars
  <2>3. QueueInv'
    BY <1>types, <1>inv, <1>13 DEF CollectTimeout, QueueInv, CallInv, runVars, callVars, poolVars
  <2>4. DownInv'
    BY <1>types, <1>inv, <1>13 DEF CollectTimeout, DownInv, runVars, appVars
  <2>5. QED
    BY <2>1, <2>2, <2>3, <2>4
<1>14. ASSUME NEW r \in Runs, PumpTake(r) PROVE Good'
  <2>0. /\ Head(queue) \in Runs /\ pc[Head(queue)] = "queued"
        /\ \A i \in DOMAIN Tail(queue) : i + 1 \in DOMAIN queue /\ Tail(queue)[i] = queue[i + 1]
        /\ \A i \in DOMAIN Tail(queue) : Tail(queue)[i] # Head(queue)
    <3>1. PICK q \in Seq(Runs) : q = queue /\ q # <<>>
      BY <1>types, <1>14 DEF PumpTake, CanTake
    <3>2. /\ Head(q) = q[1] /\ 1 \in DOMAIN q
          /\ \A i \in DOMAIN Tail(q) : i \in Nat /\ i # 0 /\ i + 1 \in DOMAIN q /\ Tail(q)[i] = q[i + 1]
      BY ONLY q \in Seq(Runs), <3>1
    <3>3. \A i \in DOMAIN Tail(q) : i + 1 # 1
      BY <3>2
    <3>4. QED
      BY <1>inv, <1>queued, <3>1, <3>2, <3>3 DEF QueueInv
  <2>1. ASSUME NEW d \in Runs PROVE PlaceInv(d)'
    BY <1>types, <1>inv, <1>14, <2>0 DEF PumpTake, CanTake, PlaceInv, CallInv, DownInv, Working,
       Unfinished, runVars, callVars, appVars
  <2>2. ASSUME NEW d \in Runs PROVE CallInv(d)'
    <3>1. /\ UNCHANGED <<parent, kind, kids, bg>>
          /\ \A c \in Runs : pc'[c] = IF c = Head(queue) THEN "popped" ELSE pc[c]
      BY <1>types, <1>14, <2>0 DEF PumpTake, runVars, callVars
    <3>2. d = Head(queue) => DOMAIN kids[d] = {}
      BY <1>kids, <2>0
    <3>3. \A i \in DOMAIN kids[d] : kids[d][i] \in Runs /\ kids[d][i] # Head(queue)
      BY <1>kids, <2>0
    <3>4. QED
      BY <1>inv, <3>1, <3>2, <3>3 DEF CallInv
  <2>3. QueueInv'
    <3>1. queue' = Tail(queue) /\ pc' = [pc EXCEPT ![Head(queue)] = "popped"]
      BY <1>14 DEF PumpTake
    <3>2. \A i \in DOMAIN Tail(queue) : i \in Nat /\ Tail(queue)[i] \in Runs
      <4>1. PICK q \in Seq(Runs) : q = queue /\ q # <<>>
        BY <1>types, <1>14 DEF PumpTake, CanTake
      <4>2. \A i \in DOMAIN Tail(q) : i \in Nat /\ Tail(q)[i] \in Runs
        BY ONLY q \in Seq(Runs), <4>1
      <4>3. QED
        BY <4>1, <4>2
    <3>3. \A i, j \in DOMAIN queue' : queue'[i] = queue'[j] => i = j
      BY <1>inv, <2>0, <3>1, <3>2 DEF QueueInv
    <3>4. \A i \in DOMAIN queue' : pc'[queue'[i]] = "queued"
      BY <1>types, <1>queued, <2>0, <3>1, <3>2
    <3>5. QED
      BY <3>3, <3>4 DEF QueueInv
  <2>4. DownInv'
    BY <1>types, <1>inv, <1>14, <2>0 DEF PumpTake, CanTake, DownInv, runVars, appVars
  <2>5. QED
    BY <2>1, <2>2, <2>3, <2>4
<1>15. ASSUME NEW r \in Runs, PumpDone(r) PROVE Good'
  <2>1. ASSUME NEW d \in Runs PROVE PlaceInv(d)'
    BY <1>types, <1>inv, <1>15 DEF PumpDone, PlaceInv, CallInv, DownInv, Working, Unfinished,
       runVars, callVars, appVars
  <2>2. ASSUME NEW d \in Runs PROVE CallInv(d)'
    BY <1>types, <1>inv, <1>15 DEF PumpDone, CallInv, PlaceInv, Working, runVars, callVars,
       appVars
  <2>3. QueueInv'
    BY <1>types, <1>inv, <1>15 DEF PumpDone, QueueInv, CallInv, runVars, callVars
  <2>4. DownInv'
    BY <1>types, <1>inv, <1>15 DEF PumpDone, DownInv, runVars, appVars
  <2>5. QED
    BY <2>1, <2>2, <2>3, <2>4
<1>16. ASSUME NEW r \in Runs, RunOneSkip(r) PROVE Good'
  <2>1. ASSUME NEW d \in Runs PROVE PlaceInv(d)'
    BY <1>types, <1>inv, <1>16 DEF RunOneSkip, PlaceInv, CallInv, DownInv, Working, Unfinished,
       Finished, callVars, poolVars, appVars
  <2>2. ASSUME NEW d \in Runs PROVE CallInv(d)'
    BY <1>types, <1>inv, <1>16 DEF RunOneSkip, CallInv, PlaceInv, Working, callVars, poolVars,
       appVars
  <2>3. QueueInv'
    BY <1>types, <1>inv, <1>16 DEF RunOneSkip, QueueInv, CallInv, callVars, poolVars
  <2>4. DownInv'
    BY <1>types, <1>inv, <1>16 DEF RunOneSkip, DownInv, appVars
  <2>5. QED
    BY <2>1, <2>2, <2>3, <2>4
<1>17. ASSUME NEW r \in Runs, RunOneStart(r) PROVE Good'
  <2>1. ASSUME NEW d \in Runs PROVE PlaceInv(d)'
    BY <1>types, <1>inv, <1>17 DEF RunOneStart, PlaceInv, CallInv, DownInv, Working, Unfinished,
       runVars, callVars, poolVars, appVars
  <2>2. ASSUME NEW d \in Runs PROVE CallInv(d)'
    BY <1>types, <1>inv, <1>17 DEF RunOneStart, CallInv, PlaceInv, Working, runVars, callVars,
       poolVars, appVars
  <2>3. QueueInv'
    BY <1>types, <1>inv, <1>17 DEF RunOneStart, QueueInv, CallInv, runVars, callVars, poolVars
  <2>4. DownInv'
    BY <1>types, <1>inv, <1>17 DEF RunOneStart, DownInv, runVars, appVars
  <2>5. QED
    BY <2>1, <2>2, <2>3, <2>4
<1>18. ASSUME NEW r \in Runs, RunOneSettle(r) PROVE Good'
  <2>1. ASSUME NEW d \in Runs PROVE PlaceInv(d)'
    BY <1>types, <1>inv, <1>18 DEF RunOneSettle, PlaceInv, CallInv, DownInv, Working, Unfinished,
       Finished, callVars, poolVars, appVars
  <2>2. ASSUME NEW d \in Runs PROVE CallInv(d)'
    BY <1>types, <1>inv, <1>18 DEF RunOneSettle, CallInv, PlaceInv, Working, callVars, poolVars,
       appVars
  <2>3. QueueInv'
    BY <1>types, <1>inv, <1>18 DEF RunOneSettle, QueueInv, CallInv, callVars, poolVars
  <2>4. DownInv'
    BY <1>types, <1>inv, <1>18 DEF RunOneSettle, DownInv, appVars
  <2>5. QED
    BY <2>1, <2>2, <2>3, <2>4
<1>19. ASSUME NEW r \in Runs, Release(r) PROVE Good'
  <2>1. ASSUME NEW d \in Runs PROVE PlaceInv(d)'
    BY <1>types, <1>inv, <1>19 DEF Release, Limits, PlaceInv, CallInv, DownInv, Working,
       Unfinished, runVars, callVars, appVars
  <2>2. ASSUME NEW d \in Runs PROVE CallInv(d)'
    BY <1>types, <1>inv, <1>19 DEF Release, Limits, CallInv, PlaceInv, Working, runVars, callVars,
       appVars
  <2>3. QueueInv'
    BY <1>types, <1>inv, <1>19 DEF Release, Limits, QueueInv, CallInv, runVars, callVars
  <2>4. DownInv'
    BY <1>types, <1>inv, <1>19 DEF Release, Limits, DownInv, runVars, appVars
  <2>5. QED
    BY <2>1, <2>2, <2>3, <2>4
<1>20. ASSUME Crash PROVE Good'
  <2>1. ASSUME NEW d \in Runs PROVE PlaceInv(d)'
    BY <1>types, <1>inv, <1>20 DEF Crash, PlaceInv, CallInv, DownInv, Working, Unfinished
  <2>2. ASSUME NEW d \in Runs PROVE CallInv(d)'
    BY <1>types, <1>inv, <1>20 DEF Crash, CallInv, PlaceInv, Working
  <2>3. QueueInv'
    BY <1>types, <1>inv, <1>20 DEF Crash, QueueInv, CallInv
  <2>4. DownInv'
    BY <1>types, <1>inv, <1>20 DEF Crash, DownInv
  <2>5. QED
    BY <2>1, <2>2, <2>3, <2>4
<1>21. ASSUME Boot PROVE Good'
  <2>1. ASSUME NEW d \in Runs PROVE PlaceInv(d)'
    BY <1>types, <1>inv, <1>21 DEF Boot, PlaceInv, CallInv, DownInv, Working, Unfinished,
       Finished, runVars, callVars, poolVars
  <2>2. ASSUME NEW d \in Runs PROVE CallInv(d)'
    BY <1>types, <1>inv, <1>21 DEF Boot, CallInv, PlaceInv, Working, runVars, callVars, poolVars
  <2>3. QueueInv'
    BY <1>types, <1>inv, <1>21 DEF Boot, QueueInv, CallInv, runVars, callVars, poolVars
  <2>4. DownInv'
    BY <1>types, <1>inv, <1>21 DEF Boot, DownInv, runVars
  <2>5. QED
    BY <2>1, <2>2, <2>3, <2>4
<1>22. ASSUME (\E r \in Runs : StopRun(r) \/ WalkPop(r)) \/ WalkChildren \/ CancelAll PROVE Good'
  BY <1>1, <1>22 DEF StopRun, WalkPop, WalkChildren, CancelAll, runVars, callVars, poolVars, appVars
<1>23. CASE UNCHANGED vars
  BY <1>0, <1>1, <1>23 DEF vars, RunsInv
<1>24. QED
  BY <1>0, <1>2, <1>3, <1>4, <1>5, <1>6, <1>7, <1>8, <1>9, <1>10, <1>11, <1>12, <1>13, <1>14,
     <1>15, <1>16, <1>17, <1>18, <1>19, <1>20, <1>21, <1>22, <1>23 DEF Next, RunStep, RunsInv
\* The inductive invariant holds in every reachable state.
THEOREM RunsInvariant == Spec => []RunsInv
<1>1. Init => RunsInv
  <2> SUFFICES ASSUME Init PROVE RunsInv
    OBVIOUS
  <2>1. TypeOK
    BY FleetAssumption DEF Init, TypeOK, Runs, NoRun, Idle, Places, Unfinished, Finished
  <2>2. \A c \in Runs : PlaceInv(c)
    BY DEF Init, PlaceInv, Working
  <2>3. (\A p \in Runs : CallInv(p)) /\ QueueInv /\ DownInv
    BY DEF Init, CallInv, QueueInv, DownInv
  <2>4. QED
    BY <2>1, <2>2, <2>3 DEF RunsInv
<1>2. QED
  BY <1>1, RunsStep, PTL DEF Spec

\* background.rs: "a queued child must be visible and stoppable while it
\* waits", for any number of leads, children, pumps and stops.
THEOREM QueuedAreStoppable == Spec => []QueuedStoppable
<1>1. RunsInv => QueuedStoppable
  BY DEF RunsInv, QueueInv, PlaceInv, QueuedStoppable
<1>2. QED
  BY <1>1, RunsInvariant, PTL
-----------------------------------------------------------------------------
(********************************* the pool ********************************)

PoolInv == PoolAccounting /\ NoStrandedQueue

\* A set of runs is finite.
LEMMA SlotsFinite == IsFiniteSet(InSlot) /\ Cardinality(InSlot) \in Nat
<1>1. IsFiniteSet(Runs)
  BY FleetAssumption, FS_Interval DEF Runs
<1>2. InSlot \in SUBSET Runs
  BY DEF InSlot
<1>3. QED
  BY <1>1, <1>2, FS_Subset, FS_CardinalityType

\* A slot is taken and given back by the same steps that count it, and no step
\* leaves the queue with nobody to look at it.
LEMMA PoolStep == RunsInv /\ PoolInv /\ [Next]_vars => PoolInv'
<1> SUFFICES ASSUME RunsInv, PoolInv, [Next]_vars PROVE PoolInv'
  OBVIOUS
<1>types. /\ pc \in [Runs -> Places] /\ kind \in [Runs -> {"root", "fore", "back"}]
          /\ kids \in [Runs -> Seq(Runs)] /\ queue \in Seq(Runs)
          /\ running \in 0..MaxConcurrent /\ running' \in 0..MaxConcurrent
          /\ lim \in [Runs -> 0..MaxConcurrent] /\ MaxConcurrent \in Nat
  BY TypeStep, FleetAssumption DEF RunsInv, TypeOK
<1>inv. /\ \A c \in Runs : PlaceInv(c)
        /\ \A p \in Runs : CallInv(p)
        /\ QueueInv
  BY DEF RunsInv
<1>kept. ASSUME /\ \A c \in Runs : kind'[c] = "back" /\ pc'[c] \in PoolPlaces
                                <=> kind[c] = "back" /\ pc[c] \in PoolPlaces
                /\ \A t \in Runs : pc[t] = "pumping" => pc'[t] = "pumping"
                /\ running' = running /\ queue' = queue
         PROVE  PoolInv'
  <2>1. InSlot' = InSlot
    BY <1>kept DEF InSlot
  <2>2. QED
    BY <1>kept, <2>1 DEF PoolInv, PoolAccounting, NoStrandedQueue
<1> USE DEF PoolPlaces
<1>1. ASSUME NEW r \in Runs, NEW c \in Runs, OpenChild(r, c) PROVE PoolInv'
  BY <1>kept, <1>types, <1>1 DEF OpenChild, Fresh, poolVars
<1>2. ASSUME NEW r \in Runs, OpenRoot(r) \/ CloseRoot(r) PROVE PoolInv'
  BY <1>kept, <1>types, <1>inv, <1>2 DEF OpenRoot, CloseRoot, Fresh, PlaceInv, poolVars
<1>3. ASSUME NEW r \in Runs, DelegateBegin(r) PROVE PoolInv'
  BY <1>kept, <1>types, <1>inv, <1>3 DEF DelegateBegin, MayDelegate, PlaceInv, runVars, poolVars
<1>14. ASSUME NEW r \in Runs, OpenFails(r) PROVE PoolInv'
  <2>1. pc[r] = "opening" /\ \A c \in InKids(r) : pc[c] = "opened"
    BY <1>types, <1>inv, <1>14 DEF OpenFails, CallInv, InKids
  <2>2. QED
    BY <1>kept, <1>types, <1>inv, <1>14, <2>1 DEF OpenFails, PlaceInv, runVars, poolVars
<1>4. ASSUME NEW r \in Runs, RunTogether(r) PROVE PoolInv'
  <2>1. pc[r] = "opening" /\ \A c \in InKids(r) : pc[c] = "opened" /\ kind[c] = "fore"
    BY <1>types, <1>inv, <1>4 DEF RunTogether, CallInv, InKids
  <2>2. QED
    BY <1>kept, <1>types, <1>inv, <1>4, <2>1 DEF RunTogether, PlaceInv, runVars, poolVars
<1>5. ASSUME NEW r \in Runs, ReportBack(r) PROVE PoolInv'
  <2>1. pc[r] = "joining" /\ \A c \in InKids(r) : pc[c] = "returned" /\ kind[c] = "fore"
    BY <1>types, <1>inv, <1>5 DEF ReportBack, CallInv, InKids
  <2>2. QED
    BY <1>kept, <1>types, <1>inv, <1>5, <2>1 DEF ReportBack, PlaceInv, poolVars
<1>6. ASSUME NEW r \in Runs, CollectBegin(r) \/ CollectEnd(r) \/ CollectTimeout(r) PROVE PoolInv'
  BY <1>kept, <1>types, <1>inv, <1>6 DEF CollectBegin, CollectEnd, CollectTimeout, MayDelegate,
     PlaceInv, runVars, poolVars
<1>7. ASSUME NEW r \in Runs, Return(r) \/ RunOneSkip(r) \/ RunOneStart(r) \/ RunOneSettle(r)
      PROVE  PoolInv'
  BY <1>kept, <1>types, <1>7 DEF Return, RunOneSkip, RunOneStart, RunOneSettle, runVars, poolVars
<1>8. ASSUME (\E r \in Runs : StopRun(r) \/ WalkPop(r)) \/ WalkChildren \/ CancelAll \/ Boot
             \/ UNCHANGED vars
      PROVE  PoolInv'
  BY <1>kept, <1>8 DEF StopRun, WalkPop, WalkChildren, CancelAll, Boot, vars, runVars, poolVars
<1>9. ASSUME NEW r \in Runs, Submit(r) PROVE PoolInv'
  <2>1. pc[r] = "opening" /\ pc'[r] = "pumping" /\ running' = running
    BY <1>types, <1>9 DEF Submit
  <2>2. \A c \in InKids(r) : pc[c] = "opened"
    BY <1>types, <1>inv, <1>9 DEF Submit, CallInv, InKids
  <2>3. InSlot' = InSlot
    BY <1>types, <1>9, <2>1, <2>2 DEF Submit, InSlot, runVars
  <2>4. QED
    BY <2>1, <2>3 DEF PoolInv, PoolAccounting, NoStrandedQueue
<1>10. ASSUME NEW r \in Runs, PumpTake(r) PROVE PoolInv'
  <2>1. /\ Head(queue) \in Runs /\ pc[Head(queue)] = "queued" /\ kind[Head(queue)] = "back"
        /\ running < lim[r] /\ running' = running + 1
    BY <1>types, <1>inv, <1>10 DEF PumpTake, CanTake, QueueInv, PlaceInv
  <2>2. InSlot' = InSlot \cup {Head(queue)} /\ Head(queue) \notin InSlot
    BY <1>types, <1>10, <2>1 DEF PumpTake, InSlot, runVars
  <2>3. Cardinality(InSlot') = Cardinality(InSlot) + 1
    BY <2>2, SlotsFinite, FS_AddElement
  <2>4. QED
    BY <1>types, <2>1, <2>2, <2>3 DEF PoolInv, PoolAccounting, NoStrandedQueue, InSlot
<1>11. ASSUME NEW r \in Runs, PumpDone(r) PROVE PoolInv'
  <2>1. pc[r] = "pumping" /\ lim[r] >= 1 /\ queue' = queue /\ running' = running
    BY <1>inv, <1>11 DEF PumpDone, PlaceInv
  <2>2. InSlot' = InSlot
    BY <1>types, <1>11 DEF PumpDone, InSlot, runVars
  <2>3. CASE queue = <<>>
    BY <2>1, <2>2, <2>3 DEF PoolInv, PoolAccounting, NoStrandedQueue
  <2>4. CASE running >= lim[r]
    <3>1. running # 0
      BY <1>types, <2>1, <2>4
    <3>2. InSlot # {}
      BY <3>1, FS_EmptySet DEF PoolInv, PoolAccounting
    <3>3. QED
      BY <2>1, <2>2, <3>2 DEF PoolInv, PoolAccounting, NoStrandedQueue, InSlot
  <2>5. QED
    BY <1>types, <1>11, <2>3, <2>4 DEF PumpDone, CanTake
<1>12. ASSUME NEW r \in Runs, Release(r) PROVE PoolInv'
  <2>1. r \in InSlot /\ InSlot' = InSlot \ {r} /\ pc'[r] = "pumping"
    BY <1>types, <1>inv, <1>12 DEF Release, InSlot, PlaceInv, runVars
  <2>2. Cardinality(InSlot') = Cardinality(InSlot) - 1
    BY <2>1, SlotsFinite, FS_RemoveElement
  <2>3. Cardinality(InSlot) # 0
    BY <2>1, SlotsFinite, FS_EmptySet
  <2>4. running' = running - 1
    BY <1>types, <1>12, <2>3 DEF Release, PoolInv, PoolAccounting
  <2>5. QED
    BY <1>types, <2>1, <2>2, <2>4 DEF PoolInv, PoolAccounting, NoStrandedQueue
<1>13. ASSUME Crash PROVE PoolInv'
  <2>1. InSlot' = {} /\ running' = 0 /\ queue' = <<>>
    BY <1>13 DEF Crash, InSlot
  <2>2. QED
    BY <1>types, <2>1, FS_EmptySet DEF PoolInv, PoolAccounting, NoStrandedQueue
<1>15. QED
  BY <1>1, <1>2, <1>3, <1>4, <1>5, <1>6, <1>7, <1>8, <1>9, <1>10, <1>11, <1>12, <1>13, <1>14
     DEF Next, RunStep

\* Both facts about the pool hold in every reachable state.
LEMMA PoolInvariant == Spec => []PoolInv
<1>1. Init => PoolInv
  <2> SUFFICES ASSUME Init PROVE PoolInv
    OBVIOUS
  <2>1. InSlot = {} /\ running = 0 /\ queue = <<>>
    BY DEF Init, InSlot, PoolPlaces
  <2>2. QED
    BY <2>1, FS_EmptySet, FleetAssumption DEF PoolInv, PoolAccounting, NoStrandedQueue
<1>2. QED
  BY <1>1, RunsInvariant, PoolStep, PTL DEF Spec

\* Pool.running is the number of tasks that hold a slot, on every path through
\* run_one, and never passes MAX_CONCURRENT.
THEOREM PoolCountsItsSlots == Spec => []PoolAccounting
  BY PoolInvariant, PTL DEF PoolInv

\* While a child waits, some task will pump again or is pumping.
THEOREM QueueIsNeverStranded == Spec => []NoStrandedQueue
  BY PoolInvariant, PTL DEF PoolInv
-----------------------------------------------------------------------------
(*************************** leads and their rows **************************)

\* The lead of a foreground child that has started waits on it.
Awaited(c) ==
    kind[c] = "fore" /\ pc[c] \notin {"new", "opened", "lost", "gone"} =>
        /\ parent[c] \in live
        /\ pc[parent[c]] = "joining"
        /\ c \in InKids(parent[c])

LeadInv == \A c \in Runs : Awaited(c)

\* Every step keeps a lead waiting on the foreground children it started.
LEMMA LeadStep == RunsInv /\ LeadInv /\ [Next]_vars => LeadInv'
<1> SUFFICES ASSUME RunsInv, LeadInv, [Next]_vars, NEW c \in Runs PROVE Awaited(c)'
  BY DEF LeadInv
<1>types. /\ pc \in [Runs -> Places] /\ kind \in [Runs -> {"root", "fore", "back"}]
          /\ kids \in [Runs -> Seq(Runs)] /\ parent \in [Runs -> Runs \cup {NoRun}]
          /\ live \subseteq Runs /\ queue \in Seq(Runs)
  BY DEF RunsInv, TypeOK
<1>inv. /\ \A d \in Runs : PlaceInv(d)
        /\ \A d \in Runs : CallInv(d)
        /\ Awaited(c)
  BY DEF RunsInv, LeadInv
<1>1. ASSUME NEW r \in Runs, NEW d \in Runs, OpenChild(r, d) PROVE Awaited(c)'
  BY <1>types, <1>inv, <1>1 DEF OpenChild, Fresh, Awaited, InKids, PlaceInv, Working
<1>2. ASSUME NEW r \in Runs, OpenRoot(r) PROVE Awaited(c)'
  BY <1>types, <1>inv, <1>2 DEF OpenRoot, Fresh, Awaited, InKids, PlaceInv, Working, callVars
<1>3. ASSUME NEW r \in Runs, CloseRoot(r) PROVE Awaited(c)'
  BY <1>types, <1>inv, <1>3 DEF CloseRoot, Awaited, InKids, PlaceInv, Working, callVars
<1>4. ASSUME NEW r \in Runs, DelegateBegin(r) PROVE Awaited(c)'
  BY <1>types, <1>inv, <1>4 DEF DelegateBegin, Awaited, InKids, PlaceInv, Working, runVars
<1>5. ASSUME NEW r \in Runs, OpenFails(r) PROVE Awaited(c)'
  <2>1. pc[r] = "opening" /\ \A d \in InKids(r) : pc[d] = "opened"
    BY <1>types, <1>inv, <1>5 DEF OpenFails, CallInv, InKids
  <2>2. \A d \in Runs : pc[d] = "joining" => pc'[d] = "joining" /\ InKids(d)' = InKids(d)
    BY <1>types, <1>5, <2>1 DEF OpenFails, InKids
  <2>3. pc[c] \in {"new", "opened", "lost", "gone"} => pc'[c] \in {"new", "opened", "lost", "gone"}
    BY <1>types, <1>5, <2>1 DEF OpenFails
  <2>4. UNCHANGED <<kind, parent, live>>
    BY <1>5 DEF OpenFails, runVars
  <2>5. QED
    BY <1>types, <1>inv, <2>2, <2>3, <2>4 DEF Awaited
<1>6. ASSUME NEW r \in Runs, RunTogether(r) PROVE Awaited(c)'
  <2>1. pc[r] = "opening" /\ \A d \in InKids(r) : pc[d] = "opened" /\ parent[d] = r
    BY <1>types, <1>inv, <1>6 DEF RunTogether, CallInv, InKids
  <2>2. \A d \in Runs : pc[d] = "joining" => pc'[d] = "joining"
    BY <1>types, <1>6, <2>1 DEF RunTogether
  <2>3. r \in live /\ pc'[r] = "joining"
    BY <1>types, <1>inv, <1>6, <2>1 DEF RunTogether, PlaceInv, Working
  <2>4. UNCHANGED <<kind, parent, live>> /\ \A d : InKids(d)' = InKids(d)
    BY <1>6 DEF RunTogether, InKids, runVars, callVars
  <2>5. CASE c \in InKids(r)
    BY <2>1, <2>3, <2>4, <2>5 DEF Awaited
  <2>6. CASE c \notin InKids(r)
    <3>1. pc[c] \in {"new", "opened", "lost", "gone"} => pc'[c] = pc[c]
      BY <1>types, <1>6, <2>1, <2>6 DEF RunTogether
    <3>2. QED
      BY <1>types, <1>inv, <2>2, <2>4, <3>1 DEF Awaited
  <2>7. QED
    BY <2>5, <2>6
<1>7. ASSUME NEW r \in Runs, Return(r) PROVE Awaited(c)'
  BY <1>types, <1>inv, <1>7 DEF Return, Awaited, InKids, PlaceInv, Working, runVars, callVars
<1>8. ASSUME NEW r \in Runs, ReportBack(r) PROVE Awaited(c)'
  <2>1. pc[r] = "joining" /\ \A d \in InKids(r) : pc[d] = "returned" /\ parent[d] = r
    BY <1>types, <1>inv, <1>8 DEF ReportBack, CallInv, InKids
  <2>2. \A d \in Runs \ {r} : /\ pc[d] = "joining" => pc'[d] = "joining" /\ (d \in live => d \in live')
                              /\ InKids(d)' = InKids(d)
    BY <1>types, <1>8, <2>1 DEF ReportBack, InKids
  <2>3. c \in InKids(r) => pc'[c] = "gone"
    BY <1>types, <1>8, <2>1 DEF ReportBack
  <2>4. UNCHANGED <<kind, parent>>
    BY <1>8 DEF ReportBack
  <2>5. c \notin InKids(r) /\ pc[c] \in {"new", "opened", "lost", "gone"} => pc'[c] = pc[c]
    BY <1>types, <1>8, <2>1 DEF ReportBack
  <2>6. QED
    BY <1>types, <1>inv, <2>2, <2>3, <2>4, <2>5 DEF Awaited
<1>9. ASSUME NEW r \in Runs, Submit(r) PROVE Awaited(c)'
  <2>1. pc[r] = "opening" /\ \A d \in InKids(r) : pc[d] = "opened" /\ kind[d] = "back"
    BY <1>types, <1>inv, <1>9 DEF Submit, CallInv, InKids
  <2>2. \A d \in Runs : pc[d] = "joining" => pc'[d] = "joining" /\ InKids(d)' = InKids(d)
    <3> SUFFICES ASSUME NEW d \in Runs, pc[d] = "joining"
                 PROVE  pc'[d] = "joining" /\ kids'[d] = kids[d]
      BY DEF InKids
    <3>1. d # r /\ d \notin InKids(r)
      BY <2>1
    <3>2. QED
      BY <1>types, <1>9, <3>1 DEF Submit
  <2>3. UNCHANGED <<kind, parent, live>>
    BY <1>9 DEF Submit, runVars
  <2>4. c \notin InKids(r) /\ pc[c] \in {"new", "opened", "lost", "gone"} => pc'[c] = pc[c]
    BY <1>types, <1>9, <2>1 DEF Submit
  <2>5. QED
    BY <1>types, <1>inv, <2>1, <2>2, <2>3, <2>4 DEF Awaited
<1>10. ASSUME NEW r \in Runs, CollectBegin(r) PROVE Awaited(c)'
  BY <1>types, <1>inv, <1>10 DEF CollectBegin, Awaited, InKids, PlaceInv, Working, runVars,
     callVars
<1>11. ASSUME NEW r \in Runs, CollectEnd(r) PROVE Awaited(c)'
  BY <1>types, <1>inv, <1>11 DEF CollectEnd, Awaited, InKids, PlaceInv, Working, runVars, callVars
<1>12. ASSUME NEW r \in Runs, CollectTimeout(r) PROVE Awaited(c)'
  BY <1>types, <1>inv, <1>12 DEF CollectTimeout, Awaited, InKids, PlaceInv, Working, runVars,
     callVars
<1>13. ASSUME NEW r \in Runs, PumpTake(r) PROVE Awaited(c)'
  BY <1>types, <1>inv, <1>13 DEF PumpTake, CanTake, QueueInv, RunsInv, Awaited, InKids, PlaceInv,
     Working, runVars, callVars
<1>14. ASSUME NEW r \in Runs, PumpDone(r) PROVE Awaited(c)'
  BY <1>types, <1>inv, <1>14 DEF PumpDone, Awaited, InKids, PlaceInv, Working, runVars, callVars
<1>15. ASSUME NEW r \in Runs, RunOneSkip(r) PROVE Awaited(c)'
  BY <1>types, <1>inv, <1>15 DEF RunOneSkip, Awaited, InKids, PlaceInv, Working, callVars
<1>16. ASSUME NEW r \in Runs, RunOneStart(r) PROVE Awaited(c)'
  BY <1>types, <1>inv, <1>16 DEF RunOneStart, Awaited, InKids, PlaceInv, Working, runVars,
     callVars
<1>17. ASSUME NEW r \in Runs, RunOneSettle(r) PROVE Awaited(c)'
  BY <1>types, <1>inv, <1>17 DEF RunOneSettle, Awaited, InKids, PlaceInv, Working, callVars
<1>18. ASSUME NEW r \in Runs, Release(r) PROVE Awaited(c)'
  BY <1>types, <1>inv, <1>18 DEF Release, Awaited, InKids, PlaceInv, Working, runVars, callVars
<1>19. ASSUME (\E r \in Runs : StopRun(r) \/ WalkPop(r)) \/ WalkChildren \/ CancelAll \/ Boot
             \/ UNCHANGED vars
      PROVE  Awaited(c)'
  BY <1>inv, <1>19 DEF StopRun, WalkPop, WalkChildren, CancelAll, Boot, Awaited, InKids, vars,
     runVars, callVars
<1>20. ASSUME Crash PROVE Awaited(c)'
  BY <1>types, <1>20 DEF Crash, Awaited
<1>21. QED
  BY <1>1, <1>2, <1>3, <1>4, <1>5, <1>6, <1>7, <1>8, <1>9, <1>10, <1>11, <1>12, <1>13, <1>14,
     <1>15, <1>16, <1>17, <1>18, <1>19, <1>20 DEF Next, RunStep

\* A foreground child runs only inside its lead's delegate call.
THEOREM LeadsWait == Spec => []LeadWaits
<1>1. Init => LeadInv
  BY DEF Init, LeadInv, Awaited
<1>2. LeadInv => LeadWaits
  BY DEF LeadInv, Awaited, LeadWaits
<1>3. QED
  BY <1>1, <1>2, RunsInvariant, LeadStep, PTL DEF Spec
-----------------------------------------------------------------------------
(********************* who has an unfinished child in hand ******************)

\* A child that was opened and not yet handed over is in the call that opened
\* it, and one that waits in the queue is in the queue.
Held(c) ==
    /\ pc[c] = "opened" => c \in InKids(parent[c]) /\ parent[c] \in Runs
    /\ pc[c] = "queued" => \E i \in DOMAIN queue : queue[i] = c

HeldInv == \A c \in Runs : Held(c)

\* What is appended to a sequence, and what was in it, is in the result.
LEMMA InConcat ==
    ASSUME NEW S, NEW s \in Seq(S), NEW t \in Seq(S)
    PROVE  /\ \A i \in DOMAIN s : i \in DOMAIN (s \o t) /\ (s \o t)[i] = s[i]
           /\ \A i \in DOMAIN t : Len(s) + i \in DOMAIN (s \o t) /\ (s \o t)[Len(s) + i] = t[i]
  OBVIOUS

\* All but the head of a sequence is in its tail.
LEMMA InTail ==
    ASSUME NEW S, NEW s \in Seq(S), s # <<>>, NEW i \in DOMAIN s, i # 1
    PROVE  i - 1 \in DOMAIN Tail(s) /\ Tail(s)[i - 1] = s[i]
  OBVIOUS

\* Every step keeps the opened children in their calls, the waiting in the queue.
LEMMA HeldStep == RunsInv /\ HeldInv /\ [Next]_vars => HeldInv'
<1> SUFFICES ASSUME RunsInv, HeldInv, [Next]_vars, NEW c \in Runs PROVE Held(c)'
  BY DEF HeldInv
<1>types. /\ pc \in [Runs -> Places] /\ kids \in [Runs -> Seq(Runs)]
          /\ parent \in [Runs -> Runs \cup {NoRun}] /\ queue \in Seq(Runs)
  BY DEF RunsInv, TypeOK
<1>inv. /\ \A d \in Runs : CallInv(d)
        /\ Held(c)
        /\ QueueInv
  BY DEF RunsInv, HeldInv
<1>kept. ASSUME UNCHANGED <<kids, parent, queue>>,
                pc'[c] \in {"opened", "queued"} => pc'[c] = pc[c]
         PROVE  Held(c)'
  BY <1>inv, <1>kept DEF Held, InKids
<1>opened. \A r \in Runs : pc[r] = "opening" => \A d \in InKids(r) : d \in Runs /\ pc[d] = "opened" /\ parent[d] = r
  <2> SUFFICES ASSUME NEW r \in Runs, pc[r] = "opening", NEW i \in DOMAIN kids[r]
               PROVE  kids[r][i] \in Runs /\ pc[kids[r][i]] = "opened" /\ parent[kids[r][i]] = r
    BY DEF InKids
  <2>1. QED
    BY <1>types, <1>inv DEF CallInv
<1>1. ASSUME NEW r \in Runs, NEW d \in Runs, OpenChild(r, d) PROVE Held(c)'
  <2>1. /\ kids' = [kids EXCEPT ![r] = Append(@, d)] /\ parent' = [parent EXCEPT ![d] = r]
        /\ pc' = [pc EXCEPT ![d] = "opened"] /\ queue' = queue
    BY <1>1 DEF OpenChild, poolVars
  <2>2. kids'[r] = kids[r] \o <<d>> /\ kids[r] \in Seq(Runs) /\ <<d>> \in Seq(Runs)
    BY <1>types, <2>1
  <2>3. \A e \in Runs : InKids(e) \subseteq InKids(e)'
    <3> SUFFICES ASSUME NEW e \in Runs, NEW i \in DOMAIN kids[e]
                 PROVE  i \in DOMAIN kids'[e] /\ kids'[e][i] = kids[e][i]
      BY DEF InKids
    <3>1. CASE e = r
      BY <2>2, <3>1, InConcat
    <3>2. CASE e # r
      BY <1>types, <2>1, <3>2
    <3>3. QED
      BY <3>1, <3>2
  <2>4. CASE c = d
    <3>1. 1 \in DOMAIN <<d>> /\ <<d>>[1] = d
      OBVIOUS
    <3>2. Len(kids[r]) + 1 \in DOMAIN kids'[r] /\ kids'[r][Len(kids[r]) + 1] = d
      BY <2>2, <3>1, InConcat
    <3>3. parent'[c] = r /\ pc'[c] = "opened"
      BY <1>types, <2>1, <2>4
    <3>4. QED
      BY <2>4, <3>2, <3>3 DEF Held, InKids
  <2>5. CASE c # d
    <3>1. parent'[c] = parent[c] /\ pc'[c] = pc[c]
      BY <1>types, <2>1, <2>5
    <3>2. QED
      BY <1>inv, <2>1, <2>3, <3>1 DEF Held
  <2>6. QED
    BY <2>4, <2>5
<1>2. ASSUME NEW r \in Runs, DelegateBegin(r) PROVE Held(c)'
  <2>1. /\ kids' = [kids EXCEPT ![r] = <<>>] /\ UNCHANGED <<parent, queue>>
        /\ pc' = [pc EXCEPT ![r] = "opening"] /\ pc[r] = "loop"
    BY <1>2 DEF DelegateBegin, runVars, poolVars
  <2>2. DOMAIN kids[r] = {}
    BY <1>inv, <2>1 DEF CallInv
  <2>3. InKids(r) = {} /\ \A e \in Runs : e # r => InKids(e)' = InKids(e)
    BY <1>types, <2>1, <2>2 DEF InKids
  <2>4. pc'[c] \in {"opened", "queued"} => pc'[c] = pc[c]
    BY <1>types, <2>1
  <2>5. QED
    BY <1>inv, <2>1, <2>3, <2>4 DEF Held
<1>3. ASSUME NEW r \in Runs, OpenFails(r) PROVE Held(c)'
  <2>1. /\ UNCHANGED <<parent, queue>> /\ pc[r] = "opening"
        /\ pc'[c] = IF c = r THEN "loop" ELSE IF c \in InKids(r) THEN "lost" ELSE pc[c]
    BY <1>3 DEF OpenFails, runVars, poolVars
  <2>2. \A e \in Runs : e # r => InKids(e)' = InKids(e)
    BY <1>types, <1>3 DEF OpenFails, InKids
  <2>3. pc'[c] \in {"opened", "queued"} => pc'[c] = pc[c] /\ c \notin InKids(r)
    BY <2>1
  <2>4. QED
    BY <1>inv, <2>1, <2>2, <2>3 DEF Held
<1>4. ASSUME NEW r \in Runs, RunTogether(r) PROVE Held(c)'
  BY <1>kept, <1>4 DEF RunTogether, runVars, callVars, poolVars
<1>5. ASSUME NEW r \in Runs, ReportBack(r) PROVE Held(c)'
  <2>1. /\ UNCHANGED <<parent, queue>> /\ pc[r] = "joining"
        /\ pc'[c] = IF c = r THEN "loop" ELSE IF c \in InKids(r) THEN "gone" ELSE pc[c]
    BY <1>5 DEF ReportBack, poolVars
  <2>2. \A e \in Runs : e # r => InKids(e)' = InKids(e)
    BY <1>types, <1>5 DEF ReportBack, InKids
  <2>3. pc'[c] \in {"opened", "queued"} => pc'[c] = pc[c] /\ c \notin InKids(r)
    BY <2>1
  <2>4. QED
    BY <1>inv, <2>1, <2>2, <2>3 DEF Held
<1>6. ASSUME NEW r \in Runs, Submit(r) PROVE Held(c)'
  <2>1. /\ parent' = parent /\ pc[r] = "opening" /\ queue' = queue \o kids[r]
        /\ pc'[c] = IF c = r THEN "pumping" ELSE IF c \in InKids(r) THEN "queued" ELSE pc[c]
    BY <1>6 DEF Submit, runVars
  <2>2. \A e \in Runs : e # r => InKids(e)' = InKids(e)
    BY <1>types, <1>6 DEF Submit, InKids
  <2>3. /\ \A i \in DOMAIN queue : i \in DOMAIN queue' /\ queue'[i] = queue[i]
        /\ \A i \in DOMAIN kids[r] : Len(queue) + i \in DOMAIN queue'
                                     /\ queue'[Len(queue) + i] = kids[r][i]
    <3> DEFINE t == kids[r]
    <3>1. t \in Seq(Runs) /\ queue \in Seq(Runs) /\ queue' = queue \o t
      BY <1>types, <2>1
    <3> HIDE DEF t
    <3>2. /\ \A i \in DOMAIN queue : i \in DOMAIN queue' /\ queue'[i] = queue[i]
          /\ \A i \in DOMAIN t : Len(queue) + i \in DOMAIN queue' /\ queue'[Len(queue) + i] = t[i]
      BY <3>1, InConcat
    <3>3. QED
      BY <3>2 DEF t
  <2>4. c \in InKids(r) => \E i \in DOMAIN queue' : queue'[i] = c
    BY <2>3 DEF InKids
  <2>5. pc'[c] = "opened" => pc[c] = "opened" /\ c \notin InKids(r)
    BY <2>1
  <2>6. pc'[c] = "queued" => c \in InKids(r) \/ pc[c] = "queued"
    BY <2>1
  <2>7. QED
    BY <1>inv, <2>1, <2>2, <2>3, <2>4, <2>5, <2>6 DEF Held
<1>7. ASSUME NEW r \in Runs, PumpTake(r) PROVE Held(c)'
  <2>1. /\ UNCHANGED <<parent, kids>> /\ queue' = Tail(queue) /\ queue # <<>>
        /\ pc' = [pc EXCEPT ![Head(queue)] = "popped"]
    BY <1>7 DEF PumpTake, CanTake, runVars, callVars
  <2>2. Head(queue) = queue[1]
    BY <1>types
  <2>3. pc'[c] \in {"opened", "queued"} => pc'[c] = pc[c] /\ c # queue[1]
    BY <1>types, <2>1, <2>2
  <2>4. ASSUME NEW i \in DOMAIN queue, queue[i] = c, c # queue[1]
        PROVE  \E k \in DOMAIN queue' : queue'[k] = c
    BY <1>types, <2>1, <2>4, InTail
  <2>5. QED
    BY <1>inv, <2>1, <2>3, <2>4 DEF Held, InKids
<1>8. ASSUME NEW r \in Runs,
             \/ OpenRoot(r) \/ CloseRoot(r) \/ Return(r) \/ CollectBegin(r) \/ CollectEnd(r)
             \/ CollectTimeout(r) \/ PumpDone(r) \/ RunOneSkip(r) \/ RunOneStart(r)
             \/ RunOneSettle(r) \/ Release(r)
      PROVE  Held(c)'
  <2>1. UNCHANGED <<kids, parent, queue>>
    BY <1>8 DEF OpenRoot, CloseRoot, Return, CollectBegin, CollectEnd, CollectTimeout, PumpDone,
       RunOneSkip, RunOneStart, RunOneSettle, Release, runVars, callVars, poolVars
  <2>2. \E v : pc' = [pc EXCEPT ![r] = v] /\ v \notin {"opened", "queued"}
    BY <1>8 DEF OpenRoot, CloseRoot, Return, CollectBegin, CollectEnd, CollectTimeout, PumpDone,
       RunOneSkip, RunOneStart, RunOneSettle, Release
  <2>3. QED
    BY <1>kept, <1>types, <2>1, <2>2
<1>9. ASSUME (\E r \in Runs : StopRun(r) \/ WalkPop(r)) \/ WalkChildren \/ CancelAll \/ Boot
             \/ UNCHANGED vars
      PROVE  Held(c)'
  BY <1>kept, <1>9 DEF StopRun, WalkPop, WalkChildren, CancelAll, Boot, vars, runVars, callVars,
     poolVars
<1>10. ASSUME Crash PROVE Held(c)'
  BY <1>10 DEF Crash, Held
<1>11. QED
  BY <1>1, <1>2, <1>3, <1>4, <1>5, <1>6, <1>7, <1>8, <1>9, <1>10 DEF Next, RunStep

\* db/mod.rs: an unfinished row "means a child that is genuinely still working":
\* it has a handle, and the call that opened it, the queue or the task in its
\* slot will settle it, across every way a run ends and every restart; but for
\* the children a failed opening leaves behind.
THEOREM RowsMatchHandles == Spec => []RowMatchesHandle
<1>1. Init => LeadInv /\ HeldInv
  BY DEF Init, LeadInv, Awaited, HeldInv, Held
<1>2. RunsInv /\ LeadInv /\ HeldInv => RowMatchesHandle
  <2> SUFFICES ASSUME RunsInv, LeadInv, HeldInv, up, NEW c \in Runs, kind[c] # "root"
               PROVE  /\ c \in live <=> row[c] \in Unfinished
                      /\ row[c] \in Unfinished => Attended(c) \/ pc[c] = "lost"
    BY DEF RowMatchesHandle
  <2>1. pc[c] \in Places /\ kind[c] \in {"root", "fore", "back"} /\ PlaceInv(c)
    BY DEF RunsInv, TypeOK
  <2>2. c \in live <=> row[c] \in Unfinished
    BY <2>1 DEF PlaceInv, Places, Working, Unfinished
  <2>3. ASSUME c \in live, pc[c] # "lost" PROVE Attended(c)
    <3>1. CASE pc[c] \in {"opened", "queued"}
      BY <3>1 DEF HeldInv, Held, Attended
    <3>2. CASE kind[c] = "fore" /\ pc[c] # "opened"
      BY <2>1, <2>3, <3>2 DEF PlaceInv, LeadInv, Awaited, Attended
    <3>3. CASE kind[c] = "back" /\ pc[c] \notin {"opened", "queued"}
      BY <2>1, <2>3, <3>3 DEF PlaceInv, Places, PoolPlaces, InSlot, Attended
    <3>4. QED
      BY <2>1, <3>1, <3>2, <3>3
  <2>4. QED
    BY <2>2, <2>3
<1>3. QED
  BY <1>1, <1>2, RunsInvariant, LeadStep, HeldStep, PTL DEF Spec
-----------------------------------------------------------------------------
(*************************** the rows of the children **********************)

\* A step of Fleet is a step of ChildLife or leaves the rows alone.
LEMMA RowStep == RunsInv /\ [Next]_vars => [Life!Next]_row
<1> SUFFICES ASSUME RunsInv, [Next]_vars PROVE Life!Next \/ UNCHANGED row
  OBVIOUS
<1>types. /\ pc \in [Runs -> Places] /\ kind \in [Runs -> {"root", "fore", "back"}]
          /\ kids \in [Runs -> Seq(Runs)]
          /\ row \in [Runs -> {"none"} \cup Unfinished \cup Finished]
          /\ row' \in [Runs -> {"none"} \cup Unfinished \cup Finished]
          /\ outcome \in [Runs -> {"none"} \cup Finished]
  BY TypeStep DEF RunsInv, TypeOK
<1>inv. /\ \A c \in Runs : PlaceInv(c)
        /\ \A p \in Runs : CallInv(p)
  BY DEF RunsInv
<1>moves. ASSUME \A c \in Runs : \/ row'[c] = row[c]
                                 \/ row[c] = "none" /\ row'[c] = "running"
                                 \/ row[c] = "running" /\ row'[c] = "queued"
                                 \/ row[c] = "queued" /\ row'[c] \in {"running", "stopped"}
                                 \/ row[c] = "running" /\ row'[c] \in Finished
          PROVE  Life!Next
  BY <1>types, <1>moves DEF Life!Next, Life!Moves, Life!Unfinished, Life!Finished, Unfinished, Finished
<1>1. ASSUME NEW r \in Runs, NEW c \in Runs, OpenChild(r, c) PROVE Life!Next
  BY <1>types, <1>inv, <1>moves, <1>1 DEF OpenChild, Fresh, PlaceInv
<1>2. ASSUME NEW r \in Runs, ReportBack(r) PROVE Life!Next
  <2>1. \A c \in InKids(r) : pc[c] = "returned" /\ kind[c] = "fore" /\ c \in Runs
    BY <1>types, <1>inv, <1>2 DEF ReportBack, CallInv, InKids
  <2>2. QED
    BY <1>types, <1>inv, <1>moves, <1>2, <2>1 DEF ReportBack, PlaceInv, Working
<1>3. ASSUME NEW r \in Runs, Submit(r) PROVE Life!Next
  <2>1. \A c \in InKids(r) : pc[c] = "opened" /\ c \in Runs
    BY <1>types, <1>inv, <1>3 DEF Submit, CallInv, InKids
  <2>2. QED
    BY <1>types, <1>inv, <1>moves, <1>3, <2>1 DEF Submit, PlaceInv
<1>4. ASSUME NEW r \in Runs, RunOneSkip(r) \/ RunOneStart(r) PROVE Life!Next
  BY <1>types, <1>inv, <1>moves, <1>4 DEF RunOneSkip, RunOneStart, PlaceInv
<1>5. ASSUME NEW r \in Runs, RunOneSettle(r) PROVE Life!Next
  BY <1>types, <1>inv, <1>moves, <1>5 DEF RunOneSettle, PlaceInv, Working
<1>6. ASSUME Boot PROVE Life!Next
  BY <1>types, <1>moves, <1>6 DEF Boot, Unfinished, Finished
<1>7. ASSUME NEW r \in Runs,
             \/ OpenRoot(r) \/ CloseRoot(r) \/ DelegateBegin(r) \/ OpenFails(r) \/ RunTogether(r)
             \/ Return(r) \/ CollectBegin(r) \/ CollectEnd(r) \/ CollectTimeout(r)
             \/ PumpTake(r) \/ PumpDone(r) \/ Release(r) \/ StopRun(r) \/ WalkPop(r)
      PROVE  UNCHANGED row
  BY <1>7 DEF OpenRoot, CloseRoot, DelegateBegin, OpenFails, RunTogether, Return, CollectBegin,
     CollectEnd, CollectTimeout, PumpTake, PumpDone, Release, StopRun, WalkPop
<1>8. ASSUME WalkChildren \/ CancelAll \/ Crash \/ UNCHANGED vars PROVE UNCHANGED row
  BY <1>8 DEF WalkChildren, CancelAll, Crash, vars
<1>9. QED
  BY <1>1, <1>2, <1>3, <1>4, <1>5, <1>6, <1>7, <1>8 DEF Next, RunStep

\* The database's contract: a child's row is created running, may queue, and
\* ends once with a status that is then final, whoever settles it.
THEOREM ChildrenLiveTheirLife == Spec => ChildRowsFollowTheirLife
<1>1. Init => Life!Init
  BY DEF Init, Life!Init
<1>2. QED
  BY <1>1, RunsInvariant, RowStep, PTL DEF Spec, ChildRowsFollowTheirLife, Life!Spec
-----------------------------------------------------------------------------
(*************************** the caps of a delegate ************************)

\* What a delegate call has still to open is counted against the cap from the
\* moment it was let in, and only a call in progress has any.
Counted(p) ==
    /\ Cardinality(Children(p)) + left[p] <= MaxPerTurn
    /\ pc[p] # "opening" => left[p] = 0

\* Who is above a run: nobody above a turn, and without nesting one at most.
Lineage(p) ==
    /\ pc[p] = "new" => parent[p] = NoRun
    /\ kind[p] = "root" => line[p] = {}
    /\ ~AllowNested => /\ pc[p] = "opening" => kind[p] = "root"
                       /\ line[p] = {} \/ line[p] = {parent[p]}

CapInv == \A p \in Runs : Counted(p) /\ Lineage(p)

\* What a walk in progress still owes: every promised run that goes on
\* untripped is on the stack, or its lead is, or its lead was just popped.
WalkInv ==
    /\ \A q \in promised \cup walk.todo \cup walk.seen : pc[q] # "new"
    /\ walk.at # NoRun => pc[walk.at] # "new"
    /\ walk.todo \cap walk.seen = {}
    /\ \A q \in walk.seen : q \in live => cancelled[q]
    /\ \A q \in promised : q \in live /\ ~cancelled[q] =>
          \/ q \in walk.todo
          \/ parent[q] \in walk.todo
          \/ walk.at # NoRun /\ parent[q] = walk.at

\* The children of a run are finitely many.
LEMMA ChildrenFinite ==
    ASSUME NEW p
    PROVE  IsFiniteSet(Children(p)) /\ Cardinality(Children(p)) \in Nat
<1>1. IsFiniteSet(Runs)
  BY FleetAssumption, FS_Interval DEF Runs
<1>2. Children(p) \subseteq Runs
  BY DEF Children
<1>3. QED
  BY <1>1, <1>2, FS_Subset, FS_CardinalityType

\* A step that opens no child leaves every run's children as they were.
LEMMA SameChildren == ASSUME parent' = parent PROVE \A p : Children(p)' = Children(p)
  BY DEF Children

\* The steps at which a run neither enters nor leaves a call's opening of
\* children keep the caps.
LEMMA CapKept ==
    ASSUME RunsInv, CapInv, UNCHANGED <<parent, line, kind, left>>,
           \A p \in Runs : pc'[p] = "new" => pc[p] = "new",
           \A p \in Runs : pc'[p] = "opening" <=> pc[p] = "opening"
    PROVE  CapInv'
<1>1. \A p : Children(p)' = Children(p)
  BY SameChildren
<1> SUFFICES ASSUME NEW p \in Runs PROVE Counted(p)' /\ Lineage(p)'
  BY DEF CapInv
<1>2. Counted(p)'
  BY <1>1 DEF CapInv, Counted
<1>3. Lineage(p)'
  BY DEF CapInv, Lineage
<1>4. QED
  BY <1>2, <1>3

\* Every step keeps delegate's caps.
LEMMA CapStep == RunsInv /\ CapInv /\ [Next]_vars => CapInv'
<1> SUFFICES ASSUME RunsInv, CapInv, [Next]_vars PROVE CapInv'
  OBVIOUS
<1>types. /\ pc \in [Runs -> Places] /\ kind \in [Runs -> {"root", "fore", "back"}]
          /\ kids \in [Runs -> Seq(Runs)] /\ parent \in [Runs -> Runs \cup {NoRun}]
          /\ left \in [Runs -> 0..MaxParallel] /\ line \in [Runs -> SUBSET Runs]
          /\ queue \in Seq(Runs)
  BY DEF RunsInv, TypeOK
<1>consts. MaxPerTurn \in Nat /\ MaxParallel \in Nat /\ NoRun \notin Runs
  BY FleetAssumption DEF Runs, NoRun
<1>inv. /\ \A d \in Runs : PlaceInv(d)
        /\ \A d \in Runs : CallInv(d)
        /\ \A d \in Runs : Counted(d) /\ Lineage(d)
        /\ QueueInv
  BY DEF RunsInv, CapInv
<1>sizes. \A d : Cardinality(Children(d)) \in Nat /\ IsFiniteSet(Children(d))
  BY ChildrenFinite
<1>1. ASSUME NEW r \in Runs, NEW c \in Runs, OpenChild(r, c) PROVE CapInv'
  <2>1. /\ pc[r] = "opening" /\ pc[c] = "new" /\ c # r /\ left[r] > 0
        /\ parent' = [parent EXCEPT ![c] = r] /\ left' = [left EXCEPT ![r] = @ - 1]
        /\ pc' = [pc EXCEPT ![c] = "opened"]
        /\ line' = [line EXCEPT ![c] = line[r] \cup {r}]
        /\ kind' = [kind EXCEPT ![c] = IF bg[r] THEN "back" ELSE "fore"]
    BY <1>1 DEF OpenChild, Fresh
  <2>2. parent[c] = NoRun
    BY <1>inv, <2>1 DEF Lineage
  <2>3. Children(r)' = Children(r) \cup {c} /\ c \notin Children(r)
    BY <1>types, <1>consts, <2>1, <2>2 DEF Children
  <2>4. \A d \in Runs : d # r => Children(d)' = Children(d)
    BY <1>types, <1>consts, <2>1, <2>2 DEF Children
  <2>5. Cardinality(Children(r)') = Cardinality(Children(r)) + 1
    BY <1>sizes, <2>3, FS_AddElement
  <2>6. ASSUME NEW d \in Runs PROVE Counted(d)'
    <3>1. CASE d = r
      <4>1. left'[r] = left[r] - 1 /\ pc'[r] = "opening" /\ left[r] \in Nat
        BY <1>types, <2>1
      <4>2. Cardinality(Children(r)) + left[r] <= MaxPerTurn
        BY <1>inv DEF Counted
      <4>3. Cardinality(Children(r)') + left'[r] <= MaxPerTurn
        BY <1>sizes, <1>consts, <2>5, <4>1, <4>2
      <4>4. QED
        BY <3>1, <4>1, <4>3 DEF Counted
    <3>2. CASE d # r
      <4>1. Children(d)' = Children(d) /\ left'[d] = left[d]
            /\ (pc[d] = "opening" => pc'[d] = "opening")
        BY <1>types, <2>1, <2>4, <3>2
      <4>2. QED
        BY <1>inv, <4>1 DEF Counted
    <3>3. QED
      BY <3>1, <3>2
  <2>7. ASSUME NEW d \in Runs PROVE Lineage(d)'
    BY <1>types, <1>inv, <2>1 DEF Lineage
  <2>8. QED
    BY <2>6, <2>7 DEF CapInv
<1>2. ASSUME NEW r \in Runs, DelegateBegin(r) PROVE CapInv'
  <2>1. PICK n \in 1..MaxParallel : n <= Room(r) /\ left' = [left EXCEPT ![r] = n]
    BY <1>2 DEF DelegateBegin
  <2>2. /\ UNCHANGED <<parent, line, kind>> /\ pc' = [pc EXCEPT ![r] = "opening"]
        /\ MayDelegate(r)
    BY <1>2 DEF DelegateBegin, runVars
  <2>3. \A d : Children(d)' = Children(d)
    BY <2>2, SameChildren
  <2>4. Cardinality(Children(r)) + n <= MaxPerTurn
    BY <1>sizes, <1>consts, <2>1 DEF Room
  <2>5. ASSUME NEW d \in Runs PROVE Counted(d)'
    BY <1>types, <1>inv, <2>1, <2>2, <2>3, <2>4 DEF Counted
  <2>6. ASSUME NEW d \in Runs PROVE Lineage(d)'
    BY <1>types, <1>inv, <2>2 DEF Lineage, MayDelegate
  <2>7. QED
    BY <2>5, <2>6 DEF CapInv
<1>3. ASSUME NEW r \in Runs, OpenFails(r) PROVE CapInv'
  <2>0. pc[r] = "opening" /\ \A c \in InKids(r) : pc[c] = "opened"
    BY <1>types, <1>inv, <1>3 DEF OpenFails, CallInv, InKids
  <2>1. /\ UNCHANGED <<parent, line, kind>>
        /\ \A d \in Runs : /\ pc'[d] = "new" => pc[d] = "new"
                           /\ pc'[d] = "opening" <=> pc[d] = "opening" /\ d # r
        /\ left' = [left EXCEPT ![r] = 0]
    BY <1>types, <1>3, <2>0 DEF OpenFails, runVars
  <2>2. \A d : Children(d)' = Children(d)
    BY <2>1, SameChildren
  <2>3. ASSUME NEW d \in Runs PROVE Counted(d)'
    <3>1. (left'[d] = left[d] /\ (pc[d] = "opening" => pc'[d] = "opening")) \/ left'[d] = 0
      BY <1>types, <2>1
    <3>2. Cardinality(Children(d)) + left[d] <= MaxPerTurn /\ left[d] \in Nat
      BY <1>types, <1>inv DEF Counted
    <3>3. Cardinality(Children(d)) + left'[d] <= MaxPerTurn
      BY <1>sizes, <1>consts, <3>1, <3>2
    <3>4. QED
      BY <1>inv, <2>2, <3>1, <3>3 DEF Counted
  <2>4. ASSUME NEW d \in Runs PROVE Lineage(d)'
    BY <1>types, <1>inv, <2>1 DEF Lineage
  <2>5. QED
    BY <2>3, <2>4 DEF CapInv
<1>4. ASSUME NEW r \in Runs, RunTogether(r) \/ Submit(r) PROVE CapInv'
  <2>1. UNCHANGED <<parent, line, kind, left>> /\ pc[r] = "opening" /\ left[r] = 0
    BY <1>4 DEF RunTogether, Submit, runVars, callVars
  <2>2. \A d : Children(d)' = Children(d)
    BY <2>1, SameChildren
  <2>3. \A d \in Runs : /\ pc'[d] = "new" => pc[d] = "new"
                        /\ pc'[d] = "opening" => pc[d] = "opening"
                        /\ pc[d] = "opening" => pc'[d] = "opening" \/ left[d] = 0
    <3>1. \A c \in InKids(r) : pc[c] = "opened"
      BY <1>types, <1>inv, <2>1 DEF CallInv, InKids
    <3>2. CASE RunTogether(r)
      BY <1>types, <2>1, <3>1, <3>2 DEF RunTogether
    <3>3. CASE Submit(r)
      BY <1>types, <2>1, <3>1, <3>3 DEF Submit
    <3>4. QED
      BY <1>4, <3>2, <3>3
  <2>4. ASSUME NEW d \in Runs PROVE Counted(d)'
    BY <1>inv, <2>1, <2>2, <2>3 DEF Counted
  <2>5. ASSUME NEW d \in Runs PROVE Lineage(d)'
    BY <1>inv, <2>1, <2>3 DEF Lineage
  <2>6. QED
    BY <2>4, <2>5 DEF CapInv
<1>5. ASSUME Crash PROVE CapInv'
  <2>1. UNCHANGED <<parent, line, kind>> /\ \A d \in Runs : left'[d] = 0 /\ pc'[d] # "opening"
        /\ (pc'[d] = "new" => pc[d] = "new")
    BY <1>5 DEF Crash
  <2>2. \A d : Children(d)' = Children(d)
    BY <2>1, SameChildren
  <2>3. ASSUME NEW d \in Runs PROVE Counted(d)'
    <3>1. Cardinality(Children(d)) + left[d] <= MaxPerTurn /\ left[d] \in Nat
      BY <1>types, <1>inv DEF Counted
    <3>2. Cardinality(Children(d)) + 0 <= MaxPerTurn
      BY <1>sizes, <1>consts, <3>1
    <3>3. QED
      BY <2>1, <2>2, <3>2 DEF Counted
  <2>4. ASSUME NEW d \in Runs PROVE Lineage(d)'
    BY <1>inv, <2>1 DEF Lineage
  <2>5. QED
    BY <2>3, <2>4 DEF CapInv
<1>6. ASSUME NEW r \in Runs, OpenRoot(r) \/ CloseRoot(r) \/ Return(r) \/ CollectBegin(r)
             \/ CollectEnd(r) \/ CollectTimeout(r) \/ PumpDone(r) \/ RunOneSkip(r)
             \/ RunOneStart(r) \/ RunOneSettle(r) \/ Release(r)
      PROVE  CapInv'
  <2>1. UNCHANGED <<parent, line, kind, left>>
    BY <1>6 DEF OpenRoot, CloseRoot, Return, CollectBegin, CollectEnd, CollectTimeout, PumpDone,
       RunOneSkip, RunOneStart, RunOneSettle, Release, runVars, callVars
  <2>2. /\ pc[r] # "opening"
        /\ \E v : pc' = [pc EXCEPT ![r] = v] /\ v # "new" /\ v # "opening"
    BY <1>6 DEF OpenRoot, Fresh, CloseRoot, Return, CollectBegin, CollectEnd, CollectTimeout,
       PumpDone, RunOneSkip, RunOneStart, RunOneSettle, Release
  <2>3. QED
    BY <1>types, <2>1, <2>2, CapKept
<1>7. ASSUME NEW r \in Runs, PumpTake(r) PROVE CapInv'
  <2>1. UNCHANGED <<parent, line, kind, left>> /\ pc' = [pc EXCEPT ![Head(queue)] = "popped"]
    BY <1>7 DEF PumpTake, runVars, callVars
  <2>2. Head(queue) \in Runs /\ pc[Head(queue)] = "queued"
    BY <1>types, <1>inv, <1>7 DEF PumpTake, CanTake, QueueInv
  <2>3. QED
    BY <1>types, <2>1, <2>2, CapKept
<1>8. ASSUME NEW r \in Runs, ReportBack(r) PROVE CapInv'
  <2>1. UNCHANGED <<parent, line, kind, left>> /\ pc[r] = "joining"
    BY <1>8 DEF ReportBack
  <2>2. \A d \in Runs : /\ pc'[d] = "new" => pc[d] = "new"
                        /\ pc'[d] = "opening" <=> pc[d] = "opening"
    BY <1>types, <1>8, <2>1 DEF ReportBack
  <2>3. QED
    BY <2>1, <2>2, CapKept
<1>9. ASSUME (\E r \in Runs : StopRun(r) \/ WalkPop(r)) \/ WalkChildren \/ CancelAll \/ Boot
             \/ UNCHANGED vars
      PROVE  CapInv'
  <2>1. UNCHANGED <<parent, line, kind, left, pc>>
    BY <1>9 DEF StopRun, WalkPop, WalkChildren, CancelAll, Boot, vars, runVars, callVars
  <2>2. QED
    BY <2>1, CapKept
<1>10. QED
  BY <1>1, <1>2, <1>3, <1>4, <1>5, <1>6, <1>7, <1>8, <1>9 DEF Next, RunStep

\* The caps hold in every reachable state.
LEMMA CapInvariant == Spec => []CapInv
<1>1. Init => CapInv
  <2> SUFFICES ASSUME Init, NEW p \in Runs PROVE Counted(p) /\ Lineage(p)
    BY DEF CapInv
  <2>1. Children(p) = {} /\ left[p] = 0
    BY DEF Init, Children, NoRun, Runs
  <2>2. QED
    BY <2>1, FS_EmptySet, FleetAssumption DEF Init, Counted, Lineage
<1>2. QED
  BY <1>1, RunsInvariant, CapStep, PTL DEF Spec

\* delegate's caps hold across any number of calls in a turn, failed openings,
\* crashes and children that have ended; without nesting nothing is started
\* below a child.
THEOREM DelegationIsBounded == Spec => []DelegationBounded
<1>1. RunsInv /\ CapInv => DelegationBounded
  <2> SUFFICES ASSUME RunsInv, CapInv, NEW p \in Runs
               PROVE  /\ Cardinality(Children(p)) <= MaxPerTurn
                      /\ ~AllowNested => Cardinality(line[p]) <= 1
    BY DEF DelegationBounded
  <2>1. Cardinality(Children(p)) <= MaxPerTurn
    <3>1. left[p] \in Nat /\ MaxPerTurn \in Nat /\ Cardinality(Children(p)) \in Nat
      BY FleetAssumption, ChildrenFinite DEF RunsInv, TypeOK
    <3>2. Cardinality(Children(p)) + left[p] <= MaxPerTurn
      BY DEF CapInv, Counted
    <3>3. QED
      BY <3>1, <3>2
  <2>2. ASSUME ~AllowNested PROVE Cardinality(line[p]) <= 1
    <3>1. CASE line[p] = {}
      BY <3>1, FS_EmptySet
    <3>2. CASE line[p] = {parent[p]}
      <4>1. Cardinality({parent[p]}) = 1
        BY FS_Singleton, Zenon
      <4>2. QED
        BY <3>2, <4>1
    <3>3. QED
      BY <2>2, <3>1, <3>2 DEF CapInv, Lineage
  <2>3. QED
    BY <2>1, <2>2
<1>2. QED
  BY <1>1, RunsInvariant, CapInvariant, PTL
-----------------------------------------------------------------------------
(********************************* the walk ********************************)

\* A step that leaves the walk alone, brings no run that had ended back, opens
\* only new ones and untrips no run that goes on, keeps what the walk owes.
LEMMA WalkKept ==
    ASSUME RunsInv, WalkInv, UNCHANGED <<walk, promised>>,
           \A q \in Runs : pc[q] # "new" => pc'[q] # "new",
           \A q \in Runs : pc[q] # "new" /\ q \in live' => q \in live,
           \A q \in Runs : pc[q] # "new" => parent'[q] = parent[q],
           \A q \in Runs : q \in live' /\ cancelled[q] => cancelled'[q]
    PROVE  WalkInv'
<1>1. /\ promised \subseteq Runs /\ walk.todo \subseteq Runs /\ walk.seen \subseteq Runs
      /\ walk.at \in Runs \cup {NoRun}
  BY DEF RunsInv, TypeOK
<1>2. \A q \in promised \cup walk.todo \cup walk.seen : pc'[q] # "new"
  BY <1>1 DEF WalkInv
<1>3. walk.at # NoRun => pc'[walk.at] # "new"
  BY <1>1 DEF WalkInv
<1>4. \A q \in walk.seen : q \in live' => cancelled'[q]
  BY <1>1 DEF WalkInv
<1>5. \A q \in promised : q \in live' /\ ~cancelled'[q] =>
          \/ q \in walk.todo
          \/ parent'[q] \in walk.todo
          \/ walk.at # NoRun /\ parent'[q] = walk.at
  <2> SUFFICES ASSUME NEW q \in promised, q \in live', ~cancelled'[q]
               PROVE  \/ q \in walk.todo
                      \/ parent'[q] \in walk.todo
                      \/ walk.at # NoRun /\ parent'[q] = walk.at
    OBVIOUS
  <2>1. q \in Runs /\ pc[q] # "new"
    BY <1>1 DEF WalkInv
  <2>2. q \in live /\ ~cancelled[q] /\ parent'[q] = parent[q]
    BY <2>1
  <2>3. QED
    BY <2>2 DEF WalkInv
<1>6. QED
  BY <1>2, <1>3, <1>4, <1>5 DEF WalkInv

\* A run that is live has been opened.
LEMMA LiveIsOpened == RunsInv => \A q \in live : q \in Runs /\ pc[q] # "new"
  BY DEF RunsInv, TypeOK, PlaceInv

\* Without nesting, every step keeps what a walk owes.
LEMMA WalkStep ==
    ASSUME ~AllowNested
    PROVE  RunsInv /\ CapInv /\ WalkInv /\ [Next]_vars => WalkInv'
<1> SUFFICES ASSUME RunsInv, CapInv, WalkInv, [Next]_vars PROVE WalkInv'
  OBVIOUS
<1>types. /\ pc \in [Runs -> Places] /\ cancelled \in [Runs -> BOOLEAN]
          /\ parent \in [Runs -> Runs \cup {NoRun}] /\ live \subseteq Runs
          /\ walk \in [todo : SUBSET Runs, seen : SUBSET Runs, at : Runs \cup {NoRun}]
          /\ promised \subseteq Runs /\ kids \in [Runs -> Seq(Runs)] /\ queue \in Seq(Runs)
  BY DEF RunsInv, TypeOK
<1>none. NoRun \notin Runs
  BY DEF Runs, NoRun
<1>live. \A q \in live : q \in Runs /\ pc[q] # "new"
  BY LiveIsOpened
<1>inv. /\ \A d \in Runs : PlaceInv(d)
        /\ \A d \in Runs : CallInv(d)
        /\ \A d \in Runs : Lineage(d)
        /\ QueueInv
  BY DEF RunsInv, CapInv
<1>1. ASSUME NEW r \in Runs, StopRun(r) PROVE WalkInv'
  <2>1. /\ walk'.todo = {r} /\ walk'.seen = {} /\ walk'.at = NoRun
        /\ r \in live /\ UNCHANGED <<pc, live, parent, line, cancelled>>
        /\ promised' = {q \in live : q = r \/ r \in line[q]}
    BY <1>1 DEF StopRun, Idle, runVars
  <2>2. \A q \in promised' : q = r \/ parent[q] = r
    BY <1>inv, <1>live, <2>1 DEF Lineage
  <2>3. \A q \in promised' \cup {r} : pc[q] # "new"
    BY <1>live, <2>1
  <2>4. QED
    BY <2>1, <2>2, <2>3 DEF WalkInv
<1>2. ASSUME NEW r \in Runs, WalkPop(r) PROVE WalkInv'
  <2>1. /\ walk.at = NoRun /\ r \in walk.todo
        /\ walk'.todo = walk.todo \ {r} /\ walk'.seen = walk.seen \cup {r} /\ walk'.at = r
        /\ UNCHANGED <<promised, pc, live, parent>>
        /\ \A q \in Runs : cancelled'[q] = IF q = r THEN cancelled[r] \/ r \in live ELSE cancelled[q]
    BY <1>types, <1>2 DEF WalkPop, runVars
  <2>2. \A q \in walk'.seen : q \in live => cancelled'[q]
    <3> SUFFICES ASSUME NEW q \in walk'.seen, q \in live PROVE cancelled'[q]
      OBVIOUS
    <3>1. q \in Runs /\ (q = r \/ q \in walk.seen)
      BY <1>types, <2>1
    <3>2. q # r => cancelled[q]
      BY <3>1 DEF WalkInv
    <3>3. QED
      BY <2>1, <3>1, <3>2
  <2>3. \A q \in promised : q \in live /\ ~cancelled'[q] =>
            q \in walk'.todo \/ parent[q] \in walk'.todo \/ parent[q] = r
    <3> SUFFICES ASSUME NEW q \in promised, q \in live, ~cancelled'[q]
                 PROVE  q \in walk'.todo \/ parent[q] \in walk'.todo \/ parent[q] = r
      OBVIOUS
    <3>1. q # r /\ ~cancelled[q]
      BY <1>types, <2>1
    <3>2. q \in walk.todo \/ parent[q] \in walk.todo
      BY <2>1, <3>1 DEF WalkInv
    <3>3. QED
      BY <2>1, <3>1, <3>2
  <2>4. /\ walk'.todo \cap walk'.seen = {}
        /\ \A q \in promised \cup walk'.todo \cup walk'.seen \cup {r} : pc[q] # "new"
    BY <2>1 DEF WalkInv
  <2>5. walk'.at # NoRun => pc'[walk'.at] # "new"
    BY <2>1, <2>4
  <2>6. \A q \in promised' : q \in live' /\ ~cancelled'[q] =>
            \/ q \in walk'.todo
            \/ parent'[q] \in walk'.todo
            \/ walk'.at # NoRun /\ parent'[q] = walk'.at
    BY <1>none, <2>1, <2>3
  <2>7. QED
    BY <2>1, <2>2, <2>4, <2>5, <2>6 DEF WalkInv
<1>3. ASSUME WalkChildren PROVE WalkInv'
  <2> DEFINE todo == (walk.todo \cup {c \in live : parent[c] = walk.at}) \ walk.seen
  <2>1. /\ walk' = IF todo = {} THEN Idle ELSE [todo |-> todo, seen |-> walk.seen, at |-> NoRun]
        /\ promised' = IF todo = {} THEN {} ELSE promised
        /\ UNCHANGED <<pc, live, parent, cancelled>>
    BY <1>3 DEF WalkChildren, runVars
  <2>2. CASE todo = {}
    BY <2>1, <2>2 DEF WalkInv, Idle
  <2>3. CASE todo # {}
    <3>1. /\ walk'.todo = todo /\ walk'.seen = walk.seen /\ walk'.at = NoRun
          /\ promised' = promised
      BY <2>1, <2>3
    <3>2. \A q \in promised : q \in live /\ ~cancelled[q] => q \in todo \/ parent[q] \in todo
      BY DEF WalkInv
    <3>3. \A q \in promised \cup todo \cup walk.seen : pc[q] # "new"
      BY <1>live DEF WalkInv
    <3>4. todo \cap walk.seen = {}
      OBVIOUS
    <3>5. QED
      BY <2>1, <3>1, <3>2, <3>3, <3>4 DEF WalkInv
  <2>4. QED
    BY <2>2, <2>3
<1>4. ASSUME Crash PROVE WalkInv'
  BY <1>4 DEF Crash, WalkInv, Idle
<1>5. ASSUME CancelAll \/ Boot \/ UNCHANGED vars PROVE WalkInv'
  <2>1. UNCHANGED <<walk, promised, pc, live, parent>>
        /\ \A q \in Runs : cancelled[q] => cancelled'[q]
    BY <1>types, <1>5 DEF CancelAll, Boot, vars, runVars, stopVars
  <2>2. QED
    BY <2>1, WalkKept
<1>6. ASSUME NEW r \in Runs, NEW c \in Runs, OpenChild(r, c) PROVE WalkInv'
  <2>1. /\ pc[c] = "new" /\ UNCHANGED <<walk, promised, cancelled>>
        /\ live' = live \cup {c} /\ parent' = [parent EXCEPT ![c] = r]
        /\ pc' = [pc EXCEPT ![c] = "opened"]
    BY <1>6 DEF OpenChild, Fresh, stopVars
  <2>2. QED
    BY <1>types, <2>1, WalkKept
<1>7. ASSUME NEW r \in Runs, OpenRoot(r) PROVE WalkInv'
  <2>1. /\ pc[r] = "new" /\ UNCHANGED <<walk, promised, cancelled, parent>>
        /\ live' = live \cup {r} /\ pc' = [pc EXCEPT ![r] = "loop"]
    BY <1>7 DEF OpenRoot, Fresh, stopVars
  <2>2. QED
    BY <1>types, <2>1, WalkKept
<1>8. ASSUME NEW r \in Runs,
             \/ CloseRoot(r) \/ RunTogether(r) \/ Return(r) \/ ReportBack(r) \/ Submit(r)
             \/ OpenFails(r) \/ CollectBegin(r) \/ CollectEnd(r) \/ CollectTimeout(r)
             \/ DelegateBegin(r) \/ PumpTake(r) \/ PumpDone(r) \/ RunOneSkip(r)
             \/ RunOneStart(r) \/ RunOneSettle(r) \/ Release(r)
      PROVE  WalkInv'
  <2>1. UNCHANGED <<walk, promised, parent>>
    BY <1>8 DEF CloseRoot, RunTogether, Return, ReportBack, Submit, OpenFails, CollectBegin,
       CollectEnd, CollectTimeout, DelegateBegin, PumpTake, PumpDone, RunOneSkip, RunOneStart,
       RunOneSettle, Release, runVars, stopVars
  <2>2. \/ UNCHANGED <<live, cancelled>>
        \/ \E S : live' = live \ S /\ cancelled' = Dropped(S)
    BY <1>8 DEF CloseRoot, RunTogether, Return, ReportBack, Submit, OpenFails, CollectBegin,
       CollectEnd, CollectTimeout, DelegateBegin, PumpTake, PumpDone, RunOneSkip, RunOneStart,
       RunOneSettle, Release, runVars, stopVars
  <2>3. /\ \A q \in Runs : q \in live' => q \in live
        /\ \A q \in Runs : q \in live' /\ cancelled[q] => cancelled'[q]
    BY <2>2 DEF Dropped
  <2>4. \A q \in Runs : pc[q] # "new" => pc'[q] # "new"
    <3>1. CASE RunTogether(r)
      BY <1>types, <3>1 DEF RunTogether
    <3>2. CASE Submit(r)
      BY <1>types, <3>2 DEF Submit
    <3>3. CASE ReportBack(r)
      BY <1>types, <3>3 DEF ReportBack
    <3>4. CASE PumpTake(r)
      BY <1>types, <3>4 DEF PumpTake
    <3>7. CASE OpenFails(r)
      BY <1>types, <3>7 DEF OpenFails
    <3>5. CASE \/ CloseRoot(r) \/ Return(r) \/ CollectBegin(r) \/ CollectEnd(r)
               \/ CollectTimeout(r) \/ DelegateBegin(r) \/ PumpDone(r)
               \/ RunOneSkip(r) \/ RunOneStart(r) \/ RunOneSettle(r) \/ Release(r)
      <4>1. \E v : pc' = [pc EXCEPT ![r] = v] /\ v # "new"
        BY <3>5 DEF CloseRoot, Return, CollectBegin, CollectEnd, CollectTimeout,
           DelegateBegin, PumpDone, RunOneSkip, RunOneStart, RunOneSettle, Release
      <4>2. QED
        BY <1>types, <4>1
    <3>6. QED
      BY <1>8, <3>1, <3>2, <3>3, <3>4, <3>5, <3>7
  <2>5. QED
    BY <2>1, <2>3, <2>4, WalkKept
<1>9. QED
  BY <1>1, <1>2, <1>3, <1>4, <1>5, <1>6, <1>7, <1>8 DEF Next, RunStep

\* The step at which a walk ends has reached all that was promised: a step
\* that only drops the walk (a crash) leaves nothing live.
LEMMA WalkEnds ==
    RunsInv /\ WalkInv /\ [Next]_vars =>
        [walk # Idle /\ walk' = Idle => \A r \in promised : cancelled'[r] \/ r \notin live']_vars
<1> SUFFICES ASSUME RunsInv, WalkInv, Next, walk # Idle, walk' = Idle, NEW q \in promised
             PROVE  cancelled'[q] \/ q \notin live'
  BY Zenon
<1>1. CASE Crash
  BY <1>1 DEF Crash
<1>2. CASE WalkChildren
  <2> DEFINE todo == (walk.todo \cup {c \in live : parent[c] = walk.at}) \ walk.seen
  <2>1. /\ walk' = IF todo = {} THEN Idle ELSE [todo |-> todo, seen |-> walk.seen, at |-> NoRun]
        /\ UNCHANGED <<live, cancelled>>
    BY <1>2 DEF WalkChildren, runVars
  <2>2. todo = {}
    BY <2>1 DEF Idle
  <2>3. q \in live /\ ~cancelled[q] => q \in todo \/ parent[q] \in todo
    BY DEF WalkInv
  <2>4. QED
    BY <2>1, <2>2, <2>3
<1>3. CASE \E r \in Runs : StopRun(r) \/ WalkPop(r)
  <2>1. PICK r \in Runs : StopRun(r) \/ WalkPop(r)
    BY <1>3
  <2>2. StopRun(r) => walk'.todo = {r}
    BY DEF StopRun, Idle
  <2>3. WalkPop(r) => walk'.at = r /\ r # NoRun
    BY DEF WalkPop, Runs, NoRun
  <2>4. QED
    BY <2>1, <2>2, <2>3 DEF Idle
<1>4. QED
  <2>1. ASSUME NEW r \in Runs,
               \/ RunStep(r) \/ OpenRoot(r) \/ DelegateBegin(r) \/ CollectBegin(r)
               \/ CollectTimeout(r)
        PROVE  walk' = walk
    BY <2>1 DEF RunStep, OpenChild, OpenRoot, CloseRoot, RunTogether, Return, ReportBack, Submit,
       OpenFails, CollectBegin, CollectEnd, CollectTimeout, DelegateBegin, PumpTake, PumpDone,
       RunOneSkip, RunOneStart, RunOneSettle, Release, stopVars
  <2>2. CancelAll \/ Boot => walk' = walk
    BY DEF CancelAll, Boot, stopVars
  <2>3. QED
    BY <1>1, <1>2, <1>3, <2>1, <2>2 DEF Next

\* Without nesting, the default: when the walk of a Stop ends, every run that
\* was live at or below the stopped one when it was pressed is tripped or over,
\* however many runs open, queue, start and end between the walk's locks.
THEOREM StopReaches == ASSUME ~AllowNested PROVE Spec => StopReachesAll
<1>1. Init => WalkInv
  BY DEF Init, WalkInv, Idle
<1>2. QED
  BY <1>1, RunsInvariant, CapInvariant, WalkStep, WalkEnds, PTL DEF Spec, StopReachesAll
=============================================================================
