---------------------------- MODULE EngineProofs ----------------------------
(***************************************************************************)
(* Type correctness and the safety invariants of Engine, for any number of *)
(* loads, stops, windows, failed polls and restarts: repairs yield, start  *)
(* what worked, and the engine has one watchdog.                           *)
(***************************************************************************)
EXTENDS Engine, TLAPS

WatchdogType == [pc : WatchdogPcs, gen : Nat, fails : 0..(Failures - 1),
                 healGen : Nat, config : Configs \cup {NoConfig}]
LoadType == [pc : LoadPcs, window : 1..Windows, shrink : BOOLEAN]

\* What a load has shown by how far it has come: its configuration answered
\* before the child goes into the slot, and is remembered before anybody watches.
Shown ==
    /\ \A l \in Loads : load[l].pc \in {"install", "remember"} => Config(l, load[l].window) \in proven
    /\ \A l \in Loads : load[l].pc \in {"forgive", "watch"} => lastConfig \in proven
    /\ \A w \in Loads : watchdog[w].pc # "none" => lastConfig \in proven

\* A watchdog that was spawned for the current generation, whether it still runs or not.
Spawned(w) == watchdog[w].pc # "none" /\ watchdog[w].gen = generation

\* A load that has advanced the generation for the child it is starting.
Bumped(l) == load[l].pc \in {"reap", "starting", "install", "remember", "forgive", "watch"}

\* Loads under way together have been seen to be; a load that is past its advance
\* while a watchdog of the current generation exists was under way when that one
\* was spawned, and so were the loads of two such watchdogs.
Together ==
    /\ \A k, l \in Loads : (k # l /\ InFlight(k) /\ InFlight(l)) => <<k, l>> \in overlaps
    /\ \A v, l \in Loads : (v # l /\ Spawned(v) /\ Bumped(l)) => {<<v, l>>, <<l, v>>} \subseteq overlaps
    /\ \A v, w \in Loads : (v # w /\ Spawned(v) /\ Spawned(w)) => <<v, w>> \in overlaps

\* No watchdog is ahead of the generation, a repair is no older than its watchdog,
\* and only a load that is done has one.
Ages ==
    /\ \A w \in Loads :
          /\ watchdog[w].gen <= generation
          /\ watchdog[w].pc \in {"asleep", "reap", "starting", "putback"}
                => watchdog[w].gen <= watchdog[w].healGen /\ watchdog[w].healGen <= generation
          /\ watchdog[w].pc # "none" => load[w].pc = "done"
    /\ engine.by # 0 => watchdog[engine.by].pc # "none"

\* EngineIsWatched, with the load that is about to spawn the watchdog.
Attended ==
    (engine # NoEngine /\ ~Reaping /\ (engine.by # 0 => watchdog[engine.by].gen = generation))
        => \/ gaveUp \/ \E w \in Loads : Watching(w)
           \/ \E l \in Loads : load[l].pc \in {"remember", "forgive", "watch"}

\* The inductive invariant of what repairs start and where they put it.
Inv == TypeOK /\ HealYields /\ Shown /\ RepairsWhatWorked

\* The values the actions build have their types.
LEMMA Builds ==
    /\ \A l \in Loads, n \in 1..Windows : Config(l, n) \in Configs
    /\ \A c \in Configs \cup {NoConfig}, w \in Loads \cup {0}, g \in Nat :
          /\ Child(c, w, g) \in Engines /\ Child(c, w, g).by = w /\ Child(c, w, g).gen = g
    /\ \A c \in Configs : Child(c, 0, 0) \in Engines
    /\ NoEngine \in Engines /\ NoEngine.by = 0 /\ NoEngine.alive = FALSE
    /\ NoWatchdog \in WatchdogType /\ NoWatchdog.pc = "none"
  BY EngineAssumption DEF Config, Configs, Child, Engines, NoEngine, NoConfig, NoWatchdog,
     WatchdogType, WatchdogPcs

\* The initial state satisfies the invariant.
LEMMA InitInv == Init => Inv
<1> SUFFICES ASSUME Init PROVE Inv
  OBVIOUS
<1>1. TypeOK
  <2>1. load \in [Loads -> LoadType]
    BY EngineAssumption DEF Init, LoadType, LoadPcs
  <2>2. watchdog \in [Loads -> WatchdogType]
    BY Builds DEF Init
  <2>3. 0 \in 0..MaxRestarts /\ 0 \in Nat
    BY EngineAssumption
  <2> QED
    BY <2>1, <2>2, <2>3, Builds DEF Init, TypeOK, LoadType, WatchdogType
<1>2. HealYields
  BY DEF Init, HealYields
<1>3. Shown /\ RepairsWhatWorked
  BY Builds DEF Init, Shown, RepairsWhatWorked, NoWatchdog
<1> QED
  BY <1>1, <1>2, <1>3 DEF Inv

\* Every step keeps the types, and the restart budget is never overdrawn.
LEMMA TypeStep == TypeOK /\ [Next]_vars => TypeOK'
<1> SUFFICES ASSUME TypeOK, [Next]_vars PROVE TypeOK'
  OBVIOUS
<1> DEFINE Fields == /\ generation \in Nat /\ engine \in Engines
                     /\ load \in [Loads -> LoadType] /\ watchdog \in [Loads -> WatchdogType]
<1>0. Fields /\ \A l \in Loads : load[l] \in LoadType /\ watchdog[l] \in WatchdogType
  BY DEF TypeOK, LoadType, WatchdogType
<1>1. CASE \E l \in Loads : LoadBegin(l) \/ LoadStep(l)
  <2> PICK l \in Loads : LoadBegin(l) \/ LoadStep(l)
    BY <1>1
  <2>1. load' \in [Loads -> LoadType]
    BY <1>0, EngineAssumption DEF LoadBegin, LoadStep, LoadBump, LoadReap, LoadReady, LoadShrinks,
       LoadFails, LoadInstall, LoadRemember, LoadForgive, LoadWatch, LoadGoes, LoadType, LoadPcs
  <2>2. Config(l, load[l].window) \in Configs
    BY <1>0, Builds DEF LoadType
  <2>3. engine' \in {engine, NoEngine, Child(Config(l, load[l].window), 0, 0)}
    BY DEF LoadBegin, LoadStep, LoadBump, LoadReap, LoadReady, LoadShrinks,
       LoadFails, LoadInstall, LoadRemember, LoadForgive, LoadWatch
  <2>4. watchdog' \in {watchdog, [watchdog EXCEPT ![l] = [NoWatchdog EXCEPT !.pc = "poll", !.gen = generation]]}
    BY DEF LoadBegin, LoadStep, LoadBump, LoadReap, LoadReady, LoadShrinks,
       LoadFails, LoadInstall, LoadRemember, LoadForgive, LoadWatch
  <2>5. engine' \in Engines
    <3>1. Child(Config(l, load[l].window), 0, 0) \in Engines
      BY <2>2, Builds, Zenon
    <3> QED
      BY <2>3, <3>1, <1>0, Builds
  <2>7. [NoWatchdog EXCEPT !.pc = "poll", !.gen = generation] \in WatchdogType
    BY <1>0, Builds DEF WatchdogType, WatchdogPcs
  <2>8. watchdog' \in [Loads -> WatchdogType]
    BY <2>4, <2>7, <1>0
  <2>9. /\ generation' \in {generation, generation + 1} /\ stop' = stop
        /\ lastConfig' \in {lastConfig, Config(l, load[l].window)}
        /\ restarts' \in {restarts, 0} /\ gaveUp' \in {gaveUp, FALSE}
        /\ proven' \in {proven, proven \cup {Config(l, load[l].window)}}
    BY DEF LoadBegin, LoadStep, LoadBump, LoadReap, LoadReady,
       LoadShrinks, LoadFails, LoadInstall, LoadRemember, LoadForgive, LoadWatch, manVars
  <2>10. /\ generation' \in Nat /\ stop' = stop /\ lastConfig' \in Configs \cup {NoConfig}
         /\ restarts' \in 0..MaxRestarts /\ gaveUp' \in BOOLEAN /\ proven' \subseteq Configs
    <3>1. generation \in Nat /\ restarts \in 0..MaxRestarts /\ gaveUp \in BOOLEAN
          /\ lastConfig \in Configs \cup {NoConfig} /\ proven \subseteq Configs
      BY DEF TypeOK
    <3>2. generation' \in Nat /\ restarts' \in 0..MaxRestarts
      BY <3>1, <2>9, EngineAssumption
    <3> QED
      BY <3>1, <3>2, <2>2, <2>9
  <2>6. overlaps' \subseteq Loads \X Loads
    BY DEF TypeOK, LoadBegin, LoadStep, LoadBump, LoadReap, LoadReady,
       LoadShrinks, LoadFails, LoadInstall, LoadRemember, LoadForgive, LoadWatch
  <2> QED
    BY <2>1, <2>5, <2>6, <2>8, <2>10 DEF TypeOK, LoadType, WatchdogType
<1>2. CASE \E w \in Loads : WatchdogStep(w)
  <2> PICK w \in Loads : WatchdogStep(w)
    BY <1>2
  <2>0. \A to \in WatchdogPcs : Settled(w, to) \in WatchdogType
    BY <1>0, Builds DEF Settled, WatchdogType
  <2>1. watchdog' \in [Loads -> WatchdogType]
    <3>1. WatchdogEnds(w) \/ WatchesOn(w) \/ PollPassed(w) => watchdog' \in [Loads -> WatchdogType]
      <4>1. Settled(w, "ended") \in WatchdogType /\ Settled(w, "poll") \in WatchdogType
        BY <2>0 DEF WatchdogPcs
      <4> QED
        BY <4>1, <1>0 DEF WatchdogEnds, WatchesOn, PollPassed
    <3>2. PollFailed(w) => watchdog' \in [Loads -> WatchdogType]
      <4> SUFFICES ASSUME PollFailed(w) PROVE watchdog' \in [Loads -> WatchdogType]
        OBVIOUS
      <4> DEFINE more == watchdog[w].fails + 1 < Failures
                 next == [watchdog[w] EXCEPT !.pc = IF more THEN "poll" ELSE "heal",
                                             !.fails = IF more THEN @ + 1 ELSE 0]
      <4>1. next \in WatchdogType
        <5>1. CASE more
          <6>1. watchdog[w].fails + 1 \in 0..(Failures - 1)
            BY <5>1, <1>0, EngineAssumption DEF WatchdogType
          <6>2. next = [watchdog[w] EXCEPT !.pc = "poll", !.fails = watchdog[w].fails + 1]
            BY <5>1, <1>0 DEF WatchdogType
          <6> HIDE DEF next
          <6> QED
            BY <6>1, <6>2, <1>0 DEF WatchdogType, WatchdogPcs
        <5>2. CASE ~more
          <6>1. 0 \in 0..(Failures - 1)
            BY EngineAssumption
          <6>2. next = [watchdog[w] EXCEPT !.pc = "heal", !.fails = 0]
            BY <5>2, <1>0 DEF WatchdogType
          <6> HIDE DEF next
          <6> QED
            BY <6>1, <6>2, <1>0 DEF WatchdogType, WatchdogPcs
        <5> QED
          BY <5>1, <5>2
      <4>2. watchdog' = [watchdog EXCEPT ![w] = next]
        BY <1>0 DEF PollFailed, WatchdogType
      <4> QED
        BY <4>1, <4>2, <1>0
    <3>3. \A from, to \in WatchdogPcs : WatchdogGoes(w, from, to) => watchdog' \in [Loads -> WatchdogType]
      BY <1>0 DEF WatchdogGoes, WatchdogType
    <3>4. CASE WatchPoll(w)
      BY <3>4, <3>1, <3>2, <3>3 DEF WatchPoll, WatchdogPcs
    <3>5. CASE WatchAnswer(w)
      BY <3>5, <3>1, <3>2 DEF WatchAnswer
    <3>6. CASE HealBudget(w)
      <4>1. lastConfig \in Configs \cup {NoConfig}
        BY DEF TypeOK
      <4>2. [watchdog[w] EXCEPT !.pc = "asleep", !.healGen = generation, !.config = lastConfig] \in WatchdogType
        BY <4>1, <1>0 DEF WatchdogType, WatchdogPcs
      <4>3. \/ WatchdogEnds(w)
            \/ watchdog' = [watchdog EXCEPT ![w] =
                  [watchdog[w] EXCEPT !.pc = "asleep", !.healGen = generation, !.config = lastConfig]]
        BY <3>6, <1>0 DEF HealBudget, WatchdogType
      <4> QED
        BY <4>2, <4>3, <3>1, <1>0
    <3>7. CASE HealWake(w) \/ HealReap(w) \/ HealStart(w) \/ HealPutBack(w)
      BY <3>7, <3>1, <3>3 DEF HealWake, HealReap, HealStart, HealPutBack, WatchdogPcs
    <3> QED
      BY <3>4, <3>5, <3>6, <3>7 DEF WatchdogStep
  <2>2. engine' \in Engines
    <3>1. engine' \in {engine, NoEngine, Child(watchdog[w].config, w, watchdog[w].healGen)}
      BY DEF WatchdogStep, WatchPoll, WatchAnswer, HealBudget, HealWake, HealReap,
         HealStart, HealPutBack
    <3>2. watchdog[w].config \in Configs \cup {NoConfig} /\ watchdog[w].healGen \in Nat
      BY <1>0 DEF WatchdogType
    <3>3. Child(watchdog[w].config, w, watchdog[w].healGen) \in Engines
      BY <3>2, Builds, Zenon
    <3> QED
      BY <3>1, <3>3, <1>0, Builds
  <2>3. restarts' \in 0..MaxRestarts /\ gaveUp' \in BOOLEAN
    <3>1. \/ restarts' = restarts /\ gaveUp' = gaveUp
          \/ \E left \in 0..restarts :
                \/ restarts' = left /\ gaveUp' = TRUE
                \/ left < MaxRestarts /\ restarts' = left + 1 /\ gaveUp' = gaveUp
      <4>1. CASE HealBudget(w)
        <5>1. PICK left \in 0..restarts :
                  \/ left >= MaxRestarts /\ restarts' = left /\ gaveUp' = TRUE
                  \/ left < MaxRestarts /\ restarts' = left + 1 /\ gaveUp' = gaveUp
          BY <4>1, Zenon DEF HealBudget
        <5> QED
          BY <5>1
      <4>2. CASE ~HealBudget(w)
        BY <4>2 DEF WatchdogStep, WatchPoll, WatchAnswer, HealWake, HealReap, HealStart,
           HealPutBack, manVars
      <4> QED
        BY <4>1, <4>2
    <3>2. restarts' \in 0..MaxRestarts
      BY <3>1, EngineAssumption DEF TypeOK
    <3>3. gaveUp' \in {gaveUp, TRUE}
      BY <3>1
    <3> QED
      BY <3>2, <3>3 DEF TypeOK
  <2>4. UNCHANGED <<generation, lastConfig, userVars, proven, overlaps>>
    BY DEF WatchdogStep, WatchPoll, WatchAnswer, HealBudget, HealWake, HealReap, HealStart,
       HealPutBack, manVars
  <2> QED
    BY <2>1, <2>2, <2>3, <2>4 DEF TypeOK, WatchdogType, userVars
<1>3. CASE \E s \in Stops : StopBump(s) \/ StopReap(s)
  <2>1. NoEngine \in Engines
    BY Builds
  <2> QED
    BY <1>3, <2>1 DEF TypeOK, StopBump, StopReap, manVars
<1>4. CASE EngineDies
  BY <1>4 DEF TypeOK, EngineDies, Engines, manVars, userVars
<1>5. CASE UNCHANGED vars
  BY <1>5 DEF TypeOK, vars, manVars, userVars
<1> QED
  BY <1>1, <1>2, <1>3, <1>4, <1>5 DEF Next

\* The types hold throughout: in particular no watchdog, however many there are,
\* takes the restart history over MAX_RESTARTS.
THEOREM EngineTypes == Spec => []TypeOK
<1>1. Init => TypeOK
  BY InitInv DEF Inv
<1> QED
  BY <1>1, TypeStep, PTL DEF Spec

\* A step moves the generation only with its mover on the way to empty the slot,
\* takes a mover off only by emptying it, and puts a repaired child there only
\* for the generation of the moment.
LEMMA YieldsStep == TypeOK /\ HealYields /\ [Next]_vars => HealYields'
<1> SUFFICES ASSUME TypeOK, HealYields, [Next]_vars PROVE HealYields'
  OBVIOUS
<1>0. /\ load \in [Loads -> LoadType] /\ watchdog \in [Loads -> WatchdogType]
      /\ stop \in [Stops -> {"idle", "reap", "done"}] /\ engine \in Engines
      /\ \A l \in Loads : load[l] \in LoadType /\ watchdog[l] \in WatchdogType
  BY DEF TypeOK, LoadType, WatchdogType
<1>1. CASE \E l \in Loads : LoadBegin(l) \/ LoadStep(l)
  <2> PICK l \in Loads : LoadBegin(l) \/ LoadStep(l)
    BY <1>1
  <2>1. CASE LoadReap(l)
    BY <2>1 DEF LoadReap, HealYields
  <2>2. CASE LoadBump(l)
    BY <2>2, <1>0 DEF LoadBump, LoadGoes, LoadType, HealYields, Reaping
  <2>3. CASE LoadInstall(l)
    <3>1. Child(Config(l, load[l].window), 0, 0).by = 0
      BY DEF Child
    <3> QED
      BY <2>3, <3>1 DEF LoadInstall, HealYields
  <2>4. CASE LoadBegin(l) \/ LoadReady(l) \/ LoadShrinks(l) \/ LoadFails(l) \/ LoadRemember(l)
              \/ LoadForgive(l) \/ LoadWatch(l)
    <3>1. UNCHANGED <<engine, generation, stop>>
      BY <2>4 DEF LoadBegin, LoadReady, LoadShrinks, LoadFails, LoadRemember, LoadForgive, LoadWatch
    <3>2. load[l].pc # "reap" /\ \A k \in Loads \ {l} : load'[k] = load[k]
      BY <2>4, <1>0 DEF LoadBegin, LoadReady, LoadShrinks, LoadFails, LoadRemember, LoadForgive,
         LoadWatch, LoadGoes
    <3>3. Reaping => Reaping'
      BY <3>1, <3>2 DEF Reaping
    <3> QED
      BY <3>1, <3>3 DEF HealYields
  <2> QED
    BY <2>1, <2>2, <2>3, <2>4 DEF LoadStep
<1>2. CASE \E w \in Loads : WatchdogStep(w)
  <2> PICK w \in Loads : WatchdogStep(w)
    BY <1>2
  <2>1. UNCHANGED <<generation, load, stop>>
    BY DEF WatchdogStep, WatchPoll, WatchAnswer, HealBudget, HealWake, HealReap, HealStart,
       HealPutBack, userVars
  <2>2. engine' = engine \/ engine' = NoEngine \/ engine'.gen = generation
    <3>1. Child(watchdog[w].config, w, watchdog[w].healGen).gen = watchdog[w].healGen
      BY DEF Child
    <3> QED
      BY <3>1 DEF WatchdogStep, WatchPoll, WatchAnswer, HealBudget, HealWake, HealReap, HealStart,
         HealPutBack
  <2> QED
    BY <2>1, <2>2 DEF HealYields, Reaping
<1>3. CASE \E s \in Stops : StopBump(s) \/ StopReap(s)
  BY <1>3, <1>0 DEF StopBump, StopReap, HealYields, Reaping
<1>4. CASE EngineDies
  <2>1. engine # NoEngine
    BY <1>4 DEF EngineDies, NoEngine
  <2>2. engine'.by = engine.by /\ engine'.gen = engine.gen
    BY <1>4, <1>0 DEF EngineDies, Engines
  <2> QED
    BY <1>4, <2>1, <2>2 DEF EngineDies, HealYields, Reaping, userVars
<1>5. CASE UNCHANGED vars
  BY <1>5 DEF HealYields, Reaping, vars, userVars
<1> QED
  BY <1>1, <1>2, <1>3, <1>4, <1>5 DEF Next

\* What has once answered stays known, last_config is only ever such a
\* configuration, and a repair copies it.
LEMMA ShownStep ==
    TypeOK /\ Shown /\ RepairsWhatWorked /\ [Next]_vars => (Shown /\ RepairsWhatWorked)'
<1> SUFFICES ASSUME TypeOK, Shown, RepairsWhatWorked, [Next]_vars
             PROVE  Shown' /\ RepairsWhatWorked'
  OBVIOUS
<1>0. /\ load \in [Loads -> LoadType] /\ watchdog \in [Loads -> WatchdogType]
      /\ \A l \in Loads : load[l] \in LoadType /\ watchdog[l] \in WatchdogType
  BY DEF TypeOK, LoadType, WatchdogType
<1>1. CASE \E l \in Loads : LoadBegin(l) \/ LoadStep(l)
  <2> PICK l \in Loads : LoadBegin(l) \/ LoadStep(l)
    BY <1>1
  <2>1. /\ \A k \in Loads \ {l} : load'[k] = load[k]
        /\ proven \subseteq proven'
    BY <1>0 DEF LoadBegin, LoadStep, LoadBump, LoadReap, LoadReady, LoadShrinks,
       LoadFails, LoadInstall, LoadRemember, LoadForgive, LoadWatch, LoadGoes
  <2>2. load'[l].pc \in {"install", "remember"} => Config(l, load'[l].window) \in proven'
    BY <1>0 DEF Shown, LoadBegin, LoadStep, LoadBump, LoadReap, LoadReady, LoadShrinks,
       LoadFails, LoadInstall, LoadRemember, LoadForgive, LoadWatch, LoadGoes, LoadType
  <2>3. lastConfig' = lastConfig \/ lastConfig' \in proven'
    BY DEF Shown, LoadBegin, LoadStep, LoadBump, LoadReap, LoadReady, LoadShrinks,
       LoadFails, LoadInstall, LoadRemember, LoadForgive, LoadWatch, LoadGoes, manVars
  <2>4. load'[l].pc \in {"forgive", "watch"} => lastConfig' \in proven'
    BY <1>0, <2>1, <2>3 DEF Shown, LoadBegin, LoadStep, LoadBump, LoadReap, LoadReady,
       LoadShrinks, LoadFails, LoadInstall, LoadRemember, LoadForgive, LoadWatch, LoadGoes, LoadType
  <2>5. \/ watchdog' = watchdog
        \/ /\ LoadWatch(l)
           /\ watchdog' = [watchdog EXCEPT ![l] = [NoWatchdog EXCEPT !.pc = "poll", !.gen = generation]]
    BY DEF LoadBegin, LoadStep, LoadBump, LoadReap, LoadReady, LoadShrinks,
       LoadFails, LoadInstall, LoadRemember, LoadForgive, LoadWatch
  <2>6. \A w \in Loads : watchdog'[w].pc # "none" => lastConfig' \in proven'
    <3>1. CASE watchdog' = watchdog
      BY <3>1, <2>1, <2>3 DEF Shown
    <3>2. CASE LoadWatch(l)
      BY <3>2, <2>1, <2>3 DEF Shown, LoadWatch, LoadGoes
    <3> QED
      BY <2>5, <3>1, <3>2
  <2>7. RepairsWhatWorked'
    <3>1. CASE watchdog' = watchdog
      BY <3>1, <2>1 DEF RepairsWhatWorked
    <3>2. CASE watchdog' = [watchdog EXCEPT ![l] = [NoWatchdog EXCEPT !.pc = "poll", !.gen = generation]]
      <4>1. watchdog'[l].pc = "poll" /\ \A w \in Loads \ {l} : watchdog'[w] = watchdog[w]
        BY <3>2, <1>0 DEF NoWatchdog
      <4> QED
        BY <4>1, <2>1 DEF RepairsWhatWorked
    <3> QED
      BY <2>5, <3>1, <3>2
  <2> QED
    BY <2>1, <2>2, <2>3, <2>4, <2>6, <2>7 DEF Shown
<1>2. CASE \E w \in Loads : WatchdogStep(w)
  <2> PICK w \in Loads : WatchdogStep(w)
    BY <1>2
  <2>1. UNCHANGED <<lastConfig, load, proven>>
    BY DEF WatchdogStep, WatchPoll, WatchAnswer, HealBudget, HealWake, HealReap, HealStart,
       HealPutBack, userVars, manVars
  <2>2. watchdog[w].pc # "none" /\ \A v \in Loads \ {w} : watchdog'[v] = watchdog[v]
    BY <1>0 DEF WatchdogStep, WatchPoll, WatchAnswer, HealBudget, HealWake, HealReap, HealStart,
       HealPutBack, WatchdogGoes, WatchdogEnds, WatchesOn, PollPassed, PollFailed
  <2>3. lastConfig \in proven
    BY <2>2 DEF Shown
  <2>4. watchdog'[w].pc \in {"asleep", "reap", "starting", "putback"}
            => watchdog'[w].config \in proven
    <3>1. \A to \in {"ended", "poll"} : Settled(w, to).pc = to
      BY DEF Settled, NoWatchdog
    <3>2. CASE HealBudget(w)
      <4>1. PICK left \in 0..restarts :
               \/ WatchdogEnds(w)
               \/ watchdog' = [watchdog EXCEPT ![w].pc = "asleep", ![w].healGen = generation,
                                               ![w].config = lastConfig]
        BY <3>2 DEF HealBudget
      <4> QED
        BY <4>1, <3>1, <2>3, <1>0 DEF WatchdogEnds, WatchdogType
    <3>3. CASE WatchPoll(w) \/ WatchAnswer(w)
      BY <3>3, <3>1, <1>0 DEF WatchPoll, WatchAnswer, WatchdogGoes, WatchdogEnds, WatchesOn,
         PollPassed, PollFailed, WatchdogType
    <3>4. CASE HealWake(w) \/ HealReap(w) \/ HealStart(w) \/ HealPutBack(w)
      BY <3>4, <3>1, <1>0 DEF HealWake, HealReap, HealStart, HealPutBack, WatchdogGoes,
         WatchdogEnds, WatchesOn, WatchdogType, RepairsWhatWorked
    <3> QED
      BY <3>2, <3>3, <3>4 DEF WatchdogStep
  <2> QED
    BY <2>1, <2>2, <2>3, <2>4 DEF Shown, RepairsWhatWorked
<1>3. CASE (\E s \in Stops : StopBump(s) \/ StopReap(s)) \/ EngineDies
  BY <1>3 DEF StopBump, StopReap, EngineDies, Shown, RepairsWhatWorked, manVars, userVars
<1>5. CASE UNCHANGED vars
  BY <1>5 DEF Shown, RepairsWhatWorked, vars, manVars, userVars
<1> QED
  BY <1>1, <1>2, <1>3, <1>5 DEF Next

\* The invariant is inductive.
LEMMA NextInv == Inv /\ [Next]_vars => Inv'
  BY TypeStep, YieldsStep, ShownStep DEF Inv

\* A repair never puts its child back over a Stop or a load that came after the
\* repair had begun (heal's last check, made under the lock of the slot).
THEOREM HealYieldsHolds == Spec => []HealYields
<1>1. Inv => HealYields
  BY DEF Inv
<1> QED
  BY <1>1, InitInv, NextInv, PTL DEF Spec

\* A repair starts only a configuration that some load has seen answer
\* (load_model sets last_config after wait_until_healthy, heal reads it).
THEOREM RepairsHold == Spec => []RepairsWhatWorked
<1>1. Inv => RepairsWhatWorked
  BY DEF Inv
<1> QED
  BY <1>1, InitInv, NextInv, PTL DEF Spec

\* A step of a watchdog leaves the others and the loads alone, keeps its own
\* generation, and its repair works for the generation of the moment it began.
LEMMA WatchdogMoves ==
    ASSUME TypeOK, NEW w \in Loads, WatchdogStep(w)
    PROVE  /\ UNCHANGED <<generation, load, stop, overlaps>>
           /\ \A v \in Loads \ {w} : watchdog'[v] = watchdog[v]
           /\ watchdog[w].pc \notin {"none", "ended"} /\ watchdog'[w].pc # "none"
           /\ watchdog'[w].gen = watchdog[w].gen
           /\ watchdog'[w].pc \in {"asleep", "reap", "starting", "putback"}
                 => \/ watchdog'[w].healGen = generation
                    \/ /\ watchdog[w].pc \in {"asleep", "reap", "starting", "putback"}
                       /\ watchdog'[w].healGen = watchdog[w].healGen
           /\ watchdog'[w].pc = "ended"
                 => \/ watchdog[w].gen # generation
                    \/ gaveUp'
                    \/ /\ watchdog[w].pc \in {"asleep", "putback"}
                       /\ watchdog[w].healGen # generation
           /\ engine' # engine
                 => engine' = NoEngine \/ (engine'.by = w /\ watchdog'[w].pc = "poll")
           /\ gaveUp => gaveUp'
<1>0. /\ watchdog \in [Loads -> WatchdogType] /\ watchdog[w] \in WatchdogType
  BY DEF TypeOK, WatchdogType
<1>1. UNCHANGED <<generation, load, stop, overlaps>>
  BY DEF WatchdogStep, WatchPoll, WatchAnswer, HealBudget, HealWake, HealReap, HealStart,
     HealPutBack, userVars
<1>2. \A to \in {"ended", "poll"} : Settled(w, to).pc = to /\ Settled(w, to).gen = watchdog[w].gen
  BY DEF Settled, NoWatchdog
<1>3. CASE WatchPoll(w) \/ WatchAnswer(w)
  BY <1>0, <1>1, <1>2, <1>3 DEF WatchPoll, WatchAnswer, WatchdogGoes, WatchdogEnds, WatchesOn,
     PollPassed, PollFailed, WatchdogType, manVars
<1>4. CASE HealBudget(w)
  <2>1. \/ WatchdogEnds(w) /\ gaveUp'
        \/ /\ watchdog' = [watchdog EXCEPT ![w].pc = "asleep", ![w].healGen = generation,
                                            ![w].config = lastConfig]
           /\ gaveUp' = gaveUp
    BY <1>4 DEF HealBudget
  <2>2. watchdog[w].pc = "heal" /\ engine' = engine
    BY <1>4 DEF HealBudget
  <2> QED
    BY <1>0, <1>1, <1>2, <2>1, <2>2 DEF WatchdogEnds, WatchdogType
<1>5. CASE HealWake(w) \/ HealReap(w) \/ HealStart(w)
  BY <1>0, <1>1, <1>2, <1>5 DEF HealWake, HealReap, HealStart, WatchdogGoes, WatchdogEnds, WatchesOn,
     WatchdogType, manVars
<1>6. CASE HealPutBack(w)
  <2>1. Child(watchdog[w].config, w, watchdog[w].healGen).by = w
    BY DEF Child
  <2> QED
    BY <1>0, <1>1, <1>2, <1>6, <2>1 DEF HealPutBack, WatchdogEnds, WatchesOn, WatchdogType, manVars
<1> QED
  BY <1>3, <1>4, <1>5, <1>6 DEF WatchdogStep

\* A step of a load changes no other load, and no watchdog but the one it spawns
\* as its last step, for the generation of that moment.
LEMMA LoadMoves ==
    ASSUME TypeOK, NEW l \in Loads, LoadBegin(l) \/ LoadStep(l)
    PROVE  /\ stop' = stop /\ overlaps \subseteq overlaps'
           /\ \A k \in Loads \ {l} : load'[k] = load[k]
           /\ \A v \in Loads \ {l} : watchdog'[v] = watchdog[v]
           /\ load[l].pc # "done"
           /\ watchdog'[l] = watchdog[l]
              \/ /\ watchdog'[l].pc = "poll" /\ watchdog'[l].gen = generation /\ load'[l].pc = "done"
                 /\ generation' = generation /\ load[l].pc = "watch" /\ engine' = engine
           /\ load'[l].pc = "done" => watchdog'[l].pc = "poll" /\ watchdog'[l].gen = generation
           /\ generation' = generation \/ (generation' = generation + 1 /\ load'[l].pc = "reap")
           /\ ~InFlight(l) => load'[l].pc = "stop" /\ \A k \in Loads : InFlight(k) => {<<k, l>>, <<l, k>>} \subseteq overlaps'
           /\ Bumped(l)' => Bumped(l) \/ generation' = generation + 1
           /\ engine' # engine => engine' = NoEngine \/ (engine'.by = 0 /\ load'[l].pc = "remember")
           /\ load[l].pc = "reap" => engine' = NoEngine
           /\ load[l].pc \in {"remember", "forgive"} => load'[l].pc \in {"forgive", "watch"}
           /\ load[l].pc = "watch" => load'[l].pc = "done"
           /\ gaveUp' = gaveUp \/ load'[l].pc = "watch"
<1>0. /\ load \in [Loads -> LoadType] /\ load[l] \in LoadType
      /\ watchdog \in [Loads -> WatchdogType]
  BY DEF TypeOK, LoadType, WatchdogType
<1>1. CASE LoadBegin(l)
  <2>1. \A k \in Loads : InFlight(k) => {<<k, l>>, <<l, k>>} \subseteq overlaps'
    <3> SUFFICES ASSUME NEW k \in Loads, InFlight(k)
                 PROVE  <<k, l>> \in overlaps' /\ <<l, k>> \in overlaps'
      OBVIOUS
    <3> DEFINE others == {m \in Loads : InFlight(m)}
    <3>1. k \in others
      OBVIOUS
    <3>2. overlaps' = overlaps \cup ({l} \X others) \cup (others \X {l})
      BY <1>1 DEF LoadBegin
    <3> HIDE DEF others
    <3> QED
      BY <3>1, <3>2
  <2>2. overlaps \subseteq overlaps'
    BY <1>1, Zenon DEF LoadBegin
  <2>3. PICK shrink \in BOOLEAN : load' = [load EXCEPT ![l].pc = "stop", ![l].shrink = shrink]
    BY <1>1 DEF LoadBegin
  <2>4. load'[l].pc = "stop" /\ \A k \in Loads \ {l} : load'[k] = load[k]
    BY <1>0, <2>3 DEF LoadType
  <2>5. load[l].pc = "idle" /\ UNCHANGED <<generation, engine, gaveUp, stop, watchdog>>
    BY <1>1 DEF LoadBegin, manVars
  <2> QED
    BY <2>1, <2>2, <2>4, <2>5 DEF Bumped
<1>2. CASE LoadInstall(l)
  <2>1. Child(Config(l, load[l].window), 0, 0).by = 0
    BY DEF Child
  <2> QED
    BY <1>0, <1>2, <2>1 DEF LoadInstall, LoadGoes, InFlight, Bumped, LoadType, manVars
<1>3. CASE LoadWatch(l)
  <2>1. watchdog'[l].pc = "poll" /\ watchdog'[l].gen = generation
    BY <1>0, <1>3 DEF LoadWatch, NoWatchdog
  <2> QED
    BY <1>0, <1>3, <2>1 DEF LoadWatch, LoadGoes, InFlight, Bumped, LoadType, manVars
<1>4. CASE LoadBump(l) \/ LoadReap(l) \/ LoadReady(l)
  BY <1>0, <1>4 DEF LoadBump, LoadReap, LoadReady, LoadGoes, InFlight, Bumped, LoadType, manVars
<1>5. CASE LoadShrinks(l) \/ LoadFails(l)
  BY <1>0, <1>5 DEF LoadShrinks, LoadFails, LoadGoes, InFlight, Bumped, LoadType, manVars
<1>6. CASE LoadRemember(l) \/ LoadForgive(l)
  BY <1>0, <1>6 DEF LoadRemember, LoadForgive, LoadGoes, InFlight, Bumped, LoadType, manVars
<1> QED
  BY <1>1, <1>2, <1>3, <1>4, <1>5, <1>6 DEF LoadStep

\* Every step keeps the ages of the watchdogs and of their repairs.
LEMMA AgesStep == TypeOK /\ Ages /\ [Next]_vars => Ages'
<1> SUFFICES ASSUME TypeOK, Ages, [Next]_vars PROVE Ages'
  OBVIOUS
<1>0. /\ generation \in Nat /\ engine \in Engines
      /\ \A w \in Loads : watchdog[w].gen \in Nat /\ watchdog[w].healGen \in Nat
  BY DEF TypeOK
<1>1. ASSUME NEW l \in Loads, LoadBegin(l) \/ LoadStep(l) PROVE Ages'
  <2>0. watchdog[l].pc = "none"
    BY <1>1, LoadMoves DEF Ages
  <2>1. \A w \in Loads : watchdog'[w] = watchdog[w]
           \/ (w = l /\ watchdog'[w].pc = "poll" /\ watchdog'[w].gen = generation /\ load'[l].pc = "done")
    BY <1>1, LoadMoves
  <2>2. generation' \in Nat /\ generation <= generation'
    BY <1>0, <1>1, LoadMoves
  <2>3. engine'.by # 0 => watchdog'[engine'.by].pc # "none"
    <3>1. engine' = engine \/ engine'.by = 0
      BY <1>1, LoadMoves, Builds
    <3>2. engine.by # 0 => engine.by \in Loads
      BY <1>0 DEF Engines
    <3> QED
      BY <2>1, <3>1, <3>2 DEF Ages
  <2>4. \A w \in Loads : watchdog'[w].pc # "none" => load'[w].pc = "done"
    BY <1>1, <2>0, <2>1, LoadMoves DEF Ages
  <2>5. \A w \in Loads : watchdog'[w].gen <= generation'
    BY <1>0, <2>1, <2>2 DEF Ages
  <2>6. \A w \in Loads : watchdog'[w].pc \in {"asleep", "reap", "starting", "putback"}
           => watchdog'[w].gen <= watchdog'[w].healGen /\ watchdog'[w].healGen <= generation'
    BY <1>0, <2>1, <2>2 DEF Ages
  <2> QED
    BY <2>3, <2>4, <2>5, <2>6 DEF Ages
<1>2. ASSUME NEW w \in Loads, WatchdogStep(w) PROVE Ages'
  <2>1. engine'.by # 0 => watchdog'[engine'.by].pc # "none"
    <3>1. engine' = engine \/ engine'.by \in {0, w}
      BY <1>2, WatchdogMoves, Builds
    <3>2. engine.by # 0 => engine.by \in Loads
      BY <1>0 DEF Engines
    <3> QED
      BY <1>2, <3>1, <3>2, WatchdogMoves DEF Ages
  <2>2. \A v \in Loads : watchdog'[v].gen <= generation'
    BY <1>2, WatchdogMoves DEF Ages
  <2>3. \A v \in Loads : watchdog'[v].pc # "none" => load'[v].pc = "done"
    BY <1>2, WatchdogMoves DEF Ages
  <2>4. \A v \in Loads : watchdog'[v].pc \in {"asleep", "reap", "starting", "putback"}
           => watchdog'[v].gen <= watchdog'[v].healGen /\ watchdog'[v].healGen <= generation'
    BY <1>0, <1>2, WatchdogMoves DEF Ages
  <2> QED
    BY <2>1, <2>2, <2>3, <2>4 DEF Ages
<1>3. ASSUME NEW s \in Stops, StopBump(s) \/ StopReap(s) PROVE Ages'
  <2>1. UNCHANGED <<watchdog, load>> /\ generation <= generation' /\ generation' \in Nat
    BY <1>0, <1>3 DEF StopBump, StopReap
  <2>2. engine' = engine \/ engine'.by = 0
    BY <1>3, Builds DEF StopBump, StopReap
  <2> QED
    BY <1>0, <2>1, <2>2 DEF Ages
<1>4. CASE EngineDies
  <2>1. engine'.by = engine.by
    BY <1>0, <1>4 DEF EngineDies, Engines
  <2> QED
    BY <1>4, <2>1 DEF EngineDies, Ages, userVars
<1>5. CASE UNCHANGED vars
  BY <1>5 DEF Ages, vars, userVars
<1> QED
  BY <1>1, <1>2, <1>3, <1>4, <1>5 DEF Next

\* Every step keeps the record of who was under way with whom.
LEMMA TogetherStep == TypeOK /\ Ages /\ Together /\ [Next]_vars => Together'
<1> SUFFICES ASSUME TypeOK, Ages, Together, [Next]_vars PROVE Together'
  OBVIOUS
<1>0. generation \in Nat /\ \A w \in Loads : watchdog[w].gen \in Nat /\ watchdog[w].gen <= generation
  BY DEF TypeOK, Ages
<1>1. ASSUME NEW l \in Loads, LoadBegin(l) \/ LoadStep(l) PROVE Together'
  <2>1. \A k \in Loads : k # l => load'[k] = load[k] /\ watchdog'[k] = watchdog[k]
    BY <1>1, LoadMoves
  <2>2. overlaps \subseteq overlaps'
    BY <1>1, LoadMoves
  <2>3. \A j, k \in Loads : (j # k /\ InFlight(j)' /\ InFlight(k)') => <<j, k>> \in overlaps'
    <3>1. \A k \in Loads : (k # l /\ InFlight(k)) => <<k, l>> \in overlaps' /\ <<l, k>> \in overlaps'
      BY <1>1, <2>2, LoadMoves DEF Together
    <3>2. \A k \in Loads : k # l => (InFlight(k)' <=> InFlight(k))
      BY <2>1 DEF InFlight
    <3> QED
      BY <2>2, <3>1, <3>2 DEF Together
  <2>4. CASE generation' = generation + 1
    <3>1. \A v \in Loads : ~Spawned(v)'
      <4> SUFFICES ASSUME NEW v \in Loads PROVE watchdog'[v].pc = "none" \/ watchdog'[v].gen # generation'
        BY DEF Spawned
      <4>1. watchdog'[v] = watchdog[v]
        BY <1>0, <1>1, <2>1, <2>4, LoadMoves
      <4> QED
        BY <1>0, <2>4, <4>1
    <3> QED
      BY <2>3, <3>1 DEF Together
  <2>5. CASE generation' = generation
    <3>1. \A v \in Loads : v # l => (Spawned(v)' <=> Spawned(v)) /\ (Bumped(v)' <=> Bumped(v))
      BY <2>1, <2>5 DEF Spawned, Bumped
    <3>2. Bumped(l)' => Bumped(l)
      BY <1>0, <1>1, <2>5, LoadMoves
    <3>3. Spawned(l)' => Spawned(l) \/ load[l].pc = "watch"
      BY <1>1, <2>5, LoadMoves DEF Spawned
    <3>4. load[l].pc = "watch" => Bumped(l) /\ InFlight(l)
      BY DEF Bumped, InFlight
    <3>5. \A k \in Loads : Bumped(k) => InFlight(k)
      BY DEF Bumped, InFlight
    <3>6. \A v, k \in Loads : (v # k /\ Spawned(v)' /\ Bumped(k)') => {<<v, k>>, <<k, v>>} \subseteq overlaps'
      <4> SUFFICES ASSUME NEW v \in Loads, NEW k \in Loads, v # k, Spawned(v)', Bumped(k)'
                   PROVE  <<v, k>> \in overlaps /\ <<k, v>> \in overlaps
        BY <2>2
      <4>1. Bumped(k)
        BY <3>1, <3>2
      <4>2. CASE Spawned(v)
        BY <4>1, <4>2 DEF Together
      <4>3. CASE ~Spawned(v)
        BY <3>1, <3>3, <3>4, <3>5, <4>1, <4>3 DEF Together
      <4> QED
        BY <4>2, <4>3
    <3>7. \A v, w \in Loads : (v # w /\ Spawned(v)' /\ Spawned(w)') => <<v, w>> \in overlaps'
      <4> SUFFICES ASSUME NEW v \in Loads, NEW w \in Loads, v # w, Spawned(v)', Spawned(w)'
                   PROVE  <<v, w>> \in overlaps
        BY <2>2
      <4>1. CASE Spawned(v) /\ Spawned(w)
        BY <4>1 DEF Together
      <4>2. CASE ~Spawned(v)
        BY <3>1, <3>3, <3>4, <4>2 DEF Together
      <4>3. CASE ~Spawned(w)
        BY <3>1, <3>3, <3>4, <4>3 DEF Together
      <4> QED
        BY <4>1, <4>2, <4>3
    <3> QED
      BY <2>3, <3>6, <3>7 DEF Together
  <2> QED
    BY <1>1, <2>4, <2>5, LoadMoves
<1>2. ASSUME NEW w \in Loads, WatchdogStep(w) PROVE Together'
  <2>1. \A v \in Loads : Spawned(v)' => Spawned(v)
    BY <1>2, WatchdogMoves DEF Spawned
  <2>2. load' = load /\ overlaps' = overlaps
    BY <1>2, WatchdogMoves
  <2> QED
    BY <2>1, <2>2 DEF Together, Bumped, InFlight
<1>3. ASSUME NEW s \in Stops, StopBump(s) PROVE Together'
  <2>1. UNCHANGED <<watchdog, load, overlaps>> /\ generation' = generation + 1
    BY <1>3 DEF StopBump
  <2>2. \A v \in Loads : ~Spawned(v)'
    BY <1>0, <2>1 DEF Spawned
  <2> QED
    BY <2>1, <2>2 DEF Together, InFlight
<1>4. CASE (\E s \in Stops : StopReap(s)) \/ EngineDies \/ UNCHANGED vars
  BY <1>4 DEF StopReap, EngineDies, vars, userVars, Together, InFlight, Bumped, Spawned
<1> QED
  BY <1>1, <1>2, <1>3, <1>4 DEF Next

\* Every step leaves a child that is in the slot with somebody to watch it.
LEMMA AttendedStep == TypeOK /\ Ages /\ Attended /\ [Next]_vars => Attended'
<1> DEFINE Mine == engine.by # 0 => watchdog[engine.by].gen = generation
           Late == \E l \in Loads : load[l].pc \in {"remember", "forgive", "watch"}
           Goal == gaveUp' \/ (\E w \in Loads : Watching(w)') \/ Late'
<1> SUFFICES ASSUME TypeOK, Ages, Attended, [Next]_vars, engine' # NoEngine, ~Reaping', Mine'
             PROVE  Goal
  BY DEF Attended
<1>0. /\ generation \in Nat /\ engine \in Engines
      /\ \A w \in Loads : watchdog[w].gen \in Nat /\ watchdog[w].gen <= generation
      /\ stop \in [Stops -> {"idle", "reap", "done"}]
      /\ engine.by # 0 => engine.by \in Loads
  BY DEF TypeOK, Ages, Engines
<1>1. ASSUME NEW l \in Loads, LoadBegin(l) \/ LoadStep(l) PROVE Goal
  <2>1. load'[l].pc # "reap" /\ generation' = generation /\ load[l].pc # "reap"
    BY <1>1, LoadMoves DEF Reaping
  <2>2. ~Reaping
    BY <1>1, <2>1, LoadMoves DEF Reaping
  <2>3. CASE load'[l].pc \in {"remember", "forgive", "watch"}
    BY <2>3
  <2>4. CASE load[l].pc = "watch"
    <3>1. watchdog'[l].pc = "poll" /\ watchdog'[l].gen = generation'
      BY <1>1, <2>1, <2>4, LoadMoves
    <3> QED
      BY <3>1 DEF Watching, Live
  <2>5. CASE load'[l].pc \notin {"remember", "forgive", "watch"} /\ load[l].pc # "watch"
    <3>1. engine' = engine /\ gaveUp' = gaveUp /\ load[l].pc \notin {"remember", "forgive", "watch"}
      BY <1>1, <2>5, LoadMoves
    <3>2. \A w \in Loads : watchdog'[w] = watchdog[w]
      BY <1>1, <2>5, LoadMoves
    <3>3. Mine
      BY <1>0, <2>1, <3>1, <3>2
    <3>4. gaveUp \/ (\E w \in Loads : Watching(w)) \/ Late
      BY <2>2, <3>1, <3>3 DEF Attended
    <3>5. Late => Late'
      BY <1>1, <3>1, LoadMoves
    <3>6. \A w \in Loads : Watching(w) => Watching(w)'
      BY <2>1, <3>2 DEF Watching, Live, Healing
    <3> QED
      BY <3>1, <3>4, <3>5, <3>6
  <2> QED
    BY <2>3, <2>4, <2>5
<1>2. ASSUME NEW w \in Loads, WatchdogStep(w) PROVE Goal
  <2>1. ~Reaping /\ generation' = generation /\ (Late => Late') /\ (gaveUp => gaveUp')
    BY <1>2, WatchdogMoves DEF Reaping
  <2>2. CASE engine' # engine
    <3>1. engine'.by = w /\ watchdog'[w].pc = "poll" /\ w # 0
      BY <1>2, <2>2, WatchdogMoves, EngineAssumption DEF Loads
    <3>2. watchdog'[w].gen = generation'
      BY <3>1
    <3> QED
      BY <3>1, <3>2 DEF Watching, Live
  <2>3. CASE engine' = engine
    <3>1. Mine
      BY <1>0, <1>2, <2>1, <2>3, WatchdogMoves
    <3>2. gaveUp \/ (\E v \in Loads : Watching(v)) \/ Late
      BY <2>1, <2>3, <3>1 DEF Attended
    <3>3. \A v \in Loads : Watching(v) => Watching(v)' \/ gaveUp'
      <4> SUFFICES ASSUME NEW v \in Loads, Watching(v), ~gaveUp' PROVE Watching(v)'
        OBVIOUS
      <4>1. CASE v # w
        BY <1>2, <2>1, <4>1, WatchdogMoves DEF Watching, Live, Healing
      <4>2. CASE v = w
        <5>1. watchdog[w].pc \in {"asleep", "putback"} => watchdog[w].healGen = generation
          <6>1. watchdog[w].healGen \in Nat /\ watchdog[w].gen = generation
            BY <4>2 DEF TypeOK, Watching
          <6> QED
            BY <1>0, <6>1 DEF Ages
        <5>2. watchdog'[w].pc \notin {"none", "ended"} /\ watchdog'[w].gen = generation'
          BY <1>2, <2>1, <4>2, <5>1, WatchdogMoves DEF Watching
        <5>3. watchdog'[w].pc \in WatchdogPcs
          BY TypeStep DEF TypeOK
        <5> QED
          BY <4>2, <5>2, <5>3 DEF Watching, Live, Healing, WatchdogPcs
      <4> QED
        BY <4>1, <4>2
    <3> QED
      BY <2>1, <3>2, <3>3
  <2> QED
    BY <2>2, <2>3
<1>3. ASSUME NEW s \in Stops, StopBump(s) \/ StopReap(s) PROVE Goal
  BY <1>0, <1>3 DEF StopBump, StopReap, Reaping
<1>4. CASE EngineDies
  <2>1. engine'.by = engine.by /\ engine # NoEngine
    BY <1>0, <1>4 DEF EngineDies, Engines, NoEngine
  <2> QED
    BY <1>4, <2>1 DEF EngineDies, Attended, Reaping, Watching, Live, Healing, userVars, manVars
<1>5. CASE UNCHANGED vars
  BY <1>5 DEF vars, userVars, manVars, Attended, Reaping, Watching, Live, Healing
<1> QED
  BY <1>1, <1>2, <1>3, <1>4, <1>5 DEF Next

\* The invariant of who watches what.
WatchInv == TypeOK /\ Ages /\ Together /\ Attended

\* It holds throughout.
LEMMA WatchHolds == Spec => []WatchInv
<1>1. Init => WatchInv
  <2> SUFFICES ASSUME Init PROVE WatchInv
    OBVIOUS
  <2>1. TypeOK
    BY InitInv DEF Inv
  <2>2. \A l \in Loads : load[l].pc = "idle" /\ watchdog[l] = NoWatchdog
    BY DEF Init
  <2>3. NoWatchdog.pc = "none" /\ NoWatchdog.gen = 0 /\ NoEngine.by = 0
    BY DEF NoWatchdog, NoEngine
  <2>4. generation = 0 /\ engine = NoEngine
    BY DEF Init
  <2> QED
    BY <2>1, <2>2, <2>3, <2>4 DEF WatchInv, Ages, Together, Attended, InFlight, Bumped, Spawned
<1>2. WatchInv /\ [Next]_vars => WatchInv'
  BY TypeStep, AgesStep, TogetherStep, AttendedStep DEF WatchInv
<1> QED
  BY <1>1, <1>2, PTL DEF Spec

(* Two watchdogs act on the current generation only if the loads that spawned   *)
(* them were under way at the same time, however loads, Stops and repairs       *)
(* interleave (the generation test at the top of the watchdog's loop).          *)
THEOREM OneWatchdogHolds == Spec => []OneWatchdog
<1>1. WatchInv => OneWatchdog
  BY DEF WatchInv, Together, OneWatchdog, Watching, Live, Healing, Spawned
<1> QED
  BY <1>1, WatchHolds, PTL

(* Once the requests are through, a child in the slot that was put there by a   *)
(* load or for the current generation has a watchdog of that generation, or     *)
(* gave_up says so: no order of loads, Stops, deaths and repairs strands it.    *)
THEOREM EngineIsWatchedHolds == Spec => []EngineIsWatched
<1>1. WatchInv => EngineIsWatched
  BY DEF WatchInv, Attended, EngineIsWatched, InFlight
<1> QED
  BY <1>1, WatchHolds, PTL
=============================================================================
