------------------------------- MODULE Engine -------------------------------
(***************************************************************************)
(* The local model server and who may start or stop it                       *)
(* (runtime/manager.rs: load_model, stop, heal; runtime/watchdog.rs; the     *)
(* command layer's load_with_window in commands/runtime.rs).                 *)
(*                                                                           *)
(* A load and a heal each take minutes: they stop what runs, start a child,  *)
(* wait for it to answer, and only then put it in the shared slot.  Loads,   *)
(* Stops and watchdogs run beside each other; what keeps them apart is the   *)
(* generation number, which every load and Stop advances.  A child may die   *)
(* at any time and a health check of a living child may still time out.      *)
(* restarts_session, which only counts for the status line, is left out.     *)
(***************************************************************************)
EXTENDS Naturals

CONSTANTS
    MaxLoads,      \* how many loads the user asks for (bound)
    MaxStops,      \* how many Stops, the one at exit included (bound)
    Windows,       \* how many context windows a shrinking load can try (bound)
    Failures,      \* FAILURES_BEFORE_RESTART
    MaxRestarts    \* MAX_RESTARTS

ASSUME EngineAssumption ==
    /\ MaxLoads \in Nat /\ MaxStops \in Nat
    /\ Windows \in Nat \ {0} /\ Failures \in Nat \ {0} /\ MaxRestarts \in Nat \ {0}

Loads == 1..MaxLoads
Stops == 1..MaxStops

VARIABLES
    generation,    \* RuntimeManager.generation
    engine,        \* RuntimeManager.engine
    lastConfig,    \* RuntimeManager.last_config
    restarts,      \* how many entries RuntimeManager.restarts holds
    gaveUp,        \* RuntimeManager.gave_up
    load,          \* where each load is
    stop,          \* where each Stop is
    watchdog,      \* the watchdog each load spawned
    proven,        \* history: the configurations that have once become healthy
    overlaps       \* history: the pairs of loads that were under way together

userVars == <<load, stop>>
manVars  == <<lastConfig, restarts, gaveUp>>
vars == <<generation, engine, manVars, userVars, watchdog, proven, overlaps>>

\* EngineConfig: which load chose the model, and the window.
Config(l, n) == [load |-> l, window |-> n]
Configs == [load : Loads, window : 1..Windows]
NoConfig == [load |-> 0, window |-> 0]

\* A child in the slot: its configuration, whether it still lives, and which
\* watchdog put it there (0: a load) for which generation.
Child(c, w, g) == [config |-> c, alive |-> TRUE, by |-> w, gen |-> g]
NoEngine == [config |-> NoConfig, alive |-> FALSE, by |-> 0, gen |-> 0]

NoWatchdog == [pc |-> "none", gen |-> 0, fails |-> 0, healGen |-> 0, config |-> NoConfig]

InFlight(l) == load[l].pc \notin {"idle", "done", "failed"}
Healing(w) == watchdog[w].pc \in {"heal", "asleep", "reap", "starting", "putback"}
Live(w) == watchdog[w].pc \in {"poll", "probe"} \/ Healing(w)
Watching(w) == Live(w) /\ watchdog[w].gen = generation
Dead == engine # NoEngine /\ ~engine.alive

\* Requests that have advanced the generation and not yet emptied the slot.
Reaping == (\E l \in Loads : load[l].pc = "reap") \/ (\E s \in Stops : stop[s] = "reap")
-----------------------------------------------------------------------------
Init ==
    /\ generation = 0 /\ engine = NoEngine
    /\ lastConfig = NoConfig /\ restarts = 0 /\ gaveUp = FALSE
    /\ load = [l \in Loads |-> [pc |-> "idle", window |-> Windows, shrink |-> FALSE]]
    /\ stop = [s \in Stops |-> "idle"]
    /\ watchdog = [w \in Loads |-> NoWatchdog]
    /\ proven = {} /\ overlaps = {}

LoadGoes(l, from, to) ==
    /\ load[l].pc = from
    /\ load' = [load EXCEPT ![l].pc = to]

\* load_with_window: the window to try first, and whether it may shrink.
LoadBegin(l) ==
    LET others == {k \in Loads : InFlight(k)} IN
    /\ load[l].pc = "idle"
    /\ \E shrink \in BOOLEAN : load' = [load EXCEPT ![l].pc = "stop", ![l].shrink = shrink]
    /\ overlaps' = overlaps \cup ({l} \X others) \cup (others \X {l})
    /\ UNCHANGED <<generation, engine, manVars, stop, watchdog, proven>>

\* Mutant: a load empties the slot without advancing the generation.
LoadBumpForgotten(l) ==
    /\ LoadGoes(l, "stop", "reap")
    /\ UNCHANGED <<generation, engine, manVars, stop, watchdog, proven, overlaps>>

\* load_model: self.stop() advances the generation, then empties the slot.
LoadBump(l) ==
    /\ LoadGoes(l, "stop", "reap")
    /\ generation' = generation + 1
    /\ UNCHANGED <<engine, manVars, stop, watchdog, proven, overlaps>>

\* Mutant: the configuration is remembered before it has been seen to work.
LoadReapRemembers(l) ==
    /\ LoadGoes(l, "reap", "starting")
    /\ engine' = NoEngine /\ lastConfig' = Config(l, load[l].window)
    /\ UNCHANGED <<generation, restarts, gaveUp, stop, watchdog, proven, overlaps>>

LoadReap(l) ==
    /\ LoadGoes(l, "reap", "starting")
    /\ engine' = NoEngine
    /\ UNCHANGED <<generation, manVars, stop, watchdog, proven, overlaps>>

\* spawn_engine and wait_until_healthy: the child answers, ...
LoadReady(l) ==
    /\ LoadGoes(l, "starting", "install")
    /\ proven' = proven \cup {Config(l, load[l].window)}
    /\ UNCHANGED <<generation, engine, manVars, stop, watchdog, overlaps>>

\* ... dies while starting and is tried again with a smaller window, ...
LoadShrinks(l) ==
    /\ load[l].pc = "starting" /\ load[l].shrink /\ load[l].window > 1
    /\ load' = [load EXCEPT ![l].pc = "stop", ![l].window = @ - 1]
    /\ UNCHANGED <<generation, engine, manVars, stop, watchdog, proven, overlaps>>

\* ... or the error is given back: a missing binary, a timeout, the last window.
LoadFails(l) ==
    /\ LoadGoes(l, "starting", "failed")
    /\ UNCHANGED <<generation, engine, manVars, stop, watchdog, proven, overlaps>>

\* The child goes into the slot, whatever was asked for in the meantime.
LoadInstall(l) ==
    /\ LoadGoes(l, "install", "remember")
    /\ engine' = Child(Config(l, load[l].window), 0, 0)
    /\ UNCHANGED <<generation, manVars, stop, watchdog, proven, overlaps>>

LoadRemember(l) ==
    /\ LoadGoes(l, "remember", "forgive")
    /\ lastConfig' = Config(l, load[l].window)
    /\ UNCHANGED <<generation, engine, restarts, gaveUp, stop, watchdog, proven, overlaps>>

LoadForgive(l) ==
    /\ LoadGoes(l, "forgive", "watch")
    /\ restarts' = 0 /\ gaveUp' = FALSE
    /\ UNCHANGED <<generation, engine, lastConfig, stop, watchdog, proven, overlaps>>

\* Back in load_with_window: a watchdog for the generation as it is now.
LoadWatch(l) ==
    /\ LoadGoes(l, "watch", "done")
    /\ watchdog' = [watchdog EXCEPT ![l] = [NoWatchdog EXCEPT !.pc = "poll", !.gen = generation]]
    /\ UNCHANGED <<generation, engine, manVars, stop, proven, overlaps>>

\* stop_engine_cmd, and shutdown_engines at exit.
StopBump(s) ==
    /\ stop[s] = "idle"
    /\ stop' = [stop EXCEPT ![s] = "reap"]
    /\ generation' = generation + 1
    /\ UNCHANGED <<engine, manVars, load, watchdog, proven, overlaps>>

StopReap(s) ==
    /\ stop[s] = "reap"
    /\ stop' = [stop EXCEPT ![s] = "done"]
    /\ engine' = NoEngine
    /\ UNCHANGED <<generation, manVars, load, watchdog, proven, overlaps>>

\* The child dies: out of memory, a driver reset, a stray kill.
EngineDies ==
    /\ engine.alive
    /\ engine' = [engine EXCEPT !.alive = FALSE]
    /\ UNCHANGED <<generation, manVars, userVars, watchdog, proven, overlaps>>
-----------------------------------------------------------------------------
WatchdogGoes(w, from, to) ==
    /\ watchdog[w].pc = from
    /\ watchdog' = [watchdog EXCEPT ![w].pc = to]

\* Back to the top of the loop, or out of it, with nothing left of a repair.
Settled(w, to) == [NoWatchdog EXCEPT !.pc = to, !.gen = watchdog[w].gen]
WatchdogEnds(w) == watchdog' = [watchdog EXCEPT ![w] = Settled(w, "ended")]
WatchesOn(w) == watchdog' = [watchdog EXCEPT ![w] = Settled(w, "poll")]

PollPassed(w) == WatchesOn(w)

\* Mutant: a failed poll is not carried to the next one.
PollFailedForgets(w) ==
    watchdog' = [watchdog EXCEPT ![w].pc = IF watchdog[w].fails + 1 < Failures THEN "poll" ELSE "heal"]

\* One failed poll; the last of a row starts a repair.
PollFailed(w) ==
    watchdog' = [watchdog EXCEPT
        ![w].pc    = IF watchdog[w].fails + 1 < Failures THEN "poll" ELSE "heal",
        ![w].fails = IF watchdog[w].fails + 1 < Failures THEN @ + 1 ELSE 0]

\* The top of the loop and engine_is_healthy up to the request: no engine is a
\* healthy one, a child that has exited is a failure, any other is asked.
WatchPoll(w) ==
    /\ watchdog[w].pc = "poll"
    /\ \/ /\ watchdog[w].gen # generation
          /\ WatchdogEnds(w)
       \/ /\ watchdog[w].gen = generation
          /\ \/ engine = NoEngine /\ PollPassed(w)
             \/ Dead /\ PollFailed(w)
             \/ engine.alive /\ WatchdogGoes(w, "poll", "probe")
    /\ UNCHANGED <<generation, engine, manVars, userVars, proven, overlaps>>

\* The answer, up to five seconds later and without the lock.  A child that
\* lives may be too slow to answer; one that is gone does not.
WatchAnswer(w) ==
    /\ watchdog[w].pc = "probe"
    /\ \/ engine.alive /\ PollPassed(w)
       \/ PollFailed(w)
    /\ UNCHANGED <<generation, engine, manVars, userVars, proven, overlaps>>

\* Mutant: one restart more than the budget.
HealBudgetOneMore(w) ==
    /\ watchdog[w].pc = "heal"
    /\ \E left \in 0..restarts :
          \/ /\ left > MaxRestarts
             /\ restarts' = left /\ gaveUp' = TRUE
             /\ WatchdogEnds(w)
          \/ /\ left <= MaxRestarts
             /\ restarts' = left + 1
             /\ watchdog' = [watchdog EXCEPT ![w].pc = "asleep", ![w].healGen = generation,
                                             ![w].config = lastConfig]
             /\ UNCHANGED gaveUp
    /\ UNCHANGED <<generation, engine, lastConfig, userVars, proven, overlaps>>

\* Mutant: the watchdog gives up and nobody is told.
HealBudgetSilent(w) ==
    /\ watchdog[w].pc = "heal"
    /\ \E left \in 0..restarts :
          \/ left >= MaxRestarts /\ restarts' = left /\ WatchdogEnds(w)
          \/ /\ left < MaxRestarts
             /\ restarts' = left + 1
             /\ watchdog' = [watchdog EXCEPT ![w].pc = "asleep", ![w].healGen = generation,
                                             ![w].config = lastConfig]
    /\ UNCHANGED <<generation, engine, lastConfig, gaveUp, userVars, proven, overlaps>>

\* heal: the generation it works for, and the rolling-hour budget.  Which of the
\* earlier restarts have aged out is free.  A watchdog exists only once a load
\* has set last_config.
HealBudget(w) ==
    /\ watchdog[w].pc = "heal"
    /\ \E left \in 0..restarts :
          \/ /\ left >= MaxRestarts
             /\ restarts' = left /\ gaveUp' = TRUE
             /\ WatchdogEnds(w)
          \/ /\ left < MaxRestarts
             /\ restarts' = left + 1
             /\ watchdog' = [watchdog EXCEPT ![w].pc = "asleep", ![w].healGen = generation,
                                             ![w].config = lastConfig]
             /\ UNCHANGED gaveUp
    /\ UNCHANGED <<generation, engine, lastConfig, userVars, proven, overlaps>>

\* After the backoff: Superseded, or on to the remnant.
HealWake(w) ==
    /\ watchdog[w].pc = "asleep"
    /\ \/ watchdog[w].healGen # generation /\ WatchdogEnds(w)
       \/ watchdog[w].healGen = generation /\ WatchdogGoes(w, "asleep", "reap")
    /\ UNCHANGED <<generation, engine, manVars, userVars, proven, overlaps>>

HealReap(w) ==
    /\ WatchdogGoes(w, "reap", "starting")
    /\ engine' = NoEngine
    /\ UNCHANGED <<generation, manVars, userVars, proven, overlaps>>

\* spawn_engine and wait_until_healthy again; Failed keeps watching.
HealStart(w) ==
    /\ \/ WatchdogGoes(w, "starting", "putback")
       \/ /\ watchdog[w].pc = "starting"
          /\ WatchesOn(w)
    /\ UNCHANGED <<generation, engine, manVars, userVars, proven, overlaps>>

\* Mutant: the child goes back without the last check.
HealPutBackUnchecked(w) ==
    /\ watchdog[w].pc = "putback"
    /\ engine' = Child(watchdog[w].config, w, watchdog[w].healGen)
    /\ WatchesOn(w)
    /\ UNCHANGED <<generation, manVars, userVars, proven, overlaps>>

\* The last check and the assignment, under one lock.
HealPutBack(w) ==
    /\ watchdog[w].pc = "putback"
    /\ \/ /\ watchdog[w].healGen # generation
          /\ WatchdogEnds(w) /\ UNCHANGED engine
       \/ /\ watchdog[w].healGen = generation
          /\ engine' = Child(watchdog[w].config, w, watchdog[w].healGen)
          /\ WatchesOn(w)
    /\ UNCHANGED <<generation, manVars, userVars, proven, overlaps>>
-----------------------------------------------------------------------------
LoadStep(l) ==
    \/ LoadBump(l) \/ LoadReap(l) \/ LoadReady(l) \/ LoadShrinks(l) \/ LoadFails(l)
    \/ LoadInstall(l) \/ LoadRemember(l) \/ LoadForgive(l) \/ LoadWatch(l)

WatchdogStep(w) ==
    \/ WatchPoll(w) \/ WatchAnswer(w)
    \/ HealBudget(w) \/ HealWake(w) \/ HealReap(w) \/ HealStart(w) \/ HealPutBack(w)

Next ==
    \/ \E l \in Loads : LoadBegin(l) \/ LoadStep(l) \/ WatchdogStep(l)
    \/ \E s \in Stops : StopBump(s) \/ StopReap(s)
    \/ EngineDies

Spec == Init /\ [][Next]_vars

\* Timers fire and waits are bounded by their timeouts, so what has been begun
\* goes on; nobody has to load, stop or crash anything.
Fairness ==
    /\ \A l \in Loads : WF_vars(LoadStep(l)) /\ WF_vars(WatchdogStep(l))
    /\ \A s \in Stops : WF_vars(StopReap(s))

FairSpec == Spec /\ Fairness
-----------------------------------------------------------------------------
LoadPcs == {"idle", "stop", "reap", "starting", "install", "remember", "forgive", "watch",
            "done", "failed"}
WatchdogPcs == {"none", "poll", "probe", "heal", "asleep", "reap", "starting", "putback", "ended"}

Engines == [config : Configs \cup {NoConfig}, alive : BOOLEAN, by : Loads \cup {0}, gen : Nat]

(* The slot, the manager's fields and the tasks; the restart history never    *)
(* holds more than MAX_RESTARTS entries, whichever watchdogs write to it.     *)
TypeOK ==
    /\ generation \in Nat /\ engine \in Engines
    /\ lastConfig \in Configs \cup {NoConfig}
    /\ restarts \in 0..MaxRestarts /\ gaveUp \in BOOLEAN
    /\ load \in [Loads -> [pc : LoadPcs, window : 1..Windows, shrink : BOOLEAN]]
    /\ stop \in [Stops -> {"idle", "reap", "done"}]
    /\ watchdog \in [Loads -> [pc : WatchdogPcs, gen : Nat, fails : 0..(Failures - 1),
                               healGen : Nat, config : Configs \cup {NoConfig}]]
    /\ proven \subseteq Configs /\ overlaps \subseteq Loads \X Loads

(* An engine that a repair put back was never put back over a Stop or a load  *)
(* that came after the repair had begun: if the generation has moved on, the  *)
(* one who moved it is about to empty the slot (heal's check under the lock). *)
HealYields ==
    (engine # NoEngine /\ engine.by # 0 /\ engine.gen # generation) => Reaping

(* "A user-requested stop must not be healed" (stop's comment): an engine put  *)
(* back by a watchdog belongs to the generation that watchdog was spawned for. *)
StopNotHealed ==
    (engine # NoEngine /\ engine.by # 0 /\ watchdog[engine.by].gen # generation) => Reaping

(* No two watchdogs act on the current generation unless their loads were      *)
(* under way at the same time (the generation test at the top of the loop).    *)
OneWatchdog ==
    \A v, w \in Loads : (v # w /\ Watching(v) /\ Watching(w)) => <<v, w>> \in overlaps

(* An engine is never left unwatched: once the requests are through, an engine *)
(* that a load, or a repair for the current generation, put in the slot has a  *)
(* watchdog of that generation, or the app has said that it gave up.           *)
EngineIsWatched ==
    (/\ engine # NoEngine /\ ~Reaping /\ \A l \in Loads : ~InFlight(l)
     /\ engine.by # 0 => watchdog[engine.by].gen = generation)
        => (gaveUp \/ \E w \in Loads : Watching(w))

(* A repair starts only a configuration that has already worked: last_config   *)
(* is the window that loaded, so that a restart does not repeat a failure.     *)
RepairsWhatWorked ==
    \A w \in Loads : watchdog[w].pc \in {"asleep", "reap", "starting", "putback"}
        => watchdog[w].config \in proven

(* A dead engine that is being watched does not stay in the slot: it is        *)
(* reaped or replaced, or the app says that it gave up.                        *)
DeadIsNoticed ==
    \A w \in Loads : (Watching(w) /\ Dead) ~> (~Dead \/ gaveUp)
=============================================================================
