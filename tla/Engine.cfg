CONSTANTS
    MaxLoads = 2
    MaxStops = 1
    Windows = 2
    Failures = 2
    MaxRestarts = 2
SPECIFICATION FairSpec
INVARIANTS
    TypeOK
    HealYields
    OneWatchdog
    EngineIsWatched
    RepairsWhatWorked
PROPERTIES
    DeadIsNoticed
CHECK_DEADLOCK FALSE
