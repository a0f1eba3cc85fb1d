CONSTANTS
    MaxIterations = 2
    MaxFree = 1
    MaxNarration = 1
    MaxEmpty = 1
    MaxPlanNudges = 1
    KeepRecent = 2
    MaxCalls = 2
    MaxSteers = 2
    MaxUnoffered = 1
SPECIFICATION FairSpec
INVARIANTS
    TypeOK
    StepBudget
    SeenIsReplayable
    CallsAnswered
    SteersReadInOrder
PROPERTIES
    StopIsPrompt
    RunEnds
CHECK_DEADLOCK FALSE
