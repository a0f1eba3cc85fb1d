CONSTANTS
    MaxRuns = 3
    MaxRoots = 1
    MaxCrashes = 0
    MaxConcurrent = 2
    MaxParallel = 2
    MaxPerTurn = 2
    AllowNested = FALSE
    OpenMayFail = FALSE
SPECIFICATION Spec
INVARIANT NoOrphans
CHECK_DEADLOCK FALSE
