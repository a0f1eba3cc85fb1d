CONSTANTS
    MaxRuns = 4
    MaxRoots = 1
    MaxCrashes = 1
    MaxConcurrent = 2
    MaxParallel = 2
    MaxPerTurn = 2
    AllowNested = FALSE
    OpenMayFail = TRUE
SPECIFICATION FairSpec
INVARIANTS
    TypeOK
    PoolAccounting
    NoStrandedQueue
    QueuedStoppable
    RowMatchesHandle
    LeadWaits
    DelegationBounded
PROPERTIES
    StopReachesAll
    ChildRowsFollowTheirLife
    EveryChildEnds
CHECK_DEADLOCK FALSE
