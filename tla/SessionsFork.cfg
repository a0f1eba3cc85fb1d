CONSTANTS
    MaxConvs = 2
    MaxRuns = 2
    MaxCalls = 1
    MaxBatch = 1
    MaxFaults = 0
    MaxDecisions = 0
    AnswerChecks = FALSE
SPECIFICATION Spec
INVARIANT ReplayExactEver
CHECK_DEADLOCK FALSE
