CONSTANTS
    MaxConvs = 2
    MaxRuns = 3
    MaxCalls = 2
    MaxBatch = 2
    MaxFaults = 1
    MaxDecisions = 1
    AnswerChecks = FALSE
SPECIFICATION Spec
INVARIANTS
    TypeOK
    ReplayExact
    ResumeKeepsWork
    ResumeNeverRepeats
    ContinueMeansTheLastRun
CHECK_DEADLOCK FALSE
