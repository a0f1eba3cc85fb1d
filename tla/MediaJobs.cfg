CONSTANTS
    Jobs = {1, 2}
    MaxCrashes = 1
    MaxOpens = 1
SPECIFICATION FairSpec
INVARIANTS
    OneOutcome
PROPERTIES
    JobSettles
CHECK_DEADLOCK FALSE
