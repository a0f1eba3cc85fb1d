CONSTANTS
    MaxLoads = 1
    MaxStops = 1
    Windows = 2
    Failures = 2
    MaxRestarts = 2
SPECIFICATION Spec
INVARIANT
    StopNotHealed
CHECK_DEADLOCK FALSE
