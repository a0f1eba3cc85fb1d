CONSTANTS
    Jobs = {1}
    MaxCrashes = 0
    MaxOpens = 1
SPECIFICATION Spec
INVARIANTS
    TileEnds
CHECK_DEADLOCK FALSE
