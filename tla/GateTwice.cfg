CONSTANTS
    Apps <- MCApps
    Tools <- MCTools
    AppOf <- MCAppOf
    Plain = {"crm"}
    AutoKind <- MCAutoKind
    Batches <- MCBatches
    Settings <- MCSettings
    c1 = c1
    c2 = c2
    k1 = k1
    k2 = k2
    Calls = {c1, c2}
    Accepts = {k1, k2}
    DefaultCap = 1
    MaxCap = 2
    MaxEdits = 0
    MaxClicks = 2
SPECIFICATION Spec
SYMMETRY CallSymmetry
INVARIANTS
    AcceptedOnce
CHECK_DEADLOCK FALSE
