SPECIFICATION RunningSpec
CONSTANTS
    Endpoints = {e1, e2}
    NoSnapshot = NoSnapshot
    FaultyDisk = TRUE
    MaxRetries = 1
    MaxRestarts = 0
    MayClose = FALSE
SYMMETRY Symmetry
INVARIANTS
    ManagedIsRecorded
CHECK_DEADLOCK FALSE
