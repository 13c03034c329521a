SPECIFICATION RunningSpec
CONSTANTS
    Endpoints = {e1}
    NoSnapshot = NoSnapshot
    FaultyDisk = FALSE
    MaxRetries = 1
    MaxRestarts = 0
    MayClose = FALSE
INVARIANTS
    LeftHasNoManager
CHECK_DEADLOCK FALSE
