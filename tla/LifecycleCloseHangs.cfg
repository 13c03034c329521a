SPECIFICATION FairSpec
CONSTANTS
    Endpoints = {e1}
    NoSnapshot = NoSnapshot
    FaultyDisk = FALSE
    MaxRetries = 1
    MaxRestarts = 0
    MayClose = TRUE
PROPERTIES
    CloseReturns
CHECK_DEADLOCK FALSE
