SPECIFICATION FairSpec
CONSTANTS
    Endpoints = {e1}
    NoSnapshot = NoSnapshot
    FaultyDisk = FALSE
    MaxRetries = 1
    MaxRestarts = 1
    MayClose = TRUE
INVARIANTS
    TypeOK
    OneHolder
    HeldManagersRun
    MarksAreBounded
    NoOrphanManager
    RestoredAreRecorded
PROPERTIES
    ManagersLiveOnce
    LeaveReturns
    RestoreCompletes
    CloseReturnsUnlessTaken
    PhantomsAreDropped
    
CHECK_DEADLOCK FALSE
