SPECIFICATION FairSpec
INVARIANTS
    ClientsOwnLink
    FailureReleases
PROPERTIES
    StartEnds
CHECK_DEADLOCK FALSE
