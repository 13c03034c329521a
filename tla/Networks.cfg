SPECIFICATION FairSpec
CONSTANTS
    Networks = {n1, n2}
    Handlers = {h1, h2}
    b1 = b1
    Bridges <- MCBridges
    Choices <- MCChoices
    None = None
    MaxRestarts = 1
INVARIANTS
    TypeOK
    ServedIsOurs
    CacheFollowsDocker
PROPERTIES
    RequestsAnswered
CHECK_DEADLOCK FALSE
