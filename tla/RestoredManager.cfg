SPECIFICATION RestoredSpec
CONSTANTS
    IPv6 = TRUE
    Addresses = {a, b}
    NoAddress = NoAddress
    Gateways = {g}
    NoGateway = NoGateway
    MaxAttempts = 1
    MaxEvents = 3
    MaxTroubles = 1
    MaxCrashes = 2
INVARIANTS
    RestoredLastIP
    DroppedOnlyIfCut
    LoopGoesOnUnlessCut
CHECK_DEADLOCK FALSE
