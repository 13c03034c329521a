SPECIFICATION Spec
CONSTANTS
    IPv6 = TRUE
    Addresses = {a, b}
    NoAddress = NoAddress
    Gateways = {g}
    NoGateway = NoGateway
    MaxAttempts = 2
    MaxEvents = 3
    MaxTroubles = 1
INVARIANTS
    RestoredLoopGoesOn
CHECK_DEADLOCK FALSE
