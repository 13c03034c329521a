SPECIFICATION FairSpec
CONSTANTS
    IPv6 = TRUE
    Addresses = {a, b}
    NoAddress = NoAddress
    Gateways = {g}
    NoGateway = NoGateway
    MaxAttempts = 2
    MaxEvents = 3
    MaxTroubles = 1
INVARIANTS
    TypeOK
    LeaseIsInstalled
    OneFaultKeepsAddress
    StartupDeconfigIgnored
    LoopGoesOn
PROPERTIES
    RoutesLostOnlyWithAddress
    ClientsEnd
    ManagerLifeHolds
CHECK_DEADLOCK FALSE
