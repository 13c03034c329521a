SPECIFICATION JoinSpec
CONSTANTS
    IPv6 = TRUE
    Macvlan = TRUE
    Addresses = {a, b}
    None = None
    Gateways = {g}
    Empty = Empty
    Nil = Nil
    MaxRoutes = 2
INVARIANTS
    JoinTypeOK
    AnswerIsLease
    RoutesFollowHost
PROPERTIES
    CreateReturns
    UdhcpcIsReaped
CHECK_DEADLOCK FALSE
