SPECIFICATION Spec
CONSTANTS
    IPv6 = TRUE
    Macvlan = TRUE
    Addresses = {a, b}
    None = None
PROPERTIES
    LeaseIsReturned
CHECK_DEADLOCK FALSE
