SPECIFICATION Spec
CONSTANTS
    NoSnapshot = NoSnapshot
    Endpoints = {e1, e2}
    Writers = {w1, w2, w3}
    FaultyDisk = TRUE
    MaxChanges = 4
INVARIANTS
    SettledFileIsExact
PROPERTIES
    DurableTableHolds
