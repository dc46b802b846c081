SPECIFICATION Spec
CONSTANTS
    Requests = {1, 2, 3, 4}
    HashOf <- MCHashOf
    Proves = {2, 3}
    ShownOnce = TRUE
    Faults = {}
INVARIANTS
    DemandNotReplayed
CHECK_DEADLOCK FALSE
