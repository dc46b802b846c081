SPECIFICATION FairSpec
CONSTANTS
    Callers = {1, 2, 3}
    FailureThreshold = 2
    SuccessThreshold = 2
    OpenFor = 2
    HalfOpenProbes = 2
    MayPanic = TRUE
INVARIANTS
    NoLeakedProbe
    ProbeLimit
PROPERTIES
    Recovers
    OpenHolds
