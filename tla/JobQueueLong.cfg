SPECIFICATION Spec
CONSTANTS
    Jobs = {1, 2}
    Slots = {s1, s2}
    OldPod = {}
    Schedulers = {c1}
    KeyOf <- OneKey
    Handles <- AllKinds
    Claims <- AllKinds
    Detached = {1}
    LongRunning = {1}
    Duties = {1, 2}
    Pollers = {1, 2}
    MaxAttempts = 1
    Lease = 2
    JobTimeout = 1
    LongJobTimeout = 3
    Waits = {1}
    ReviveAfter = 1
    ReviveCap = 2
    KeepFinished = 2
    MaxClock = 5
SYMMETRY Symmetry
INVARIANTS
    FenceUnique
    AtLeastOnce
    GoneForGood
    OneOpenPerKey
PROPERTIES
    IsLifecycle
CHECK_DEADLOCK FALSE
