SPECIFICATION Spec
CONSTANTS
    Jobs = {1}
    Slots = {s1, s2, s3}
    OldPod = {s3}
    Schedulers = {c1, c2}
    KeyOf <- NoKeys
    Handles <- RollingUpdate
    Claims <- AllKinds
    Detached = {}
    LongRunning = {}
    Duties = {}
    Pollers = {}
    MaxAttempts = 2
    Lease = 3
    JobTimeout = 1
    LongJobTimeout = 0
    Waits = {0, 1}
    ReviveAfter = 1
    ReviveCap = 2
    KeepFinished = 1
    MaxClock = 7
SYMMETRY Symmetry
INVARIANTS
    TypeOK
    FenceUnique
    AppliedOnce
    WithinBudget
    NoOverlap
PROPERTIES
    FinishedStays
    IsLifecycle
CHECK_DEADLOCK FALSE
