SPECIFICATION Spec
CONSTANTS
    Jobs = {1}
    Slots = {1, 2}
    OldPod = {}
    Schedulers = {c1}
    KeyOf <- NoKeys
    Handles <- AllKinds
    Claims <- AllKinds
    Detached = {}
    LongRunning = {}
    Duties = {}
    Pollers = {}
    MaxAttempts = 2
    Lease = 2
    JobTimeout = 1
    LongJobTimeout = 0
    Waits = {0, 1}
    ReviveAfter = 1
    ReviveCap = 2
    KeepFinished = 1
    MaxClock = 6
PROPERTIES
    OpenNotPurged
CHECK_DEADLOCK FALSE
