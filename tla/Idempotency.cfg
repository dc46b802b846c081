SPECIFICATION FairSpec
CONSTANTS
    Requests = {1, 2, 3, 4}
    HashOf <- MCHashOf
    Proves = {3}
    ShownOnce = FALSE
    Faults = {"panic", "crash", "database"}
INVARIANTS
    OneAtATime
    SameAnswer
    AnswersOwnRequest
    ExecutedOnce
    DemandNotReplayed
PROPERTIES
    ReservationEnds
CHECK_DEADLOCK FALSE
