SPECIFICATION FairSpec
CONSTANTS
    Events = {1, 2}
    Consumers = {"index", "mail"}
    Wants <- MCWants
    Replays = {2}
    TakesReplays = {"index"}
    Workers = {"w1", "w2"}
    Batch = 1
    MaxAttempts = 2
INVARIANTS
    ExactlyOnce
    DisjointRounds
    InOrderUnlessSkipped
PROPERTIES
    IsDelivery
    DeliveredOrGivenUp
