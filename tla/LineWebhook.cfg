SPECIFICATION FairSpec
CONSTANTS
    d1 = d1
    d2 = d2
    e1 = e1
    e2 = e2
    Event = {e1, e2}
    Delivery = {d1, d2}
    Batch <- TwoDeliveries
    Replyable = {e1}
    MaxAttempts = 2
    MaxStalls = 1
    MaxCrashes = 1
INVARIANTS
    AckedIsRecorded
    QueuedOnce
    ProcessedWasAnswered
PROPERTIES
    EveryEventEnds
CHECK_DEADLOCK FALSE
