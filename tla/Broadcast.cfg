SPECIFICATION FairSpec
CONSTANTS
    a1 = a1
    a2 = a2
    t1 = t1
    t2 = t2
    k1 = k1
    Announcement = {a1, a2}
    Tenant = {t1, t2}
    KeyOf <- SameKey
    Recipients <- Recipients21
    MaxAttempts = 2
    MaxStalls = 1
    MaxCrashes = 1
INVARIANTS
    TerminalMeansEveryone
    DeliveredWasPushed
    OneBroadcastPerKey
PROPERTIES
    EveryBroadcastEnds
CHECK_DEADLOCK FALSE
