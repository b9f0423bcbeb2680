SPECIFICATION FairSpec
CONSTANTS
    l1 = l1
    r1 = r1
    r2 = r2
    r3 = r3
    t1 = t1
    Local <- NoLocal
    Remote <- TwoRemote
    Tasks <- OneTask
    Concurrency = 1
    MaxAttempts = 2
    MaxChannels = 1
    MaxAttached = 2
    MaxHeard = 1
    MaxFaults = 0
INVARIANTS
    CatchUpFits
    OutstandingIsPending
    RetriesAreCurrent
PROPERTIES
    PendingSettles
    CatchUpCompletes
CHECK_DEADLOCK FALSE
