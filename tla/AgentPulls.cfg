SPECIFICATION Spec
CONSTANTS
    l1 = l1
    r1 = r1
    r2 = r2
    r3 = r3
    t1 = t1
    Local <- OneLocal
    Remote <- ThreeRemote
    Tasks <- OneTask
    Concurrency = 2
    MaxAttempts = 2
    MaxChannels = 1
    MaxAttached = 1
    MaxHeard = 1
    MaxFaults = 1
INVARIANTS
    TypeOK
    NoDoublePull
    QueuedIsPending
    ConcurrencyBound
    WorkConserving
    EveryEntryAccounted
    ReceivedOnce
    ExhaustedIsGone
PROPERTY
    StoppedStartsNothing
SYMMETRY Symmetry
CHECK_DEADLOCK FALSE
