SPECIFICATION Spec
CONSTANTS
    l1 = l1
    r1 = r1
    r2 = r2
    r3 = r3
    t1 = t1
    Local <- OneLocal
    Remote <- TwoRemote
    Tasks <- OneTask
    Concurrency = 1
    MaxAttempts = 2
    MaxChannels = 1
    MaxAttached = 1
    MaxHeard = 0
    MaxFaults = 1
INVARIANT
    OpenCatchUpHasWork
SYMMETRY SymmetryOfTwo
CHECK_DEADLOCK FALSE
