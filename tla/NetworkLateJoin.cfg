SPECIFICATION Spec
CONSTANTS
    hub = hub
    a = a
    b = b
    x = x
    y = y
    Hub = hub
    NoChangeSet = NoChangeSet
    Clients <- MCClients
    ChangeSets <- TwoChangeSets
    Author <- WrittenOnAAndHub
    Persistent <- AllPersistent
    MaxAttempts = 1
    MaxFaults = 0
INVARIANT
    AtRestAllAgree
CHECK_DEADLOCK FALSE
