SPECIFICATION FairSpec
CONSTANTS
    hub = hub
    a = a
    b = b
    x = x
    y = y
    Hub = hub
    NoChangeSet = NoChangeSet
    Clients <- MCClients
    ChangeSets <- OneChangeSet
    Author <- WrittenOnA
    Persistent <- VolatileHub
    MaxAttempts = 2
    MaxFaults = 1
PROPERTIES
    HubLearns
    AttachedClientCatchesUp
    HeardIsSettled
CHECK_DEADLOCK FALSE
