SPECIFICATION Spec
CONSTANTS
    hub = hub
    a = a
    b = b
    x = x
    y = y
    Hub = hub
    NoChangeSet = NoChangeSet
    Clients <- MCClients
    ChangeSets <- OneChangeSet
    Author <- WrittenOnHub
    Persistent <- VolatileHub
    MaxAttempts = 2
    MaxFaults = 1
INVARIANT
    AtRestHubHoldsAll
CHECK_DEADLOCK FALSE
