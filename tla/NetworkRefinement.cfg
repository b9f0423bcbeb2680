SPECIFICATION Spec
CONSTANTS
    hub = hub
    a = a
    b = b
    x = x
    y = y
    Hub = hub
    NoChangeSet = NoChangeSet
    Clients <- MCClients
    ChangeSets <- OneChangeSet
    Author <- WrittenOnA
    Persistent <- VolatileHub
    MaxAttempts = 2
    MaxFaults = 2
INVARIANTS
    TypeOK
    HeldHasRows
    AtRestHubHoldsDurable
PROPERTY
    ImplementsReplication
CHECK_DEADLOCK FALSE
