SPECIFICATION Spec
CONSTANTS
    Hubs = {h1, h2}
    Self = self
    Addresses = {a1, a2}
    Null = null
    Clients = {c1}
    BindAttempts = 2
    MaxElections = 3
    MaxDrops = 1
    MaxFaults = 2
INVARIANTS
    TypeOK
    OneRoleAtATime
    EndsInLastCall
    StopIsFinal
PROPERTIES
    AttachesToItsHub
    LastCallTakesEffect
    HandshakeAnswered
CHECK_DEADLOCK FALSE
