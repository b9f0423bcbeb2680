SPECIFICATION Spec
CONSTANTS
    Peers = {p1, p2}
    Starts = {0, 1}
    PollInterval = 3
    PollTimeout = 2
    CheckInterval = 1
    RestartGrace = 5
    DenialGrace = 19
    RepairInterval = 8
    Exclusion = 12
    Silence = 8
    HealTime = 9
    Unsteady = {p1}
    MaxTroubles = 1
INVARIANTS
    TypeOK
    ExcludedWhileObserved
PROPERTIES
    OnlyStaleExcluded
    OnlyLastingDenialExcluded
CHECK_DEADLOCK FALSE
