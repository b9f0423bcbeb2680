SPECIFICATION Spec
CONSTANTS
    Nodes = {1, 2}
    Starts <- MCStarts
    Mode <- MCMode
    Calls <- MCCalls
    Keep = Keep
    TraitIds = {"t"}
    SeedName = "a"
    SeedImage = "rendered"
    DependencyBound <- MCDependencyBound
    Concurrency = 2
INVARIANTS
    TypeOK
    OwnWritesNeverFork
    ConflictsAreReal
    HeldModesAgree
PROPERTY
    ImageBeforeVersion
CHECK_DEADLOCK FALSE
