SPECIFICATION Spec
CONSTANTS
    None = None
    Stopped = Stopped
    Holders = {w1, w2}
    TTL = 1
    MaxAge = 0
    MaxTime = 2
    MaxTokens = 2
    MaxCycles = 1
    MaxManifests = 1
SYMMETRY WorkerSymmetry
INVARIANTS
    SingleAuthority
    HealthPredatesTakeover
    RefusalMeansSuperseded
PROPERTIES
    OnlyHolderExtends
    ImplementsRoleLease
CHECK_DEADLOCK FALSE
