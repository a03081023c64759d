SPECIFICATION Spec
CONSTANTS
    NoSignal = NoSignal
    Callers = {c1}
    Signals = {s1, s2, s3}
    Verified <- AllButThird
    s3 = s3
    PayloadRepeats = TRUE
    MaxCrashes = 1
SYMMETRY FirstTwo
INVARIANTS
    IntentBeforeSend
    CrashResidueBlocksEntries
    KillExposure
    AmbiguityStopsBatch
    SentAtMostOnce
PROPERTY
    ClosedIsFinal
