SPECIFICATION Spec
CONSTANTS
    NoSignal = NoSignal
    None = None
    Callers = {c1}
    Signals = {s1, s2, s3}
    Instruments = {i1}
    InstrumentOf <- Together
    IdentityBound = {c1}
    Stallers = {}
    MaxPerSymbol = 2
    MaxPositions = 2
    MaxCrashes = 1
    MaxArms = 1
    MaxKills = 1
SYMMETRY TogetherSymmetry
INVARIANTS
    DoubtBlocksSends
    KillExposure
    PositionLimit
