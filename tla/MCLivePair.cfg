SPECIFICATION Spec
CONSTANTS
    NoSignal = NoSignal
    None = None
    Callers = {c1, c2}
    Signals = {s1}
    Instruments = {s1}
    InstrumentOf <- Apart
    IdentityBound = {c1, c2}
    Stallers = {c2}
    MaxPerSymbol = 1
    MaxPositions = 1
    MaxCrashes = 1
    MaxArms = 1
    MaxKills = 0
INVARIANTS
    ClosedAgrees
PROPERTIES
    SendsUnderAuthority
    ImplementsOrderPromise
