SPECIFICATION EmittingSpec
CONSTANTS
    Instruments = {i1, i2, i3}
    Benchmark = i1
    MaxCandle = 2
    MaxDrops = 1
INVARIANTS
    EmittedOnce
PROPERTIES
    KeptUntilEmitted
    ConfirmedIsEmitted
CHECK_DEADLOCK FALSE
