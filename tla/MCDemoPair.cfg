SPECIFICATION AttendedSpec
CONSTANTS
    NoSignal = NoSignal
    Callers = {c1, c2}
    Signals = {s1}
    Verified <- AllVerified
    s3 = s3
    PayloadRepeats = FALSE
    MaxCrashes = 2
PROPERTY
    ImplementsOrderPromise
    ClosedOrdersSettle
INVARIANTS
    RejectedMeansNoOrder
    ClosedMatchesExchange
