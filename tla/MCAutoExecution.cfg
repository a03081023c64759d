SPECIFICATION RunningSpec
CONSTANTS
    Demo = TRUE
    Releases = {r1, r2}
    Threads = {t1}
    PidReuse = FALSE
    MaxCandle = 2
    MaxDeaths = 1
    MaxActions = 3
VIEW ButStatus
INVARIANTS
    NoLostWakeup
PROPERTIES
    StopInFlight
    FailureStops
    CheckpointsAdvance
    OnceUnlessTorn
    ClosesAreKept
    ClosesAreRun
CHECK_DEADLOCK FALSE
