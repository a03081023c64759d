SPECIFICATION Spec
CONSTANTS
    r1 = r1
    r2 = r2
    h1 = h1
    runner = runner
    Runs = {r1, r2}
    Http = {h1}
    Runner = runner
    None = None
    MaxRequests = 2
    MaxLaunches = 2
    MaxFaults = 1
PROPERTIES
    OneWorkerPerRun
    RunnerWaits
SYMMETRY RunSymmetry
CHECK_DEADLOCK FALSE
