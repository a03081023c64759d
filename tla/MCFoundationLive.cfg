SPECIFICATION LiveSpec
CONSTANTS
    None = None
    Stopped = Stopped
    Holders = {w1}
    TTL = 1
    MaxAge = 0
    MaxTime = 2
    MaxTokens = 2
    MaxCycles = 1
    MaxManifests = 2
PROPERTY
    StopIsHonoured
CHECK_DEADLOCK FALSE
