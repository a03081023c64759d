SPECIFICATION Spec
CONSTANTS
    Threads = {t1, t2, t3}
    Ids = {r1, r2}
    Contents = {a, b}
    None = None
    MaxPosts = 5
    MaxDeaths = 1
SYMMETRY Symmetry
INVARIANTS
    DispatchedOnce
    OneAnswer
CHECK_DEADLOCK FALSE
