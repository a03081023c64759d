SPECIFICATION Spec
CONSTANTS
    Callers = {c1, c2}
    Orders = {o1, o2}
    None = None
    MaxCalls = 2
    MaxConns = 2
SYMMETRY Symmetry
INVARIANTS
    OneRequestPerCall
    AnswersAreTrue
CHECK_DEADLOCK FALSE
