SPECIFICATION LeaseSpec
CONSTANTS
    Holders = {h1, h2, h3}
    TTL = 2
    None = None
    MaxTime = 5
    MaxGrants = 3
SYMMETRY HolderSymmetry
INVARIANTS
    LockoutBounded
PROPERTY
    ImplementsRoleLease
CHECK_DEADLOCK FALSE
