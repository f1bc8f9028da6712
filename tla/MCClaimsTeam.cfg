SPECIFICATION Spec
CONSTANTS
    u1 = u1
    u2 = u2
    p1 = p1
    p2 = p2
    Nobody = Nobody
    Users = {u1, u2}
    Callers = {p1, p2}
    MaxClaims = 2
    MaxRequests = 4
    MaxCrashes = 1
SYMMETRY Symmetry
INVARIANTS
    TypeOK
    FrozenByOpenDispute
    ClosedTakesBack
    LosersLeave
PROPERTIES
    TeamChangesAsAsked
    VerifiedKeepsOwner
CHECK_DEADLOCK FALSE
