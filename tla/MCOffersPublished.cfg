SPECIFICATION Spec
CONSTANTS
    p1 = p1
    p2 = p2
    Callers = {p1, p2}
    Threshold = 1
    MaxRequests = 3
    MaxCrashes = 1
    MaxRevisions = 1
    MaxCases = 1
SYMMETRY Symmetry
INVARIANTS
    TypeOK
    CountRightWhenIdle
    HiddenHasCase
    OptOutHolds
PROPERTIES
    AutomationStaysInBounds
    ReviewAfterTwoAbsences
CHECK_DEADLOCK FALSE
