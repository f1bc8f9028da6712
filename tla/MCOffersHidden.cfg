SPECIFICATION Spec
CONSTANTS
    p1 = p1
    p2 = p2
    Callers = {p1, p2}
    Threshold = 1
    MaxRequests = 2
    MaxCrashes = 0
    MaxRevisions = 1
    MaxCases = 1
SYMMETRY Symmetry
PROPERTIES
    HiddenUntilAdminDecides
CHECK_DEADLOCK FALSE
