CONSTANTS
    Callers = {p1, p2}
    MaxSubs = 2
    MaxRequests = 2
    MaxInvoices = 1
    MaxMishaps = 1
    MaxTangles = 0

SPECIFICATION Spec
SYMMETRY Symmetry
CHECK_DEADLOCK FALSE

INVARIANTS
    TypeOK
    CopyInStep
    PriceInStep
    AtMostOnePlan

PROPERTIES
    WebhookLowersNoPlan
