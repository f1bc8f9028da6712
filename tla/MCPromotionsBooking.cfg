\* An owner and an admin compete for the one slot; a mishap of any one kind, again and again.
SPECIFICATION Spec
CONSTANTS
    x = x
    p1 = p1
    p2 = p2
    Businesses = {x}
    Callers = {p1, p2}
    MaxBookings = 2
    Slots = 1
    MaxPerBusiness = 2
    Credits = 1
    MaxRequests = 3
    MaxMishaps = 1
SYMMETRY Symmetry
INVARIANTS
    TypeOK
    OverbookedOnlyByLate
    CreditsOverspentOnlyByLate
    LivePurchaseIsPaid
    RefundedIsReleased
    AnsweredIsBooked
