\* An owner cancels a booking while Stripe reports its payment.
SPECIFICATION Spec
CONSTANTS
    x = x
    p1 = p1
    p2 = p2
    Businesses = {x}
    Callers = {p1, p2}
    MaxBookings = 1
    Slots = 1
    MaxPerBusiness = 1
    Credits = 0
    MaxRequests = 3
    MaxMishaps = 0
INVARIANTS
    CancelledIsRefunded
