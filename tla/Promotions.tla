----------------------------- MODULE Promotions -----------------------------
(***************************************************************************)
(* Bookings of a promotion product that has a limited number of slots: the  *)
(* owner's booking and payment, Stripe's webhook, the admin's grants,       *)
(* approvals and refunds, and the job that starts and ends bookings.        *)
(*                                                                         *)
(* All bookings are of one product in one scope and share one window, so    *)
(* they compete for the same slots.  Each await on MongoDB or Stripe that   *)
(* reads or changes shared state is a step of its own.  Documents are saved *)
(* as Mongoose saves them: the changed paths only, whatever the stored      *)
(* document has become since it was loaded.                                 *)
(***************************************************************************)
EXTENDS Naturals, FiniteSets

CONSTANTS
    Businesses,      \* who books
    Callers,         \* HTTP requests in progress: owners, admins, webhooks
    MaxBookings,     \* bound: bookings ever created
    Slots,           \* PromotionProduct.slots
    MaxPerBusiness,  \* PromotionProduct.maxActivePerBusiness
    Credits,         \* the plan's freeTopOfSearchWeeksPerMonth
    MaxRequests,     \* bound: requests and webhook deliveries ever begun
    MaxMishaps       \* bound: kinds of mishap in one behaviour

Mishaps == {"crash", "failure", "webhookFailure", "insertFailure", "duplicate"}

ASSUME PromotionConstants ==
    /\ MaxBookings \in Nat
    /\ Slots \in Nat
    /\ MaxPerBusiness \in Nat
    /\ Credits \in Nat
    /\ MaxRequests \in Nat
    /\ MaxMishaps \in Nat

Bookings == 1 .. MaxBookings

SlotHolding == {"pending_approval", "scheduled", "active"}
Dropped     == {"none", "cancelled", "rejected"}
Statuses    == SlotHolding \cup Dropped \cup {"pending_payment", "ended"}
Sources     == {"purchase", "plan_credit", "admin_grant"}

\* What a request is for: the source of a new booking, the status an admin's
\* cancellation leads to, or a Stripe event.
Kinds == Sources \cup {"none", "cancelled", "rejected", "approve", "webhook"}

\* Between the count of the free slots and the creation of the booking.
Counted == {"credit", "create", "grant"}
RequestSteps ==
    Counted \cup
    {"idle", "slots", "checkout", "mockPayment", "confirm", "find", "record",
     "acknowledge", "forget", "refund", "stripeRefund", "saveRefund",
     "saveCancelled", "saveApproved"}
WebhookSteps == {"find", "record", "confirm", "acknowledge"}

VARIABLES
    status,    \* Promotion.status, "none" before the booking is created
    source,    \* Promotion.source
    business,  \* Promotion.businessId
    linked,    \* Promotion.paymentId is set
    age,       \* createdAt: less than PAYMENT_HOLD_MINUTES ago ("held"), less
               \* than two hours ago ("lapsed"), or longer ("old")
    payment,   \* the Payment record of a booking: "none", "paid", "refunded"
    checkout,  \* its Stripe checkout session, and what became of the money
    seen,      \* bookings whose checkout event has a StripeEvent record
    acked,     \* bookings whose checkout event Stripe has seen answered by 2xx
    request,   \* what each caller is doing
    job,       \* what PromotionsJobs.run is doing
    phase,     \* the time: before, during or after the window
    setting,   \* product.approvalRequired; whether payments are in mock mode
    asked,     \* how many requests have begun
    mishaps,   \* the kinds of mishap that have happened
    late,      \* history: bookings that took a slot which was not counted for
               \* them just before
    raced      \* history: callers whose count has been overtaken

bookingVars == <<status, source, business, linked, age>>
moneyVars   == <<payment, checkout, seen, acked>>
history     == <<late, raced>>
world       == <<phase, setting>>
bounds      == <<asked, mishaps>>
vars == <<bookingVars, moneyVars, request, job, world, bounds, history>>

Idle    == [step |-> "idle", booking |-> 0, for |-> "none", business |-> "none"]
NoJob   == [step |-> "idle", todo |-> {}]
Request == [step : RequestSteps, booking : 0 .. MaxBookings, for : Kinds,
            business : Businesses \cup {"none"}]

TypeOK ==
    /\ status \in [Bookings -> Statuses]
    /\ source \in [Bookings -> Sources \cup {"none"}]
    /\ business \in [Bookings -> Businesses \cup {"none"}]
    /\ linked \in [Bookings -> BOOLEAN]
    /\ age \in [Bookings -> {"held", "lapsed", "old"}]
    /\ payment \in [Bookings -> {"none", "paid", "refunded"}]
    /\ checkout \in [Bookings -> {"none", "open", "paid", "refunded"}]
    /\ seen \in SUBSET Bookings
    /\ acked \in SUBSET Bookings
    /\ request \in [Callers -> Request]
    /\ job \in [step : {"idle", "starting", "ending"}, todo : SUBSET Bookings]
    /\ phase \in {"before", "during", "after"}
    /\ setting \in [approvalRequired : BOOLEAN, mock : BOOLEAN]
    /\ asked \in 0 .. MaxRequests
    /\ mishaps \in SUBSET Mishaps
    /\ late \in SUBSET Bookings
    /\ raced \in SUBSET Callers

Init ==
    /\ status   = [b \in Bookings |-> "none"]
    /\ source   = [b \in Bookings |-> "none"]
    /\ business = [b \in Bookings |-> "none"]
    /\ linked   = [b \in Bookings |-> FALSE]
    /\ age      = [b \in Bookings |-> "held"]
    /\ payment  = [b \in Bookings |-> "none"]
    /\ checkout = [b \in Bookings |-> "none"]
    /\ seen = {} /\ acked = {}
    /\ request = [p \in Callers |-> Idle]
    /\ job = NoJob
    /\ phase = "before"
    /\ setting \in [approvalRequired : BOOLEAN, mock : BOOLEAN]
    /\ asked = 0
    /\ mishaps = {}
    /\ late = {} /\ raced = {}

-----------------------------------------------------------------------------
(* Counting and writing.                                                    *)

\* holdingFilter: a booking that holds its slot.
Holds(b) ==
    \/ status[b] \in SlotHolding
    \/ status[b] = "pending_payment" /\ age[b] = "held"

Holders == {b \in Bookings : Holds(b)}
BookedBy(x) == {b \in Holders : business[b] = x}

\* creditsLeft: the plan credits a business has used this month.
CreditsUsed(x) ==
    {b \in Bookings : /\ source[b] = "plan_credit"
                      /\ business[b] = x
                      /\ status[b] \notin Dropped}

\* The status of a booking that is paid for, granted or approved.
Running   == IF phase = "before" THEN "scheduled" ELSE "active"
Confirmed == IF setting.approvalRequired THEN "pending_approval" ELSE Running

Step(p)    == request[p].step
Booking(p) == request[p].booking
For(p)     == request[p].for
Owner(p)   == request[p].business

Goto(p, s) == request' = [request EXCEPT ![p].step = s]
Done(p)    == request' = [request EXCEPT ![p] = Idle]

Overtaken == {p \in Callers : Step(p) \in Counted}

\* booking.status = s; booking.save(): a blind write.  The history variables
\* note a booking that is brought back or takes a slot it no longer held.
Save(b, s) ==
    LET unforeseen == \/ ~Holds(b) /\ s \in SlotHolding
                      \/ status[b] \in Dropped /\ s \notin Dropped
    IN  /\ status' = [status EXCEPT ![b] = s]
        /\ late'  = IF unforeseen THEN late \cup {b} ELSE late
        /\ raced' = IF unforeseen THEN raced \cup Overtaken ELSE raced

Mishap(m) ==
    /\ mishaps' = mishaps \cup {m}
    /\ Cardinality(mishaps') <= MaxMishaps

\* Caller p begins a request.
Begin(p, s, b, for, x) ==
    /\ Step(p) = "idle"
    /\ asked < MaxRequests
    /\ asked' = asked + 1
    /\ request' = [request EXCEPT ![p] =
            [step |-> s, booking |-> b, for |-> for, business |-> x]]

Unused == {b \in Bookings : status[b] = "none"}

\* promotions.create by caller p, of the first unused booking.
Insert(p, b, s, x, src) ==
    /\ b \in Unused
    /\ \A c \in Unused : b <= c
    /\ status'   = [status EXCEPT ![b] = s]
    /\ source'   = [source EXCEPT ![b] = src]
    /\ business' = [business EXCEPT ![b] = x]
    /\ late'  = IF p \in raced THEN late \cup {b} ELSE late
    /\ raced' = (raced \cup Overtaken) \ {p}
    /\ UNCHANGED <<linked, age>>

-----------------------------------------------------------------------------
(* PromotionsService.book: an owner books with money or with a credit.      *)

Book(p, x, src) ==
    /\ phase # "after"
    /\ Cardinality(BookedBy(x)) < MaxPerBusiness
    /\ Begin(p, "slots", 0, src, x)
    /\ UNCHANGED <<bookingVars, moneyVars, job, world, mishaps, history>>

\* Mutant: one booking more than there are slots.
CountSlotsOneOver(p) ==
    /\ Step(p) = "slots"
    /\ IF Cardinality(Holders) <= Slots
          THEN Goto(p, IF For(p) = "plan_credit" THEN "credit" ELSE "create")
          ELSE Done(p)
    /\ raced' = raced \ {p}
    /\ UNCHANGED <<bookingVars, moneyVars, job, world, bounds, late>>

\* usedSlots: the slot is taken, or the request goes on.
CountSlots(p) ==
    /\ Step(p) = "slots"
    /\ IF Cardinality(Holders) < Slots
          THEN Goto(p, IF For(p) = "plan_credit" THEN "credit" ELSE "create")
          ELSE Done(p)
    /\ raced' = raced \ {p}
    /\ UNCHANGED <<bookingVars, moneyVars, job, world, bounds, late>>

\* Mutant: only credits of bookings that hold a slot are counted.
CountCreditHolding(p) ==
    /\ Step(p) = "credit"
    /\ IF Cardinality(CreditsUsed(Owner(p)) \cap Holders) < Credits
          THEN Goto(p, "create")
          ELSE Done(p)
    /\ UNCHANGED <<bookingVars, moneyVars, job, world, bounds, history>>

CountCredit(p) ==
    /\ Step(p) = "credit"
    /\ IF Cardinality(CreditsUsed(Owner(p))) < Credits
          THEN Goto(p, "create")
          ELSE Done(p)
    /\ UNCHANGED <<bookingVars, moneyVars, job, world, bounds, history>>

CreateBooking(p) ==
    /\ Step(p) = "create"
    /\ \E b \in Bookings :
        /\ Insert(p, b, "pending_payment", Owner(p), For(p))
        /\ request' = [request EXCEPT
                ![p].booking = b,
                ![p].step = IF For(p) = "plan_credit" THEN "confirm"
                            ELSE IF setting.mock THEN "mockPayment"
                            ELSE "checkout"]
    /\ UNCHANGED <<moneyVars, job, world, bounds>>

OpenCheckout(p) ==
    /\ Step(p) = "checkout"
    /\ checkout' = [checkout EXCEPT ![Booking(p)] = "open"]
    /\ Done(p)
    /\ UNCHANGED <<bookingVars, payment, seen, acked, job, world, bounds,
                   history>>

PayMock(p) ==
    /\ Step(p) = "mockPayment"
    /\ payment' = [payment EXCEPT ![Booking(p)] = "paid"]
    /\ Goto(p, "confirm")
    /\ UNCHANGED <<bookingVars, checkout, seen, acked, job, world, bounds,
                   history>>

\* Mutant: the booking does not name its payment.
ConfirmUnlinked(p) ==
    LET b == Booking(p)
    IN  /\ Step(p) = "confirm"
        /\ Save(b, Confirmed)
        /\ IF For(p) = "webhook" THEN Goto(p, "acknowledge") ELSE Done(p)
        /\ UNCHANGED <<source, business, linked, age, moneyVars, job, world, bounds>>

\* confirm: the payment and the status are saved together.
Confirm(p) ==
    LET b == Booking(p)
    IN  /\ Step(p) = "confirm"
        /\ Save(b, Confirmed)
        /\ linked' = [linked EXCEPT ![b] = @ \/ For(p) # "plan_credit"]
        /\ IF For(p) = "webhook" THEN Goto(p, "acknowledge") ELSE Done(p)
        /\ UNCHANGED <<source, business, age, moneyVars, job, world, bounds>>

-----------------------------------------------------------------------------
(* Stripe: the owner pays; BillingService.handleWebhook and                 *)
(* PromotionsService.paid.                                                  *)

Pay(b) ==
    /\ checkout[b] = "open"
    /\ checkout' = [checkout EXCEPT ![b] = "paid"]
    /\ UNCHANGED <<bookingVars, payment, seen, acked, request, job, world,
                   bounds, history>>

BeingDelivered(b) ==
    \E p \in Callers : For(p) = "webhook" /\ Booking(p) = b

\* Stripe sends the event until it is answered, and at times once more.
Sent(b) ==
    /\ checkout[b] \in {"paid", "refunded"}
    /\ IF b \in acked \/ BeingDelivered(b)
          THEN Mishap("duplicate")
          ELSE UNCHANGED mishaps

DeliverFresh(p, b) ==
    /\ Sent(b)
    /\ b \notin seen
    /\ seen' = seen \cup {b}
    /\ Begin(p, "find", b, "webhook", "none")
    /\ UNCHANGED <<bookingVars, payment, checkout, acked, job, world, history>>

DeliverDuplicate(b) ==
    /\ Sent(b)
    /\ b \in seen
    /\ acked' = acked \cup {b}
    /\ UNCHANGED <<bookingVars, payment, checkout, seen, request, job, world,
                   asked, history>>

\* Any error of stripeEvents.create counts as a duplicate.
InsertFails(b) ==
    /\ checkout[b] \in {"paid", "refunded"}
    /\ b \notin seen \cup acked
    /\ Mishap("insertFailure")
    /\ acked' = acked \cup {b}
    /\ UNCHANGED <<bookingVars, payment, checkout, seen, request, job, world,
                   asked, history>>

FindBooking(p) ==
    /\ Step(p) = "find"
    /\ Goto(p, IF status[Booking(p)] \in {"pending_payment", "cancelled"}
                  THEN "record" ELSE "acknowledge")
    /\ UNCHANGED <<bookingVars, moneyVars, job, world, bounds, history>>

\* recordCheckoutPayment: inserted if the session has no payment yet.
RecordPayment(p) ==
    /\ Step(p) = "record"
    /\ payment' =
        [payment EXCEPT ![Booking(p)] = IF @ = "none" THEN "paid" ELSE @]
    /\ Goto(p, "confirm")
    /\ UNCHANGED <<bookingVars, checkout, seen, acked, job, world, bounds,
                   history>>

\* Mutant: the request is cleared before its event is answered.
AcknowledgeCleared(p) ==
    /\ Step(p) = "acknowledge"
    /\ acked' = acked \cup {Idle.booking}
    /\ Done(p)
    /\ UNCHANGED <<bookingVars, payment, checkout, seen, job, world, bounds,
                   history>>

Acknowledge(p) ==
    /\ Step(p) = "acknowledge"
    /\ acked' = acked \cup {Booking(p)}
    /\ Done(p)
    /\ UNCHANGED <<bookingVars, payment, checkout, seen, job, world, bounds,
                   history>>

WebhookFails(p) ==
    /\ For(p) = "webhook"
    /\ Step(p) \in WebhookSteps
    /\ Mishap("webhookFailure")
    /\ Goto(p, "forget")
    /\ UNCHANGED <<bookingVars, moneyVars, job, world, asked, history>>

\* Mutant: the event of a failed delivery is not forgotten.
ForgetNot(p) ==
    /\ Step(p) = "forget"
    /\ seen' = seen
    /\ Done(p)
    /\ UNCHANGED <<bookingVars, payment, checkout, acked, job, world, bounds,
                   history>>

\* The event is forgotten and answered with an error, so Stripe sends it again.
Forget(p) ==
    /\ Step(p) = "forget"
    /\ seen' = seen \ {Booking(p)}
    /\ Done(p)
    /\ UNCHANGED <<bookingVars, payment, checkout, acked, job, world, bounds,
                   history>>

-----------------------------------------------------------------------------
(* Cancelling, refunding, granting and approving: load, check, save.        *)

Load(p, b, s, for) ==
    /\ Begin(p, s, b, for, "none")
    /\ UNCHANGED <<bookingVars, moneyVars, job, world, mishaps, history>>

CancelUnpaid(p, b) ==
    /\ status[b] = "pending_payment"
    /\ Load(p, b, "saveCancelled", "cancelled")

\* An admin cancels, or rejects what awaits approval; what is paid is refunded.
AdminCancel(p, b, to) ==
    /\ status[b] \notin Dropped \cup {"ended"}
    /\ to = "rejected" => status[b] = "pending_approval"
    /\ Load(p, b, IF linked[b] THEN "refund" ELSE "saveCancelled", to)

SaveCancelled(p) ==
    /\ Step(p) = "saveCancelled"
    /\ Save(Booking(p), For(p))
    /\ Done(p)
    /\ UNCHANGED <<source, business, linked, age, moneyVars, job, world,
                   bounds>>

\* BillingAdminService.refund: what is not paid (any more) cannot be refunded.
LoadPayment(p) ==
    /\ Step(p) = "refund"
    /\ IF payment[Booking(p)] = "paid"
          THEN Goto(p, IF setting.mock THEN "saveRefund" ELSE "stripeRefund")
          ELSE Done(p)
    /\ UNCHANGED <<bookingVars, moneyVars, job, world, bounds, history>>

\* Stripe refuses to refund a payment twice.
StripeRefund(p) ==
    /\ Step(p) = "stripeRefund"
    /\ IF checkout[Booking(p)] = "paid"
          THEN /\ checkout' = [checkout EXCEPT ![Booking(p)] = "refunded"]
               /\ Goto(p, "saveRefund")
          ELSE UNCHANGED checkout /\ Done(p)
    /\ UNCHANGED <<bookingVars, payment, seen, acked, job, world, bounds,
                   history>>

\* Mutant: the refund is made and the booking left as it is.
SaveRefundOnly(p) ==
    /\ Step(p) = "saveRefund"
    /\ payment' = [payment EXCEPT ![Booking(p)] = "refunded"]
    /\ Done(p)
    /\ UNCHANGED <<bookingVars, checkout, seen, acked, job, world, bounds,
                   history>>

SaveRefund(p) ==
    /\ Step(p) = "saveRefund"
    /\ payment' = [payment EXCEPT ![Booking(p)] = "refunded"]
    /\ Goto(p, "saveCancelled")
    /\ UNCHANGED <<bookingVars, checkout, seen, acked, job, world, bounds,
                   history>>

\* Stripe's charge.refunded event, whenever it arrives, and however often.
MirrorRefund(b) ==
    /\ checkout[b] = "refunded"
    /\ payment[b] # "none"
    /\ payment' = [payment EXCEPT ![b] = "refunded"]
    /\ UNCHANGED <<bookingVars, checkout, seen, acked, request, job, world,
                   bounds, history>>

Approve(p, b) ==
    /\ status[b] = "pending_approval"
    /\ Load(p, b, "saveApproved", "approve")

SaveApproved(p) ==
    /\ Step(p) = "saveApproved"
    /\ Save(Booking(p), Running)
    /\ Done(p)
    /\ UNCHANGED <<source, business, linked, age, moneyVars, job, world,
                   bounds>>

\* A free grant: the slots are counted, but not the bookings of the business.
Grant(p, x) ==
    /\ phase # "after"
    /\ Cardinality(Holders) < Slots
    /\ Begin(p, "grant", 0, "admin_grant", x)
    /\ raced' = raced \ {p}
    /\ UNCHANGED <<bookingVars, moneyVars, job, world, mishaps, late>>

CreateGrant(p) ==
    /\ Step(p) = "grant"
    /\ \E b \in Bookings : Insert(p, b, Running, Owner(p), "admin_grant")
    /\ Done(p)
    /\ UNCHANGED <<moneyVars, job, world, bounds>>

-----------------------------------------------------------------------------
(* PromotionsJobs.run, every five minutes: start, end, release the unpaid.  *)

\* The time is read once per run: it finds bookings to start during the window
\* and bookings to end after it, never both.
FindDue ==
    /\ job.step = "idle"
    /\ job' =
        IF phase = "during"
           THEN [step |-> "starting",
                 todo |-> {b \in Bookings : status[b] = "scheduled"}]
           ELSE [step |-> "ending",
                 todo |-> {b \in Bookings : /\ phase = "after"
                                           /\ status[b] \in {"scheduled", "active"}}]
    /\ UNCHANGED <<bookingVars, moneyVars, request, world, bounds, history>>

SaveNext(b, s) ==
    /\ b \in job.todo
    /\ Save(b, s)
    /\ job' = [job EXCEPT !.todo = @ \ {b}]
    /\ UNCHANGED <<source, business, linked, age, moneyVars, request, world,
                   bounds>>

Activate(b) == job.step = "starting" /\ SaveNext(b, "active")
End(b)      == job.step = "ending" /\ SaveNext(b, "ended")

\* One updateMany, with the status in its filter.
ReleaseUnpaid ==
    /\ job.step # "idle" /\ job.todo = {}
    /\ status' = [b \in Bookings |->
            IF status[b] = "pending_payment" /\ age[b] = "old"
               THEN "cancelled" ELSE status[b]]
    /\ job' = NoJob
    /\ UNCHANGED <<source, business, linked, age, moneyVars, request, world,
                   bounds, history>>

-----------------------------------------------------------------------------
(* Time and mishaps.                                                        *)

GrowOlder(b) ==
    /\ status[b] = "pending_payment"
    /\ age[b] # "old"
    /\ age' = [age EXCEPT ![b] = IF @ = "held" THEN "lapsed" ELSE "old"]
    /\ UNCHANGED <<status, source, business, linked, moneyVars, request, job,
                   world, bounds, history>>

Advance ==
    /\ phase # "after"
    /\ phase' = IF phase = "before" THEN "during" ELSE "after"
    /\ UNCHANGED <<bookingVars, moneyVars, request, job, setting, bounds,
                   history>>

\* MongoDB or Stripe fails a request of an owner or an admin: it ends there.
RequestFails(p) ==
    /\ Step(p) # "idle"
    /\ For(p) # "webhook"
    /\ Mishap("failure")
    /\ Done(p)
    /\ UNCHANGED <<bookingVars, moneyVars, job, world, asked, history>>

\* The process dies with all its requests and the job.
Crash ==
    /\ Mishap("crash")
    /\ request' = [p \in Callers |-> Idle]
    /\ job' = NoJob
    /\ UNCHANGED <<bookingVars, moneyVars, world, asked, history>>

-----------------------------------------------------------------------------

Proceed(p) ==
    \/ CountSlots(p) \/ CountCredit(p) \/ CreateBooking(p)
    \/ OpenCheckout(p) \/ PayMock(p) \/ Confirm(p)
    \/ FindBooking(p) \/ RecordPayment(p) \/ Acknowledge(p) \/ Forget(p)
    \/ SaveCancelled(p) \/ LoadPayment(p) \/ StripeRefund(p) \/ SaveRefund(p)
    \/ SaveApproved(p) \/ CreateGrant(p)

JobStep ==
    \/ FindDue \/ ReleaseUnpaid
    \/ \E b \in Bookings : Activate(b) \/ End(b)

Ask(p) ==
    \/ \E x \in Businesses :
        \/ Grant(p, x)
        \/ \E src \in {"purchase", "plan_credit"} : Book(p, x, src)
    \/ \E b \in Bookings :
        \/ DeliverFresh(p, b) \/ CancelUnpaid(p, b) \/ Approve(p, b)
        \/ \E to \in {"cancelled", "rejected"} : AdminCancel(p, b, to)

Next ==
    \/ \E p \in Callers :
        Ask(p) \/ Proceed(p) \/ WebhookFails(p) \/ RequestFails(p)
    \/ JobStep
    \/ \E b \in Bookings :
        \/ Pay(b) \/ DeliverDuplicate(b) \/ InsertFails(b)
        \/ MirrorRefund(b) \/ GrowOlder(b)
    \/ Advance
    \/ Crash

Spec == Init /\ [][Next]_vars

-----------------------------------------------------------------------------
(* What a booking may rely on.                                              *)

\* No more bookings hold a slot than there are, but for those that took one
\* outside the check: created on a count that another booking had overtaken,
\* paid or confirmed after the hold had lapsed, or brought back by a save that
\* was older than a cancellation.
OverbookedOnlyByLate == Cardinality(Holders \ late) <= Slots

\* Likewise for the free credits of a plan.
CreditsOverspentOnlyByLate ==
    \A x \in Businesses : Cardinality(CreditsUsed(x) \ late) <= Credits

\* A purchase that runs, waits for approval or has run was paid for, and its
\* booking says by which payment.  No race, crash or late save gets round it.
LivePurchaseIsPaid ==
    \A b \in Bookings :
        source[b] = "purchase" /\ status[b] \in SlotHolding \cup {"ended"} =>
            linked[b] /\ payment[b] # "none"

\* A booking refunded by its cancellation gives its slot back: it holds none
\* unless that cancellation is about to be saved, or an older save brought it
\* back.
RefundedIsReleased ==
    mishaps \cap {"crash", "failure"} = {} =>
        \A b \in Bookings : payment[b] = "refunded" /\ Holds(b) =>
            \/ b \in late
            \/ \E p \in Callers : /\ Step(p) \in {"saveRefund", "saveCancelled"}
                                 /\ Booking(p) = b

\* When Stripe takes the event of a payment for delivered, the payment is
\* recorded and the booking names it, through every failure and retry; the
\* three mishaps excepted are what the code does not survive.
AnsweredIsBooked ==
    mishaps \cap {"crash", "insertFailure", "duplicate"} = {} =>
        \A b \in acked : payment[b] # "none" /\ linked[b]

\* promotions.service.ts, cancelUnpaid: "Paid bookings are cancelled by an
\* admin (with a refund)": what is cancelled and paid has been refunded.
CancelledIsRefunded ==
    \A b \in Bookings :
        status[b] = "cancelled" /\ linked[b] => payment[b] # "paid"
=============================================================================
