-------------------------- MODULE PromotionsProofs --------------------------
(***************************************************************************)
(* Proofs about Promotions, for every number of bookings, callers,          *)
(* businesses, slots and credits, and through every mishap: type            *)
(* correctness and the inductive invariant behind it, what a step can do to *)
(* the bookings, and on top of them the slots, the credits, the payments,   *)
(* the refunds and Stripe's events.                                         *)
(***************************************************************************)
EXTENDS Promotions, FiniteSetTheorems, TLAPS

\* The steps of a request that works on a booking.
BookingSteps == RequestSteps \ (Counted \cup {"idle", "slots"})
CancelSteps  == {"refund", "stripeRefund", "saveRefund", "saveCancelled"}

\* A request works on a booking that exists; it knows the source of the one it
\* is about to create, and the status its cancellation leads to.
Sound(r, st) ==
    /\ r.step \in Counted \cup {"slots"} => r.for \in Sources
    /\ r.step \in BookingSteps => r.booking \in Bookings /\ st[r.booking] # "none"
    /\ r.step \in CancelSteps => r.for \in {"cancelled", "rejected"}

Requests ==
    /\ request \in [Callers -> Request]
    /\ \A p \in Callers : Sound(request[p], status)

Records ==
    /\ status \in [Bookings -> Statuses]
    /\ source \in [Bookings -> Sources \cup {"none"}]
    /\ business \in [Bookings -> Businesses \cup {"none"}]
    /\ linked \in [Bookings -> BOOLEAN]
    /\ age \in [Bookings -> {"held", "lapsed", "old"}]
    /\ late \in SUBSET Bookings

\* A checkout session is opened for a booking that exists.
Money ==
    /\ payment \in [Bookings -> {"none", "paid", "refunded"}]
    /\ checkout \in [Bookings -> {"none", "open", "paid", "refunded"}]
    /\ seen \in SUBSET Bookings
    /\ acked \in SUBSET Bookings
    /\ \A b \in Bookings : checkout[b] # "none" => status[b] # "none"

Job ==
    /\ job \in [step : {"idle", "starting", "ending"}, todo : SUBSET Bookings]
    /\ \A b \in job.todo : status[b] # "none"

Others ==
    /\ phase \in {"before", "during", "after"}
    /\ setting \in [approvalRequired : BOOLEAN, mock : BOOLEAN]
    /\ asked \in 0 .. MaxRequests
    /\ mishaps \in SUBSET Mishaps
    /\ raced \in SUBSET Callers

IInv == Requests /\ Records /\ Money /\ Job /\ Others

LEMMA IInvImpliesTypeOK == IInv => TypeOK
  BY DEF IInv, Requests, Records, Money, Job, Others, TypeOK

LEMMA InitIInv ==
  ASSUME Init
  PROVE  IInv
  <1>1. Requests
    BY PromotionConstants DEF Init, Requests, Request, Sound, Idle, RequestSteps,
       BookingSteps, CancelSteps, Counted, Kinds, Sources
  <1>2. Records /\ Money /\ Job /\ Others
    BY PromotionConstants DEF Init, Records, Money, Job, NoJob, Others, Statuses,
       Dropped
  <1>3. QED
    BY <1>1, <1>2 DEF IInv

-----------------------------------------------------------------------------
(* How a step changes the request of its caller, and what saving does.      *)

\* No booking ceases to exist.
Kept == \A b \in Bookings : status[b] # "none" => status'[b] # "none"

LEMMA KeptSound ==
  ASSUME Kept, NEW r, Sound(r, status)
  PROVE  Sound(r, status')
  BY DEF Kept, Sound

LEMMA Replaced ==
  ASSUME Requests, Kept, NEW p \in Callers, NEW r \in Request, Sound(r, status'),
         request' = [request EXCEPT ![p] = r]
  PROVE  Requests'
  <1>1. request' \in [Callers -> Request]
    BY DEF Requests
  <1>2. ASSUME NEW q \in Callers
        PROVE  Sound(request'[q], status')
    BY <1>2, KeptSound DEF Requests
  <1>3. QED
    BY <1>1, <1>2 DEF Requests

LEMMA Untouched ==
  ASSUME Requests, Kept, UNCHANGED request
  PROVE  Requests'
  BY KeptSound DEF Requests

LEMMA Finished ==
  ASSUME Requests, Kept, NEW p \in Callers, Done(p)
  PROVE  Requests'
  <1>1. Idle \in Request /\ Sound(Idle, status')
    BY PromotionConstants DEF Idle, Request, Sound, RequestSteps, BookingSteps,
       CancelSteps, Counted, Kinds
  <1>2. QED
    BY <1>1, Replaced DEF Done

LEMMA Gone ==
  ASSUME Requests, Kept, NEW p \in Callers, NEW s \in RequestSteps, Goto(p, s),
         s \in Counted => For(p) \in Sources,
         s \in BookingSteps => Step(p) \in BookingSteps,
         s \in CancelSteps => Step(p) \in CancelSteps,
         s # "slots"
  PROVE  Requests'
  <1> DEFINE r == [request[p] EXCEPT !.step = s]
  <1>1. request[p] \in Request /\ Sound(request[p], status)
    BY DEF Requests
  <1>2. r \in Request
    BY <1>1 DEF Request
  <1>3. r.step = s /\ r.booking = request[p].booking /\ r.for = request[p].for
    BY <1>1 DEF Request
  <1>4. Sound(r, status)
    BY <1>1, <1>3 DEF Sound, Step, For
  <1>5. Sound(r, status')
    BY <1>4, KeptSound
  <1>6. QED
    BY <1>2, <1>5, Replaced DEF Goto

LEMMA Begun ==
  ASSUME Requests, Kept, NEW p \in Callers, NEW s \in RequestSteps,
         NEW b \in 0 .. MaxBookings, NEW k \in Kinds,
         NEW x \in Businesses \cup {"none"}, Begin(p, s, b, k, x),
         s \in Counted \cup {"slots"} => k \in Sources,
         s \in BookingSteps => b \in Bookings /\ status[b] # "none",
         s \in CancelSteps => k \in {"cancelled", "rejected"}
  PROVE  Requests'
  <1> DEFINE r == [step |-> s, booking |-> b, for |-> k, business |-> x]
  <1>1. r \in Request /\ Sound(r, status)
    BY DEF Request, Sound
  <1>2. Sound(r, status')
    BY <1>1, KeptSound
  <1>3. QED
    BY <1>1, <1>2, Replaced DEF Begin

LEMMA Saved ==
  ASSUME Records, raced \in SUBSET Callers, NEW b \in Bookings, status[b] # "none",
         NEW s \in Statuses \ {"none"}, Save(b, s)
  PROVE  /\ status' \in [Bookings -> Statuses]
         /\ late' \in SUBSET Bookings
         /\ raced' \in SUBSET Callers
         /\ Kept
  BY DEF Save, Records, Kept, Overtaken

LEMMA Inserted ==
  ASSUME Records, raced \in SUBSET Callers, NEW p \in Callers, NEW b \in Bookings,
         NEW s \in Statuses \ {"none"}, NEW x \in Businesses \cup {"none"},
         NEW src \in Sources, Insert(p, b, s, x, src)
  PROVE  /\ Records'
         /\ raced' \in SUBSET Callers
         /\ Kept
         /\ status'[b] # "none"
  BY DEF Insert, Unused, Records, Kept, Overtaken

-----------------------------------------------------------------------------
(* What a step does to the bookings: one of four operations, or nothing.    *)

Quiet == UNCHANGED <<bookingVars, late>> /\ raced' \subseteq raced

OneSaved(b, s) ==
    /\ status[b] # "none"
    /\ Save(b, s)
    /\ linked' \in [Bookings -> BOOLEAN]
    /\ \A c \in Bookings : linked[c] => linked'[c]
    /\ UNCHANGED <<source, business, age>>

\* A purchase is created unpaid, a plan credit by a request that has counted the
\* credits; whoever else had counted by then has been overtaken.
OneInserted(p, b, s) ==
    \E x \in Businesses \cup {"none"}, src \in Sources :
        /\ Step(p) \in Counted
        /\ Insert(p, b, s, x, src)
        /\ src = "purchase" => s = "pending_payment"
        /\ src = "plan_credit" => Step(p) = "create" /\ For(p) = src /\ Owner(p) = x
        /\ \A q \in Callers : Step(q)' \in Counted => q # p /\ Step(q) \in Counted

Aged ==
    /\ \A b \in Bookings : age'[b] = "held" => age[b] = "held"
    /\ age' \in [Bookings -> {"held", "lapsed", "old"}]
    /\ UNCHANGED <<status, source, business, linked, history>>

Released ==
    /\ status' = [b \in Bookings |->
            IF status[b] = "pending_payment" /\ age[b] = "old"
               THEN "cancelled" ELSE status[b]]
    /\ UNCHANGED <<source, business, linked, age, history>>

\* The statuses a loaded booking is saved with.
Saveable == Statuses \ {"none", "pending_payment"}

RecordOperation ==
    \/ Quiet \/ Aged \/ Released
    \/ \E b \in Bookings, s \in Saveable : OneSaved(b, s)
    \/ \E p \in Callers, b \in Bookings, s \in Statuses \ {"none"} : OneInserted(p, b, s)

LEMMA Creation ==
  ASSUME IInv, NEW p \in Callers, CreateBooking(p) \/ CreateGrant(p)
  PROVE  \E b \in Bookings, s \in Statuses \ {"none"} : OneInserted(p, b, s)
  <1>1. Owner(p) \in Businesses \cup {"none"} /\ Step(p) \in Counted
    BY DEF CreateBooking, CreateGrant, IInv, Requests, Request, Owner, Counted
  <1>2. request \in [Callers -> Request] /\ Idle.step = "idle"
    BY DEF IInv, Requests, Idle
  <1>3. Step(p)' \notin Counted
    <2>1. CASE CreateBooking(p)
      <3>1. PICK b \in Bookings, s \in {"confirm", "mockPayment", "checkout"} :
              request' = [request EXCEPT ![p].booking = b, ![p].step = s]
        BY <2>1 DEF CreateBooking
      <3>2. request'[p] = [request[p] EXCEPT !.booking = b, !.step = s]
        BY <1>2, <3>1
      <3>3. request'[p].step = s
        BY <1>2, <3>2 DEF Request
      <3>4. QED
        BY <3>3 DEF Step, Counted
    <2>2. CASE CreateGrant(p)
      BY <1>2, <2>2 DEF CreateGrant, Done, Step, Counted
    <2>3. QED
      BY <2>1, <2>2
  <1>4. \A q \in Callers \ {p} : Step(q)' = Step(q)
    BY <1>2 DEF CreateBooking, CreateGrant, Done, Step
  <1>5. CASE CreateBooking(p)
    <2>1. For(p) \in Sources
      BY <1>5 DEF CreateBooking, IInv, Requests, Sound, Step, For, Counted
    <2>2. "pending_payment" \in Statuses \ {"none"}
      BY DEF Statuses
    <2>3. QED
      BY <1>1, <1>3, <1>4, <1>5, <2>1, <2>2 DEF CreateBooking, OneInserted
  <1>6. CASE CreateGrant(p)
    <2>1. "admin_grant" \in Sources /\ Running \in Statuses \ {"none"}
      BY DEF Sources, Running, Statuses, SlotHolding
    <2>2. QED
      BY <1>1, <1>3, <1>4, <1>6, <2>1 DEF CreateGrant, OneInserted
  <1>7. QED
    BY <1>5, <1>6

LEMMA ProceedRecords ==
  ASSUME IInv, NEW p \in Callers, Proceed(p)
  PROVE  RecordOperation
  <1> USE DEF RecordOperation
  <1>1. CASE \/ CountSlots(p) \/ CountCredit(p) \/ OpenCheckout(p) \/ PayMock(p)
             \/ FindBooking(p) \/ RecordPayment(p) \/ Acknowledge(p) \/ Forget(p)
             \/ LoadPayment(p) \/ StripeRefund(p) \/ SaveRefund(p)
    BY <1>1 DEF Quiet, bookingVars, history, CountSlots, CountCredit, OpenCheckout,
       PayMock, FindBooking, RecordPayment, Acknowledge, Forget, LoadPayment,
       StripeRefund, SaveRefund
  <1>2. ASSUME Step(p) \in BookingSteps
        PROVE  Booking(p) \in Bookings /\ status[Booking(p)] # "none"
    BY <1>2 DEF IInv, Requests, Sound, Step, Booking
  <1>3. ASSUME Confirm(p)
        PROVE  RecordOperation
    <2>1. Booking(p) \in Bookings /\ status[Booking(p)] # "none"
      BY <1>2, <1>3 DEF Confirm, BookingSteps, RequestSteps, Counted
    <2>2. Confirmed \in Saveable
      BY DEF Confirmed, Running, Saveable, Statuses, SlotHolding, Dropped
    <2>3. OneSaved(Booking(p), Confirmed)
      BY <1>3, <2>1 DEF Confirm, OneSaved, IInv, Records
    <2>4. QED
      BY <2>1, <2>2, <2>3
  <1>4. ASSUME SaveCancelled(p)
        PROVE  RecordOperation
    <2>1. Booking(p) \in Bookings /\ status[Booking(p)] # "none"
      BY <1>2, <1>4 DEF SaveCancelled, BookingSteps, RequestSteps, Counted
    <2>2. For(p) \in Saveable
      BY <1>4 DEF SaveCancelled, IInv, Requests, Sound, Step, For, CancelSteps,
         Saveable, Statuses, Dropped
    <2>3. OneSaved(Booking(p), For(p))
      BY <1>4, <2>1 DEF SaveCancelled, OneSaved, IInv, Records
    <2>4. QED
      BY <2>1, <2>2, <2>3
  <1>5. ASSUME SaveApproved(p)
        PROVE  RecordOperation
    <2>1. Booking(p) \in Bookings /\ status[Booking(p)] # "none"
      BY <1>2, <1>5 DEF SaveApproved, BookingSteps, RequestSteps, Counted
    <2>2. Running \in Saveable
      BY DEF Running, Saveable, Statuses, SlotHolding, Dropped
    <2>3. OneSaved(Booking(p), Running)
      BY <1>5, <2>1 DEF SaveApproved, OneSaved, IInv, Records
    <2>4. QED
      BY <2>1, <2>2, <2>3
  <1>6. CASE CreateBooking(p) \/ CreateGrant(p)
    BY <1>6, Creation
  <1>7. QED
    BY <1>1, <1>3, <1>4, <1>5, <1>6 DEF Proceed

LEMMA JobRecords ==
  ASSUME IInv, JobStep
  PROVE  RecordOperation
  <1>1. CASE FindDue
    BY <1>1 DEF RecordOperation, Quiet, FindDue, history
  <1>2. CASE ReleaseUnpaid
    BY <1>2 DEF RecordOperation, Released, ReleaseUnpaid
  <1>3. ASSUME NEW b \in Bookings, Activate(b) \/ End(b)
        PROVE  RecordOperation
    <2>1. PICK s \in {"active", "ended"} : SaveNext(b, s)
      BY <1>3 DEF Activate, End
    <2>2. OneSaved(b, s)
      BY <2>1 DEF SaveNext, OneSaved, IInv, Records, Job
    <2>3. s \in Saveable
      BY DEF Saveable, Statuses, SlotHolding
    <2>4. QED
      BY <2>2, <2>3 DEF RecordOperation
  <1>4. QED
    BY <1>1, <1>2, <1>3 DEF JobStep

LEMMA RecordOperations ==
  ASSUME IInv, [Next]_vars
  PROVE  RecordOperation
  <1>1. ASSUME NEW p \in Callers, Ask(p) \/ WebhookFails(p) \/ RequestFails(p)
        PROVE  RecordOperation
    BY <1>1 DEF RecordOperation, Quiet, Ask, Book, DeliverFresh, CancelUnpaid, Approve,
       AdminCancel, Load, Grant, WebhookFails, RequestFails, bookingVars, history
  <1>2. ASSUME NEW b \in Bookings,
               Pay(b) \/ DeliverDuplicate(b) \/ InsertFails(b) \/ MirrorRefund(b)
        PROVE  RecordOperation
    BY <1>2 DEF RecordOperation, Quiet, Pay, DeliverDuplicate, InsertFails, MirrorRefund,
       bookingVars, history
  <1>3. ASSUME NEW b \in Bookings, GrowOlder(b)
        PROVE  RecordOperation
    BY <1>3 DEF RecordOperation, Aged, GrowOlder, IInv, Records
  <1>4. CASE Advance \/ Crash \/ UNCHANGED vars
    BY <1>4 DEF RecordOperation, Quiet, Advance, Crash, vars, bookingVars, history
  <1>5. QED
    BY <1>1, <1>2, <1>3, <1>4, ProceedRecords, JobRecords DEF Next

LEMMA RecordsStep ==
  ASSUME IInv, RecordOperation
  PROVE  Records' /\ raced' \in SUBSET Callers /\ Kept
  <1> USE DEF IInv, Others
  <1>1. CASE Quiet
    BY <1>1 DEF Quiet, bookingVars, Records, Kept
  <1>2. CASE Aged
    BY <1>2 DEF Aged, history, Records, Kept
  <1>3. CASE Released
    BY <1>3 DEF Released, history, Records, Kept, Statuses, Dropped
  <1>4. ASSUME NEW b \in Bookings, NEW s \in Saveable, OneSaved(b, s)
        PROVE  Records' /\ raced' \in SUBSET Callers /\ Kept
    BY <1>4, Saved DEF OneSaved, Saveable, Records
  <1>5. ASSUME NEW p \in Callers, NEW b \in Bookings, NEW s \in Statuses \ {"none"},
               OneInserted(p, b, s)
        PROVE  Records' /\ raced' \in SUBSET Callers /\ Kept
    BY <1>5, Inserted DEF OneInserted
  <1>6. QED
    BY <1>1, <1>2, <1>3, <1>4, <1>5 DEF RecordOperation

-----------------------------------------------------------------------------
(* The other parts of IInv.                                                 *)

LEMMA ProceedRequests ==
  ASSUME IInv, Kept, NEW p \in Callers, Proceed(p)
  PROVE  Requests'
  <1> USE DEF RequestSteps, BookingSteps, CancelSteps, Counted
  <1>1. Requests
    BY DEF IInv
  <1>2. Step(p) \in Counted \cup {"slots"} => For(p) \in Sources
    BY <1>1 DEF Requests, Sound, Step, For
  <1>3. CASE CountSlots(p)
    <2>1. ASSUME NEW s \in Counted, Goto(p, s), Step(p) = "slots"
          PROVE  Requests'
      BY <1>1, <1>2, <2>1, Gone
    <2>2. QED
      BY <1>1, <1>3, <2>1, Finished DEF CountSlots
  <1>4. CASE CountCredit(p)
    <2>1. ASSUME Goto(p, "create"), Step(p) = "credit"
          PROVE  Requests'
      BY <1>1, <1>2, <2>1, Gone
    <2>2. QED
      BY <1>1, <1>4, <2>1, Finished DEF CountCredit
  <1>5. CASE CreateBooking(p)
    <2>1. PICK b \in Bookings :
            /\ Insert(p, b, "pending_payment", Owner(p), For(p))
            /\ request' = [request EXCEPT
                    ![p].booking = b,
                    ![p].step = IF For(p) = "plan_credit" THEN "confirm"
                                ELSE IF setting.mock THEN "mockPayment"
                                ELSE "checkout"]
      BY <1>5 DEF CreateBooking
    <2>2. status'[b] # "none"
      BY <2>1 DEF Insert, IInv, Records
    <2>3. PICK s \in {"confirm", "mockPayment", "checkout"} :
            request' = [request EXCEPT ![p] =
                [request[p] EXCEPT !.booking = b, !.step = s]]
      BY <1>1, <2>1 DEF Requests, Request
    <2> DEFINE r == [request[p] EXCEPT !.booking = b, !.step = s]
    <2>4. request[p] \in Request /\ b \in 0 .. MaxBookings /\ s \in RequestSteps
      BY <1>1, PromotionConstants DEF Requests, Bookings
    <2>5. r \in Request
      BY <2>4 DEF Request
    <2>6. r.step = s /\ r.booking = b
      BY <2>4 DEF Request
    <2>7. Sound(r, status')
      BY <2>2, <2>6 DEF Sound
    <2>8. QED
      BY <1>1, <2>3, <2>5, <2>7, Replaced
  <1>6. ASSUME NEW s \in {"confirm", "record", "acknowledge"}, Goto(p, s),
               Step(p) \in {"mockPayment", "confirm", "find", "record"}
        PROVE  Requests'
    BY <1>1, <1>6, Gone
  <1>7. CASE PayMock(p) \/ Confirm(p) \/ FindBooking(p) \/ RecordPayment(p)
    BY <1>1, <1>6, <1>7, Finished DEF PayMock, Confirm, FindBooking, RecordPayment
  <1>8. ASSUME NEW s \in {"stripeRefund", "saveRefund", "saveCancelled"}, Goto(p, s),
               Step(p) \in CancelSteps
        PROVE  Requests'
    BY <1>1, <1>8, Gone
  <1>9. CASE LoadPayment(p) \/ StripeRefund(p) \/ SaveRefund(p)
    BY <1>1, <1>8, <1>9, Finished DEF LoadPayment, StripeRefund, SaveRefund
  <1>10. CASE \/ OpenCheckout(p) \/ Acknowledge(p) \/ Forget(p) \/ SaveCancelled(p)
              \/ SaveApproved(p) \/ CreateGrant(p)
    BY <1>1, <1>10, Finished DEF OpenCheckout, Acknowledge, Forget, SaveCancelled,
       SaveApproved, CreateGrant
  <1>11. QED
    BY <1>3, <1>4, <1>5, <1>7, <1>9, <1>10 DEF Proceed

LEMMA AskRequests ==
  ASSUME IInv, Kept, NEW p \in Callers, Ask(p)
  PROVE  Requests'
  <1> USE DEF RequestSteps, BookingSteps, CancelSteps, Counted
  <1>1. Requests /\ 0 \in 0 .. MaxBookings /\ Bookings \subseteq 0 .. MaxBookings
    BY PromotionConstants DEF IInv, Bookings
  <1>2. ASSUME NEW x \in Businesses,
               Grant(p, x) \/ \E src \in {"purchase", "plan_credit"} : Book(p, x, src)
        PROVE  Requests'
    <2>1. PICK s \in {"grant", "slots"}, src \in Sources : Begin(p, s, 0, src, x)
      BY <1>2 DEF Grant, Book, Sources
    <2>2. src \in Kinds
      BY DEF Kinds
    <2>3. QED
      BY <1>1, <2>1, <2>2, Begun
  <1>3. ASSUME NEW b \in Bookings, DeliverFresh(p, b)
        PROVE  Requests'
    <2>1. status[b] # "none" /\ Begin(p, "find", b, "webhook", "none")
      BY <1>3 DEF DeliverFresh, Sent, IInv, Money
    <2>2. "webhook" \in Kinds
      BY DEF Kinds
    <2>3. QED
      BY <1>1, <2>1, <2>2, Begun
  <1>4. ASSUME NEW b \in Bookings, CancelUnpaid(p, b) \/ Approve(p, b)
        PROVE  Requests'
    <2>1. PICK s \in {"saveCancelled", "saveApproved"}, k \in {"cancelled", "approve"} :
            /\ status[b] # "none"
            /\ Begin(p, s, b, k, "none")
            /\ s = "saveCancelled" => k = "cancelled"
      BY <1>4 DEF CancelUnpaid, Approve, Load
    <2>2. k \in Kinds
      BY DEF Kinds
    <2>3. QED
      BY <1>1, <2>1, <2>2, Begun
  <1>5. ASSUME NEW b \in Bookings, NEW to \in {"cancelled", "rejected"},
               AdminCancel(p, b, to)
        PROVE  Requests'
    <2>1. PICK s \in {"refund", "saveCancelled"} :
            status[b] # "none" /\ Begin(p, s, b, to, "none")
      BY <1>5 DEF AdminCancel, Load, Dropped
    <2>2. to \in Kinds
      BY DEF Kinds
    <2>3. QED
      BY <1>1, <2>1, <2>2, Begun
  <1>6. QED
    BY <1>2, <1>3, <1>4, <1>5 DEF Ask

LEMMA RequestsStep ==
  ASSUME IInv, Kept, [Next]_vars
  PROVE  Requests'
  <1>1. Requests
    BY DEF IInv
  <1>2. ASSUME NEW p \in Callers, WebhookFails(p)
        PROVE  Requests'
    <2>1. Goto(p, "forget") /\ Step(p) \in BookingSteps
      BY <1>2 DEF WebhookFails, WebhookSteps, BookingSteps, RequestSteps, Counted
    <2>2. QED
      BY <1>1, <2>1, Gone DEF RequestSteps, Counted, CancelSteps
  <1>3. ASSUME NEW p \in Callers, RequestFails(p)
        PROVE  Requests'
    BY <1>1, <1>3, Finished DEF RequestFails
  <1>4. CASE Crash
    BY <1>4, PromotionConstants DEF Crash, Requests, Request, Sound, Idle, RequestSteps,
       BookingSteps, CancelSteps, Counted, Kinds
  <1>5. ASSUME NEW b \in Bookings,
               \/ Pay(b) \/ DeliverDuplicate(b) \/ InsertFails(b)
               \/ MirrorRefund(b) \/ GrowOlder(b)
        PROVE  Requests'
    BY <1>1, <1>5, Untouched DEF Pay, DeliverDuplicate, InsertFails, MirrorRefund,
       GrowOlder
  <1>6. CASE JobStep
    BY <1>1, <1>6, Untouched DEF JobStep, FindDue, ReleaseUnpaid, Activate, End, SaveNext
  <1>7. CASE Advance \/ UNCHANGED vars
    BY <1>1, <1>7, Untouched DEF Advance, vars
  <1>8. QED
    BY <1>2, <1>3, <1>4, <1>5, <1>6, <1>7, ProceedRequests, AskRequests DEF Next

\* A request for a booking that exists may change its money; nothing else does.
LEMMA MoneyStep ==
  ASSUME IInv, Kept, [Next]_vars
  PROVE  Money'
  <1> USE DEF IInv
  <1>1. ASSUME UNCHANGED moneyVars
        PROVE  Money'
    BY <1>1 DEF Money, Kept, moneyVars
  <1>2. ASSUME NEW p \in Callers,
               \/ OpenCheckout(p) \/ PayMock(p) \/ RecordPayment(p) \/ Acknowledge(p)
               \/ Forget(p) \/ StripeRefund(p) \/ SaveRefund(p)
        PROVE  Money'
    <2>1. Booking(p) \in Bookings /\ status[Booking(p)] # "none"
      BY <1>2 DEF OpenCheckout, PayMock, RecordPayment, Acknowledge, Forget,
         StripeRefund, SaveRefund, Requests, Sound, Step, Booking, BookingSteps,
         RequestSteps, Counted
    <2>2. QED
      BY <1>2, <2>1 DEF OpenCheckout, PayMock, RecordPayment, Acknowledge, Forget,
         StripeRefund, SaveRefund, Money, Kept
  <1>3. ASSUME NEW b \in Bookings,
               \/ Pay(b) \/ DeliverDuplicate(b) \/ InsertFails(b) \/ MirrorRefund(b)
               \/ \E p \in Callers : DeliverFresh(p, b)
        PROVE  Money'
    BY <1>3 DEF Pay, DeliverDuplicate, InsertFails, MirrorRefund, DeliverFresh, Money, Kept
  <1>4. CASE \/ JobStep \/ Advance \/ Crash \/ UNCHANGED vars
             \/ \E b \in Bookings : GrowOlder(b)
    BY <1>1, <1>4 DEF JobStep, FindDue, ReleaseUnpaid, Activate, End, SaveNext,
       Advance, Crash, GrowOlder, vars
  <1>5. ASSUME NEW p \in Callers,
               \/ CountSlots(p) \/ CountCredit(p) \/ CreateBooking(p) \/ Confirm(p)
               \/ FindBooking(p) \/ SaveCancelled(p) \/ LoadPayment(p)
               \/ SaveApproved(p) \/ CreateGrant(p) \/ WebhookFails(p)
               \/ RequestFails(p)
        PROVE  Money'
    BY <1>1, <1>5 DEF CountSlots, CountCredit, CreateBooking, Confirm, FindBooking,
       SaveCancelled, LoadPayment, SaveApproved, CreateGrant, WebhookFails, RequestFails
  <1>6. ASSUME NEW p \in Callers, Ask(p)
        PROVE  Money'
    BY <1>1, <1>3, <1>6 DEF Ask, Grant, Book, CancelUnpaid, Approve, AdminCancel, Load
  <1>7. QED
    BY <1>2, <1>3, <1>4, <1>5, <1>6 DEF Next, Proceed

LEMMA JobInvStep ==
  ASSUME IInv, Kept, [Next]_vars
  PROVE  Job'
  <1> USE DEF IInv
  <1>1. ASSUME UNCHANGED job
        PROVE  Job'
    <2>1. job.todo \subseteq Bookings
      BY DEF Job
    <2>2. QED
      BY <1>1, <2>1 DEF Job, Kept
  <1>2. CASE FindDue
    BY <1>2 DEF FindDue, Job, Records, bookingVars
  <1>3. ASSUME NEW b \in Bookings, Activate(b) \/ End(b)
        PROVE  Job'
    <2>1. job' = [job EXCEPT !.todo = @ \ {b}]
      BY <1>3 DEF Activate, End, SaveNext
    <2>2. job.todo \subseteq Bookings
      BY DEF Job
    <2>3. QED
      BY <2>1, <2>2 DEF Job, Kept
  <1>4. CASE ReleaseUnpaid \/ Crash
    BY <1>4 DEF ReleaseUnpaid, Crash, Job, NoJob
  <1>5. ASSUME NEW p \in Callers, Proceed(p)
        PROVE  UNCHANGED job
    BY <1>5 DEF Proceed, CountSlots, CountCredit, CreateBooking, OpenCheckout, PayMock,
       Confirm, FindBooking, RecordPayment, Acknowledge, Forget, SaveCancelled,
       LoadPayment, StripeRefund, SaveRefund, SaveApproved, CreateGrant
  <1>6. ASSUME NEW p \in Callers, Ask(p) \/ WebhookFails(p) \/ RequestFails(p)
        PROVE  UNCHANGED job
    BY <1>6 DEF Ask, Grant, Book, DeliverFresh, CancelUnpaid, Approve, AdminCancel, Load,
       WebhookFails, RequestFails
  <1>7. CASE \/ Advance \/ UNCHANGED vars
             \/ \E b \in Bookings :
                 \/ Pay(b) \/ DeliverDuplicate(b) \/ InsertFails(b)
                 \/ MirrorRefund(b) \/ GrowOlder(b)
    BY <1>1, <1>7 DEF Advance, Pay, DeliverDuplicate, InsertFails, MirrorRefund,
       GrowOlder, vars
  <1>8. QED
    BY <1>1, <1>2, <1>3, <1>4, <1>5, <1>6, <1>7 DEF Next, JobStep

LEMMA OthersStep ==
  ASSUME IInv, raced' \in SUBSET Callers, [Next]_vars
  PROVE  Others'
  <1> USE DEF IInv, Others, world, bounds
  <1>1. ASSUME NEW p \in Callers, Proceed(p)
        PROVE  Others'
    BY <1>1 DEF Proceed, CountSlots, CountCredit, CreateBooking, OpenCheckout, PayMock,
       Confirm, FindBooking, RecordPayment, Acknowledge, Forget, SaveCancelled,
       LoadPayment, StripeRefund, SaveRefund, SaveApproved, CreateGrant
  <1>2. asked < MaxRequests => asked + 1 \in 0 .. MaxRequests
    BY PromotionConstants
  <1>3. ASSUME NEW p \in Callers, Ask(p)
        PROVE  Others'
    <2>1. asked' \in 0 .. MaxRequests /\ UNCHANGED world
      BY <1>2, <1>3 DEF Ask, Grant, Book, DeliverFresh, CancelUnpaid, Approve,
         AdminCancel, Load, Begin
    <2>2. mishaps' \in SUBSET Mishaps
      BY <1>3 DEF Ask, Grant, Book, DeliverFresh, CancelUnpaid, Approve, AdminCancel,
         Load, Sent, Mishap, Mishaps
    <2>3. QED
      BY <2>1, <2>2
  <1>4. ASSUME NEW p \in Callers, WebhookFails(p) \/ RequestFails(p)
        PROVE  Others'
    BY <1>4 DEF WebhookFails, RequestFails, Mishap, Mishaps
  <1>5. ASSUME NEW b \in Bookings,
               \/ Pay(b) \/ DeliverDuplicate(b) \/ InsertFails(b)
               \/ MirrorRefund(b) \/ GrowOlder(b)
        PROVE  Others'
    BY <1>5 DEF Pay, DeliverDuplicate, InsertFails, MirrorRefund, GrowOlder, Sent, Mishap,
       Mishaps
  <1>6. CASE JobStep \/ Advance \/ Crash \/ UNCHANGED vars
    BY <1>6 DEF JobStep, FindDue, ReleaseUnpaid, Activate, End, SaveNext, Advance, Crash,
       Mishap, Mishaps, vars
  <1>7. QED
    BY <1>1, <1>3, <1>4, <1>5, <1>6 DEF Next

LEMMA NextIInv ==
  ASSUME IInv, [Next]_vars
  PROVE  IInv'
  <1>1. RecordOperation
    BY RecordOperations
  <1>2. Records' /\ raced' \in SUBSET Callers /\ Kept
    BY <1>1, RecordsStep
  <1>3. QED
    BY <1>2, RequestsStep, MoneyStep, JobInvStep, OthersStep DEF IInv

LEMMA IInvHolds == Spec => []IInv
  <1>1. Init => IInv
    BY InitIInv
  <1>2. IInv /\ [Next]_vars => IInv'
    BY NextIInv
  <1>3. QED
    BY <1>1, <1>2, PTL DEF Spec

\* Every variable keeps its type: bookings, payments, events and requests.
THEOREM TypeCorrect == Spec => []TypeOK
  BY IInvHolds, IInvImpliesTypeOK, PTL

-----------------------------------------------------------------------------
(* Only late bookings exceed the slots of a product or the credits of a     *)
(* plan: each with its own inductive part beside IInv.                      *)

LEMMA OneMore ==
  ASSUME NEW S \in SUBSET Bookings, NEW T \in SUBSET Bookings, NEW b, T \subseteq S \cup {b}
  PROVE  /\ Cardinality(S) \in Nat /\ Cardinality(T) \in Nat
         /\ Cardinality(T) <= Cardinality(S) + 1
         /\ T \subseteq S => Cardinality(T) <= Cardinality(S)
  <1>1. IsFiniteSet(Bookings)
    BY FS_Interval, PromotionConstants DEF Bookings
  <1>2. IsFiniteSet(S) /\ IsFiniteSet(T)
    BY <1>1, FS_Subset
  <1>3. Cardinality(S) \in Nat /\ Cardinality(T) \in Nat
    BY <1>2, FS_CardinalityType
  <1>4. IsFiniteSet(S \cup {b}) /\ Cardinality(S \cup {b}) <= Cardinality(S) + 1
    BY <1>2, <1>3, FS_AddElement
  <1>5. Cardinality(S \cup {b}) \in Nat
    BY <1>4, FS_CardinalityType
  <1>6. Cardinality(T) <= Cardinality(S \cup {b})
    BY <1>4, FS_Subset
  <1>7. T \subseteq S => Cardinality(T) <= Cardinality(S)
    BY <1>2, FS_Subset
  <1>8. QED
    BY <1>3, <1>4, <1>5, <1>6, <1>7

-----------------------------------------------------------------------------
(* Counting: how a caller comes to be between its count and its booking.    *)

\* Caller q does nothing, and a count of it that was overtaken remains so.
Waits(q) ==
    /\ request'[q] = request[q]
    /\ q \in raced => q \in raced'

LEMMA Waiting ==
  ASSUME IInv, NEW q \in Callers, NEW p \in Callers, Step(q)' \in Counted,
         raced \subseteq raced' \cup {p},
         \/ \E s \in RequestSteps : Goto(p, s) /\ (s \notin Counted \/ p # q)
         \/ Done(p)
         \/ \E s, b, k, x : Begin(p, s, b, k, x) /\ (s \notin Counted \/ p # q)
  PROVE  p # q /\ Waits(q)
  <1>1. request \in [Callers -> Request] /\ Idle.step = "idle"
    BY DEF IInv, Requests, Idle
  <1>2. ASSUME NEW s \in RequestSteps, Goto(p, s), s \notin Counted \/ p # q
        PROVE  p # q /\ Waits(q)
    BY <1>1, <1>2 DEF Goto, Request, Step, Waits
  <1>3. CASE Done(p)
    BY <1>1, <1>3 DEF Done, Step, Waits, Counted
  <1>4. ASSUME NEW s, NEW b, NEW k, NEW x, Begin(p, s, b, k, x), s \notin Counted \/ p # q
        PROVE  p # q /\ Waits(q)
    BY <1>1, <1>4 DEF Begin, Step, Waits
  <1>5. QED
    BY <1>2, <1>3, <1>4

LEMMA ProceedCounting ==
  ASSUME IInv, NEW p \in Callers, Proceed(p), NEW q \in Callers, Step(q)' \in Counted
  PROVE  Waits(q) \/ CountSlots(q) \/ CountCredit(q)
  <1> USE DEF Waits
  <1>1. CASE CountSlots(p) /\ p # q
    BY <1>1, Waiting DEF CountSlots, RequestSteps, Counted
  <1>2. CASE CountCredit(p) /\ p # q
    BY <1>2, Waiting DEF CountCredit, RequestSteps, Counted, history
  <1>3. CASE CreateBooking(p) \/ CreateGrant(p)
    <2>1. PICK b \in Bookings, s \in Statuses \ {"none"} : OneInserted(p, b, s)
      BY <1>3, Creation
    <2>2. p # q /\ raced \subseteq raced' \cup {p}
      BY <2>1 DEF OneInserted, Insert
    <2>3. request'[q] = request[q]
      BY <1>3, <2>2 DEF CreateBooking, CreateGrant, Done, IInv, Requests
    <2>4. QED
      BY <2>2, <2>3
  <1>4. CASE \/ OpenCheckout(p) \/ PayMock(p) \/ FindBooking(p) \/ RecordPayment(p)
             \/ Acknowledge(p) \/ Forget(p) \/ LoadPayment(p) \/ StripeRefund(p)
             \/ SaveRefund(p)
    <2>1. raced' = raced
      BY <1>4 DEF OpenCheckout, PayMock, FindBooking, RecordPayment,
         Acknowledge, Forget, LoadPayment, StripeRefund, SaveRefund, history
    <2>2. Done(p) \/ \E s \in RequestSteps \ Counted : Goto(p, s)
      BY <1>4 DEF OpenCheckout, PayMock, FindBooking, RecordPayment,
         Acknowledge, Forget, LoadPayment, StripeRefund, SaveRefund, RequestSteps, Counted
    <2>3. QED
      BY <2>1, <2>2, Waiting
  <1>5. CASE Confirm(p) \/ SaveCancelled(p) \/ SaveApproved(p)
    <2>1. raced \subseteq raced'
      BY <1>5 DEF Confirm, SaveCancelled, SaveApproved, Save
    <2>2. Done(p) \/ \E s \in RequestSteps \ Counted : Goto(p, s)
      BY <1>5 DEF Confirm, SaveCancelled, SaveApproved, RequestSteps, Counted
    <2>3. QED
      BY <2>1, <2>2, Waiting
  <1>6. QED
    BY <1>1, <1>2, <1>3, <1>4, <1>5 DEF Proceed

LEMMA AskCounting ==
  ASSUME IInv, NEW p \in Callers, Ask(p), NEW q \in Callers, Step(q)' \in Counted
  PROVE  Waits(q) \/ \E x \in Businesses : Grant(q, x)
  <1>1. ASSUME NEW x \in Businesses, Grant(p, x), p # q
        PROVE  Waits(q)
    BY <1>1, Waiting DEF Grant
  <1>2. ASSUME NEW x \in Businesses, NEW src, Book(p, x, src)
        PROVE  Waits(q)
    BY <1>2, Waiting DEF Book, history, Counted
  <1>3. ASSUME NEW b \in Bookings,
               \/ DeliverFresh(p, b) \/ CancelUnpaid(p, b) \/ Approve(p, b)
               \/ \E to \in {"cancelled", "rejected"} : AdminCancel(p, b, to)
        PROVE  Waits(q)
    <2>1. PICK s \in {"find", "saveCancelled", "saveApproved", "refund"} :
            (\E k, x : Begin(p, s, b, k, x)) /\ UNCHANGED raced
      BY <1>3 DEF DeliverFresh, CancelUnpaid, Approve, AdminCancel, Load, history
    <2>2. QED
      BY <2>1, Waiting DEF Counted
  <1>4. QED
    BY <1>1, <1>2, <1>3 DEF Ask

\* A count is made by a step of its own and waits from then on.
LEMMA Counting ==
  ASSUME IInv, [Next]_vars, NEW q \in Callers, Step(q)' \in Counted
  PROVE  \/ Waits(q) \/ CountSlots(q) \/ CountCredit(q)
         \/ \E x \in Businesses : Grant(q, x)
  <1>1. ASSUME NEW p \in Callers, WebhookFails(p) \/ RequestFails(p)
        PROVE  Waits(q)
    <2>1. UNCHANGED raced /\ (Done(p) \/ Goto(p, "forget"))
      BY <1>1 DEF WebhookFails, RequestFails, history
    <2>2. QED
      BY <2>1, Waiting DEF RequestSteps, Counted
  <1>2. CASE Crash
    BY <1>2 DEF Crash, Step, Idle, Counted
  <1>3. CASE JobStep \/ Advance \/ UNCHANGED vars
    <2>1. UNCHANGED request /\ raced \subseteq raced'
      BY <1>3 DEF JobStep, FindDue, ReleaseUnpaid, Activate, End, SaveNext, Save,
         Advance, vars, history
    <2>2. QED
      BY <2>1 DEF Waits
  <1>4. ASSUME NEW b \in Bookings,
               \/ Pay(b) \/ DeliverDuplicate(b) \/ InsertFails(b)
               \/ MirrorRefund(b) \/ GrowOlder(b)
        PROVE  Waits(q)
    BY <1>4 DEF Pay, DeliverDuplicate, InsertFails, MirrorRefund, GrowOlder, history, Waits
  <1>5. QED
    BY <1>1, <1>2, <1>3, <1>4, ProceedCounting, AskCounting DEF Next

-----------------------------------------------------------------------------
(* The slots.                                                               *)

\* A caller has counted the slots, and no booking has come after its count.
Valid(p) == Step(p) \in Counted /\ p \notin raced

InTime == Holders \ late

\* A count that is not overtaken still leaves room for the booking that is
\* about to be created on it.
SlotInv ==
    /\ Cardinality(InTime) <= Slots
    /\ \A p \in Callers : Valid(p) => Cardinality(InTime) < Slots

CountMade ==
    Cardinality(Holders) < Slots /\ UNCHANGED <<status, age, late>>

\* A count becomes valid when it is made, and at no other step.
LEMMA ValidStep ==
  ASSUME IInv, [Next]_vars, NEW q \in Callers, Valid(q)'
  PROVE  Valid(q) \/ CountMade
  <1>1. CASE Waits(q)
    BY <1>1 DEF Waits, Valid, Step
  <1>2. CASE CountSlots(q)
    <2>1. Cardinality(Holders) < Slots
      <3>1. ~Done(q)
        BY DEF Done, Step, Valid, Idle, Counted, IInv, Requests
      <3>2. QED
        BY <1>2, <3>1 DEF CountSlots
    <2>2. QED
      BY <1>2, <2>1 DEF CountSlots, CountMade, bookingVars
  <1>3. CASE CountCredit(q)
    BY <1>3 DEF CountCredit, Valid, Counted, history
  <1>4. ASSUME NEW x \in Businesses, Grant(q, x)
        PROVE  CountMade
    BY <1>4 DEF Grant, CountMade, bookingVars
  <1>5. QED
    BY <1>1, <1>2, <1>3, <1>4, Counting DEF Valid

\* Which bookings may come to hold a slot in time: those created in this step.
LEMMA InTimeStep ==
  ASSUME IInv, RecordOperation
  PROVE  \/ InTime' \subseteq InTime
         \/ \E p \in Callers, b \in Bookings :
                /\ InTime' \subseteq InTime \cup {b}
                /\ p \in raced \/ Valid(p)
                /\ p \in raced => InTime' \subseteq InTime
                /\ \A q \in Callers : ~Valid(q)'
  <1> USE DEF IInv, Records, InTime, Holders, Holds
  <1>1. CASE Quiet
    BY <1>1 DEF Quiet, bookingVars
  <1>2. CASE Aged
    BY <1>2 DEF Aged, history
  <1>3. CASE Released
    BY <1>3 DEF Released, history, SlotHolding
  <1>4. ASSUME NEW b \in Bookings, NEW s \in Saveable, OneSaved(b, s)
        PROVE  InTime' \subseteq InTime
    BY <1>4 DEF OneSaved, Save, Saveable, Statuses
  <1>5. ASSUME NEW p \in Callers, NEW b \in Bookings, NEW s \in Statuses \ {"none"},
               OneInserted(p, b, s)
        PROVE  /\ InTime' \subseteq InTime \cup {b}
               /\ p \in raced \/ Valid(p)
               /\ p \in raced => InTime' \subseteq InTime
               /\ \A q \in Callers : ~Valid(q)'
    BY <1>5 DEF OneInserted, Insert, Valid, Overtaken
  <1>6. QED
    BY <1>1, <1>2, <1>3, <1>4, <1>5 DEF RecordOperation

LEMMA SlotStep ==
  ASSUME IInv, SlotInv, [Next]_vars
  PROVE  SlotInv'
  <1>1. RecordOperation
    BY RecordOperations
  <1>2. InTime \in SUBSET Bookings /\ InTime' \in SUBSET Bookings
    BY DEF InTime, Holders
  <1>3. CASE InTime' \subseteq InTime
    <2>1. Cardinality(InTime') <= Cardinality(InTime)
      BY <1>2, <1>3, OneMore
    <2>2. Cardinality(InTime) \in Nat /\ Cardinality(InTime') \in Nat
      BY <1>2, OneMore
    <2>3. ASSUME NEW q \in Callers, Valid(q)'
          PROVE  Cardinality(InTime') < Slots
      <3>1. Valid(q) => Cardinality(InTime) < Slots
        BY DEF SlotInv
      <3>2. CountMade => Cardinality(InTime) < Slots
        <4>1. InTime \subseteq Holders /\ Holders \in SUBSET Bookings
          BY DEF InTime, Holders
        <4>2. Cardinality(InTime) <= Cardinality(Holders) /\ Cardinality(Holders) \in Nat
          BY <1>2, <4>1, OneMore
        <4>3. QED
          BY <2>2, <4>2, PromotionConstants DEF CountMade
      <3>3. QED
        BY <2>1, <2>2, <2>3, <3>1, <3>2, ValidStep, PromotionConstants
    <2>4. QED
      BY <2>1, <2>2, <2>3, PromotionConstants DEF SlotInv
  <1>4. CASE ~(InTime' \subseteq InTime)
    <2>1. PICK p \in Callers, b \in Bookings :
            /\ InTime' \subseteq InTime \cup {b}
            /\ Valid(p)
            /\ \A q \in Callers : ~Valid(q)'
      BY <1>1, <1>4, InTimeStep
    <2>2. Cardinality(InTime') <= Cardinality(InTime) + 1
      BY <1>2, <2>1, OneMore
    <2>3. Cardinality(InTime) \in Nat /\ Cardinality(InTime') \in Nat
      BY <1>2, <2>1, OneMore
    <2>4. QED
      BY <2>1, <2>2, <2>3, PromotionConstants DEF SlotInv
  <1>5. QED
    BY <1>3, <1>4

LEMMA InitSlotInv ==
  ASSUME Init
  PROVE  SlotInv
  <1>1. InTime = {}
    BY DEF Init, InTime, Holders, Holds, SlotHolding
  <1>2. \A p \in Callers : ~Valid(p)
    BY DEF Init, Valid, Step, Idle, Counted
  <1>3. QED
    BY <1>1, <1>2, FS_EmptySet, PromotionConstants DEF SlotInv

\* The bookings that hold a slot exceed the slots only by those that took one
\* outside the check of book, and the job, crashes and retries add no other.
THEOREM OnlyLateOverbook == Spec => []OverbookedOnlyByLate
  <1>1. Init => SlotInv
    BY InitSlotInv
  <1>2. IInv /\ SlotInv /\ [Next]_vars => SlotInv'
    BY SlotStep
  <1>3. SlotInv => OverbookedOnlyByLate
    BY DEF SlotInv, OverbookedOnlyByLate, InTime
  <1>4. QED
    BY <1>1, <1>2, <1>3, IInvHolds, PTL DEF Spec

-----------------------------------------------------------------------------
(* The free credits of a plan.                                              *)

\* A caller has counted the credits, and no booking has come after its count.
CreditValid(p) ==
    Step(p) = "create" /\ For(p) = "plan_credit" /\ p \notin raced

Spent(x) == CreditsUsed(x) \ late

CreditInv ==
    \A x \in Businesses :
        /\ Cardinality(Spent(x)) <= Credits
        /\ \A p \in Callers :
            CreditValid(p) /\ Owner(p) = x => Cardinality(Spent(x)) < Credits

CreditCounted(x) ==
    Cardinality(CreditsUsed(x)) < Credits /\ UNCHANGED <<status, source, business, late>>

\* Without the count of the credits no request goes on to create with one.
LEMMA CreditValidStep ==
  ASSUME IInv, [Next]_vars, NEW q \in Callers, CreditValid(q)'
  PROVE  \/ Owner(q)' = Owner(q) /\ CreditValid(q)
         \/ CreditCounted(Owner(q)')
  <1>1. request \in [Callers -> Request]
    BY DEF IInv, Requests
  <1>2. CASE Waits(q)
    BY <1>2 DEF Waits, CreditValid, Step, For, Owner
  <1>3. ASSUME NEW s \in RequestSteps, Goto(q, s)
        PROVE  Step(q)' = s /\ For(q)' = For(q) /\ Owner(q)' = Owner(q)
    BY <1>1, <1>3 DEF Goto, Request, Step, For, Owner
  <1>4. ~Done(q)
    BY <1>1 DEF Done, Step, CreditValid, Idle
  <1>5. CASE CountSlots(q)
    <2>1. Goto(q, IF For(q) = "plan_credit" THEN "credit" ELSE "create")
      BY <1>4, <1>5 DEF CountSlots
    <2>2. QED
      BY <1>3, <2>1 DEF CreditValid, RequestSteps, Counted
  <1>6. CASE CountCredit(q)
    <2>1. Goto(q, "create") /\ Cardinality(CreditsUsed(Owner(q))) < Credits
      BY <1>4, <1>6 DEF CountCredit
    <2>2. Owner(q)' = Owner(q)
      BY <1>3, <2>1 DEF RequestSteps, Counted
    <2>3. QED
      BY <1>6, <2>1, <2>2 DEF CountCredit, CreditCounted, bookingVars, history
  <1>7. ASSUME NEW x \in Businesses, Grant(q, x)
        PROVE  FALSE
    BY <1>1, <1>7 DEF Grant, Begin, CreditValid, Step
  <1>8. QED
    BY <1>2, <1>5, <1>6, <1>7, Counting DEF CreditValid, Counted

\* The credits spent in time grow only by a booking whose credit was counted.
LEMMA SpentStep ==
  ASSUME IInv, RecordOperation, NEW x \in Businesses
  PROVE  \/ Spent(x)' \subseteq Spent(x)
         \/ \E p \in Callers, b \in Bookings :
                /\ Spent(x)' \subseteq Spent(x) \cup {b}
                /\ CreditValid(p) /\ Owner(p) = x
                /\ \A q \in Callers : ~CreditValid(q)'
  <1> USE DEF IInv, Records, Spent, CreditsUsed
  <1>1. CASE Quiet
    BY <1>1 DEF Quiet, bookingVars
  <1>2. CASE Aged
    BY <1>2 DEF Aged, history
  <1>3. CASE Released
    BY <1>3 DEF Released, history, Dropped
  <1>4. ASSUME NEW b \in Bookings, NEW s \in Saveable, OneSaved(b, s)
        PROVE  Spent(x)' \subseteq Spent(x)
    BY <1>4 DEF OneSaved, Save, Saveable, Statuses
  <1>5. ASSUME NEW p \in Callers, NEW b \in Bookings, NEW s \in Statuses \ {"none"},
               OneInserted(p, b, s)
        PROVE  \/ Spent(x)' \subseteq Spent(x)
               \/ /\ Spent(x)' \subseteq Spent(x) \cup {b}
                  /\ CreditValid(p) /\ Owner(p) = x
                  /\ \A q \in Callers : ~CreditValid(q)'
    <2>1. PICK y \in Businesses \cup {"none"}, src \in Sources :
            /\ Insert(p, b, s, y, src)
            /\ src = "plan_credit" => Step(p) = "create" /\ For(p) = src /\ Owner(p) = y
            /\ \A q \in Callers : Step(q)' \in Counted => q # p /\ Step(q) \in Counted
      BY <1>5 DEF OneInserted
    <2>2. Spent(x)' \subseteq Spent(x) \cup {b}
      BY <2>1 DEF Insert
    <2>3. \A q \in Callers : ~CreditValid(q)'
      BY <2>1 DEF Insert, Overtaken, CreditValid, Counted
    <2>4. b \in Spent(x)' => src = "plan_credit" /\ y = x /\ p \notin raced
      BY <2>1 DEF Insert
    <2>5. QED
      BY <2>1, <2>2, <2>3, <2>4 DEF CreditValid
  <1>6. QED
    BY <1>1, <1>2, <1>3, <1>4, <1>5 DEF RecordOperation

LEMMA CreditStep ==
  ASSUME IInv, CreditInv, [Next]_vars
  PROVE  CreditInv'
  <1> SUFFICES ASSUME NEW x \in Businesses
               PROVE  /\ Cardinality(Spent(x)') <= Credits
                      /\ \A p \in Callers :
                          CreditValid(p)' /\ Owner(p)' = x => Cardinality(Spent(x)') < Credits
    BY DEF CreditInv
  <1>1. Spent(x) \in SUBSET Bookings /\ Spent(x)' \in SUBSET Bookings
    BY DEF Spent, CreditsUsed
  <1>2. Cardinality(Spent(x)) \in Nat /\ Cardinality(Spent(x)') \in Nat
    BY <1>1, OneMore
  <1>3. CASE Spent(x)' \subseteq Spent(x)
    <2>1. Cardinality(Spent(x)') <= Cardinality(Spent(x))
      BY <1>1, <1>3, OneMore
    <2>2. ASSUME NEW q \in Callers, CreditValid(q)', Owner(q)' = x
          PROVE  Cardinality(Spent(x)') < Credits
      <3>1. CASE Owner(q)' = Owner(q) /\ CreditValid(q)
        BY <1>2, <2>1, <2>2, <3>1, PromotionConstants DEF CreditInv
      <3>2. CASE CreditCounted(x)
        <4>1. Spent(x) \subseteq CreditsUsed(x) /\ CreditsUsed(x) \in SUBSET Bookings
          BY DEF Spent, CreditsUsed
        <4>2. /\ Cardinality(Spent(x)) <= Cardinality(CreditsUsed(x))
              /\ Cardinality(CreditsUsed(x)) \in Nat
          BY <1>1, <4>1, OneMore
        <4>3. QED
          BY <1>2, <2>1, <3>2, <4>2, PromotionConstants DEF CreditCounted
      <3>3. QED
        BY <2>2, <3>1, <3>2, CreditValidStep
    <2>3. QED
      BY <1>2, <2>1, <2>2, PromotionConstants DEF CreditInv
  <1>4. CASE ~(Spent(x)' \subseteq Spent(x))
    <2>1. PICK p \in Callers, b \in Bookings :
            /\ Spent(x)' \subseteq Spent(x) \cup {b}
            /\ CreditValid(p) /\ Owner(p) = x
            /\ \A q \in Callers : ~CreditValid(q)'
      BY <1>4, RecordOperations, SpentStep
    <2>2. Cardinality(Spent(x)') <= Cardinality(Spent(x)) + 1
      BY <1>1, <2>1, OneMore
    <2>3. QED
      BY <1>2, <2>1, <2>2, PromotionConstants DEF CreditInv
  <1>5. QED
    BY <1>3, <1>4

LEMMA InitCreditInv ==
  ASSUME Init
  PROVE  CreditInv
  <1>1. \A x \in Businesses : Spent(x) = {}
    BY DEF Init, Spent, CreditsUsed, Dropped
  <1>2. \A p \in Callers : ~CreditValid(p)
    BY DEF Init, CreditValid, Step, Idle
  <1>3. QED
    BY <1>1, <1>2, FS_EmptySet, PromotionConstants DEF CreditInv

\* The free credits a business has spent exceed its plan only by bookings
\* created on an overtaken count or brought back after a cancellation.
THEOREM OnlyLateOverspend == Spec => []CreditsOverspentOnlyByLate
  <1>1. Init => CreditInv
    BY InitCreditInv
  <1>2. IInv /\ CreditInv /\ [Next]_vars => CreditInv'
    BY CreditStep
  <1>3. CreditInv => CreditsOverspentOnlyByLate
    BY DEF CreditInv, CreditsOverspentOnlyByLate, Spent
  <1>4. QED
    BY <1>1, <1>2, <1>3, IInvHolds, PTL DEF Spec

-----------------------------------------------------------------------------
(* A purchase that is live is paid for.  It needs to be known of the        *)
(* requests and of the job, too: whoever is about to make a purchase live   *)
(* works on one that is paid.                                               *)

Live == SlotHolding \cup {"ended"}

Paid(b) == source[b] = "purchase" => linked[b] /\ payment[b] # "none"

\* A request may confirm its booking: that is no purchase, or its payment is
\* recorded.
MayConfirm(p) ==
    IF For(p) = "plan_credit" THEN source[Booking(p)] # "purchase"
                              ELSE payment[Booking(p)] # "none"

PaidInv ==
    /\ \A b \in Bookings : status[b] \in Live => Paid(b)
    /\ \A b \in job.todo : Paid(b)
    /\ \A p \in Callers :
        /\ Step(p) = "saveApproved" => Paid(Booking(p))
        /\ Step(p) = "confirm" => MayConfirm(p)
        /\ Step(p) \in {"mockPayment", "find", "record"} => For(p) # "plan_credit"

-----------------------------------------------------------------------------
(* Payments stay, and so does what is paid.                                 *)

LEMMA ProceedPayments ==
  ASSUME IInv, NEW p \in Callers, Proceed(p), NEW b \in Bookings, payment[b] # "none"
  PROVE  payment'[b] # "none"
  <1>1. CASE PayMock(p) \/ RecordPayment(p) \/ SaveRefund(p)
    BY <1>1 DEF PayMock, RecordPayment, SaveRefund, IInv, Money
  <1>2. CASE \/ CountSlots(p) \/ CountCredit(p) \/ CreateBooking(p) \/ OpenCheckout(p)
             \/ Confirm(p) \/ FindBooking(p) \/ Acknowledge(p) \/ Forget(p)
             \/ SaveCancelled(p) \/ LoadPayment(p) \/ StripeRefund(p)
             \/ SaveApproved(p) \/ CreateGrant(p)
    BY <1>2 DEF CountSlots, CountCredit, CreateBooking, OpenCheckout, Confirm,
       FindBooking, Acknowledge, Forget, SaveCancelled, LoadPayment, StripeRefund,
       SaveApproved, CreateGrant, moneyVars
  <1>3. QED
    BY <1>1, <1>2 DEF Proceed

\* No payment record is ever removed.
LEMMA PaymentsStay ==
  ASSUME IInv, [Next]_vars, NEW b \in Bookings, payment[b] # "none"
  PROVE  payment'[b] # "none"
  <1>1. ASSUME NEW p \in Callers, Ask(p) \/ WebhookFails(p) \/ RequestFails(p)
        PROVE  UNCHANGED payment
    BY <1>1 DEF Ask, Book, DeliverFresh, CancelUnpaid, Approve, AdminCancel, Load, Grant,
       WebhookFails, RequestFails, moneyVars
  <1>2. ASSUME NEW c \in Bookings,
               \/ Pay(c) \/ DeliverDuplicate(c) \/ InsertFails(c)
               \/ MirrorRefund(c) \/ GrowOlder(c)
        PROVE  payment'[b] # "none"
    BY <1>2 DEF Pay, DeliverDuplicate, InsertFails, MirrorRefund, GrowOlder, moneyVars,
       IInv, Money
  <1>3. CASE JobStep \/ Advance \/ Crash \/ UNCHANGED vars
    BY <1>3 DEF JobStep, FindDue, ReleaseUnpaid, Activate, End, SaveNext, Advance, Crash,
       vars, moneyVars
  <1>4. QED
    BY <1>1, <1>2, <1>3, ProceedPayments DEF Next

LEMMA SourcesStay ==
  ASSUME IInv, [Next]_vars, NEW b \in Bookings, status[b] # "none"
  PROVE  source'[b] = source[b] /\ (linked[b] => linked'[b])
  <1>1. RecordOperation
    BY RecordOperations
  <1>2. QED
    BY <1>1 DEF RecordOperation, Quiet, Aged, Released, OneSaved, OneInserted, Insert,
       Unused, IInv, Records, bookingVars

LEMMA PaidStays ==
  ASSUME IInv, [Next]_vars, NEW b \in Bookings, status[b] # "none", Paid(b)
  PROVE  Paid(b)'
  BY PaymentsStay, SourcesStay DEF Paid

-----------------------------------------------------------------------------
(* What makes a booking live.                                               *)

LEMMA ProceedLive ==
  ASSUME IInv, NEW p \in Callers, Proceed(p), NEW b \in Bookings,
         status[b] \notin Live, status'[b] \in Live
  PROVE  \/ b = Booking(p) /\ (Confirm(p) \/ SaveApproved(p))
         \/ source'[b] # "purchase"
  <1>1. CASE Confirm(p) \/ SaveApproved(p)
    BY <1>1 DEF Confirm, SaveApproved, Save, IInv, Records
  <1>2. CASE SaveCancelled(p)
    <2>1. For(p) \in {"cancelled", "rejected"}
      BY <1>2 DEF SaveCancelled, IInv, Requests, Sound, Step, For, CancelSteps
    <2>2. QED
      BY <1>2, <2>1 DEF SaveCancelled, Save, IInv, Records, Live, SlotHolding
  <1>3. CASE CreateBooking(p)
    BY <1>3 DEF CreateBooking, Insert, IInv, Records, Live, SlotHolding
  <1>4. CASE CreateGrant(p)
    BY <1>4 DEF CreateGrant, Insert, IInv, Records
  <1>5. CASE \/ CountSlots(p) \/ CountCredit(p) \/ OpenCheckout(p) \/ PayMock(p)
             \/ FindBooking(p) \/ RecordPayment(p) \/ Acknowledge(p) \/ Forget(p)
             \/ LoadPayment(p) \/ StripeRefund(p) \/ SaveRefund(p)
    BY <1>5 DEF CountSlots, CountCredit, OpenCheckout, PayMock, FindBooking,
       RecordPayment, Acknowledge, Forget, LoadPayment, StripeRefund, SaveRefund,
       bookingVars
  <1>6. QED
    BY <1>1, <1>2, <1>3, <1>4, <1>5 DEF Proceed

LEMMA BecomesLive ==
  ASSUME IInv, [Next]_vars, NEW b \in Bookings,
         status[b] \notin Live, status'[b] \in Live
  PROVE  \/ \E p \in Callers : b = Booking(p) /\ (Confirm(p) \/ SaveApproved(p))
         \/ Activate(b) \/ End(b)
         \/ source'[b] # "purchase"
  <1>1. ASSUME NEW p \in Callers, Ask(p) \/ WebhookFails(p) \/ RequestFails(p)
        PROVE  UNCHANGED status
    BY <1>1 DEF Ask, Book, DeliverFresh, CancelUnpaid, Approve, AdminCancel, Load, Grant,
       WebhookFails, RequestFails, bookingVars
  <1>2. ASSUME NEW c \in Bookings,
               \/ Pay(c) \/ DeliverDuplicate(c) \/ InsertFails(c)
               \/ MirrorRefund(c) \/ GrowOlder(c)
        PROVE  UNCHANGED status
    BY <1>2 DEF Pay, DeliverDuplicate, InsertFails, MirrorRefund, GrowOlder, bookingVars
  <1>3. CASE FindDue \/ Advance \/ Crash \/ UNCHANGED vars
    BY <1>3 DEF FindDue, Advance, Crash, vars, bookingVars
  <1>4. CASE ReleaseUnpaid
    BY <1>4 DEF ReleaseUnpaid, Live, SlotHolding
  <1>5. ASSUME NEW c \in Bookings, Activate(c) \/ End(c)
        PROVE  c = b
    BY <1>5 DEF Activate, End, SaveNext, Save, IInv, Records
  <1>6. QED
    BY <1>1, <1>2, <1>3, <1>4, <1>5, ProceedLive DEF Next, JobStep

LEMMA LiveStep ==
  ASSUME IInv, PaidInv, [Next]_vars, NEW b \in Bookings, status'[b] \in Live
  PROVE  Paid(b)'
  <1>1. CASE status[b] \in Live
    BY <1>1, PaidStays DEF PaidInv, Live, SlotHolding
  <1>2. ASSUME NEW p \in Callers, b = Booking(p), Confirm(p)
        PROVE  Paid(b)'
    <2>1. MayConfirm(p) /\ Step(p) = "confirm"
      BY <1>2 DEF PaidInv, Confirm
    <2>2. linked' = [linked EXCEPT ![b] = @ \/ For(p) # "plan_credit"]
      BY <1>2 DEF Confirm
    <2>3. UNCHANGED <<source, payment>>
      BY <1>2 DEF Confirm, moneyVars
    <2>4. CASE For(p) = "plan_credit"
      BY <1>2, <2>1, <2>3, <2>4 DEF MayConfirm, Paid
    <2>5. CASE For(p) # "plan_credit"
      <3>1. linked'[b]
        BY <2>2, <2>5 DEF IInv, Records
      <3>2. QED
        BY <1>2, <2>1, <2>3, <2>5, <3>1 DEF MayConfirm, Paid
    <2>6. QED
      BY <2>4, <2>5
  <1>3. ASSUME NEW p \in Callers, b = Booking(p), SaveApproved(p)
        PROVE  Paid(b)'
    <2>1. Paid(b) /\ status[b] # "none"
      BY <1>3 DEF PaidInv, SaveApproved, IInv, Requests, Sound, Step, Booking,
         BookingSteps, RequestSteps, Counted
    <2>2. QED
      BY <2>1, PaidStays
  <1>4. CASE Activate(b) \/ End(b)
    <2>1. Paid(b) /\ status[b] # "none"
      BY <1>4 DEF PaidInv, Activate, End, SaveNext, IInv, Job
    <2>2. QED
      BY <2>1, PaidStays
  <1>5. CASE source'[b] # "purchase"
    BY <1>5 DEF Paid
  <1>6. QED
    BY <1>1, <1>2, <1>3, <1>4, <1>5, BecomesLive

-----------------------------------------------------------------------------
(* What the requests and the job are about to do.                           *)

Watched == {"saveApproved", "confirm", "mockPayment", "find", "record"}

LEMMA ProceedWatched ==
  ASSUME IInv, NEW p \in Callers, Proceed(p), NEW q \in Callers, Step(q)' \in Watched,
         request'[q] # request[q]
  PROVE  CreateBooking(q) \/ PayMock(q) \/ FindBooking(q) \/ RecordPayment(q)
  <1>1. request \in [Callers -> Request] /\ Idle.step = "idle"
    BY DEF IInv, Requests, Idle
  <1>2. CASE CreateBooking(p) \/ PayMock(p) \/ FindBooking(p) \/ RecordPayment(p)
    BY <1>1, <1>2 DEF CreateBooking, PayMock, FindBooking, RecordPayment, Goto
  <1>3. CASE \/ CountSlots(p) \/ CountCredit(p) \/ OpenCheckout(p) \/ Confirm(p)
             \/ Acknowledge(p) \/ Forget(p) \/ SaveCancelled(p) \/ LoadPayment(p)
             \/ StripeRefund(p) \/ SaveRefund(p) \/ SaveApproved(p) \/ CreateGrant(p)
    <2>1. \/ Done(p)
          \/ \E s \in {"credit", "create", "acknowledge", "saveRefund",
                       "stripeRefund", "saveCancelled"} : Goto(p, s)
      BY <1>3 DEF CountSlots, CountCredit, OpenCheckout, Confirm, Acknowledge, Forget,
         SaveCancelled, LoadPayment, StripeRefund, SaveRefund, SaveApproved, CreateGrant
    <2>2. ~Done(p)
      BY <1>1 DEF Done, Step, Watched
    <2>3. PICK s \in {"credit", "create", "acknowledge", "saveRefund",
                      "stripeRefund", "saveCancelled"} : Goto(p, s)
      BY <2>1, <2>2
    <2>4. Step(q)' = s
      BY <1>1, <2>3 DEF Goto, Request, Step
    <2>5. QED
      BY <2>4 DEF Watched
  <1>4. QED
    BY <1>2, <1>3 DEF Proceed

\* How a request comes to a step that PaidInv speaks of.
LEMMA BecomesWatched ==
  ASSUME IInv, [Next]_vars, NEW q \in Callers, Step(q)' \in Watched,
         request'[q] # request[q]
  PROVE  \/ CreateBooking(q) \/ PayMock(q) \/ FindBooking(q) \/ RecordPayment(q)
         \/ \E b \in Bookings : Approve(q, b) \/ DeliverFresh(q, b)
  <1>1. request \in [Callers -> Request] /\ Idle.step = "idle"
    BY DEF IInv, Requests, Idle
  <1>2. ASSUME NEW p \in Callers, NEW s, NEW b, NEW k, NEW x, Begin(p, s, b, k, x)
        PROVE  p = q /\ s \in Watched
    BY <1>1, <1>2 DEF Begin, Step
  <1>3. ASSUME NEW p \in Callers, Ask(p)
        PROVE  \E b \in Bookings : Approve(q, b) \/ DeliverFresh(q, b)
    <2>1. ASSUME NEW x \in Businesses,
                 Grant(p, x) \/ \E src \in {"purchase", "plan_credit"} : Book(p, x, src)
          PROVE  FALSE
      BY <1>2, <2>1 DEF Grant, Book, Watched
    <2>2. ASSUME NEW b \in Bookings,
                 \/ CancelUnpaid(p, b)
                 \/ \E to \in {"cancelled", "rejected"} : AdminCancel(p, b, to)
          PROVE  FALSE
      BY <1>2, <2>2 DEF CancelUnpaid, AdminCancel, Load, Watched
    <2>3. ASSUME NEW b \in Bookings, DeliverFresh(p, b) \/ Approve(p, b)
          PROVE  p = q
      BY <1>2, <2>3 DEF DeliverFresh, Approve, Load
    <2>4. QED
      BY <1>3, <2>1, <2>2, <2>3 DEF Ask
  <1>4. ASSUME NEW p \in Callers, WebhookFails(p) \/ RequestFails(p)
        PROVE  FALSE
    <2>1. Done(p) \/ Goto(p, "forget")
      BY <1>4 DEF WebhookFails, RequestFails
    <2>2. QED
      BY <1>1, <2>1 DEF Done, Goto, Request, Step, Watched
  <1>5. CASE Crash
    BY <1>1, <1>5 DEF Crash, Step, Watched
  <1>6. ASSUME NEW b \in Bookings,
               \/ Pay(b) \/ DeliverDuplicate(b) \/ InsertFails(b)
               \/ MirrorRefund(b) \/ GrowOlder(b)
        PROVE  FALSE
    BY <1>6 DEF Pay, DeliverDuplicate, InsertFails, MirrorRefund, GrowOlder
  <1>7. CASE JobStep \/ Advance \/ UNCHANGED vars
    BY <1>7 DEF JobStep, FindDue, ReleaseUnpaid, Activate, End, SaveNext, Advance, vars
  <1>8. QED
    BY <1>3, <1>4, <1>5, <1>6, <1>7, ProceedWatched DEF Next

\* What PaidInv says of one request.
Warranted(q) ==
    /\ Step(q) = "saveApproved" => Paid(Booking(q))
    /\ Step(q) = "confirm" => MayConfirm(q)
    /\ Step(q) \in {"mockPayment", "find", "record"} => For(q) # "plan_credit"

LEMMA WarrantStays ==
  ASSUME IInv, [Next]_vars, NEW q \in Callers, Warranted(q), request'[q] = request[q]
  PROVE  Warranted(q)'
  <1>1. Step(q)' = Step(q) /\ For(q)' = For(q) /\ Booking(q)' = Booking(q)
    BY DEF Step, For, Booking
  <1>2. CASE Step(q) \in {"saveApproved", "confirm"}
    <2>1. Booking(q) \in Bookings /\ status[Booking(q)] # "none"
      BY <1>2 DEF IInv, Requests, Sound, Step, Booking, BookingSteps, RequestSteps,
         Counted
    <2>2. PICK b \in Bookings : b = Booking(q) /\ b = Booking(q)' /\ status[b] # "none"
      BY <1>1, <2>1
    <2>3. Step(q) = "saveApproved" => Paid(b)'
      BY <2>2, PaidStays DEF Warranted
    <2>4. Step(q) = "confirm" => MayConfirm(q)'
      BY <1>1, <2>2, PaymentsStay, SourcesStay DEF Warranted, MayConfirm
    <2>5. QED
      BY <1>1, <1>2, <2>2, <2>3, <2>4 DEF Warranted, Paid
  <1>3. CASE Step(q) \notin {"saveApproved", "confirm"}
    BY <1>1, <1>3 DEF Warranted
  <1>4. QED
    BY <1>2, <1>3

LEMMA WarrantStep ==
  ASSUME IInv, PaidInv, [Next]_vars, NEW q \in Callers
  PROVE  Warranted(q)'
  <1>1. request \in [Callers -> Request] /\ Warranted(q)
    BY DEF IInv, Requests, PaidInv, Warranted
  <1>2. ASSUME NEW s \in RequestSteps, Goto(q, s)
        PROVE  Step(q)' = s /\ For(q)' = For(q) /\ Booking(q)' = Booking(q)
    BY <1>1, <1>2 DEF Goto, Request, Step, For, Booking
  <1>3. ASSUME NEW s, NEW b, NEW k, NEW x, Begin(q, s, b, k, x)
        PROVE  Step(q)' = s /\ For(q)' = k /\ Booking(q)' = b
    BY <1>1, <1>3 DEF Begin, Step, For, Booking
  <1>4. CASE CreateBooking(q)
    <2>1. PICK b \in Bookings :
            /\ Insert(q, b, "pending_payment", Owner(q), For(q))
            /\ request' = [request EXCEPT
                    ![q].booking = b,
                    ![q].step = IF For(q) = "plan_credit" THEN "confirm"
                                ELSE IF setting.mock THEN "mockPayment"
                                ELSE "checkout"]
      BY <1>4 DEF CreateBooking
    <2> DEFINE s == IF For(q) = "plan_credit" THEN "confirm"
                    ELSE IF setting.mock THEN "mockPayment" ELSE "checkout"
    <2>2. request'[q] = [request[q] EXCEPT !.booking = b, !.step = s]
      BY <1>1, <2>1
    <2> HIDE DEF s
    <2>3. Step(q)' = s /\ For(q)' = For(q) /\ Booking(q)' = b
      BY <1>1, <2>2 DEF Request, Step, For, Booking
    <2>4. source'[b] = For(q)
      BY <2>1 DEF Insert, IInv, Records
    <2>5. CASE For(q) = "plan_credit"
      BY <2>3, <2>4, <2>5 DEF Warranted, MayConfirm, s
    <2>6. CASE For(q) # "plan_credit"
      BY <2>3, <2>6 DEF Warranted, s
    <2>7. QED
      BY <2>5, <2>6
  <1>5. CASE PayMock(q) \/ RecordPayment(q)
    <2>1. /\ Step(q)' = "confirm" /\ For(q)' = For(q) /\ Booking(q)' = Booking(q)
          /\ For(q) # "plan_credit"
      BY <1>1, <1>2, <1>5 DEF PayMock, RecordPayment, RequestSteps, Warranted
    <2>2. Booking(q) \in Bookings
      BY <1>5 DEF PayMock, RecordPayment, IInv, Requests, Sound, Step, Booking,
         BookingSteps, RequestSteps, Counted
    <2>3. payment'[Booking(q)] # "none"
      BY <1>5, <2>2 DEF PayMock, RecordPayment, IInv, Money
    <2>4. QED
      BY <2>1, <2>3 DEF Warranted, MayConfirm
  <1>6. CASE FindBooking(q)
    BY <1>1, <1>2, <1>6 DEF FindBooking, RequestSteps, Warranted
  <1>7. ASSUME NEW b \in Bookings, Approve(q, b)
        PROVE  Warranted(q)'
    <2>1. Paid(b) /\ status[b] # "none"
      BY <1>7 DEF Approve, PaidInv, Live, SlotHolding
    <2>2. Paid(b)' /\ Booking(q)' = b /\ Step(q)' = "saveApproved"
      BY <1>3, <1>7, <2>1, PaidStays DEF Approve, Load
    <2>3. QED
      BY <2>2 DEF Warranted, Paid
  <1>8. ASSUME NEW b \in Bookings, DeliverFresh(q, b)
        PROVE  Warranted(q)'
    BY <1>3, <1>8 DEF DeliverFresh, Warranted
  <1>9. CASE request'[q] = request[q]
    BY <1>1, <1>9, WarrantStays
  <1>10. CASE Step(q)' \notin Watched
    BY <1>10 DEF Watched, Warranted
  <1>11. QED
    BY <1>4, <1>5, <1>6, <1>7, <1>8, <1>9, <1>10, BecomesWatched

LEMMA JobPaidStep ==
  ASSUME IInv, PaidInv, [Next]_vars, NEW b \in job'.todo
  PROVE  Paid(b)'
  <1>1. ASSUME b \in job.todo
        PROVE  Paid(b)'
    BY <1>1, PaidStays DEF PaidInv, IInv, Job
  <1>2. CASE FindDue
    <2>1. b \in Bookings /\ status[b] \in {"scheduled", "active"}
      BY <1>2 DEF FindDue
    <2>2. QED
      BY <2>1, PaidStays DEF PaidInv, Live, SlotHolding
  <1>3. ASSUME NEW c \in Bookings, Activate(c) \/ End(c)
        PROVE  b \in job.todo
    BY <1>3 DEF Activate, End, SaveNext, IInv, Job
  <1>4. CASE ReleaseUnpaid \/ Crash
    BY <1>4 DEF ReleaseUnpaid, Crash, NoJob
  <1>5. ASSUME NEW p \in Callers, Proceed(p)
        PROVE  UNCHANGED job
    BY <1>5 DEF Proceed, CountSlots, CountCredit, CreateBooking, OpenCheckout, PayMock,
       Confirm, FindBooking, RecordPayment, Acknowledge, Forget, SaveCancelled,
       LoadPayment, StripeRefund, SaveRefund, SaveApproved, CreateGrant
  <1>6. ASSUME NEW p \in Callers, Ask(p) \/ WebhookFails(p) \/ RequestFails(p)
        PROVE  UNCHANGED job
    BY <1>6 DEF Ask, Grant, Book, DeliverFresh, CancelUnpaid, Approve, AdminCancel, Load,
       WebhookFails, RequestFails
  <1>7. CASE \/ Advance \/ UNCHANGED vars
             \/ \E c \in Bookings :
                 \/ Pay(c) \/ DeliverDuplicate(c) \/ InsertFails(c)
                 \/ MirrorRefund(c) \/ GrowOlder(c)
    BY <1>1, <1>7 DEF Advance, Pay, DeliverDuplicate, InsertFails, MirrorRefund,
       GrowOlder, vars
  <1>8. QED
    BY <1>1, <1>2, <1>3, <1>4, <1>5, <1>6, <1>7 DEF Next, JobStep

LEMMA InitPaidInv ==
  ASSUME Init
  PROVE  PaidInv
  BY DEF Init, PaidInv, NoJob, Idle, Step, Live, SlotHolding

LEMMA PaidStep ==
  ASSUME IInv, PaidInv, [Next]_vars
  PROVE  PaidInv'
  BY LiveStep, JobPaidStep, WarrantStep DEF PaidInv, Warranted

\* A purchase waits for approval, is scheduled, runs or has ended only with a
\* payment on record that the booking names, whatever requests, webhooks, the
\* job and crashes interleave.
THEOREM PurchasesArePaid == Spec => []LivePurchaseIsPaid
  <1>1. Init => PaidInv
    BY InitPaidInv
  <1>2. IInv /\ PaidInv /\ [Next]_vars => PaidInv'
    BY PaidStep
  <1>3. PaidInv => LivePurchaseIsPaid
    BY DEF PaidInv, LivePurchaseIsPaid, Live, Paid
  <1>4. QED
    BY <1>1, <1>2, <1>3, IInvHolds, PTL DEF Spec

-----------------------------------------------------------------------------
(* Who takes a turn, and what a mishap leaves behind.                       *)

\* A request changes by a step of its own, or with the process.
LEMMA OwnTurn ==
  ASSUME IInv, [Next]_vars, NEW q \in Callers, request'[q] # request[q]
  PROVE  Ask(q) \/ Proceed(q) \/ WebhookFails(q) \/ RequestFails(q) \/ Crash
  <1>1. request \in [Callers -> Request]
    BY DEF IInv, Requests
  <1>2. ASSUME NEW p \in Callers, NEW r, request' = [request EXCEPT ![p] = r]
        PROVE  p = q
    BY <1>1, <1>2
  <1>3. ASSUME NEW p \in Callers, Ask(p)
        PROVE  p = q
    <2>1. \E r : request' = [request EXCEPT ![p] = r]
      BY <1>3 DEF Ask, Grant, Book, DeliverFresh, CancelUnpaid, Approve, AdminCancel,
         Load, Begin
    <2>2. QED
      BY <1>2, <2>1
  <1>4. ASSUME NEW p \in Callers, Proceed(p) \/ WebhookFails(p) \/ RequestFails(p)
        PROVE  p = q
    <2>1. CASE CreateBooking(p)
      BY <1>1, <2>1 DEF CreateBooking
    <2>2. CASE ~CreateBooking(p)
      <3>1. Done(p) \/ \E s \in RequestSteps : Goto(p, s)
        BY <1>4, <2>2 DEF Proceed, CountSlots, CountCredit, OpenCheckout, PayMock,
           Confirm, FindBooking, RecordPayment, Acknowledge, Forget, SaveCancelled,
           LoadPayment, StripeRefund, SaveRefund, SaveApproved, CreateGrant,
           WebhookFails, RequestFails, RequestSteps, Counted
      <3>2. QED
        BY <1>1, <3>1 DEF Done, Goto
    <2>3. QED
      BY <2>1, <2>2
  <1>5. ASSUME \/ JobStep \/ Advance \/ UNCHANGED vars
               \/ \E b \in Bookings :
                   \/ Pay(b) \/ DeliverDuplicate(b) \/ InsertFails(b)
                   \/ MirrorRefund(b) \/ GrowOlder(b)
        PROVE  FALSE
    BY <1>5 DEF JobStep, FindDue, ReleaseUnpaid, Activate, End, SaveNext, Advance, Pay,
       DeliverDuplicate, InsertFails, MirrorRefund, GrowOlder, vars
  <1>6. QED
    BY <1>3, <1>4, <1>5 DEF Next

\* What has gone wrong is not forgotten.
LEMMA MishapsStay ==
  ASSUME [Next]_vars
  PROVE  mishaps \subseteq mishaps'
  <1>1. ASSUME NEW p \in Callers, Proceed(p)
        PROVE  UNCHANGED mishaps
    BY <1>1 DEF Proceed, CountSlots, CountCredit, CreateBooking, OpenCheckout, PayMock,
       Confirm, FindBooking, RecordPayment, Acknowledge, Forget, SaveCancelled,
       LoadPayment, StripeRefund, SaveRefund, SaveApproved, CreateGrant, bounds
  <1>2. ASSUME NEW p \in Callers, Ask(p) \/ WebhookFails(p) \/ RequestFails(p)
        PROVE  mishaps \subseteq mishaps'
    BY <1>2 DEF Ask, Grant, Book, DeliverFresh, CancelUnpaid, Approve, AdminCancel, Load,
       Sent, WebhookFails, RequestFails, Mishap
  <1>3. ASSUME \/ JobStep \/ Advance \/ Crash \/ UNCHANGED vars
               \/ \E b \in Bookings :
                   \/ Pay(b) \/ DeliverDuplicate(b) \/ InsertFails(b)
                   \/ MirrorRefund(b) \/ GrowOlder(b)
        PROVE  mishaps \subseteq mishaps'
    BY <1>3 DEF JobStep, FindDue, ReleaseUnpaid, Activate, End, SaveNext, Advance, Crash,
       Pay, DeliverDuplicate, InsertFails, MirrorRefund, GrowOlder, Sent, Mishap, bounds,
       vars
  <1>4. QED
    BY <1>1, <1>2, <1>3 DEF Next

-----------------------------------------------------------------------------
(* What a cancellation refunds it releases.                                 *)

\* No request of an owner or an admin has been cut off.
Whole == mishaps \cap {"crash", "failure"} = {}

\* A cancellation that refunds b has the booking still to save.
Refunding(b) ==
    \E p \in Callers : Step(p) \in {"saveRefund", "saveCancelled"} /\ Booking(p) = b

\* A payment belongs to a booking; one that Stripe or the database has refunded
\* frees the slot.
RefundInv ==
    /\ \A b \in Bookings : payment[b] # "none" => status[b] # "none"
    /\ Whole => \A b \in Bookings :
            "refunded" \in {payment[b], checkout[b]} /\ Holds(b) =>
                b \in late \/ Refunding(b)

\* A booking that exists takes a slot it did not hold only as a late one.
LEMMA HoldsAgain ==
  ASSUME IInv, RecordOperation, NEW b \in Bookings, status[b] # "none", Holds(b)'
  PROVE  (Holds(b) \/ b \in late') /\ (b \in late => b \in late')
  <1> USE DEF IInv, Records, Holds, SlotHolding
  <1>1. CASE Quiet
    BY <1>1 DEF Quiet, bookingVars
  <1>2. CASE Aged
    BY <1>2 DEF Aged, history
  <1>3. CASE Released
    BY <1>3 DEF Released, history
  <1>4. ASSUME NEW c \in Bookings, NEW s \in Saveable, OneSaved(c, s)
        PROVE  (Holds(b) \/ b \in late') /\ (b \in late => b \in late')
    BY <1>4 DEF OneSaved, Save, Saveable
  <1>5. ASSUME NEW p \in Callers, NEW c \in Bookings, NEW s \in Statuses \ {"none"},
               OneInserted(p, c, s)
        PROVE  (Holds(b) \/ b \in late') /\ (b \in late => b \in late')
    BY <1>5 DEF OneInserted, Insert, Unused
  <1>6. QED
    BY <1>1, <1>2, <1>3, <1>4, <1>5 DEF RecordOperation

\* A cancellation that has refunded ends with the slot given back.
LEMMA RefundingGoesOn ==
  ASSUME IInv, [Next]_vars, NEW b \in Bookings, Refunding(b), Whole', Holds(b)'
  PROVE  Refunding(b)'
  <1>1. PICK p \in Callers : Step(p) \in {"saveRefund", "saveCancelled"} /\ Booking(p) = b
    BY DEF Refunding
  <1>2. CASE request'[p] = request[p]
    BY <1>1, <1>2 DEF Refunding, Step, Booking
  <1>3. ASSUME request'[p] # request[p]
        PROVE  Refunding(b)'
    <2>1. request \in [Callers -> Request] /\ For(p) \in {"cancelled", "rejected"}
      BY <1>1 DEF IInv, Requests, Sound, Step, For, CancelSteps
    <2>2. ~Crash /\ ~RequestFails(p) /\ ~WebhookFails(p)
      BY <2>1 DEF Crash, RequestFails, WebhookFails, Mishap, Whole
    <2>3. ~Ask(p)
      BY <1>1 DEF Ask, Grant, Book, DeliverFresh, CancelUnpaid, Approve, AdminCancel, Load,
         Begin
    <2>4. SaveRefund(p) \/ SaveCancelled(p)
      BY <1>1, <1>3, <2>2, <2>3, OwnTurn DEF Proceed, CountSlots, CountCredit,
         CreateBooking, OpenCheckout, PayMock, Confirm, FindBooking, RecordPayment,
         Acknowledge, Forget, LoadPayment, StripeRefund, SaveApproved, CreateGrant
    <2>5. ~SaveCancelled(p)
      BY <1>1, <2>1 DEF SaveCancelled, Save, IInv, Records, Holds, SlotHolding
    <2>6. Goto(p, "saveCancelled")
      BY <2>4, <2>5 DEF SaveRefund
    <2>7. Step(p)' = "saveCancelled" /\ Booking(p)' = b
      BY <1>1, <2>1, <2>6 DEF Goto, Request, Step, Booking
    <2>8. QED
      BY <2>7 DEF Refunding
  <1>4. QED
    BY <1>2, <1>3

\* Stripe and the database learn of a refund from a cancellation.
LEMMA BecomesRefunded ==
  ASSUME IInv, [Next]_vars, NEW b \in Bookings,
         "refunded" \notin {payment[b], checkout[b]},
         "refunded" \in {payment'[b], checkout'[b]}
  PROVE  Refunding(b)'
  <1>1. ASSUME NEW p \in Callers, StripeRefund(p) \/ SaveRefund(p)
        PROVE  Refunding(b)'
    <2>1. Booking(p) = b
      BY <1>1 DEF StripeRefund, SaveRefund, IInv, Money
    <2>2. PICK s \in {"saveRefund", "saveCancelled"} : Goto(p, s)
      BY <1>1, <2>1 DEF StripeRefund, SaveRefund, IInv, Money
    <2>3. Step(p)' = s /\ Booking(p)' = b
      BY <2>1, <2>2 DEF Goto, IInv, Requests, Request, Step, Booking
    <2>4. QED
      BY <2>3 DEF Refunding
  <1>2. ASSUME NEW p \in Callers,
               \/ OpenCheckout(p) \/ PayMock(p) \/ RecordPayment(p)
               \/ CountSlots(p) \/ CountCredit(p) \/ CreateBooking(p) \/ Confirm(p)
               \/ FindBooking(p) \/ Acknowledge(p) \/ Forget(p) \/ SaveCancelled(p)
               \/ LoadPayment(p) \/ SaveApproved(p) \/ CreateGrant(p)
        PROVE  FALSE
    BY <1>2 DEF OpenCheckout, PayMock, RecordPayment, CountSlots, CountCredit,
       CreateBooking, Confirm, FindBooking, Acknowledge, Forget, SaveCancelled,
       LoadPayment, SaveApproved, CreateGrant, moneyVars, IInv, Money
  <1>3. ASSUME NEW p \in Callers, Ask(p) \/ WebhookFails(p) \/ RequestFails(p)
        PROVE  FALSE
    BY <1>3 DEF Ask, Grant, Book, DeliverFresh, CancelUnpaid, Approve, AdminCancel, Load,
       WebhookFails, RequestFails, moneyVars
  <1>4. ASSUME \/ JobStep \/ Advance \/ Crash \/ UNCHANGED vars
               \/ \E c \in Bookings :
                   \/ Pay(c) \/ DeliverDuplicate(c) \/ InsertFails(c)
                   \/ MirrorRefund(c) \/ GrowOlder(c)
        PROVE  FALSE
    BY <1>4 DEF JobStep, FindDue, ReleaseUnpaid, Activate, End, SaveNext, Advance, Crash,
       Pay, DeliverDuplicate, InsertFails, MirrorRefund, GrowOlder, moneyVars, vars, IInv,
       Money
  <1>5. QED
    BY <1>1, <1>2, <1>3, <1>4 DEF Next, Proceed

\* Only a request for a booking that exists records its payment.
LEMMA PaymentsOfBookings ==
  ASSUME IInv, [Next]_vars, NEW b \in Bookings, payment[b] = "none", payment'[b] # "none"
  PROVE  status[b] # "none"
  <1>1. ASSUME NEW p \in Callers, PayMock(p) \/ RecordPayment(p) \/ SaveRefund(p)
        PROVE  status[b] # "none"
    <2>1. Booking(p) = b
      BY <1>1 DEF PayMock, RecordPayment, SaveRefund, IInv, Money
    <2>2. QED
      BY <1>1, <2>1 DEF PayMock, RecordPayment, SaveRefund, IInv, Requests, Sound, Step,
         Booking, BookingSteps, RequestSteps, Counted
  <1>2. ASSUME NEW p \in Callers,
               \/ OpenCheckout(p) \/ CountSlots(p) \/ CountCredit(p) \/ CreateBooking(p)
               \/ Confirm(p) \/ FindBooking(p) \/ Acknowledge(p) \/ Forget(p)
               \/ SaveCancelled(p) \/ LoadPayment(p) \/ StripeRefund(p)
               \/ SaveApproved(p) \/ CreateGrant(p)
        PROVE  FALSE
    BY <1>2 DEF OpenCheckout, CountSlots, CountCredit, CreateBooking, Confirm,
       FindBooking, Acknowledge, Forget, SaveCancelled, LoadPayment, StripeRefund,
       SaveApproved, CreateGrant, moneyVars
  <1>3. ASSUME NEW p \in Callers, Ask(p) \/ WebhookFails(p) \/ RequestFails(p)
        PROVE  FALSE
    BY <1>3 DEF Ask, Grant, Book, DeliverFresh, CancelUnpaid, Approve, AdminCancel, Load,
       WebhookFails, RequestFails, moneyVars
  <1>4. ASSUME \/ JobStep \/ Advance \/ Crash \/ UNCHANGED vars
               \/ \E c \in Bookings :
                   \/ Pay(c) \/ DeliverDuplicate(c) \/ InsertFails(c)
                   \/ MirrorRefund(c) \/ GrowOlder(c)
        PROVE  FALSE
    BY <1>4 DEF JobStep, FindDue, ReleaseUnpaid, Activate, End, SaveNext, Advance, Crash,
       Pay, DeliverDuplicate, InsertFails, MirrorRefund, GrowOlder, moneyVars, vars, IInv,
       Money
  <1>5. QED
    BY <1>1, <1>2, <1>3, <1>4 DEF Next, Proceed

LEMMA RefundStep ==
  ASSUME IInv, RefundInv, [Next]_vars
  PROVE  RefundInv'
  <1>1. RecordOperation /\ Kept
    BY RecordOperations, RecordsStep
  <1>2. ASSUME NEW b \in Bookings, payment'[b] # "none"
        PROVE  status'[b] # "none"
    BY <1>1, <1>2, PaymentsOfBookings DEF RefundInv, Kept
  <1>3. ASSUME NEW b \in Bookings, Whole', "refunded" \in {payment'[b], checkout'[b]},
               Holds(b)', ~Refunding(b)'
        PROVE  b \in late'
    <2>1. Whole
      BY <1>3, MishapsStay DEF Whole
    <2>2. "refunded" \in {payment[b], checkout[b]}
      BY <1>3, BecomesRefunded
    <2>3. status[b] # "none"
      BY <2>2 DEF RefundInv, IInv, Money
    <2>4. ~Refunding(b)
      BY <1>3, RefundingGoesOn
    <2>5. Holds(b) => b \in late
      BY <2>1, <2>2, <2>4 DEF RefundInv
    <2>6. QED
      BY <1>1, <1>3, <2>3, <2>5, HoldsAgain
  <1>4. QED
    BY <1>2, <1>3 DEF RefundInv

\* A booking refunded by its cancellation keeps its slot only until that cancellation
\* has saved it, unless an older save brings it back, a request is cut off or the
\* process dies: `refund` calls Stripe before it saves, and Stripe's own event of it may
\* come at any time.
THEOREM RefundsRelease == Spec => []RefundedIsReleased
  <1>1. Init => RefundInv
    BY DEF Init, RefundInv
  <1>2. IInv /\ RefundInv /\ [Next]_vars => RefundInv'
    BY RefundStep
  <1>3. RefundInv => RefundedIsReleased
    BY DEF RefundInv, RefundedIsReleased, Whole, Refunding
  <1>4. QED
    BY <1>1, <1>2, <1>3, IInvHolds, PTL DEF Spec

-----------------------------------------------------------------------------
(* What Stripe takes for delivered has been booked.                         *)

\* The payment of b is recorded and the booking names it.
Booked(b) == payment[b] # "none" /\ linked[b]

\* What a request knows of the booking it works on: one with a checkout session is
\* a purchase, one to be rejected was paid, the event of one has a session.
Knows(q) ==
    /\ Step(q) \in {"slots", "credit", "create"} => For(q) \in {"purchase", "plan_credit"}
    /\ Step(q) = "checkout" => source[Booking(q)] = "purchase"
    /\ Step(q) \in CancelSteps /\ For(q) = "rejected" => Paid(Booking(q))
    /\ Step(q) \in {"find", "acknowledge"} => For(q) = "webhook"
    /\ For(q) = "webhook" =>
        /\ Step(q) \in WebhookSteps \cup {"forget"}
        /\ Booking(q) \in Bookings /\ checkout[Booking(q)] # "none"
        /\ Step(q) = "acknowledge" => Booked(Booking(q))

KnownInv ==
    /\ \A q \in Callers : Knows(q)
    /\ \A b \in Bookings :
        /\ checkout[b] # "none" => source[b] = "purchase"
        /\ status[b] = "rejected" => Paid(b)

Delivered == mishaps \cap {"crash", "insertFailure", "duplicate"} = {}

\* An event that has a record is answered or at work; one that is answered has
\* its booking.
AnswerInv == Delivered =>
    /\ \A b \in seen : b \in acked \/ BeingDelivered(b)
    /\ \A b \in acked : Booked(b)

\* No checkout session is forgotten.
LEMMA SessionsStay ==
  ASSUME IInv, [Next]_vars, NEW b \in Bookings, checkout[b] # "none"
  PROVE  checkout'[b] # "none"
  <1>1. ASSUME NEW p \in Callers, OpenCheckout(p) \/ StripeRefund(p)
        PROVE  checkout'[b] # "none"
    BY <1>1 DEF OpenCheckout, StripeRefund, IInv, Money
  <1>2. ASSUME NEW p \in Callers,
               \/ CountSlots(p) \/ CountCredit(p) \/ CreateBooking(p) \/ PayMock(p)
               \/ Confirm(p) \/ FindBooking(p) \/ RecordPayment(p) \/ Acknowledge(p)
               \/ Forget(p) \/ SaveCancelled(p) \/ LoadPayment(p) \/ SaveRefund(p)
               \/ SaveApproved(p) \/ CreateGrant(p)
               \/ Ask(p) \/ WebhookFails(p) \/ RequestFails(p)
        PROVE  UNCHANGED checkout
    BY <1>2 DEF CountSlots, CountCredit, CreateBooking, PayMock, Confirm, FindBooking,
       RecordPayment, Acknowledge, Forget, SaveCancelled, LoadPayment, SaveRefund,
       SaveApproved, CreateGrant, Ask, Grant, Book, DeliverFresh, CancelUnpaid, Approve,
       AdminCancel, Load, WebhookFails, RequestFails, moneyVars
  <1>3. ASSUME \/ JobStep \/ Advance \/ Crash \/ UNCHANGED vars
               \/ \E c \in Bookings :
                   \/ Pay(c) \/ DeliverDuplicate(c) \/ InsertFails(c)
                   \/ MirrorRefund(c) \/ GrowOlder(c)
        PROVE  checkout'[b] # "none"
    BY <1>3 DEF JobStep, FindDue, ReleaseUnpaid, Activate, End, SaveNext, Advance, Crash,
       Pay, DeliverDuplicate, InsertFails, MirrorRefund, GrowOlder, moneyVars, vars, IInv,
       Money
  <1>4. QED
    BY <1>1, <1>2, <1>3 DEF Next, Proceed

\* What is booked stays booked.
LEMMA BookedStays ==
  ASSUME IInv, [Next]_vars, NEW b \in Bookings, status[b] # "none", Booked(b)
  PROVE  Booked(b)'
  BY PaymentsStay, SourcesStay DEF Booked

\* A checkout session is opened by a request for a purchase.
LEMMA BecomesOpen ==
  ASSUME IInv, KnownInv, [Next]_vars, NEW b \in Bookings, checkout[b] = "none",
         checkout'[b] # "none"
  PROVE  source[b] = "purchase" /\ status[b] # "none"
  <1>1. ASSUME NEW p \in Callers, OpenCheckout(p)
        PROVE  source[b] = "purchase" /\ status[b] # "none"
    <2>1. Booking(p) = b
      BY <1>1 DEF OpenCheckout, IInv, Money
    <2>2. QED
      BY <1>1, <2>1 DEF OpenCheckout, KnownInv, Knows, IInv, Requests, Sound, Step,
         Booking, BookingSteps, RequestSteps, Counted
  <1>2. ASSUME NEW p \in Callers, StripeRefund(p)
        PROVE  FALSE
    BY <1>2 DEF StripeRefund, IInv, Money
  <1>3. ASSUME NEW p \in Callers,
               \/ CountSlots(p) \/ CountCredit(p) \/ CreateBooking(p) \/ PayMock(p)
               \/ Confirm(p) \/ FindBooking(p) \/ RecordPayment(p) \/ Acknowledge(p)
               \/ Forget(p) \/ SaveCancelled(p) \/ LoadPayment(p) \/ SaveRefund(p)
               \/ SaveApproved(p) \/ CreateGrant(p)
               \/ Ask(p) \/ WebhookFails(p) \/ RequestFails(p)
        PROVE  UNCHANGED checkout
    BY <1>3 DEF CountSlots, CountCredit, CreateBooking, PayMock, Confirm, FindBooking,
       RecordPayment, Acknowledge, Forget, SaveCancelled, LoadPayment, SaveRefund,
       SaveApproved, CreateGrant, Ask, Grant, Book, DeliverFresh, CancelUnpaid, Approve,
       AdminCancel, Load, WebhookFails, RequestFails, moneyVars
  <1>4. ASSUME \/ JobStep \/ Advance \/ Crash \/ UNCHANGED vars
               \/ \E c \in Bookings :
                   \/ Pay(c) \/ DeliverDuplicate(c) \/ InsertFails(c)
                   \/ MirrorRefund(c) \/ GrowOlder(c)
        PROVE  FALSE
    BY <1>4 DEF JobStep, FindDue, ReleaseUnpaid, Activate, End, SaveNext, Advance, Crash,
       Pay, DeliverDuplicate, InsertFails, MirrorRefund, GrowOlder, moneyVars, vars, IInv,
       Money
  <1>5. QED
    BY <1>1, <1>2, <1>3, <1>4 DEF Next, Proceed

\* A booking is rejected by an admin who was to reject it.
LEMMA BecomesRejected ==
  ASSUME IInv, [Next]_vars, NEW b \in Bookings, status[b] # "rejected",
         status'[b] = "rejected"
  PROVE  \E p \in Callers : SaveCancelled(p) /\ Booking(p) = b /\ For(p) = "rejected"
  <1>1. ASSUME NEW p \in Callers, SaveCancelled(p)
        PROVE  Booking(p) = b /\ For(p) = "rejected"
    BY <1>1 DEF SaveCancelled, Save, IInv, Records
  <1>2. ASSUME NEW p \in Callers,
               Confirm(p) \/ SaveApproved(p) \/ CreateBooking(p) \/ CreateGrant(p)
        PROVE  FALSE
    <2>1. "rejected" \notin {Running, Confirmed}
      BY DEF Running, Confirmed
    <2>2. CASE Confirm(p) \/ SaveApproved(p)
      BY <2>1, <2>2 DEF Confirm, SaveApproved, Save, IInv, Records
    <2>3. CASE CreateBooking(p) \/ CreateGrant(p)
      BY <2>1, <2>3 DEF CreateBooking, CreateGrant, Insert, IInv, Records
    <2>4. QED
      BY <1>2, <2>2, <2>3
  <1>3. ASSUME NEW p \in Callers,
               \/ CountSlots(p) \/ CountCredit(p) \/ OpenCheckout(p) \/ PayMock(p)
               \/ FindBooking(p) \/ RecordPayment(p) \/ Acknowledge(p) \/ Forget(p)
               \/ LoadPayment(p) \/ StripeRefund(p) \/ SaveRefund(p)
               \/ Ask(p) \/ WebhookFails(p) \/ RequestFails(p)
        PROVE  UNCHANGED status
    BY <1>3 DEF CountSlots, CountCredit, OpenCheckout, PayMock, FindBooking,
       RecordPayment, Acknowledge, Forget, LoadPayment, StripeRefund, SaveRefund, Ask,
       Grant, Book, DeliverFresh, CancelUnpaid, Approve, AdminCancel, Load, WebhookFails,
       RequestFails, bookingVars
  <1>4. ASSUME NEW c \in Bookings,
               \/ Activate(c) \/ End(c)
               \/ Pay(c) \/ DeliverDuplicate(c) \/ InsertFails(c)
               \/ MirrorRefund(c) \/ GrowOlder(c)
        PROVE  FALSE
    BY <1>4 DEF Activate, End, SaveNext, Save, Pay, DeliverDuplicate, InsertFails,
       MirrorRefund, GrowOlder, bookingVars, IInv, Records
  <1>5. ASSUME FindDue \/ ReleaseUnpaid \/ Advance \/ Crash \/ UNCHANGED vars
        PROVE  FALSE
    BY <1>5 DEF FindDue, ReleaseUnpaid, Advance, Crash, bookingVars, vars, IInv, Records
  <1>6. QED
    BY <1>1, <1>2, <1>3, <1>4, <1>5 DEF Next, Proceed, JobStep

\* What a request knows stays true while others act.
LEMMA KnowsStill ==
  ASSUME IInv, [Next]_vars, NEW q \in Callers, Knows(q), request'[q] = request[q]
  PROVE  Knows(q)'
  <1>1. Step(q)' = Step(q) /\ For(q)' = For(q) /\ Booking(q)' = Booking(q)
    BY DEF Step, For, Booking
  <1>2. CASE Step(q) \in {"checkout"} \cup CancelSteps /\ For(q) # "webhook"
    <2>1. Booking(q) \in Bookings /\ status[Booking(q)] # "none" /\ Step(q) \notin Counted
      BY <1>2 DEF IInv, Requests, Sound, Step, Booking, BookingSteps, RequestSteps,
         Counted, CancelSteps
    <2>2. PICK b \in Bookings : b = Booking(q) /\ b = Booking(q)' /\ status[b] # "none"
      BY <1>1, <2>1
    <2>3. source'[b] = source[b] /\ (Paid(b) => Paid(b)')
      BY <2>2, SourcesStay, PaidStays
    <2>4. Step(q) \notin {"slots", "credit", "create"}
      BY <1>2 DEF CancelSteps
    <2>5. QED
      BY <1>1, <1>2, <2>2, <2>3, <2>4 DEF Knows, Paid
  <1>3. CASE For(q) = "webhook"
    <2>1. Booking(q) \in Bookings /\ checkout[Booking(q)] # "none"
          /\ Step(q) \in WebhookSteps \cup {"forget"}
      BY <1>3 DEF Knows
    <2>2. PICK b \in Bookings :
            b = Booking(q) /\ b = Booking(q)' /\ checkout[b] # "none"
      BY <1>1, <2>1
    <2>3. status[b] # "none" /\ checkout'[b] # "none"
      BY <2>2, SessionsStay DEF IInv, Money
    <2>4. Booked(b) => Booked(b)'
      BY <2>3, BookedStays
    <2>5. QED
      BY <1>1, <1>3, <2>1, <2>2, <2>3, <2>4 DEF Knows, Booked, WebhookSteps, CancelSteps
  <1>4. CASE Step(q) \notin {"checkout"} \cup CancelSteps /\ For(q) # "webhook"
    BY <1>1, <1>4 DEF Knows
  <1>5. QED
    BY <1>2, <1>3, <1>4

\* A booking with a checkout session that is neither unpaid nor cancelled is booked.
LEMMA FoundBooked ==
  ASSUME IInv, PaidInv, KnownInv, NEW b \in Bookings, checkout[b] # "none",
         status[b] \notin {"pending_payment", "cancelled"}
  PROVE  Booked(b)
  <1>1. status[b] \in Live \cup {"rejected"}
    BY DEF IInv, Money, Records, Statuses, Dropped, Live
  <1>2. source[b] = "purchase" /\ Paid(b)
    BY <1>1 DEF PaidInv, KnownInv
  <1>3. QED
    BY <1>2 DEF Paid, Booked

\* A request knows what it is to know after each of its steps.
LEMMA ProceedKnows ==
  ASSUME IInv, PaidInv, KnownInv, [Next]_vars, NEW q \in Callers, Proceed(q)
  PROVE  Knows(q)'
  <1>1. request \in [Callers -> Request] /\ Knows(q)
    BY DEF IInv, Requests, KnownInv
  <1>2. ASSUME NEW s \in RequestSteps, Goto(q, s)
        PROVE  Step(q)' = s /\ For(q)' = For(q) /\ Booking(q)' = Booking(q)
    BY <1>1, <1>2 DEF Goto, Request, Step, For, Booking
  <1>3. ASSUME Done(q)
        PROVE  Knows(q)'
    <2>1. Step(q)' = "idle" /\ For(q)' = "none"
      BY <1>1, <1>3 DEF Done, Idle, Step, For
    <2>2. QED
      BY <2>1 DEF Knows, CancelSteps
  <1>4. CASE CountSlots(q) \/ CountCredit(q)
    <2>1. For(q) \in {"purchase", "plan_credit"}
      BY <1>1, <1>4 DEF CountSlots, CountCredit, Knows
    <2>2. ASSUME NEW s \in {"credit", "create"}, Goto(q, s)
          PROVE  Knows(q)'
      <3>1. Step(q)' = s /\ For(q)' = For(q)
        BY <1>2, <2>2 DEF RequestSteps, Counted
      <3>2. QED
        BY <2>1, <3>1 DEF Knows, CancelSteps
    <2>3. QED
      BY <1>3, <1>4, <2>2 DEF CountSlots, CountCredit
  <1>5. CASE CreateBooking(q)
    <2>1. PICK b \in Bookings :
            /\ Insert(q, b, "pending_payment", Owner(q), For(q))
            /\ request' = [request EXCEPT
                    ![q].booking = b,
                    ![q].step = IF For(q) = "plan_credit" THEN "confirm"
                                ELSE IF setting.mock THEN "mockPayment"
                                ELSE "checkout"]
      BY <1>5 DEF CreateBooking
    <2> DEFINE s == IF For(q) = "plan_credit" THEN "confirm"
                    ELSE IF setting.mock THEN "mockPayment" ELSE "checkout"
    <2>2. request'[q] = [request[q] EXCEPT !.booking = b, !.step = s]
      BY <1>1, <2>1
    <2>3. s \in {"confirm", "mockPayment", "checkout"} /\ (s = "checkout" => For(q) # "plan_credit")
      OBVIOUS
    <2> HIDE DEF s
    <2>4. Step(q)' = s /\ For(q)' = For(q) /\ Booking(q)' = b
      BY <1>1, <2>2 DEF Request, Step, For, Booking
    <2>5. For(q) \in {"purchase", "plan_credit"}
      BY <1>1, <1>5 DEF CreateBooking, Knows
    <2>6. source'[b] = For(q)
      BY <2>1 DEF Insert, IInv, Records
    <2>7. QED
      BY <2>3, <2>4, <2>5, <2>6 DEF Knows, CancelSteps
  <1>6. ASSUME For(q) = "webhook"
        PROVE  \E b \in Bookings : /\ b = Booking(q)
                                   /\ checkout[b] # "none" /\ checkout'[b] # "none"
                                   /\ status[b] # "none"
    BY <1>1, <1>6, SessionsStay DEF Knows, IInv, Money
  <1>7. CASE PayMock(q) \/ RecordPayment(q)
    <2>1. Step(q)' = "confirm" /\ For(q)' = For(q) /\ Booking(q)' = Booking(q)
      BY <1>2, <1>7 DEF PayMock, RecordPayment, RequestSteps
    <2>2. QED
      BY <1>6, <2>1 DEF Knows, CancelSteps, WebhookSteps
  <1>8. CASE Confirm(q)
    <2>1. CASE For(q) # "webhook"
      BY <1>3, <1>8, <2>1 DEF Confirm
    <2>2. CASE For(q) = "webhook"
      <3>1. PICK b \in Bookings : b = Booking(q) /\ checkout'[b] # "none"
        BY <1>6, <2>2
      <3>2. Step(q)' = "acknowledge" /\ For(q)' = For(q) /\ Booking(q)' = b
        BY <1>2, <1>8, <2>2, <3>1 DEF Confirm, RequestSteps
      <3>3. linked'[b]
        BY <1>8, <2>2, <3>1 DEF Confirm, IInv, Records
      <3>4. payment'[b] # "none"
        BY <1>8, <2>2, <3>1 DEF Confirm, PaidInv, MayConfirm, moneyVars
      <3>5. QED
        BY <2>2, <3>1, <3>2, <3>3, <3>4 DEF Knows, Booked, CancelSteps, WebhookSteps
    <2>3. QED
      BY <2>1, <2>2
  <1>9. CASE FindBooking(q)
    <2>1. PICK s \in {"record", "acknowledge"} :
            /\ Step(q)' = s /\ For(q)' = For(q) /\ Booking(q)' = Booking(q)
            /\ s = "acknowledge" => status[Booking(q)] \notin {"pending_payment", "cancelled"}
      BY <1>2, <1>9 DEF FindBooking, RequestSteps
    <2>2. For(q) = "webhook"
      BY <1>1, <1>9 DEF FindBooking, Knows
    <2>3. CASE For(q) = "webhook"
      <3>1. PICK b \in Bookings : /\ b = Booking(q) /\ checkout[b] # "none"
                                  /\ checkout'[b] # "none" /\ status[b] # "none"
        BY <1>6, <2>3
      <3>2. s = "acknowledge" => Booked(b)'
        BY <2>1, <3>1, FoundBooked, BookedStays
      <3>3. QED
        BY <2>1, <2>3, <3>1, <3>2 DEF Knows, Booked, CancelSteps, WebhookSteps
    <2>4. QED
      BY <2>2, <2>3
  <1>10. ASSUME NEW s \in CancelSteps, Goto(q, s), Step(q) \in CancelSteps
         PROVE  Knows(q)'
    <2>1. Step(q)' = s /\ For(q)' = For(q) /\ Booking(q)' = Booking(q)
      BY <1>2, <1>10 DEF CancelSteps, RequestSteps
    <2>2. /\ Booking(q) \in Bookings /\ status[Booking(q)] # "none"
          /\ For(q) \in {"cancelled", "rejected"}
      BY <1>10 DEF IInv, Requests, Sound, Step, Booking, For, BookingSteps, RequestSteps,
         Counted, CancelSteps
    <2>3. PICK b \in Bookings : b = Booking(q) /\ b = Booking(q)' /\ status[b] # "none"
      BY <2>1, <2>2
    <2>4. For(q) = "rejected" => Paid(b)'
      BY <1>1, <1>10, <2>3, PaidStays DEF Knows
    <2>5. QED
      BY <2>1, <2>2, <2>3, <2>4 DEF Knows, Paid, CancelSteps
  <1>11. CASE LoadPayment(q) \/ StripeRefund(q) \/ SaveRefund(q)
    <2>1. /\ Step(q) \in CancelSteps
          /\ \/ Done(q)
             \/ \E s \in {"saveRefund", "stripeRefund", "saveCancelled"} : Goto(q, s)
      BY <1>11 DEF LoadPayment, StripeRefund, SaveRefund, CancelSteps
    <2>2. QED
      BY <1>3, <1>10, <2>1 DEF CancelSteps
  <1>12. CASE \/ OpenCheckout(q) \/ Acknowledge(q) \/ Forget(q) \/ SaveCancelled(q)
              \/ SaveApproved(q) \/ CreateGrant(q)
    BY <1>3, <1>12 DEF OpenCheckout, Acknowledge, Forget, SaveCancelled, SaveApproved,
       CreateGrant
  <1>13. QED
    BY <1>4, <1>5, <1>7, <1>8, <1>9, <1>11, <1>12 DEF Proceed

LEMMA AskKnows ==
  ASSUME IInv, PaidInv, KnownInv, [Next]_vars, NEW q \in Callers, Ask(q)
  PROVE  Knows(q)'
  <1>1. request \in [Callers -> Request]
    BY DEF IInv, Requests
  <1>2. ASSUME NEW s, NEW b, NEW k, NEW x, Begin(q, s, b, k, x)
        PROVE  Step(q)' = s /\ For(q)' = k /\ Booking(q)' = b
    BY <1>1, <1>2 DEF Begin, Step, For, Booking
  <1>3. ASSUME NEW x \in Businesses, Grant(q, x)
        PROVE  Knows(q)'
    <2>1. Step(q)' = "grant" /\ For(q)' = "admin_grant"
      BY <1>2, <1>3 DEF Grant
    <2>2. QED
      BY <2>1 DEF Knows, CancelSteps
  <1>4. ASSUME NEW x \in Businesses, NEW src \in {"purchase", "plan_credit"}, Book(q, x, src)
        PROVE  Knows(q)'
    <2>1. Step(q)' = "slots" /\ For(q)' = src
      BY <1>2, <1>4 DEF Book
    <2>2. QED
      BY <2>1 DEF Knows, CancelSteps
  <1>5. ASSUME NEW b \in Bookings, DeliverFresh(q, b)
        PROVE  Knows(q)'
    <2>1. Step(q)' = "find" /\ For(q)' = "webhook" /\ Booking(q)' = b
      BY <1>2, <1>5 DEF DeliverFresh
    <2>2. checkout'[b] # "none"
      BY <1>5 DEF DeliverFresh, Sent
    <2>3. QED
      BY <2>1, <2>2 DEF Knows, CancelSteps, WebhookSteps
  <1>6. ASSUME NEW b \in Bookings, CancelUnpaid(q, b) \/ Approve(q, b)
        PROVE  Knows(q)'
    <2>1. Step(q)' \in {"saveCancelled", "saveApproved"} /\ For(q)' \in {"cancelled", "approve"}
      BY <1>2, <1>6 DEF CancelUnpaid, Approve, Load
    <2>2. QED
      BY <2>1 DEF Knows, CancelSteps
  <1>7. ASSUME NEW b \in Bookings, NEW to \in {"cancelled", "rejected"},
               AdminCancel(q, b, to)
        PROVE  Knows(q)'
    <2>1. PICK s \in {"refund", "saveCancelled"} : Begin(q, s, b, to, "none")
      BY <1>7 DEF AdminCancel, Load
    <2>2. Step(q)' = s /\ For(q)' = to /\ Booking(q)' = b
      BY <1>2, <2>1
    <2>3. to = "rejected" => Paid(b) /\ status[b] # "none"
      BY <1>7 DEF AdminCancel, PaidInv, Live, SlotHolding
    <2>4. to = "rejected" => Paid(b)'
      BY <2>3, PaidStays
    <2>5. QED
      BY <2>2, <2>4 DEF Knows, Paid, CancelSteps
  <1>8. QED
    BY <1>3, <1>4, <1>5, <1>6, <1>7 DEF Ask

LEMMA KnowsStep ==
  ASSUME IInv, PaidInv, KnownInv, [Next]_vars, NEW q \in Callers
  PROVE  Knows(q)'
  <1>1. request \in [Callers -> Request] /\ Knows(q)
    BY DEF IInv, Requests, KnownInv
  <1>2. CASE WebhookFails(q)
    <2>1. PICK b \in Bookings : b = Booking(q) /\ checkout[b] # "none"
      BY <1>1, <1>2 DEF WebhookFails, Knows
    <2>2. Step(q)' = "forget" /\ For(q)' = "webhook" /\ Booking(q)' = b
      BY <1>1, <1>2, <2>1 DEF WebhookFails, Goto, Request, Step, For, Booking
    <2>3. checkout'[b] # "none"
      BY <2>1, SessionsStay
    <2>4. QED
      BY <2>2, <2>3 DEF Knows, CancelSteps
  <1>3. CASE RequestFails(q) \/ Crash
    <2>1. Step(q)' = "idle" /\ For(q)' = "none"
      BY <1>1, <1>3 DEF RequestFails, Crash, Done, Idle, Step, For
    <2>2. QED
      BY <2>1 DEF Knows, CancelSteps
  <1>4. QED
    BY <1>1, <1>2, <1>3, OwnTurn, KnowsStill, ProceedKnows, AskKnows

LEMMA KnownStep ==
  ASSUME IInv, PaidInv, KnownInv, [Next]_vars
  PROVE  KnownInv'
  <1>1. ASSUME NEW b \in Bookings, checkout'[b] # "none"
        PROVE  source'[b] = "purchase"
    BY <1>1, BecomesOpen, SourcesStay DEF KnownInv, IInv, Money
  <1>2. ASSUME NEW b \in Bookings, status'[b] = "rejected"
        PROVE  Paid(b)'
    <2>1. Paid(b) /\ status[b] # "none"
      <3>1. CASE status[b] = "rejected"
        BY <3>1 DEF KnownInv
      <3>2. CASE status[b] # "rejected"
        <4>1. PICK p \in Callers : SaveCancelled(p) /\ Booking(p) = b /\ For(p) = "rejected"
          BY <1>2, <3>2, BecomesRejected
        <4>2. QED
          BY <4>1 DEF SaveCancelled, KnownInv, Knows, CancelSteps, IInv, Requests, Sound,
             Step, Booking, BookingSteps, RequestSteps, Counted
      <3>3. QED
        BY <3>1, <3>2
    <2>2. QED
      BY <2>1, PaidStays
  <1>3. QED
    BY <1>1, <1>2, KnowsStep DEF KnownInv

\* Nobody knows anything at the start.
LEMMA InitKnown ==
  ASSUME Init
  PROVE  KnownInv
  BY DEF Init, KnownInv, Knows, Idle, Step, For, CancelSteps

-----------------------------------------------------------------------------
(* Every event on record is at work until it is answered.                   *)

LEMMA DeliveryGoesOn ==
  ASSUME IInv, KnownInv, [Next]_vars, NEW b \in Bookings, BeingDelivered(b), ~Crash
  PROVE  b \in acked' \/ b \notin seen' \/ BeingDelivered(b)'
  <1>1. PICK p \in Callers : For(p) = "webhook" /\ Booking(p) = b
    BY DEF BeingDelivered
  <1>2. CASE request'[p] = request[p]
    BY <1>1, <1>2 DEF BeingDelivered, For, Booking
  <1>3. ASSUME request'[p] # request[p]
        PROVE  b \in acked' \/ b \notin seen' \/ BeingDelivered(b)'
    <2>1. request \in [Callers -> Request] /\ Step(p) \in WebhookSteps \cup {"forget"}
      BY <1>1 DEF IInv, Requests, KnownInv, Knows
    <2>2. ~Ask(p) /\ ~RequestFails(p)
      BY <1>1, <2>1 DEF Ask, Grant, Book, DeliverFresh, CancelUnpaid, Approve, AdminCancel,
         Load, Begin, RequestFails, WebhookSteps
    <2>3. ASSUME NEW s \in RequestSteps, Goto(p, s)
          PROVE  BeingDelivered(b)'
      <3>1. For(p)' = "webhook" /\ Booking(p)' = b
        BY <1>1, <2>1, <2>3 DEF Goto, Request, For, Booking
      <3>2. QED
        BY <3>1 DEF BeingDelivered
    <2>4. CASE WebhookFails(p)
      BY <2>3, <2>4 DEF WebhookFails, RequestSteps
    <2>5. CASE Proceed(p)
      <3>1. \/ FindBooking(p) \/ RecordPayment(p) \/ Confirm(p)
            \/ Acknowledge(p) \/ Forget(p)
        BY <2>1, <2>5 DEF Proceed, CountSlots, CountCredit, CreateBooking, OpenCheckout,
           PayMock, SaveCancelled, LoadPayment, StripeRefund, SaveRefund, SaveApproved,
           CreateGrant, WebhookSteps
      <3>2. CASE FindBooking(p) \/ RecordPayment(p) \/ Confirm(p)
        BY <1>1, <2>3, <3>2 DEF FindBooking, RecordPayment, Confirm, RequestSteps
      <3>3. CASE Acknowledge(p) \/ Forget(p)
        BY <1>1, <3>3 DEF Acknowledge, Forget
      <3>4. QED
        BY <3>1, <3>2, <3>3
    <2>6. QED
      BY <1>3, <2>2, <2>4, <2>5, OwnTurn
  <1>4. QED
    BY <1>2, <1>3

\* An event is recorded as it is delivered, and answered by whoever has done with
\* it; the rest are mishaps.
LEMMA EventSteps ==
  ASSUME IInv, AnswerInv, [Next]_vars, Delivered'
  PROVE  /\ Delivered /\ ~Crash
         /\ acked \subseteq acked'
         /\ \A b \in seen' \ seen : BeingDelivered(b)'
         /\ \A b \in acked' \ acked : \E p \in Callers : Acknowledge(p) /\ Booking(p) = b
  <1> DEFINE Goal == /\ acked \subseteq acked'
                     /\ \A b \in seen' \ seen : BeingDelivered(b)'
                     /\ \A b \in acked' \ acked :
                            \E p \in Callers : Acknowledge(p) /\ Booking(p) = b
  <1>1. Delivered
    BY MishapsStay DEF Delivered
  <1>2. ~Crash
    BY DEF Crash, Mishap, Delivered
  <1>3. ASSUME NEW p \in Callers, Acknowledge(p) \/ Forget(p)
        PROVE  Goal
    BY <1>3 DEF Acknowledge, Forget
  <1>4. ASSUME NEW p \in Callers, NEW b \in Bookings, DeliverFresh(p, b)
        PROVE  Goal
    <2>1. For(p)' = "webhook" /\ Booking(p)' = b
      BY <1>4 DEF DeliverFresh, Begin, For, Booking, IInv, Requests
    <2>2. BeingDelivered(b)'
      BY <2>1 DEF BeingDelivered
    <2>3. QED
      BY <1>4, <2>2 DEF DeliverFresh
  <1>5. ASSUME NEW b \in Bookings, DeliverDuplicate(b) \/ InsertFails(b)
        PROVE  FALSE
    BY <1>1, <1>5 DEF DeliverDuplicate, InsertFails, Sent, Mishap, Delivered, AnswerInv
  <1>6. ASSUME UNCHANGED <<seen, acked>>
        PROVE  Goal
    BY <1>6
  <1>7. ASSUME NEW p \in Callers,
               \/ CountSlots(p) \/ CountCredit(p) \/ CreateBooking(p) \/ OpenCheckout(p)
               \/ PayMock(p) \/ Confirm(p) \/ FindBooking(p) \/ RecordPayment(p)
               \/ SaveCancelled(p) \/ LoadPayment(p) \/ StripeRefund(p) \/ SaveRefund(p)
               \/ SaveApproved(p) \/ CreateGrant(p) \/ WebhookFails(p) \/ RequestFails(p)
        PROVE  UNCHANGED <<seen, acked>>
    BY <1>7 DEF CountSlots, CountCredit, CreateBooking, OpenCheckout, PayMock, Confirm,
       FindBooking, RecordPayment, SaveCancelled, LoadPayment, StripeRefund, SaveRefund,
       SaveApproved, CreateGrant, WebhookFails, RequestFails, moneyVars
  <1>8. ASSUME NEW p \in Callers, Ask(p), ~\E b \in Bookings : DeliverFresh(p, b)
        PROVE  UNCHANGED <<seen, acked>>
    BY <1>8 DEF Ask, Grant, Book, CancelUnpaid, Approve, AdminCancel, Load, moneyVars
  <1>9. ASSUME \/ JobStep \/ Advance \/ UNCHANGED vars
               \/ \E b \in Bookings : Pay(b) \/ MirrorRefund(b) \/ GrowOlder(b)
        PROVE  UNCHANGED <<seen, acked>>
    BY <1>9 DEF JobStep, FindDue, ReleaseUnpaid, Activate, End, SaveNext, Advance, Pay,
       MirrorRefund, GrowOlder, moneyVars, vars
  <1> HIDE DEF Goal
  <1>10. Goal
    BY <1>2, <1>3, <1>4, <1>5, <1>6, <1>7, <1>8, <1>9 DEF Next, Proceed
  <1>11. QED
    BY <1>1, <1>2, <1>10 DEF Goal

LEMMA AnswerStep ==
  ASSUME IInv, RefundInv, KnownInv, AnswerInv, [Next]_vars
  PROVE  AnswerInv'
  <1>1. SUFFICES ASSUME Delivered'
                 PROVE  /\ \A b \in seen' : b \in acked' \/ BeingDelivered(b)'
                        /\ \A b \in acked' : Booked(b)'
    BY DEF AnswerInv
  <1>2. /\ Delivered /\ ~Crash
        /\ acked \subseteq acked'
        /\ \A b \in seen' \ seen : BeingDelivered(b)'
        /\ \A b \in acked' \ acked : \E p \in Callers : Acknowledge(p) /\ Booking(p) = b
    BY <1>1, EventSteps
  <1>3. ASSUME NEW b \in seen', b \in seen, b \notin acked'
        PROVE  BeingDelivered(b)'
    <2>1. b \in Bookings /\ BeingDelivered(b)
      BY <1>2, <1>3 DEF AnswerInv, IInv, Money
    <2>2. QED
      BY <1>2, <1>3, <2>1, DeliveryGoesOn
  <1>4. ASSUME NEW b \in acked
        PROVE  Booked(b)'
    <2>1. b \in Bookings /\ Booked(b) /\ status[b] # "none"
      BY <1>2, <1>4 DEF AnswerInv, Booked, RefundInv, IInv, Money
    <2>2. QED
      BY <2>1, BookedStays
  <1>5. ASSUME NEW b \in acked' \ acked
        PROVE  Booked(b)'
    <2>1. PICK p \in Callers : Acknowledge(p) /\ Booking(p) = b
      BY <1>2, <1>5
    <2>2. Booked(b)
      BY <2>1 DEF Acknowledge, KnownInv, Knows
    <2>3. QED
      BY <2>1, <2>2 DEF Acknowledge, Booked, bookingVars
  <1>6. QED
    BY <1>2, <1>3, <1>4, <1>5

\* When Stripe takes the event of a payment for delivered, the payment is recorded
\* and the booking names it, through failures and retries, for `handleWebhook` answers
\* only when it has done or has forgotten the event. Excepted are a process that dies in
\* the middle, a record of the event that fails to be stored, and an event sent again
\* while the first is at work: each of these is answered as a duplicate.
THEOREM AnswersAreBooked == Spec => []AnsweredIsBooked
  <1>1. Init => RefundInv /\ KnownInv /\ AnswerInv
    BY InitKnown DEF Init, RefundInv, AnswerInv
  <1>2. /\ IInv /\ RefundInv /\ [Next]_vars => RefundInv'
        /\ IInv /\ PaidInv /\ KnownInv /\ [Next]_vars => KnownInv'
        /\ IInv /\ RefundInv /\ KnownInv /\ AnswerInv /\ [Next]_vars => AnswerInv'
    BY RefundStep, KnownStep, AnswerStep
  <1>3. Init => PaidInv
    BY InitPaidInv
  <1>4. IInv /\ PaidInv /\ [Next]_vars => PaidInv'
    BY PaidStep
  <1>5. AnswerInv => AnsweredIsBooked
    BY DEF AnswerInv, AnsweredIsBooked, Delivered, Booked
  <1>6. QED
    BY <1>1, <1>2, <1>3, <1>4, <1>5, IInvHolds, PTL DEF Spec
=============================================================================
