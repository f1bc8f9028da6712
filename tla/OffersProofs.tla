---------------------------- MODULE OffersProofs ----------------------------
(***************************************************************************)
(* Proofs about Offers, for any number of requests, revisions, cases and     *)
(* crashes: type correctness; that the background, whatever it has read      *)
(* before, publishes nothing new and leaves the business its offers; and     *)
(* that a website that has opted out stays out: once an opt-out is done,     *)
(* with no person at work beside it, no check, job, report or redemption,    *)
(* however old what it has read, brings back the offer imported from it.     *)
(***************************************************************************)
EXTENDS Offers, SequenceTheorems, TLAPS

Ids == Revisions \cup Cases \cup {0}

\* The steps any request may have to do, and those of opt-outs and redemptions.
Plain == {"offer", "count", "write", "supersede", "orphans", "propose", "check",
          "report", "case", "reports", "expire", "find"}
OptOutSteps == {"offer", "count", "write", "supersede", "done"}
ReaderSteps == {"offer", "count", "write"}
PlainOf(actor) == IF actor = "optOut" THEN OptOutSteps
                  ELSE IF actor = "reader" THEN ReaderSteps ELSE Plain
Deciders == {"admin", "owner"}

\* What a request must know for any other step it still has to do.
OnRevision(r) == r.id \in Revisions /\ r.to \in {"applied", "discarded"}
OnCase(r)     == r.id \in Cases
Allowed(r) ==
    {s \in Steps :
        /\ r.actor = "optOut" => s \in OptOutSteps
        /\ r.actor = "reader" => s \in ReaderSteps
        /\ s = "done" => r.actor = "optOut"
        /\ s = "create" => r.actor \in Deciders
        /\ s = "candidate" => r.to \in Candidates
        /\ s = "store" => r.to \in Candidates
        /\ s = "revision" => OnRevision(r)
        /\ s = "hidden" => OnCase(r)
        /\ s = "distinct" => OnCase(r)
        /\ s = "decide" => OnCase(r) /\ r.to \in Deciding
        /\ s = "appeal" => OnCase(r) /\ r.to \in {"accepted", "declined"} /\ r.actor = "admin"
        /\ s = "restore" => OnCase(r) /\ r.actor = "admin"}

\* On the site, or on the way to or from it.
Shown == Public \cup {"possibly_removed", "scheduled"}

\* What the background may make of an offer of status s that m manages.
Lawful(s, m, t) ==
    t # s =>
        /\ t \in Shown => s \in Shown
        /\ m = "merchant" => \/ t \in {"expired", "hidden_by_reports"}
                             \/ s = "scheduled" /\ t = "active"

\* A write of the background is lawful in every state its filter lets through.
Bounded(r) ==
    r.actor \in Automatic =>
        /\ "managedBy" \notin r.fields
        /\ "status" \in r.fields =>
               \A s \in r.status : \A m \in r.manager : Lawful(s, m, r.new.status)

\* A reader can only use the offer up.
Redeeming(r) ==
    r.actor = "reader" =>
        /\ "managedBy" \notin r.fields
        /\ "status" \in r.fields => r.new.status = "expired"

Sound(r) ==
    /\ r.todo \in Seq(Allowed(r))
    /\ r.else \in Seq(PlainOf(r.actor))
    /\ Bounded(r)
    /\ Redeeming(r)

Requests ==
    /\ request \in [Callers -> Request]
    /\ \A p \in Callers : Sound(request[p])

Documents ==
    /\ offer \in Offer
    /\ candidate \in Candidates
    /\ revision \in [Revisions -> {"none", "pending", "applied", "discarded", "superseded"}]
    /\ case \in [Cases -> Case]
    /\ reports \in 0 .. Threshold
    /\ count \in 0 .. 1

Others ==
    /\ begun \in 0 .. MaxRequests
    /\ crashes \in 0 .. MaxCrashes
    /\ misses \in 0 .. AbsentForReview
    /\ raced \in BOOLEAN /\ unfound \in BOOLEAN /\ crossed \in BOOLEAN
    /\ optOut \in {"no", "done", "raced", "overruled"}

IInv == Requests /\ Documents /\ Others

LEMMA IInvImpliesTypeOK == IInv => TypeOK
  BY DEF IInv, Requests, Documents, Others, TypeOK

-----------------------------------------------------------------------------
(* Requests that begin.                                                     *)

LEMMA PlainAllowed ==
  ASSUME NEW r
  PROVE  PlainOf(r.actor) \subseteq Allowed(r) /\ Allowed(r) \subseteq Steps
  BY DEF PlainOf, Plain, OptOutSteps, ReaderSteps, Allowed, Steps

LEMMA NoOfferType == NoOffer \in Offer
  BY DEF NoOffer, Offer, Statuses, Managers, AbsentForReview

\* An offer with another status, and one of a business.
LEMMA OfferStatus ==
  ASSUME NEW o \in Offer, NEW status \in Statuses
  PROVE  /\ [o EXCEPT !.status = status] \in Offer
         /\ [o EXCEPT !.status = status].status = status
         /\ [o EXCEPT !.status = status].managedBy = o.managedBy
  BY DEF Offer

LEMMA IdleSound == Idle \in Request /\ Sound(Idle) /\ Idle.todo = <<>>
  <1>1. <<>> \in Seq(Steps) /\ <<>> \in Seq(Allowed(Idle))
        /\ <<>> \in Seq(PlainOf(Idle.actor))
    OBVIOUS
  <1>2. Idle \in Request
    BY <1>1, NoOfferType DEF Idle, Request, Statuses
  <1>3. Sound(Idle)
    BY <1>1 DEF Idle, Sound, Bounded, Redeeming, Automatic
  <1>4. QED
    BY <1>2, <1>3 DEF Idle

LEMMA InitIInv ==
  ASSUME Init
  PROVE  IInv
  <1>1. offer \in Offer
    <2>1. CASE offer = NoOffer
      BY <2>1, NoOfferType
    <2>2. CASE offer = [NoOffer EXCEPT !.status = "active"]
      BY <2>2, NoOfferType, OfferStatus DEF Statuses, Stored, Ending, Public
    <2>3. ASSUME NEW future \in BOOLEAN,
                 offer = [NoOffer EXCEPT !.status = "draft", !.origin = "merchant",
                                         !.managedBy = "merchant", !.future = future]
          PROVE  offer \in Offer
      <3>1. offer = [status |-> "draft", origin |-> "merchant", managedBy |-> "merchant",
                     absent |-> 0, ended |-> FALSE, future |-> future]
        BY <2>3 DEF NoOffer
      <3>2. "draft" \in Statuses
        BY DEF Statuses, Stored
      <3>3. QED
        BY <3>1, <3>2 DEF Offer, Managers, AbsentForReview
    <2>4. QED
      BY <2>1, <2>2, <2>3 DEF Init
  <1>2. NoCase \in Case
    BY DEF NoCase, Case, Statuses
  <1>3. Documents
    <2>1. candidate \in Candidates
      BY DEF Init, Candidates
    <2>2. revision \in [Revisions -> {"none", "pending", "applied", "discarded", "superseded"}]
          /\ case \in [Cases -> Case]
      BY <1>2 DEF Init
    <2>3. reports \in 0 .. Threshold /\ count \in 0 .. 1
      <3>1. reports = 0 /\ count = One(offer.status)
        BY DEF Init
      <3>2. QED
        BY <3>1, OfferConstants DEF One
    <2>4. QED
      BY <1>1, <2>1, <2>2, <2>3 DEF Documents
  <1>4. Requests
    BY IdleSound DEF Init, Requests
  <1>5. Others
    <2>1. /\ begun = 0 /\ crashes = 0 /\ misses = 0
          /\ raced = FALSE /\ unfound = FALSE /\ crossed = FALSE /\ optOut = "no"
      BY DEF Init
    <2>2. begun \in 0 .. MaxRequests /\ crashes \in 0 .. MaxCrashes
          /\ misses \in 0 .. AbsentForReview
      BY <2>1, OfferConstants DEF AbsentForReview
    <2>3. QED
      BY <2>1, <2>2 DEF Others
  <1>6. QED
    BY <1>3, <1>4, <1>5 DEF IInv

-----------------------------------------------------------------------------
(* How a request goes on.                                                   *)

LEMMA Turned ==
  ASSUME Requests, NEW p \in Callers, NEW r \in Request, Sound(r), Turn(p, r)
  PROVE  Requests'
  BY IdleSound DEF Requests, Turn

LEMMA Took ==
  ASSUME Requests, NEW p \in Callers, NEW r \in Request, Sound(r),
         request' = [request EXCEPT ![p] = r]
  PROVE  Requests'
  BY DEF Requests

LEMMA AfterSound ==
  ASSUME Requests, NEW p \in Callers, Busy(p)
  PROVE  /\ After(p) \in Request /\ Sound(After(p))
         /\ After(p).todo = Tail(request[p].todo)
         /\ Head(request[p].todo) \in Allowed(request[p])
  <1> DEFINE r == request[p]
             a == After(p)
  <1>1. r \in Request /\ Sound(r) /\ r.todo # <<>>
    BY DEF Requests, Busy
  <1>2. Head(r.todo) \in Allowed(r) /\ Tail(r.todo) \in Seq(Allowed(r))
    BY <1>1, HeadTailProperties DEF Sound
  <1>3. Tail(r.todo) \in Seq(Steps)
    BY <1>1, HeadTailProperties DEF Request
  <1>4. a = [r EXCEPT !.todo = Tail(r.todo)]
    BY DEF After
  <1>5. a \in Request /\ a.todo = Tail(r.todo) /\ a.else = r.else /\ a.actor = r.actor
        /\ a.to = r.to /\ a.id = r.id /\ a.fields = r.fields /\ a.status = r.status
        /\ a.manager = r.manager /\ a.new = r.new
    BY <1>1, <1>3, <1>4 DEF Request
  <1>6. Allowed(a) = Allowed(r)
    BY <1>5 DEF Allowed, OnRevision, OnCase
  <1>7. Sound(a)
    BY <1>1, <1>2, <1>5, <1>6 DEF Sound, Bounded, Redeeming
  <1>8. QED
    BY <1>2, <1>5, <1>7

LEMMA Advanced ==
  ASSUME Requests, NEW p \in Callers, Busy(p), Advance(p)
  PROVE  Requests'
  BY AfterSound, Turned DEF Advance

\* A request that has written the offer, or found that it may not.
LEMMA WrittenSound ==
  ASSUME Requests, NEW p \in Callers, NEW todo \in Seq(Allowed(request[p]))
  PROVE  Written(p, todo) \in Request /\ Sound(Written(p, todo))
  <1> DEFINE r == request[p]
             w == Written(p, todo)
  <1>1. r \in Request
    BY DEF Requests
  <1>2. todo \in Seq(Steps) /\ <<>> \in Seq(Steps) /\ <<>> \in Seq(PlainOf(r.actor))
    BY SeqMonotonic DEF Allowed
  <1>3. w \in Request
    BY <1>1, <1>2, NoOfferType DEF Written, Request
  <1>4. w.todo = todo /\ w.else = <<>> /\ w.actor = r.actor /\ w.to = r.to /\ w.id = r.id
        /\ w.fields = {}
    BY <1>1 DEF Written, Request
  <1>5. Allowed(w) = Allowed(r)
    BY <1>4 DEF Allowed, OnRevision, OnCase
  <1>6. QED
    BY <1>2, <1>3, <1>4, <1>5 DEF Sound, Bounded, Redeeming

LEMMA OfferWritten ==
  ASSUME offer \in Offer, NEW new \in Offer, NEW fields
  PROVE  LET o == [f \in Fields |-> IF f \in fields THEN new[f] ELSE offer[f]]
         IN  /\ o \in Offer
             /\ o.status = IF "status" \in fields THEN new.status ELSE offer.status
  BY DEF Offer, Fields

LEMMA WriteOfferStep ==
  ASSUME IInv, NEW p \in Callers, WriteOffer(p)
  PROVE  IInv' /\ (request[p].actor \in Automatic =>
                      Lawful(offer.status, offer.managedBy, offer'.status))
  <1> DEFINE r == request[p]
  <1>1. Requests /\ r \in Request /\ Sound(r) /\ r.todo # <<>> /\ offer \in Offer
    BY DEF IInv, Requests, Documents, WriteOffer, At, Busy
  <1>2. Tail(r.todo) \in Seq(Allowed(r)) /\ r.else \in Seq(Allowed(r))
    <2>1. r.todo \in Seq(Allowed(r)) /\ r.else \in Seq(PlainOf(r.actor))
      BY <1>1 DEF Sound
    <2>2. Seq(PlainOf(r.actor)) \subseteq Seq(Allowed(r))
      BY PlainAllowed, SeqMonotonic
    <2>3. QED
      BY <1>1, <2>1, <2>2, HeadTailProperties
  <1>3. Requests'
    <2>1. PICK todo \in Seq(Allowed(r)) : Turn(p, Written(p, todo))
      BY <1>2 DEF WriteOffer
    <2>2. QED
      BY <1>1, <2>1, WrittenSound, Turned
  <1>4. /\ offer' \in Offer
        /\ r.actor \in Automatic => Lawful(offer.status, offer.managedBy, offer'.status)
    <2>1. CASE Matches(p)
      <3>1. offer' = [f \in Fields |-> IF f \in r.fields THEN r.new[f] ELSE offer[f]]
        BY <2>1 DEF WriteOffer
      <3>2. r.new \in Offer
        BY <1>1 DEF Request
      <3>3. offer' \in Offer
            /\ offer'.status = IF "status" \in r.fields THEN r.new.status ELSE offer.status
        BY <1>1, <3>1, <3>2, OfferWritten
      <3>4. offer.status \in r.status /\ offer.managedBy \in r.manager
        BY <2>1 DEF Matches
      <3>5. CASE "status" \in r.fields
        BY <1>1, <3>3, <3>4, <3>5 DEF Sound, Bounded, Redeeming
      <3>6. CASE "status" \notin r.fields
        BY <3>3, <3>6 DEF Lawful
      <3>7. QED
        BY <3>3, <3>5, <3>6
    <2>2. CASE ~Matches(p)
      BY <1>1, <2>2 DEF WriteOffer, Lawful
    <2>3. QED
      BY <2>1, <2>2
  <1>5. Documents'
    BY <1>4 DEF WriteOffer, IInv, Documents
  <1>6. misses' \in 0 .. AbsentForReview
    <2>1. misses \in 0 .. AbsentForReview
      BY DEF IInv, Others
    <2>2. misses' \in {misses, 0, AbsentForReview} \/ (misses < AbsentForReview /\ misses' = misses + 1)
      BY DEF WriteOffer
    <2>3. QED
      BY <2>1, <2>2 DEF AbsentForReview
  <1>7. raced' \in BOOLEAN
    BY DEF WriteOffer, NoteRace, IInv, Others
  <1>8. Others'
    BY <1>6, <1>7 DEF WriteOffer, IInv, Others, bounds
  <1>9. QED
    BY <1>3, <1>4, <1>5, <1>8 DEF IInv

-----------------------------------------------------------------------------
(* How a request begins.                                                    *)

LEMMA Begun ==
  ASSUME IInv, NEW p \in Callers, NEW r \in Request, Sound(r), Begin(p, r)
  PROVE  IInv' /\ UNCHANGED offer
  <1>1. Requests'
    BY Took DEF Begin, IInv
  <1>2. Documents' /\ UNCHANGED offer
    BY DEF Begin, docs, IInv, Documents
  <1>3. Others'
    <2>1. begun' \in 0 .. MaxRequests
      BY OfferConstants DEF Begin, IInv, Others
    <2>2. optOut' \in {"no", "done", "raced", "overruled"}
      BY DEF Begin, IInv, Others
    <2>3. QED
      BY <2>1, <2>2 DEF Begin, IInv, Others
  <1>4. QED
    BY <1>1, <1>2, <1>3 DEF IInv

\* Lists of steps.
LEMMA Lists ==
  ASSUME NEW A, {"offer", "count", "write"} \subseteq A
  PROVE  /\ <<>> \in Seq(A)
         /\ \A s \in A : <<s>> \in Seq(A)
         /\ Recount \in Seq(A)
         /\ \A s, t \in Seq(A) : s \o t \in Seq(A)
  BY ConcatProperties DEF Recount

LEMMA PlainSteps == Plain \subseteq Steps
  BY DEF Plain, Steps

\* A request as Save and Update make it.
Made(actor, todo, else, new, fields, status, manager) ==
  [Idle EXCEPT !.actor = actor, !.todo = todo, !.else = else, !.new = new,
               !.fields = fields, !.status = status, !.manager = manager]

LEMMA MadeType ==
  ASSUME NEW actor \in Automatic \cup People, NEW todo \in Seq(Steps),
         NEW else \in Seq(Steps), NEW new \in Offer, NEW fields \in SUBSET Fields,
         NEW status \in SUBSET Statuses, NEW manager \in SUBSET Managers
  PROVE  LET m == Made(actor, todo, else, new, fields, status, manager)
         IN  /\ m \in Request /\ m.actor = actor /\ m.to = "" /\ m.id = 0
             /\ m.todo = todo /\ m.else = else /\ m.before = "none" /\ m.new = new
             /\ m.fields = fields /\ m.status = status /\ m.manager = manager
  <1>1. Made(actor, todo, else, new, fields, status, manager) \in Request
    BY IdleSound DEF Made, Request
  <1>2. LET m == Made(actor, todo, else, new, fields, status, manager)
        IN  /\ m.actor = actor /\ m.to = Idle.to /\ m.id = Idle.id
            /\ m.todo = todo /\ m.else = else /\ m.before = Idle.before /\ m.new = new
            /\ m.fields = fields /\ m.status = status /\ m.manager = manager
    BY IdleSound DEF Made, Request
  <1>3. Idle.to = "" /\ Idle.id = 0 /\ Idle.before = "none"
    BY DEF Idle
  <1>4. QED
    BY <1>1, <1>2, <1>3

LEMMA PersonSound ==
  ASSUME NEW s, s.actor \in Deciders, s.todo \in Seq(Allowed(s)), s.else = <<>>
  PROVE  Sound(s)
  <1>1. s.actor # "optOut" /\ s.actor # "reader" /\ s.actor \notin Automatic
    BY DEF Deciders, Automatic
  <1>2. s.else \in Seq(PlainOf(s.actor))
    OBVIOUS
  <1>3. QED
    BY <1>1, <1>2 DEF Sound, Bounded, Redeeming

\* The steps of a request that begins with a write of the offer.
OfferThen(then) == <<"offer">> \o then

LEMMA PlainLists ==
  ASSUME NEW r, NEW then \in Seq(PlainOf(r.actor))
  PROVE  /\ then \in Seq(Allowed(r))
         /\ OfferThen(then) \in Seq(Allowed(r))
  <1>1. OfferThen(then) \in Seq(PlainOf(r.actor))
    BY Lists DEF PlainOf, Plain, OptOutSteps, ReaderSteps, OfferThen
  <1>2. QED
    BY <1>1, PlainAllowed, SeqMonotonic

\* Nobody else has other plain steps.
LEMMA PlainOfOthers == \A actor : actor \notin {"optOut", "reader"} => PlainOf(actor) = Plain
  BY DEF PlainOf

LEMMA PlainStepLists ==
  /\ \A actor : \A then \in Seq(PlainOf(actor)) : then \in Seq(Steps)
  /\ \A then \in Seq(Plain) : then \in Seq(Steps)
  <1>1. \A actor : PlainOf(actor) \subseteq Steps
    BY PlainSteps DEF PlainOf, OptOutSteps, ReaderSteps, Steps
  <1>2. QED
    BY <1>1, PlainSteps, SeqMonotonic

\* A person saves the offer and then at most recounts.
LEMMA SaveType ==
  ASSUME offer \in Offer, NEW actor \in People, NEW new \in Offer, NEW then \in Seq(Steps)
  PROVE  /\ Save(actor, new, then) \in Request
         /\ Save(actor, new, then).actor = actor
         /\ Save(actor, new, then).todo = OfferThen(then)
         /\ Save(actor, new, then).else = <<>>
  <1> DEFINE s == Save(actor, new, then)
             fields == {f \in Fields : new[f] # offer[f]}
  <1>1. OfferThen(then) \in Seq(Steps)
    BY Lists DEF Steps, OfferThen
  <1>2. fields \in SUBSET Fields /\ Stored \in SUBSET Statuses
    BY DEF Statuses
  <1>3. s = [Idle EXCEPT !.actor = actor, !.todo = OfferThen(then), !.new = new,
                         !.fields = fields, !.status = Stored, !.manager = Managers]
    BY DEF Save, OfferThen
  <1> HIDE DEF s, fields
  <1>4. s \in Request
    BY <1>1, <1>2, <1>3, IdleSound DEF Request, People
  <1>5. s.actor = actor /\ s.todo = OfferThen(then) /\ s.else = Idle.else
    BY <1>3, IdleSound DEF Request
  <1>6. Idle.else = <<>>
    BY DEF Idle
  <1>7. QED
    BY <1>4, <1>5, <1>6 DEF s

LEMMA SaveSound ==
  ASSUME offer \in Offer, NEW actor \in Deciders, NEW new \in Offer, NEW then \in Seq(Plain)
  PROVE  Save(actor, new, then) \in Request /\ Sound(Save(actor, new, then))
  <1> DEFINE s == Save(actor, new, then)
  <1>1. then \in Seq(Steps) /\ actor \in People /\ actor \notin {"optOut", "reader"}
    BY PlainStepLists DEF Deciders, People
  <1>2. s \in Request /\ s.actor = actor /\ s.todo = OfferThen(then) /\ s.else = <<>>
    BY <1>1, SaveType
  <1>3. s.todo \in Seq(Allowed(s))
    BY <1>1, <1>2, PlainLists, PlainOfOthers
  <1>4. QED
    BY <1>2, <1>3, PersonSound

LEMMA SaveBegun ==
  ASSUME IInv, NEW p \in Callers, NEW actor \in Deciders, NEW new \in Offer,
         NEW then \in {Recount, <<>>},
         Begin(p, Save(actor, new, then))
  PROVE  IInv' /\ UNCHANGED offer
  <1>1. offer \in Offer
    BY DEF IInv, Documents
  <1>2. then \in Seq(Plain)
    BY Lists DEF Plain
  <1>3. QED
    BY <1>1, <1>2, SaveSound, Begun

-----------------------------------------------------------------------------
(* The requests of owners, customers and admins.                            *)

LEMMA Live == \A o \in Offer : LiveStatus(o) \in Statuses /\ Decided(o) \subseteq Statuses
  BY DEF LiveStatus, Decided, Statuses, Stored, Ending, Public

\* What a person may make of an offer is an offer.
LEMMA OfferTerms ==
  ASSUME NEW o \in Offer, NEW ended \in BOOLEAN, NEW future \in BOOLEAN
  PROVE  /\ [o EXCEPT !.ended = ended, !.future = future] \in Offer
         /\ [o EXCEPT !.ended = ended] \in Offer
         /\ [o EXCEPT !.ended = ended].status = o.status
  BY DEF Offer

LEMMA SeenAgain ==
  ASSUME NEW o \in Offer, NEW status \in Statuses
  PROVE  /\ [o EXCEPT !.status = status, !.absent = 0] \in Offer
         /\ [o EXCEPT !.status = status, !.absent = 0, !.ended = FALSE] \in Offer
  <1>1. 0 \in 0 .. AbsentForReview
    BY DEF AbsentForReview
  <1>2. QED
    BY <1>1 DEF Offer

LEMMA TakenType ==
  ASSUME NEW o \in Offer
  PROVE  Taken(o) \in Offer /\ Taken(o).status = o.status /\ Taken(o).managedBy = "merchant"
  BY DEF Taken, Offer, Managers

LEMMA ToType ==
  ASSUME IInv, NEW status \in Statuses
  PROVE  To(status) \in Offer
  BY OfferStatus DEF To, IInv, Documents

LEMMA OwnerSaved ==
  ASSUME IInv, NEW p \in Callers, NEW new \in Offer, OwnerSaves(p, new)
  PROVE  IInv' /\ UNCHANGED offer
  BY TakenType, SaveBegun DEF OwnerSaves, Deciders

LEMMA OwnerUpdateStep ==
  ASSUME IInv, NEW p \in Callers, OwnerUpdate(p)
  PROVE  IInv' /\ UNCHANGED offer
  <1>1. offer \in Offer
    BY DEF IInv, Documents
  <1>2. PICK submit \in BOOLEAN, future \in BOOLEAN :
          LET edited == [offer EXCEPT !.ended = FALSE, !.future = future]
              again  == submit \/ offer.status \in Public \cup {"scheduled", "pending"}
          IN  \E status \in IF again THEN Decided(edited)
                            ELSE {IF offer.status = "rejected" THEN "draft" ELSE offer.status} :
                  OwnerSaves(p, [edited EXCEPT !.status = status])
    BY DEF OwnerUpdate
  <1> DEFINE edited == [offer EXCEPT !.ended = FALSE, !.future = future]
             again  == submit \/ offer.status \in Public \cup {"scheduled", "pending"}
  <1>3. PICK status \in IF again THEN Decided(edited)
                        ELSE {IF offer.status = "rejected" THEN "draft" ELSE offer.status} :
          OwnerSaves(p, [edited EXCEPT !.status = status])
    BY <1>2
  <1>4. edited \in Offer
    BY <1>1, OfferTerms
  <1>5. "draft" \in Statuses /\ offer.status \in Statuses
    BY <1>1 DEF Offer, Statuses, Stored
  <1>6. status \in Statuses
    BY <1>3, <1>4, <1>5, Live
  <1> HIDE DEF edited
  <1>7. [edited EXCEPT !.status = status] \in Offer
    BY <1>4, <1>6, OfferStatus
  <1>8. QED
    BY <1>3, <1>7, OwnerSaved

LEMMA OwnerSteps ==
  ASSUME IInv, NEW p \in Callers,
         OwnerSubmit(p) \/ OwnerPause(p) \/ OwnerResume(p) \/ OwnerRemove(p)
         \/ OwnerConfirm(p)
  PROVE  IInv' /\ UNCHANGED offer
  <1>1. offer \in Offer /\ {"paused", "removed", "none", "expired"} \subseteq Statuses
    BY DEF IInv, Documents, Statuses, Stored, Ending, Closed
  <1>2. "owner" \in Deciders
    BY DEF Deciders
  <1>3. CASE OwnerSubmit(p)
    <2>1. PICK status \in Decided(offer) : Begin(p, Save("owner", To(status), Recount))
      BY <1>3 DEF OwnerSubmit
    <2>2. To(status) \in Offer
      BY <1>1, <2>1, Live, ToType
    <2>3. QED
      BY <1>2, <2>1, <2>2, SaveBegun
  <1>4. CASE OwnerPause(p)
    BY <1>1, <1>4, ToType, OwnerSaved DEF OwnerPause
  <1>5. CASE OwnerResume(p)
    BY <1>1, <1>5, Live, ToType, OwnerSaved DEF OwnerResume
  <1>6. CASE OwnerRemove(p)
    BY <1>1, <1>2, <1>6, ToType, OwnerSaved, SaveBegun DEF OwnerRemove
  <1>7. CASE OwnerConfirm(p)
    BY <1>1, <1>2, <1>7, TakenType, SaveBegun DEF OwnerConfirm
  <1>8. QED
    BY <1>3, <1>4, <1>5, <1>6, <1>7

\* A redemption writes nothing but the end of the offer.
LEMMA RedeemStep ==
  ASSUME IInv, NEW p \in Callers, RedeemLast(p)
  PROVE  IInv' /\ UNCHANGED offer
  <1> DEFINE new == To("expired")
             fields == {f \in Fields : new[f] # offer[f]}
             todo == OfferThen(Recount)
             s == [Idle EXCEPT !.actor = "reader", !.todo = todo, !.new = new,
                               !.fields = fields, !.status = Stored, !.manager = Managers]
  <1>1. offer \in Offer /\ "expired" \in Statuses /\ Stored \in SUBSET Statuses
        /\ "reader" \in People
    BY DEF IInv, Documents, Statuses, Stored, Closed, People
  <1>2. new \in Offer /\ new.status = "expired" /\ new.managedBy = offer.managedBy
    BY <1>1, OfferStatus DEF To
  <1>3. fields \in SUBSET Fields /\ "managedBy" \notin fields
    BY <1>2
  <1>4. todo \in Seq(PlainOf("reader"))
    BY Lists DEF PlainOf, ReaderSteps, OfferThen
  <1>5. todo \in Seq(Steps)
    BY <1>4, PlainStepLists
  <1>6. Begin(p, s)
    BY DEF RedeemLast, Save, OfferThen
  <1> HIDE DEF new, fields, todo
  <1>7. s \in Request
    BY <1>1, <1>2, <1>3, <1>5, IdleSound DEF Request
  <1>8. /\ s.actor = "reader" /\ s.todo = todo /\ s.else = Idle.else /\ s.fields = fields
        /\ s.new = new
    BY IdleSound DEF Request
  <1> HIDE DEF s
  <1>9. s.todo \in Seq(Allowed(s)) /\ s.else \in Seq(PlainOf(s.actor))
    <2>1. Idle.else \in Seq(PlainOf("reader"))
      BY DEF Idle
    <2>2. QED
      BY <1>4, <1>8, <2>1, PlainLists
  <1>10. Sound(s)
    BY <1>2, <1>3, <1>8, <1>9 DEF Sound, Bounded, Redeeming, Automatic
  <1>11. QED
    BY <1>6, <1>7, <1>10, Begun

LEMMA AdminSteps ==
  ASSUME IInv, NEW p \in Callers,
         AdminApprove(p) \/ AdminReject(p) \/ AdminPause(p) \/ SetExpiry(p)
         \/ RestoreReviewed(p)
  PROVE  IInv' /\ UNCHANGED offer
  <1>1. offer \in Offer
        /\ {"paused", "rejected", "expired", "active", "revision_pending"} \subseteq Statuses
    BY DEF IInv, Documents, Statuses, Stored, Ending, Closed, Public
  <1>2. "admin" \in Deciders
    BY DEF Deciders
  <1>3. CASE AdminApprove(p)
    <2>1. PICK edited \in {offer} \cup {[offer EXCEPT !.ended = FALSE, !.future = f] :
                                            f \in BOOLEAN} :
            Begin(p, Save("admin", [edited EXCEPT !.status = LiveStatus(edited)], Recount))
      BY <1>3 DEF AdminApprove
    <2>2. edited \in Offer
      BY <1>1, <2>1, OfferTerms
    <2>3. [edited EXCEPT !.status = LiveStatus(edited)] \in Offer
      BY <2>2, Live, OfferStatus
    <2>4. QED
      BY <1>2, <2>1, <2>3, SaveBegun
  <1>4. CASE AdminReject(p)
    BY <1>1, <1>2, <1>4, ToType, SaveBegun DEF AdminReject
  <1>5. CASE AdminPause(p)
    BY <1>1, <1>2, <1>5, ToType, SaveBegun DEF AdminPause
  <1>6. CASE SetExpiry(p)
    <2>1. PICK past \in BOOLEAN :
            Begin(p, Save("admin",
              [offer EXCEPT !.ended = past,
                            !.status = IF past /\ @ \in {"active", "scheduled", "paused"}
                                       THEN "expired" ELSE @], Recount))
      BY <1>6 DEF SetExpiry
    <2>2. [offer EXCEPT !.ended = past,
                        !.status = IF past /\ @ \in {"active", "scheduled", "paused"}
                                   THEN "expired" ELSE @] \in Offer
      BY <1>1 DEF Offer
    <2>3. QED
      BY <1>2, <2>1, <2>2, SaveBegun
  <1>7. CASE RestoreReviewed(p)
    <2>1. PICK status \in {"active", "revision_pending"} :
            Begin(p, Save("admin", [offer EXCEPT !.status = status, !.absent = 0], Recount))
      BY <1>7 DEF RestoreReviewed
    <2>2. [offer EXCEPT !.status = status, !.absent = 0] \in Offer
      BY <1>1, <2>1, SeenAgain
    <2>3. QED
      BY <1>2, <2>1, <2>2, SaveBegun
  <1>8. QED
    BY <1>3, <1>4, <1>5, <1>6, <1>7

-----------------------------------------------------------------------------
(* The requests that review imports and reports.                            *)

LEMMA PersonBegins ==
  ASSUME IInv, NEW p \in Callers, NEW r \in Request, r.actor \in Deciders,
         r.todo \in Seq(Allowed(r)), r.else = <<>>, Begin(p, r)
  PROVE  IInv' /\ UNCHANGED offer
  BY PersonSound, Begun

\* A request that has nothing to write to the offer yet.
LEMMA QuietSound ==
  ASSUME NEW r, r.todo \in Seq(Allowed(r)), r.else = <<>>, r.fields = {}
  PROVE  Sound(r)
  BY Lists DEF Sound, Bounded, Redeeming, Plain

LEMMA CandidateSteps ==
  ASSUME IInv, NEW p \in Callers, ApproveCandidate(p) \/ RejectCandidate(p)
  PROVE  IInv' /\ UNCHANGED offer
  <1>1. offer \in Offer /\ {"active", "pending"} \subseteq Statuses
        /\ {"admin", "owner"} \subseteq People \cap Deciders /\ {"create", "candidate"} \subseteq Steps
    BY DEF IInv, Documents, Statuses, Stored, Ending, Public, People, Deciders, Steps
  <1>2. CASE ApproveCandidate(p)
    <2> DEFINE long  == <<"create">> \o Recount \o <<"candidate">>
               short == <<"candidate">>
    <2>1. PICK new \in {To("active"), Taken(To("active")), Taken(To("pending"))} :
            Begin(p, [Idle EXCEPT
              !.actor = IF new.managedBy = "scraper" THEN "admin" ELSE "owner",
              !.todo = IF offer.status = "none" THEN long ELSE short,
              !.new = new, !.to = "approved"])
      BY <1>2 DEF ApproveCandidate
    <2>2. new \in Offer
      BY <1>1, <2>1, ToType, TakenType
    <2> DEFINE actor == IF new.managedBy = "scraper" THEN "admin" ELSE "owner"
               todo  == IF offer.status = "none" THEN long ELSE short
               r     == [Idle EXCEPT !.actor = actor, !.todo = todo, !.new = new,
                                     !.to = "approved"]
    <2>3. \A A : {"offer", "count", "write", "create", "candidate"} \subseteq A =>
                     long \in Seq(A) /\ short \in Seq(A)
      BY Lists
    <2>4. actor \in People \cap Deciders
      BY <1>1
    <2>5. todo \in Seq(Steps)
      <3>1. {"offer", "count", "write", "create", "candidate"} \subseteq Steps
        BY DEF Steps
      <3>2. QED
        BY <3>1, <2>3
    <2> HIDE DEF long, short, actor, todo
    <2>6. r \in Request
      BY <2>2, <2>4, <2>5, IdleSound DEF Request
    <2>7. r.actor = actor /\ r.to = "approved" /\ r.todo = todo /\ r.else = Idle.else
      BY IdleSound DEF Request
    <2>8. r.todo \in Seq(Allowed(r))
      <3>1. {"offer", "count", "write", "create", "candidate"} \subseteq Allowed(r)
        BY <2>4, <2>7 DEF Allowed, Steps, Deciders, Candidates
      <3>2. QED
        BY <3>1, <2>3, <2>7 DEF todo
    <2>9. QED
      BY <2>1, <2>4, <2>6, <2>7, <2>8, PersonBegins DEF Idle, actor, todo
  <1>3. CASE RejectCandidate(p)
    <2> DEFINE r == [Idle EXCEPT !.actor = "admin", !.todo = <<"candidate">>,
                                 !.to = "rejected"]
    <2>1. <<"candidate">> \in Seq(Steps)
      BY <1>1
    <2>2. r \in Request
      BY <1>1, <2>1, IdleSound DEF Request
    <2>3. r.actor = "admin" /\ r.to = "rejected" /\ r.todo = <<"candidate">>
          /\ r.else = Idle.else
      BY IdleSound DEF Request
    <2>4. "candidate" \in Allowed(r)
      BY <2>3 DEF Allowed, Steps, Candidates
    <2>5. r.todo \in Seq(Allowed(r))
      BY <2>3, <2>4
    <2>6. Begin(p, r)
      BY <1>3 DEF RejectCandidate
    <2> HIDE DEF r
    <2>7. QED
      BY <1>1, <2>2, <2>3, <2>5, <2>6, PersonBegins DEF Idle
  <1>4. QED
    BY <1>2, <1>3

LEMMA RevisionSteps ==
  ASSUME IInv, NEW p \in Callers, ApplyRevision(p) \/ DiscardRevision(p)
  PROVE  IInv' /\ UNCHANGED offer
  <1>1. offer \in Offer /\ "active" \in Statuses /\ "admin" \in People \cap Deciders
    BY DEF IInv, Documents, Statuses, Stored, Ending, Public, People, Deciders
  <1>2. \A A : {"offer", "count", "write", "revision"} \subseteq A =>
            /\ Recount \in Seq(A) /\ <<"revision">> \in Seq(A)
            /\ Recount \o <<"revision">> \in Seq(A)
            /\ OfferThen(Recount \o <<"revision">>) \in Seq(A)
            /\ <<"revision">> \o OfferThen(Recount) \in Seq(A)
    BY Lists DEF OfferThen
  <1>3. {"offer", "count", "write", "revision"} \subseteq Steps
    BY DEF Steps
  <1>4. ASSUME NEW r, r.id \in Revisions, r.to \in {"applied", "discarded"},
               r.actor = "admin"
        PROVE  {"offer", "count", "write", "revision"} \subseteq Allowed(r)
    BY <1>4 DEF Allowed, Steps, OnRevision
  <1>5. CASE ApplyRevision(p)
    <2> DEFINE new == [offer EXCEPT !.status = "active", !.absent = 0, !.ended = FALSE]
               then == Recount \o <<"revision">>
               s == Save("admin", new, then)
    <2>1. PICK id \in Pending : Begin(p, [s EXCEPT !.id = id, !.to = "applied"])
      BY <1>5 DEF ApplyRevision
    <2>2. new \in Offer /\ then \in Seq(Steps) /\ id \in Revisions
      BY <1>1, <1>2, <1>3, <2>1, SeenAgain DEF Pending
    <2>3. s \in Request /\ s.actor = "admin" /\ s.todo = OfferThen(then) /\ s.else = <<>>
      BY <1>1, <2>2, SaveType
    <2> DEFINE r == [s EXCEPT !.id = id, !.to = "applied"]
    <2> HIDE DEF new, then, s
    <2>4. r \in Request /\ r.actor = "admin" /\ r.id = id /\ r.to = "applied"
          /\ r.todo = OfferThen(then) /\ r.else = <<>>
      BY <2>2, <2>3 DEF Request
    <2>5. r.todo \in Seq(Allowed(r))
      BY <1>2, <1>4, <2>2, <2>4 DEF then
    <2>6. Begin(p, r)
      BY <2>1
    <2> HIDE DEF r
    <2>7. QED
      BY <1>1, <2>4, <2>5, <2>6, PersonBegins
  <1>6. CASE DiscardRevision(p)
    <2> DEFINE status == IF offer.status = "revision_pending" THEN "active" ELSE offer.status
               s == Save("admin", To(status), Recount)
               todo == IF offer.status = "revision_pending" THEN <<"revision">> \o s.todo
                       ELSE <<"revision">>
    <2>1. PICK id \in Pending :
            Begin(p, [s EXCEPT !.id = id, !.to = "discarded",
                               !.todo = IF offer.status = "revision_pending"
                                        THEN <<"revision">> \o @ ELSE <<"revision">>])
      BY <1>6 DEF DiscardRevision
    <2>2. status \in Statuses /\ id \in Revisions
      BY <1>1, <2>1 DEF Offer, Pending
    <2>3. To(status) \in Offer
      BY <2>2, ToType
    <2>4. s \in Request /\ s.actor = "admin" /\ s.todo = OfferThen(Recount) /\ s.else = <<>>
      BY <1>1, <1>2, <1>3, <2>3, SaveType
    <2> HIDE DEF s
    <2> DEFINE r == [s EXCEPT !.id = id, !.to = "discarded", !.todo = todo]
    <2>5. Begin(p, r)
      BY <2>1, <2>4 DEF Request
    <2>6. \A A : {"offer", "count", "write", "revision"} \subseteq A => todo \in Seq(A)
      BY <1>2, <2>4
    <2>7. todo \in Seq(Steps)
      BY <1>3, <2>6
    <2> HIDE DEF todo
    <2>8. r \in Request /\ r.actor = "admin" /\ r.id = id /\ r.to = "discarded"
          /\ r.todo = todo /\ r.else = <<>>
      BY <2>2, <2>4, <2>7 DEF Request
    <2> HIDE DEF r
    <2>9. r.todo \in Seq(Allowed(r))
      BY <1>4, <2>2, <2>6, <2>8
    <2>10. QED
      BY <1>1, <2>5, <2>8, <2>9, PersonBegins
  <1>7. QED
    BY <1>5, <1>6

LEMMA ExpireReviewedStep ==
  ASSUME IInv, NEW p \in Callers, ExpireReviewed(p)
  PROVE  IInv' /\ UNCHANGED offer
  <1>1. offer \in Offer /\ "expired" \in Statuses /\ "admin" \in People \cap Deciders
    BY DEF IInv, Documents, Statuses, Stored, Closed, People, Deciders
  <1> DEFINE s == Save("admin", To("expired"), Recount)
             todo == <<"supersede">> \o OfferThen(Recount)
             r == [s EXCEPT !.todo = <<"supersede">> \o s.todo]
  <1>2. To("expired") \in Offer
    BY <1>1, ToType
  <1>3. Recount \in Seq(Plain) /\ todo \in Seq(Plain)
    BY Lists DEF Plain, OfferThen
  <1>4. Recount \in Seq(Steps) /\ todo \in Seq(Steps)
    BY <1>3, PlainStepLists
  <1>5. s \in Request /\ s.actor = "admin" /\ s.todo = OfferThen(Recount) /\ s.else = <<>>
    BY <1>1, <1>2, <1>4, SaveType
  <1>6. Begin(p, [s EXCEPT !.todo = <<"supersede">> \o @])
    BY DEF ExpireReviewed
  <1> HIDE DEF s, todo
  <1>7. Begin(p, r)
    BY <1>5, <1>6 DEF Request
  <1>8. r \in Request /\ r.actor = "admin" /\ r.todo = todo /\ r.else = <<>>
    BY <1>4, <1>5 DEF Request, todo
  <1> HIDE DEF r
  <1>9. r.todo \in Seq(Allowed(r))
    BY <1>3, <1>8, PlainLists, PlainOfOthers
  <1>10. QED
    BY <1>1, <1>7, <1>8, <1>9, PersonBegins

LEMMA CaseSteps ==
  ASSUME IInv, NEW p \in Callers,
         Uphold(p) \/ RejectCase(p) \/ AskBusiness(p) \/ DecideAppeal(p)
  PROVE  IInv' /\ UNCHANGED offer
  <1>1. offer \in Offer /\ {"removed", "expired"} \subseteq Statuses /\ "admin" \in People \cap Deciders
        /\ offer.status \in Statuses
    BY DEF IInv, Documents, Offer, Statuses, Stored, Closed, People, Deciders
  <1>2. \A c \in Cases : case[c].before \in Statuses
    BY DEF IInv, Documents, Case
  <1>3. \A A : {"offer", "count", "write", "decide", "reports"} \subseteq A =>
            /\ Recount \o <<"decide", "reports">> \in Seq(A)
            /\ <<"decide", "reports">> \in Seq(A)
            /\ OfferThen(Recount \o <<"decide", "reports">>) \in Seq(A)
    BY Lists DEF OfferThen
  <1>4. {"offer", "count", "write", "decide", "reports"} \subseteq Steps
    BY DEF Steps
  <1>5. ASSUME NEW r, r.id \in Cases, r.to \in Deciding, r.actor = "admin"
        PROVE  {"offer", "count", "write", "decide", "reports"} \subseteq Allowed(r)
    BY <1>5 DEF Allowed, Steps, OnCase
  <1> DEFINE then == Recount \o <<"decide", "reports">>
  <1>6. ASSUME NEW new \in Offer, NEW c \in Cases, NEW to \in {"upheld", "rejected"},
               NEW before \in Statuses, NEW todo \in {OfferThen(then), <<"decide", "reports">>},
               Begin(p, [Save("admin", new, then) EXCEPT !.id = c, !.to = to,
                                                         !.before = before, !.todo = todo])
        PROVE  IInv' /\ UNCHANGED offer
    <2> DEFINE s == Save("admin", new, then)
               r == [s EXCEPT !.id = c, !.to = to, !.before = before, !.todo = todo]
    <2>1. then \in Seq(Steps) /\ todo \in Seq(Steps)
      BY <1>3, <1>4
    <2>2. s \in Request /\ s.actor = "admin" /\ s.else = <<>>
      BY <1>1, <2>1, SaveType
    <2> HIDE DEF s
    <2>3. r \in Request /\ r.actor = "admin" /\ r.id = c /\ r.to = to /\ r.todo = todo
          /\ r.else = <<>>
      BY <2>1, <2>2 DEF Request
    <2>4. Begin(p, r)
      BY <1>6 DEF s
    <2> HIDE DEF r
    <2>5. r.todo \in Seq(Allowed(r))
      BY <1>3, <1>5, <2>3 DEF Deciding
    <2>6. QED
      BY <1>1, <2>3, <2>4, <2>5, PersonBegins
  <1>7. ASSUME NEW new \in Offer
        PROVE  Save("admin", new, then).todo = OfferThen(then)
               /\ Save("admin", new, then) \in Request
    BY <1>1, <1>3, <1>4, <1>7, SaveType
  <1> HIDE DEF then
  <1>8. CASE Uphold(p)
    <2> DEFINE new == To("removed")
               s == Save("admin", new, then)
    <2>1. PICK c \in OpenCases :
            Begin(p, [s EXCEPT !.id = c, !.to = "upheld",
                         !.before = IF case[c].before = "none" THEN offer.status
                                    ELSE case[c].before,
                         !.todo = IF offer.status = "removed" THEN <<"decide", "reports">> ELSE @])
      BY <1>8 DEF Uphold, then
    <2> DEFINE before == IF case[c].before = "none" THEN offer.status ELSE case[c].before
               todo == IF offer.status = "removed" THEN <<"decide", "reports">> ELSE s.todo
    <2>2. new \in Offer /\ c \in Cases /\ before \in Statuses
      BY <1>1, <1>2, <2>1, ToType DEF OpenCases
    <2>3. todo \in {OfferThen(then), <<"decide", "reports">>} /\ s \in Request
      BY <1>7, <2>2
    <2> HIDE DEF new, s
    <2>4. Begin(p, [s EXCEPT !.id = c, !.to = "upheld", !.before = before, !.todo = todo])
      BY <2>1, <2>3 DEF Request
    <2> HIDE DEF before, todo
    <2>5. QED
      BY <1>6, <2>2, <2>3, <2>4 DEF s
  <1>9. CASE RejectCase(p)
    <2>1. PICK c \in OpenCases :
            Begin(p, [Save("admin", To(IF offer.ended THEN "expired" ELSE case[c].before), then)
                      EXCEPT !.id = c, !.to = "rejected", !.before = case[c].before,
                         !.todo = IF case[c].autoHidden /\ offer.status = "hidden_by_reports"
                                  THEN @ ELSE <<"decide", "reports">>])
      BY <1>9 DEF RejectCase, then
    <2> DEFINE new == To(IF offer.ended THEN "expired" ELSE case[c].before)
               s == Save("admin", new, then)
               before == case[c].before
               todo == IF case[c].autoHidden /\ offer.status = "hidden_by_reports"
                       THEN s.todo ELSE <<"decide", "reports">>
    <2>2. new \in Offer /\ c \in Cases /\ before \in Statuses
      BY <1>1, <1>2, <2>1, ToType DEF OpenCases
    <2>3. todo \in {OfferThen(then), <<"decide", "reports">>} /\ s \in Request
      BY <1>7, <2>2
    <2>4. Begin(p, [s EXCEPT !.id = c, !.to = "rejected", !.before = before,
                             !.todo = IF case[c].autoHidden /\ offer.status = "hidden_by_reports"
                                      THEN @ ELSE <<"decide", "reports">>])
      BY <2>1
    <2> HIDE DEF new, s, before
    <2>5. Begin(p, [s EXCEPT !.id = c, !.to = "rejected", !.before = before, !.todo = todo])
      BY <2>3, <2>4 DEF Request
    <2> HIDE DEF todo
    <2>6. QED
      BY <1>6, <2>2, <2>3, <2>5 DEF s
  <1>10. ASSUME NEW c \in Cases, NEW to \in {"info_requested", "accepted", "declined"},
                NEW before \in Statuses, NEW step,
                step = IF to = "info_requested" THEN "decide" ELSE "appeal",
                Begin(p, [Idle EXCEPT !.actor = "admin", !.id = c, !.to = to,
                                      !.before = before, !.todo = <<step>>])
         PROVE  IInv' /\ UNCHANGED offer
    <2> DEFINE r == [Idle EXCEPT !.actor = "admin", !.id = c, !.to = to,
                                 !.before = before, !.todo = <<step>>]
    <2>1. step \in Steps /\ <<step>> \in Seq(Steps)
      BY <1>10 DEF Steps
    <2>2. r \in Request /\ r.actor = "admin" /\ r.id = c /\ r.to = to /\ r.todo = <<step>>
          /\ r.else = Idle.else
      BY <1>1, <2>1, IdleSound DEF Request
    <2>3. step \in Allowed(r)
      BY <1>10, <2>1, <2>2 DEF Allowed, OnCase, Deciding
    <2>4. Begin(p, r)
      BY <1>10
    <2> HIDE DEF r
    <2>5. r.todo \in Seq(Allowed(r))
      BY <2>2, <2>3
    <2>6. QED
      BY <1>1, <2>2, <2>4, <2>5, PersonBegins DEF Idle
  <1>11. CASE AskBusiness(p)
    <2>1. PICK c \in OpenCases :
            Begin(p, [Idle EXCEPT !.actor = "admin", !.id = c, !.to = "info_requested",
                                  !.before = case[c].before, !.todo = <<"decide">>])
      BY <1>11 DEF AskBusiness
    <2>2. c \in Cases /\ case[c].before \in Statuses
      BY <1>2, <2>1 DEF OpenCases
    <2>3. QED
      BY <1>10, <2>1, <2>2
  <1>12. CASE DecideAppeal(p)
    <2>1. PICK c \in Cases, to \in {"accepted", "declined"} :
            Begin(p, [Idle EXCEPT !.actor = "admin", !.id = c, !.to = to, !.todo = <<"appeal">>])
      BY <1>12 DEF DecideAppeal
    <2>2. Idle.before \in Statuses
      BY IdleSound DEF Request
    <2>3. [Idle EXCEPT !.actor = "admin", !.id = c, !.to = to, !.todo = <<"appeal">>]
          = [Idle EXCEPT !.actor = "admin", !.id = c, !.to = to, !.before = Idle.before,
                         !.todo = <<"appeal">>]
      BY IdleSound DEF Request
    <2>4. QED
      BY <1>10, <2>1, <2>2, <2>3
  <1>13. QED
    BY <1>8, <1>9, <1>11, <1>12

-----------------------------------------------------------------------------
(* The background.                                                          *)

LEMMA IdleTerms ==
  \A actor, todo, to, before :
      /\ [Idle EXCEPT !.actor = actor, !.todo = todo]
           = [Idle EXCEPT !.actor = actor, !.todo = todo, !.to = "", !.before = "none"]
      /\ [Idle EXCEPT !.actor = actor, !.to = to, !.todo = todo]
           = [Idle EXCEPT !.actor = actor, !.todo = todo, !.to = to, !.before = "none"]
      /\ [Idle EXCEPT !.actor = actor, !.before = before, !.todo = todo]
           = [Idle EXCEPT !.actor = actor, !.todo = todo, !.to = "", !.before = before]
  <1>1. Idle.to = "" /\ Idle.before = "none"
    BY DEF Idle
  <1>2. TAKE actor, todo, to, before
  <1>3. [Idle EXCEPT !.actor = actor, !.todo = todo]
           = [Idle EXCEPT !.actor = actor, !.todo = todo, !.to = "", !.before = "none"]
    BY <1>1, IdleSound DEF Request
  <1>4. [Idle EXCEPT !.actor = actor, !.to = to, !.todo = todo]
           = [Idle EXCEPT !.actor = actor, !.todo = todo, !.to = to, !.before = "none"]
    BY <1>1, IdleSound DEF Request
  <1>5. [Idle EXCEPT !.actor = actor, !.before = before, !.todo = todo]
           = [Idle EXCEPT !.actor = actor, !.todo = todo, !.to = "", !.before = before]
    BY <1>1, IdleSound DEF Request
  <1>6. QED
    BY <1>3, <1>4, <1>5

LEMMA QuietBegins ==
  ASSUME IInv, NEW p \in Callers, NEW actor \in Automatic, NEW todo \in Seq(PlainOf(actor)),
         NEW to \in {"", "seen", "absent", "changed"}, NEW before \in Statuses, NEW r,
         r = [Idle EXCEPT !.actor = actor, !.todo = todo, !.to = to, !.before = before],
         Begin(p, r)
  PROVE  IInv' /\ UNCHANGED offer
  <1>1. todo \in Seq(Steps)
    BY PlainStepLists
  <1>2. r \in Request /\ r.actor = actor /\ r.todo = todo /\ r.else = Idle.else
        /\ r.fields = Idle.fields
    BY <1>1, IdleSound DEF Request
  <1>3. Sound(r)
    <2>1. r.todo \in Seq(Allowed(r))
      BY <1>2, PlainLists
    <2>2. QED
      BY <1>2, <2>1, QuietSound DEF Idle
  <1>4. QED
    BY <1>2, <1>3, Begun

LEMMA UpdateBegins ==
  ASSUME IInv, NEW p \in Callers, NEW actor \in Automatic, NEW new \in Offer,
         NEW status \in SUBSET Statuses, NEW manager \in SUBSET Managers,
         NEW then \in Seq(PlainOf(actor)), NEW else \in Seq(PlainOf(actor)),
         \A s \in status : \A m \in manager : Lawful(s, m, new.status),
         Begin(p, Update(actor, new, status, manager, then, else))
  PROVE  IInv' /\ UNCHANGED offer
  <1> DEFINE todo == OfferThen(then)
             u == [Idle EXCEPT !.actor = actor, !.todo = todo, !.else = else,
                               !.new = new, !.fields = {"status"},
                               !.status = status, !.manager = manager]
  <1>1. todo \in Seq(PlainOf(actor))
    BY Lists DEF PlainOf, Plain, OptOutSteps, ReaderSteps, OfferThen
  <1>2. todo \in Seq(Steps) /\ else \in Seq(Steps)
    BY <1>1, PlainStepLists
  <1>3. Begin(p, u)
    BY DEF Update, OfferThen
  <1> HIDE DEF todo
  <1>4. u \in Request
    BY <1>2, IdleSound DEF Request, Fields
  <1>5. /\ u.actor = actor /\ u.todo = todo /\ u.else = else
        /\ u.new = new /\ u.fields = {"status"} /\ u.status = status /\ u.manager = manager
    BY IdleSound DEF Request
  <1> HIDE DEF u
  <1>6. u.todo \in Seq(Allowed(u)) /\ u.actor # "reader"
    BY <1>1, <1>5, PlainLists DEF Automatic
  <1>7. Sound(u)
    BY <1>5, <1>6 DEF Sound, Bounded, Redeeming
  <1>8. QED
    BY <1>3, <1>4, <1>7, Begun

LEMMA ToStatus ==
  ASSUME IInv, NEW status \in Statuses
  PROVE  To(status) \in Offer /\ To(status).status = status
  BY OfferStatus DEF To, IInv, Documents

LEMMA JobSteps ==
  ASSUME IInv, NEW p \in Callers, PublishScheduled(p) \/ FindEnded(p) \/ RefreshCounts(p)
                                      \/ ReviewStale(p)
  PROVE  IInv' /\ UNCHANGED offer
  <1>1. {"active", "scheduled", "expired", "none"} \subseteq Statuses /\ "job" \in Automatic
        /\ offer.status \in Statuses
    BY DEF IInv, Documents, Offer, Statuses, Stored, Ending, Closed, Public, Automatic
  <1>2. /\ Recount \in Seq(PlainOf("job")) /\ <<>> \in Seq(PlainOf("job"))
        /\ <<"orphans">> \in Seq(PlainOf("job"))
        /\ Recount \o <<"orphans">> \in Seq(PlainOf("job"))
        /\ <<"expire">> \o Recount \in Seq(PlainOf("job"))
        /\ <<"expire">> \o <<>> \in Seq(PlainOf("job"))
    BY Lists DEF PlainOf, Plain
  <1>3. \A todo :
          [Idle EXCEPT !.actor = "job", !.todo = todo]
            = [Idle EXCEPT !.actor = "job", !.todo = todo, !.to = "", !.before = "none"]
    BY IdleTerms
  <1>4. CASE PublishScheduled(p)
    <2>1. Begin(p, Update("job", To("active"), {"scheduled"}, Managers, Recount, <<>>))
      BY <1>4 DEF PublishScheduled
    <2>2. \A s \in {"scheduled"} : \A m \in Managers : Lawful(s, m, To("active").status)
      BY <1>1, ToStatus DEF Lawful, Shown
    <2>3. To("active") \in Offer /\ {"scheduled"} \in SUBSET Statuses
      BY <1>1, ToStatus
    <2>4. QED
      BY <1>1, <1>2, <2>1, <2>2, <2>3, UpdateBegins
  <1>5. CASE RefreshCounts(p)
    <2>1. Begin(p, [Idle EXCEPT !.actor = "job", !.todo = Recount, !.to = "",
                                !.before = "none"])
      BY <1>3, <1>5 DEF RefreshCounts
    <2>2. QED
      BY <1>1, <1>2, <2>1, QuietBegins
  <1>6. CASE ReviewStale(p)
    <2>1. CASE Begin(p, Update("job", To("expired"), {offer.status}, Managers,
                            Recount \o <<"orphans">>, <<"orphans">>))
      <3>1. \A s \in {offer.status} : \A m \in Managers : Lawful(s, m, To("expired").status)
        BY <1>1, ToStatus DEF Lawful, Shown, Public
      <3>2. To("expired") \in Offer /\ {offer.status} \in SUBSET Statuses
        BY <1>1, ToStatus
      <3>3. QED
        BY <1>1, <1>2, <2>1, <3>1, <3>2, UpdateBegins
    <2>2. CASE Begin(p, [Idle EXCEPT !.actor = "job", !.todo = <<"orphans">>])
      <3>1. Begin(p, [Idle EXCEPT !.actor = "job", !.todo = <<"orphans">>, !.to = "",
                                  !.before = "none"])
        BY <1>3, <2>2
      <3>2. QED
        BY <1>1, <1>2, <3>1, QuietBegins
    <2>3. QED
      BY <1>6, <2>1, <2>2 DEF ReviewStale
  <1>7. CASE FindEnded(p)
    <2> DEFINE todo == <<"expire">> \o (IF EndedNow THEN Recount ELSE <<>>)
    <2>1. Begin(p, [Idle EXCEPT !.actor = "job", !.todo = todo, !.to = "", !.before = "none"])
      BY <1>3, <1>7 DEF FindEnded
    <2>2. todo \in Seq(PlainOf("job"))
      BY <1>2
    <2> HIDE DEF todo
    <2>3. QED
      BY <1>1, <2>1, <2>2, QuietBegins
  <1>8. QED
    BY <1>4, <1>5, <1>6, <1>7

LEMMA ImportSteps ==
  ASSUME IInv, NEW p \in Callers, Check(p) \/ Deduplicate(p) \/ OptOut(p) \/ Report(p)
  PROVE  IInv' /\ UNCHANGED offer
  <1>1. {"removed", "none"} \subseteq Statuses /\ {"check", "optOut", "reports"} \subseteq Automatic
        /\ offer.status \in Statuses /\ Stored \subseteq Statuses
    BY DEF IInv, Documents, Offer, Statuses, Stored, Closed, Automatic
  <1>2. /\ Recount \o <<"supersede", "done">> \in Seq(PlainOf("optOut"))
        /\ <<"supersede", "done">> \in Seq(PlainOf("optOut"))
        /\ <<"propose", "check">> \in Seq(PlainOf("check"))
        /\ <<"check">> \in Seq(PlainOf("check")) /\ <<"find">> \in Seq(PlainOf("check"))
        /\ <<"report", "case">> \in Seq(PlainOf("reports"))
    BY Lists DEF PlainOf, Plain, OptOutSteps, ReaderSteps
  <1>3. CASE Check(p)
    <2>1. PICK outcome \in Outcomes :
            Begin(p, [Idle EXCEPT !.actor = "check", !.to = outcome,
                                  !.todo = IF outcome = "changed" THEN <<"propose", "check">>
                                           ELSE <<"check">>])
      BY <1>3 DEF Check
    <2> DEFINE todo == IF outcome = "changed" THEN <<"propose", "check">> ELSE <<"check">>
    <2>2. [Idle EXCEPT !.actor = "check", !.to = outcome, !.todo = todo]
            = [Idle EXCEPT !.actor = "check", !.todo = todo, !.to = outcome, !.before = "none"]
      BY IdleTerms
    <2>3. todo \in Seq(PlainOf("check"))
      BY <1>2
    <2> HIDE DEF todo
    <2>4. Begin(p, [Idle EXCEPT !.actor = "check", !.todo = todo, !.to = outcome,
                                !.before = "none"])
      BY <2>1, <2>2 DEF todo
    <2>5. QED
      BY <1>1, <2>3, <2>4, QuietBegins DEF Outcomes
  <1>4. CASE OptOut(p)
    <2> DEFINE then == Recount \o <<"supersede", "done">>
               last == <<"supersede", "done">>
    <2>1. CASE Begin(p, Update("optOut", To("removed"), Stored, {"scraper"}, then, then))
      <3>1. \A s \in Stored : \A m \in {"scraper"} : Lawful(s, m, To("removed").status)
        BY <1>1, ToStatus DEF Lawful, Shown, Public, Stored, Ending
      <3>2. To("removed") \in Offer /\ {"scraper"} \in SUBSET Managers
        BY <1>1, ToStatus DEF Managers
      <3>3. then \in Seq(PlainOf("optOut"))
        BY <1>2
      <3> HIDE DEF then
      <3>4. QED
        BY <1>1, <2>1, <3>1, <3>2, <3>3, UpdateBegins
    <2>2. CASE Begin(p, [Idle EXCEPT !.actor = "optOut", !.todo = last])
      <3>1. [Idle EXCEPT !.actor = "optOut", !.todo = last]
              = [Idle EXCEPT !.actor = "optOut", !.todo = last, !.to = "", !.before = "none"]
        BY IdleTerms
      <3>2. last \in Seq(PlainOf("optOut"))
        BY <1>2
      <3> HIDE DEF last
      <3>3. QED
        BY <1>1, <2>2, <3>1, <3>2, QuietBegins
    <2>3. QED
      BY <1>4, <2>1, <2>2 DEF OptOut
  <1>5. CASE Report(p)
    <2> DEFINE before == offer.status
               todo == <<"report", "case">>
    <2>1. Begin(p, [Idle EXCEPT !.actor = "reports", !.before = before, !.todo = todo])
      BY <1>5 DEF Report
    <2>2. [Idle EXCEPT !.actor = "reports", !.before = before, !.todo = todo]
            = [Idle EXCEPT !.actor = "reports", !.todo = todo, !.to = "", !.before = before]
      BY IdleTerms
    <2>3. todo \in Seq(PlainOf("reports")) /\ before \in Statuses
      BY <1>1, <1>2
    <2> HIDE DEF todo, before
    <2>4. QED
      BY <1>1, <2>1, <2>2, <2>3, QuietBegins
  <1>6. CASE Deduplicate(p)
    <2>1. Begin(p, [Idle EXCEPT !.actor = "check", !.todo = <<"find">>])
      BY <1>6 DEF Deduplicate
    <2>2. Begin(p, [Idle EXCEPT !.actor = "check", !.todo = <<"find">>, !.to = "",
                                !.before = "none"])
      BY <2>1, IdleTerms
    <2>3. QED
      BY <1>1, <1>2, <2>2, QuietBegins
  <1>7. QED
    BY <1>3, <1>4, <1>5, <1>6

-----------------------------------------------------------------------------
(* The steps of a request.                                                  *)

\* What a request that is at a step knows.
LEMMA AtStep ==
  ASSUME IInv, NEW p \in Callers, NEW step, At(p, step)
  PROVE  /\ Busy(p) /\ request[p] \in Request /\ Sound(request[p])
         /\ step \in Allowed(request[p])
         /\ After(p) \in Request /\ Sound(After(p))
  <1>1. Requests /\ Busy(p) /\ step = Head(request[p].todo)
    BY DEF IInv, At
  <1>2. QED
    BY <1>1, AfterSound DEF Requests

\* A request with other steps to do.
LEMMA Redirected ==
  ASSUME NEW r \in Request, Sound(r), NEW todo \in Seq(Steps), todo \in Seq(Allowed(r))
  PROVE  [r EXCEPT !.todo = todo] \in Request /\ Sound([r EXCEPT !.todo = todo])
  <1> DEFINE s == [r EXCEPT !.todo = todo]
  <1>1. s \in Request /\ s.todo = todo /\ s.else = r.else /\ s.actor = r.actor
        /\ s.to = r.to /\ s.id = r.id /\ s.fields = r.fields /\ s.status = r.status
        /\ s.manager = r.manager /\ s.new = r.new
    BY DEF Request
  <1> HIDE DEF s
  <1>2. Allowed(s) = Allowed(r)
    BY <1>1 DEF Allowed, OnRevision, OnCase
  <1>3. QED
    BY <1>1, <1>2 DEF Sound, Bounded, Redeeming, s

LEMMA CountSteps ==
  ASSUME IInv, NEW p \in Callers, CountActive(p) \/ WriteCount(p)
  PROVE  IInv' /\ UNCHANGED offer
  <1>1. CASE CountActive(p)
    <2> DEFINE a == After(p)
               r == [a EXCEPT !.counted = One(offer.status)]
    <2>1. a \in Request /\ Sound(a)
      BY <1>1, AtStep DEF CountActive
    <2>2. One(offer.status) \in 0 .. 1
      BY DEF One
    <2>3. Turn(p, r)
      BY <1>1 DEF CountActive
    <2> HIDE DEF a
    <2>4. r \in Request /\ r.todo = a.todo /\ r.else = a.else /\ r.actor = a.actor
          /\ r.to = a.to /\ r.id = a.id /\ r.fields = a.fields /\ r.status = a.status
          /\ r.manager = a.manager /\ r.new = a.new
      BY <2>1, <2>2 DEF Request
    <2> HIDE DEF r
    <2>5. Allowed(r) = Allowed(a)
      BY <2>4 DEF Allowed, OnRevision, OnCase
    <2>6. Sound(r)
      BY <2>1, <2>4, <2>5 DEF Sound, Bounded, Redeeming
    <2>7. Requests'
      BY <2>3, <2>4, <2>6, Turned DEF IInv
    <2>8. QED
      BY <1>1, <2>7 DEF CountActive, docs, bounds, history, IInv, Documents, Others
  <1>2. CASE WriteCount(p)
    <2>1. request[p] \in Request /\ Requests'
      BY <1>2, AtStep, Advanced DEF WriteCount, IInv
    <2>2. count' \in 0 .. 1
      BY <1>2, <2>1 DEF WriteCount, Request
    <2>3. QED
      BY <1>2, <2>1, <2>2 DEF WriteCount, bounds, history, IInv, Documents, Others
  <1>3. QED
    BY <1>1, <1>2

\* What expireEnded makes of an offer is lawful.
LEMMA ExpireEndedStep ==
  ASSUME IInv, NEW p \in Callers, ExpireEnded(p)
  PROVE  IInv' /\ Lawful(offer.status, offer.managedBy, offer'.status)
  <1>1. At(p, "expire") /\ offer \in Offer
    BY DEF ExpireEnded, IInv, Documents
  <1>2. Requests'
    <2>1. CASE Advance(p)
      BY <1>1, <2>1, AtStep, Advanced DEF IInv
    <2>2. CASE ~Advance(p)
      <3>1. PICK r \in {After(p), Idle} : Turn(p, r)
        BY <2>2 DEF ExpireEnded
      <3>2. r \in Request /\ Sound(r)
        BY <1>1, <3>1, AtStep, IdleSound
      <3>3. QED
        BY <3>1, <3>2, Turned DEF IInv
    <2>3. QED
      BY <2>1, <2>2
  <1>3. /\ offer' \in Offer /\ raced' \in BOOLEAN /\ unfound' \in BOOLEAN
        /\ Lawful(offer.status, offer.managedBy, offer'.status)
    <2>1. CASE EndedNow
      <3>1. offer' = To("expired")
        BY <2>1 DEF ExpireEnded
      <3>2. offer' \in Offer /\ offer'.status = "expired"
        BY <3>1, ToStatus DEF Statuses, Stored, Closed
      <3>3. Lawful(offer.status, offer.managedBy, offer'.status)
        BY <3>2 DEF Lawful, Shown, Public
      <3>4. raced' \in BOOLEAN /\ unfound' \in BOOLEAN
        BY <2>1 DEF ExpireEnded, NoteRace, IInv, Others
      <3>5. QED
        BY <3>2, <3>3, <3>4
    <2>2. CASE ~EndedNow
      BY <1>1, <2>2 DEF ExpireEnded, Lawful, IInv, Others
    <2>3. QED
      BY <2>1, <2>2
  <1>4. Documents' /\ Others'
    BY <1>3 DEF ExpireEnded, bounds, IInv, Documents, Others
  <1>5. QED
    BY <1>2, <1>3, <1>4 DEF IInv

\* Only a person's request creates an offer.
LEMMA CreateStep ==
  ASSUME IInv, NEW p \in Callers, CreateOffer(p)
  PROVE  IInv' /\ request[p].actor \notin Automatic /\ Busy(p)
  <1> DEFINE r == request[p]
  <1>1. Busy(p) /\ r \in Request /\ Sound(r) /\ "create" \in Allowed(r)
    BY AtStep DEF CreateOffer
  <1>2. r.actor \notin Automatic
    BY <1>1 DEF Allowed, Deciders, Automatic
  <1>3. Tail(r.todo) \in Seq(Allowed(r))
    BY <1>1, HeadTailProperties DEF Sound, Busy
  <1>4. Requests'
    <2>1. CASE offer.status = "none"
      BY <1>3, <2>1, WrittenSound, Turned DEF CreateOffer, IInv
    <2>2. CASE offer.status # "none"
      BY <2>2, IdleSound, Turned DEF CreateOffer, IInv
    <2>3. QED
      BY <2>1, <2>2
  <1>5. offer' \in Offer /\ raced' \in BOOLEAN
    <2>1. CASE offer.status = "none"
      BY <1>1, <2>1 DEF CreateOffer, NoteRace, Request, IInv, Others
    <2>2. CASE offer.status # "none"
      BY <2>2 DEF CreateOffer, IInv, Documents, Others
    <2>3. QED
      BY <2>1, <2>2
  <1>6. QED
    BY <1>1, <1>2, <1>4, <1>5 DEF CreateOffer, bounds, IInv, Documents, Others

LEMMA ReviewSteps ==
  ASSUME IInv, NEW p \in Callers,
         SaveCandidate(p) \/ StoreCandidate(p) \/ SaveRevision(p) \/ Supersede(p)
         \/ ProposeRevision(p) \/ FinishOptOut(p)
  PROVE  IInv' /\ UNCHANGED offer
  <1>1. ASSUME NEW step, At(p, step), Advance(p)
        PROVE  Requests'
    BY <1>1, AtStep, Advanced DEF IInv
  <1> DEFINE Progress == {"none", "pending", "applied", "discarded", "superseded"}
  <1>2. revision \in [Revisions -> Progress]
    BY DEF IInv, Documents
  <1>3. CASE SaveCandidate(p)
    <2>1. candidate' \in Candidates
      BY <1>3, AtStep DEF SaveCandidate, Allowed
    <2>2. QED
      BY <1>1, <1>3, <2>1 DEF SaveCandidate, bounds, history, IInv, Documents, Others
  <1>4. CASE SaveRevision(p)
    <2>1. request[p].id \in Revisions /\ request[p].to \in Progress
      BY <1>4, AtStep DEF SaveRevision, Allowed, OnRevision
    <2>2. revision' \in [Revisions -> Progress]
      BY <1>2, <1>4, <2>1 DEF SaveRevision
    <2>3. QED
      BY <1>1, <1>4, <2>2 DEF SaveRevision, bounds, history, IInv, Documents, Others
  <1>5. CASE Supersede(p)
    <2>1. revision' \in [Revisions -> Progress]
      BY <1>2, <1>5 DEF Supersede
    <2>2. QED
      BY <1>1, <1>5, <2>1 DEF Supersede, bounds, history, IInv, Documents, Others
  <1>6. CASE ProposeRevision(p)
    <2>1. revision' \in [Revisions -> Progress]
      BY <1>2, <1>6 DEF ProposeRevision
    <2>2. QED
      BY <1>1, <1>6, <2>1 DEF ProposeRevision, bounds, history, IInv, Documents, Others
  <1>7. CASE FinishOptOut(p)
    <2>1. candidate' \in Candidates
          /\ optOut' \in {"no", "done", "raced", "overruled"}
      BY <1>7 DEF FinishOptOut, Candidates, IInv, Documents, Others
    <2>2. QED
      BY <1>1, <1>7, <2>1 DEF FinishOptOut, bounds, history, IInv, Documents, Others
  <1>8. CASE StoreCandidate(p)
    <2>1. candidate' \in Candidates
      BY <1>8, AtStep DEF StoreCandidate, Allowed, IInv, Documents
    <2>2. QED
      BY <1>1, <1>8, <2>1 DEF StoreCandidate, bounds, history, IInv, Documents, Others
  <1>9. QED
    BY <1>3, <1>4, <1>5, <1>6, <1>7, <1>8

\* The duplicate check ends, or goes on to what it makes of the candidate.
LEMMA FindCandidateStep ==
  ASSUME IInv, NEW p \in Callers, FindCandidate(p)
  PROVE  /\ IInv' /\ UNCHANGED offer
         /\ Turn(p, Idle) \/ \E r : Turn(p, r) /\ r.actor = request[p].actor
  <1> DEFINE r(to) ==
        [request[p] EXCEPT !.to = to,
           !.todo = IF candidate \in {"open", "failed"} THEN <<"candidate">> ELSE <<"store">>]
  <1>1. At(p, "find") /\ request[p] \in Request /\ Sound(request[p])
        /\ "find" \in Allowed(request[p])
    BY AtStep DEF FindCandidate
  <1>2. PICK to \in {"open", "failed"} : Turn(p, Idle) \/ Turn(p, r(to))
    BY DEF FindCandidate
  <1>3. request[p].actor \notin {"optOut", "reader"}
    BY <1>1 DEF Allowed, OptOutSteps, ReaderSteps
  <1>4. PICK step \in {"candidate", "store"} : r(to).todo = <<step>>
    BY <1>1 DEF Request
  <1>5. /\ r(to).actor = request[p].actor /\ r(to).to = to /\ r(to).else = request[p].else
        /\ r(to).fields = request[p].fields /\ r(to).status = request[p].status
        /\ r(to).manager = request[p].manager /\ r(to).new = request[p].new
        /\ r(to) \in Request
    <2>1. <<"candidate">> \in Seq(Steps) /\ <<"store">> \in Seq(Steps)
      BY DEF Steps
    <2>2. QED
      BY <1>1, <2>1 DEF Request
  <1> HIDE DEF r
  <1>6. step \in Allowed(r(to))
    BY <1>3, <1>5 DEF Allowed, Steps, Candidates
  <1>7. r(to).todo \in Seq(Allowed(r(to)))
    BY <1>4, <1>6
  <1>8. Sound(r(to))
    BY <1>1, <1>5, <1>7 DEF Sound, Bounded, Redeeming
  <1>9. Requests'
    BY <1>2, <1>5, <1>8, Turned, IdleSound DEF IInv
  <1>10. QED
    BY <1>2, <1>5, <1>9 DEF FindCandidate, docs, bounds, history, IInv, Documents, Others

\* What recheckTransition makes of an offer the scraper manages: one it keeps on
\* the site was on it, or was missed once.
LEMMA RecheckLawful ==
  ASSUME NEW o \in Offer, o.status \in Rechecked,
         NEW outcome, NEW open \in BOOLEAN
  PROVE  /\ Recheck(o, outcome, open) \in Offer
         /\ Lawful(o.status, "scraper", Recheck(o, outcome, open).status)
  <1>1. o.status \in Statuses /\ o.absent \in 0 .. AbsentForReview
    BY DEF Offer
  <1>2. {"possibly_removed", "expiry_review", "active", "revision_pending"} \subseteq Statuses
    BY DEF Statuses, Stored, Ending, Public
  <1>3. CASE outcome = "absent"
    <2> DEFINE absent == IF o.absent < AbsentForReview THEN o.absent + 1 ELSE o.absent
               status == CASE o.status \in Public -> "possibly_removed"
                           [] o.status = "possibly_removed" /\ o.absent + 1 >= AbsentForReview ->
                                  "expiry_review"
                           [] OTHER -> o.status
    <2>1. absent \in 0 .. AbsentForReview
      BY <1>1 DEF AbsentForReview
    <2>2. status \in Statuses /\ Lawful(o.status, "scraper", status)
      BY <1>1, <1>2 DEF Lawful, Shown, Public
    <2>3. Recheck(o, outcome, open) = [o EXCEPT !.absent = absent, !.status = status]
      BY <1>3 DEF Recheck, Offer
    <2> HIDE DEF absent, status
    <2>4. [o EXCEPT !.absent = absent, !.status = status] \in Offer
          /\ [o EXCEPT !.absent = absent, !.status = status].status = status
      BY <2>1, <2>2 DEF Offer
    <2>5. QED
      BY <2>2, <2>3, <2>4
  <1>4. CASE outcome # "absent"
    <2> DEFINE status == IF o.status = "expiry_review" THEN o.status
                         ELSE IF open THEN "revision_pending" ELSE "active"
    <2>1. status \in Statuses /\ Lawful(o.status, "scraper", status)
      BY <1>1, <1>2 DEF Lawful, Shown, Public, Rechecked
    <2>2. 0 \in 0 .. AbsentForReview
      BY DEF AbsentForReview
    <2>3. Recheck(o, outcome, open) = [o EXCEPT !.absent = 0, !.status = status]
      BY <1>4 DEF Recheck, Offer
    <2> HIDE DEF status
    <2>4. [o EXCEPT !.absent = 0, !.status = status] \in Offer
          /\ [o EXCEPT !.absent = 0, !.status = status].status = status
      BY <2>1, <2>2 DEF Offer
    <2>5. QED
      BY <2>1, <2>3, <2>4
  <1>5. QED
    BY <1>3, <1>4

LEMMA CheckSteps ==
  ASSUME IInv, NEW p \in Callers, ApplyCheck(p) \/ CloseOrphans(p)
  PROVE  IInv' /\ UNCHANGED offer
  <1>1. offer \in Offer /\ offer.status \in Statuses
    BY DEF IInv, Documents, Offer
  <1>2. Requests' => IInv' /\ UNCHANGED offer
    BY DEF ApplyCheck, CloseOrphans, docs, bounds, history, IInv, Documents, Others
  <1>3. CASE ApplyCheck(p)
    <2> DEFINE r == request[p]
               moot == r.to = "seen" /\ Pending # {}
               new == Recheck(offer, r.to, Pending # {} /\ ~moot)
               todo == (IF moot THEN <<"supersede">> ELSE <<>>) \o <<"offer">>
                       \o (IF new.status # offer.status THEN Recount ELSE <<>>)
               fields == {"absent"} \cup (IF new.status # offer.status THEN {"status"} ELSE {})
               s == [r EXCEPT !.todo = todo, !.new = new, !.fields = fields,
                              !.status = {offer.status}, !.manager = {"scraper"}]
    <2>1. r \in Request /\ Sound(r) /\ "check" \in Allowed(r)
      BY <1>3, AtStep DEF ApplyCheck
    <2>2. Turn(p, Idle) \/ (offer.status \in Rechecked /\ Turn(p, s))
      BY <1>3 DEF ApplyCheck
    <2>3. CASE Turn(p, Idle)
      BY <1>2, <2>3, IdleSound, Turned DEF IInv
    <2>4. CASE offer.status \in Rechecked /\ Turn(p, s)
      <3>1. (Pending # {} /\ ~moot) \in BOOLEAN
        OBVIOUS
      <3>2. new \in Offer /\ Lawful(offer.status, "scraper", new.status)
        BY <1>1, <2>4, <3>1, RecheckLawful
      <3>3. todo \in Seq(Plain)
        BY Lists DEF Plain
      <3>4. todo \in Seq(Steps)
        BY <3>3, PlainStepLists
      <3>5. fields \in SUBSET Fields /\ {offer.status} \in SUBSET Statuses
            /\ {"scraper"} \in SUBSET Managers
        BY <1>1 DEF Fields, Managers
      <3>6. Turn(p, s)
        BY <2>4
      <3> HIDE DEF todo, new, fields
      <3>7. s \in Request
        BY <2>1, <3>2, <3>4, <3>5 DEF Request
      <3>8. /\ s.todo = todo /\ s.else = r.else /\ s.actor = r.actor /\ s.new = new
            /\ s.status = {offer.status} /\ s.manager = {"scraper"} /\ s.fields = fields
        BY <2>1 DEF Request
      <3> HIDE DEF s
      <3>9. s.todo \in Seq(Allowed(s))
        BY <2>1, <3>3, <3>8, PlainLists, PlainOfOthers DEF Allowed, OptOutSteps, ReaderSteps
      <3>10. Sound(s)
        BY <2>1, <3>2, <3>5, <3>8, <3>9
           DEF Sound, Bounded, Redeeming, fields, Allowed, ReaderSteps
      <3>11. QED
        BY <1>2, <3>6, <3>7, <3>10, Turned DEF IInv
    <2>5. QED
      BY <2>2, <2>3, <2>4
  <1>4. CASE CloseOrphans(p)
    <2> DEFINE a == After(p)
               todo == IF offer.status \in Closed THEN <<"supersede">> ELSE <<>>
    <2>1. a \in Request /\ Sound(a) /\ a.actor \notin {"optOut", "reader"}
      <3>1. a \in Request /\ Sound(a) /\ request[p] \in Request
            /\ "orphans" \in Allowed(request[p])
        BY <1>4, AtStep DEF CloseOrphans
      <3>2. a.actor = request[p].actor
        BY <3>1 DEF After, Request
      <3>3. QED
        BY <3>1, <3>2 DEF Allowed, OptOutSteps, ReaderSteps
    <2>2. todo \in Seq(Plain)
      BY Lists DEF Plain
    <2>3. todo \in Seq(Steps) /\ todo \in Seq(Allowed(a))
      BY <2>1, <2>2, PlainStepLists, PlainLists, PlainOfOthers
    <2>4. Turn(p, [a EXCEPT !.todo = todo])
      BY <1>4 DEF CloseOrphans
    <2> HIDE DEF a, todo
    <2>5. QED
      BY <1>2, <2>1, <2>3, <2>4, Redirected, Turned DEF IInv
  <1>5. QED
    BY <1>3, <1>4

LEMMA ReportSteps ==
  ASSUME IInv, NEW p \in Callers,
         FileReport(p) \/ UpsertCase(p) \/ SaveHidden(p) \/ SaveDecision(p) \/ CloseReports(p)
  PROVE  IInv' /\ UNCHANGED offer
  <1>1. ASSUME NEW step, At(p, step), Advance(p)
        PROVE  Requests'
    BY <1>1, AtStep, Advanced DEF IInv
  <1>2. case \in [Cases -> Case] /\ reports \in 0 .. Threshold
    BY DEF IInv, Documents
  <1> DEFINE r == request[p]
  <1>3. CASE FileReport(p)
    <2>1. reports' \in 0 .. Threshold
      BY <1>2, <1>3, OfferConstants DEF FileReport
    <2>2. QED
      BY <1>1, <1>3, <2>1 DEF FileReport, bounds, history, IInv, Documents, Others
  <1>4. CASE UpsertCase(p)
    <2>1. r \in Request /\ Sound(r) /\ r.actor \notin {"optOut", "reader"}
      <3>1. r \in Request /\ Sound(r) /\ "case" \in Allowed(r)
        BY <1>4, AtStep DEF UpsertCase
      <3>2. QED
        BY <3>1 DEF Allowed, OptOutSteps, ReaderSteps
    <2>2. PICK c \in Cases :
            /\ case' = IF OpenCases # {} THEN case ELSE [case EXCEPT ![c].status = "open"]
            /\ Turn(p, IF case[c].autoHidden \/ r.before \notin Public THEN Idle
                       ELSE [r EXCEPT !.id = c, !.todo = <<"distinct">>])
      BY <1>4 DEF UpsertCase
    <2>3. case' \in [Cases -> Case]
      BY <1>2, <2>2 DEF Case, OpenCase
    <2>4. Requests'
      <3> DEFINE s == [r EXCEPT !.id = c, !.todo = <<"distinct">>]
      <3>1. CASE Turn(p, Idle)
        BY <3>1, IdleSound, Turned DEF IInv
      <3>2. CASE Turn(p, s)
        <4>1. "distinct" \in Steps /\ <<"distinct">> \in Seq(Steps)
          BY DEF Steps
        <4>2. s \in Request
          BY <2>1, <4>1 DEF Request
        <4>3. s.todo = <<"distinct">> /\ s.id = c /\ s.else = r.else /\ s.actor = r.actor
              /\ s.fields = r.fields /\ s.status = r.status /\ s.manager = r.manager
              /\ s.new = r.new
          BY <2>1 DEF Request
        <4> HIDE DEF s
        <4>4. "distinct" \in Allowed(s)
          BY <2>1, <4>1, <4>3 DEF Allowed, OnCase
        <4>5. s.todo \in Seq(Allowed(s))
          BY <4>3, <4>4
        <4>6. Sound(s)
          BY <2>1, <4>3, <4>5 DEF Sound, Bounded, Redeeming
        <4>7. QED
          BY <3>2, <4>2, <4>6, Turned DEF IInv
      <3>3. QED
        BY <2>2, <3>1, <3>2
    <2>5. QED
      BY <1>4, <2>3, <2>4 DEF UpsertCase, bounds, history, IInv, Documents, Others
  <1>5. CASE SaveHidden(p)
    <2>1. r \in Request /\ r.id \in Cases
      BY <1>5, AtStep DEF SaveHidden, Allowed, OnCase
    <2>2. r.before \in Statuses
      BY <2>1 DEF Request
    <2>3. case' = [case EXCEPT ![r.id].autoHidden = TRUE, ![r.id].before = r.before]
      BY <1>5 DEF SaveHidden
    <2>4. case' \in [Cases -> Case]
      BY <1>2, <2>1, <2>2, <2>3 DEF Case
    <2>5. crossed' \in BOOLEAN
      BY <1>5 DEF SaveHidden, IInv, Others
    <2>6. QED
      BY <1>1, <1>5, <2>4, <2>5 DEF SaveHidden, bounds, IInv, Documents, Others
  <1>6. CASE SaveDecision(p)
    <2>1. r \in Request /\ r.id \in Cases /\ r.to \in Deciding
      BY <1>6, AtStep DEF SaveDecision, Allowed, OnCase
    <2>2. r.before \in Statuses
      BY <2>1 DEF Request
    <2>3. case' = [case EXCEPT ![r.id].status = r.to,
                               ![r.id].before = IF r.to = "upheld" THEN r.before ELSE @]
      BY <1>6 DEF SaveDecision
    <2>4. case' \in [Cases -> Case]
      BY <1>2, <2>1, <2>2, <2>3 DEF Case, Deciding, OpenCase
    <2>5. crossed' \in BOOLEAN
      BY <1>6 DEF SaveDecision, IInv, Others
    <2>6. QED
      BY <1>1, <1>6, <2>4, <2>5 DEF SaveDecision, bounds, IInv, Documents, Others
  <1>7. CASE CloseReports(p)
    <2>1. reports' \in 0 .. Threshold
      BY <1>7, OfferConstants DEF CloseReports
    <2>2. QED
      BY <1>1, <1>7, <2>1 DEF CloseReports, bounds, history, IInv, Documents, Others
  <1>8. QED
    BY <1>3, <1>4, <1>5, <1>6, <1>7

\* The reports hide an offer that is public, and take nothing else.
LEMMA CountReportersStep ==
  ASSUME IInv, NEW p \in Callers, CountReporters(p)
  PROVE  IInv' /\ UNCHANGED offer
  <1> DEFINE r == request[p]
             todo == OfferThen(<<"hidden">> \o Recount)
             new == To("hidden_by_reports")
             s == [Idle EXCEPT !.actor = "reports", !.todo = todo, !.else = <<>>,
                               !.new = new, !.fields = {"status"}, !.status = Public,
                               !.manager = Managers, !.before = r.before, !.id = r.id]
  <1>1. r \in Request /\ r.id \in Cases /\ r.before \in Statuses
    <2>1. r \in Request /\ "distinct" \in Allowed(r)
      BY AtStep DEF CountReporters
    <2>2. QED
      BY <2>1 DEF Allowed, OnCase, Request
  <1>2. new \in Offer /\ new.status = "hidden_by_reports" /\ Public \in SUBSET Statuses
    BY ToStatus DEF Statuses, Stored, Ending
  <1>3. Turn(p, Idle) \/ Turn(p, s)
    BY DEF CountReporters, Update, OfferThen
  <1>4. \A A : {"offer", "count", "write", "hidden"} \subseteq A =>
            todo \in Seq(A) /\ <<>> \in Seq(A)
    BY Lists DEF OfferThen
  <1>5. todo \in Seq(Steps) /\ <<>> \in Seq(Steps) /\ <<>> \in Seq(Plain)
    <2>1. {"offer", "count", "write", "hidden"} \subseteq Steps
      BY DEF Steps
    <2>2. QED
      BY <1>4, <2>1
  <1> HIDE DEF todo, new
  <1>6. s \in Request
    BY <1>1, <1>2, <1>5, IdleSound DEF Request, Fields, Automatic
  <1>7. /\ s.actor = "reports" /\ s.todo = todo /\ s.else = <<>> /\ s.id = r.id
        /\ s.new = new /\ s.fields = {"status"} /\ s.status = Public
        /\ s.manager = Managers
    BY IdleSound DEF Request
  <1> HIDE DEF s
  <1>8. s.todo \in Seq(Allowed(s))
    <2>1. {"offer", "count", "write", "hidden"} \subseteq Allowed(s)
      BY <1>1, <1>7 DEF Allowed, Steps, OnCase
    <2>2. QED
      BY <1>4, <1>7, <2>1
  <1>9. Sound(s)
    <2>1. Bounded(s) /\ Redeeming(s)
      BY <1>2, <1>7 DEF Bounded, Redeeming, Lawful, Shown, Public
    <2>2. s.else \in Seq(PlainOf(s.actor))
      BY <1>5, <1>7, PlainOfOthers
    <2>3. QED
      BY <1>8, <2>1, <2>2 DEF Sound
  <1>10. Requests'
    BY <1>3, <1>6, <1>9, IdleSound, Turned DEF IInv
  <1>11. QED
    BY <1>10 DEF CountReporters, docs, bounds, history, IInv, Documents, Others

LEMMA AppealSteps ==
  ASSUME IInv, NEW p \in Callers, SaveAppeal(p) \/ RestoreAppealed(p)
  PROVE  IInv' /\ UNCHANGED offer
  <1> DEFINE r == request[p]
  <1>1. case \in [Cases -> Case] /\ offer \in Offer
    BY DEF IInv, Documents
  <1>2. CASE SaveAppeal(p)
    <2>1. /\ r \in Request /\ Sound(r) /\ r.id \in Cases /\ r.to \in {"accepted", "declined"}
          /\ r.actor = "admin"
      BY <1>2, AtStep DEF SaveAppeal, Allowed, OnCase
    <2>2. case' \in [Cases -> Case]
      BY <1>1, <1>2, <2>1 DEF SaveAppeal, Case
    <2>3. "restore" \in Allowed(r) /\ "restore" \in Steps
      BY <2>1 DEF Allowed, OnCase, Steps
    <2>4. <<"restore">> \in Seq(Allowed(r)) /\ <<"restore">> \in Seq(Steps)
      BY <2>3
    <2>5. Turn(p, Idle) \/ Turn(p, [r EXCEPT !.todo = <<"restore">>])
      BY <1>2 DEF SaveAppeal
    <2>6. Requests'
      BY <2>1, <2>4, <2>5, IdleSound, Redirected, Turned DEF IInv
    <2>7. QED
      BY <1>2, <2>2, <2>6 DEF SaveAppeal, bounds, history, IInv, Documents, Others
  <1>3. CASE RestoreAppealed(p)
    <2> DEFINE before == case[r.id].before
               status == IF offer.ended THEN "expired"
                         ELSE IF before = "hidden_by_reports" THEN "active" ELSE before
    <2>1. r.id \in Cases
      BY <1>3, AtStep DEF RestoreAppealed, Allowed, OnCase
    <2>2. status \in Statuses /\ "admin" \in People \cap Deciders
      BY <1>1, <2>1 DEF Case, Statuses, Stored, Closed, Ending, Public, People, Deciders
    <2>3. Turn(p, Idle) \/ Turn(p, Save("admin", To(status), Recount))
      BY <1>3 DEF RestoreAppealed
    <2> HIDE DEF status
    <2>4. To(status) \in Offer /\ Recount \in Seq(Plain)
      BY <2>2, ToStatus, Lists DEF Plain
    <2>5. Save("admin", To(status), Recount) \in Request
          /\ Sound(Save("admin", To(status), Recount))
      BY <1>1, <2>2, <2>4, SaveSound
    <2>6. Requests'
      BY <2>3, <2>5, IdleSound, Turned DEF IInv
    <2>7. QED
      BY <1>3, <2>6 DEF RestoreAppealed, docs, bounds, history, IInv, Documents, Others
  <1>4. QED
    BY <1>2, <1>3

-----------------------------------------------------------------------------
(* Every step.                                                              *)

\* One step of AutomationStaysInBounds.
StaysInBounds ==
    \A p \in Callers :
        /\ request'[p] # request[p]
        /\ ActsNow(p) \in Automatic
        /\ offer'.status # offer.status
        => Lawful(offer.status, offer.managedBy, offer'.status)

LEMMA OneActs ==
  ASSUME NEW p \in Callers, NEW r, request \in [Callers -> Request],
         request' = [request EXCEPT ![p] = r],
         ActsNow(p) \in Automatic => Lawful(offer.status, offer.managedBy, offer'.status)
  PROVE  StaysInBounds
  BY DEF StaysInBounds

LEMMA AskStep ==
  ASSUME IInv, NEW p \in Callers, Ask(p)
  PROVE  IInv' /\ StaysInBounds
  <1>1. IInv' /\ UNCHANGED offer
    BY OwnerSteps, OwnerUpdateStep, RedeemStep, AdminSteps, CandidateSteps, RevisionSteps,
       ExpireReviewedStep, CaseSteps, JobSteps, ImportSteps DEF Ask
  <1>2. QED
    BY <1>1 DEF StaysInBounds

LEMMA ProceedStep ==
  ASSUME IInv, NEW p \in Callers, Proceed(p)
  PROVE  IInv' /\ StaysInBounds
  <1>1. CASE WriteOffer(p)
    <2>1. IInv' /\ (request[p].actor \in Automatic =>
                        Lawful(offer.status, offer.managedBy, offer'.status))
      BY <1>1, WriteOfferStep
    <2>2. ActsNow(p) = request[p].actor
      BY <1>1 DEF WriteOffer, At, ActsNow
    <2>3. PICK r : request' = [request EXCEPT ![p] = r]
      BY <1>1 DEF WriteOffer, Turn
    <2>4. QED
      BY <2>1, <2>2, <2>3, OneActs DEF IInv, Requests
  <1>2. CASE CreateOffer(p)
    <2>1. IInv' /\ ActsNow(p) \notin Automatic
      BY <1>2, CreateStep DEF ActsNow
    <2>2. PICK r : request' = [request EXCEPT ![p] = r]
      BY <1>2 DEF CreateOffer, Turn
    <2>3. QED
      BY <2>1, <2>2, OneActs DEF IInv, Requests
  <1>3. CASE ExpireEnded(p)
    <2>1. PICK r : request' = [request EXCEPT ![p] = r]
      BY <1>3 DEF ExpireEnded, Advance, Turn
    <2>2. QED
      BY <1>3, <2>1, ExpireEndedStep, OneActs DEF IInv, Requests
  <1>4. CASE ~WriteOffer(p) /\ ~CreateOffer(p) /\ ~ExpireEnded(p)
    <2>1. IInv' /\ UNCHANGED offer
      BY <1>4, CountSteps, ReviewSteps, FindCandidateStep, CheckSteps, ReportSteps, CountReportersStep,
         AppealSteps DEF Proceed
    <2>2. QED
      BY <2>1 DEF StaysInBounds
  <1>5. QED
    BY <1>1, <1>2, <1>3, <1>4

LEMMA CrashStep ==
  ASSUME IInv, NEW p \in Callers, Crash(p)
  PROVE  IInv' /\ StaysInBounds
  <1>1. Requests'
    BY IdleSound, Took DEF Crash, IInv
  <1>2. crashes' \in 0 .. MaxCrashes
    BY OfferConstants DEF Crash, IInv, Others
  <1>3. QED
    BY <1>1, <1>2 DEF Crash, docs, history, IInv, Documents, Others, StaysInBounds

LEMMA AppealStep ==
  ASSUME IInv, NEW c \in Cases, Appeal(c)
  PROVE  IInv' /\ StaysInBounds
  <1>1. case' \in [Cases -> Case]
    BY DEF Appeal, IInv, Documents, Case
  <1>2. QED
    BY <1>1 DEF Appeal, bounds, history, IInv, Requests, Documents, Others, StaysInBounds

LEMMA TimeStep ==
  ASSUME IInv, OfferStarts \/ OfferEnds
  PROVE  IInv' /\ StaysInBounds
  <1>1. offer' \in Offer /\ offer'.status = offer.status
    BY DEF OfferStarts, OfferEnds, IInv, Documents, Offer
  <1>2. QED
    BY <1>1 DEF OfferStarts, OfferEnds, bounds, history, IInv, Requests, Documents, Others,
                StaysInBounds

LEMMA NextStep ==
  ASSUME IInv, [Next]_vars
  PROVE  IInv' /\ (StaysInBounds \/ UNCHANGED vars)
  <1>1. CASE Next
    BY <1>1, AskStep, ProceedStep, CrashStep, AppealStep, TimeStep DEF Next
  <1>2. CASE UNCHANGED vars
    BY <1>2 DEF vars, docs, bounds, history, IInv, Requests, Documents, Others
  <1>3. QED
    BY <1>1, <1>2

LEMMA Invariant == Spec => []IInv
  <1>1. Init => IInv
    BY InitIInv
  <1>2. IInv /\ [Next]_vars => IInv'
    BY NextStep
  <1>3. QED
    BY <1>1, <1>2, PTL DEF Spec

\* Type correctness: every document and request stays one the code can have.
THEOREM TypeCorrect == Spec => []TypeOK
  BY Invariant, IInvImpliesTypeOK, PTL

\* The guard of the Offer schema holds in every behaviour: whatever checks, jobs,
\* reports and the opt-out had read before they wrote, they publish no offer a
\* person had not published, and leave the business its own.
THEOREM AutomationBounded == Spec => AutomationStaysInBounds
  <1>1. IInv /\ [Next]_vars =>
          [\A p \in Callers :
            /\ request'[p] # request[p]
            /\ ActsNow(p) \in Automatic
            /\ offer'.status # offer.status
            => /\ offer'.status \in Public =>
                    offer.status \in Public \cup {"possibly_removed", "scheduled"}
               /\ offer.managedBy = "merchant" =>
                    \/ offer'.status \in {"expired", "hidden_by_reports"}
                    \/ offer.status = "scheduled" /\ offer'.status = "active"]_vars
    BY NextStep DEF StaysInBounds, Lawful, Shown
  <1>2. QED
    BY <1>1, Invariant, PTL DEF Spec, AutomationStaysInBounds

-----------------------------------------------------------------------------
(* The opt-out of the website.                                              *)

AfterRemoval == OptOutSteps \ {"offer"}

\* The offer is off the site and nobody but a person brings it back.
Gone == offer.managedBy = "merchant" \/ offer.status \notin Shown

Leaving(p) == request[p].actor = "optOut"

\* An opt-out writes the offer first, if at all, and then removes it.
Removing(r) ==
    /\ r.else \in Seq(AfterRemoval)
    /\ r.todo # <<>> => Tail(r.todo) \in Seq(AfterRemoval)
    /\ r.todo # <<>> /\ Head(r.todo) = "offer" =>
           /\ r.fields = {"status"} /\ r.new.status = "removed"
           /\ r.status = Stored /\ r.manager = {"scraper"}

OptOutInv ==
    /\ \A p \in Callers :
        /\ Busy(p) => request[p].actor # "none"
        /\ Leaving(p) => Removing(request[p])
    /\ optOut = "no" =>
        \A p \in Callers : Leaving(p) =>
            /\ request[p].todo \in Seq(AfterRemoval) => Gone
            /\ \A q \in Callers : request[q].actor \notin People
    /\ optOut = "done" =>
        /\ Gone
        /\ \A p \in Callers : request[p].actor \notin Deciders

LEMMA OptOutInvImplies == OptOutInv => OptOutHolds
  BY DEF OptOutInv, OptOutHolds, Gone, Shown

LEMMA InitOptOutInv ==
  ASSUME Init
  PROVE  OptOutInv
  BY DEF Init, OptOutInv, Busy, Leaving, Idle

-----------------------------------------------------------------------------
(* Requests that begin.                                                     *)

LEMMA BeginKeeps ==
  ASSUME OptOutInv, request \in [Callers -> Request], NEW p \in Callers, NEW r, Begin(p, r),
         r.actor \in Automatic \cup People,
         r.actor = "optOut" =>
             /\ optOut = "no"
             /\ Removing(r)
             /\ r.todo \in Seq(AfterRemoval) => Gone
  PROVE  OptOutInv'
  <1>1. /\ request' = [request EXCEPT ![p] = r]
        /\ UNCHANGED offer /\ (Gone' <=> Gone)
    BY DEF Begin, docs, Gone
  <1>2. \A q \in Callers : request'[q] = IF q = p THEN r ELSE request[q]
    BY <1>1
  <1>3. "none" \notin Automatic \cup People /\ "optOut" \notin People
        /\ Deciders \subseteq People
    BY DEF Automatic, People, Deciders
  <1>4. \A q \in Callers :
          /\ Busy(q)' => request'[q].actor # "none"
          /\ Leaving(q)' => Removing(request'[q])
    BY <1>2, <1>3 DEF OptOutInv, Busy, Leaving
  <1>5. CASE optOut = "no"
    <2>1. optOut' = IF BesideOptOut(r.actor) THEN "raced" ELSE "no"
      BY <1>5 DEF Begin
    <2>2. CASE BesideOptOut(r.actor)
      BY <1>4, <2>1, <2>2 DEF OptOutInv, Removing, Busy, Leaving
    <2>3. CASE ~BesideOptOut(r.actor)
      <3>1. ASSUME NEW q \in Callers, Leaving(q)'
            PROVE  /\ request'[q].todo \in Seq(AfterRemoval) => Gone'
                   /\ \A c \in Callers : request'[c].actor \notin People
        <4>1. CASE q = p
          <5>1. r.actor = "optOut"
            BY <1>2, <3>1, <4>1 DEF Leaving
          <5>2. \A c \in Callers : request[c].actor \notin People
            BY <2>3, <5>1 DEF BesideOptOut
          <5>3. QED
            BY <1>1, <1>2, <1>3, <4>1, <5>1, <5>2
        <4>2. CASE q # p
          <5>1. Leaving(q) /\ request'[q] = request[q]
            BY <1>2, <3>1, <4>2 DEF Leaving
          <5>2. r.actor \notin People
            BY <2>3, <5>1 DEF BesideOptOut, Leaving
          <5>3. QED
            BY <1>1, <1>2, <1>5, <5>1, <5>2 DEF OptOutInv
        <4>3. QED
          BY <4>1, <4>2
      <3>2. optOut' = "no"
        BY <2>1, <2>3
      <3>3. QED
        BY <1>4, <3>1, <3>2 DEF OptOutInv, Busy, Leaving, Removing
    <2>4. QED
      BY <2>2, <2>3
  <1>6. CASE optOut = "done"
    <2>1. optOut' = IF r.actor \in Deciders THEN "overruled" ELSE "done"
      BY <1>6 DEF Begin, Deciders
    <2>2. Gone'
      BY <1>1, <1>6 DEF OptOutInv
    <2>3. r.actor \notin Deciders => \A q \in Callers : request'[q].actor \notin Deciders
      BY <1>2, <1>6 DEF OptOutInv
    <2>4. QED
      BY <1>4, <2>1, <2>2, <2>3 DEF OptOutInv, Busy, Leaving, Removing
  <1>7. CASE optOut \notin {"no", "done"}
    <2>1. optOut' = optOut
      BY <1>7 DEF Begin
    <2>2. QED
      BY <1>4, <1>7, <2>1 DEF OptOutInv, Busy, Leaving, Removing
  <1>8. QED
    BY <1>5, <1>6, <1>7

\* Everybody but the opt-out begins with requests of another actor.
OtherBegins(p) == \E r : Begin(p, r) /\ r.actor \in (Automatic \cup People) \ {"optOut"}

LEMMA OtherActors == Deciders \cup {"reader", "job", "check", "reports"}
                       \subseteq (Automatic \cup People) \ {"optOut"}
  BY DEF Deciders, Automatic, People

LEMMA SaveBegins ==
  ASSUME NEW p, NEW actor \in People, NEW new, NEW then, Begin(p, Save(actor, new, then))
  PROVE  OtherBegins(p)
  <1>1. Save(actor, new, then).actor = actor
    BY IdleSound DEF Save, Request
  <1>2. actor \in (Automatic \cup People) \ {"optOut"}
    BY DEF People
  <1>3. QED
    BY <1>1, <1>2 DEF OtherBegins

LEMMA OwnersBegin ==
  ASSUME NEW p \in Callers,
         OwnerSubmit(p) \/ OwnerPause(p) \/ OwnerResume(p) \/ OwnerUpdate(p) \/ OwnerRemove(p)
         \/ OwnerConfirm(p) \/ RedeemLast(p)
  PROVE  OtherBegins(p)
  <1>1. {"owner", "reader"} \subseteq People
    BY DEF People
  <1>2. ASSUME NEW new, OwnerSaves(p, new)
        PROVE  OtherBegins(p)
    BY <1>1, <1>2, SaveBegins DEF OwnerSaves
  <1>3. CASE OwnerSubmit(p)
    BY <1>1, <1>3, SaveBegins DEF OwnerSubmit
  <1>4. CASE OwnerPause(p)
    BY <1>2, <1>4 DEF OwnerPause
  <1>5. CASE OwnerResume(p)
    BY <1>2, <1>5 DEF OwnerResume
  <1>6. CASE OwnerUpdate(p)
    BY <1>2, <1>6 DEF OwnerUpdate
  <1>7. CASE OwnerRemove(p)
    BY <1>1, <1>2, <1>7, SaveBegins DEF OwnerRemove
  <1>8. CASE OwnerConfirm(p)
    BY <1>1, <1>8, SaveBegins DEF OwnerConfirm
  <1>9. CASE RedeemLast(p)
    BY <1>1, <1>9, SaveBegins DEF RedeemLast
  <1>10. QED
    BY <1>3, <1>4, <1>5, <1>6, <1>7, <1>8, <1>9

LEMMA AdminsBegin ==
  ASSUME NEW p \in Callers,
         AdminApprove(p) \/ AdminReject(p) \/ AdminPause(p) \/ SetExpiry(p)
         \/ RestoreReviewed(p)
  PROVE  OtherBegins(p)
  <1>1. "admin" \in People
    BY DEF People
  <1>2. CASE AdminApprove(p)
    BY <1>1, <1>2, SaveBegins DEF AdminApprove
  <1>3. CASE AdminReject(p)
    BY <1>1, <1>3, SaveBegins DEF AdminReject
  <1>4. CASE AdminPause(p)
    BY <1>1, <1>4, SaveBegins DEF AdminPause
  <1>5. CASE SetExpiry(p)
    BY <1>1, <1>5, SaveBegins DEF SetExpiry
  <1>6. CASE RestoreReviewed(p)
    BY <1>1, <1>6, SaveBegins DEF RestoreReviewed
  <1>7. QED
    BY <1>2, <1>3, <1>4, <1>5, <1>6

LEMMA ReviewersBegin ==
  ASSUME NEW p \in Callers,
         ExpireReviewed(p) \/ ApplyRevision(p) \/ DiscardRevision(p) \/ Uphold(p)
         \/ RejectCase(p)
  PROVE  OtherBegins(p)
  <1> DEFINE s(new, then) == Save("admin", new, then)
  <1>1. "admin" \in (Automatic \cup People) \ {"optOut"}
    BY DEF People
  <1>2. ASSUME NEW r, Begin(p, r), r.actor = "admin"
        PROVE  OtherBegins(p)
    BY <1>1, <1>2 DEF OtherBegins
  <1>3. \A new, then : "actor" \in DOMAIN s(new, then) /\ s(new, then).actor = "admin"
    BY IdleSound DEF Save, Request
  <1> HIDE DEF s
  <1>4. CASE ExpireReviewed(p)
    <2> DEFINE r == [s(To("expired"), Recount) EXCEPT !.todo = <<"supersede">> \o @]
    <2>1. Begin(p, r)
      BY <1>4 DEF ExpireReviewed, s
    <2>2. r.actor = "admin"
      BY <1>3
    <2> HIDE DEF r
    <2>3. QED
      BY <1>2, <2>1, <2>2
  <1>5. CASE ApplyRevision(p)
    <2> DEFINE new == [offer EXCEPT !.status = "active", !.absent = 0, !.ended = FALSE]
               r(id) == [s(new, Recount \o <<"revision">>) EXCEPT !.id = id, !.to = "applied"]
    <2>1. PICK id \in Pending : Begin(p, r(id))
      BY <1>5 DEF ApplyRevision, s
    <2>2. r(id).actor = "admin"
      BY <1>3
    <2> HIDE DEF r
    <2>3. QED
      BY <1>2, <2>1, <2>2
  <1>6. CASE DiscardRevision(p)
    <2> DEFINE new == To(IF offer.status = "revision_pending" THEN "active" ELSE offer.status)
               r(id) == [s(new, Recount) EXCEPT !.id = id, !.to = "discarded",
                             !.todo = IF offer.status = "revision_pending"
                                      THEN <<"revision">> \o @ ELSE <<"revision">>]
    <2>1. PICK id \in Pending : Begin(p, r(id))
      BY <1>6 DEF DiscardRevision, s
    <2>2. r(id).actor = "admin"
      BY <1>3
    <2> HIDE DEF r
    <2>3. QED
      BY <1>2, <2>1, <2>2
  <1>7. CASE Uphold(p)
    <2> DEFINE then == Recount \o <<"decide", "reports">>
               r(c) == [s(To("removed"), then) EXCEPT !.id = c, !.to = "upheld",
                            !.before = IF case[c].before = "none" THEN offer.status
                                       ELSE case[c].before,
                            !.todo = IF offer.status = "removed" THEN <<"decide", "reports">>
                                     ELSE @]
    <2>1. PICK c \in OpenCases : Begin(p, r(c))
      BY <1>7 DEF Uphold, s
    <2>2. r(c).actor = "admin"
      BY <1>3
    <2> HIDE DEF r
    <2>3. QED
      BY <1>2, <2>1, <2>2
  <1>8. CASE RejectCase(p)
    <2> DEFINE then == Recount \o <<"decide", "reports">>
               r(c) == [s(To(IF offer.ended THEN "expired" ELSE case[c].before), then)
                            EXCEPT !.id = c, !.to = "rejected", !.before = case[c].before,
                                   !.todo = IF /\ case[c].autoHidden
                                               /\ offer.status = "hidden_by_reports"
                                            THEN @ ELSE <<"decide", "reports">>]
    <2>1. PICK c \in OpenCases : Begin(p, r(c))
      BY <1>8 DEF RejectCase, s
    <2>2. r(c).actor = "admin"
      BY <1>3
    <2> HIDE DEF r
    <2>3. QED
      BY <1>2, <2>1, <2>2
  <1>9. QED
    BY <1>4, <1>5, <1>6, <1>7, <1>8

LEMMA PlainlyBegin ==
  ASSUME NEW p \in Callers,
         RefreshCounts(p) \/ ApproveCandidate(p) \/ RejectCandidate(p) \/ Check(p)
         \/ Deduplicate(p) \/ FindEnded(p)
         \/ Report(p) \/ AskBusiness(p) \/ DecideAppeal(p)
  PROVE  OtherBegins(p)
  <1>1. {"admin", "owner", "job", "check", "reports"}
          \subseteq (Automatic \cup People) \ {"optOut"}
    BY DEF Automatic, People
  <1>2. "actor" \in DOMAIN Idle
    BY IdleSound DEF Request
  <1>3. ASSUME NEW r, Begin(p, r), r.actor \in {"admin", "owner", "job", "check", "reports"}
        PROVE  OtherBegins(p)
    BY <1>1, <1>3 DEF OtherBegins
  <1>4. CASE RefreshCounts(p)
    <2> DEFINE r == [Idle EXCEPT !.actor = "job", !.todo = Recount]
    <2>1. Begin(p, r)
      BY <1>4 DEF RefreshCounts
    <2>2. r.actor = "job"
      BY <1>2
    <2> HIDE DEF r
    <2>3. QED
      BY <1>3, <2>1, <2>2
  <1>5. CASE ApproveCandidate(p)
    <2> DEFINE r(new) ==
          [Idle EXCEPT
            !.actor = IF new.managedBy = "scraper" THEN "admin" ELSE "owner",
            !.todo = IF offer.status = "none" THEN <<"create">> \o Recount \o <<"candidate">>
                     ELSE <<"candidate">>,
            !.new = new, !.to = "approved"]
    <2>1. PICK new : Begin(p, r(new))
      BY <1>5 DEF ApproveCandidate
    <2>2. r(new).actor \in {"admin", "owner"}
      BY <1>2
    <2> HIDE DEF r
    <2>3. QED
      BY <1>3, <2>1, <2>2
  <1>6. CASE RejectCandidate(p)
    <2> DEFINE r == [Idle EXCEPT !.actor = "admin", !.todo = <<"candidate">>,
                                 !.to = "rejected"]
    <2>1. Begin(p, r)
      BY <1>6 DEF RejectCandidate
    <2>2. r.actor = "admin"
      BY <1>2
    <2> HIDE DEF r
    <2>3. QED
      BY <1>3, <2>1, <2>2
  <1>7. CASE Check(p)
    <2> DEFINE r(outcome) ==
          [Idle EXCEPT !.actor = "check", !.to = outcome,
                       !.todo = IF outcome = "changed" THEN <<"propose", "check">>
                                ELSE <<"check">>]
    <2>1. PICK outcome \in Outcomes : Begin(p, r(outcome))
      BY <1>7 DEF Check
    <2>2. r(outcome).actor = "check"
      BY <1>2
    <2> HIDE DEF r
    <2>3. QED
      BY <1>3, <2>1, <2>2
  <1>8. CASE Report(p)
    <2> DEFINE r == [Idle EXCEPT !.actor = "reports", !.before = offer.status,
                                 !.todo = <<"report", "case">>]
    <2>1. Begin(p, r)
      BY <1>8 DEF Report
    <2>2. r.actor = "reports"
      BY <1>2
    <2> HIDE DEF r
    <2>3. QED
      BY <1>3, <2>1, <2>2
  <1>9. CASE AskBusiness(p)
    <2> DEFINE r(c) == [Idle EXCEPT !.actor = "admin", !.id = c, !.to = "info_requested",
                                    !.before = case[c].before, !.todo = <<"decide">>]
    <2>1. PICK c \in OpenCases : Begin(p, r(c))
      BY <1>9 DEF AskBusiness
    <2>2. r(c).actor = "admin"
      BY <1>2
    <2> HIDE DEF r
    <2>3. QED
      BY <1>3, <2>1, <2>2
  <1>10. CASE DecideAppeal(p)
    <2> DEFINE r(c, to) == [Idle EXCEPT !.actor = "admin", !.id = c, !.to = to,
                                        !.todo = <<"appeal">>]
    <2>1. PICK c \in Cases, to \in {"accepted", "declined"} : Begin(p, r(c, to))
      BY <1>10 DEF DecideAppeal
    <2>2. r(c, to).actor = "admin"
      BY <1>2
    <2> HIDE DEF r
    <2>3. QED
      BY <1>3, <2>1, <2>2
  <1>11. CASE Deduplicate(p)
    <2> DEFINE r == [Idle EXCEPT !.actor = "check", !.todo = <<"find">>]
    <2>1. Begin(p, r)
      BY <1>11 DEF Deduplicate
    <2>2. r.actor = "check"
      BY <1>2
    <2> HIDE DEF r
    <2>3. QED
      BY <1>3, <2>1, <2>2
  <1>12. CASE FindEnded(p)
    <2> DEFINE r == [Idle EXCEPT !.actor = "job",
                       !.todo = <<"expire">> \o (IF EndedNow THEN Recount ELSE <<>>)]
    <2>1. Begin(p, r)
      BY <1>12 DEF FindEnded
    <2>2. r.actor = "job"
      BY <1>2
    <2> HIDE DEF r
    <2>3. QED
      BY <1>3, <2>1, <2>2
  <1>13. QED
    BY <1>4, <1>5, <1>6, <1>7, <1>8, <1>9, <1>10, <1>11, <1>12

LEMMA UpdateTerms ==
  ASSUME NEW actor, NEW new, NEW status, NEW manager, NEW then, NEW else, NEW r,
         r = Update(actor, new, status, manager, then, else)
  PROVE  /\ r.actor = actor /\ r.todo = OfferThen(then) /\ r.else = else /\ r.new = new
         /\ r.fields = {"status"} /\ r.status = status /\ r.manager = manager
  BY IdleSound DEF Update, OfferThen, Request

LEMMA JobsBegin ==
  ASSUME NEW p \in Callers, PublishScheduled(p) \/ ReviewStale(p)
  PROVE  OtherBegins(p)
  <1>1. "job" \in (Automatic \cup People) \ {"optOut"}
    BY DEF Automatic
  <1>2. ASSUME NEW r, Begin(p, r), r.actor = "job"
        PROVE  OtherBegins(p)
    BY <1>1, <1>2 DEF OtherBegins
  <1>3. ASSUME NEW new, NEW status, NEW manager, NEW then, NEW else,
               Begin(p, Update("job", new, status, manager, then, else))
        PROVE  OtherBegins(p)
    BY <1>2, <1>3, UpdateTerms
  <1>4. CASE PublishScheduled(p)
    BY <1>3, <1>4 DEF PublishScheduled
  <1>5. CASE ReviewStale(p)
    <2> DEFINE r == [Idle EXCEPT !.actor = "job", !.todo = <<"orphans">>]
    <2>1. r.actor = "job"
      BY IdleSound DEF Request
    <2>2. CASE Begin(p, r)
      <3> HIDE DEF r
      <3>1. QED
        BY <1>2, <2>1, <2>2
    <2>3. CASE ~Begin(p, r)
      BY <1>3, <1>5, <2>3 DEF ReviewStale
    <2>4. QED
      BY <2>2, <2>3
  <1>6. QED
    BY <1>4, <1>5

\* An opt-out that need not remove the offer finds it gone.
LEMMA OptOutBegins ==
  ASSUME IInv, OptOutInv, NEW p \in Callers, OptOut(p)
  PROVE  OptOutInv'
  <1> DEFINE then == Recount \o <<"supersede", "done">>
             u == Update("optOut", To("removed"), Stored, {"scraper"}, then, then)
             r == [Idle EXCEPT !.actor = "optOut", !.todo = <<"supersede", "done">>]
  <1>1. request \in [Callers -> Request] /\ offer \in Offer
    BY DEF IInv, Requests, Documents
  <1>2. then \in Seq(AfterRemoval) /\ <<"supersede", "done">> \in Seq(AfterRemoval)
        /\ <<>> \in Seq(AfterRemoval)
    <2>1. {"count", "write", "supersede", "done"} \subseteq AfterRemoval
      BY DEF AfterRemoval, OptOutSteps
    <2>2. Recount \in Seq(AfterRemoval) /\ <<"supersede", "done">> \in Seq(AfterRemoval)
      BY <2>1 DEF Recount
    <2>3. QED
      BY <2>2, ConcatProperties
  <1>3. "optOut" \in Automatic \cup People /\ optOut = "no"
    BY DEF Automatic, OptOut
  <1>4. CASE Begin(p, u)
    <2>1. /\ u.actor = "optOut" /\ u.todo = OfferThen(then) /\ u.else = then
          /\ u.new = To("removed") /\ u.fields = {"status"} /\ u.status = Stored
          /\ u.manager = {"scraper"}
      BY IdleSound DEF Update, OfferThen, Request
    <2>2. To("removed").status = "removed"
      BY <1>1 DEF To, Offer
    <2> HIDE DEF u, then
    <2>3. /\ OfferThen(then) # <<>> /\ Head(OfferThen(then)) = "offer"
          /\ Tail(OfferThen(then)) = then
          /\ OfferThen(then) \notin Seq(AfterRemoval)
      BY <1>2 DEF OfferThen, AfterRemoval
    <2>4. Removing(u)
      BY <1>2, <2>1, <2>2, <2>3 DEF Removing
    <2>5. QED
      BY <1>1, <1>3, <1>4, <2>1, <2>3, <2>4, BeginKeeps
  <1>5. CASE ~Begin(p, u)
    <2> DEFINE live == offer.managedBy = "scraper" /\ offer.status \in Stored \ {"removed"}
    <2>1. Begin(p, r) /\ ~live
      <3>1. IF live THEN Begin(p, u) ELSE Begin(p, r)
        BY Zenon DEF OptOut
      <3>2. QED
        BY <1>5, <3>1
    <2>2. Gone
      BY <1>1, <2>1 DEF Gone, Shown, Public, Offer, Managers, Statuses, Stored, Ending
    <2>3. /\ r.actor = "optOut" /\ r.todo = <<"supersede", "done">> /\ r.else = Idle.else
      BY IdleSound DEF Request
    <2> HIDE DEF r
    <2>4. Idle.else = <<>>
      BY DEF Idle
    <2>5. Tail(<<"supersede", "done">>) \in Seq(AfterRemoval)
          /\ Head(<<"supersede", "done">>) # "offer"
      BY DEF AfterRemoval, OptOutSteps
    <2>6. Removing(r)
      BY <1>2, <2>3, <2>4, <2>5 DEF Removing
    <2>7. QED
      BY <1>1, <1>3, <2>1, <2>2, <2>3, <2>6, BeginKeeps
  <1>6. QED
    BY <1>4, <1>5

-----------------------------------------------------------------------------
(* The steps of other requests.                                             *)

\* The offer stays gone whoever it is that acts, a person who decides aside.
LEMMA OthersKeep ==
  ASSUME OptOutInv, request \in [Callers -> Request], NEW p \in Callers, NEW r,
         request' = [request EXCEPT ![p] = r],
         r.actor # "optOut",
         r.todo # <<>> => r.actor # "none",
         r.actor \in People => r.actor = request[p].actor,
         request[p].actor \notin Deciders => (Gone => Gone'),
         optOut' = optOut
  PROVE  OptOutInv'
  <1>1. \A q \in Callers : request'[q] = IF q = p THEN r ELSE request[q]
    OBVIOUS
  <1>2. Deciders \subseteq People
    BY DEF Deciders, People
  <1>3. \A q \in Callers :
          /\ Busy(q)' => request'[q].actor # "none"
          /\ Leaving(q)' => Leaving(q) /\ request'[q] = request[q] /\ Removing(request'[q])
    BY <1>1 DEF OptOutInv, Busy, Leaving
  <1>4. CASE optOut = "no"
    <2>1. ASSUME NEW q \in Callers, Leaving(q)'
          PROVE  /\ request'[q].todo \in Seq(AfterRemoval) => Gone'
                 /\ \A c \in Callers : request'[c].actor \notin People
      <3>1. /\ request[q].todo \in Seq(AfterRemoval) => Gone
            /\ \A c \in Callers : request[c].actor \notin People
        BY <1>3, <1>4, <2>1 DEF OptOutInv
      <3>2. QED
        BY <1>1, <1>2, <1>3, <2>1, <3>1
    <2>2. QED
      BY <1>3, <1>4, <2>1 DEF OptOutInv, Busy, Leaving, Removing
  <1>5. CASE optOut = "done"
    <2>1. Gone  /\ \A q \in Callers : request[q].actor \notin Deciders
      BY <1>5 DEF OptOutInv
    <2>2. Gone'  /\ \A q \in Callers : request'[q].actor \notin Deciders
      BY <1>1, <1>2, <2>1
    <2>3. QED
      BY <1>3, <1>5, <2>2 DEF OptOutInv, Busy, Leaving, Removing
  <1>6. CASE optOut \notin {"no", "done"}
    BY <1>3, <1>6 DEF OptOutInv, Busy, Leaving, Removing
  <1>7. QED
    BY <1>4, <1>5, <1>6

LEMMA AskKeeps ==
  ASSUME IInv, OptOutInv, NEW p \in Callers, Ask(p)
  PROVE  OptOutInv'
  <1>1. request \in [Callers -> Request]
    BY DEF IInv, Requests
  <1>2. CASE OtherBegins(p)
    BY <1>1, <1>2, BeginKeeps DEF OtherBegins
  <1>3. CASE OptOut(p)
    BY <1>3, OptOutBegins
  <1>4. QED
    BY <1>2, <1>3, OwnersBegin, AdminsBegin, ReviewersBegin, PlainlyBegin, JobsBegin DEF Ask

-----------------------------------------------------------------------------
(* The steps of requests other than the opt-out's.                          *)

LEMMA TurnKeeps ==
  ASSUME IInv, OptOutInv, NEW p \in Callers, NEW r, Turn(p, r), Busy(p), ~Leaving(p),
         r.actor \in {request[p].actor, "reports"},
         request[p].actor \notin Deciders => (Gone => Gone'),
         optOut' = optOut
  PROVE  OptOutInv'
  <1> DEFINE s == IF r.todo = <<>> THEN Idle ELSE r
  <1>1. request' = [request EXCEPT ![p] = s] /\ request \in [Callers -> Request]
    BY DEF Turn, IInv, Requests
  <1>2. request[p].actor \notin {"none", "optOut"}
    BY DEF OptOutInv, Leaving
  <1>3. Idle.todo = <<>> /\ Idle.actor = "none"
    BY DEF Idle
  <1>4. /\ s.actor # "optOut"
        /\ s.todo # <<>> => s.actor # "none"
        /\ s.actor \in People => s.actor = request[p].actor
    <2>1. CASE r.todo = <<>>
      BY <1>3, <2>1 DEF People
    <2>2. CASE r.todo # <<>>
      BY <1>2, <2>2 DEF People
    <2>3. QED
      BY <2>1, <2>2
  <1> HIDE DEF s
  <1>5. QED
    BY <1>1, <1>4, OthersKeep

\* A step that an opt-out does not take, and that leaves the offer alone.
LEMMA ElsewhereKeeps ==
  ASSUME IInv, OptOutInv, NEW p \in Callers, NEW step \in Steps \ OptOutSteps, At(p, step),
         NEW r, Turn(p, r), r.actor \in {request[p].actor, "reports"},
         UNCHANGED <<offer, optOut>>
  PROVE  OptOutInv'
  <1>1. Busy(p) /\ step \in Allowed(request[p])
    BY AtStep
  <1>2. ~Leaving(p)
    BY <1>1 DEF Allowed, Leaving
  <1>3. Gone => Gone'
    BY DEF Gone
  <1>4. QED
    BY <1>1, <1>2, <1>3, TurnKeeps

LEMMA SameActor ==
  ASSUME IInv, NEW p \in Callers
  PROVE  /\ After(p).actor = request[p].actor
         /\ \A todo : [request[p] EXCEPT !.todo = todo].actor = request[p].actor
         /\ \A todo, id : [request[p] EXCEPT !.id = id, !.todo = todo].actor = request[p].actor
         /\ \A todo : [After(p) EXCEPT !.todo = todo].actor = request[p].actor
         /\ \A todo : Written(p, todo).actor = request[p].actor
  BY DEF IInv, Requests, Request, After, Written

LEMMA AdvancingKeeps ==
  ASSUME IInv, OptOutInv, NEW p \in Callers, NEW step \in Steps \ OptOutSteps, At(p, step),
         Advance(p), UNCHANGED <<offer, optOut>>
  PROVE  OptOutInv'
  <1>1. Turn(p, After(p)) /\ After(p).actor = request[p].actor
    BY SameActor DEF Advance
  <1>2. QED
    BY <1>1, ElsewhereKeeps

LEMMA OtherStepsKeep ==
  ASSUME IInv, OptOutInv, NEW p \in Callers,
         SaveCandidate(p) \/ StoreCandidate(p) \/ SaveRevision(p) \/ ProposeRevision(p)
         \/ FileReport(p)
         \/ SaveHidden(p) \/ SaveDecision(p) \/ CloseReports(p)
  PROVE  OptOutInv'
  <1>1. {"candidate", "store", "revision", "propose", "report", "hidden", "decide", "reports"}
          \subseteq Steps \ OptOutSteps
    BY DEF Steps, OptOutSteps
  <1>2. CASE SaveCandidate(p)
    BY <1>1, <1>2, AdvancingKeeps DEF SaveCandidate, history
  <1>3. CASE SaveRevision(p)
    BY <1>1, <1>3, AdvancingKeeps DEF SaveRevision, history
  <1>4. CASE ProposeRevision(p)
    BY <1>1, <1>4, AdvancingKeeps DEF ProposeRevision, history
  <1>5. CASE FileReport(p)
    BY <1>1, <1>5, AdvancingKeeps DEF FileReport, history
  <1>6. CASE SaveHidden(p)
    BY <1>1, <1>6, AdvancingKeeps DEF SaveHidden
  <1>7. CASE SaveDecision(p)
    BY <1>1, <1>7, AdvancingKeeps DEF SaveDecision
  <1>8. CASE CloseReports(p)
    BY <1>1, <1>8, AdvancingKeeps DEF CloseReports, history
  <1>9. CASE StoreCandidate(p)
    BY <1>1, <1>9, AdvancingKeeps DEF StoreCandidate, history
  <1>10. QED
    BY <1>2, <1>3, <1>4, <1>5, <1>6, <1>7, <1>8, <1>9

\* A step that ends the request, or gives it other steps to do.
LEMMA TurningKeeps ==
  ASSUME IInv, OptOutInv, NEW p \in Callers, NEW step \in Steps \ OptOutSteps, At(p, step),
         NEW r, Turn(p, Idle) \/ (Turn(p, r) /\ r.actor \in {request[p].actor, "reports"}),
         UNCHANGED <<offer, optOut>>
  PROVE  OptOutInv'
  <1>1. CASE Turn(p, Idle)
    <2> DEFINE t == [request[p] EXCEPT !.todo = <<>>]
    <2>1. t.todo = <<>> /\ t.actor = request[p].actor
      BY DEF IInv, Requests, Request
    <2> HIDE DEF t
    <2>2. Turn(p, t)
      BY <1>1, <2>1 DEF Turn
    <2>3. QED
      BY <2>1, <2>2, ElsewhereKeeps
  <1>2. CASE ~Turn(p, Idle)
    BY <1>2, ElsewhereKeeps
  <1>3. QED
    BY <1>1, <1>2

LEMMA CheckStepsKeep ==
  ASSUME IInv, OptOutInv, NEW p \in Callers,
         ApplyCheck(p) \/ CloseOrphans(p) \/ UpsertCase(p) \/ SaveAppeal(p)
  PROVE  OptOutInv'
  <1>1. {"check", "orphans", "case", "appeal"} \subseteq Steps \ OptOutSteps
    BY DEF Steps, OptOutSteps
  <1>2. request[p] \in Request
    BY DEF IInv, Requests
  <1>3. ASSUME NEW step \in Steps \ OptOutSteps, At(p, step),
               NEW r, Turn(p, Idle) \/ (Turn(p, r) /\ r.actor = request[p].actor),
               UNCHANGED <<offer, optOut>>
        PROVE  OptOutInv'
    BY <1>3, TurningKeeps
  <1>4. CASE ApplyCheck(p)
    <2> DEFINE
          outcome == request[p].to
          moot    == outcome = "seen" /\ Pending # {}
          new     == Recheck(offer, outcome, Pending # {} /\ ~moot)
          r == [request[p] EXCEPT
                 !.todo = (IF moot THEN <<"supersede">> ELSE <<>>) \o <<"offer">>
                          \o (IF new.status # offer.status THEN Recount ELSE <<>>),
                 !.new = new,
                 !.fields = {"absent"} \cup
                     (IF new.status # offer.status THEN {"status"} ELSE {}),
                 !.status = {offer.status}, !.manager = {"scraper"}]
    <2>1. At(p, "check") /\ (Turn(p, Idle) \/ Turn(p, r))
          /\ UNCHANGED <<offer, optOut>>
      BY <1>4 DEF ApplyCheck, docs, history
    <2>2. r.actor = request[p].actor
      BY <1>2 DEF Request
    <2> HIDE DEF r
    <2>3. QED
      BY <1>1, <1>3, <2>1, <2>2
  <1>5. CASE CloseOrphans(p)
    <2> DEFINE r == [After(p) EXCEPT !.todo =
                        IF offer.status \in Closed THEN <<"supersede">> ELSE <<>>]
    <2>1. At(p, "orphans") /\ Turn(p, r) /\ UNCHANGED <<offer, optOut>>
      BY <1>5 DEF CloseOrphans, docs, history
    <2>2. r.actor = request[p].actor
      BY SameActor
    <2> HIDE DEF r
    <2>3. QED
      BY <1>1, <1>3, <2>1, <2>2
  <1>6. CASE UpsertCase(p)
    <2> DEFINE r(c) == [request[p] EXCEPT !.id = c, !.todo = <<"distinct">>]
    <2>1. At(p, "case") /\ (\E c \in Cases : Turn(p, Idle) \/ Turn(p, r(c)))
          /\ UNCHANGED <<offer, optOut>>
      BY <1>6 DEF UpsertCase, history
    <2>2. \A c : r(c).actor = request[p].actor
      BY SameActor
    <2> HIDE DEF r
    <2>3. QED
      BY <1>1, <1>3, <2>1, <2>2
  <1>7. CASE SaveAppeal(p)
    <2> DEFINE r == [request[p] EXCEPT !.todo = <<"restore">>]
    <2>1. At(p, "appeal") /\ (Turn(p, Idle) \/ Turn(p, r))
          /\ UNCHANGED <<offer, optOut>>
      BY <1>7 DEF SaveAppeal, history
    <2>2. r.actor = request[p].actor
      BY SameActor
    <2> HIDE DEF r
    <2>3. QED
      BY <1>1, <1>3, <2>1, <2>2
  <1>8. QED
    BY <1>4, <1>5, <1>6, <1>7

\* The job expires the offer, and the duplicate check leaves it alone.
LEMMA JobStepsKeep ==
  ASSUME IInv, OptOutInv, NEW p \in Callers, ExpireEnded(p) \/ FindCandidate(p)
  PROVE  OptOutInv'
  <1>1. {"expire", "find"} \subseteq Steps \ OptOutSteps
    BY DEF Steps, OptOutSteps
  <1>2. CASE FindCandidate(p)
    <2>1. At(p, "find") /\ UNCHANGED <<offer, optOut>>
      BY <1>2 DEF FindCandidate, docs, history
    <2>2. CASE Turn(p, Idle)
      BY <1>1, <2>1, <2>2, TurningKeeps
    <2>3. CASE ~Turn(p, Idle)
      <3>1. PICK r : Turn(p, r) /\ r.actor = request[p].actor
        BY <1>2, <2>3, FindCandidateStep
      <3>2. QED
        BY <1>1, <2>1, <3>1, TurningKeeps
    <2>4. QED
      BY <2>2, <2>3
  <1>3. CASE ExpireEnded(p) /\ EndedNow
    <2>1. Busy(p) /\ "expire" \in Allowed(request[p]) /\ Turn(p, After(p))
      BY <1>3, AtStep DEF ExpireEnded, Advance
    <2>2. ~Leaving(p)
      BY <2>1 DEF Allowed, Leaving, OptOutSteps
    <2>3. offer'.status = "expired"
      BY <1>3, ToStatus DEF ExpireEnded, Statuses, Stored, Closed
    <2>4. Gone' /\ optOut' = optOut
      BY <1>3, <2>3 DEF Gone, Shown, Public, ExpireEnded
    <2>5. QED
      BY <2>1, <2>2, <2>4, SameActor, TurnKeeps
  <1>4. CASE ExpireEnded(p) /\ ~EndedNow
    <2>1. At(p, "expire") /\ UNCHANGED <<offer, optOut>>
          /\ (Turn(p, Idle) \/ Turn(p, After(p)))
      BY <1>4 DEF ExpireEnded
    <2>2. QED
      BY <1>1, <2>1, SameActor, TurningKeeps
  <1>5. QED
    BY <1>2, <1>3, <1>4

LEMMA ReportStepsKeep ==
  ASSUME IInv, OptOutInv, NEW p \in Callers,
         CountReporters(p) \/ RestoreAppealed(p) \/ CreateOffer(p)
  PROVE  OptOutInv'
  <1>1. {"distinct", "restore"} \subseteq Steps \ OptOutSteps
    BY DEF Steps, OptOutSteps
  <1>2. CASE CountReporters(p)
    <2> DEFINE u == Update("reports", To("hidden_by_reports"), Public, Managers,
                           <<"hidden">> \o Recount, <<>>)
               r == [u EXCEPT !.before = request[p].before, !.id = request[p].id]
    <2>1. At(p, "distinct") /\ (Turn(p, Idle) \/ Turn(p, r))
          /\ UNCHANGED <<offer, optOut>>
      BY <1>2 DEF CountReporters, docs, history
    <2>2. r.actor = "reports"
      BY IdleSound DEF Update, Request
    <2> HIDE DEF r
    <2>3. QED
      BY <1>1, <2>1, <2>2, TurningKeeps
  <1>3. CASE RestoreAppealed(p)
    <2>1. PICK status : Turn(p, Idle) \/ Turn(p, Save("admin", To(status), Recount))
      BY <1>3 DEF RestoreAppealed
    <2> DEFINE r == Save("admin", To(status), Recount)
    <2>2. At(p, "restore") /\ UNCHANGED <<offer, optOut>>
      BY <1>3 DEF RestoreAppealed, docs, history
    <2>3. request[p].actor = "admin"
      BY <2>2, AtStep DEF Allowed
    <2>4. r.actor = "admin"
      BY IdleSound DEF Save, Request
    <2>5. Turn(p, Idle) \/ Turn(p, r)
      BY <2>1
    <2> HIDE DEF r
    <2>6. QED
      BY <1>1, <2>2, <2>3, <2>4, <2>5, TurningKeeps
  <1>4. CASE CreateOffer(p)
    <2>1. Busy(p) /\ request[p].actor \in Deciders /\ optOut' = optOut
      BY <1>4, AtStep DEF CreateOffer, Allowed
    <2>2. ~Leaving(p)
      BY <2>1 DEF Leaving, Deciders
    <2>3. CASE offer.status = "none"
      <3> DEFINE r == Written(p, Tail(request[p].todo))
      <3>1. Turn(p, r) /\ r.actor = request[p].actor
        BY <1>4, <2>3, SameActor DEF CreateOffer
      <3> HIDE DEF r
      <3>2. QED
        BY <2>1, <2>2, <3>1, TurnKeeps
    <2>4. CASE offer.status # "none"
      BY <1>1, <1>4, <2>4, TurningKeeps DEF CreateOffer, Steps, OptOutSteps
    <2>5. QED
      BY <2>3, <2>4
  <1>5. QED
    BY <1>2, <1>3, <1>4

-----------------------------------------------------------------------------
(* The steps of an opt-out.                                                 *)

LEMMA LeaverKeeps ==
  ASSUME IInv, OptOutInv, NEW p \in Callers, NEW r, Turn(p, r), Leaving(p),
         r.actor = "optOut", Removing(r),
         optOut = "no" /\ r.todo # <<>> /\ r.todo \in Seq(AfterRemoval) => Gone',
         Gone => Gone',
         \/ optOut' = optOut
         \/ optOut = "no" /\ optOut' = "done" /\ Gone'
  PROVE  OptOutInv'
  <1> DEFINE s == IF r.todo = <<>> THEN Idle ELSE r
  <1>1. request' = [request EXCEPT ![p] = s] /\ request \in [Callers -> Request]
    BY DEF Turn, IInv, Requests
  <1>2. Idle.todo = <<>> /\ Idle.actor = "none"
    BY DEF Idle
  <1>3. /\ s.actor \in {"optOut", "none"}
        /\ s.todo # <<>> => s.actor # "none"
        /\ s.actor = "optOut" => s = r /\ r.todo # <<>>
    <2>1. CASE r.todo = <<>>
      BY <1>2, <2>1
    <2>2. CASE r.todo # <<>>
      BY <2>2
    <2>3. QED
      BY <2>1, <2>2
  <1> HIDE DEF s
  <1>4. \A q \in Callers : request'[q] = IF q = p THEN s ELSE request[q]
    BY <1>1
  <1>5. Deciders \subseteq People /\ {"optOut", "none"} \cap People = {}
    BY DEF Deciders, People
  <1>6. \A q \in Callers :
          /\ Busy(q)' => request'[q].actor # "none"
          /\ Leaving(q)' => Removing(request'[q])
    BY <1>3, <1>4 DEF OptOutInv, Busy, Leaving
  <1>7. CASE optOut' = "no"
    <2>1. optOut = "no"
      BY <1>7
    <2>2. \A q \in Callers : request[q].actor \notin People
      BY <2>1 DEF OptOutInv
    <2>3. \A q \in Callers : request'[q].actor \notin People
      BY <1>3, <1>4, <1>5, <2>2
    <2>4. ASSUME NEW q \in Callers, Leaving(q)', request'[q].todo \in Seq(AfterRemoval)
          PROVE  Gone'
      <3>1. CASE q = p
        BY <1>3, <1>4, <2>1, <2>4, <3>1 DEF Leaving
      <3>2. CASE q # p
        BY <1>4, <2>1, <2>4, <3>2 DEF Leaving, OptOutInv
      <3>3. QED
        BY <3>1, <3>2
    <2>5. QED
      BY <1>6, <1>7, <2>3, <2>4 DEF OptOutInv, Busy, Leaving, Removing
  <1>8. CASE optOut' = "done"
    <2>1. CASE optOut = "done"
      <3>1. Gone  /\ \A q \in Callers : request[q].actor \notin Deciders
        BY <2>1 DEF OptOutInv
      <3>2. Gone'  /\ \A q \in Callers : request'[q].actor \notin Deciders
        BY <1>3, <1>4, <1>5, <3>1
      <3>3. QED
        BY <1>6, <1>8, <3>2 DEF OptOutInv, Busy, Leaving, Removing
    <2>2. CASE optOut = "no"
      <3>1. \A q \in Callers : request[q].actor \notin People
        BY <2>2 DEF OptOutInv
      <3>2. \A q \in Callers : request'[q].actor \notin Deciders
        BY <1>3, <1>4, <1>5, <3>1
      <3>3. Gone'
        BY <1>8, <2>2
      <3>4. QED
        BY <1>6, <1>8, <3>2, <3>3 DEF OptOutInv, Busy, Leaving, Removing
    <2>3. QED
      BY <1>8, <2>1, <2>2
  <1>9. CASE optOut' \notin {"no", "done"}
    BY <1>6, <1>9 DEF OptOutInv, Busy, Leaving, Removing
  <1>10. QED
    BY <1>7, <1>8, <1>9

\* Past its write of the offer, an opt-out finds it gone.
LEMMA PastRemoval ==
  ASSUME IInv, OptOutInv, NEW p \in Callers, NEW step \in AfterRemoval, At(p, step), Leaving(p)
  PROVE  /\ optOut = "no" => Gone
         /\ After(p).actor = "optOut" /\ Removing(After(p))
  <1> DEFINE r == request[p]
             a == After(p)
  <1>1. r \in Request /\ r.todo # <<>> /\ Head(r.todo) = step /\ Removing(r)
    BY DEF IInv, Requests, At, Busy, OptOutInv
  <1>2. Tail(r.todo) \in Seq(AfterRemoval) /\ r.else \in Seq(AfterRemoval)
    BY <1>1 DEF Removing
  <1>3. r.todo \in Seq(Steps)
    BY <1>1 DEF Request
  <1>4. r.todo = <<Head(r.todo)>> \o Tail(r.todo)
    BY <1>1, <1>3
  <1>5. r.todo \in Seq(AfterRemoval)
    <2>1. <<step>> \in Seq(AfterRemoval)
      OBVIOUS
    <2>2. <<step>> \o Tail(r.todo) \in Seq(AfterRemoval)
      BY <1>2, <2>1, ConcatProperties
    <2>3. QED
      BY <1>1, <1>4, <2>2
  <1>6. a.actor = r.actor /\ a.todo = Tail(r.todo) /\ a.else = r.else
    BY <1>1 DEF After, Request
  <1> HIDE DEF a
  <1>7. a.todo # <<>> => Head(a.todo) \in AfterRemoval /\ Tail(a.todo) \in Seq(AfterRemoval)
    BY <1>2, <1>6, HeadTailProperties
  <1>8. Removing(a)
    BY <1>2, <1>6, <1>7 DEF Removing, AfterRemoval
  <1>9. QED
    BY <1>5, <1>6, <1>8 DEF OptOutInv, Leaving, a

\* Counting and superseding, by anybody.
LEMMA SharedKeeps ==
  ASSUME IInv, OptOutInv, NEW p \in Callers, NEW step \in AfterRemoval, At(p, step),
         NEW r, Turn(p, r), r.actor = After(p).actor, r.todo = After(p).todo,
         r.else = After(p).else,
         r.fields = After(p).fields, r.new = After(p).new, r.status = After(p).status,
         r.manager = After(p).manager,
         UNCHANGED <<offer, optOut>>
  PROVE  OptOutInv'
  <1>1. Busy(p) /\ After(p).actor = request[p].actor /\ (Gone <=> Gone')
    BY AtStep, SameActor DEF Gone
  <1>2. CASE Leaving(p)
    <2>1. (optOut = "no" => Gone) /\ r.actor = "optOut" /\ Removing(After(p))
      BY <1>2, PastRemoval
    <2>2. Removing(r)
      BY <2>1 DEF Removing
    <2>3. QED
      BY <1>1, <1>2, <2>1, <2>2, LeaverKeeps
  <1>3. CASE ~Leaving(p)
    BY <1>1, <1>3, TurnKeeps
  <1>4. QED
    BY <1>2, <1>3

LEMMA CountsKeep ==
  ASSUME IInv, OptOutInv, NEW p \in Callers,
         CountActive(p) \/ WriteCount(p) \/ Supersede(p)
  PROVE  OptOutInv'
  <1>1. {"count", "write", "supersede", "done"} \subseteq AfterRemoval
    BY DEF AfterRemoval, OptOutSteps
  <1>2. CASE CountActive(p)
    <2> DEFINE r == [After(p) EXCEPT !.counted = One(offer.status)]
    <2>1. At(p, "count") /\ Turn(p, r) /\ UNCHANGED <<offer, optOut>>
      BY <1>2 DEF CountActive, docs, history
    <2>2. After(p) \in Request
      BY <2>1, AtStep
    <2>3. /\ r.actor = After(p).actor /\ r.todo = After(p).todo /\ r.else = After(p).else
          /\ r.fields = After(p).fields /\ r.new = After(p).new
          /\ r.status = After(p).status /\ r.manager = After(p).manager
      BY <2>2 DEF Request
    <2> HIDE DEF r
    <2>4. QED
      BY <1>1, <2>1, <2>3, SharedKeeps
  <1>3. CASE WriteCount(p)
    BY <1>1, <1>3, SharedKeeps DEF WriteCount, Advance, history
  <1>4. CASE Supersede(p)
    BY <1>1, <1>4, SharedKeeps DEF Supersede, Advance, history
  <1>5. QED
    BY <1>2, <1>3, <1>4

LEMMA FinishKeeps ==
  ASSUME IInv, OptOutInv, NEW p \in Callers, FinishOptOut(p)
  PROVE  OptOutInv'
  <1>1. At(p, "done") /\ Turn(p, After(p)) /\ UNCHANGED offer
    BY DEF FinishOptOut, Advance
  <1>2. Leaving(p)
    BY <1>1, AtStep DEF Allowed, Leaving
  <1>3. "done" \in AfterRemoval
    BY DEF AfterRemoval, OptOutSteps
  <1>4. (optOut = "no" => Gone) /\ After(p).actor = "optOut" /\ Removing(After(p))
    BY <1>1, <1>2, <1>3, PastRemoval
  <1>5. Gone <=> Gone'
    BY <1>1 DEF Gone
  <1>7. optOut' = optOut \/ (optOut = "no" /\ optOut' = "done")
    BY DEF FinishOptOut
  <1>8. QED
    BY <1>1, <1>2, <1>4, <1>5, <1>7, LeaverKeeps

-----------------------------------------------------------------------------
(* The write of the offer.                                                  *)

\* What a write that matches makes of the offer.
LEMMA Rewritten ==
  ASSUME IInv, NEW p \in Callers, WriteOffer(p), Matches(p)
  PROVE  LET r == request[p]
         IN  /\ offer'.status = IF "status" \in r.fields THEN r.new.status ELSE offer.status
             /\ offer'.managedBy =
                    IF "managedBy" \in r.fields THEN r.new.managedBy ELSE offer.managedBy
             /\ offer.status \in r.status /\ offer.managedBy \in r.manager
             /\ Turn(p, Written(p, Tail(r.todo)))
  BY DEF WriteOffer, Matches, Fields, IInv, Documents, Offer

LEMMA WriteKeepsGone ==
  ASSUME IInv, OptOutInv, NEW p \in Callers, WriteOffer(p), ~Leaving(p),
         request[p].actor \notin Deciders, Gone
  PROVE  Gone'
  <1> DEFINE r == request[p]
  <1>1. CASE ~Matches(p)
    BY <1>1 DEF WriteOffer, Gone
  <1>2. CASE Matches(p)
    <2>1. Sound(r) /\ r \in Request /\ Busy(p)
      BY AtStep DEF WriteOffer
    <2>2. r.actor \in (Automatic \ {"optOut"}) \cup {"reader"}
      BY <2>1 DEF Request, OptOutInv, Leaving, Deciders, People
    <2>3. "managedBy" \notin r.fields
      BY <2>1, <2>2 DEF Sound, Bounded, Redeeming
    <2>4. offer'.managedBy = offer.managedBy
      BY <1>2, <2>3, Rewritten
    <2>5. CASE "status" \notin r.fields
      BY <1>2, <2>4, <2>5, Rewritten DEF Gone
    <2>6. CASE "status" \in r.fields /\ r.actor = "reader"
      <3>1. offer'.status = "expired"
        BY <1>2, <2>1, <2>6, Rewritten DEF Sound, Redeeming
      <3>2. QED
        BY <3>1 DEF Gone, Shown, Public
    <2>7. CASE "status" \in r.fields /\ r.actor \in Automatic
      <3>1. Lawful(offer.status, offer.managedBy, offer'.status)
        BY <1>2, <2>1, <2>7, Rewritten DEF Sound, Bounded
      <3>2. QED
        BY <2>4, <3>1 DEF Lawful, Gone
    <2>8. QED
      BY <2>2, <2>5, <2>6, <2>7
  <1>3. QED
    BY <1>1, <1>2

LEMMA WriteKeeps ==
  ASSUME IInv, OptOutInv, NEW p \in Callers, WriteOffer(p)
  PROVE  OptOutInv'
  <1> DEFINE r == request[p]
             w(todo) == Written(p, todo)
  <1>1. At(p, "offer") /\ Busy(p) /\ optOut' = optOut
        /\ r \in Request /\ offer \in Offer
    BY AtStep DEF WriteOffer, IInv, Documents
  <1>2. \A todo : w(todo).actor = r.actor /\ w(todo).todo = todo /\ w(todo).else = <<>>
    BY <1>1 DEF Written, Request
  <1>3. PICK todo \in {Tail(r.todo), r.else} :
            /\ Turn(p, w(todo))
            /\ Matches(p) => todo = Tail(r.todo)
            /\ ~Matches(p) => todo = r.else
    BY DEF WriteOffer
  <1> HIDE DEF w
  <1>4. CASE ~Leaving(p)
    <2>1. r.actor \notin Deciders => (Gone => Gone')
      BY <1>4, WriteKeepsGone
    <2>2. QED
      BY <1>1, <1>2, <1>3, <1>4, <2>1, TurnKeeps
  <1>5. CASE Leaving(p)
    <2>1. /\ Tail(r.todo) \in Seq(AfterRemoval) /\ r.else \in Seq(AfterRemoval)
          /\ r.fields = {"status"} /\ r.new.status = "removed"
          /\ r.status = Stored /\ r.manager = {"scraper"}
      BY <1>1, <1>5 DEF OptOutInv, Removing, At, Busy
    <2>2. todo \in Seq(AfterRemoval) /\ <<>> \in Seq(AfterRemoval)
      <3>1. todo = Tail(r.todo) \/ todo = r.else
        OBVIOUS
      <3>2. todo \in Seq(AfterRemoval)
        BY <2>1, <3>1, Zenon
      <3>3. QED
        BY <3>2
    <2>3. todo # <<>> => Head(todo) \in AfterRemoval /\ Tail(todo) \in Seq(AfterRemoval)
      BY <2>2, HeadTailProperties
    <2>4. Removing(w(todo))
      BY <1>2, <2>2, <2>3 DEF Removing, AfterRemoval
    <2>5. Gone'
      <3>1. CASE Matches(p)
        <4>1. offer'.status = "removed"
          BY <2>1, <3>1, Rewritten
        <4>2. QED
          BY <4>1 DEF Gone, Shown, Public
      <3>2. CASE ~Matches(p)
        <4>1. offer.status = "none" \/ offer.managedBy = "merchant"
          BY <1>1, <2>1, <3>2 DEF Matches, Offer, Statuses, Managers
        <4>2. offer' = offer
          BY <3>2 DEF WriteOffer
        <4>3. QED
          BY <4>1, <4>2 DEF Gone, Shown, Public
      <3>3. QED
        BY <3>1, <3>2
    <2>6. w(todo).actor = "optOut"
      BY <1>2, <1>5 DEF Leaving
    <2>7. QED
      BY <1>1, <1>3, <1>5, <2>4, <2>5, <2>6, LeaverKeeps
  <1>6. QED
    BY <1>4, <1>5

-----------------------------------------------------------------------------
(* Every step.                                                              *)

LEMMA ProceedKeeps ==
  ASSUME IInv, OptOutInv, NEW p \in Callers, Proceed(p)
  PROVE  OptOutInv'
  BY WriteKeeps, CountsKeep, FinishKeeps, OtherStepsKeep, JobStepsKeep, CheckStepsKeep,
     ReportStepsKeep
  DEF Proceed

LEMMA CrashKeeps ==
  ASSUME IInv, OptOutInv, NEW p \in Callers, Crash(p)
  PROVE  OptOutInv'
  <1>1. request' = [request EXCEPT ![p] = Idle] /\ request \in [Callers -> Request]
        /\ optOut' = optOut /\ (Gone => Gone')
    BY DEF Crash, IInv, Requests, docs, history, Gone
  <1>2. Idle.todo = <<>> /\ Idle.actor = "none"
    BY DEF Idle
  <1>3. QED
    BY <1>1, <1>2, OthersKeep DEF People

LEMMA BesideRequestsKeeps ==
  ASSUME IInv, OptOutInv,
         OfferStarts \/ OfferEnds \/ (\E c \in Cases : Appeal(c)) \/ UNCHANGED vars
  PROVE  OptOutInv'
  <1>1. request' = request /\ optOut' = optOut
    BY DEF OfferStarts, OfferEnds, Appeal, vars, docs, history
  <1>2. offer'.status = offer.status /\ offer'.managedBy = offer.managedBy
    BY DEF OfferStarts, OfferEnds, Appeal, vars, docs, IInv, Documents, Offer
  <1>3. Gone <=> Gone'
    BY <1>2 DEF Gone
  <1>4. QED
    BY <1>1, <1>3 DEF OptOutInv, Busy, Leaving, Removing

LEMMA OptOutStep ==
  ASSUME IInv, OptOutInv, [Next]_vars
  PROVE  OptOutInv'
  <1>1. CASE Next
    BY <1>1, AskKeeps, ProceedKeeps, CrashKeeps, BesideRequestsKeeps DEF Next
  <1>2. CASE UNCHANGED vars
    BY <1>2, BesideRequestsKeeps
  <1>3. QED
    BY <1>1, <1>2

\* Once a website has opted out with no person at work beside it, whatever checks,
\* jobs, reports and redemptions had read before, the offer imported from it is on
\* the site again only in the business's hands.
THEOREM OptedOutStaysOut == Spec => []OptOutHolds
  <1>1. Init => OptOutInv
    BY InitOptOutInv
  <1>2. IInv /\ OptOutInv /\ [Next]_vars => OptOutInv'
    BY OptOutStep
  <1>3. OptOutInv => OptOutHolds
    BY OptOutInvImplies
  <1>4. QED
    BY <1>1, <1>2, <1>3, Invariant, PTL DEF Spec
=============================================================================
