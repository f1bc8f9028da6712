---------------------------- MODULE Subscriptions ----------------------------
(***************************************************************************)
(* The plans of one business: Stripe's subscriptions, the documents that    *)
(* copy them, the owner's, admins' and jobs' requests that call Stripe and   *)
(* then save the copy, and the webhook that applies Stripe's events.        *)
(*                                                                         *)
(* An event carries a snapshot of its subscription.  Stripe delivers events *)
(* in any order, and several webhook requests run at once.  Every handler   *)
(* loads a document and saves, some awaits later, the paths it changed.     *)
(***************************************************************************)
EXTENDS Naturals, Sequences, FiniteSets, SequencesExt

CONSTANTS
    Callers,      \* requests, webhook deliveries and jobs in progress
    MaxSubs,      \* bound: subscriptions and complimentary plans ever begun
    MaxRequests,  \* bound: requests and jobs ever begun, deliveries apart
    MaxInvoices,  \* bound: charges that fail and renewals that are paid at once
    MaxMishaps,   \* bound: processes that die and calls to Stripe that fail
    MaxTangles    \* bound: events of one subscription, or two people's requests
                  \* about one, that are not handled one after the other

ASSUME SubscriptionConstants ==
    /\ MaxSubs \in Nat
    /\ MaxRequests \in Nat
    /\ MaxInvoices \in Nat
    /\ MaxMishaps \in Nat
    /\ MaxTangles \in Nat

Subs     == 1 .. MaxSubs
Plans    == 1 .. 2                        \* paid plans, the dearer last
Granting == {"active", "past_due"}        \* PLAN_GRANTING_STATUSES, trials as active

VARIABLES
    remote,     \* Stripe's subscriptions; "open" is a checkout not paid yet
    sub,        \* the Subscription documents
    events,     \* Stripe's events of each that have not been delivered
    request,    \* what each caller is doing
    begun, invoices, mishaps, tangles,  \* for the bounds
    lost,       \* history: an event died with its handler, or a cancel at Stripe failed
    overlapped, \* history: two plans were activated at once
    overtaken   \* history: subscriptions of which an event that tells the plan was
                \* handled while another was on its way or somebody was changing it

bounds  == <<begun, invoices, mishaps, tangles>>
history == <<lost, overlapped, overtaken>>
vars    == <<remote, sub, events, request, bounds, history>>

\* pastDueSince: not set, not set and nothing saved for 14 days, lately, 14 days ago.
Since  == {"no", "lapsed", "fresh", "old"}
Remote == [status : {"none", "open", "canceled"} \cup Granting, plan : Plans,
           ending : BOOLEAN]
Doc    == [status : {"none", "cancelled"} \cup Granting, plan : Plans,
           pending : Plans \cup {0}, ending : BOOLEAN, comp : BOOLEAN, since : Since]
Event  == [type : {"completed", "updated", "deleted", "paid", "failed"},
           status : {"canceled"} \cup Granting, plan : Plans, ending : BOOLEAN]
Paths  == {"status", "plan", "pending", "ending", "since"}
Steps  == {"price", "ending", "change", "cancel", "save", "others", "replace", "end", "create"}

Request == [todo : Seq(Steps), by : {"none", "person", "hook", "job"}, id : Subs \cup {0},
            new : Doc, paths : SUBSET Paths, plan : Plans, ending : BOOLEAN,
            others : SUBSET Subs, other : Subs \cup {0}]

TypeOK ==
    /\ remote \in [Subs -> Remote]
    /\ sub \in [Subs -> Doc]
    /\ events \in [Subs -> Seq(Event)]
    /\ request \in [Callers -> Request]
    /\ begun \in 0 .. MaxRequests
    /\ invoices \in 0 .. MaxInvoices
    /\ mishaps \in 0 .. MaxMishaps
    /\ tangles \in 0 .. MaxTangles
    /\ lost \in BOOLEAN /\ overlapped \in BOOLEAN
    /\ overtaken \subseteq Subs

NoDoc == [status |-> "none", plan |-> 1, pending |-> 0, ending |-> FALSE,
          comp |-> FALSE, since |-> "no"]

Idle == [todo |-> <<>>, by |-> "none", id |-> 0, new |-> NoDoc, paths |-> {}, plan |-> 1,
         ending |-> FALSE, others |-> {}, other |-> 0]

\* The business has no plan yet, or the one it bought first.
Init ==
    /\ \E bought \in BOOLEAN, plan \in Plans :
         LET has(k) == bought /\ k = 1
         IN  /\ remote = [k \in Subs |-> [status |-> IF has(k) THEN "active" ELSE "none",
                             plan |-> IF has(k) THEN plan ELSE 1, ending |-> FALSE]]
             /\ sub = [k \in Subs |-> IF has(k) THEN [NoDoc EXCEPT !.status = "active",
                                                                  !.plan = plan]
                                      ELSE NoDoc]
    /\ events = [k \in Subs |-> <<>>]
    /\ request = [p \in Callers |-> Idle]
    /\ begun = 0 /\ invoices = 0 /\ mishaps = 0 /\ tangles = 0
    /\ lost = FALSE /\ overlapped = FALSE /\ overtaken = {}

Busy(p) == request[p].todo # <<>>
At(p, step) == Busy(p) /\ Head(request[p].todo) = step
Grants(k) == sub[k].status \in Granting

-----------------------------------------------------------------------------
(* Stripe.                                                                  *)

Sent(k, types, r) ==
    [events EXCEPT ![k] = @ \o [i \in DOMAIN types |->
        [type |-> types[i], status |-> r.status, plan |-> r.plan, ending |-> r.ending]]]

Becomes(k, r, types) ==
    /\ remote' = [remote EXCEPT ![k] = r]
    /\ events' = Sent(k, types, r)

PayCheckout(k) ==
    /\ remote[k].status = "open"
    /\ Becomes(k, [remote[k] EXCEPT !.status = "active"], <<"completed">>)
    /\ UNCHANGED <<sub, request, bounds, history>>

\* The charge of a renewal, or another try at one that failed.
ChargeFails(k) ==
    /\ remote[k].status \in Granting
    /\ invoices < MaxInvoices
    /\ invoices' = invoices + 1
    /\ Becomes(k, [remote[k] EXCEPT !.status = "past_due"],
               IF remote[k].status = "active" THEN <<"updated", "failed">> ELSE <<"failed">>)
    /\ UNCHANGED <<sub, request, begun, mishaps, tangles, history>>

ChargePaid(k) ==
    /\ remote[k].status \in Granting
    /\ invoices' = invoices + IF remote[k].status = "past_due" THEN 0 ELSE 1
    /\ invoices' <= MaxInvoices
    /\ Becomes(k, [remote[k] EXCEPT !.status = "active"], <<"updated", "paid">>)
    /\ UNCHANGED <<sub, request, begun, mishaps, tangles, history>>

\* The period of a cancelled subscription is over, or Stripe gives up charging.
PeriodEndsAtStripe(k) ==
    /\ remote[k].status \in Granting
    /\ remote[k].ending \/ remote[k].status = "past_due"
    /\ Becomes(k, [remote[k] EXCEPT !.status = "canceled"], <<"deleted">>)
    /\ UNCHANGED <<sub, request, bounds, history>>

\* Fourteen days: by then every event and request is over.
TimePasses ==
    /\ \A p \in Callers : ~Busy(p)
    /\ \A k \in Subs : events[k] = <<>>
    /\ sub' = [k \in Subs |-> [sub[k] EXCEPT !.since =
                    IF @ = "fresh" THEN "old"
                    ELSE IF @ = "no" /\ sub[k].status = "past_due" THEN "lapsed" ELSE @]]
    /\ sub' # sub
    /\ UNCHANGED <<remote, events, request, bounds, history>>

-----------------------------------------------------------------------------
(* Requests.                                                                *)

Turn(p, r) == request' = [request EXCEPT ![p] = IF r.todo = <<>> THEN Idle ELSE r]
After(p) == [request[p] EXCEPT !.todo = Tail(@)]
Advance(p) == Turn(p, After(p))

Tangled(so) ==
    IF so THEN tangles < MaxTangles /\ tangles' = tangles + 1 ELSE UNCHANGED tangles

Begin(p, r) ==
    /\ ~Busy(p)
    /\ begun < MaxRequests
    /\ begun' = begun + 1
    /\ Turn(p, r)
    /\ Tangled(\E q \in Callers : r.id # 0 /\ request[q].id = r.id
                                  /\ request[q].by \in {"person", "job"})
    /\ UNCHANGED <<remote, sub, events, invoices, mishaps, history>>

\* A request or job about k that will save the paths of new that differ.
About(k, by, new, todo) ==
    [Idle EXCEPT !.todo = todo, !.by = by, !.id = k, !.new = new,
                 !.paths = {f \in Paths : new[f] # sub[k][f]},
                 !.plan = new.plan, !.ending = new.ending]

\* The next subscription or complimentary plan to begin.
Unused(k) == remote[k].status = "none" /\ sub[k].status = "none"
IsNext(k) == Unused(k) /\ \A j \in 1 .. k - 1 : ~Unused(j)

\* checkout, for a business that pays for no plan.
Checkout(k, plan) ==
    /\ \A j \in Subs : Grants(j) => sub[j].comp
    /\ IsNext(k)
    /\ begun < MaxRequests
    /\ begun' = begun + 1
    /\ remote' = [remote EXCEPT ![k].status = "open", ![k].plan = plan]
    /\ UNCHANGED <<sub, events, request, invoices, mishaps, tangles, history>>

\* changePlan: an upgrade counts now, a downgrade waits; Stripe has its price now.
ChangePlan(p) ==
    \E k \in Subs, plan \in Plans :
        /\ Grants(k) /\ ~sub[k].comp /\ plan # sub[k].plan
        /\ Begin(p, [About(k, "person",
                       IF plan > sub[k].plan
                       THEN [sub[k] EXCEPT !.plan = plan, !.pending = 0, !.ending = FALSE]
                       ELSE [sub[k] EXCEPT !.pending = plan, !.ending = FALSE],
                       <<"change", "save">>) EXCEPT !.plan = plan])

\* cancel by the owner, or by an admin, who leaves a pending downgrade.
Cancel(p) ==
    \E k \in Subs : \E pending \in {0, sub[k].pending} :
        /\ Grants(k)
        /\ Begin(p, About(k, "person", [sub[k] EXCEPT !.ending = TRUE, !.pending = pending],
                       IF sub[k].comp THEN <<"save">> ELSE <<"ending", "save">>))

\* resume: Stripe's price is put back, if it was changed, then the ending undone.
Resume(p) ==
    \E k \in Subs :
        /\ Grants(k)
        /\ Begin(p, About(k, "person", [sub[k] EXCEPT !.ending = FALSE, !.pending = 0],
                       IF sub[k].comp THEN <<"save">>
                       ELSE IF sub[k].pending # 0 THEN <<"price", "ending", "save">>
                       ELSE <<"ending", "save">>))

\* setPlan by an admin: a plan at once, or a complimentary one.
SetPlan(p) ==
    \/ \E k \in Subs, plan \in Plans :
        /\ Grants(k) /\ ~sub[k].comp
        /\ Begin(p, About(k, "person", [sub[k] EXCEPT !.plan = plan, !.pending = 0],
                       <<"price", "save">>))
    \/ \E plan \in Plans :
        Begin(p, [Idle EXCEPT !.todo = <<"others">>, !.by = "person",
                              !.new = [NoDoc EXCEPT !.status = "active", !.plan = plan,
                                                    !.comp = TRUE]])

EndsNow(p, by, k) ==
    Begin(p, About(k, by, [sub[k] EXCEPT !.status = "cancelled"],
                   IF sub[k].comp THEN <<"save">> ELSE <<"cancel", "save">>))

\* cancelSubscription, immediately.
AdminEnds(p) == \E k \in Subs : Grants(k) /\ EndsNow(p, "person", k)

\* The job failedPayments, for one subscription: without pastDueSince, by updatedAt.
EndUnpaid(p) ==
    \E k \in Subs : /\ sub[k].status = "past_due"
                    /\ sub[k].since \in {"old", "lapsed"}
                    /\ EndsNow(p, "job", k)

\* Mutant: the plan becomes the one that waits though none does.
DueUnchecked(k) == ~sub[k].ending
Due(k) == ~sub[k].ending /\ sub[k].pending # 0

\* The job periodEnds, for one subscription.  currentPeriodEnd is left out: the job may
\* find a period over at any time, also one that a renewal's event has moved on since.
PeriodEnds(p) ==
    \E k \in Subs :
        /\ sub[k].status = "active"
        /\ IF sub[k].comp THEN EndsNow(p, "job", k)
           ELSE /\ Due(k)
                /\ Begin(p, About(k, "job", [sub[k] EXCEPT !.plan = sub[k].pending, !.pending = 0],
                               <<"save">>))

\* subscriptions.update; of a cancelled one it fails, and the request with it.
UpdateStripe(p) ==
    LET r == request[p]
    IN  \E step \in {"price", "ending", "change"} :
        /\ At(p, step)
        /\ IF remote[r.id].status \in Granting
           THEN /\ Becomes(r.id, [remote[r.id] EXCEPT
                             !.plan = IF step = "ending" THEN @ ELSE r.plan,
                             !.ending = IF step = "price" THEN @ ELSE r.ending], <<"updated">>)
                /\ Advance(p)
           ELSE Turn(p, Idle) /\ UNCHANGED <<remote, events>>
        /\ UNCHANGED <<sub, bounds, history>>

\* subscriptions.cancel: a failure of it is logged, and its caller goes on.
TryToEnd(k) ==
    \/ /\ IF remote[k].status \in Granting
          THEN Becomes(k, [remote[k] EXCEPT !.status = "canceled"], <<"deleted">>)
          ELSE UNCHANGED <<remote, events>>
       /\ UNCHANGED <<mishaps, lost>>
    \/ /\ remote[k].status \in Granting
       /\ mishaps < MaxMishaps
       /\ mishaps' = mishaps + 1
       /\ lost' = TRUE
       /\ UNCHANGED <<remote, events>>

CancelStripe(p) ==
    /\ At(p, "cancel")
    /\ TryToEnd(request[p].id)
    /\ Advance(p)
    /\ UNCHANGED <<sub, begun, invoices, tangles, overlapped, overtaken>>

\* save writes the paths the handler changed, and updatedAt when it changed any.
Saved(k, new, paths) ==
    [f \in DOMAIN sub[k] |->
        IF f \in paths THEN new[f]
        ELSE IF f = "since" /\ paths # {} /\ sub[k].since = "lapsed" THEN "no" ELSE sub[k][f]]

Save(p) ==
    /\ At(p, "save")
    /\ sub' = [sub EXCEPT ![request[p].id] =
                    Saved(request[p].id, request[p].new, request[p].paths)]
    /\ Advance(p)
    /\ UNCHANGED <<remote, events, bounds, history>>

-----------------------------------------------------------------------------
(* The webhook.                                                             *)

Mapped(status) == IF status = "canceled" THEN "cancelled" ELSE status

\* What an event makes of the document of its subscription.
\* Mutant: the webhook does not learn that the plan was cancelled or resumed.
UpdatedNotEnding(k, e) ==
    [sub[k] EXCEPT !.status = Mapped(e.status),
                   !.plan = IF e.plan \in {sub[k].plan, sub[k].pending} THEN @ ELSE e.plan]

\* Mutant: the plan is always the one of Stripe's price.
UpdatedAtOnce(k, e) ==
    [sub[k] EXCEPT !.status = Mapped(e.status), !.ending = e.ending, !.plan = e.plan]

\* Mutant: the plan is never the one of Stripe's price.
UpdatedNoPlan(k, e) == [sub[k] EXCEPT !.status = Mapped(e.status), !.ending = e.ending]

Updated(k, e) ==
    [sub[k] EXCEPT !.status = Mapped(e.status), !.ending = e.ending,
                   !.plan = IF e.plan \in {sub[k].plan, sub[k].pending} THEN @ ELSE e.plan]

Applied(k, e) ==
    CASE e.type = "updated" -> Updated(k, e)
      [] e.type = "deleted" -> [sub[k] EXCEPT !.status = "cancelled"]
      [] e.type = "paid"    -> IF sub[k].status = "past_due"
                               THEN [sub[k] EXCEPT !.status = "active", !.since = "no"]
                               ELSE sub[k]
      [] e.type = "failed"  -> [sub[k] EXCEPT !.status = "past_due",
                                   !.since = IF @ \in {"no", "lapsed"} THEN "fresh" ELSE @]

\* checkout.session.completed asks Stripe for the status the subscription has now.
Handling(k, e) ==
    IF e.type = "completed"
    THEN [Idle EXCEPT !.todo = <<"others">>, !.by = "hook", !.id = k,
                      !.new = [NoDoc EXCEPT !.status = Mapped(remote[k].status), !.plan = e.plan]]
    ELSE IF sub[k].status = "none" THEN Idle
    ELSE About(k, "hook", Applied(k, e), <<"save">>)

\* The events of a subscription tell its plan, those of its invoices do not.
TellsPlan(e) == e.type \notin {"paid", "failed"}

\* What event i of k tells is about to change, or has changed.
Stale(k, i) ==
    /\ TellsPlan(events[k][i])
    /\ \/ \E j \in DOMAIN events[k] \ {i} : TellsPlan(events[k][j])
       \/ \E q \in Callers : request[q].by # "hook" /\ request[q].id = k

\* processEvent: any event may come next; each is handled once.
Deliver(p, k, i) ==
    /\ ~Busy(p)
    /\ i \in DOMAIN events[k]
    /\ Turn(p, Handling(k, events[k][i]))
    /\ events' = [events EXCEPT ![k] = RemoveAt(@, i)]
    /\ Tangled(i > 1 \/ \E q \in Callers : request[q].by = "hook" /\ request[q].id = k)
    /\ overtaken' = IF Stale(k, i) THEN overtaken \cup {k} ELSE overtaken
    /\ UNCHANGED <<remote, sub, begun, invoices, mishaps, lost, overlapped>>

\* Mutant: a complimentary plan is left beside the one that was bought.
OthersPaid(p) == {k \in Subs : Grants(k) /\ ~sub[k].comp} \ {request[p].id}
Others(p) == {k \in Subs : Grants(k)} \ {request[p].id}

\* activate: the business's other plans, as they are now.
FindOthers(p) ==
    /\ At(p, "others")
    /\ LET others == Others(p)
       IN  Turn(p, [request[p] EXCEPT !.others = others,
                        !.todo = IF others = {} THEN <<"create">> ELSE <<"replace">>])
    /\ overlapped' = (overlapped \/ \E q \in Callers : \E step \in {"replace", "end", "create"} :
                                        At(q, step))
    /\ UNCHANGED <<remote, sub, events, bounds, lost, overtaken>>

CancelOther(p) ==
    /\ At(p, "replace")
    /\ \E k \in request[p].others :
        /\ Turn(p, [request[p] EXCEPT !.other = k, !.todo = <<"end">>])
        /\ TryToEnd(k)
    /\ UNCHANGED <<sub, begun, invoices, tangles, overlapped, overtaken>>

EndOther(p) ==
    /\ At(p, "end")
    /\ LET k    == request[p].other
           left == request[p].others \ {k}
       IN  /\ sub' = [sub EXCEPT ![k] = Saved(k, [@ EXCEPT !.status = "cancelled"], {"status"})]
           /\ Turn(p, [request[p] EXCEPT !.others = left, !.other = 0,
                           !.todo = IF left = {} THEN <<"create">> ELSE <<"replace">>])
    /\ UNCHANGED <<remote, events, bounds, history>>

Create(p) ==
    /\ At(p, "create")
    /\ \E k \in Subs :
        /\ IF request[p].id = 0 THEN IsNext(k) ELSE k = request[p].id
        /\ sub' = [sub EXCEPT ![k] = request[p].new]
    /\ Turn(p, Idle)
    /\ UNCHANGED <<remote, events, bounds, history>>

\* The process dies, or a person's call to Stripe fails.  An event that was being
\* handled stays recorded, and Stripe's next delivery of it is taken for a duplicate.
Die(p) ==
    /\ Busy(p)
    /\ mishaps < MaxMishaps
    /\ mishaps' = mishaps + 1
    /\ lost' = (lost \/ request[p].by = "hook")
    /\ Turn(p, Idle)
    /\ UNCHANGED <<remote, sub, events, begun, invoices, tangles, overlapped, overtaken>>

-----------------------------------------------------------------------------
Stripe ==
    \/ TimePasses
    \/ \E k \in Subs : \/ PayCheckout(k) \/ ChargeFails(k) \/ ChargePaid(k)
                       \/ PeriodEndsAtStripe(k)

Ask(p) ==
    \/ ChangePlan(p) \/ Cancel(p) \/ Resume(p) \/ SetPlan(p) \/ AdminEnds(p)
    \/ EndUnpaid(p) \/ PeriodEnds(p)

Handle(p) ==
    \/ \E k \in Subs : \E i \in DOMAIN events[k] : Deliver(p, k, i)
    \/ FindOthers(p) \/ CancelOther(p) \/ EndOther(p) \/ Create(p)

Next ==
    \/ Stripe
    \/ \E k \in Subs, plan \in Plans : Checkout(k, plan)
    \/ \E p \in Callers : \/ Ask(p) \/ Handle(p)
                          \/ UpdateStripe(p) \/ CancelStripe(p) \/ Save(p) \/ Die(p)

Spec == Init /\ [][Next]_vars
-----------------------------------------------------------------------------
(* Properties.                                                              *)

Clean == ~lost /\ tangles = 0
Settled == (\A p \in Callers : ~Busy(p)) /\ (\A k \in Subs : events[k] = <<>>)

\* Once all events and requests are over, each document has Stripe's status of its
\* subscription and says whether it is ending, though a request died between Stripe and
\* its save (subscription.schema: webhooks keep this copy in step).
CopyInStep ==
    Clean /\ Settled =>
        \A k \in Subs : ~sub[k].comp =>
            /\ sub[k].status = (IF remote[k].status = "open" THEN "none"
                                ELSE Mapped(remote[k].status))
            /\ Grants(k) => sub[k].ending = remote[k].ending

\* Stripe's price is then the plan's or the one that waits, unless a request died or a
\* stale event was handled.
PriceInStep ==
    Clean /\ Settled /\ mishaps = 0 =>
        \A k \in Subs \ overtaken : Grants(k) /\ ~sub[k].comp =>
            remote[k].plan \in {sub[k].plan, sub[k].pending}

\* Once all is over, the business has one plan, however many were bought and given,
\* unless two of them were activated at once (activate).
AtMostOnePlan ==
    Clean /\ Settled /\ ~overlapped => Cardinality({k \in Subs : Grants(k)}) <= 1

\* The webhook lowers no plan: a downgrade that was asked for waits for the period's
\* end.  A stale event may lower it, and one of a subscription that is ending
\* (CancelledRunsOn).
WebhookLowersNoPlan ==
    [][\A k \in Subs, p \in Callers :
         /\ Clean /\ mishaps = 0 /\ k \notin overtaken
         /\ At(p, "save") /\ request[p].by = "hook" /\ request[p].id = k
         /\ request'[p] # request[p]
         /\ ~request[p].new.ending
         => sub'[k].plan >= sub[k].plan]_vars

\* subscription.schema on cancelAtPeriodEnd: the plan runs to the end of the period.
\* The webhook takes the dearer plan of a cancelled downgrade away at once, with every
\* request and event handled in turn.
CancelledRunsOn ==
    [][\A k \in Subs, p \in Callers :
         /\ Clean /\ mishaps = 0 /\ overtaken = {}
         /\ At(p, "save") /\ request[p].by = "hook" /\ request[p].id = k
         /\ request'[p] # request[p]
         /\ sub[k].ending
         => sub'[k].plan >= sub[k].plan]_vars
=============================================================================
