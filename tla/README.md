# TruOffers: specifications, checks and proofs

TruOffers is a marketplace for local offers. A NestJS backend (`src/backend`) serves the
API, keeps everything in MongoDB and runs, partly in the same process and partly in worker
processes, an importer that crawls the websites of businesses, extracts their offers and
keeps rechecking them. BullMQ on Redis carries the importer's work. A Next.js frontend
(`src/frontend`) only calls the API.

This directory holds TLA+ modules written from that code, TLC configurations that check
them on small instances, and proofs that hold for every instance.

    tlc -workers 2 -config MCImportRunsRaces.cfg MCImportRuns.tla
    tlc -workers 2 -config MCClaimsTeam.cfg MCClaims.tla
    tlapm ClaimsProofs.tla

## 1. Inventory

All paths are below `src/backend/src/`. "Hard" names what makes a component difficult to
test, "correct" the properties that make it right.

**Import runs** (`scraper/pipeline/stage-runner.ts`, `scraper/queue/*`, `schemas/import-job.schema.ts`).
State: an `ImportJob` record per stage of a run (status, attempts, `activeKey`), the BullMQ
jobs of three stage queues that point at the records, the dead-letter queue, and two Redis
flags, `scraper:halt` and `scraper:cancel:run:<id>`. Operations: start a run or a single job,
cancel, retry, emergency stop, resume (`RunsService`, called by the admin API); a tick every
five minutes that starts due checks (`RecheckSchedulerService`); executing a stage and
handling its errors (`StageRunner`). Hard: every decision is taken on a read that is older
than the write that follows it; the record and the BullMQ job are two stores that no
transaction ties together; BullMQ delivers a job again after a crash; a cancel arrives over
pub/sub, which may be missed. Correct: a stage is worked by one worker at a time, in order,
once; one active job per stage and URL; a cancelled run dies down; no stage is lost; what
BullMQ knows is finished in the end.

**Check scheduling** (`scraper/lifecycle/recheck.service.ts`, `scraper/queue/recheck-scheduler.service.ts`).
State: `ScrapedWebsite.nextCheckAt`. Set by the last stage, by a stage that holds its run and
by a failure; pushed back provisionally by the tick; read by the tick. Hard: the tick's write
races the run it started. Correct: a website is neither checked twice at once nor never again.

**Pipeline stages** (`scraper/pipeline/*`). Discover, fetch, render, extract, match, score and
store. State: drafts and captured pages of a run. Hard: a stage may be repeated from the
start at any time. Correct: repeating a stage changes nothing that the first attempt has done.

**Offers** (`offers/*`, `common/offer-counts.ts`) and **imported offers**
(`scraper/lifecycle/*`, `scraper/review/*`, `schemas/offer-lifecycle.guard.ts`). State: an offer's
status, who manages it (the scraper or the merchant), how many checks in a row missed it; the
candidate it came from; its revisions; `Business.activeOfferCount`. Operations: the owner's (edit,
submit, pause, resume, remove, confirm), customers' (redeem), admins' (approve, reject, pause,
set the expiry; approve a candidate, apply or discard a revision, decide an expiry review), the
jobs' (publish scheduled offers, expire, review stale imports, recount), a check's (seen,
changed, absent) and the opt-out of a website. Hard: people load and save, jobs and checks write
with the state they saw in the filter, and any of them may come between; the counter is counted
and written in two steps by many callers. Correct: only reviewed offers are public; an import
disappears only by review or after two absent checks; an opt-out stays; the counter settles.

**Claims** (`claims/*`, `businesses/businesses.service.ts`, `common/business-access.ts`,
`admin/admin-businesses.service.ts`). State: claims (draft, pending, info_requested, disputed,
approved, rejected, withdrawn, expired) with their phone check, and the listing's status, members
and roles, `ownerId`, level of verification, `frozen` and `disputeClaimId`; team invitations.
Operations: start a claim, verify by phone, submit, ask for more, approve, reject, withdraw,
expire by cron; invite, accept, change and remove members; change the owner. Hard: two claimants
verify at the same moment; an admin approves what a claimant withdraws; the team is loaded,
changed and saved by several requests. Correct: a claimed listing has an owner; a claim that fails
leaves its claimant nothing; a dispute freezes the listing until it is decided, and no longer.

**Promotions** (`promotions/*`, with `billing.service.ts` and `billing-admin.service.ts`).
State: bookings of a limited number of slots, with a 30-minute hold while the payment is
pending; the payment of a booking; a record per Stripe event. Operations: book (with money or
a plan credit), pay (in mock mode, or reported by Stripe's webhook), abandon, cancel with a
refund, reject, approve, grant; a cron every five minutes starts and ends bookings and releases
those that stay unpaid. Hard: slots and credits are counted and then booked; every save is
blind to what happened since the load; a payment arrives after its hold or after the booking
was cancelled; the webhook is retried, duplicated and may fail anywhere. Correct: no more
bookings hold a slot than there are; what runs was paid for; what was paid for is booked or
refunded; what was refunded does not run.

**Subscriptions** (`billing/*`, `plans/*`). State: Stripe's subscriptions and the documents that
copy them: status, plan, a downgrade that waits, whether it is ending, since when it is unpaid.
Operations: check out, change the plan, cancel, resume, an admin's plan (paid or complimentary),
end at once, the jobs for ended periods and unpaid plans, and the webhook. Hard: every event has
an older snapshot than the copy it is applied to; Stripe is changed first and the copy saved
later; two plans may be activated at once. Correct: the copy follows Stripe; one plan at a time;
nobody loses a plan he has paid for.

**Reports** (`reports/*`). State: a case per reported target with its reports, the
target's status before it was hidden, appeals, strikes. Hard: reports arriving together
(automatic hiding at three reporters in seven days); restoring a stale status. Correct: what is
hidden has a case; what is dismissed returns to where it was.

**Crawl safety** (`scraper/safety/*`). State: Redis counters per domain (rate, page budget),
robots rules, circuit breakers. Hard: shared by concurrent stages. Correct: budgets hold.

**Pure algorithms** (`scraper/extraction`, `matching`, `scoring`, `fingerprinting`). Hard:
boundaries of thresholds and dates. Correct: agreement with a plain definition.

**Around the core**: accounts and access (`auth`, `users`), food orders, campaigns, support,
reviews, content, search, analytics, e-mail, storage, notifications, settings, rendering by
Chromium, retention and outreach: request-local checks, record keeping and I/O. Not modelled.

How they meet: the tick and the admin API start import runs; a run's last stage stores candidates
and reports a check to the offer; an approved candidate becomes an offer; a claim gives a
business its owner, who may then manage its offers; reports hide offers; the webhook feeds both
bookings and subscriptions. They share documents, not calls: apart from the queues, every meeting
is a document in MongoDB that one loads while another saves it.

`PROJECT.json` lists every component with its status, and under `hazards` each place where
one of the difficulties bites.

## 2. Plan

1. `ImportRuns` with `RunContract`: the code's only distributed protocol. Done, with its contract,
   liveness under fairness and eleven theorems; every safety property its passing runs check is proved.
2. `Promotions`: booking, holds, late payments, refunds. Done, with six theorems.
3. `Claims`: competing claims, disputes, the team. Done, with six theorems.
4. `Offers`: a public offer and everybody who changes it, imports, reports and the opt-out. Done,
   with six theorems.
5. `Subscriptions`: the copy of Stripe's subscriptions under Stripe's events. Done, with five
   theorems; every safety property its passing run checks is proved.

Left, in this order: liveness of the bookings under fairness of the cron and of time; strikes against a
business, as a module composed with `Offers` through decided cases; `RateLimiter` and `PageBudget`, composed
with `ImportRuns` only through its delay event; the thresholds of the scoring as operators checked against a
plain statement.

## 3. What is modelled

| module | stands for |
| --- | --- |
| `ImportRuns` | records, queues, flags, workers, admin requests, scheduler |
| `RunContract` | what a run promises, without any of these |
| `Promotions` | bookings of one product, payments, Stripe's events, the cron |
| `Claims` | claims on one listing, the decisions on them, its team and owner |
| `Offers` | one offer, its candidate, revisions and report cases, and the business's count |
| `Subscriptions` | one business's plans at Stripe and in the database, and the events between |
| `MC...` and the `.cfg` files | instances for TLC |
| `ImportRunsProofs` | the inductive invariant, type correctness, who keeps a (stage, URL) slot |
| `ImportRunsStepProofs` | the kinds of steps, what holds through every mishap, late stages |
| `ImportRunsContractProofs` | what holds between mishaps: the contract, and that nothing is left behind |
| `PromotionsProofs` | the inductive invariant, type correctness, slots, credits, payments, refunds, answered events |
| `ClaimsProofs` | the inductive invariant, type correctness, the team, its owners, who leaves it, the frozen listing |
| `OffersProofs` | the inductive invariant, type correctness, what the background may do to an offer, the opt-out |
| `OffersPlanProofs` | the steps left to requests, the business's count, checks in a row, hidden offers |
| `SubscriptionsProofs` | the inductive invariants, type correctness, the copy's status and price, one plan, what the webhook saves |

`ImportRuns` extends nothing but its instance of `RunContract`; the other modules share documents
with it only through what a check reports (`Offers!Check`) and what Stripe delivers, which each
module lets happen at any time. So each is checked against every behaviour of the others.

The modules written for requests that load and save have one shape. A request is a record: which
step comes next, what it has loaded, and what it is to write. Each database or Stripe call is a step,
so everything else may come between two of them. A Mongoose `save()` writes the paths the request
changed and nothing else, whatever the document has become; an `updateOne` or `updateMany` writes only
if its filter still matches.

### Import runs: state

| variable | code |
| --- | --- |
| `status`, `slot`, `attempts` | `ImportJob.status`, whether `activeKey` is set, `attempts` |
| `target` | the website (or single job's key) of a run; `activeKey` is stage and URL |
| `nextCheck` | `nextCheckAt`: absent, due, pushed back by the tick, set by a run |
| `halted`, `cancelled` | the two Redis flags |
| `entry`, `paused`, `deadLetter` | BullMQ's jobs, whether the queues are paused, the dead-letter queue |
| `wpc`, `wentry`, `wnext`, `aborted` | where a worker slot is in `StageRunner.process`, its BullMQ job, the stage it adds, its `AbortController` |
| `cpc`, `cjob`, `ctarget` | where a request or the tick is in `RunsService` |
| `spent` | how many of each bounded event have happened |
| `lateJobs` | history only: jobs created after their run was cancelled |

### Import runs: actions

Each `await` that reads or changes shared state ends a step, so everything else may come
between. A worker's path is the code's:

    Deliver - ReadControl - MarkRunning - (stage) - StageProceeds - CheckCancelled - CreateStage - EnqueueNext - Return
                 |                           |
                 |                           +- ScheduleNext / SingleJobEnds - CompleteLast - Return
                 |                           +- StageDelays - Delay - MoveDelayed
                 |                           +- StageStops - ReadStop - StopCancel - StopRemove - Return
                 |                           +- FailRetry - Rethrow
                 |                           +- FailForGood / FailOutOfAttempts - ScheduleAfterFailure - DeadLetter - Return
                 +- CancelSeen - Return
                 +- Delay - MoveDelayed

Requests: `StartRun`/`StartJob` - `CreateRun` - `Enqueue`, or `RunExists` - `FindRun`; `Retry` -
`Enqueue`; `CancelFlag` - `CancelJobs` - `RemovePending`; `Halt` - `PauseQueues`; `Resume` -
`ResumeQueues`. The tick: `Tick` - `StartRun` or `TickFindsRun` - ... - `MarkScheduled`.
`Crash`, `ClientCrash`, `StoreFails`, `WrapUpFails`, `ProcessThrows` and `Shutdown` may strike wherever
the code is exposed to them; `WrapUpFails` is the outage that comes after the last stage was recorded as
complete, before the run's outputs are cleared.

`RunContract` has three variables (stages completed, stages being worked, runs stopped) and
four actions. `ImportRuns` implements it with `completed` read off the records, `working`
off the workers and `stopped` being the cancel flags (`KeepsContract`).

### Import runs: assumptions and abstractions

- Jobs are numbered by run and stage. That a run has no second record of a stage is checked,
  not assumed: `StageCreatedOnce`.
- Delivery by BullMQ and `jobs.get`, which follows at once, are one step. The stage queues are
  one pool, as a worker slot may serve any of them.
- A worker's death and BullMQ's recovery of the stalled job are one step (`maxStalledCount` 1, then
  the job is failed without its record being told). Workers that lose their lock and live on
  are not modelled.
- A call to MongoDB or Redis that fails does so before it takes effect. So a job is either
  queued or not; that `Queue.add` succeeds and `attachQueue` after it fails is a listed hazard
  without a property.
- A cancel key lives seven days; within the horizon of the model it stays.
- `removePending` removes a run's waiting jobs in one step; the tick takes its batch one website at
  a time.
- What a stage reads, extracts and stores, progress, heartbeats, logs and the outputs a retry
  clears decide nothing here. `publish` setting `nextCheckAt` within a day
  (`offer-lifecycle.service.ts`) is left out.
- `startJob` is modelled for jobs without a website, as the network jobs call it.

### Promotions: state

| variable | code |
| --- | --- |
| `status`, `source`, `business`, `linked` | the fields of `Promotion`; `linked`: `paymentId` is set |
| `age` | `createdAt` against the 30-minute hold and the two hours of the cron |
| `payment` | the booking's `Payment`: absent, paid, refunded |
| `checkout` | the Stripe session: open, paid by the owner, refunded |
| `seen`, `acked` | `StripeEvent` records; events Stripe has seen answered by 2xx |
| `request` | what each caller is doing: where, on which booking, for what, for whom |
| `job` | where `PromotionsJobs.run` is and which bookings it has still to save |
| `phase` | the time: before, during or after the bookings' window |
| `setting` | `approvalRequired`; whether payments run in mock mode |
| `asked`, `mishaps` | bounds: requests begun, kinds of mishap met |
| `late`, `raced` | history only, see below |

### Promotions: actions

    Book - CountSlots - [CountCredit] - CreateBooking - OpenCheckout          (Stripe)
                                                      - PayMock - Confirm     (mock mode)
                                                      - Confirm               (plan credit)
    DeliverFresh - FindBooking - RecordPayment - Confirm - Acknowledge        (webhook)
         any of these fails: WebhookFails - Forget, and Stripe delivers again
    CancelUnpaid - SaveCancelled
    AdminCancel - [LoadPayment - [StripeRefund] - SaveRefund] - SaveCancelled
    Approve - SaveApproved          Grant - CreateGrant
    FindDue - (Activate | End)* - ReleaseUnpaid                               (cron)

`Pay`, `MirrorRefund` (Stripe's `charge.refunded`), `DeliverDuplicate`, `InsertFails`, `GrowOlder`,
`Advance`, `RequestFails` and `Crash` come at any time. `Save` is a Mongoose save: it writes the changed
paths over whatever the document has become.

`late` holds the bookings that took a slot (or, for a plan credit, a credit) which was not
counted for them just before: created on a count that another creation had overtaken (the
caller is then in `raced`), or saved as holding a slot after their hold had lapsed or they had
been dropped. The safety properties say that nothing else exceeds the limits.

### Promotions: assumptions and abstractions

- All bookings are of one product in one scope and their windows overlap: they compete for the
  same slots. The product's settings and the plan do not change, and a month does not end.
- A booking that costs money has a price above zero. Checkout sessions do not expire: one that does is
  one that is never paid.
- A failing call fails before it takes effect; a webhook that fails may do so before each step.
- Refunds happen through a cancellation. An admin who refunds a payment by itself in
  the billing pages leaves the booking as it is, by choice.
- One run of the cron at a time. Its `now` is read once, so the bookings it starts and those it
  ends come from the same reading.
- Products, calendars, placements, audit records and notifications decide nothing here.

### Claims

| variable | code |
| --- | --- |
| `claim` | the `Claim` documents: status, claimant, kind, phone check, `disputedOwnerIds`, whether its time has run out |
| `business` | the `Business` document: status, members and roles, `ownerId`, `verificationLevel`, `frozen`, `disputeClaimId` |
| `invited` | users with an open `TeamInvitation` |
| `request` | what each request or job is doing, what it has loaded, and whether the members are still those it loaded |
| `asked`, `crashes` | bounds |
| `overtaken`, `placed` | history only, see section 4 |

    Start / StartNewBusiness / StartReverification - CreateClaim
    VerifyCode - SavePhone - LoadAfterPhone - Join                      nobody else owns it
                                            - SaveDispute - Freeze      somebody does
    Submit - SaveSubmitted         RequestInfo - SaveInfoRequested
    Withdraw / Reject / Expire - SaveClosed - LoadForClose - SaveAfterClose
    Approve - LoadForApprove - SaveVerified - SaveApproved
    AcceptInvite - SaveAccepted    ChangeMember - SaveMember    ChangeOwner - SaveOwner

`Ask` is the load and the checks of an endpoint, `Proceed` every later step. A save of scalar paths leaves
the members alone (`SavePaths`); `members.push` adds an entry to whatever is there by now, so that one user
may get two (`SavePushed`, `Added`); replacing the array writes all of it, and Mongoose's version key ends
the request if the array has changed since it was loaded (`SaveMembers`).

- One listing. Claims on different listings share nothing.
- What the members array holds of a user is one of five `Entries`: nothing, an entry of either role, or
  an owner's entry behind another. `find` returns the first, `filter` takes all, `ownerCount` counts
  each. A staff entry behind another, or a third entry, never makes a difference.
- `RefuseDispute` is the `VersionError` of a dispute's save: `disputedOwnerIds` is replaced as a whole.
- Who becomes `ownerId` after an owner has left is the first owner on the list; the model lets it be any
  of them (`Heirs`).
- Documents, evidence, scores and the reminder to verify again decide nothing here. A claim
  can be submitted once its phone check has passed; what else the form asks for is left out.
- Merging listings, editing a listing, its change requests and revoking an invitation are not modelled.

### Offers

| variable | code |
| --- | --- |
| `offer` | the `Offer` document: status, origin, `managedBy`, absent checks, whether it has ended or not begun |
| `candidate`, `revision` | its `OfferCandidate` and `OfferRevision`s, by status |
| `case`, `reports` | its `ReportCase`s with `autoHidden`, `previousStatus` and appeal; open reports of different people |
| `count` | `Business.activeOfferCount`, as far as this offer counts |
| `request` | per caller: the steps it still has to do, what it writes, with which filter |
| `begun`, `crashes` | bounds |
| `misses`, `raced`, `unfound`, `crossed`, `optOut` | history only, see section 4 |

A request is its list of steps still to do, as `Recount` is part of most of them; `WriteOffer`
is the one action that writes the offer, with or without a filter (a save matches any stored status).
An owner's or admin's endpoint, a job and a check are each one action of `Ask` that loads, decides and
lists the steps:

    OwnerUpdate, ..., AdminApprove, ...      offer - count - write
    ApproveCandidate                         [create - count - write] - candidate
    ApplyRevision, DiscardRevision           offer - count - write - revision, or revision first
    Check                                    [propose] - check - [supersede] - offer - [count - write]
    FindEnded                                expire - [count - write]
    Deduplicate                              find - [candidate | store]
    ReviewStale                              [offer - count - write] - orphans - [supersede]
    OptOut                                   [offer - count - write] - supersede - done
    Report                                   report - case - distinct - [offer - hidden - count - write]
    Uphold, RejectCase, AskBusiness          [offer - count - write] - decide - reports
    DecideAppeal                             appeal - [restore - offer - count - write]

- One offer, so the count is 0 or 1. A second offer, which the dedupe key allows once the first is
  closed, is not followed.
- What a rule decides about an owner's text (held, pending, live) is any of them (`Decided`). Plan
  limits, moderation rules, flags, drafts submitted on verification, duplicates and offers merged
  into others are left out, as are the offers Foodbell mirrors.
- A check's outcome is any of seen, changed and absent: how pages are compared is not modelled.
- A case that is decided closes its reports. Strikes and cases about a business or a review are left out.
- The opt-out is one website's, once. No run of the website begins after it; one that is at its
  duplicate check goes on (`Deduplicate`), as a cancel is looked at between stages.
- The candidate is the latest of the offer: none, open, failed, approved or rejected. It is stored while
  the offer is not live, or is another's by then (`dedupeDecision`).
- `expireEnded` reads the clock once for its two queries, so no offer ends between them (`OfferEnds`).

### Subscriptions

| variable | code |
| --- | --- |
| `remote` | the subscriptions at Stripe; `open` is a checkout session not paid yet |
| `sub` | the `Subscription` documents: status, plan, `pendingPlanId`, `cancelAtPeriodEnd`, complimentary, `pastDueSince` |
| `events` | Stripe's events that have not been delivered, each with its snapshot |
| `request` | per caller: the steps left, what it saves |
| `begun`, `invoices`, `mishaps`, `tangles` | bounds |
| `lost`, `overlapped`, `overtaken` | history only, see section 4 |

    Checkout - (PayCheckout) - Deliver - FindOthers - (CancelOther - EndOther)* - Create
    ChangePlan, Cancel, Resume, SetPlan, AdminEnds, EndUnpaid, PeriodEnds:
        UpdateStripe* / CancelStripe - Save
    Deliver - Save                                     any event, in any order (MaxTangles)

Stripe's own steps (`PayCheckout`, `ChargeFails`, `ChargePaid`, `PeriodEndsAtStripe`) are modelled from the
calls and events the code uses; the module is external there. A renewal succeeds or fails, is tried again
and may fail again, until it is paid or Stripe gives up and ends the subscription.

- One business. Two plans, a cheaper and a dearer one; every other plan relates like these.
- A trial counts as active. Intervals, coupons, mock mode, plans paid elsewhere, the mirror of
  invoices, reminders, the customer portal, and the editing and migration of plans are left out.
- A handler that throws is retried by Stripe; the model has the handler that dies, whose event stays
  recorded as seen.
- `currentPeriodEnd` is left out: the hourly job may find a period over at any time (`PeriodEnds`), also
  one that a renewal's event has just moved on. So the model has more behaviours than the code there.
- Time passes (`TimePasses`) between requests, not within one: a handler takes seconds, the grace
  period 14 days.

## 4. What TLC checks

Seven runs must pass; five show that the code does something else than a comment says.

| run | allows | shows |
| --- | --- | --- |
| `races` | two runs of one website, two workers, an admin and the tick; cancel and retry, an outage, or a crash, with failures | no finished stage keeps its slot and only a cancel loses one, one URL has one active job of a stage; late stages never run; only a last attempt is dead-lettered |
| `mishaps` | a run of three stages, the second optional, or a single job; crash and cancel, cancel and retry, or stop, retry and shutdown, with delays and failures | types; one worker per stage; a stage is created once; nothing is left behind; the contract holds |
| `live` | crash, stop, resume, delay, cancel; fair | what BullMQ knows is finished; a cancelled run goes quiet |
| `booking` | a business and its admins with two requests at a time and three in all, two bookings of one slot, one credit, any one kind of mishap, as often as it likes | types; only late bookings exceed slots and credits; what is live is paid for; what was refunded is released; what Stripe takes for delivered is recorded |
| `team` | two people, two claims, two requests at a time and four in all, one of which dies | types; no verified listing orphaned but by two entries of one person, none frozen for good; claims that fail leave nothing; losers of a dispute leave; no stale copy of the team undoes anything |
| `published` | an imported or an owner's offer, two requests, jobs or checks at a time and three in all, one of which dies; a revision, a case | types; the count settles, but for an expiry the job had not foreseen; a hidden offer has its case; an opt-out holds; the background stays in its bounds; two absent checks before a review |
| `plans` | a business that buys, changes, cancels, resumes and is given plans, two subscriptions, one renewal, which succeeds or fails and is then paid or given up, a process that dies or a call that fails; each subscription's events in turn | types; the copy follows Stripe, its status and its price; one plan in the end; the webhook lowers no plan |

### Bounds

Two of each is what the hazards need: two workers to hold the same job, two runs to meet in a
slot, two requests for one to come between the other's load and save, two claimants for a dispute, two
subscriptions for a replacement. Two attempts give a retry and a last attempt. A run of `ImportRuns` lists
how often each kind of mishap may happen (`Limits`, in `MCImportRuns`), and starts with any of the lists.
One business is enough for `booking`: its limit of two lets it compete with itself.

A request more than two at a time lets a decision follow on a race: three in all for bookings and
offers, four for claims, two people's or jobs' for plans, where deliveries do not count. Larger instances
than the configurations hold have been checked to the end as well, without another result: `Claims` with
five requests on one claim and no crash (2.2 million states), and with three users on one claim (1.3 million);
`Offers` with four requests and no crash (4.0 million); `Subscriptions` with three requests (6.5 million), with
two renewals or failed charges (3.7 million), and with one tangle (2.2 million).

Deadlock is an error in `booking`, whose cron can always begin another run. Elsewhere the system rests
when nobody asks for anything, or the bound on requests is reached, so deadlock is not checked.

### Limits of the properties

Most properties name the cases in which they do not hold; the runs contain them.

*Import runs.* `OneActivePerStage` leaves out cancelled runs: `markRunning` and
`markDelayed` overwrite any status, so a job cancelled after its worker read the control state becomes
active again without its slot, and another run's job may take that slot beside it. Most properties are stated
while the system is `Calm`, and fail beyond. With an outage, a stage whose `complete` took effect and whose next
call failed is marked queued again without its slot, and a job thrown by `process` outside its
`try` uses an attempt its record never sees. When a crash between recording a failure and returning is
followed by a retry by hand, BullMQ delivers both the old and the new job. The contract fails then too
(`KeepsContract`, whose instances are `Calm`). `NoStrandedStage` fails with crashes, outages and cancels, as
the findings show.

*Promotions.* `late` holds the bookings that took a slot or credit which was not counted for them just
before. `RefundedIsReleased` does not survive a request that dies
between the refund and the save of the booking. If Stripe's refund has been made and its event
marks the payment refunded, no later cancellation gets past `refund`, which only refunds what is
paid. `AnsweredIsBooked` does not survive an event that is never processed: one whose
`stripeEvents.create` fails for another reason than a duplicate (`billing.service.ts:443`, every error counts
as one), one whose handler died, and a duplicate that is answered while the first delivery is
still running and then fails.

*Claims.* `overtaken` holds the claims that changed (status or phone check) under a request that had loaded
them, or whose closing ended with a `VersionError`; `placed` the users who owe their place on the team to an
invitation, a member's change, an admin, or a listing that was verified before their claim was closed.
`FrozenByOpenDispute`, `ClosedTakesBack` and `LosersLeave` speak of the others: a dispute withdrawn while it
is approved can leave what it gave. Two disputes on one listing also show that closing either unfreezes it
(`claims.service.ts:603`), so `FrozenByOpenDispute` says that a frozen listing has an open dispute, not the
reverse. `VerifiedKeepsOwner` speaks of verified listings only: a member of the staff who claims a listing
without owners becomes its `ownerId` and verifies his phone, but stays staff, so the listing has no owner on
its team until the claim is approved. It also leaves out the decision for somebody who is `ownerId` but off
the team: `memberRole` counts him as an owner, so `approve` does not put him back. And it leaves out a change
or removal of somebody with two entries in `members`: he passes for two owners.
Whatever else happens to people with two entries is within the property. `TeamChangesAsAsked` and
`VerifiedKeepsOwner` hold through crashes and overtaken claims.

*Offers.* `raced` records that the offer's status changed between another caller's count and its write: then
the count is wrong until the hourly recount. `unfound` records that `expireEnded` expired the offer although
its business was not among those it had found a moment before. `crossed` records that a case was decided
while a report was hiding its offer; `optOut` that a person's request was in progress beside the opt-out, or
came after it. `OptOutHolds` speaks of the offer; a candidate may be opened after the opt-out, and an admin
who then approves it brings the offer back. Beside these `CountRightWhenIdle`, `HiddenHasCase` and
`OptOutHolds` hold, and `AutomationStaysInBounds` and `ReviewAfterTwoAbsences` hold without such a limit;
all five are proved. The last one counts checks through `misses`, and a decision as a check that missed: an
admin who gives a hidden offer back, or accepts an appeal, restores the status the case remembers,
`expiry_review` too, though a check may have seen the offer since (`reports.service.ts`; it takes six
requests, so the run alone would not have shown it).

*Subscriptions.* The code handles events of one subscription in whatever order they come, and a request that
is overtaken by an event saves over it. `tangles` bounds how often that happens and `Clean` says that it has
not: events of one subscription handled in order and not at once, no two people's requests about one at a
time. Within this, events do race the requests, other subscriptions' events and each other's
activations (`overlapped`). `overtaken` holds the subscriptions of which an event that tells the plan was
stale when it was handled: another such event was on its way already, or a person or job was changing the
subscription. Events of invoices tell no plan and overtake nothing, so renewals, failed charges and retries are
within the properties. `CopyInStep` holds also where a request died between Stripe and its save;
`PriceInStep` does not, nor for a subscription that is overtaken, because the code infers
which plan waits from what the copy says. With tangles the copy does fall behind: a late `updated`
overwrites a newer one, as no handler compares the event's time. The copy's grace period has a flaw the
model shows and no property states: an `updated` sets `active` or `past_due` without touching `pastDueSince`
(`billing.service.ts`, `customer.subscription.updated`).

### Fairness

`FairSpec` assumes weak fairness of each worker's steps, of BullMQ handing out each job, of a
request once begun, of the tick and of time. The code justifies each: workers are event
loops that run until the process dies, BullMQ polls, requests do not wait for anyone, and the
tick is a repeatable job every five minutes. No admin is obliged to do anything, and no crash,
outage, delay or failure is ever required; the liveness claims assume that in the end no stop
is in force (`OpenForWork`). The other modules state safety only.

### Findings

- `strand`: a stage created between `cancelRun`'s `updateMany` and its `removePending` loses its
  BullMQ job and stays `queued` for ever ("marks every unfinished stage of a run cancelled").
- `lost`: `enqueue` fails after `createStage`; the retry of the stage finds the record of its
  first attempt and gives up. The website stays occupied by a run nobody works, however often
  the tick comes ("a cancelled or lost run is retried later").
- `refund`: the owner abandons a booking, and between the load and the save its payment is confirmed.
  The booking ends cancelled and paid, without a refund, and an admin cannot cancel it any more
  ("Paid bookings are cancelled by an admin (with a refund)").
- `hidden`: the owner of an offer hidden for its reports edits and submits it, and it is public
  again, with its case still open ("off the site until an admin decides").
- `ending`: a downgrade is asked for and then the plan cancelled. `cancel` forgets the downgrade but
  leaves its price at Stripe, and the event of the cancellation lowers the plan at once ("the plan runs to
  the end of the period").

Seen in the models, without a run of their own:

- `finish()` completes a stage before it creates the next, and in between the website has no active job,
  so a second run of it may begin ("runs for one site never overlap").
- `expireEnded` expires an offer that came back between its two queries, by the decision of an expiry review,
  say, and does not recount its business (`offers.jobs.ts:59-80`; "recount after any offer status change",
  `offer-counts.ts:6`). TLC finds it when `CountRightWhenIdle` does without `unfound`.
- A duplicate check begun before an opt-out stores its candidate after it, although the run was cancelled
  (`pipeline.service.ts:891-944`; "open candidates from the domain are closed",
  `docs/data-protection.md:183`), and `approveCandidate` does not look at the opt-out. In the model a state with
  `optOut = "done"` and an open candidate is reachable.
- Two requests bring one person onto the team at once, each by a `$push` that checks no version
  (`businesses.service.ts:582`). He has two entries, `ownerCount` counts two, and as the only owner he may leave
  ("a business needs at least one owner", line 620). TLC finds it when `VerifiedKeepsOwner` does without
  `OfTwoEntries`.
- What `AnsweredIsBooked`, `FrozenByOpenDispute` and `PriceInStep` leave out, above.

### Mutants

For every property `PROJECT.json` names an operator with a plausible bug in it (a dropped guard, a
stale copy saved, a slot left or lost, an off-by-one) that TLC must catch under the
same configuration. They stand before the definition they replace, marked `Mutant`.

## 5. What is proved

For every value of the constants, from the named assumptions on them only (`RunConstants`,
`CountedEvents`, `ActorConstants`, `PromotionConstants`, `ClaimConstants`, `OfferConstants`,
`SubscriptionConstants`): any number of runs, stages, workers,
admins, websites and attempts; of bookings, callers, businesses, slots, credits and mishaps; of users,
claims, requests and crashes; of revisions, cases and reports; of subscriptions, renewals and events. All but
one describe a constant's type. `CountedEvents` is about the model: `spent` counts an event only
if some list in `Limits` bounds it, and the theorems that speak of what has not happened need the count
of crashes, outages, retries and cancels.

| theorem | says |
| --- | --- |
| `TypeCorrect` (`ImportRunsProofs`) | `Spec => []TypeOK` |
| `SlotsOnlyWhileActive` | `Spec => []SlotOnlyWhileActive` |
| `LateNeverRun` (`ImportRunsStepProofs`) | `Spec => []LateJobsNeverRun` |
| `OneWorkerEach` (`ImportRunsContractProofs`) | `Spec => []OneWorkerPerStage` |
| `CreatedOnce` | `Spec => []StageCreatedOnce` |
| `SlotsLostOnlyByCancel` | `Spec => []SlotLostOnlyByCancel` |
| `OneActive` | `Spec => []OneActivePerStage` |
| `DeadAfterLastAttempt` | `Spec => []DeadOnlyAfterLastAttempt` |
| `Refinement` | `Spec /\ []Calm => KeepsContract` |
| `NothingStranded` | `Spec => []NoStrandedStage` |
| `DeadLettersKept` | `Spec => []DeadLettersRecorded` |
| `TypeCorrect` (`PromotionsProofs`) | `Spec => []TypeOK` |
| `OnlyLateOverbook` | `Spec => []OverbookedOnlyByLate` |
| `OnlyLateOverspend` | `Spec => []CreditsOverspentOnlyByLate` |
| `PurchasesArePaid` | `Spec => []LivePurchaseIsPaid` |
| `RefundsRelease` | `Spec => []RefundedIsReleased` |
| `AnswersAreBooked` | `Spec => []AnsweredIsBooked` |
| `TypeCorrect` (`ClaimsProofs`) | `Spec => []TypeOK` |
| `TeamChanges` | `Spec => TeamChangesAsAsked` |
| `VerifiedIsOwned` | `Spec => VerifiedKeepsOwner` |
| `LosersAreOff` | `Spec => []LosersLeave` |
| `ClosedIsTakenBack` | `Spec => []ClosedTakesBack` |
| `FrozenForDisputes` | `Spec => []FrozenByOpenDispute` |
| `TypeCorrect` (`OffersProofs`) | `Spec => []TypeOK` |
| `AutomationBounded` | `Spec => AutomationStaysInBounds` |
| `OptedOutStaysOut` | `Spec => []OptOutHolds` |
| `CountFollows` (`OffersPlanProofs`) | `Spec => []CountRightWhenIdle` |
| `ReviewFollowsTwoAbsences` | `Spec => ReviewAfterTwoAbsences` |
| `HiddenIsOnCase` | `Spec => []HiddenHasCase` |
| `TypeCorrect` (`SubscriptionsProofs`) | `Spec => []TypeOK` |
| `CopyStaysInStep` | `Spec => []CopyInStep` |
| `OnePlan` | `Spec => []AtMostOnePlan` |
| `PriceStaysInStep` | `Spec => []PriceInStep` |
| `NoPlanLowered` | `Spec => WebhookLowersNoPlan` |

### Import runs

`TypeOK` is not inductive: `attempts` and the count BullMQ keeps stay within `MaxAttempts` only
because a worker that hands a job back for another attempt holds one that has an attempt left,
which in turn needs that no other worker holds the same BullMQ job and that nobody removes an
active one. `IInv` says this: `Records` (a slot or a record belongs to a started run), `Queues`
(a BullMQ job has an attempt left and points at a stage of a started run), `Holders` (each busy
worker holds an active BullMQ job of its own; at `throw` it has another attempt), `Requests`
(a client about to enqueue has a job of a started run) and `Others`. The proof has a lemma for
each shared operation (`SetStatus`, `Close`, `CancelStages`, `Create`, `Goto`, `Release`,
`AddEntry`, `DropPending`) and then a step for each action.

For the slots, `RecordSteps` shows that every step of the system changes the records by one of
five operations: keep, move, close, cancel, take. The first four never give a slot to anyone, and a record
that is closed has lost its own. That the index holds (`OneHolder`) is a lemma for `OneActive`.

`ImportRunsStepProofs` then sorts the steps by what they do to everything else: `StepKinds` shows that each
is one of a few kinds (a worker moves on, writes its record, finishes a stage, creates or queues the next,
lets go; a client takes its turn; a sweep, a retry, a delivery). What follows is shown once per kind, not
once per action. `Standing` is what survives every mishap: a BullMQ job, and whoever is about to add one,
has a record, and an active BullMQ job has a holder (`Backing`); whoever stops a run has set its flag
(`Flags`); and a stage created after its run was cancelled has had no attempt and no worker past the control
check (`Late`).

The rest does not survive every mishap, as section 4 says. `Calm` excludes outages, and a crash together
with a retry by hand. Failures, delays, cancels, stops, shutdowns, and either crashes or retries may happen
as often as they like. Under `Calm`, `InStep` holds. Its core is `OneToken`: of the BullMQ jobs that may
still have a job worked, and the workers and clients about to add one, a job of a run that goes on has one
at most. From it follow that one worker at a time is past the control check (`OnePast`), that a job in hand
is an open record (`OpenRecords`), and that who goes on to the next stage has completed his own and nothing
above it exists (`Progress`, `Chain`); with `Slots` and `Attempts` these are the five theorems. `Refinement`
maps each kind of step to a step of `RunContract` or a stutter (`EveryContractStep`): the refined variables
change when a worker passes the control check, completes, fails or dies, and when a cancel flag is set.
`NothingStranded` and `DeadLettersKept` need the stronger condition `Undisturbed` of their properties: then
`Recorded` says of an active record that its BullMQ job is not one about to be removed, and of a
dead-lettered one that its entry is there or on its way.

### Promotions

`IInv` adds to `TypeOK` that no request, checkout session or job works on a booking that does not exist,
and which requests create bookings and cancel them. `RecordOperations` then shows that every
step of the system does one of five things to the bookings: nothing, let them age, release the
unpaid, save one, create one.

For the slots, `SlotInv` says of every caller between its count and its booking that, unless it
has been overtaken, there is still room: the bookings in time are fewer than the slots. A count
is made by `CountSlots` or `Grant` only (`Counting`), a booking that is created overtakes all other counts,
and a save can add only a late booking. The credits have the same argument with `CountCredit`.

For the payments, `PaidInv` says what the bookings alone do not: whoever is about to confirm a
booking works on one that is no purchase or whose payment is recorded, and whoever is about to
approve, start or end one works on one that is paid. No payment record, link or source of a
booking ever goes away (`PaidStays`), so that stays true while others act.

`RefundedIsReleased` is not inductive, as a refund takes two steps: `RefundInv` says the same of a booking that
is refunded at Stripe only (`checkout`). From there to the save the cancellation has the booking in hand
(`Refunding`, `RefundingGoesOn`), and a booking that holds no slot gets one again only by a late save
(`HoldsAgain`).

For `AnsweredIsBooked`, `AnswerInv` adds that an event on record is answered or somebody is at work on it,
so that a redelivery which finds the record and answers at once is right to. That whoever answers has
recorded and linked the payment (`Booked`) needs to be known of each request: `KnownInv` says that a booking
with a checkout session is a purchase, that one which was rejected had been paid, and that the event of a
booking has a session (`Knows`).

### Claims

`IInv` says of every request what its next step rests on (`Sound`): it knows its claim and is about the
claim's user, and it knows what it is to write; and (`Current`) that while a request is `fresh`, the
members it loaded are still the members. That holds because every save that changes the members goes
through `Overtake`, which ends the freshness of all other requests. So a request that gets past the
version key and replaces the members (`closeSave`, `approveSave`, `role`, `owner`) writes the list as it is,
but for the users the request is about; a push changes its own user only, a save of paths nobody.
`TeamChanges` is the sum of these, one lemma per action that saves the business. A user's entries matter where
roles are counted: a push adds one (`Added`), a change of role is that of the first (`WithFirst`), and whoever
is about to change has seen another owner unless he has two entries himself.

`Keeping` adds whom claims and requests are about (`Names`: a claim has a claimant, who is not among those
it is against, and a request is about the claimant of its claim), that a member is on the team by a claim,
or by an invitation or admin (`Reasons`), and that no request is about to take the last owner it has seen,
and a closing that replaces the members of a listing not verified when loaded finds it not verified yet
(`Owning`). Two owners who leave at once are safe because the second to save has lost its freshness.
`LevelStep` and `OwnersStep` say of every step how the level and the set of owners may change;
`VerifiedIsOwned` and `LosersAreOff` follow, for any number of crashes.

`ClosedIsTakenBack` needs to know whence each place on the team comes. `Closures` says that whoever has a
place by one claim alone still has that claim open or approved, or a request is at work that is taking it
back (`Accounted`); that a request knows what it has loaded (`Known`); and that a claim that is not
overtaken passes its phone check once and, once closed, stays as the request that closed it had loaded it
(`Steady`).

`FrozenByOpenDispute` speaks of disputes that are open; `Freezing` says why they will not leave the listing
frozen. Either a dispute binds it (`Binds`): whoever approves that claim loads the listing frozen, and so will
write `false`, or end with a `VersionError` and leave the claim in dispute; nobody is about to save the
claim as approved. Or a request that has closed a dispute is about to unfreeze the listing
(`Unfreezes`), and has loaded it frozen or has yet to load it. A save writes only what it changes, so a copy
loaded before the freeze would leave it frozen (`SavedFrozen`); nothing but `Freeze` freezes (`FrozenBy`), and
it does so only where nobody else holds the claim.

### Offers

`IInv` says what a request must know for the steps left to it (`Allowed`: `revision` needs a revision and a
decision on it, `hidden` and `decide` a case, `create` a person), (`Bounded`) that a request of the background
that is to write a status carries a filter which lets it through only where the write is lawful, and
(`Redeeming`) that a reader can do nothing with an offer but use it up.
`Begun` and `UpdateBegins` show it of requests as they begin, `RecheckLawful` of what a check has
decided on the offer it has read, `WriteOfferStep` that the write then is lawful whatever the offer has become
since. Only the job that expires offers has its filter in the query itself (`ExpireEnded`).

For the opt-out, `Gone` says that the offer is the business's, or neither on the site nor in a state from
which the background could bring it there. Whatever anybody but an admin or owner does keeps it gone
(`OthersKeep`, `WriteKeepsGone`): that is where `Lawful` must speak of `possibly_removed` and `scheduled`
too, and where `OptOutHolds` is not inductive by itself. `OptOutInv` adds that an opt-out which is past its
write, or began without one to do, has found the offer gone (`PastRemoval`), so that it is gone when
`FinishOptOut` marks the opt-out done, and that until then no person is at work beside it.

The other three need to know which steps a request has left. `Plan` names the lists there are: those that
count and those about to write a count, those that change the status, keep it, or create an offer, and the
short ones of people without an offer to save. `Fresh` says what is true of a request as it begins, one
lemma per kind of caller; `TurningKinds` and `AdvancingKinds` sort the other steps by what becomes of the
list. Then `Counted` is short: whoever changes the status has a count before him, or has `unfound` set, and,
unless a recount is overtaken, a count about to be written is right. `Reviewed` says of a check that the one
status its filter names decides what it writes (`Rechecks`), so a write that gets through writes what
belongs to the status it finds, and that an offer which is possibly removed has been missed once. For
`HiddenHasCase`, `Marked` says that only a report hides an offer and then tells its case (`Reporter`), that
the case is open (`Filed`), and that the case which hid the offer stays open until whoever decides it has
taken the offer out of hiding (`Kept`): that is the order in which `decide` saves, offer first, and why a
crash between is a limit of the property.

### Subscriptions

`IInv` is `TypeOK` with `Sound` (a request knows its subscription and what it is to do there; only an
event's handler makes a plan active or past due, all others can only end it) and `Sale` (Stripe, the
events and the document of a subscription begin and end in one order: what is not sold has no document,
what is deleted comes last).

While events and requests are handled one after the other (`Clean`), `InStep` holds of each subscription.
`Told` says what its copy will be once the events on their way are handled: a subscription begins with its
first event only, and one handler is at work on it (`Pipe`); the last event on its way, or the handler at
work if none is, says what status Stripe has (`StatusInStep`) and whether it is ending (`EndingInStep`).
`Heard` is the other direction: one person's or job's request at a time (`OneVisitor`), nobody is about to
write cancelled of a plan that still runs at Stripe (`Ended`), and who is about to write whether a plan is
ending writes what Stripe has by then (`EndingAsked`). That is why `CopyInStep` holds without regard to
requests that died: their event arrives anyway. When all is settled, `Told` is `CopyInStep`.

For `OnePlan`, `OneRuns` says that, unless two activations have overlapped, at most one plan runs; who makes
room for another is alone and has it among those it has yet to end (`others`); and who is about to create
its own has none left to end.

For `PriceStaysInStep` and `NoPlanLowered`, `InPrice` holds while besides no request has died (`mishaps =
0`), of each subscription of which no stale event was handled. The last event on its way that tells the plan
has Stripe's price (`NewsPriced`); a hook makes a plan active at Stripe's price, and saves another plan only
where it is ending (`HookPriced`); and `Fits` relates Stripe's price to the plan and the plan that waits, as
they will be once the visitor at work and the hook have saved. A plan that waits has its price at Stripe
already. If none waits, a price that differs from the plan's is that of a cancelled downgrade, of which
exactly one update or event is still to come, and Stripe has the subscription ending by then. Of two or more
such events `Fits` says only what it says of a plan that waits: the first of two is stale, and a
subscription whose stale event was handled is out of the invariant for good (`News` counts to two). That is
necessary: TLC refuted a first candidate that spoke of them, as after a request has overtaken an event even
the last event may have an old price. TLC then checked `InPrice` on an instance with one subscription before
it was proved. When all is settled, `Fits` is `PriceInStep`; at a hook's save, `HookPriced` is
`WebhookLowersNoPlan`.

### Only model-checked

Of import runs: liveness
(`LiveJobsFinish`, `CancelledRunGoesQuiet`), which with fairness and `ENABLED` is out of TLAPS's reach.

## 6. What is not modelled

- *Offers:* strikes against a business and its suspension, the merging of duplicates and of candidates into
  offers, flags and moderation rules, limits by plan, drafts submitted on verification, offers mirrored
  from Foodbell, a second offer under the same dedupe key.
- *Subscriptions:* trials, billing intervals, coupons, mock mode, the mirror of invoices, reminders, the
  portal, the editing and migration of plans, handlers that throw and are retried.
- *Claims:* documents and evidence, merging listings, edits and change requests of owners, revoking an
  invitation, reminders to verify again.
- *Promotions:* the editing of products, calendars, placements, windows that do not overlap.
- *Import runs:* what a stage reads, extracts and stores; the limits per domain, budgets and circuit
  breakers in Redis, which a stage meets as a reason to be delayed or to fail; Chromium.
- *Pure algorithms:* extraction, matching, scoring and fingerprinting. They work on text and dates
  character by character; what could be stated without that (thresholds) has no state to go wrong.
- *Accounts, food orders, campaigns, support, reviews, content, search, analytics, platform services:*
  request-local checks, record keeping, read-only queries and I/O.
- *The frontend*, about half of the lines of the repository: it holds no state that others share and only
  calls the API.

So the modules stand for a small share of the lines: those where more than one actor meets over shared
state. Most of the rest is presentation, data transfer objects, validation, queries and I/O, for which there is
nothing to interleave.
