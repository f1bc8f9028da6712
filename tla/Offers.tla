------------------------------- MODULE Offers -------------------------------
(***************************************************************************)
(* One offer's status, and everybody who changes it: the business, the      *)
(* admins, readers who redeem or report it, the jobs, the checks of the     *)
(* website it was imported from, and an opt-out of that website.            *)
(*                                                                         *)
(* People's requests load the offer, decide, and save the paths they have   *)
(* changed some awaits later, whatever the offer has become.  Jobs write    *)
(* with a filter that pins the state they have seen.  A request is what it  *)
(* has loaded and the steps it still has to do; each step is one write or   *)
(* read of the database.                                                    *)
(***************************************************************************)
EXTENDS Naturals, Sequences, FiniteSets

CONSTANTS
    Callers,       \* requests and jobs in progress
    Threshold,     \* settings.reports.autoHideThreshold
    MaxRequests,   \* bound: requests and jobs ever begun
    MaxCrashes,    \* bound: those that die before they are done
    MaxRevisions,  \* bound: revisions ever proposed
    MaxCases       \* bound: report cases ever opened

ASSUME OfferConstants ==
    /\ Threshold \in Nat \ {0}
    /\ MaxRequests \in Nat
    /\ MaxCrashes \in Nat
    /\ MaxRevisions \in Nat
    /\ MaxCases \in Nat

Public    == {"active", "revision_pending"}       \* PUBLIC_OFFER_STATUSES
Closed    == {"rejected", "expired", "removed"}   \* not in LIVE_OFFER_STATUSES
Rechecked == Public \cup {"possibly_removed", "expiry_review"}
Ending    == Public \cup {"scheduled", "paused", "possibly_removed"}
Stored    == Ending \cup Closed \cup {"draft", "pending", "expiry_review", "hidden_by_reports"}
Statuses  == Stored \cup {"none"}                 \* no document yet, or none any more

Managers  == {"scraper", "merchant"}
Revisions == 1 .. MaxRevisions
Cases     == 1 .. MaxCases
OpenCase  == {"open", "info_requested"}
Automatic == {"check", "job", "reports", "optOut"}
People    == {"admin", "owner", "reader"}
Candidates == {"none", "open", "failed", "approved", "rejected"}
AbsentForReview == 2                              \* RECHECK.absentChecksForExpiryReview
Outcomes  == {"seen", "changed", "absent"}        \* of a check

VARIABLES
    offer,      \* the Offer document
    candidate,  \* status of the latest candidate it may come from
    revision,   \* statuses of its OfferRevisions
    case,       \* its ReportCases
    reports,    \* how many different people's reports are open
    count,      \* Business.activeOfferCount, as far as this offer goes
    request,    \* what each caller is doing
    begun, crashes, \* for the bounds
    misses,     \* history: checks in a row, up to AbsentForReview, that missed it, or
                \* AbsentForReview once a decision has brought it back as missed
    raced,      \* history: the offer changed while another caller was counting
    unfound,    \* history: the job expired an offer it had not found when it looked
    crossed,    \* history: a case was being decided while a report was hiding its offer
    optOut      \* history: "no", "done", "raced" by a person's request beside it,
                \* or "overruled" by an admin or owner since

bounds  == <<begun, crashes>>
history == <<misses, raced, unfound, crossed, optOut>>
docs    == <<offer, candidate, revision, case, reports, count>>
vars    == <<docs, request, bounds, history>>

Offer == [status : Statuses, origin : Managers, managedBy : Managers,
          absent : 0 .. AbsentForReview, ended : BOOLEAN, future : BOOLEAN]
Fields == {"status", "origin", "managedBy", "absent", "ended", "future"}
Case  == [status : OpenCase \cup {"none", "upheld", "rejected"}, autoHidden : BOOLEAN,
          before : Statuses, appeal : {"none", "open", "accepted", "declined"}]
Steps == {"offer", "create", "candidate", "count", "write", "revision", "supersede",
          "orphans", "propose", "check", "report", "case", "distinct", "hidden",
          "decide", "reports", "appeal", "restore", "expire", "find", "store", "done"}

NoCase == [status |-> "none", autoHidden |-> FALSE, before |-> "none", appeal |-> "none"]

\* todo: the steps left; else: those left if the offer no longer matches.  new,
\* fields: what is to be written to it if its status and manager still do.  to: an
\* outcome or decision.  id: its revision or case.  before: the status remembered.
Request == [todo : Seq(Steps), else : Seq(Steps), actor : Automatic \cup People \cup {"none"},
            new : Offer, fields : SUBSET Fields,
            status : SUBSET Statuses, manager : SUBSET Managers,
            to : {"", "seen", "absent", "changed", "applied", "discarded", "approved",
                  "upheld", "rejected", "info_requested", "accepted", "declined",
                  "open", "failed"},
            id : Revisions \cup Cases \cup {0}, before : Statuses, counted : 0 .. 1]

TypeOK ==
    /\ offer \in Offer
    /\ candidate \in Candidates
    /\ revision \in [Revisions -> {"none", "pending", "applied", "discarded", "superseded"}]
    /\ case \in [Cases -> Case]
    /\ reports \in 0 .. Threshold
    /\ count \in 0 .. 1
    /\ request \in [Callers -> Request]
    /\ begun \in 0 .. MaxRequests
    /\ crashes \in 0 .. MaxCrashes
    /\ misses \in 0 .. AbsentForReview
    /\ raced \in BOOLEAN /\ unfound \in BOOLEAN /\ crossed \in BOOLEAN
    /\ optOut \in {"no", "done", "raced", "overruled"}

NoOffer == [status |-> "none", origin |-> "scraper", managedBy |-> "scraper",
            absent |-> 0, ended |-> FALSE, future |-> FALSE]

Idle == [todo |-> <<>>, else |-> <<>>, actor |-> "none", new |-> NoOffer,
         fields |-> {}, status |-> {}, manager |-> {},
         to |-> "", id |-> 0, before |-> "none", counted |-> 0]

One(status) == IF status \in Public THEN 1 ELSE 0

\* A candidate waits for review, an import is live, or a business has a draft.
Init ==
    /\ \/ offer = NoOffer /\ candidate = "open"
       \/ offer = [NoOffer EXCEPT !.status = "active"] /\ candidate = "approved"
       \/ /\ \E future \in BOOLEAN :
                offer = [NoOffer EXCEPT !.status = "draft", !.origin = "merchant",
                                        !.managedBy = "merchant", !.future = future]
          /\ candidate = "none"
    /\ revision = [r \in Revisions |-> "none"]
    /\ case = [c \in Cases |-> NoCase]
    /\ reports = 0
    /\ count = One(offer.status)
    /\ request = [p \in Callers |-> Idle]
    /\ begun = 0 /\ crashes = 0
    /\ misses = 0 /\ raced = FALSE /\ unfound = FALSE /\ crossed = FALSE /\ optOut = "no"

-----------------------------------------------------------------------------
(* Requests, and the writes they share.                                     *)

Busy(p) == request[p].todo # <<>>
At(p, step) == Busy(p) /\ Head(request[p].todo) = step

Turn(p, r) == request' = [request EXCEPT ![p] = IF r.todo = <<>> THEN Idle ELSE r]
After(p) == [request[p] EXCEPT !.todo = Tail(@)]
Advance(p) == Turn(p, After(p))

BesideOptOut(actor) ==
    \E q \in Callers :
        \/ actor = "optOut" /\ request[q].actor \in People
        \/ actor \in People /\ request[q].actor = "optOut"

Begin(p, r) ==
    /\ ~Busy(p)
    /\ begun < MaxRequests
    /\ begun' = begun + 1
    /\ request' = [request EXCEPT ![p] = r]
    /\ optOut' = CASE optOut = "no" /\ BesideOptOut(r.actor) -> "raced"
                   [] optOut = "done" /\ r.actor \in {"admin", "owner"} -> "overruled"
                   [] OTHER -> optOut
    /\ UNCHANGED <<docs, crashes, misses, raced, unfound, crossed>>

Recount == <<"count", "write">>    \* recountActiveOffers

\* load, decide on `new`, save: the paths that differ are written.
Save(actor, new, then) ==
    [Idle EXCEPT !.actor = actor, !.todo = <<"offer">> \o then, !.new = new,
                 !.fields = {f \in Fields : new[f] # offer[f]},
                 !.status = Stored, !.manager = Managers]

To(status) == [offer EXCEPT !.status = status]

\* updateOne with a filter: `else` follows if nothing matched.
Update(actor, new, status, manager, then, else) ==
    [Idle EXCEPT !.actor = actor, !.todo = <<"offer">> \o then, !.else = else,
                 !.new = new, !.fields = {"status"},
                 !.status = status, !.manager = manager]

\* Mutant: the filter names nothing but the offer.
MatchesAlways(p) == offer.status # "none"

Matches(p) == offer.status \in request[p].status /\ offer.managedBy \in request[p].manager

\* The status changes while another caller has counted and not yet written.
NoteRace(p) ==
    raced' = (raced \/ /\ offer'.status # offer.status
                       /\ \E q \in Callers \ {p} : At(q, "write"))

\* A status in which a check has missed the offer is written.
Missed(p) ==
    /\ "status" \in request[p].fields
    /\ request[p].new.status \in {"possibly_removed", "expiry_review"}

Written(p, todo) ==
    [request[p] EXCEPT !.todo = todo, !.else = <<>>, !.new = NoOffer, !.fields = {},
                       !.status = {}, !.manager = {}]

WriteOffer(p) ==
    /\ At(p, "offer")
    /\ IF Matches(p)
       THEN /\ offer' = [f \in Fields |->
                  IF f \in request[p].fields THEN request[p].new[f] ELSE offer[f]]
            /\ Turn(p, Written(p, Tail(request[p].todo)))
            /\ NoteRace(p)
            /\ misses' = CASE request[p].to = "absent" /\ misses < AbsentForReview -> misses + 1
                           [] request[p].to \in {"seen", "changed"} -> 0
                           [] request[p].to \notin Outcomes /\ Missed(p) -> AbsentForReview
                           [] OTHER -> misses
       ELSE /\ Turn(p, Written(p, request[p].else))
            /\ UNCHANGED <<offer, raced, misses>>
    /\ UNCHANGED <<candidate, revision, case, reports, count, bounds, unfound, crossed, optOut>>

CountActive(p) ==
    /\ At(p, "count")
    /\ Turn(p, [After(p) EXCEPT !.counted = One(offer.status)])
    /\ UNCHANGED <<docs, bounds, history>>

WriteCount(p) ==
    /\ At(p, "write")
    /\ count' = request[p].counted
    /\ Advance(p)
    /\ UNCHANGED <<offer, candidate, revision, case, reports, bounds, history>>

\* refreshActiveOfferCounts, every hour.
RefreshCounts(p) == Begin(p, [Idle EXCEPT !.actor = "job", !.todo = Recount])

-----------------------------------------------------------------------------
(* The business and its customers: OffersService, OfferPublishingService.   *)

LiveStatus(o) == IF o.future THEN "scheduled" ELSE "active"

\* decide: held for verification, sent to a moderator, or live.
Decided(o) == {"draft", "pending", LiveStatus(o)}

\* takeOverAsMerchant.
Taken(o) == [o EXCEPT !.managedBy = "merchant"]

OwnerSaves(p, new) == Begin(p, Save("owner", Taken(new), Recount))

OwnerUpdate(p) ==
    /\ offer.status \notin {"none", "removed", "expired"}
    /\ \E submit, future \in BOOLEAN :
        LET edited == [offer EXCEPT !.ended = FALSE, !.future = future]
            again  == submit \/ offer.status \in Public \cup {"scheduled", "pending"}
        IN  \E status \in IF again THEN Decided(edited)
                          ELSE {IF offer.status = "rejected" THEN "draft" ELSE offer.status} :
                OwnerSaves(p, [edited EXCEPT !.status = status])

OwnerSubmit(p) ==
    /\ offer.status \in {"draft", "rejected"}
    /\ ~offer.ended
    /\ \E status \in Decided(offer) : Begin(p, Save("owner", To(status), Recount))

OwnerPause(p) ==
    /\ offer.status \in {"active", "scheduled"}
    /\ OwnerSaves(p, To("paused"))

OwnerResume(p) ==
    /\ offer.status = "paused"
    /\ ~offer.ended
    /\ OwnerSaves(p, To(LiveStatus(offer)))

\* An imported offer is kept as removed, any other deleted.
OwnerRemove(p) ==
    /\ offer.status # "none"
    /\ IF offer.origin = "scraper" THEN OwnerSaves(p, To("removed"))
       ELSE Begin(p, Save("owner", To("none"), Recount))

OwnerConfirm(p) ==
    /\ offer.status # "none"
    /\ offer.origin = "scraper"
    /\ Begin(p, Save("owner", Taken(offer), <<>>))

\* Mutant: the last redemption leaves the count as it was.
RedeemLastUncounted(p) ==
    /\ offer.status \in Public
    /\ ~offer.ended
    /\ Begin(p, Save("reader", To("expired"), <<>>))

\* redeem: the last redemption ends the offer.
RedeemLast(p) ==
    /\ offer.status \in Public
    /\ ~offer.ended
    /\ Begin(p, Save("reader", To("expired"), Recount))

-----------------------------------------------------------------------------
(* OffersAdminService.                                                      *)

AdminApprove(p) ==
    /\ offer.status \notin {"none", "removed"}
    /\ \E edited \in {offer} \cup {[offer EXCEPT !.ended = FALSE, !.future = f] : f \in BOOLEAN} :
        /\ ~edited.ended
        /\ Begin(p, Save("admin", [edited EXCEPT !.status = LiveStatus(edited)], Recount))

AdminReject(p) ==
    /\ offer.status \notin {"none", "removed", "expired"}
    /\ offer.origin = "merchant"
    /\ Begin(p, Save("admin", To("rejected"), Recount))

AdminPause(p) ==
    /\ offer.status \in Public \cup {"scheduled"}
    /\ Begin(p, Save("admin", To("paused"), Recount))

SetExpiry(p) ==
    /\ offer.status # "none"
    /\ \E past \in BOOLEAN :
        Begin(p, Save("admin",
            [offer EXCEPT !.ended = past,
                          !.status = IF past /\ @ \in {"active", "scheduled", "paused"}
                                     THEN "expired" ELSE @], Recount))

-----------------------------------------------------------------------------
(* OffersJobs.                                                              *)

PublishScheduled(p) ==
    /\ offer.status = "scheduled"
    /\ ~offer.future /\ ~offer.ended
    /\ Begin(p, Update("job", To("active"), {"scheduled"}, Managers, Recount, <<>>))

EndedNow == offer.status \in Ending /\ offer.ended

\* expireEnded looks which businesses have offers to expire, ...
FindEnded(p) ==
    Begin(p, [Idle EXCEPT !.actor = "job",
                          !.todo = <<"expire">> \o (IF EndedNow THEN Recount ELSE <<>>)])

\* ... and then expires whatever matches; if that was any offer at all, the
\* businesses it had found are recounted.
ExpireEnded(p) ==
    /\ At(p, "expire")
    /\ IF EndedNow
       THEN /\ offer' = To("expired")
            /\ Advance(p)
            /\ NoteRace(p)
            /\ unfound' = (unfound \/ Tail(request[p].todo) = <<>>)
       ELSE /\ \E r \in {After(p), Idle} : Turn(p, r)
            /\ UNCHANGED <<offer, raced, unfound>>
    /\ UNCHANGED <<candidate, revision, case, reports, count, bounds, misses, crossed, optOut>>

-----------------------------------------------------------------------------
(* Imports: OfferLifecycleService, RecheckService, OptOutsService.          *)

Pending == {r \in Revisions : revision[r] = "pending"}

\* approveCandidate, or confirmCandidateAsMerchant: an offer is created unless
\* it is live already.
ApproveCandidate(p) ==
    /\ candidate = "open"
    /\ offer.origin = "scraper"
    /\ offer.status \notin Closed
    /\ \E new \in {To("active"), Taken(To("active")), Taken(To("pending"))} :
        Begin(p, [Idle EXCEPT
            !.actor = IF new.managedBy = "scraper" THEN "admin" ELSE "owner",
            !.todo = IF offer.status = "none" THEN <<"create">> \o Recount \o <<"candidate">>
                     ELSE <<"candidate">>,
            !.new = new, !.to = "approved"])

RejectCandidate(p) ==
    /\ candidate \in {"open", "failed"}
    /\ Begin(p, [Idle EXCEPT !.actor = "admin", !.todo = <<"candidate">>, !.to = "rejected"])

\* The dedupe key is unique: a second creation fails, or, when the first offer is
\* closed and has left its key, makes another offer, which is not followed here.
CreateOffer(p) ==
    /\ At(p, "create")
    /\ IF offer.status = "none"
       THEN /\ offer' = request[p].new
            /\ Turn(p, Written(p, Tail(request[p].todo)))
            /\ NoteRace(p)
       ELSE Turn(p, Idle) /\ UNCHANGED <<offer, raced>>
    /\ UNCHANGED <<candidate, revision, case, reports, count, bounds, misses, unfound, crossed, optOut>>

SaveCandidate(p) ==
    /\ At(p, "candidate")
    /\ candidate' = request[p].to
    /\ Advance(p)
    /\ UNCHANGED <<offer, revision, case, reports, count, bounds, history>>

\* The duplicate check of a run, for which the offer is new or back, ...  None begins
\* once the website has opted out: its runs are cancelled first.
Deduplicate(p) ==
    /\ optOut = "no"
    /\ offer.origin = "scraper"
    /\ \/ offer.status \in {"none", "expired"}
       \/ offer.status \in {"removed", "rejected"} /\ offer.managedBy = "scraper"
    /\ Begin(p, [Idle EXCEPT !.actor = "check", !.todo = <<"find">>])

\* ... looks for its candidate: a rejected one stays so, an open or failed one is
\* saved as it now stands, ...
FindCandidate(p) ==
    /\ At(p, "find")
    /\ \E to \in {"open", "failed"} :
        Turn(p, IF candidate \in {"rejected", to} THEN Idle
                ELSE [request[p] EXCEPT !.to = to,
                        !.todo = IF candidate \in {"open", "failed"} THEN <<"candidate">>
                                 ELSE <<"store">>])
    /\ UNCHANGED <<docs, bounds, history>>

\* ... and a new one is created, unless one has been opened meanwhile.
StoreCandidate(p) ==
    /\ At(p, "store")
    /\ candidate' = IF candidate = "open" THEN candidate ELSE request[p].to
    /\ Advance(p)
    /\ UNCHANGED <<offer, revision, case, reports, count, bounds, history>>

\* applyRevision.
ApplyRevision(p) ==
    /\ offer.status \in Rechecked
    /\ offer.managedBy = "scraper"
    /\ \E r \in Pending :
        Begin(p, [Save("admin", [offer EXCEPT !.status = "active", !.absent = 0, !.ended = FALSE],
                       Recount \o <<"revision">>) EXCEPT !.id = r, !.to = "applied"])

DiscardRevision(p) ==
    \E r \in Pending :
        Begin(p, [Save("admin", To(IF offer.status = "revision_pending" THEN "active"
                                   ELSE offer.status), Recount)
                  EXCEPT !.id = r, !.to = "discarded",
                         !.todo = IF offer.status = "revision_pending"
                                  THEN <<"revision">> \o @ ELSE <<"revision">>])

SaveRevision(p) ==
    /\ At(p, "revision")
    /\ revision' = [revision EXCEPT ![request[p].id] = request[p].to]
    /\ Advance(p)
    /\ UNCHANGED <<offer, candidate, case, reports, count, bounds, history>>

\* decideExpiryReview.
ExpireReviewed(p) ==
    /\ offer.status = "expiry_review"
    /\ Begin(p, [Save("admin", To("expired"), Recount) EXCEPT !.todo = <<"supersede">> \o @])

RestoreReviewed(p) ==
    /\ offer.status = "expiry_review"
    /\ Begin(p, Save("admin",
        [offer EXCEPT !.status = IF Pending # {} THEN "revision_pending" ELSE "active",
                      !.absent = 0], Recount))

Supersede(p) ==
    /\ At(p, "supersede")
    /\ revision' = [r \in Revisions |->
                        IF r \in Pending THEN "superseded" ELSE revision[r]]
    /\ Advance(p)
    /\ UNCHANGED <<offer, candidate, case, reports, count, bounds, history>>

\* A run of the website ends with a check: it found the offer, found it with
\* other terms, or did not find it.
Check(p) ==
    /\ offer.origin = "scraper"
    /\ \E outcome \in Outcomes :
        Begin(p, [Idle EXCEPT !.actor = "check", !.to = outcome,
                              !.todo = IF outcome = "changed" THEN <<"propose", "check">>
                                       ELSE <<"check">>])

\* proposeRevision: opened, or the pending one updated; not again once discarded.
ProposeRevision(p) ==
    /\ At(p, "propose")
    /\ \/ /\ offer.managedBy = "scraper"
          /\ offer.status \in Rechecked
          /\ Pending = {}
          /\ \E r \in Revisions :
                /\ revision[r] = "none"
                /\ \A s \in 1 .. (r - 1) : revision[s] # "none"
                /\ revision' = [revision EXCEPT ![r] = "pending"]
       \/ /\ \/ offer.managedBy # "scraper"
             \/ offer.status \notin Rechecked
             \/ Pending # {}
             \/ \E r \in Revisions : revision[r] = "discarded"
          /\ UNCHANGED revision
    /\ Advance(p)
    /\ UNCHANGED <<offer, candidate, case, reports, count, bounds, history>>

\* Mutant: hidden at the first miss, for review at once.
RecheckedInHaste(o, outcome, open) ==
    IF outcome = "absent" THEN [o EXCEPT !.status = "expiry_review"]
    ELSE [o EXCEPT !.absent = 0, !.status = IF open THEN "revision_pending" ELSE "active"]

\* recheckTransition, of an offer the scraper manages.
Recheck(o, outcome, open) ==
    IF outcome = "absent"
    THEN [o EXCEPT
            !.absent = IF @ < AbsentForReview THEN @ + 1 ELSE @,
            !.status = CASE @ \in Public -> "possibly_removed"
                         [] @ = "possibly_removed" /\ o.absent + 1 >= AbsentForReview ->
                                "expiry_review"
                         [] OTHER -> @]
    ELSE [o EXCEPT
            !.absent = 0,
            !.status = IF @ = "expiry_review" THEN @
                       ELSE IF open THEN "revision_pending" ELSE "active"]

\* applyCheck loads the offer and its pending revision.
ApplyCheck(p) ==
    LET outcome == request[p].to
        moot    == outcome = "seen" /\ Pending # {}
        new     == Recheck(offer, outcome, Pending # {} /\ ~moot)
    IN  /\ At(p, "check")
        /\ Turn(p, IF offer.status \notin Rechecked \/ offer.managedBy = "merchant" THEN Idle
                   ELSE [request[p] EXCEPT
                        !.todo = (IF moot THEN <<"supersede">> ELSE <<>>) \o <<"offer">>
                                 \o (IF new.status # offer.status THEN Recount ELSE <<>>),
                        !.new = new,
                        !.fields = {"absent"} \cup
                            (IF new.status # offer.status THEN {"status"} ELSE {}),
                        !.status = {offer.status}, !.manager = {"scraper"}])
        /\ UNCHANGED <<docs, bounds, history>>

\* reviewStaleOffers.
ReviewStale(p) ==
    /\ offer.origin = "scraper"
    /\ IF offer.ended /\ offer.status \in Public \cup {"possibly_removed"}
       THEN Begin(p, Update("job", To("expired"), {offer.status}, Managers,
                            Recount \o <<"orphans">>, <<"orphans">>))
       ELSE Begin(p, [Idle EXCEPT !.actor = "job", !.todo = <<"orphans">>])

\* Revisions of an offer that is no longer live are closed.
CloseOrphans(p) ==
    /\ At(p, "orphans")
    /\ Turn(p, [After(p) EXCEPT !.todo =
                    IF offer.status \in Closed THEN <<"supersede">> ELSE <<>>])
    /\ UNCHANGED <<docs, bounds, history>>

\* Mutant: only what is on the site is removed.
OptOutVisibleOnly(p) ==
    /\ optOut = "no"
    /\ offer.origin = "scraper"
    /\ IF offer.managedBy = "scraper" /\ offer.status \in Public
       THEN Begin(p, Update("optOut", To("removed"), Stored, {"scraper"},
                        Recount \o <<"supersede", "done">>, Recount \o <<"supersede", "done">>))
       ELSE Begin(p, [Idle EXCEPT !.actor = "optOut", !.todo = <<"supersede", "done">>])

\* OptOutsService.create, from the moment it looks for the offers to remove.
OptOut(p) ==
    /\ optOut = "no"
    /\ offer.origin = "scraper"
    /\ IF offer.managedBy = "scraper" /\ offer.status \in Stored \ {"removed"}
       THEN Begin(p, Update("optOut", To("removed"), Stored, {"scraper"},
                        Recount \o <<"supersede", "done">>, Recount \o <<"supersede", "done">>))
       ELSE Begin(p, [Idle EXCEPT !.actor = "optOut", !.todo = <<"supersede", "done">>])

\* Its last write: the open candidates are rejected.
FinishOptOut(p) ==
    /\ At(p, "done")
    /\ candidate' = IF candidate \in {"open", "failed"} THEN "rejected" ELSE candidate
    /\ optOut' = IF optOut = "no" THEN "done" ELSE optOut
    /\ Advance(p)
    /\ UNCHANGED <<offer, revision, case, reports, count, bounds, misses, raced, unfound, crossed>>

-----------------------------------------------------------------------------
(* ReportsService.                                                          *)

OpenCases == {c \in Cases : case[c].status \in OpenCase}
Deciding  == {"upheld", "rejected", "info_requested"}

\* create, by somebody who has not reported the offer this week.
Report(p) ==
    /\ offer.status \in Public \cup {"hidden_by_reports"}
    /\ Begin(p, [Idle EXCEPT !.actor = "reports", !.before = offer.status,
                              !.todo = <<"report", "case">>])

FileReport(p) ==
    /\ At(p, "report")
    /\ reports' = IF reports < Threshold THEN reports + 1 ELSE reports
    /\ Advance(p)
    /\ UNCHANGED <<offer, candidate, revision, case, count, bounds, history>>

\* findOneAndUpdate: the open case, or a new one.
UpsertCase(p) ==
    /\ At(p, "case")
    /\ \E c \in Cases :
        /\ IF OpenCases # {} THEN c \in OpenCases
           ELSE case[c].status = "none" /\ \A d \in 1 .. (c - 1) : case[d].status # "none"
        /\ case' = IF OpenCases # {} THEN case ELSE [case EXCEPT ![c].status = "open"]
        /\ Turn(p, IF case[c].autoHidden \/ request[p].before \notin Public THEN Idle
                   ELSE [request[p] EXCEPT !.id = c, !.todo = <<"distinct">>])
    /\ UNCHANGED <<offer, candidate, revision, reports, count, bounds, history>>

CountReporters(p) ==
    /\ At(p, "distinct")
    /\ Turn(p, IF reports < Threshold THEN Idle
               ELSE [Update("reports", To("hidden_by_reports"), Public, Managers,
                            <<"hidden">> \o Recount, <<>>)
                     EXCEPT !.before = request[p].before, !.id = request[p].id])
    /\ UNCHANGED <<docs, bounds, history>>

\* Mutant: the case is not told that it hid the offer.
SaveHiddenUnmarked(p) ==
    /\ At(p, "hidden")
    /\ Advance(p)
    /\ UNCHANGED <<docs, bounds, history>>

SaveHidden(p) ==
    /\ At(p, "hidden")
    /\ case' = [case EXCEPT ![request[p].id].autoHidden = TRUE,
                            ![request[p].id].before = request[p].before]
    /\ crossed' = (crossed \/ \E q \in Callers :
                        request[q].id = request[p].id /\ request[q].to \in Deciding)
    /\ Advance(p)
    /\ UNCHANGED <<offer, candidate, revision, reports, count, bounds, misses, raced, unfound, optOut>>

\* uphold: the offer is removed.
Uphold(p) ==
    /\ offer.status # "none"
    /\ \E c \in OpenCases :
        Begin(p, [Save("admin", To("removed"), Recount \o <<"decide", "reports">>)
                  EXCEPT !.id = c, !.to = "upheld",
                         !.before = IF case[c].before = "none" THEN offer.status
                                    ELSE case[c].before,
                         !.todo = IF offer.status = "removed" THEN <<"decide", "reports">> ELSE @])

\* reject: what the reports hid comes back.
RejectCase(p) ==
    \E c \in OpenCases :
        Begin(p, [Save("admin",
                       To(IF offer.ended THEN "expired" ELSE case[c].before),
                       Recount \o <<"decide", "reports">>)
                  EXCEPT !.id = c, !.to = "rejected", !.before = case[c].before,
                         !.todo = IF case[c].autoHidden /\ offer.status = "hidden_by_reports"
                                  THEN @ ELSE <<"decide", "reports">>])

AskBusiness(p) ==
    \E c \in OpenCases :
        /\ case[c].status = "open"
        /\ Begin(p, [Idle EXCEPT !.actor = "admin", !.id = c, !.to = "info_requested",
                                 !.before = case[c].before, !.todo = <<"decide">>])

SaveDecision(p) ==
    LET c == request[p].id
    IN  /\ At(p, "decide")
        /\ case' = [case EXCEPT ![c].status = request[p].to,
                                ![c].before = IF request[p].to = "upheld" THEN request[p].before ELSE @]
        /\ crossed' = (crossed \/ \E q \in Callers :
                            request[q].id = c /\ request[q].actor = "reports")
        /\ Advance(p)
        /\ UNCHANGED <<offer, candidate, revision, reports, count, bounds, misses, raced, unfound, optOut>>

CloseReports(p) ==
    /\ At(p, "reports")
    /\ reports' = 0
    /\ Advance(p)
    /\ UNCHANGED <<offer, candidate, revision, case, count, bounds, history>>

Appeal(c) ==
    /\ case[c].status = "upheld"
    /\ case[c].appeal = "none"
    /\ case' = [case EXCEPT ![c].appeal = "open"]
    /\ UNCHANGED <<offer, candidate, revision, reports, count, request, bounds, history>>

DecideAppeal(p) ==
    \E c \in Cases, to \in {"accepted", "declined"} :
        /\ case[c].appeal = "open"
        /\ Begin(p, [Idle EXCEPT !.actor = "admin", !.id = c, !.to = to, !.todo = <<"appeal">>])

\* Mutant: the answer to the appeal is saved as the status of the case.
SaveAppealAsStatus(p) ==
    /\ At(p, "appeal")
    /\ case' = [case EXCEPT ![request[p].id].status = request[p].to]
    /\ Turn(p, Idle)
    /\ UNCHANGED <<offer, candidate, revision, reports, count, bounds, history>>

SaveAppeal(p) ==
    /\ At(p, "appeal")
    /\ case' = [case EXCEPT ![request[p].id].appeal = request[p].to]
    /\ Turn(p, IF request[p].to = "accepted" THEN [request[p] EXCEPT !.todo = <<"restore">>]
               ELSE Idle)
    /\ UNCHANGED <<offer, candidate, revision, reports, count, bounds, history>>

\* An accepted appeal brings the removed offer back as it was.
RestoreAppealed(p) ==
    LET before == case[request[p].id].before
        status == IF offer.ended THEN "expired"
                  ELSE IF before = "hidden_by_reports" THEN "active" ELSE before
    IN  /\ At(p, "restore")
        /\ Turn(p, IF offer.status # "removed" THEN Idle
                   ELSE Save("admin", To(status), Recount))
        /\ UNCHANGED <<docs, bounds, history>>

-----------------------------------------------------------------------------
(* Time, and processes that die.                                            *)

OfferStarts ==
    /\ offer.future
    /\ offer' = [offer EXCEPT !.future = FALSE]
    /\ UNCHANGED <<candidate, revision, case, reports, count, request, bounds, history>>

\* expireEnded's two queries read the clock once: what ends between them is not
\* expired by this job, as if it had ended after.
OfferEnds ==
    /\ ~offer.future /\ ~offer.ended
    /\ \A p \in Callers : ~At(p, "expire")
    /\ offer' = [offer EXCEPT !.ended = TRUE]
    /\ UNCHANGED <<candidate, revision, case, reports, count, request, bounds, history>>

Crash(p) ==
    /\ Busy(p)
    /\ crashes < MaxCrashes
    /\ crashes' = crashes + 1
    /\ request' = [request EXCEPT ![p] = Idle]
    /\ UNCHANGED <<docs, begun, history>>

-----------------------------------------------------------------------------

Ask(p) ==
    \/ OwnerSubmit(p) \/ OwnerPause(p) \/ OwnerResume(p) \/ OwnerUpdate(p) \/ OwnerRemove(p)
    \/ OwnerConfirm(p) \/ RedeemLast(p) \/ AdminApprove(p) \/ AdminReject(p) \/ AdminPause(p)
    \/ SetExpiry(p) \/ PublishScheduled(p) \/ FindEnded(p) \/ RefreshCounts(p)
    \/ ApproveCandidate(p) \/ RejectCandidate(p) \/ Deduplicate(p) \/ ApplyRevision(p) \/ DiscardRevision(p)
    \/ ExpireReviewed(p) \/ RestoreReviewed(p) \/ Check(p) \/ ReviewStale(p) \/ OptOut(p)
    \/ Report(p) \/ Uphold(p) \/ RejectCase(p) \/ AskBusiness(p) \/ DecideAppeal(p)

Proceed(p) ==
    \/ WriteOffer(p) \/ CountActive(p) \/ WriteCount(p) \/ CreateOffer(p) \/ SaveCandidate(p)
    \/ ExpireEnded(p) \/ FindCandidate(p) \/ StoreCandidate(p)
    \/ SaveRevision(p) \/ Supersede(p) \/ ProposeRevision(p) \/ ApplyCheck(p)
    \/ CloseOrphans(p) \/ FinishOptOut(p) \/ FileReport(p) \/ UpsertCase(p)
    \/ CountReporters(p) \/ SaveHidden(p) \/ SaveDecision(p) \/ CloseReports(p)
    \/ SaveAppeal(p) \/ RestoreAppealed(p)

Next ==
    \/ \E p \in Callers : Ask(p) \/ Proceed(p) \/ Crash(p)
    \/ \E c \in Cases : Appeal(c)
    \/ OfferStarts \/ OfferEnds

Spec == Init /\ [][Next]_vars

-----------------------------------------------------------------------------
(* What the steps and the guard of the schema are for.                      *)

Idling == \A p \in Callers : ~Busy(p)

\* The business's count of live offers is right whenever nobody is at work, no
\* process has died and no recount was overtaken: every one of the many callers
\* of recountActiveOffers recounts after the last status it writes, on every
\* path, the one where its own write missed included.  The one exception is the
\* job that expires an offer of a business it had not found when it looked.
CountRightWhenIdle ==
    Idling /\ crashes = 0 /\ ~raced /\ ~unfound => count = One(offer.status)

\* ReportsService: an offer off the site for its reports has an open case that
\* knows it, so that an admin's rejection can bring it back, unless a process
\* died between the two writes or the case was decided meanwhile.
HiddenHasCase ==
    offer.status = "hidden_by_reports" /\ crashes = 0 /\ ~crossed =>
        \/ \E c \in OpenCases : case[c].autoHidden
        \/ \E p \in Callers : At(p, "hidden")

\* OptOutsService: once the website has opted out, and no person's request was in
\* progress beside it, no check, job or report, earlier ones included, brings its
\* offer back: only an admin or the business can.
OptOutHolds ==
    optOut = "done" /\ offer.status \in Public => offer.managedBy = "merchant"

\* Who takes the step from one state to the next: its caller's actor.
ActsNow(p) == IF Busy(p) THEN request[p].actor ELSE request'[p].actor

\* The guard of the Offer schema: whatever it read before, the background never
\* publishes an offer a person had not published, and changes one the business
\* manages only to end it, to start it on time, or to hide it.
AutomationStaysInBounds ==
    [][\A p \in Callers :
        /\ request'[p] # request[p]
        /\ ActsNow(p) \in Automatic
        /\ offer'.status # offer.status
        => /\ offer'.status \in Public =>
                offer.status \in Public \cup {"possibly_removed", "scheduled"}
           /\ offer.managedBy = "merchant" =>
                \/ offer'.status \in {"expired", "hidden_by_reports"}
                \/ offer.status = "scheduled" /\ offer'.status = "active"]_vars

\* recheckTransition: an offer goes to an admin as gone only after two checks in a
\* row have missed it, however checks, edits and decisions interleave, or back after
\* a decision has restored it as missed.
ReviewAfterTwoAbsences ==
    [][offer'.status = "expiry_review" /\ offer.status # "expiry_review"
        => misses' = AbsentForReview]_vars

\* enums.ts of HIDDEN_BY_REPORTS: off the site until an admin decides.
HiddenUntilAdminDecides ==
    [][\A p \in Callers :
        /\ request'[p] # request[p]
        /\ offer.status = "hidden_by_reports"
        /\ offer'.status \in Public
        => ActsNow(p) = "admin"]_vars
=============================================================================
