------------------------------- MODULE Claims -------------------------------
(***************************************************************************)
(* Who owns a listing: claims, the phone check, disputes, the moderator's   *)
(* decisions, the job that closes claims nobody answers, the team and the   *)
(* admin's change of owner, for one listing and several claims on it.       *)
(*                                                                         *)
(* A request loads documents, and saves them some awaits later.  Mongoose   *)
(* writes the paths the request changed and leaves the others as they have  *)
(* become; only when it replaces the whole `members` array does it check    *)
(* that the array is still the one it loaded.                               *)
(***************************************************************************)
EXTENDS Naturals, FiniteSets

CONSTANTS
    Users,        \* claimants and members
    Nobody,       \* stands for "no user"
    Callers,      \* requests and jobs in progress
    MaxClaims,    \* bound: claims ever started
    MaxRequests,  \* bound: requests ever begun
    MaxCrashes    \* bound: requests that die before they are done

ASSUME ClaimConstants ==
    /\ Nobody \notin Users
    /\ MaxClaims \in Nat
    /\ MaxRequests \in Nat
    /\ MaxCrashes \in Nat

Claims  == 1 .. MaxClaims
NoClaim == 0

Submitted == {"pending", "info_requested", "disputed"}
Open      == {"draft"} \cup Submitted            \* OPEN_CLAIM_STATUSES
Closings  == {"rejected", "withdrawn", "expired"}
Statuses  == Open \cup Closings \cup {"none", "approved"}
Kinds     == {"existing", "new", "reverification"}

\* VerificationLevel.
Unclaimed == 0
ClaimPending == 1
Verified == 2

VARIABLES
    claim,     \* the Claim documents
    business,  \* the Business document: status, members and roles, ownerId,
               \* verificationLevel, frozen, disputeClaimId
    invited,   \* users with an open team invitation
    request,   \* what each caller is doing
    asked,     \* how many requests have begun
    crashes,   \* how many of them have died before they were done
    overtaken, \* history: claims that changed under a request that had loaded
               \* them, or whose closing ended with a VersionError
    placed     \* history: users who owe their place on the team to no claim,
               \* or keep it after theirs, as the listing is verified by then

history == <<overtaken, placed>>
vars == <<claim, business, invited, request, asked, crashes, history>>

\* What the members array holds of one user: nothing, his entry, or his entry and
\* an owner entry behind it, which a push that overlapped another leaves.
Entries == {"none", "staff", "owner", "staffThenOwner", "ownerTwice"}

\* The role in the first entry, the one that find(userId) returns.
First(e) ==
    CASE e = "staffThenOwner" -> "staff"
      [] e = "ownerTwice" -> "owner"
      [] OTHER -> e

\* One entry more at the end of the array.  A staff entry behind another, or a
\* third entry, is never told apart from none.
Added(e, role) ==
    CASE e = "none" -> role
      [] e # "none" /\ role # "owner" -> e
      [] e # "none" /\ role = "owner" ->
            IF First(e) = "staff" THEN "staffThenOwner" ELSE "ownerTwice"

\* The first entry gets another role; what is behind it stays.
WithFirst(e, role) ==
    IF e \in {"staffThenOwner", "ownerTwice"} THEN Added(role, "owner") ELSE role

Claim == [status : Statuses, user : Users \cup {Nobody}, kind : Kinds,
          phone : {"unsent", "sent", "passed"}, against : SUBSET Users,
          waiting : {"no", "running", "past"}]
Business == [status : {"unlisted", "pending", "active", "archived"},
             members : [Users -> Entries],
             owner : Users \cup {Nobody}, level : Unclaimed .. Verified,
             frozen : BOOLEAN, dispute : Claims \cup {NoClaim}]

Steps == {"idle", "create", "phone", "phoneLoad", "dispute", "freeze", "join",
          "submit", "info", "close", "closeLoad", "closeSave", "approveLoad",
          "approveSave", "approveClaim", "accept", "role", "owner"}

NoClaimYet == [status |-> "none", user |-> Nobody, kind |-> "existing",
               phone |-> "unsent", against |-> {}, waiting |-> "no"]

NoTeam   == [u \in Users |-> "none"]
Unlisted == [status |-> "unlisted", members |-> NoTeam, owner |-> Nobody,
             level |-> Unclaimed, frozen |-> FALSE, dispute |-> NoClaim]

\* What a request holds: its claim, the claim and the listing as it loaded them,
\* whether the members are still those it loaded, and what it is to write.
Idle == [step |-> "idle", claim |-> NoClaim, was |-> NoClaimYet,
         seen |-> Unlisted, fresh |-> TRUE, to |-> "none", user |-> Nobody]
Request == [step : Steps, claim : Claims \cup {NoClaim}, was : Claim,
            seen : Business, fresh : BOOLEAN,
            to : Closings \cup Kinds \cup {"none", "staff", "owner"},
            user : Users \cup {Nobody}]

TypeOK ==
    /\ claim \in [Claims -> Claim]
    /\ business \in Business
    /\ invited \in SUBSET Users
    /\ request \in [Callers -> Request]
    /\ asked \in 0 .. MaxRequests
    /\ crashes \in 0 .. MaxCrashes
    /\ overtaken \in SUBSET Claims
    /\ placed \in SUBSET Users

\* Those with an entry that says owner, whether or not it is their first.
OwnersAmong(members) == {u \in Users : members[u] \notin {"none", "staff"}}
Owners(b) == OwnersAmong(b.members)

\* No listing yet, one that nobody runs, or one with a verified owner.
Init ==
    /\ claim = [c \in Claims |-> NoClaimYet]
    /\ \/ business \in {Unlisted, [Unlisted EXCEPT !.status = "active"]}
       \/ \E u \in Users :
            business = [Unlisted EXCEPT
                !.status = "active", !.members[u] = "owner", !.owner = u,
                !.level = Verified]
    /\ invited = {}
    /\ request = [p \in Callers |-> Idle]
    /\ asked = 0
    /\ crashes = 0
    /\ overtaken = {}
    /\ placed = Owners(business)

-----------------------------------------------------------------------------
(* Loading and saving.                                                      *)

\* memberRole: ownerId counts as a member of its own.
Role(b, u) ==
    IF b.members[u] = "none" /\ b.owner = u THEN "owner" ELSE First(b.members[u])

Step(p)     == request[p].step
Seen(p)     == request[p].seen
Claimant(p) == request[p].was.user

Begin(p, r) ==
    /\ Step(p) = "idle"
    /\ asked < MaxRequests
    /\ asked' = asked + 1
    /\ request' = [request EXCEPT ![p] = r]

\* A request that has loaded claim c.
On(c, s, to) ==
    [Idle EXCEPT !.step = s, !.claim = c, !.was = claim[c], !.to = to,
                 !.user = claim[c].user]

Goto(p, s) == request' = [request EXCEPT ![p].step = s]
Done(p)    == request' = [request EXCEPT ![p] = Idle]

\* businesses.findById.
LoadBusiness(p, s) ==
    request' = [request EXCEPT ![p].step = s, ![p].seen = business, ![p].fresh = TRUE]

\* The paths that differ from what p loaded are written, the others left alone.
Merged(p, new, members) ==
    [f \in DOMAIN new |->
        IF f = "members" THEN members
        ELSE IF new[f] # Seen(p)[f] THEN new[f]
        ELSE business[f]]

\* The other requests, and p itself at its next step, after members changed.
Overtake(p, next) ==
    request' = [q \in Callers |->
        IF q = p THEN next ELSE [request[q] EXCEPT !.fresh = FALSE]]

\* save() of scalar paths only.
SavePaths(p, new, next) ==
    /\ business' = Merged(p, new, business.members)
    /\ request' = [request EXCEPT ![p] = next]

\* save() after members.push: a $push, which checks no version, so u may get a
\* second entry.
SavePushed(p, new, u, next) ==
    /\ business' = Merged(p, new, [business.members EXCEPT
                        ![u] = Added(@, new.members[u])])
    /\ Overtake(p, next)

\* Mutant: the members are replaced whatever has become of them.
SaveMembersBlindly(p, new, next) ==
    /\ business' = Merged(p, new, new.members)
    /\ Overtake(p, next)

\* save() after the members were replaced: a VersionError ends the request if
\* they are no longer those it loaded.
SaveMembers(p, new, next) ==
    IF request[p].fresh
    THEN /\ business' = Merged(p, new, new.members)
         /\ Overtake(p, next)
    ELSE Done(p) /\ UNCHANGED business

rest == <<invited, asked, crashes>>

\* Request p works on what its claim no longer is: its status, or phone check,
\* has changed since it was loaded.
NoteOvertaken(p) ==
    LET c   == request[p].claim
        was == request[p].was
    IN  overtaken' = IF claim[c].status = was.status /\ claim[c].phone = was.phone
                     THEN overtaken ELSE overtaken \cup {c}

-----------------------------------------------------------------------------
(* ClaimsService: starting a claim.                                         *)

OpenClaims == {c \in Claims : claim[c].status \in Open}
Starting(u, kind) == [Idle EXCEPT !.step = "create", !.user = u, !.to = kind]

Start(p, u) ==
    /\ business.status = "active"
    /\ ~(Role(business, u) = "owner" /\ business.level >= Verified)
    /\ \A c \in OpenClaims : claim[c].user # u
    /\ Begin(p, Starting(u, "existing"))
    /\ UNCHANGED <<claim, business, invited, crashes, history>>

\* The listing is added, hidden until a moderator verifies it.
StartNewBusiness(p, u) ==
    /\ business.status = "unlisted"
    /\ business' = [business EXCEPT !.status = "pending"]
    /\ Begin(p, Starting(u, "new"))
    /\ UNCHANGED <<claim, invited, crashes, history>>

StartReverification(p, u) ==
    /\ Role(business, u) = "owner"
    /\ OpenClaims = {}
    /\ Begin(p, Starting(u, IF business.level >= Verified
                            THEN "reverification" ELSE "existing"))
    /\ UNCHANGED <<claim, business, invited, crashes, history>>

CreateClaim(p) ==
    /\ Step(p) = "create"
    /\ \E c \in Claims :
        /\ claim[c].status = "none"
        /\ \A d \in 1 .. (c - 1) : claim[d].status # "none"
        /\ claim' = [claim EXCEPT ![c] = [NoClaimYet EXCEPT
                !.status = "draft", !.user = request[p].user,
                !.kind = request[p].to, !.waiting = "running"]]
    /\ Done(p)
    /\ UNCHANGED <<business, rest, history>>

-----------------------------------------------------------------------------
(* The phone check.                                                         *)

\* A save touches updatedAt, from which the age of a draft is counted.
Touched(c) == IF claim[c].status = "draft" THEN "running" ELSE claim[c].waiting

SendCode(c) ==
    /\ claim[c].status \in Open
    /\ claim[c].phone = "unsent"
    /\ claim' = [claim EXCEPT ![c].phone = "sent", ![c].waiting = Touched(c)]
    /\ UNCHANGED <<business, request, rest, history>>

VerifyCode(p, c) ==
    /\ claim[c].status \in Open
    /\ claim[c].phone = "sent"
    /\ Begin(p, On(c, "phone", "none"))
    /\ UNCHANGED <<claim, business, invited, crashes, history>>

SavePhone(p) ==
    LET c == request[p].claim
    IN  /\ Step(p) = "phone"
        /\ claim' = [claim EXCEPT ![c].phone = "passed", ![c].waiting = Touched(c)]
        /\ request' = [request EXCEPT ![p].step = "phoneLoad", ![p].was.phone = "passed"]
        /\ NoteOvertaken(p)
        /\ UNCHANGED <<business, rest, placed>>

Rivals(p) == Owners(Seen(p)) \ {Claimant(p)}

\* afterPhoneCheck: somebody else runs the listing already, or nobody does.
LoadAfterPhone(p) ==
    /\ Step(p) = "phoneLoad"
    /\ IF request[p].was.kind = "reverification" THEN Done(p)
       ELSE LoadBusiness(p, IF Owners(business) \subseteq {Claimant(p)}
                            THEN "join" ELSE "dispute")
    /\ UNCHANGED <<claim, business, rest, history>>

SaveDispute(p) ==
    LET c == request[p].claim
    IN  /\ Step(p) = "dispute"
        /\ claim[c].against = request[p].was.against
        /\ claim' = [claim EXCEPT ![c].status = "disputed", ![c].against = Rivals(p)]
        /\ request' = [request EXCEPT ![p].step = "freeze", ![p].was.status = "disputed"]
        /\ NoteOvertaken(p)
        /\ UNCHANGED <<business, rest, placed>>

\* disputedOwnerIds is replaced as a whole: a VersionError ends the request if
\* another check of the claim has set it since, or if a message was pushed to the
\* claim, which may be at any time.
RefuseDispute(p) ==
    /\ Step(p) = "dispute"
    /\ Done(p)
    /\ UNCHANGED <<claim, business, rest, history>>

Freeze(p) ==
    LET c == request[p].claim
    IN  /\ Step(p) = "freeze"
        /\ SavePaths(p, [Seen(p) EXCEPT !.frozen = TRUE, !.dispute = c], Idle)
        /\ overtaken' = IF \/ claim[c].status # "disputed"
                           \/ \E q \in Callers \ {p} : request[q].claim = c
                        THEN overtaken \cup {c} ELSE overtaken
        /\ UNCHANGED <<claim, rest, placed>>

\* The claimant becomes an owner at level 1.
Join(p) ==
    LET u   == Claimant(p)
        new == [Seen(p) EXCEPT
                    !.members[u] = IF Role(Seen(p), u) = "none" THEN "owner" ELSE @,
                    !.owner = IF @ = Nobody THEN u ELSE @,
                    !.level = IF @ < ClaimPending THEN ClaimPending ELSE @]
    IN  /\ Step(p) = "join"
        /\ IF new.members = Seen(p).members
              THEN SavePaths(p, new, Idle)
              ELSE SavePushed(p, new, u, Idle)
        /\ NoteOvertaken(p)
        /\ UNCHANGED <<claim, rest, placed>>

-----------------------------------------------------------------------------
(* Submitting, asking for more, and closing without approval.               *)

Submit(p, c) ==
    /\ claim[c].status \in {"draft", "info_requested", "disputed"}
    /\ claim[c].phone = "passed"
    /\ Begin(p, On(c, "submit", "none"))
    /\ UNCHANGED <<claim, business, invited, crashes, history>>

\* The claim's status as p saves it: a dispute stays a dispute.
Unless(p, s) == IF request[p].was.status = "disputed" THEN claim[request[p].claim].status ELSE s

SaveSubmitted(p) ==
    /\ Step(p) = "submit"
    /\ claim' = [claim EXCEPT ![request[p].claim].status = Unless(p, "pending"),
                              ![request[p].claim].waiting = "no"]
    /\ Done(p)
    /\ UNCHANGED <<business, rest, placed>>
    /\ NoteOvertaken(p)

RequestInfo(p, c) ==
    /\ claim[c].status \in {"pending", "disputed"}
    /\ Begin(p, On(c, "info", "none"))
    /\ UNCHANGED <<claim, business, invited, crashes, history>>

SaveInfoRequested(p) ==
    /\ Step(p) = "info"
    /\ claim' = [claim EXCEPT ![request[p].claim].status = Unless(p, "info_requested"),
                              ![request[p].claim].waiting = "running"]
    /\ Done(p)
    /\ UNCHANGED <<business, rest, placed>>
    /\ NoteOvertaken(p)

Withdraw(p, c) ==
    /\ claim[c].status \in Open
    /\ Begin(p, On(c, "close", "withdrawn"))
    /\ UNCHANGED <<claim, business, invited, crashes, history>>

Reject(p, c) ==
    /\ claim[c].status \in Submitted
    /\ Begin(p, On(c, "close", "rejected"))
    /\ UNCHANGED <<claim, business, invited, crashes, history>>

\* ClaimsJobs.expireClaims: unanswered for 14 days, or a draft that long alone.
Expire(p, c) ==
    /\ claim[c].status \in {"draft", "info_requested"}
    /\ claim[c].waiting = "past"
    /\ Begin(p, On(c, "close", "expired"))
    /\ UNCHANGED <<claim, business, invited, crashes, history>>

SaveClosed(p) ==
    /\ Step(p) = "close"
    /\ claim' = [claim EXCEPT ![request[p].claim].status = request[p].to]
    /\ request' = [request EXCEPT ![p].step = "closeLoad"]
    /\ UNCHANGED <<business, rest, placed>>
    /\ NoteOvertaken(p)

LoadForClose(p) ==
    /\ Step(p) = "closeLoad"
    /\ LoadBusiness(p, "closeSave")
    /\ UNCHANGED <<claim, business, rest, history>>

\* Who may become ownerId: the first owner on the team, whoever that is.
Heirs(members) ==
    IF OwnersAmong(members) = {} THEN {Nobody} ELSE OwnersAmong(members)

\* Mutant: the claimant keeps his place on the team.
TakenBackFromOwnerOnly(b, u, kind, heir) ==
    [b EXCEPT
        !.owner  = IF @ = u \/ heir = Nobody THEN heir ELSE @,
        !.level  = IF heir = Nobody THEN Unclaimed ELSE @,
        !.status = IF kind = "new" /\ @ = "pending" THEN "archived" ELSE @]

\* Mutant: the level is lowered by one instead of reset.
TakenBackOneLevel(b, u, kind, heir) ==
    [b EXCEPT
        !.members[u] = "none",
        !.owner  = IF @ = u \/ heir = Nobody THEN heir ELSE @,
        !.level  = IF heir = Nobody THEN @ - 1 ELSE @,
        !.status = IF kind = "new" /\ @ = "pending" THEN "archived" ELSE @]

\* What the phone check gave the claimant is taken back.
TakenBack(b, u, kind, heir) ==
    [b EXCEPT
        !.members[u] = "none",
        !.owner  = IF @ = u \/ heir = Nobody THEN heir ELSE @,
        !.level  = IF heir = Nobody THEN Unclaimed ELSE @,
        !.status = IF kind = "new" /\ @ = "pending" THEN "archived" ELSE @]

Unfrozen(b) == [b EXCEPT !.frozen = FALSE, !.dispute = NoClaim]

\* Mutant: a dispute that ends without approval leaves the listing frozen.
AfterCloseStillFrozen(was, b) ==
    IF /\ was.status # "disputed"
       /\ was.kind # "reverification"
       /\ was.phone = "passed"
       /\ b.level < Verified
    THEN {TakenBack(b, was.user, was.kind, heir) :
            heir \in Heirs([b.members EXCEPT ![was.user] = "none"])}
    ELSE {b}

\* The listing after a claim is closed: a dispute only unfreezes it; a claim that
\* passed the phone check gives back what it got, unless the listing has been
\* verified since.
AfterClose(was, b) ==
    IF was.status = "disputed" THEN {Unfrozen(b)}
    ELSE IF /\ was.kind # "reverification"
            /\ was.phone = "passed"
            /\ b.level < Verified
    THEN {TakenBack(b, was.user, was.kind, heir) :
            heir \in Heirs([b.members EXCEPT ![was.user] = "none"])}
    ELSE {b}

\* For the history: the claimant keeps his place on a listing verified by then.
StaysOn(p) ==
    {u \in Users :
        /\ u = Claimant(p)
        /\ request[p].was.status # "disputed"
        /\ request[p].was.phone = "passed"
        /\ Seen(p).level >= Verified}

SaveAfterClose(p) ==
    /\ Step(p) = "closeSave"
    /\ \E new \in AfterClose(request[p].was, Seen(p)) :
        IF new.members = Seen(p).members
        THEN SavePaths(p, new, Idle) /\ UNCHANGED overtaken
        ELSE /\ SaveMembers(p, new, Idle)
             /\ overtaken' = IF request[p].fresh THEN overtaken
                             ELSE overtaken \cup {request[p].claim}
    /\ placed' = placed \cup StaysOn(p)
    /\ UNCHANGED <<claim, rest>>

-----------------------------------------------------------------------------
(* ClaimsAdminService.approve.                                              *)

Approve(p, c) ==
    /\ claim[c].status \in Submitted
    /\ claim[c].phone = "passed"
    /\ Begin(p, On(c, "approveLoad", "none"))
    /\ UNCHANGED <<claim, business, invited, crashes, history>>

LoadForApprove(p) ==
    /\ Step(p) = "approveLoad"
    /\ LoadBusiness(p, "approveSave")
    /\ UNCHANGED <<claim, business, rest, history>>

\* Mutant: the owners a dispute was about stay.
ReplacedNone(p) == {}

\* The owners who lose a dispute.
Replaced(p) ==
    IF request[p].was.status = "disputed" THEN request[p].was.against ELSE {}

\* For the history: who has joined the team since p loaded it.
CameBack(p) ==
    {v \in Users : Seen(p).members[v] = "none" /\ business.members[v] # "none"}

SaveVerified(p) ==
    LET u    == Claimant(p)
        b    == Seen(p)
        kept == [v \in Users |-> IF v \in Replaced(p) THEN "none" ELSE b.members[v]]
        new  == [b EXCEPT
            !.members = [kept EXCEPT ![u] =
                IF @ = "none" /\ b.owner = u THEN @ ELSE WithFirst(@, "owner")],
            !.owner = IF @ = Nobody \/ request[p].was.status = "disputed" THEN u ELSE @,
            !.level = Verified,
            !.frozen = FALSE,
            !.dispute = NoClaim,
            !.status = IF @ = "pending" THEN "active" ELSE @]
        next == [request[p] EXCEPT !.step = "approveClaim"]
    IN  /\ Step(p) = "approveSave"
        /\ IF kept = b.members /\ Role(b, u) = "none"
              THEN SavePushed(p, new, u, next)
              ELSE SaveMembers(p, new, next)
        /\ placed' = IF \/ business' = business
                        \/ request[p].was.status # "disputed"
                     THEN placed
                     ELSE placed \ (request[p].was.against \ CameBack(p))
        /\ UNCHANGED <<claim, rest, overtaken>>

SaveApproved(p) ==
    /\ Step(p) = "approveClaim"
    /\ claim' = [claim EXCEPT ![request[p].claim].status = "approved",
                              ![request[p].claim].waiting = "no"]
    /\ Done(p)
    /\ UNCHANGED <<business, rest, placed>>
    /\ NoteOvertaken(p)

-----------------------------------------------------------------------------
(* BusinessesService: the team.  AdminBusinessesService: another owner.     *)

\* The caller is an owner or the member who leaves, while the listing is not
\* frozen, or a super admin, who is stopped by neither: whoever it is, the team
\* decides no more than who may be invited, changed or removed.

Member(p, s, u, to) ==
    Begin(p, [Idle EXCEPT !.step = s, !.user = u, !.to = to, !.seen = business])

Invite(u) ==
    /\ business.status # "unlisted"
    /\ Role(business, u) = "none"
    /\ invited' = invited \cup {u}
    /\ UNCHANGED <<claim, business, request, asked, crashes, history>>

AcceptInvite(p, u, role) ==
    /\ u \in invited
    /\ Member(p, "accept", u, role)
    /\ UNCHANGED <<claim, business, invited, crashes, history>>

SaveAccepted(p) ==
    LET u == request[p].user
    IN  /\ Step(p) = "accept"
        /\ IF Role(Seen(p), u) = "none"
              THEN SavePushed(p, [Seen(p) EXCEPT !.members[u] = request[p].to], u, Idle)
              ELSE Done(p) /\ UNCHANGED business
        /\ invited' = invited \ {u}
        /\ placed' = placed \cup {u}
        /\ UNCHANGED <<claim, asked, crashes, overtaken>>

\* Mutant: the last owner may go.
ChangeAnyMember(p, u, role) ==
    /\ First(business.members[u]) \notin {"none", role}
    /\ Member(p, "role", u, role)
    /\ UNCHANGED <<claim, business, invited, crashes, history>>

\* ownerCount: it counts the entries, not the owners.
OwnsAlone(u) == Owners(business) = {u} /\ business.members[u] # "ownerTwice"

\* updateMember, or removeMember when `role` is "none".
ChangeMember(p, u, role) ==
    /\ First(business.members[u]) \notin {"none", role}
    /\ First(business.members[u]) = "owner" => ~OwnsAlone(u)
    /\ Member(p, "role", u, role)
    /\ UNCHANGED <<claim, business, invited, crashes, history>>

SaveMember(p) ==
    LET u       == request[p].user
        to      == request[p].to
        members == [Seen(p).members EXCEPT
                        ![u] = IF to = "none" THEN to ELSE WithFirst(@, to)]
    IN  /\ Step(p) = "role"
        /\ \E heir \in Heirs(members) :
            SaveMembers(p, [Seen(p) EXCEPT
                !.members = members,
                !.owner = IF to = "none" /\ @ = u THEN heir ELSE @], Idle)
        /\ placed' = placed \cup {u}
        /\ UNCHANGED <<claim, rest, overtaken>>

ChangeOwner(p, u) ==
    /\ business.status # "unlisted"
    /\ Member(p, "owner", u, "none")
    /\ UNCHANGED <<claim, business, invited, crashes, history>>

\* The previous owners leave the team, unless they are to be kept.
SaveOwner(p) ==
    LET u == request[p].user
        b == Seen(p)
    IN  /\ Step(p) = "owner"
        /\ \E leaving \in {{}, Owners(b)} :
            SaveMembers(p,
                [b EXCEPT
                    !.members = [v \in Users |->
                        IF v = u THEN "owner"
                        ELSE IF v \in leaving THEN "none" ELSE b.members[v]],
                    !.owner = u, !.frozen = FALSE, !.dispute = NoClaim],
                Idle)
        /\ placed' = placed \cup {u}
        /\ UNCHANGED <<claim, rest, overtaken>>

-----------------------------------------------------------------------------
(* Time, and processes that die.                                            *)

DaysPass(c) ==
    /\ claim[c].waiting = "running"
    /\ claim' = [claim EXCEPT ![c].waiting = "past"]
    /\ UNCHANGED <<business, request, rest, history>>

Crash(p) ==
    /\ Step(p) # "idle"
    /\ crashes < MaxCrashes
    /\ crashes' = crashes + 1
    /\ Done(p)
    /\ UNCHANGED <<claim, business, invited, asked, history>>

-----------------------------------------------------------------------------

Ask(p) ==
    \/ \E u \in Users :
        \/ Start(p, u) \/ StartNewBusiness(p, u) \/ StartReverification(p, u)
        \/ ChangeOwner(p, u)
        \/ \E role \in {"staff", "owner"} : AcceptInvite(p, u, role)
        \/ \E role \in {"none", "staff", "owner"} : ChangeMember(p, u, role)
    \/ \E c \in Claims :
        \/ VerifyCode(p, c) \/ Submit(p, c) \/ RequestInfo(p, c) \/ Withdraw(p, c)
        \/ Reject(p, c) \/ Expire(p, c) \/ Approve(p, c)

Proceed(p) ==
    \/ CreateClaim(p) \/ SavePhone(p) \/ LoadAfterPhone(p) \/ SaveDispute(p)
    \/ RefuseDispute(p) \/ Freeze(p) \/ Join(p) \/ SaveSubmitted(p) \/ SaveInfoRequested(p)
    \/ SaveClosed(p) \/ LoadForClose(p) \/ SaveAfterClose(p) \/ LoadForApprove(p)
    \/ SaveVerified(p) \/ SaveApproved(p) \/ SaveAccepted(p) \/ SaveMember(p)
    \/ SaveOwner(p)

Next ==
    \/ \E p \in Callers : Ask(p) \/ Proceed(p) \/ Crash(p)
    \/ \E c \in Claims : SendCode(c) \/ DaysPass(c)
    \/ \E u \in Users : Invite(u)

Spec == Init /\ [][Next]_vars

-----------------------------------------------------------------------------

Settled(c) == \A p \in Callers : request[p].claim # c

\* A frozen listing is not frozen for good: a dispute about it is open, or being
\* decided, whatever two claims and their decisions do to each other.
FrozenByOpenDispute ==
    crashes = 0 /\ overtaken = {} /\ business.frozen =>
        \/ \E c \in Claims : claim[c].status = "disputed"
        \/ \E p \in Callers : Step(p) # "idle"

Elsewhere(c, u) == \E d \in Claims \ {c} : claim[d].user = u

\* A claim that ends without approval leaves its claimant nothing: neither the
\* place on the team nor ownership (close: "is taken back"), unless he has it
\* from another claim, an invitation or an admin, or the listing was verified
\* before the claim was closed.
ClosedTakesBack ==
    \A c \in Claims :
        LET u == claim[c].user
        IN  /\ crashes = 0
            /\ claim[c].status \in Closings
            /\ claim[c].kind # "reverification"
            /\ Settled(c)
            /\ c \notin overtaken
            /\ u \notin placed
            /\ ~Elsewhere(c, u)
            => business.members[u] = "none"

\* The owners who lose a dispute are off the team once it is approved, and come
\* back only by another claim, an invitation or an admin.
LosersLeave ==
    \A c \in Claims : \A u \in claim[c].against :
        /\ claim[c].status = "approved"
        /\ c \notin overtaken
        /\ u \notin placed
        /\ ~Elsewhere(c, u)
        => business.members[u] = "none"

\* Nobody joins, leaves or changes role but by a request that is about him: no
\* save of a list of members loaded earlier undoes what another request did.
TeamChangesAsAsked ==
    [][\A u \in Users :
        business'.members[u] # business.members[u] =>
            \E p \in Callers :
                /\ request'[p] # request[p]
                /\ \/ request[p].user = u
                   \/ Step(p) = "owner"
                   \/ u \in Replaced(p)]_vars

\* ownerId is the claimant, who is on the team no more.
OwnerOffTeam(p) ==
    Seen(p).owner = Claimant(p) /\ Seen(p).members[Claimant(p)] = "none"

\* Request p takes the role, or the place, of somebody with a second entry in the
\* members array.
OfTwoEntries(p) ==
    Seen(p).members[request[p].user] \in {"staffThenOwner", "ownerTwice"}

\* A verified listing is never left without an owner: no closing or decision, no
\* owner who leaves or is removed at the same time as another, and no stale copy
\* of the team takes the last one ("A business needs at least one owner",
\* updateMember and removeMember).  The exceptions are a change of somebody who
\* has two entries, who passes for two owners as ownerCount counts entries, and a
\* decision for somebody who is still ownerId but off the team: memberRole counts
\* him as an owner, so approve does not put him back.
VerifiedKeepsOwner ==
    [][business.level = Verified /\ Owners(business) # {} =>
            \/ Owners(business') # {}
            \/ \E p \in Callers :
                /\ request'[p] # request[p]
                /\ \/ Step(p) = "approveSave" /\ OwnerOffTeam(p)
                   \/ Step(p) = "role" /\ OfTwoEntries(p)]_vars
=============================================================================
