---------------------------- MODULE ClaimsProofs ----------------------------
(***************************************************************************)
(* Proofs about Claims, for any number of users, claims and requests, with   *)
(* requests that die at any step: type correctness; that no stale copy of    *)
(* the team undoes what another request did; that a verified listing keeps   *)
(* an owner; that who loses a dispute is off the team; that a claim that was *)
(* closed leaves its claimant nothing; and that a listing is frozen for a    *)
(* dispute only.                                                            *)
(***************************************************************************)
EXTENDS Claims, TLAPS

Roles == {"none", "staff", "owner"}

\* The steps of a request that has loaded a claim, and those that may replace the
\* members by what the request has loaded.
ClaimSteps == Steps \ {"idle", "create", "accept", "role", "owner"}
TeamSteps  == {"closeSave", "approveSave", "role", "owner"}

\* A request is about the user whose claim it has loaded, and knows what it is to
\* write.
Sound(r) ==
    /\ r.step \in ClaimSteps => r.claim \in Claims /\ r.user = r.was.user
    /\ r.step = "create" => r.to \in Kinds
    /\ r.step = "close" => r.to \in Closings
    /\ r.step = "accept" => r.to \in {"staff", "owner"}
    /\ r.step = "role" => r.to \in Roles
    /\ r.step \in {"accept", "role", "owner"} => r.user \in Users

\* While `fresh` holds, the members a request loaded are still the members.
Current(r, members) == r.step \in TeamSteps /\ r.fresh => r.seen.members = members

Requests ==
    /\ request \in [Callers -> Request]
    /\ \A p \in Callers : Sound(request[p]) /\ Current(request[p], business.members)

Documents ==
    /\ claim \in [Claims -> Claim]
    /\ business \in Business
    /\ invited \in SUBSET Users

Others ==
    /\ asked \in 0 .. MaxRequests
    /\ crashes \in 0 .. MaxCrashes
    /\ overtaken \in SUBSET Claims
    /\ placed \in SUBSET Users

IInv == Requests /\ Documents /\ Others

LEMMA IInvImpliesTypeOK == IInv => TypeOK
  BY DEF IInv, Requests, Documents, Others, TypeOK

-----------------------------------------------------------------------------
(* The entries of one user in the members array.                            *)

LEMMA RolesAreEntries == Roles \subseteq Entries
  BY DEF Roles, Entries

LEMMA FirstRole ==
  ASSUME NEW e \in Entries
  PROVE  First(e) \in Roles /\ (First(e) = "none" <=> e = "none")
  BY DEF Entries, First, Roles

LEMMA AddedEntry ==
  ASSUME NEW e \in Entries, NEW role \in Entries
  PROVE  Added(e, role) \in Entries
  <1>1. CASE e = "none"
    BY <1>1 DEF Added
  <1>2. CASE e # "none" /\ role # "owner"
    BY <1>2 DEF Added
  <1>3. CASE e # "none" /\ role = "owner"
    BY <1>3 DEF Added, Entries
  <1>4. QED
    BY <1>1, <1>2, <1>3

\* A push takes nothing from anybody: who has no entry gets the one that is added.
LEMMA AddedKeeps ==
  ASSUME NEW e \in Entries, NEW role \in Entries
  PROVE  /\ e = "none" => Added(e, role) = role
         /\ e # "none" => Added(e, role) # "none"
         /\ e \notin {"none", "staff"} => Added(e, role) \notin {"none", "staff"}
         /\ role = "owner" => Added(e, role) \notin {"none", "staff"}
  <1>1. CASE e = "none"
    BY <1>1 DEF Added
  <1>2. CASE e # "none" /\ role # "owner"
    BY <1>2 DEF Added
  <1>3. CASE e # "none" /\ role = "owner"
    BY <1>3 DEF Added
  <1>4. QED
    BY <1>1, <1>2, <1>3

LEMMA WithFirstEntry ==
  ASSUME NEW e \in Entries, NEW role \in {"staff", "owner"}
  PROVE  /\ WithFirst(e, role) \in Entries \ {"none"}
         /\ role = "owner" => WithFirst(e, role) \notin {"none", "staff"}
         /\ e \in {"none", "staff", "owner"} => WithFirst(e, role) = role
  <1>1. Added(role, "owner") \in {"staffThenOwner", "ownerTwice"}
    BY DEF Added, First
  <1>2. QED
    BY <1>1 DEF WithFirst, Entries

-----------------------------------------------------------------------------
(* The initial state.                                                       *)

LEMMA UnlistedType == Unlisted \in Business
  BY DEF Unlisted, Business, Entries, NoTeam, Unclaimed, Verified, NoClaim

LEMMA NoClaimYetType == NoClaimYet \in Claim
  BY DEF NoClaimYet, Claim, Statuses, Kinds

LEMMA IdleSound == Idle \in Request /\ Sound(Idle) /\ Idle.step = "idle"
  BY UnlistedType, NoClaimYetType
  DEF Idle, Request, Steps, Sound, ClaimSteps, NoClaim, Closings, Kinds

LEMMA InitIInv ==
  ASSUME Init
  PROVE  IInv
  <1>1. business \in Business
    <2>1. CASE business \in {Unlisted, [Unlisted EXCEPT !.status = "active"]}
      BY <2>1, UnlistedType DEF Business
    <2>2. ASSUME NEW u \in Users,
                 business = [Unlisted EXCEPT !.status = "active", !.members[u] = "owner",
                                             !.owner = u, !.level = Verified]
          PROVE  business \in Business
      <3>1. [NoTeam EXCEPT ![u] = "owner"] \in [Users -> Entries]
        BY DEF NoTeam, Entries
      <3>2. business = [status |-> "active", members |-> [NoTeam EXCEPT ![u] = "owner"],
                        owner |-> u, level |-> Verified, frozen |-> FALSE,
                        dispute |-> NoClaim]
        BY <2>2 DEF Unlisted
      <3>3. QED
        BY <3>1, <3>2 DEF Business, Unclaimed, Verified, NoClaim
    <2>3. QED
      BY <2>1, <2>2 DEF Init
  <1>2. Documents
    BY <1>1, NoClaimYetType DEF Init, Documents
  <1>3. Requests
    BY IdleSound DEF Init, Requests, Current, TeamSteps
  <1>4. Others
    <2>1. asked = 0 /\ crashes = 0 /\ overtaken = {}
      BY DEF Init
    <2>2. placed \in SUBSET Users
      BY DEF Init, Owners, OwnersAmong
    <2>3. QED
      BY <2>1, <2>2, ClaimConstants DEF Others
  <1>5. QED
    BY <1>2, <1>3, <1>4 DEF IInv

-----------------------------------------------------------------------------
(* How a step changes its request, and what saving does.                    *)

\* The caller turns to r; the members stay as they are.
LEMMA Turned ==
  ASSUME Requests, NEW p \in Callers, NEW r \in Request, Sound(r),
         Current(r, business.members), business'.members = business.members,
         request' = [request EXCEPT ![p] = r]
  PROVE  Requests'
  BY DEF Requests

LEMMA Finished ==
  ASSUME Requests, NEW p \in Callers, business'.members = business.members, Done(p)
  PROVE  Requests'
  BY IdleSound, Turned DEF Done, Current, TeamSteps

LEMMA Begun ==
  ASSUME IInv, NEW p \in Callers, NEW r \in Request, Sound(r),
         Current(r, business.members), business'.members = business.members, Begin(p, r)
  PROVE  Requests' /\ asked' \in 0 .. MaxRequests
  <1>1. Requests'
    BY Turned DEF Begin, IInv
  <1>2. asked' \in 0 .. MaxRequests
    BY ClaimConstants DEF Begin, IInv, Others
  <1>3. QED
    BY <1>1, <1>2

\* The caller goes on to a step that replaces no members.
LEMMA Gone ==
  ASSUME Requests, NEW p \in Callers, NEW s \in ClaimSteps \ (TeamSteps \cup {"close"}),
         Step(p) \in ClaimSteps, business'.members = business.members, Goto(p, s)
  PROVE  Requests'
  <1> DEFINE r == [request[p] EXCEPT !.step = s]
  <1>1. request[p] \in Request /\ Sound(request[p])
    BY DEF Requests
  <1>2. r \in Request /\ r.step = s /\ r.claim = request[p].claim
        /\ r.user = request[p].user /\ r.was = request[p].was
    BY <1>1 DEF Request, ClaimSteps
  <1>3. Sound(r) /\ Current(r, business.members)
    BY <1>1, <1>2 DEF Sound, Current, ClaimSteps, Step
  <1>4. QED
    BY <1>2, <1>3, Turned DEF Goto

LEMMA Loaded ==
  ASSUME Requests, business \in Business, NEW p \in Callers,
         NEW s \in {"join", "dispute", "closeSave", "approveSave"},
         Step(p) \in ClaimSteps, UNCHANGED business, LoadBusiness(p, s)
  PROVE  Requests'
  <1> DEFINE r == [request[p] EXCEPT !.step = s, !.seen = business, !.fresh = TRUE]
  <1>1. request[p] \in Request /\ Sound(request[p])
    BY DEF Requests
  <1>2. r \in Request /\ r.step = s /\ r.claim = request[p].claim /\ r.seen = business
        /\ r.user = request[p].user /\ r.was = request[p].was
    BY <1>1 DEF Request, Steps
  <1>3. Sound(r) /\ Current(r, business.members)
    BY <1>1, <1>2 DEF Sound, Current, ClaimSteps, Steps, Step
  <1>4. request' = [request EXCEPT ![p] = r]
    BY <1>1 DEF LoadBusiness, Requests
  <1>5. QED
    BY <1>2, <1>3, <1>4, Turned

LEMMA Overtook ==
  ASSUME Requests, NEW p \in Callers, NEW next \in Request, Sound(next),
         next.step \notin TeamSteps, Overtake(p, next)
  PROVE  Requests'
  <1>1. request' = [q \in Callers |->
            IF q = p THEN next ELSE [request[q] EXCEPT !.fresh = FALSE]]
    BY DEF Overtake
  <1>2. ASSUME NEW q \in Callers
        PROVE  /\ request'[q] \in Request
               /\ Sound(request'[q])
               /\ Current(request'[q], business'.members)
    <2>1. request[q] \in Request /\ Sound(request[q])
      BY DEF Requests
    <2>2. CASE q = p
      BY <1>1, <2>2 DEF Current
    <2>3. CASE q # p
      <3>1. request'[q] = [request[q] EXCEPT !.fresh = FALSE]
        BY <1>1, <2>3
      <3>2. QED
        BY <2>1, <3>1 DEF Request, Sound, Current
    <2>4. QED
      BY <2>2, <2>3
  <1>3. QED
    BY <1>1, <1>2 DEF Requests

LEMMA MergedType ==
  ASSUME NEW p \in Callers, Seen(p) \in Business, business \in Business,
         NEW new \in Business, NEW members \in [Users -> Entries]
  PROVE  /\ Merged(p, new, members) \in Business
         /\ Merged(p, new, members).members = members
  <1> DEFINE F == {"status", "members", "owner", "level", "frozen", "dispute"}
  <1>1. DOMAIN new = F
    BY DEF Business
  <1>2. Merged(p, new, members) =
          [f \in F |-> IF f = "members" THEN members
                       ELSE IF new[f] # Seen(p)[f] THEN new[f] ELSE business[f]]
    BY <1>1 DEF Merged
  <1>3. QED
    BY <1>2 DEF Business, Entries

\* What a caller may hold while it saves.
Ready(p, new, next) ==
    /\ new \in Business
    /\ next \in Request /\ Sound(next) /\ next.step \notin TeamSteps

LEMMA PathsSaved ==
  ASSUME IInv, NEW p \in Callers, NEW new, NEW next, Ready(p, new, next),
         SavePaths(p, new, next)
  PROVE  /\ Requests' /\ business' \in Business
         /\ business'.members = business.members
  <1>1. Seen(p) \in Business /\ business.members \in [Users -> Entries]
    BY DEF IInv, Requests, Request, Documents, Business, Entries, Seen
  <1>2. business' \in Business /\ business'.members = business.members
    BY <1>1, MergedType DEF SavePaths, Ready, IInv, Documents
  <1>3. Requests'
    BY <1>2, Turned DEF SavePaths, Ready, Current, IInv
  <1>4. QED
    BY <1>2, <1>3

LEMMA PushSaved ==
  ASSUME IInv, NEW p \in Callers, NEW new, NEW u, NEW next, Ready(p, new, next),
         SavePushed(p, new, u, next)
  PROVE  /\ Requests' /\ business' \in Business
         /\ \A v \in Users \ {u} : business'.members[v] = business.members[v]
  <1> DEFINE members == [business.members EXCEPT ![u] = Added(@, new.members[u])]
  <1>1. Seen(p) \in Business /\ business.members \in [Users -> Entries]
    BY DEF IInv, Requests, Request, Documents, Business, Entries, Seen
  <1>2. new.members \in [Users -> Entries]
    BY DEF Ready, Business, Entries
  <1>3. members \in [Users -> Entries] /\ \A v \in Users \ {u} : members[v] = business.members[v]
    <2>1. u \in Users => Added(business.members[u], new.members[u]) \in Entries
      BY <1>1, <1>2, AddedEntry
    <2>2. QED
      BY <1>1, <2>1
  <1>4. business' \in Business /\ business'.members = members
    BY <1>1, <1>3, MergedType DEF SavePushed, Ready, IInv, Documents
  <1>5. Requests'
    BY Overtook DEF SavePushed, Ready, IInv
  <1>6. QED
    BY <1>3, <1>4, <1>5

\* The members are replaced only while they are still those that were loaded.
LEMMA MembersSaved ==
  ASSUME IInv, NEW p \in Callers, NEW new, NEW next, Ready(p, new, next),
         Step(p) \in TeamSteps, SaveMembers(p, new, next)
  PROVE  /\ Requests' /\ business' \in Business
         /\ \A v \in Users : business'.members[v] # business.members[v] =>
                                new.members[v] # Seen(p).members[v]
  <1>1. Seen(p) \in Business /\ new.members \in [Users -> Entries]
    BY DEF IInv, Requests, Request, Seen, Ready, Business, Entries
  <1>2. CASE request[p].fresh
    <2>1. business' \in Business /\ business'.members = new.members
      BY <1>1, <1>2, MergedType DEF SaveMembers, Ready, IInv, Documents
    <2>2. Requests'
      BY <1>2, Overtook DEF SaveMembers, Ready, IInv
    <2>3. Seen(p).members = business.members
      BY <1>2 DEF IInv, Requests, Current, Seen, Step
    <2>4. QED
      BY <2>1, <2>2, <2>3
  <1>3. CASE ~request[p].fresh
    BY <1>3, Finished DEF SaveMembers, IInv, Documents
  <1>4. QED
    BY <1>2, <1>3

-----------------------------------------------------------------------------
(* Beginning a request.                                                     *)

\* What a step may do to the team: no more than a request about the user asks.
Acts(p, u) ==
    /\ request'[p] # request[p]
    /\ request[p].user = u \/ Step(p) = "owner" \/ u \in Replaced(p)

TeamStep ==
    \A u \in Users : business'.members[u] # business.members[u] =>
        \E p \in Callers : Acts(p, u)

LEMMA Asked ==
  ASSUME IInv, NEW p \in Callers, NEW r \in Request, Sound(r),
         Current(r, business.members), business' \in Business,
         business'.members = business.members, Begin(p, r),
         UNCHANGED <<claim, invited, crashes, history>>
  PROVE  IInv' /\ TeamStep
  <1>1. Requests' /\ asked' \in 0 .. MaxRequests
    BY Begun
  <1>2. Documents' /\ Others'
    BY <1>1 DEF IInv, Documents, Others, history
  <1>3. QED
    BY <1>1, <1>2 DEF IInv, TeamStep

LEMMA StartingSound ==
  ASSUME NEW u \in Users, NEW k \in Kinds, NEW members
  PROVE  /\ Starting(u, k) \in Request /\ Sound(Starting(u, k))
         /\ Current(Starting(u, k), members)
  BY IdleSound DEF Starting, Request, Sound, Current, ClaimSteps, TeamSteps, Steps, Kinds

LEMMA OnSound ==
  ASSUME IInv, NEW c \in Claims, NEW members,
         NEW s \in {"phone", "submit", "info", "close", "approveLoad"},
         NEW to \in Closings \cup {"none"}, s = "close" => to \in Closings
  PROVE  /\ On(c, s, to) \in Request /\ Sound(On(c, s, to))
         /\ Current(On(c, s, to), members)
  <1>1. claim[c] \in Claim
    BY DEF IInv, Documents
  <1>2. claim[c].user \in Users \cup {Nobody}
    BY <1>1 DEF Claim
  <1>3. QED
    BY <1>1, <1>2, IdleSound
    DEF On, Request, Sound, Current, ClaimSteps, TeamSteps, Steps, Closings

LEMMA MemberSound ==
  ASSUME IInv, NEW u \in Users, NEW s \in {"accept", "role", "owner"}, NEW to \in Roles,
         s = "accept" => to # "none",
         NEW r, r = [Idle EXCEPT !.step = s, !.user = u, !.to = to, !.seen = business]
  PROVE  r \in Request /\ Sound(r) /\ Current(r, business.members)
  <1>1. business \in Business
    BY DEF IInv, Documents
  <1>2. QED
    BY <1>1, IdleSound
    DEF Request, Sound, Current, ClaimSteps, Steps, Roles

LEMMA AskStep ==
  ASSUME IInv, NEW p \in Callers, Ask(p)
  PROVE  IInv' /\ TeamStep
  <1>1. ASSUME NEW u \in Users, Start(p, u) \/ StartReverification(p, u)
        PROVE  IInv' /\ TeamStep
    <2>1. PICK k \in Kinds : Begin(p, Starting(u, k))
      BY <1>1 DEF Start, StartReverification, Kinds
    <2>2. UNCHANGED <<claim, business, invited, crashes, history>>
      BY <1>1 DEF Start, StartReverification
    <2>3. QED
      BY <2>1, <2>2, StartingSound, Asked DEF IInv, Documents
  <1>2. ASSUME NEW u \in Users, StartNewBusiness(p, u)
        PROVE  IInv' /\ TeamStep
    <2>1. business' \in Business /\ business'.members = business.members
      BY <1>2 DEF StartNewBusiness, IInv, Documents, Business
    <2>2. "new" \in Kinds
      BY DEF Kinds
    <2>3. QED
      BY <1>2, <2>1, <2>2, StartingSound, Asked DEF StartNewBusiness
  <1>3. ASSUME NEW u \in Users, NEW s \in {"accept", "role", "owner"}, NEW to \in Roles,
               s = "accept" => to # "none", Member(p, s, u, to),
               UNCHANGED <<claim, business, invited, crashes, history>>
        PROVE  IInv' /\ TeamStep
    BY <1>3, MemberSound, Asked DEF Member, IInv, Documents
  <1>4. ASSUME NEW u \in Users, ChangeOwner(p, u)
        PROVE  IInv' /\ TeamStep
    BY <1>3, <1>4 DEF ChangeOwner, Roles
  <1>5. ASSUME NEW u \in Users, NEW role \in {"staff", "owner"}, AcceptInvite(p, u, role)
        PROVE  IInv' /\ TeamStep
    BY <1>3, <1>5 DEF AcceptInvite, Roles
  <1>6. ASSUME NEW u \in Users, NEW role \in Roles, ChangeMember(p, u, role)
        PROVE  IInv' /\ TeamStep
    BY <1>3, <1>6 DEF ChangeMember
  <1>7. ASSUME NEW c \in Claims,
               NEW s \in {"phone", "submit", "info", "close", "approveLoad"},
               NEW to \in Closings \cup {"none"}, s = "close" => to \in Closings,
               Begin(p, On(c, s, to)),
               UNCHANGED <<claim, business, invited, crashes, history>>
        PROVE  IInv' /\ TeamStep
    BY <1>7, OnSound, Asked DEF IInv, Documents
  <1>8. ASSUME NEW c \in Claims,
               \/ VerifyCode(p, c) \/ Submit(p, c) \/ RequestInfo(p, c) \/ Withdraw(p, c)
               \/ Reject(p, c) \/ Expire(p, c) \/ Approve(p, c)
        PROVE  IInv' /\ TeamStep
    BY <1>7, <1>8 DEF VerifyCode, Submit, RequestInfo, Withdraw, Reject, Expire, Approve,
       Closings
  <1>9. QED
    BY <1>1, <1>2, <1>4, <1>5, <1>6, <1>8 DEF Ask, Roles

-----------------------------------------------------------------------------
(* The steps of a request.                                                  *)

\* A step that leaves the team alone.
LEMMA Quietly ==
  ASSUME IInv, Requests', business' \in Business, business'.members = business.members,
         claim' \in [Claims -> Claim], invited' \in SUBSET Users,
         overtaken' \in SUBSET Claims, placed' \in SUBSET Users,
         UNCHANGED asked, crashes' \in 0 .. MaxCrashes
  PROVE  IInv' /\ TeamStep
  BY DEF IInv, Documents, Others, TeamStep

\* A step of p that changes the team.
LEMMA Publicly ==
  ASSUME IInv, Requests', business' \in Business, NEW p \in Callers,
         \A u \in Users : business'.members[u] # business.members[u] => Acts(p, u),
         claim' \in [Claims -> Claim], invited' \in SUBSET Users,
         overtaken' \in SUBSET Claims, placed' \in SUBSET Users,
         UNCHANGED <<asked, crashes>>
  PROVE  IInv' /\ TeamStep
  BY DEF IInv, Documents, Others, TeamStep

LEMMA Noted ==
  ASSUME IInv, NEW p \in Callers, request[p].claim \in Claims, NoteOvertaken(p)
  PROVE  overtaken' \in SUBSET Claims
  BY DEF IInv, Others, NoteOvertaken

LEMMA Held ==
  ASSUME IInv, NEW p \in Callers
  PROVE  /\ request[p] \in Request /\ Sound(request[p])
         /\ Step(p) \in ClaimSteps =>
                /\ request[p].claim \in Claims
                /\ request[p].user = Claimant(p)
                /\ claim[request[p].claim] \in Claim
         /\ request[p].was \in Claim /\ Seen(p) \in Business /\ business \in Business
         /\ claim \in [Claims -> Claim] /\ invited \in SUBSET Users
         /\ overtaken \in SUBSET Claims /\ placed \in SUBSET Users
         /\ crashes \in 0 .. MaxCrashes
  BY DEF IInv, Requests, Documents, Others, Request, Sound, Seen, Step, Claimant

LEMMA CreateStep ==
  ASSUME IInv, NEW p \in Callers, CreateClaim(p)
  PROVE  IInv' /\ TeamStep
  <1>1. PICK c \in Claims : claim' = [claim EXCEPT ![c] = [NoClaimYet EXCEPT
            !.status = "draft", !.user = request[p].user,
            !.kind = request[p].to, !.waiting = "running"]]
    BY DEF CreateClaim
  <1>2. request[p].to \in Kinds /\ request[p].user \in Users \cup {Nobody}
    BY Held DEF CreateClaim, Sound, Step, Request
  <1>3. [NoClaimYet EXCEPT !.status = "draft", !.user = request[p].user,
                           !.kind = request[p].to, !.waiting = "running"] \in Claim
    BY <1>2 DEF NoClaimYet, Claim, Statuses, Open
  <1>4. claim' \in [Claims -> Claim]
    BY <1>1, <1>3, Held
  <1>5. Requests'
    BY Finished DEF CreateClaim, IInv
  <1>6. QED
    BY <1>4, <1>5, Held, Quietly DEF CreateClaim, rest, history

\* The saves of a claim after which its request is done.
LEMMA ClaimSaves ==
  ASSUME IInv, NEW p \in Callers,
         SaveSubmitted(p) \/ SaveInfoRequested(p) \/ SaveApproved(p)
  PROVE  IInv' /\ TeamStep
  <1> DEFINE c == request[p].claim
  <1>1. Step(p) \in ClaimSteps
    BY DEF SaveSubmitted, SaveInfoRequested, SaveApproved, ClaimSteps, Steps
  <1>2. c \in Claims /\ claim \in [Claims -> Claim] /\ claim[c].status \in Statuses
    BY <1>1, Held DEF Claim
  <1>3. PICK s \in Statuses, w \in {"no", "running"} :
          claim' = [claim EXCEPT ![c].status = s, ![c].waiting = w]
    BY <1>2 DEF SaveSubmitted, SaveInfoRequested, SaveApproved, Unless, Statuses, Open,
       Submitted
  <1>4. claim' \in [Claims -> Claim]
    BY <1>2, <1>3 DEF Claim
  <1>5. Requests'
    BY Finished DEF SaveSubmitted, SaveInfoRequested, SaveApproved, IInv, rest
  <1>6. overtaken' \in SUBSET Claims
    BY <1>2, Noted DEF SaveSubmitted, SaveInfoRequested, SaveApproved
  <1>7. UNCHANGED <<business, invited, asked, crashes, placed>>
    BY DEF SaveSubmitted, SaveInfoRequested, SaveApproved, rest
  <1>8. QED
    BY <1>4, <1>5, <1>6, <1>7, Held, Quietly

LEMMA PhoneSteps ==
  ASSUME IInv, NEW p \in Callers, SavePhone(p) \/ SaveDispute(p) \/ SaveClosed(p)
  PROVE  IInv' /\ TeamStep
  <1> DEFINE c == request[p].claim
  <1>1. Step(p) \in ClaimSteps
    BY DEF SavePhone, SaveDispute, SaveClosed, ClaimSteps, Steps
  <1>2. c \in Claims /\ claim \in [Claims -> Claim] /\ claim[c] \in Claim
    BY <1>1, Held
  <1>3. Rivals(p) \subseteq Users
    BY DEF Rivals, Owners, OwnersAmong
  <1>4. claim' \in [Claims -> Claim]
    <2>1. CASE SavePhone(p)
      BY <1>2, <2>1 DEF SavePhone, Touched, Claim
    <2>2. CASE SaveDispute(p)
      BY <1>2, <1>3, <2>2 DEF SaveDispute, Claim, Statuses, Open, Submitted
    <2>3. CASE SaveClosed(p)
      <3>1. request[p].to \in Statuses
        BY <2>3, Held DEF SaveClosed, Sound, Step, Statuses
      <3>2. QED
        BY <1>2, <2>3, <3>1 DEF SaveClosed, Claim
    <2>4. QED
      BY <2>1, <2>2, <2>3
  <1>5. UNCHANGED <<business, invited, asked, crashes, placed>>
    BY DEF SavePhone, SaveDispute, SaveClosed, rest
  <1>6. Requests'
    <2>1. CASE SavePhone(p)
      <3> DEFINE r == [request[p] EXCEPT !.step = "phoneLoad", !.was.phone = "passed"]
      <3>1. r = [request[p] EXCEPT !.step = "phoneLoad",
                                   !.was = [request[p].was EXCEPT !.phone = "passed"]]
        BY Held DEF Request
      <3>2. [request[p].was EXCEPT !.phone = "passed"] \in Claim
            /\ [request[p].was EXCEPT !.phone = "passed"].user = Claimant(p)
        BY Held DEF Claim, Claimant
      <3>3. r \in Request /\ r.step = "phoneLoad" /\ r.claim = c
            /\ r.user = request[p].user /\ r.was.user = Claimant(p)
        BY <3>1, <3>2, Held DEF Request, Steps
      <3>4. Sound(r) /\ Current(r, business.members)
        BY <1>1, <1>2, <3>3, Held DEF Sound, Current, ClaimSteps, TeamSteps
      <3>5. request' = [request EXCEPT ![p] = r]
        BY <2>1 DEF SavePhone, IInv, Requests
      <3>6. QED
        BY <1>5, <3>3, <3>4, <3>5, Turned DEF IInv
    <2>2. CASE SaveDispute(p)
      <3> DEFINE r == [request[p] EXCEPT !.step = "freeze", !.was.status = "disputed"]
      <3>1. r = [request[p] EXCEPT !.step = "freeze",
                                   !.was = [request[p].was EXCEPT !.status = "disputed"]]
        BY Held DEF Request
      <3>2. [request[p].was EXCEPT !.status = "disputed"] \in Claim
            /\ [request[p].was EXCEPT !.status = "disputed"].user = Claimant(p)
        BY Held DEF Claim, Claimant, Statuses, Open, Submitted
      <3>3. r \in Request /\ r.step = "freeze" /\ r.claim = c
            /\ r.user = request[p].user /\ r.was.user = Claimant(p)
        BY <3>1, <3>2, Held DEF Request, Steps
      <3>4. Sound(r) /\ Current(r, business.members)
        BY <1>1, <1>2, <3>3, Held DEF Sound, Current, ClaimSteps, TeamSteps
      <3>5. request' = [request EXCEPT ![p] = r]
        BY <2>2 DEF SaveDispute, IInv, Requests
      <3>6. QED
        BY <1>5, <3>3, <3>4, <3>5, Turned DEF IInv
    <2>3. CASE SaveClosed(p)
      BY <1>1, <1>5, <2>3, Gone DEF SaveClosed, Goto, ClaimSteps, TeamSteps, Steps, IInv
    <2>4. QED
      BY <2>1, <2>2, <2>3
  <1>7. overtaken' \in SUBSET Claims
    BY <1>2, Noted DEF SavePhone, SaveDispute, SaveClosed
  <1>8. QED
    BY <1>4, <1>5, <1>6, <1>7, Held, Quietly

LEMMA RefuseStep ==
  ASSUME IInv, NEW p \in Callers, RefuseDispute(p)
  PROVE  IInv' /\ TeamStep
  <1>1. Requests'
    BY Finished DEF RefuseDispute, IInv
  <1>2. QED
    BY <1>1, Held, Quietly DEF RefuseDispute, rest, history

LEMMA LoadSteps ==
  ASSUME IInv, NEW p \in Callers, LoadAfterPhone(p) \/ LoadForClose(p) \/ LoadForApprove(p)
  PROVE  IInv' /\ TeamStep
  <1>1. Step(p) \in ClaimSteps
    BY DEF LoadAfterPhone, RefuseDispute, LoadForClose, LoadForApprove, ClaimSteps, Steps
  <1>2. \/ Done(p)
        \/ \E s \in {"join", "dispute", "closeSave", "approveSave"} : LoadBusiness(p, s)
    BY DEF LoadAfterPhone, RefuseDispute, LoadForClose, LoadForApprove
  <1>3. UNCHANGED <<claim, business, rest, history>>
    BY DEF LoadAfterPhone, RefuseDispute, LoadForClose, LoadForApprove
  <1>4. Requests'
    BY <1>1, <1>2, <1>3, Finished, Loaded, Held DEF IInv
  <1>5. QED
    BY <1>3, <1>4, Held, Quietly DEF rest, history

-----------------------------------------------------------------------------
(* The saves of the listing.                                                *)

LEMMA ReadyIdle ==
  ASSUME NEW p \in Callers, NEW new \in Business
  PROVE  Ready(p, new, Idle)
  BY IdleSound DEF Ready, TeamSteps

\* A request that has begun to save and then rests.
LEMMA Rested ==
  ASSUME IInv, NEW p \in Callers, Step(p) # "idle", request'[p].step \in {"idle", "approveClaim"},
         Step(p) # "approveClaim"
  PROVE  request'[p] # request[p]
  BY DEF Step

LEMMA OvertakeMoves ==
  ASSUME IInv, NEW p \in Callers, NEW next, Overtake(p, next) \/ request' = [request EXCEPT ![p] = next]
  PROVE  request'[p] = next
  BY DEF Overtake, IInv, Requests

LEMMA FreezeStep ==
  ASSUME IInv, NEW p \in Callers, Freeze(p)
  PROVE  IInv' /\ TeamStep
  <1> DEFINE c == request[p].claim
             new == [Seen(p) EXCEPT !.frozen = TRUE, !.dispute = c]
  <1>1. c \in Claims
    BY Held DEF Freeze, ClaimSteps, Steps
  <1>2. new \in Business
    BY <1>1, Held DEF Business
  <1>3. Requests' /\ business' \in Business /\ business'.members = business.members
    BY <1>2, ReadyIdle, PathsSaved DEF Freeze
  <1>4. overtaken' \in SUBSET Claims
    BY <1>1, Held DEF Freeze
  <1>5. UNCHANGED <<claim, rest, placed>>
    BY DEF Freeze
  <1>6. QED
    BY <1>3, <1>4, <1>5, Held, Quietly DEF rest

-----------------------------------------------------------------------------
(* The listings that requests write are listings.                           *)

ListingStatuses == {"unlisted", "pending", "active", "archived"}

Ranked(b, members, owner, level) ==
  [b EXCEPT !.members = members, !.owner = owner, !.level = level]

LEMMA RankedType ==
  ASSUME NEW b \in Business, NEW members \in [Users -> Entries],
         NEW owner \in Users \cup {Nobody}, NEW level \in Unclaimed .. Verified
  PROVE  Ranked(b, members, owner, level) \in Business
  BY DEF Ranked, Business, Entries

LEMMA Fields ==
  ASSUME NEW b \in Business
  PROVE /\ b.members \in [Users -> Entries]
        /\ b.owner \in Users \cup {Nobody} /\ b.level \in Unclaimed .. Verified
        /\ b.status \in ListingStatuses
        /\ {Unclaimed, ClaimPending, Verified} \subseteq Unclaimed .. Verified
  BY DEF Business, Entries, ListingStatuses, Unclaimed, Verified, ClaimPending

LEMMA StatusType ==
  ASSUME NEW b \in Business, NEW status \in ListingStatuses
  PROVE  [b EXCEPT !.status = status] \in Business
  BY DEF Business, ListingStatuses

Joined(b, u) ==
  [b EXCEPT !.members[u] = IF Role(b, u) = "none" THEN "owner" ELSE @,
            !.owner = IF @ = Nobody THEN u ELSE @,
            !.level = IF @ < ClaimPending THEN ClaimPending ELSE @]

LEMMA JoinedType ==
  ASSUME NEW b \in Business, NEW u \in Users \cup {Nobody}
  PROVE  Joined(b, u) \in Business
  <1> DEFINE members == [b.members EXCEPT ![u] = IF Role(b, u) = "none" THEN "owner" ELSE @]
             owner == IF b.owner = Nobody THEN u ELSE b.owner
             level == IF b.level < ClaimPending THEN ClaimPending ELSE b.level
  <1>1. members \in [Users -> Entries] /\ owner \in Users \cup {Nobody}
        /\ level \in Unclaimed .. Verified
    BY Fields DEF Entries
  <1>2. Joined(b, u) = Ranked(b, members, owner, level)
    BY DEF Joined, Ranked
  <1> HIDE DEF members, owner, level
  <1>3. QED
    BY <1>1, <1>2, RankedType

LEMMA TakenType ==
  ASSUME NEW b \in Business, NEW u, NEW kind, NEW heir \in Users \cup {Nobody}
  PROVE  TakenBack(b, u, kind, heir) \in Business
  <1> DEFINE members == [b.members EXCEPT ![u] = "none"]
             owner == IF b.owner = u \/ heir = Nobody THEN heir ELSE b.owner
             level == IF heir = Nobody THEN Unclaimed ELSE b.level
             status == IF kind = "new" /\ b.status = "pending" THEN "archived" ELSE b.status
  <1>1. members \in [Users -> Entries] /\ owner \in Users \cup {Nobody}
        /\ level \in Unclaimed .. Verified /\ status \in ListingStatuses
    BY Fields DEF Entries, ListingStatuses
  <1>2. TakenBack(b, u, kind, heir) =
          [Ranked(b, members, owner, level) EXCEPT !.status = status]
    BY DEF TakenBack, Ranked
  <1> HIDE DEF members, owner, level, status
  <1>3. Ranked(b, members, owner, level) \in Business
    BY <1>1, RankedType
  <1>4. QED
    BY <1>1, <1>2, <1>3, StatusType

Decided(b, u, members, outcome) ==
  [b EXCEPT !.members = members,
            !.owner = IF @ = Nobody \/ outcome = "disputed" THEN u ELSE @,
            !.level = Verified, !.frozen = FALSE, !.dispute = NoClaim,
            !.status = IF @ = "pending" THEN "active" ELSE @]

LEMMA DecidedType ==
  ASSUME NEW b \in Business, NEW u \in Users \cup {Nobody},
         NEW members \in [Users -> Entries], NEW outcome
  PROVE  /\ Decided(b, u, members, outcome) \in Business
         /\ Decided(b, u, members, outcome).members = members
  <1> DEFINE owner == IF b.owner = Nobody \/ outcome = "disputed" THEN u ELSE b.owner
             status == IF b.status = "pending" THEN "active" ELSE b.status
  <1>1. owner \in Users \cup {Nobody} /\ status \in ListingStatuses
    BY Fields DEF ListingStatuses
  <1>2. Decided(b, u, members, outcome) =
          [Unfrozen(Ranked(b, members, owner, Verified)) EXCEPT !.status = status]
    BY DEF Decided, Ranked, Unfrozen
  <1>3. Decided(b, u, members, outcome).members = members
    BY DEF Decided, Business
  <1> HIDE DEF owner, status
  <1>4. Ranked(b, members, owner, Verified) \in Business
    BY <1>1, RankedType, Fields
  <1>5. Unfrozen(Ranked(b, members, owner, Verified)) \in Business
    BY <1>4 DEF Unfrozen, Business, NoClaim
  <1>6. QED
    BY <1>1, <1>2, <1>3, <1>5, StatusType

Led(b, u, members, to, heir) ==
  [b EXCEPT !.members = members, !.owner = IF to = "none" /\ @ = u THEN heir ELSE @]

LEMMA LedType ==
  ASSUME NEW b \in Business, NEW u, NEW to, NEW heir \in Users \cup {Nobody},
         NEW members \in [Users -> Entries]
  PROVE  /\ Led(b, u, members, to, heir) \in Business
         /\ Led(b, u, members, to, heir).members = members
  BY DEF Led, Business, Entries

Given(b, u, members) ==
  [b EXCEPT !.members = members, !.owner = u, !.frozen = FALSE, !.dispute = NoClaim]

LEMMA GivenType ==
  ASSUME NEW b \in Business, NEW u \in Users \cup {Nobody},
         NEW members \in [Users -> Entries]
  PROVE  Given(b, u, members) \in Business
  BY DEF Given, Business, Entries, NoClaim

-----------------------------------------------------------------------------
(* Requests that change the team.                                           *)

LEMMA JoinStep ==
  ASSUME IInv, NEW p \in Callers, Join(p)
  PROVE  IInv' /\ TeamStep
  <1> DEFINE u == Claimant(p)
             new == [Seen(p) EXCEPT
                        !.members[u] = IF Role(Seen(p), u) = "none" THEN "owner" ELSE @,
                        !.owner = IF @ = Nobody THEN u ELSE @,
                        !.level = IF @ < ClaimPending THEN ClaimPending ELSE @]
  <1>1. Step(p) = "join" /\ request[p].claim \in Claims /\ request[p].user = u
    BY Held DEF Join, ClaimSteps, Steps
  <1>2. u \in Users \cup {Nobody}
    BY Held DEF Claimant, Claim
  <1>3. new \in Business
    <2>1. Seen(p) \in Business
      BY Held
    <2>2. Joined(Seen(p), u) \in Business
      BY <1>2, <2>1, JoinedType
    <2>3. QED
      BY <2>2 DEF Joined
  <1>4. UNCHANGED <<claim, rest, placed>> /\ overtaken' \in SUBSET Claims
    BY <1>1, Noted DEF Join
  <1>5. CASE SavePaths(p, new, Idle)
    BY <1>3, <1>4, <1>5, ReadyIdle, PathsSaved, Held, Quietly DEF rest
  <1>6. CASE SavePushed(p, new, u, Idle)
    <2>1. /\ Requests' /\ business' \in Business
          /\ \A v \in Users \ {u} : business'.members[v] = business.members[v]
      BY <1>3, <1>6, ReadyIdle, PushSaved
    <2>2. request'[p] # request[p]
      BY <1>1, <1>6, OvertakeMoves, IdleSound DEF SavePushed, Step
    <2>3. \A v \in Users : business'.members[v] # business.members[v] => Acts(p, v)
      BY <1>1, <2>1, <2>2 DEF Acts
    <2>4. QED
      BY <1>4, <2>1, <2>3, Held, Publicly DEF rest
  <1>7. QED
    BY <1>5, <1>6 DEF Join

LEMMA AfterCloseType ==
  ASSUME NEW was \in Claim, NEW b \in Business, NEW new \in AfterClose(was, b)
  PROVE  /\ new \in Business
         /\ \A v \in Users \ {was.user} : new.members[v] = b.members[v]
  <1>1. CASE new = Unfrozen(b)
    BY <1>1 DEF Unfrozen, Business, NoClaim
  <1>2. CASE new = b
    BY <1>2
  <1>3. CASE \E heir \in Heirs([b.members EXCEPT ![was.user] = "none"]) :
                new = TakenBack(b, was.user, was.kind, heir)
    <2>1. PICK heir \in Heirs([b.members EXCEPT ![was.user] = "none"]) :
            new = TakenBack(b, was.user, was.kind, heir)
      BY <1>3
    <2>2. heir \in Users \cup {Nobody}
      BY <2>1 DEF Heirs, OwnersAmong
    <2>3. new \in Business
      BY <2>1, <2>2, TakenType
    <2>4. new.members = [b.members EXCEPT ![was.user] = "none"]
      BY <2>1 DEF TakenBack, Business
    <2>5. QED
      BY <2>3, <2>4 DEF Business
  <1>4. QED
    BY <1>1, <1>2, <1>3 DEF AfterClose

LEMMA AfterCloseStep ==
  ASSUME IInv, NEW p \in Callers, SaveAfterClose(p)
  PROVE  IInv' /\ TeamStep
  <1>1. PICK new \in AfterClose(request[p].was, Seen(p)) :
          IF new.members = Seen(p).members
          THEN SavePaths(p, new, Idle) /\ UNCHANGED overtaken
          ELSE /\ SaveMembers(p, new, Idle)
               /\ overtaken' = IF request[p].fresh THEN overtaken
                               ELSE overtaken \cup {request[p].claim}
    BY DEF SaveAfterClose
  <1>2. new \in Business
        /\ \A v \in Users \ {Claimant(p)} : new.members[v] = Seen(p).members[v]
    BY Held, AfterCloseType DEF Claimant
  <1>3. Step(p) = "closeSave" /\ request[p].claim \in Claims /\ request[p].user = Claimant(p)
    BY Held DEF SaveAfterClose, ClaimSteps, Steps
  <1>4. overtaken' \in SUBSET Claims
    BY <1>1, <1>3, Held
  <1>5. UNCHANGED <<claim, rest>> /\ placed' \in SUBSET Users
    BY Held DEF SaveAfterClose, StaysOn
  <1>6. CASE SavePaths(p, new, Idle)
    BY <1>2, <1>4, <1>5, <1>6, ReadyIdle, PathsSaved, Held, Quietly DEF rest
  <1>7. CASE SaveMembers(p, new, Idle)
    <2>1. /\ Requests' /\ business' \in Business
          /\ \A v \in Users : business'.members[v] # business.members[v] =>
                                new.members[v] # Seen(p).members[v]
      BY <1>2, <1>3, <1>7, ReadyIdle, MembersSaved DEF TeamSteps
    <2>2. request'[p] # request[p]
      BY <1>3, <1>7, OvertakeMoves, IdleSound DEF SaveMembers, Done, Step
    <2>3. \A v \in Users : business'.members[v] # business.members[v] => Acts(p, v)
      BY <1>2, <1>3, <2>1, <2>2 DEF Acts
    <2>4. QED
      BY <1>4, <1>5, <2>1, <2>3, Held, Publicly DEF rest
  <1>8. QED
    BY <1>1, <1>6, <1>7

LEMMA VerifiedStep ==
  ASSUME IInv, NEW p \in Callers, SaveVerified(p)
  PROVE  IInv' /\ TeamStep
  <1> DEFINE u == Claimant(p)
             b == Seen(p)
             kept == [v \in Users |-> IF v \in Replaced(p) THEN "none" ELSE b.members[v]]
             members == [kept EXCEPT
                ![u] = IF @ = "none" /\ b.owner = u THEN @ ELSE WithFirst(@, "owner")]
             new == [b EXCEPT
                !.members = members,
                !.owner = IF @ = Nobody \/ request[p].was.status = "disputed" THEN u ELSE @,
                !.level = Verified,
                !.frozen = FALSE,
                !.dispute = NoClaim,
                !.status = IF @ = "pending" THEN "active" ELSE @]
             next == [request[p] EXCEPT !.step = "approveClaim"]
  <1>1. Step(p) = "approveSave" /\ request[p].claim \in Claims /\ request[p].user = u
    BY Held DEF SaveVerified, ClaimSteps, Steps
  <1>2. u \in Users \cup {Nobody}
    BY Held DEF Claimant, Claim
  <1>3. members \in [Users -> Entries]
        /\ \A v \in Users : members[v] # b.members[v] => v = u \/ v \in Replaced(p)
    <2>1. b.members \in [Users -> Entries] /\ "none" \in Entries
      BY Held DEF Business, Entries
    <2>2. kept \in [Users -> Entries]
      BY <2>1
    <2>3. u \in Users => WithFirst(kept[u], "owner") \in Entries
      BY <2>2, WithFirstEntry
    <2>4. members \in [Users -> Entries]
      BY <2>2, <2>3
    <2>5. QED
      BY <2>1, <2>4
  <1>4. new \in Business /\ new.members = members
    <2>1. b \in Business
      BY Held
    <2>2. members \in [Users -> Entries]
      BY <1>3
    <2>3. LET d == Decided(b, u, members, request[p].was.status)
          IN  d \in Business /\ d.members = members
      <3> HIDE DEF members, b, u
      <3> QED
        BY <1>2, <2>1, <2>2, DecidedType
    <2>4. QED
      BY <2>3 DEF Decided
  <1>5. next \in Request /\ next.step = "approveClaim" /\ Sound(next)
    <2>1. next \in Request /\ next.step = "approveClaim" /\ next.claim = request[p].claim
          /\ next.user = request[p].user /\ next.was = request[p].was
      BY Held DEF Request, Steps
    <2>2. QED
      BY <1>1, <2>1 DEF Sound, Claimant
  <1>6. Ready(p, new, next)
    BY <1>4, <1>5 DEF Ready, TeamSteps
  <1>7. UNCHANGED <<claim, rest, overtaken>> /\ placed' \in SUBSET Users
    BY Held DEF SaveVerified
  <1>8. CASE SavePushed(p, new, u, next)
    <2>1. /\ Requests' /\ business' \in Business
          /\ \A v \in Users \ {u} : business'.members[v] = business.members[v]
      BY <1>6, <1>8, PushSaved
    <2>2. request'[p] # request[p]
      BY <1>1, <1>5, <1>8, OvertakeMoves DEF SavePushed, Step
    <2>3. \A v \in Users : business'.members[v] # business.members[v] => Acts(p, v)
      BY <1>1, <2>1, <2>2 DEF Acts
    <2>4. QED
      BY <1>7, <2>1, <2>3, Held, Publicly DEF rest
  <1>9. CASE SaveMembers(p, new, next)
    <2>1. /\ Requests' /\ business' \in Business
          /\ \A v \in Users : business'.members[v] # business.members[v] =>
                                new.members[v] # Seen(p).members[v]
      <3>1. Step(p) \in TeamSteps
        BY <1>1 DEF TeamSteps
      <3> HIDE DEF new, next
      <3>2. QED
        BY <1>6, <1>9, <3>1, MembersSaved
    <2>2. request'[p] = next \/ request'[p] = Idle
      BY <1>9, OvertakeMoves DEF SaveMembers, Done
    <2>3. request'[p] # request[p]
      BY <1>1, <1>5, <2>2, IdleSound DEF Step
    <2>4. \A v \in Users : business'.members[v] # business.members[v] => Acts(p, v)
      BY <1>1, <1>3, <1>4, <2>1, <2>3 DEF Acts
    <2>5. QED
      BY <1>7, <2>1, <2>4, Held, Publicly DEF rest
  <1>10. QED
    BY <1>8, <1>9 DEF SaveVerified

LEMMA AcceptedStep ==
  ASSUME IInv, NEW p \in Callers, SaveAccepted(p)
  PROVE  IInv' /\ TeamStep
  <1> DEFINE u == request[p].user
             new == [Seen(p) EXCEPT !.members[u] = request[p].to]
             members == [Seen(p).members EXCEPT ![u] = request[p].to]
  <1>1. Step(p) = "accept" /\ request[p].to \in {"staff", "owner"}
    BY Held DEF SaveAccepted, Sound, Step
  <1>2. members \in [Users -> Entries]
    BY <1>1, Held DEF Business, Entries
  <1>3. new \in Business
    BY <1>2, Held DEF Business, Entries
  <1>4. /\ UNCHANGED <<claim, asked, crashes, overtaken>>
        /\ placed' \in SUBSET Users /\ invited' \in SUBSET Users
    <2>1. u \in Users
      BY <1>1, Held DEF Sound, Step
    <2>2. QED
      BY <2>1, Held DEF SaveAccepted
  <1>5. CASE SavePushed(p, new, u, Idle)
    <2>1. /\ Requests' /\ business' \in Business
          /\ \A v \in Users \ {u} : business'.members[v] = business.members[v]
      BY <1>3, <1>5, ReadyIdle, PushSaved
    <2>2. request'[p] # request[p]
      BY <1>1, <1>5, OvertakeMoves, IdleSound DEF SavePushed, Step
    <2>3. \A v \in Users : business'.members[v] # business.members[v] => Acts(p, v)
      BY <2>1, <2>2 DEF Acts
    <2>4. QED
      BY <1>4, <2>1, <2>3, Held, Publicly
  <1>6. CASE Done(p) /\ UNCHANGED business
    BY <1>4, <1>6, Finished, Held, Quietly DEF IInv
  <1>7. QED
    BY <1>5, <1>6 DEF SaveAccepted

LEMMA HeirsType ==
  ASSUME NEW members, NEW heir \in Heirs(members)
  PROVE  heir \in Users \cup {Nobody}
  BY DEF Heirs, OwnersAmong

LEMMA MemberStep ==
  ASSUME IInv, NEW p \in Callers, SaveMember(p)
  PROVE  IInv' /\ TeamStep
  <1> DEFINE u == request[p].user
             members == [Seen(p).members EXCEPT
                ![u] = IF request[p].to = "none" THEN request[p].to
                       ELSE WithFirst(@, request[p].to)]
  <1>1. Step(p) = "role" /\ request[p].to \in Roles /\ u \in Users
    BY Held DEF SaveMember, Sound, Step
  <1>2. members \in [Users -> Entries]
        /\ \A v \in Users \ {u} : members[v] = Seen(p).members[v]
    <2>1. Seen(p).members \in [Users -> Entries]
      BY Held DEF Business, Entries
    <2>2. request[p].to # "none" => WithFirst(Seen(p).members[u], request[p].to) \in Entries
      BY <1>1, <2>1, WithFirstEntry DEF Roles
    <2>3. "none" \in Entries
      BY DEF Entries
    <2>4. QED
      BY <2>1, <2>2, <2>3
  <1>3. PICK heir \in Heirs(members) :
          SaveMembers(p, Led(Seen(p), u, members, request[p].to, heir), Idle)
    BY DEF SaveMember, Led
  <1> DEFINE new == Led(Seen(p), u, members, request[p].to, heir)
  <1>4. new \in Business /\ new.members = members
    <2>1. Seen(p) \in Business /\ heir \in Users \cup {Nobody}
      BY <1>3, HeirsType, Held
    <2>2. QED
      BY <1>2, <2>1, LedType
  <1>5. /\ Requests' /\ business' \in Business
        /\ \A v \in Users : business'.members[v] # business.members[v] =>
                                new.members[v] # Seen(p).members[v]
    BY <1>1, <1>3, <1>4, ReadyIdle, MembersSaved DEF TeamSteps
  <1>6. request'[p] # request[p]
    BY <1>1, <1>3, OvertakeMoves, IdleSound DEF SaveMembers, Done, Step
  <1>7. \A v \in Users : business'.members[v] # business.members[v] => Acts(p, v)
    BY <1>2, <1>4, <1>5, <1>6 DEF Acts
  <1>8. UNCHANGED <<claim, rest, overtaken>> /\ placed' \in SUBSET Users
    BY <1>1, Held DEF SaveMember
  <1>9. QED
    BY <1>5, <1>7, <1>8, Held, Publicly DEF rest

LEMMA OwnerStep ==
  ASSUME IInv, NEW p \in Callers, SaveOwner(p)
  PROVE  IInv' /\ TeamStep
  <1> DEFINE u == request[p].user
             b == Seen(p)
  <1>1. Step(p) = "owner" /\ u \in Users
    BY Held DEF SaveOwner, Sound, Step
  <1>2. PICK leaving \in {{}, Owners(b)} :
          SaveMembers(p,
            [b EXCEPT
                !.members = [v \in Users |->
                    IF v = u THEN "owner"
                    ELSE IF v \in leaving THEN "none" ELSE b.members[v]],
                !.owner = u, !.frozen = FALSE, !.dispute = NoClaim], Idle)
    BY DEF SaveOwner
  <1> DEFINE members == [v \in Users |->
                            IF v = u THEN "owner"
                            ELSE IF v \in leaving THEN "none" ELSE b.members[v]]
             new == [b EXCEPT !.members = members,
                              !.owner = u, !.frozen = FALSE, !.dispute = NoClaim]
  <1>3. members \in [Users -> Entries]
    BY Held DEF Business, Entries
  <1>4. new \in Business
    <2>1. b \in Business
      BY Held
    <2>2. Given(b, u, members) \in Business
      BY <1>1, <1>3, <2>1, GivenType
    <2>3. QED
      BY <2>2 DEF Given
  <1>5. Requests' /\ business' \in Business
    BY <1>1, <1>2, <1>4, ReadyIdle, MembersSaved DEF TeamSteps
  <1>6. request'[p] # request[p]
    BY <1>1, <1>2, OvertakeMoves, IdleSound DEF SaveMembers, Done, Step
  <1>7. UNCHANGED <<claim, rest, overtaken>> /\ placed' \in SUBSET Users
    BY <1>1, Held DEF SaveOwner
  <1>8. QED
    BY <1>1, <1>5, <1>6, <1>7, Held, Publicly DEF rest, Acts

-----------------------------------------------------------------------------
(* Steps that belong to no request, and the theorems.                       *)

LEMMA OtherSteps ==
  ASSUME IInv,
         \/ \E p \in Callers : Crash(p)
         \/ \E c \in Claims : SendCode(c) \/ DaysPass(c)
         \/ \E u \in Users : Invite(u)
         \/ UNCHANGED vars
  PROVE  IInv' /\ TeamStep
  <1>1. ASSUME NEW p \in Callers, Crash(p)
        PROVE  IInv' /\ TeamStep
    <2>1. crashes' \in 0 .. MaxCrashes
      BY <1>1, Held, ClaimConstants DEF Crash
    <2>2. QED
      BY <1>1, <2>1, Finished, Held, Quietly DEF Crash, history, IInv
  <1>2. ASSUME NEW c \in Claims, SendCode(c) \/ DaysPass(c)
        PROVE  IInv' /\ TeamStep
    <2>1. claim' \in [Claims -> Claim]
      BY <1>2 DEF SendCode, DaysPass, Touched, Claim, IInv, Documents
    <2>2. UNCHANGED <<business, request, rest, history>>
      BY <1>2 DEF SendCode, DaysPass
    <2>3. QED
      BY <2>1, <2>2 DEF rest, history, IInv, Requests, Documents, Others, TeamStep
  <1>3. ASSUME NEW u \in Users, Invite(u)
        PROVE  IInv' /\ TeamStep
    BY <1>3 DEF Invite, history, IInv, Requests, Documents, Others, TeamStep
  <1>4. CASE UNCHANGED vars
    BY <1>4 DEF vars, history, IInv, Requests, Documents, Others, TeamStep
  <1>5. QED
    BY <1>1, <1>2, <1>3, <1>4

LEMMA NextStep ==
  ASSUME IInv, [Next]_vars
  PROVE  IInv' /\ TeamStep
  <1>1. ASSUME NEW p \in Callers, Proceed(p)
        PROVE  IInv' /\ TeamStep
    BY <1>1, CreateStep, ClaimSaves, PhoneSteps, LoadSteps, FreezeStep, JoinStep,
       RefuseStep, AfterCloseStep, VerifiedStep, AcceptedStep, MemberStep, OwnerStep
    DEF Proceed
  <1>2. QED
    BY <1>1, AskStep, OtherSteps DEF Next

LEMMA IInvHolds == Spec => []IInv
  <1>1. Init => IInv
    BY InitIInv
  <1>2. IInv /\ [Next]_vars => IInv'
    BY NextStep
  <1>3. QED
    BY <1>1, <1>2, PTL DEF Spec

\* Claims, listing, requests and histories keep their types, whatever dies when.
THEOREM TypeCorrect == Spec => []TypeOK
  BY IInvHolds, IInvImpliesTypeOK, PTL

\* Nobody joins, leaves or changes role but by a request about him: no save of a
\* list of members loaded earlier undoes what another request did.
THEOREM TeamChanges == Spec => TeamChangesAsAsked
  <1>1. IInv /\ [Next]_vars => [\A u \in Users :
            business'.members[u] # business.members[u] =>
                \E p \in Callers :
                    /\ request'[p] # request[p]
                    /\ \/ request[p].user = u
                       \/ Step(p) = "owner"
                       \/ u \in Replaced(p)]_vars
    BY NextStep DEF TeamStep, Acts
  <1>2. QED
    BY <1>1, IInvHolds, PTL DEF Spec, TeamChangesAsAsked

-----------------------------------------------------------------------------
(* Whom claims and requests are about.                                      *)

\* Every claim has a claimant, who is not among those it is against.
Named ==
    \A c \in Claims :
        /\ claim[c].status = "none" <=> claim[c].user = Nobody
        /\ claim[c].user \notin claim[c].against

\* A request is about the claimant of its claim.
About(p) ==
    /\ Step(p) = "create" => request[p].user \in Users
    /\ Step(p) \in ClaimSteps =>
        /\ Claimant(p) \in Users
        /\ claim[request[p].claim].user = Claimant(p)
        /\ Claimant(p) \notin request[p].was.against

Names == Named /\ \A p \in Callers : About(p)

\* What a step of p leaves the other requests.
OnlyOwn(p) ==
    \A q \in Callers \ {p} :
        request'[q] \in {request[q], [request[q] EXCEPT !.fresh = FALSE]}

\* A request is over, or goes on with its claim.
Continues(p) ==
    \/ request'[p] = Idle
    \/ /\ Step(p) \in ClaimSteps
       /\ request'[p].step \in ClaimSteps
       /\ request'[p].claim = request[p].claim
       /\ request'[p].was.user = Claimant(p)
       /\ request'[p].was.against = request[p].was.against
       /\ request'[p].step = "closeSave" =>
            request'[p].seen = business /\ UNCHANGED business

\* A step of p writes its own claim only, and no other user into it.
OwnClaim(p) ==
    \A c \in Claims :
        \/ claim'[c] = claim[c]
        \/ /\ Step(p) \in ClaimSteps
           /\ c = request[p].claim
           /\ claim'[c].user = claim[c].user
           /\ claim'[c].against = claim[c].against \/ claim'[c].against = Rivals(p)
           /\ claim[c].status # "none" => claim'[c].status # "none"

LEMMA UserKnown ==
  ASSUME IInv, Names, NEW c \in Claims
  PROVE  claim[c].status # "none" => claim[c].user \in Users
  BY ClaimConstants DEF IInv, Documents, Claim, Names, Named

LEMMA OwnRequest ==
  ASSUME IInv, NEW p \in Callers, NEW r,
         request' = [request EXCEPT ![p] = r] \/ Overtake(p, r)
  PROVE  OnlyOwn(p) /\ request'[p] = r
  BY DEF OnlyOwn, Overtake, IInv, Requests

LEMMA SavedRequest ==
  ASSUME IInv, NEW p \in Callers, NEW new, NEW u, NEW r,
         SavePaths(p, new, r) \/ SavePushed(p, new, u, r) \/ SaveMembers(p, new, r)
  PROVE  OnlyOwn(p) /\ request'[p] \in {r, Idle}
  <1>1. \/ request' = [request EXCEPT ![p] = r] \/ Overtake(p, r)
        \/ request' = [request EXCEPT ![p] = Idle]
    BY DEF SavePaths, SavePushed, SaveMembers, Done
  <1>2. QED
    BY <1>1, OwnRequest

\* The requests after each step of a request that has begun.
LEMMA Continued ==
  ASSUME IInv, NEW p \in Callers, Proceed(p) \/ Crash(p)
  PROVE  OnlyOwn(p) /\ Continues(p)
  <1>1. ASSUME Done(p)
        PROVE  OnlyOwn(p) /\ Continues(p)
    BY <1>1, OwnRequest DEF Done, Continues
  <1>2. request[p] \in Request
    BY Held
  <1>3. CASE CreateClaim(p) \/ SaveSubmitted(p) \/ SaveInfoRequested(p) \/ SaveApproved(p)
             \/ RefuseDispute(p) \/ Crash(p)
    BY <1>1, <1>3 DEF CreateClaim, RefuseDispute, SaveSubmitted, SaveInfoRequested, SaveApproved, Crash
  <1>4. CASE SavePhone(p)
    <2> DEFINE w == [request[p].was EXCEPT !.phone = "passed"]
               r == [request[p] EXCEPT !.step = "phoneLoad", !.was = w]
    <2>1. request' = [request EXCEPT ![p] = r]
      BY <1>2, <1>4 DEF SavePhone, IInv, Requests, Request
    <2>2. w.user = Claimant(p) /\ w.against = request[p].was.against
      BY Held DEF Claimant, Claim
    <2>3. r.step = "phoneLoad" /\ r.claim = request[p].claim /\ r.was = w
      BY <1>2 DEF Request
    <2>4. OnlyOwn(p) /\ request'[p] = r
      BY <2>1, OwnRequest
    <2>5. QED
      BY <1>4, <2>2, <2>3, <2>4 DEF Continues, SavePhone, ClaimSteps, Steps
  <1>5. CASE SaveDispute(p)
    <2> DEFINE w == [request[p].was EXCEPT !.status = "disputed"]
               r == [request[p] EXCEPT !.step = "freeze", !.was = w]
    <2>1. request' = [request EXCEPT ![p] = r]
      BY <1>2, <1>5 DEF SaveDispute, IInv, Requests, Request
    <2>2. w.user = Claimant(p) /\ w.against = request[p].was.against
      BY Held DEF Claimant, Claim
    <2>3. r.step = "freeze" /\ r.claim = request[p].claim /\ r.was = w
      BY <1>2 DEF Request
    <2>4. OnlyOwn(p) /\ request'[p] = r
      BY <2>1, OwnRequest
    <2>5. QED
      BY <1>5, <2>2, <2>3, <2>4 DEF Continues, SaveDispute, ClaimSteps, Steps
  <1>6. ASSUME NEW s \in {"join", "dispute", "closeSave", "approveSave", "closeLoad"},
               Step(p) \in ClaimSteps,
               IF s = "closeLoad" THEN Goto(p, s)
               ELSE LoadBusiness(p, s) /\ UNCHANGED business
        PROVE  OnlyOwn(p) /\ Continues(p)
    <2>1. PICK b \in {business, Seen(p)}, f \in BOOLEAN :
            /\ s = "closeSave" => b = business /\ UNCHANGED business
            /\ request' = [request EXCEPT ![p] =
                [request[p] EXCEPT !.step = s, !.seen = b, !.fresh = f]]
      <3>1. CASE LoadBusiness(p, s) /\ UNCHANGED business
        BY <3>1 DEF LoadBusiness, IInv, Requests
      <3>2. CASE Goto(p, s) /\ s = "closeLoad"
        <4>1. [request[p] EXCEPT !.step = s] =
                [request[p] EXCEPT !.step = s, !.seen = Seen(p), !.fresh = request[p].fresh]
              /\ request[p].fresh \in BOOLEAN
          BY <1>2 DEF Request, Seen
        <4>2. QED
          BY <3>2, <4>1 DEF Goto
      <3>3. QED
        BY <1>6, <3>1, <3>2
    <2> DEFINE r == [request[p] EXCEPT !.step = s, !.seen = b, !.fresh = f]
    <2>2. r.step = s /\ r.claim = request[p].claim /\ r.was = request[p].was /\ r.seen = b
      BY <1>2 DEF Request
    <2>3. OnlyOwn(p) /\ request'[p] = r
      BY <2>1, OwnRequest
    <2>4. QED
      BY <1>6, <2>1, <2>2, <2>3 DEF Continues, Claimant, ClaimSteps, Steps
  <1>7. CASE LoadAfterPhone(p) \/ LoadForClose(p) \/ LoadForApprove(p) \/ SaveClosed(p)
    BY <1>1, <1>6, <1>7 DEF LoadAfterPhone, RefuseDispute, LoadForClose, LoadForApprove, SaveClosed,
       Goto, ClaimSteps, Steps
  <1>8. CASE Freeze(p) \/ Join(p) \/ SaveAfterClose(p) \/ SaveMember(p) \/ SaveOwner(p)
    <2>1. \E new, u : SavePaths(p, new, Idle) \/ SavePushed(p, new, u, Idle)
                      \/ SaveMembers(p, new, Idle)
      BY <1>8 DEF Freeze, Join, SaveAfterClose, SaveMember, SaveOwner
    <2>2. QED
      BY <2>1, SavedRequest DEF Continues
  <1>9. CASE SaveAccepted(p)
    <2>1. \/ \E new, u : SavePushed(p, new, u, Idle)
          \/ Done(p)
      BY <1>9 DEF SaveAccepted
    <2>2. QED
      BY <1>1, <2>1, SavedRequest DEF Continues
  <1>10. CASE SaveVerified(p)
    <2> DEFINE r == [request[p] EXCEPT !.step = "approveClaim"]
    <2>1. \E new, u : SavePushed(p, new, u, r) \/ SaveMembers(p, new, r)
      BY <1>10 DEF SaveVerified
    <2>2. OnlyOwn(p) /\ request'[p] \in {r, Idle}
      BY <2>1, SavedRequest
    <2>3. r.step = "approveClaim" /\ r.claim = request[p].claim /\ r.was = request[p].was
      BY <1>2 DEF Request
    <2>4. QED
      BY <1>10, <2>2, <2>3 DEF Continues, SaveVerified, Claimant, ClaimSteps, Steps
  <1>11. QED
    BY <1>3, <1>4, <1>5, <1>7, <1>8, <1>9, <1>10 DEF Proceed

LEMMA OwnClaimOnly ==
  ASSUME IInv, NEW p \in Callers, Proceed(p) \/ Crash(p), ~CreateClaim(p)
  PROVE  OwnClaim(p)
  <1> DEFINE c == request[p].claim
  <1>1. CASE UNCHANGED claim
    BY <1>1 DEF OwnClaim
  <1>2. CASE SavePhone(p) \/ SaveDispute(p) \/ SaveSubmitted(p) \/ SaveInfoRequested(p)
             \/ SaveClosed(p) \/ SaveApproved(p)
    <2>1. Step(p) \in ClaimSteps
      BY <1>2 DEF SavePhone, SaveDispute, SaveSubmitted, SaveInfoRequested, SaveClosed,
         SaveApproved, ClaimSteps, Steps
    <2>2. c \in Claims /\ claim \in [Claims -> Claim] /\ claim[c] \in Claim
      BY <2>1, Held
    <2>3. \A d \in Claims \ {c} : claim'[d] = claim[d]
      BY <1>2, <2>2 DEF SavePhone, SaveDispute, SaveSubmitted, SaveInfoRequested,
         SaveClosed, SaveApproved
    <2>4. claim'[c].user = claim[c].user
      BY <1>2, <2>2 DEF SavePhone, SaveDispute, SaveSubmitted, SaveInfoRequested,
         SaveClosed, SaveApproved, Claim
    <2>5. claim'[c].against = claim[c].against \/ claim'[c].against = Rivals(p)
      BY <1>2, <2>2 DEF SavePhone, SaveDispute, SaveSubmitted, SaveInfoRequested,
         SaveClosed, SaveApproved, Claim
    <2>6. claim[c].status # "none" => claim'[c].status # "none"
      <3>1. CASE SaveClosed(p)
        <4>1. request[p].to \in Closings
          BY <3>1, Held DEF SaveClosed, Sound, Step
        <4>2. QED
          BY <2>2, <3>1, <4>1 DEF SaveClosed, Closings, Claim
      <3>2. CASE ~SaveClosed(p)
        BY <1>2, <2>2, <3>2 DEF SavePhone, SaveDispute, SaveSubmitted, SaveInfoRequested,
           SaveApproved, Unless, Claim
      <3>3. QED
        BY <3>1, <3>2
    <2>7. QED
      BY <2>1, <2>3, <2>4, <2>5, <2>6 DEF OwnClaim
  <1>3. QED
    BY <1>1, <1>2 DEF Proceed, Crash, LoadAfterPhone, RefuseDispute, Freeze, Join, LoadForClose,
       SaveAfterClose, LoadForApprove, SaveVerified, SaveAccepted, SaveMember, SaveOwner

LEMMA InitNames ==
  ASSUME Init
  PROVE  Names
  BY IdleSound DEF Init, Names, Named, About, NoClaimYet, ClaimSteps, Step, Idle

LEMMA AboutOther ==
  ASSUME IInv, Names, NEW p \in Callers, NEW q \in Callers \ {p}, OnlyOwn(p),
         \A c \in Claims : claim[c].user \in Users => claim'[c].user = claim[c].user
  PROVE  About(q)'
  <1>1. request[q] \in Request /\ Sound(request[q]) /\ About(q)
    BY Held DEF Names
  <1>2. /\ request'[q].step = request[q].step /\ request'[q].claim = request[q].claim
        /\ request'[q].user = request[q].user /\ request'[q].was = request[q].was
    BY <1>1 DEF OnlyOwn, Request
  <1>3. QED
    BY <1>1, <1>2 DEF About, Step, Claimant, Sound

LEMMA AskNames ==
  ASSUME IInv, Names, NEW p \in Callers, Ask(p)
  PROVE  Names'
  <1>1. PICK r : Begin(p, r)
    BY DEF Ask, Start, StartNewBusiness, StartReverification, ChangeOwner, AcceptInvite,
       ChangeMember, Member, VerifyCode, Submit, RequestInfo, Withdraw, Reject, Expire,
       Approve
  <1>2. request'[p] = r /\ OnlyOwn(p)
    BY <1>1, OwnRequest DEF Begin
  <1>3. UNCHANGED claim
    BY DEF Ask, Start, StartNewBusiness, StartReverification, ChangeOwner, AcceptInvite,
       ChangeMember, VerifyCode, Submit, RequestInfo, Withdraw, Reject, Expire, Approve
  <1>4. About(p)'
    <2>1. ASSUME NEW u \in Users, NEW k, Begin(p, Starting(u, k))
          PROVE  About(p)'
      <3>1. request'[p] = Starting(u, k)
        BY <2>1, OwnRequest DEF Begin
      <3>2. Starting(u, k).step = "create" /\ Starting(u, k).user = u
        BY DEF Starting, Idle
      <3>3. QED
        BY <3>1, <3>2 DEF About, Step, ClaimSteps
    <2>2. ASSUME NEW u \in Users, NEW s \in {"accept", "role", "owner"}, NEW to,
                 Member(p, s, u, to)
          PROVE  About(p)'
      <3> DEFINE m == [Idle EXCEPT !.step = s, !.user = u, !.to = to, !.seen = business]
      <3>1. request'[p] = m
        BY <2>2, OwnRequest DEF Begin, Member
      <3>2. m.step = s
        BY DEF Idle
      <3>3. QED
        BY <3>1, <3>2 DEF About, Step, ClaimSteps
    <2>3. ASSUME NEW c \in Claims, claim[c].status # "none", NEW s \in Steps, s # "create",
                 NEW to, Begin(p, On(c, s, to))
          PROVE  About(p)'
      <3>1. request'[p] = On(c, s, to)
        BY <2>3, OwnRequest DEF Begin
      <3>2. On(c, s, to).step = s /\ On(c, s, to).claim = c /\ On(c, s, to).was = claim[c]
        BY DEF On, Idle
      <3>3. claim[c].user \in Users /\ claim[c].user \notin claim[c].against
        BY <2>3, UserKnown DEF Names, Named
      <3>4. QED
        BY <1>3, <2>3, <3>1, <3>2, <3>3 DEF About, Step, Claimant
    <2>4. CASE \E u \in Users : Start(p, u) \/ StartNewBusiness(p, u) \/ StartReverification(p, u)
      BY <2>1, <2>4 DEF Start, StartNewBusiness, StartReverification
    <2>5. CASE \E u \in Users :
                \/ ChangeOwner(p, u)
                \/ \E role \in {"staff", "owner"} : AcceptInvite(p, u, role)
                \/ \E role \in {"none", "staff", "owner"} : ChangeMember(p, u, role)
      BY <2>2, <2>5 DEF ChangeOwner, AcceptInvite, ChangeMember
    <2>6. CASE \E c \in Claims :
                \/ VerifyCode(p, c) \/ Submit(p, c) \/ RequestInfo(p, c) \/ Withdraw(p, c)
                \/ Reject(p, c) \/ Expire(p, c) \/ Approve(p, c)
      BY <2>3, <2>6 DEF VerifyCode, Submit, RequestInfo, Withdraw, Reject, Expire, Approve,
         Open, Submitted, Steps
    <2>7. QED
      BY <2>4, <2>5, <2>6 DEF Ask
  <1>5. \A q \in Callers \ {p} : About(q)'
    BY <1>2, <1>3, AboutOther
  <1>6. QED
    BY <1>3, <1>4, <1>5 DEF Names, Named

LEMMA CreateNames ==
  ASSUME IInv, Names, NEW p \in Callers, CreateClaim(p)
  PROVE  Names' /\ \A c \in Claims : claim[c].user \in Users => claim'[c].user = claim[c].user
  <1>1. PICK c \in Claims :
          /\ claim[c].status = "none"
          /\ claim' = [claim EXCEPT ![c] = [NoClaimYet EXCEPT
                !.status = "draft", !.user = request[p].user,
                !.kind = request[p].to, !.waiting = "running"]]
    BY DEF CreateClaim
  <1>2. claim \in [Claims -> Claim] /\ request[p].user \in Users
    BY Held DEF CreateClaim, Names, About
  <1>3. claim'[c].status = "draft" /\ claim'[c].user = request[p].user
        /\ claim'[c].against = {} /\ claim[c].user = Nobody
    BY <1>1, <1>2 DEF NoClaimYet, Names, Named
  <1>4. \A d \in Claims \ {c} : claim'[d] = claim[d]
    BY <1>1, <1>2
  <1>5. Named'
    BY <1>2, <1>3, <1>4, ClaimConstants DEF Names, Named
  <1>6. \A d \in Claims : claim[d].user \in Users => claim'[d].user = claim[d].user
    BY <1>3, <1>4, ClaimConstants
  <1>7. OnlyOwn(p) /\ request'[p] = Idle
    BY OwnRequest DEF CreateClaim, Done
  <1>8. About(p)'
    BY <1>7, IdleSound DEF About, Step, ClaimSteps
  <1>9. QED
    BY <1>5, <1>6, <1>7, <1>8, AboutOther DEF Names

LEMMA ProceedNames ==
  ASSUME IInv, Names, NEW p \in Callers, Proceed(p) \/ Crash(p), ~CreateClaim(p)
  PROVE  Names' /\ \A c \in Claims : claim'[c].user = claim[c].user
  <1>1. OnlyOwn(p) /\ Continues(p) /\ OwnClaim(p)
    BY Continued, OwnClaimOnly
  <1>2. \A c \in Claims : claim'[c].user = claim[c].user
    BY <1>1 DEF OwnClaim
  <1>3. ASSUME NEW c \in Claims
        PROVE  /\ claim'[c].status = "none" <=> claim'[c].user = Nobody
               /\ claim'[c].user \notin claim'[c].against
    <2>1. CASE claim'[c] = claim[c]
      BY <2>1 DEF Names, Named
    <2>2. CASE claim'[c] # claim[c]
      <3>1. /\ Step(p) \in ClaimSteps /\ c = request[p].claim
            /\ claim'[c].against = claim[c].against \/ claim'[c].against = Rivals(p)
            /\ claim[c].status # "none" => claim'[c].status # "none"
        BY <1>1, <2>2 DEF OwnClaim
      <3>2. Claimant(p) \in Users /\ claim[c].user = Claimant(p)
        BY <3>1 DEF Names, About
      <3>3. claim[c].status # "none" /\ claim[c].user # Nobody
        BY <3>2, ClaimConstants DEF Names, Named
      <3>4. QED
        BY <1>2, <3>1, <3>2, <3>3 DEF Names, Named, Rivals
    <2>3. QED
      BY <2>1, <2>2
  <1>4. About(p)'
    <2>1. CASE request'[p] = Idle
      BY <2>1, IdleSound DEF About, Step, ClaimSteps
    <2>2. CASE request'[p] # Idle
      <3>1. /\ Step(p) \in ClaimSteps /\ request'[p].step \in ClaimSteps
            /\ request'[p].claim = request[p].claim
            /\ request'[p].was.user = Claimant(p)
            /\ request'[p].was.against = request[p].was.against
        BY <1>1, <2>2 DEF Continues
      <3>2. request[p].claim \in Claims
        BY <3>1, Held
      <3>3. QED
        BY <1>2, <3>1, <3>2 DEF Names, About, Step, Claimant, ClaimSteps
    <2>3. QED
      BY <2>1, <2>2
  <1>5. \A q \in Callers \ {p} : About(q)'
    BY <1>1, <1>2, AboutOther
  <1>6. QED
    BY <1>2, <1>3, <1>4, <1>5 DEF Names, Named

LEMMA NamesStep ==
  ASSUME IInv, Names, [Next]_vars
  PROVE  Names' /\ \A c \in Claims : claim[c].user \in Users => claim'[c].user = claim[c].user
  <1>1. CASE \E p \in Callers : Ask(p)
    <2>1. UNCHANGED claim
      BY <1>1 DEF Ask, Start, StartNewBusiness, StartReverification, ChangeOwner,
         AcceptInvite, ChangeMember, VerifyCode, Submit, RequestInfo, Withdraw, Reject,
         Expire, Approve
    <2>2. QED
      BY <1>1, <2>1, AskNames
  <1>2. CASE \E p \in Callers : Proceed(p) \/ Crash(p)
    BY <1>2, CreateNames, ProceedNames
  <1>3. CASE \E c \in Claims : SendCode(c) \/ DaysPass(c)
    <2>1. PICK c \in Claims : SendCode(c) \/ DaysPass(c)
      BY <1>3
    <2>2. claim[c] \in Claim /\ claim \in [Claims -> Claim]
      BY DEF IInv, Documents
    <2>3. \A d \in Claims : /\ claim'[d].user = claim[d].user
                            /\ claim'[d].status = claim[d].status
                            /\ claim'[d].against = claim[d].against
      BY <2>1, <2>2 DEF SendCode, DaysPass, Claim
    <2>4. UNCHANGED request
      BY <2>1 DEF SendCode, DaysPass
    <2>5. \A q \in Callers : About(q)'
      BY <2>3, <2>4, Held DEF Names, About, Step, Claimant
    <2>6. QED
      BY <2>3, <2>5 DEF Names, Named
  <1>4. CASE (\E u \in Users : Invite(u)) \/ UNCHANGED vars
    <2>1. UNCHANGED <<claim, request>>
      BY <1>4 DEF Invite, vars
    <2>2. QED
      BY <2>1 DEF Names, Named, About, Step, Claimant
  <1>5. QED
    BY <1>1, <1>2, <1>3, <1>4 DEF Next

-----------------------------------------------------------------------------
(* The owners of a verified listing, and why members are on the team.       *)

\* A request that takes a member's role does not take the last owner's, unless he
\* has two entries; one that closes a claim, and has loaded a listing that is not
\* verified, replaces the members only if it is not verified yet.
Owning(p) ==
    /\ Step(p) = "role" => OfTwoEntries(p) \/ Owners(Seen(p)) # {request[p].user}
    /\ Step(p) = "closeSave" /\ request[p].fresh /\ Seen(p).level < Verified =>
            business.level < Verified

\* A member is on the team by a claim, or by none.
Reasons ==
    \A u \in Users : business.members[u] # "none" =>
        u \in placed \/ \E c \in Claims : claim[c].user = u

Keeping == Names /\ Reasons /\ \A p \in Callers : Owning(p)

\* When the listing is verified, whoever has loaded the members loads them again.
LevelStep ==
    business.level < Verified =>
        \/ business'.level < Verified
        \/ \A q \in Callers : request'[q].step = "closeSave" => ~request'[q].fresh

OwnersStep ==
    business.level = Verified /\ Owners(business) # {} =>
        \/ Owners(business') # {}
        \/ \E p \in Callers :
            /\ request'[p] # request[p]
            /\ \/ Step(p) = "approveSave" /\ OwnerOffTeam(p)
               \/ Step(p) = "role" /\ OfTwoEntries(p)

Outcome == LevelStep /\ OwnersStep /\ Reasons'

\* The claimants stay.
UsersKept == \A c \in Claims : claim[c].user \in Users => claim'[c].user = claim[c].user

LEMMA QuietOutcome ==
  ASSUME Keeping, UsersKept, business'.members = business.members,
         business'.level < Verified \/ business'.level = business.level,
         placed \subseteq placed'
  PROVE  Outcome
  <1>1. LevelStep
    BY DEF LevelStep
  <1>2. OwnersStep
    BY DEF OwnersStep, Owners, OwnersAmong
  <1>3. Reasons'
    BY DEF Reasons, Keeping, UsersKept
  <1>4. QED
    BY <1>1, <1>2, <1>3 DEF Outcome

LEMMA MergedLevel ==
  ASSUME IInv, NEW p \in Callers, NEW new \in Business, NEW members
  PROVE  /\ Merged(p, new, members).members = members
         /\ Merged(p, new, members).level =
                IF new.level # Seen(p).level THEN new.level ELSE business.level
  <1>1. {"members", "level"} \subseteq DOMAIN new
    BY DEF Business
  <1>2. QED
    BY <1>1 DEF Merged

\* What each kind of save leaves of members and level.
LEMMA SavedFields ==
  ASSUME IInv, NEW p \in Callers, NEW new \in Business, NEW u, NEW next
  PROVE  LET level == IF new.level # Seen(p).level THEN new.level ELSE business.level
         IN  /\ SavePaths(p, new, next) =>
                    business'.members = business.members /\ business'.level = level
             /\ SavePushed(p, new, u, next) =>
                    /\ business'.members = [business.members EXCEPT
                                ![u] = Added(@, new.members[u])]
                    /\ business'.level = level
             /\ SaveMembers(p, new, next) /\ request[p].fresh =>
                    business'.members = new.members /\ business'.level = level
             /\ SaveMembers(p, new, next) /\ ~request[p].fresh => business' = business
  BY MergedLevel DEF SavePaths, SavePushed, SaveMembers

LEMMA NoneFresh ==
  ASSUME IInv, NEW p \in Callers, NEW next, next.step # "closeSave", Overtake(p, next)
  PROVE  \A q \in Callers : request'[q].step = "closeSave" => ~request'[q].fresh
  <1>1. ASSUME NEW q \in Callers, q # p
        PROVE  ~request'[q].fresh
    <2>1. request[q] \in Request
      BY DEF IInv, Requests
    <2>2. request'[q] = [request[q] EXCEPT !.fresh = FALSE]
      BY <1>1 DEF Overtake
    <2>3. QED
      BY <2>1, <2>2 DEF Request
  <1>2. request'[p] = next
    BY DEF Overtake
  <1>3. QED
    BY <1>1, <1>2

LEMMA PushKeeps ==
  ASSUME IInv, NEW p \in Callers, NEW new \in Business, NEW u \in Users, NEW next,
         SavePushed(p, new, u, next)
  PROVE  /\ \A v \in Users \ {u} : business'.members[v] = business.members[v]
         /\ \A v \in Users : business.members[v] # "none" => business'.members[v] # "none"
         /\ Owners(business) \subseteq Owners(business')
  <1>1. business.members \in [Users -> Entries] /\ new.members \in [Users -> Entries]
    BY DEF IInv, Documents, Business, Entries
  <1>2. business'.members = [business.members EXCEPT ![u] = Added(@, new.members[u])]
    BY MergedLevel DEF SavePushed
  <1> DEFINE e == business.members[u]
  <1>3. /\ e # "none" => Added(e, new.members[u]) # "none"
        /\ e \notin {"none", "staff"} => Added(e, new.members[u]) \notin {"none", "staff"}
    BY <1>1, AddedKeeps
  <1>4. QED
    BY <1>1, <1>2, <1>3 DEF Owners, OwnersAmong

\* Somebody joins the team.
LEMMA PushOutcome ==
  ASSUME IInv, Keeping, UsersKept, NEW p \in Callers, NEW new \in Business, NEW u \in Users,
         NEW next, SavePushed(p, new, u, next), next.step # "closeSave",
         placed \subseteq placed', u \in placed' \/ \E c \in Claims : claim[c].user = u
  PROVE  Outcome
  <1>1. /\ \A v \in Users \ {u} : business'.members[v] = business.members[v]
        /\ Owners(business) \subseteq Owners(business')
    BY PushKeeps
  <1>2. LevelStep
    BY NoneFresh DEF LevelStep, SavePushed
  <1>3. OwnersStep
    BY <1>1 DEF OwnersStep
  <1>4. Reasons'
    BY <1>1 DEF Reasons, Keeping, UsersKept
  <1>5. QED
    BY <1>2, <1>3, <1>4 DEF Outcome

LEMMA JoinOutcome ==
  ASSUME IInv, Keeping, UsersKept, NEW p \in Callers, Join(p)
  PROVE  Outcome
  <1> DEFINE u == Claimant(p)
             new == [Seen(p) EXCEPT
                        !.members[u] = IF Role(Seen(p), u) = "none" THEN "owner" ELSE @,
                        !.owner = IF @ = Nobody THEN u ELSE @,
                        !.level = IF @ < ClaimPending THEN ClaimPending ELSE @]
  <1>1. request[p].claim \in Claims /\ u \in Users /\ claim[request[p].claim].user = u
    BY Held DEF Join, ClaimSteps, Steps, Keeping, Names, About
  <1>2. new \in Business
    <2>1. Joined(Seen(p), u) \in Business
      BY <1>1, Held, JoinedType
    <2>2. QED
      BY <2>1 DEF Joined
  <1>3. new.level = Seen(p).level \/ new.level < Verified
    BY Held DEF Business, ClaimPending, Verified
  <1>4. CASE SavePaths(p, new, Idle)
    BY <1>2, <1>3, <1>4, SavedFields, QuietOutcome DEF Join
  <1>5. CASE SavePushed(p, new, u, Idle)
    BY <1>1, <1>2, <1>5, IdleSound, PushOutcome DEF Join
  <1>6. QED
    BY <1>4, <1>5 DEF Join

LEMMA FreezeOutcome ==
  ASSUME IInv, Keeping, UsersKept, NEW p \in Callers, Freeze(p)
  PROVE  Outcome
  <1> DEFINE c == request[p].claim
             new == [Seen(p) EXCEPT !.frozen = TRUE, !.dispute = c]
  <1>1. c \in Claims
    BY Held DEF Freeze, ClaimSteps, Steps
  <1>2. new \in Business /\ new.level = Seen(p).level
    BY <1>1, Held DEF Business
  <1>3. QED
    BY <1>2, SavedFields, QuietOutcome DEF Freeze

\* What closing a claim writes: the listing as it was loaded, less the claimant.
LEMMA AfterCloseFields ==
  ASSUME NEW was \in Claim, NEW b \in Business, NEW new \in AfterClose(was, b)
  PROVE  /\ new.level = b.level \/ new.level < Verified
         /\ \A v \in Users : new.members[v] \in {b.members[v], "none"}
         /\ new.members # b.members => b.level < Verified
  <1>1. CASE new = Unfrozen(b)
    BY <1>1 DEF Unfrozen, Business
  <1>2. CASE new = b
    BY <1>2
  <1>3. CASE b.level < Verified /\ \E heir : new = TakenBack(b, was.user, was.kind, heir)
    <2>1. PICK heir : new = TakenBack(b, was.user, was.kind, heir)
      BY <1>3
    <2>2. new.members = [b.members EXCEPT ![was.user] = "none"]
          /\ new.level \in {b.level, Unclaimed}
      BY <2>1 DEF TakenBack, Business
    <2>3. QED
      BY <1>3, <2>2 DEF Business, Unclaimed, Verified
  <1>4. QED
    BY <1>1, <1>2, <1>3 DEF AfterClose

LEMMA CloseOutcome ==
  ASSUME IInv, Keeping, UsersKept, NEW p \in Callers, SaveAfterClose(p)
  PROVE  Outcome
  <1>1. PICK new \in AfterClose(request[p].was, Seen(p)) :
          IF new.members = Seen(p).members
          THEN SavePaths(p, new, Idle)
          ELSE SaveMembers(p, new, Idle)
    BY DEF SaveAfterClose
  <1>2. /\ new \in Business
        /\ new.level = Seen(p).level \/ new.level < Verified
        /\ \A v \in Users : new.members[v] \in {Seen(p).members[v], "none"}
        /\ new.members # Seen(p).members => Seen(p).level < Verified
    BY Held, AfterCloseType, AfterCloseFields
  <1>3. placed \subseteq placed'
    BY DEF SaveAfterClose
  <1>4. CASE SavePaths(p, new, Idle)
    BY <1>2, <1>3, <1>4, SavedFields, QuietOutcome
  <1>5. CASE SaveMembers(p, new, Idle) /\ ~request[p].fresh
    BY <1>2, <1>3, <1>5, SavedFields, QuietOutcome
  <1>6. CASE SaveMembers(p, new, Idle) /\ request[p].fresh /\ new.members # Seen(p).members
    <2>1. Seen(p).members = business.members /\ business.level < Verified
      BY <1>2, <1>6 DEF SaveAfterClose, IInv, Requests, Current, TeamSteps, Seen, Step,
         Keeping, Owning
    <2>2. business'.members = new.members
          /\ business'.level < Verified
      BY <1>2, <1>6, <2>1, SavedFields
    <2>3. LevelStep
      BY <2>2 DEF LevelStep
    <2>4. OwnersStep
      BY <2>1 DEF OwnersStep, IInv, Documents, Business, Verified
    <2>5. Reasons'
      BY <1>2, <1>3, <2>1, <2>2 DEF Reasons, Keeping, UsersKept
    <2>6. QED
      BY <2>3, <2>4, <2>5 DEF Outcome
  <1>7. QED
    BY <1>1, <1>4, <1>5, <1>6

\* The members after a decision, and how the claimant may miss his place.
LEMMA DecidedMembers ==
  ASSUME IInv, Keeping, NEW p \in Callers, Step(p) = "approveSave"
  PROVE  LET u == Claimant(p)
             b == Seen(p)
             kept == [v \in Users |-> IF v \in Replaced(p) THEN "none" ELSE b.members[v]]
             members == [kept EXCEPT
                ![u] = IF @ = "none" /\ b.owner = u THEN @ ELSE WithFirst(@, "owner")]
         IN  /\ u \in Users /\ claim[request[p].claim].user = u
             /\ request[p].claim \in Claims
             /\ u \in OwnersAmong(members) \/ OwnerOffTeam(p)
             /\ \A v \in Users \ {u} : members[v] = kept[v]
             /\ members \in [Users -> Entries]
  <1>1. request[p].claim \in Claims /\ Claimant(p) \in Users
        /\ claim[request[p].claim].user = Claimant(p)
        /\ Claimant(p) \notin Replaced(p)
    BY Held DEF ClaimSteps, Steps, Keeping, Names, About, Replaced
  <1>2. Seen(p).members \in [Users -> Entries] /\ "none" \in Entries
    BY Held DEF Business, Entries
  <1>3. WithFirst(Seen(p).members[Claimant(p)], "owner") \in Entries \ {"none", "staff"}
    BY <1>1, <1>2, WithFirstEntry
  <1>4. QED
    BY <1>1, <1>2, <1>3 DEF OwnerOffTeam, OwnersAmong

LEMMA VerifiedOutcome ==
  ASSUME IInv, Keeping, UsersKept, NEW p \in Callers, SaveVerified(p)
  PROVE  Outcome
  <1> DEFINE u == Claimant(p)
             b == Seen(p)
             kept == [v \in Users |-> IF v \in Replaced(p) THEN "none" ELSE b.members[v]]
             members == [kept EXCEPT
                ![u] = IF @ = "none" /\ b.owner = u THEN @ ELSE WithFirst(@, "owner")]
             new == [b EXCEPT
                !.members = members,
                !.owner = IF @ = Nobody \/ request[p].was.status = "disputed" THEN u ELSE @,
                !.level = Verified,
                !.frozen = FALSE,
                !.dispute = NoClaim,
                !.status = IF @ = "pending" THEN "active" ELSE @]
             next == [request[p] EXCEPT !.step = "approveClaim"]
  <1>1. /\ Step(p) = "approveSave" /\ u \in Users /\ request[p].claim \in Claims
        /\ claim[request[p].claim].user = u
        /\ u \in OwnersAmong(members) \/ OwnerOffTeam(p)
        /\ \A v \in Users \ {u} : members[v] = kept[v]
        /\ members \in [Users -> Entries]
    BY DecidedMembers DEF SaveVerified
  <1>2. new \in Business /\ new.members = members
    <2>1. b \in Business /\ members \in [Users -> Entries]
      BY <1>1, Held
    <2>2. LET d == Decided(b, u, members, request[p].was.status)
          IN  d \in Business /\ d.members = members
      <3> HIDE DEF members, b
      <3> QED
        BY <1>1, <2>1, DecidedType
    <2>3. QED
      BY <2>2 DEF Decided
  <1>3. next.step # "closeSave" /\ next.step # "approveSave"
    BY Held DEF Request
  <1>4. /\ IF kept = b.members /\ Role(b, u) = "none"
           THEN SavePushed(p, new, u, next)
           ELSE SaveMembers(p, new, next)
        /\ placed' = IF business' = business \/ request[p].was.status # "disputed"
                     THEN placed ELSE placed \ (request[p].was.against \ CameBack(p))
    BY DEF SaveVerified
  <1>5. UNCHANGED claim
    BY DEF SaveVerified
  <1> HIDE DEF members, new, next
  <1>6. CASE SavePushed(p, new, u, next) /\ kept = b.members
    <2>1. /\ \A v \in Users \ {u} : business'.members[v] = business.members[v]
          /\ Owners(business) \subseteq Owners(business')
      BY <1>1, <1>2, <1>6, PushKeeps
    <2>2. LevelStep
      BY <1>3, <1>6, NoneFresh DEF LevelStep, SavePushed
    <2>3. OwnersStep
      BY <2>1 DEF OwnersStep
    <2>4. Reasons'
      <3>1. ASSUME NEW v \in Users, v # u, business'.members[v] # "none",
                   v \in placed
            PROVE  v \in placed'
        <4>1. business.members[v] # "none"
          BY <2>1, <3>1
        <4>2. CASE request[p].was.status = "disputed" /\ v \in request[p].was.against
          <5>1. b.members[v] = "none"
            BY <1>6, <4>2 DEF Replaced
          <5>2. v \in CameBack(p)
            BY <4>1, <5>1 DEF CameBack
          <5>3. QED
            BY <1>4, <3>1, <5>2
        <4>3. QED
          BY <1>4, <3>1, <4>2
      <3>2. QED
        BY <1>1, <1>5, <2>1, <3>1 DEF Reasons, Keeping
    <2>5. QED
      BY <2>2, <2>3, <2>4 DEF Outcome
  <1>7. CASE SaveMembers(p, new, next) /\ ~request[p].fresh
    <2>1. business' = business
      BY <1>2, <1>7, SavedFields
    <2>2. QED
      BY <1>4, <2>1, QuietOutcome
  <1>8. CASE SaveMembers(p, new, next) /\ request[p].fresh
    <2>1. business'.members = members /\ b.members = business.members
      BY <1>1, <1>2, <1>8, SavedFields DEF IInv, Requests, Current, TeamSteps, Step, Seen
    <2>2. LevelStep
      BY <1>3, <1>8, NoneFresh DEF LevelStep, SaveMembers
    <2>3. OwnersStep
      <3>1. request'[p] \in {next, Idle}
        BY <1>8, OvertakeMoves DEF SaveMembers
      <3>2. request'[p] # request[p]
        BY <1>1, <1>3, <3>1, IdleSound DEF Step
      <3>3. QED
        BY <1>1, <2>1, <3>2 DEF OwnersStep, Owners
    <2>4. Reasons'
      <3>1. ASSUME NEW v \in Users, v # u, business'.members[v] # "none"
            PROVE  business.members[v] # "none" /\ (v \in placed => v \in placed')
        <4>1. v \notin Replaced(p) /\ b.members[v] # "none"
          BY <1>1, <2>1, <3>1
        <4>2. QED
          BY <1>4, <2>1, <4>1 DEF Replaced
      <3>2. QED
        BY <1>1, <1>5, <3>1 DEF Reasons, Keeping
    <2>5. QED
      BY <2>2, <2>3, <2>4 DEF Outcome
  <1>9. QED
    BY <1>4, <1>6, <1>7, <1>8

LEMMA AcceptOutcome ==
  ASSUME IInv, Keeping, UsersKept, NEW p \in Callers, SaveAccepted(p)
  PROVE  Outcome
  <1> DEFINE u == request[p].user
             new == [Seen(p) EXCEPT !.members[u] = request[p].to]
  <1>1. u \in Users /\ request[p].to \in {"staff", "owner"}
    BY Held DEF SaveAccepted, Sound, Step
  <1>2. new \in Business
    <2>1. [Seen(p).members EXCEPT ![u] = request[p].to] \in [Users -> Entries]
      BY <1>1, Held DEF Business, Entries
    <2>2. QED
      BY <2>1, Held DEF Business, Entries
  <1>3. placed \subseteq placed' /\ u \in placed'
    BY DEF SaveAccepted
  <1>4. CASE SavePushed(p, new, u, Idle)
    BY <1>1, <1>2, <1>3, <1>4, IdleSound, PushOutcome
  <1>5. CASE UNCHANGED business
    BY <1>3, <1>5, QuietOutcome
  <1>6. QED
    BY <1>4, <1>5 DEF SaveAccepted

LEMMA MemberOutcome ==
  ASSUME IInv, Keeping, UsersKept, NEW p \in Callers, SaveMember(p)
  PROVE  Outcome
  <1> DEFINE u == request[p].user
             members == [Seen(p).members EXCEPT
                ![u] = IF request[p].to = "none" THEN request[p].to
                       ELSE WithFirst(@, request[p].to)]
  <1>1. /\ Step(p) = "role" /\ u \in Users /\ request[p].to \in Roles
        /\ OfTwoEntries(p) \/ Owners(Seen(p)) # {u}
    BY Held DEF SaveMember, Sound, Step, Keeping, Owning
  <1>2. members \in [Users -> Entries]
        /\ \A v \in Users \ {u} : members[v] = Seen(p).members[v]
    <2>1. Seen(p).members \in [Users -> Entries] /\ "none" \in Entries
      BY Held DEF Business, Entries
    <2>2. request[p].to # "none" => WithFirst(Seen(p).members[u], request[p].to) \in Entries
      BY <1>1, <2>1, WithFirstEntry DEF Roles
    <2>3. QED
      BY <2>1, <2>2
  <1>3. PICK heir \in Heirs(members) :
          SaveMembers(p, Led(Seen(p), u, members, request[p].to, heir), Idle)
    BY DEF SaveMember, Led
  <1> DEFINE new == Led(Seen(p), u, members, request[p].to, heir)
  <1>4. new \in Business /\ new.members = members /\ new.level = Seen(p).level
    <2>1. Seen(p) \in Business /\ heir \in Users \cup {Nobody}
      BY <1>3, HeirsType, Held
    <2>2. new \in Business /\ new.members = members
      BY <1>2, <2>1, LedType
    <2>3. new.level = Seen(p).level
      BY <2>1 DEF Led, Business
    <2>4. QED
      BY <2>2, <2>3
  <1>5. placed' = placed \cup {u}
    BY DEF SaveMember
  <1> HIDE DEF members, new
  <1>6. CASE ~request[p].fresh
    BY <1>3, <1>4, <1>5, <1>6, SavedFields, QuietOutcome DEF new
  <1>7. CASE request[p].fresh
    <2>1. business'.members = members /\ business'.level = business.level
          /\ Seen(p).members = business.members
      BY <1>1, <1>3, <1>4, <1>7, SavedFields
      DEF new, IInv, Requests, Current, TeamSteps, Step, Seen
    <2>2. LevelStep
      BY <2>1 DEF LevelStep
    <2>3. OwnersStep
      <3>1. Owners(business) = Owners(Seen(p))
        BY <2>1 DEF Owners
      <3>2. ASSUME Owners(business) # {}, ~OfTwoEntries(p)
            PROVE  Owners(business') # {}
        <4>2. PICK v \in Owners(business) : v # u
          BY <1>1, <3>1, <3>2
        <4>3. v \in Users /\ business.members[v] \notin {"none", "staff"}
          BY <4>2 DEF Owners, OwnersAmong
        <4>4. business'.members[v] = business.members[v]
          BY <1>2, <2>1, <4>2, <4>3
        <4>5. QED
          BY <4>3, <4>4 DEF Owners, OwnersAmong
      <3>3. request'[p] # request[p]
        BY <1>1, <1>3, OvertakeMoves, IdleSound DEF SaveMembers, Done, Step
      <3>4. QED
        BY <1>1, <3>2, <3>3 DEF OwnersStep
    <2>4. Reasons'
      BY <1>2, <1>5, <2>1 DEF Reasons, Keeping, UsersKept
    <2>5. QED
      BY <2>2, <2>3, <2>4 DEF Outcome
  <1>8. QED
    BY <1>6, <1>7

LEMMA OwnerOutcome ==
  ASSUME IInv, Keeping, UsersKept, NEW p \in Callers, SaveOwner(p)
  PROVE  Outcome
  <1> DEFINE u == request[p].user
             b == Seen(p)
  <1>1. Step(p) = "owner" /\ u \in Users
    BY Held DEF SaveOwner, Sound, Step
  <1>2. PICK leaving \in {{}, Owners(b)} :
          SaveMembers(p,
            Given(b, u, [v \in Users |-> IF v = u THEN "owner"
                                         ELSE IF v \in leaving THEN "none"
                                         ELSE b.members[v]]), Idle)
    BY DEF SaveOwner, Given
  <1> DEFINE members == [v \in Users |-> IF v = u THEN "owner"
                                         ELSE IF v \in leaving THEN "none"
                                         ELSE b.members[v]]
             new == Given(b, u, members)
  <1>3. members \in [Users -> Entries] /\ members[u] = "owner"
        /\ \A v \in Users \ {u} : members[v] \in {b.members[v], "none"}
    BY <1>1, Held DEF Business, Entries
  <1> HIDE DEF members
  <1>4. new \in Business /\ new.members = members /\ new.level = b.level
    BY <1>1, <1>3, Held, GivenType DEF Given, Business, Entries
  <1>5. placed' = placed \cup {u}
    BY DEF SaveOwner
  <1> HIDE DEF new
  <1>6. CASE ~request[p].fresh
    BY <1>2, <1>4, <1>5, <1>6, SavedFields, QuietOutcome DEF new, members
  <1>7. CASE request[p].fresh
    <2>1. business'.members = members /\ business'.level = business.level
          /\ b.members = business.members
      BY <1>1, <1>2, <1>4, <1>7, SavedFields
      DEF new, members, IInv, Requests, Current, TeamSteps, Step, Seen
    <2>2. LevelStep
      BY <2>1 DEF LevelStep
    <2>3. OwnersStep
      BY <1>1, <1>3, <2>1 DEF OwnersStep, Owners, OwnersAmong
    <2>4. Reasons'
      BY <1>3, <1>5, <2>1 DEF Reasons, Keeping, UsersKept
    <2>5. QED
      BY <2>2, <2>3, <2>4 DEF Outcome
  <1>8. QED
    BY <1>6, <1>7

LEMMA StillOutcome ==
  ASSUME Keeping, UsersKept, UNCHANGED <<business, placed>>
  PROVE  Outcome
  BY QuietOutcome

LEMMA SteppedOutcome ==
  ASSUME IInv, Keeping, UsersKept, [Next]_vars
  PROVE  Outcome
  <1>1. ASSUME NEW p \in Callers, Ask(p)
        PROVE  Outcome
    <2>1. UNCHANGED placed /\ business'.members = business.members
          /\ business'.level = business.level
      BY <1>1 DEF Ask, Start, StartNewBusiness, StartReverification, ChangeOwner,
         AcceptInvite, ChangeMember, VerifyCode, Submit, RequestInfo, Withdraw, Reject,
         Expire, Approve, history, IInv, Documents, Business
    <2>2. QED
      BY <2>1, QuietOutcome
  <1>2. ASSUME NEW p \in Callers, Proceed(p) \/ Crash(p)
        PROVE  Outcome
    <2>1. CASE \/ CreateClaim(p) \/ SavePhone(p) \/ LoadAfterPhone(p) \/ SaveDispute(p)
               \/ SaveSubmitted(p) \/ SaveInfoRequested(p) \/ SaveClosed(p)
               \/ LoadForClose(p) \/ LoadForApprove(p) \/ SaveApproved(p)
               \/ RefuseDispute(p) \/ Crash(p)
      <3>1. UNCHANGED <<business, placed>>
        BY <2>1 DEF CreateClaim, SavePhone, LoadAfterPhone, RefuseDispute, SaveDispute, SaveSubmitted,
           SaveInfoRequested, SaveClosed, LoadForClose, LoadForApprove, SaveApproved,
           Crash, history
      <3>2. QED
        BY <3>1, StillOutcome
    <2>2. QED
      BY <1>2, <2>1, JoinOutcome, FreezeOutcome, CloseOutcome, VerifiedOutcome,
         AcceptOutcome, MemberOutcome, OwnerOutcome DEF Proceed
  <1>3. CASE \/ \E c \in Claims : SendCode(c) \/ DaysPass(c)
             \/ \E u \in Users : Invite(u)
             \/ UNCHANGED vars
    <2>1. UNCHANGED <<business, placed>>
      BY <1>3 DEF SendCode, DaysPass, Invite, vars, history
    <2>2. QED
      BY <2>1, StillOutcome
  <1>4. QED
    BY <1>1, <1>2, <1>3 DEF Next

LEMMA OwningOther ==
  ASSUME IInv, Keeping, LevelStep, NEW p \in Callers, NEW q \in Callers \ {p}, OnlyOwn(p)
  PROVE  Owning(q)'
  <1>1. request[q] \in Request /\ Owning(q)
    BY Held DEF Keeping
  <1>2. CASE request'[q] = request[q]
    BY <1>1, <1>2 DEF Owning, LevelStep, OfTwoEntries, Step, Seen
  <1>3. CASE request'[q] = [request[q] EXCEPT !.fresh = FALSE]
    <2>1. /\ request'[q].step = request[q].step /\ request'[q].seen = request[q].seen
          /\ request'[q].user = request[q].user /\ ~request'[q].fresh
      BY <1>1, <1>3 DEF Request
    <2>2. QED
      BY <1>1, <2>1 DEF Owning, Step, Seen, Owners, OfTwoEntries
  <1>4. QED
    BY <1>2, <1>3 DEF OnlyOwn

LEMMA OwningAsked ==
  ASSUME IInv, Keeping, NEW p \in Callers, Ask(p)
  PROVE  OnlyOwn(p) /\ Owning(p)'
  <1>1. ASSUME NEW r, Begin(p, r), r.step \notin {"role", "closeSave"}
        PROVE  OnlyOwn(p) /\ Owning(p)'
    <2>1. OnlyOwn(p) /\ request'[p] = r
      BY <1>1, OwnRequest DEF Begin
    <2>2. QED
      BY <1>1, <2>1 DEF Owning, Step
  <1>2. ASSUME NEW u \in Users, NEW role \in Roles, ChangeMember(p, u, role)
        PROVE  OnlyOwn(p) /\ Owning(p)'
    <2> DEFINE r == [Idle EXCEPT !.step = "role", !.user = u, !.to = role, !.seen = business]
    <2>1. OnlyOwn(p) /\ request'[p] = r
      BY <1>2, OwnRequest DEF ChangeMember, Member, Begin
    <2>2. r.step = "role" /\ r.user = u /\ r.seen = business
      BY DEF Idle
    <2>3. \/ business.members[u] \in {"staffThenOwner", "ownerTwice"}
          \/ Owners(business) # {u}
      <3>1. First(business.members[u]) = "owner" => ~OwnsAlone(u)
        BY <1>2 DEF ChangeMember
      <3>2. CASE business.members[u] = "owner"
        BY <3>1, <3>2 DEF OwnsAlone, First
      <3>3. CASE business.members[u] \in {"none", "staff"}
        BY <3>3 DEF Owners, OwnersAmong
      <3>4. business.members[u] \in Entries
        BY DEF IInv, Documents, Business
      <3>5. QED
        BY <3>2, <3>3, <3>4 DEF Entries
    <2>4. QED
      BY <2>1, <2>2, <2>3 DEF Owning, Step, Seen, Owners, OfTwoEntries
  <1>3. \A u, k : Starting(u, k).step = "create"
    BY DEF Starting, Idle
  <1>4. \A c, s, to : On(c, s, to).step = s
    BY DEF On, Idle
  <1>5. ASSUME NEW u, NEW to, NEW s \in {"accept", "owner"}, Member(p, s, u, to)
        PROVE  OnlyOwn(p) /\ Owning(p)'
    <2> DEFINE r == [Idle EXCEPT !.step = s, !.user = u, !.to = to, !.seen = business]
    <2>1. r.step = s
      BY DEF Idle
    <2>2. Begin(p, r)
      BY <1>5 DEF Member
    <2>3. QED
      BY <1>1, <2>1, <2>2
  <1>6. CASE \E u \in Users : Start(p, u) \/ StartNewBusiness(p, u) \/ StartReverification(p, u)
    BY <1>1, <1>3, <1>6 DEF Start, StartNewBusiness, StartReverification
  <1>7. CASE \E u \in Users :
            ChangeOwner(p, u) \/ \E role \in {"staff", "owner"} : AcceptInvite(p, u, role)
    BY <1>5, <1>7 DEF ChangeOwner, AcceptInvite
  <1>8. CASE \E c \in Claims :
            \/ VerifyCode(p, c) \/ Submit(p, c) \/ RequestInfo(p, c) \/ Withdraw(p, c)
            \/ Reject(p, c) \/ Expire(p, c) \/ Approve(p, c)
    BY <1>1, <1>4, <1>8 DEF VerifyCode, Submit, RequestInfo, Withdraw, Reject, Expire, Approve
  <1>9. QED
    BY <1>2, <1>6, <1>7, <1>8 DEF Ask, Roles

LEMMA OwningProceeds ==
  ASSUME IInv, NEW p \in Callers, Proceed(p) \/ Crash(p)
  PROVE  Owning(p)'
  <1>1. CASE request'[p] = Idle
    BY <1>1, IdleSound DEF Owning, Step
  <1>2. CASE request'[p] # Idle
    <2>1. /\ request'[p].step \in ClaimSteps
          /\ request'[p].step = "closeSave" =>
                request'[p].seen = business /\ UNCHANGED business
      BY <1>2, Continued DEF Continues
    <2>2. QED
      BY <2>1 DEF Owning, Step, Seen, ClaimSteps
  <1>3. QED
    BY <1>1, <1>2

LEMMA KeepingStep ==
  ASSUME IInv, Keeping, [Next]_vars
  PROVE  Keeping' /\ OwnersStep
  <1>1. Names' /\ UsersKept
    BY NamesStep DEF Keeping, UsersKept
  <1>2. LevelStep /\ OwnersStep /\ Reasons'
    BY <1>1, SteppedOutcome DEF Outcome
  <1>3. ASSUME NEW q \in Callers
        PROVE  Owning(q)'
    <2>1. ASSUME NEW p \in Callers, Ask(p)
          PROVE  Owning(q)'
      BY <1>2, <2>1, OwningAsked, OwningOther
    <2>2. ASSUME NEW p \in Callers, Proceed(p) \/ Crash(p)
          PROVE  Owning(q)'
      BY <1>2, <2>2, Continued, OwningProceeds, OwningOther
    <2>3. CASE \/ \E c \in Claims : SendCode(c) \/ DaysPass(c)
               \/ \E u \in Users : Invite(u)
               \/ UNCHANGED vars
      <3>1. UNCHANGED <<business, request>>
        BY <2>3 DEF SendCode, DaysPass, Invite, vars
      <3>2. QED
        BY <3>1 DEF Keeping, Owning, OfTwoEntries, Step, Seen, Owners
    <2>4. QED
      BY <2>1, <2>2, <2>3 DEF Next
  <1>4. QED
    BY <1>1, <1>2, <1>3 DEF Keeping

LEMMA InitKeeping ==
  ASSUME Init
  PROVE  Keeping
  <1>1. \A p \in Callers : Owning(p)
    BY IdleSound DEF Init, Owning, Step
  <1>2. business \in Business
    BY InitIInv DEF IInv, Documents
  <1>3. ASSUME NEW u \in Users, business.members[u] # "none"
        PROVE  u \in placed
    <2>1. CASE business \in {Unlisted, [Unlisted EXCEPT !.status = "active"]}
      BY <1>3, <2>1 DEF Unlisted, NoTeam
    <2>2. ASSUME NEW v \in Users,
                 business = [Unlisted EXCEPT !.status = "active", !.members[v] = "owner",
                                             !.owner = v, !.level = Verified]
          PROVE  u \in placed
      <3>1. business.members = [NoTeam EXCEPT ![v] = "owner"]
        BY <2>2 DEF Unlisted
      <3>2. business.members[u] = "owner"
        BY <1>3, <3>1 DEF NoTeam
      <3>3. QED
        BY <3>2 DEF Init, Owners, OwnersAmong
    <2>3. QED
      BY <2>1, <2>2 DEF Init
  <1>4. QED
    BY <1>1, <1>3, InitNames DEF Keeping, Reasons

LEMMA KeepingHolds == Spec => []Keeping
  <1>1. Init => Keeping
    BY InitKeeping
  <1>2. IInv /\ Keeping /\ [Next]_vars => Keeping'
    BY KeepingStep
  <1>3. QED
    BY <1>1, <1>2, IInvHolds, PTL DEF Spec

\* No step takes the last owner from a verified listing: not the closing of a
\* claim that was loaded before the listing was verified, nor two owners who leave
\* together, each of whom has seen the other (VerifiedKeepsOwner).
THEOREM VerifiedIsOwned == Spec => VerifiedKeepsOwner
  <1>1. IInv /\ Keeping /\ [Next]_vars =>
          [business.level = Verified /\ Owners(business) # {} =>
            \/ Owners(business') # {}
            \/ \E p \in Callers :
                /\ request'[p] # request[p]
                /\ \/ Step(p) = "approveSave" /\ OwnerOffTeam(p)
                   \/ Step(p) = "role" /\ OfTwoEntries(p)]_vars
    BY KeepingStep DEF OwnersStep
  <1>2. QED
    BY <1>1, IInvHolds, KeepingHolds, PTL DEF Spec, VerifiedKeepsOwner

\* Whoever is on the team is there by a claim of his, an invitation, an admin or a
\* verified listing, so the owners a decision replaced are off it (LosersLeave).
THEOREM LosersAreOff == Spec => []LosersLeave
  <1>1. IInv /\ Keeping => LosersLeave
    <2> SUFFICES ASSUME IInv, Keeping, NEW c \in Claims, NEW u \in claim[c].against,
                        u \notin placed, ~Elsewhere(c, u)
                 PROVE  business.members[u] = "none"
      BY DEF LosersLeave
    <2>1. u \in Users
      BY DEF IInv, Documents, Claim
    <2>2. \A d \in Claims : claim[d].user # u
      BY DEF Elsewhere, Keeping, Names, Named
    <2>3. QED
      BY <2>1, <2>2 DEF Keeping, Reasons
  <1>2. QED
    BY <1>1, IInvHolds, KeepingHolds, PTL

-----------------------------------------------------------------------------
(* What a closed claim leaves its claimant.                                 *)

\* From the phone check to the save it leads to, and from the save of a closed
\* claim to that of the listing.
Proving == {"phoneLoad", "dispute", "join"}
Ending  == {"closeLoad", "closeSave"}

Holds(p, c) == Step(p) \in ClaimSteps /\ request[p].claim = c

\* What a request knows of its claim for certain.
Known(p) ==
    LET was == request[p].was
        c   == request[p].claim
    IN  Step(p) \in ClaimSteps =>
            /\ was.status \in Open
            /\ was.kind = claim[c].kind
            /\ Step(p) = "phone" => was.phone = "sent"
            /\ Step(p) \in {"phone"} \cup Proving => was.status # "disputed"
            /\ Step(p) \in Proving => was.phone = "passed" /\ claim[c].phone = "passed"

\* Only a claim that passed the phone check is disputed.  While a claim does not
\* change under a request, it passes the check once, and a closed one stays as the
\* request that closed it had loaded it.
Steady(c) ==
    /\ claim[c].status = "disputed" => claim[c].phone = "passed"
    /\ c \notin overtaken =>
        /\ \A p, q \in Callers :
            Holds(p, c) /\ Holds(q, c) /\ Step(p) \in Proving /\ Step(q) \in Proving => p = q
        /\ \A p \in Callers : Holds(p, c) /\ Step(p) \in Ending =>
            claim[c].status \in Closings /\ claim[c].phone = request[p].was.phone

\* The request p is taking back what claim c gave its claimant.
TakesBack(p, c) ==
    /\ Holds(p, c)
    /\ Step(p) \in Ending
    /\ request[p].was.status # "disputed"
    /\ request[p].was.phone = "passed"
    /\ Step(p) = "closeSave" => Seen(p).members[claim[c].user] # "none"

\* A claim has put its claimant on the team: it is open, or a request is taking
\* that back.
Gave(c) ==
    /\ claim[c].phone = "passed"
    /\ claim[c].status # "disputed"
    /\ \A p \in Callers : Holds(p, c) => Step(p) \notin Proving
    /\ claim[c].status \in Open \/ \E p \in Callers : TakesBack(p, c)

Approving(c) ==
    \/ claim[c].status = "approved"
    \/ \E p \in Callers : Holds(p, c) /\ Step(p) = "approveClaim"

\* A claimant who is on the team by claim c alone.
PlaceBy(c) ==
    LET u == claim[c].user
    IN  /\ u \in Users
        /\ crashes = 0
        /\ c \notin overtaken
        /\ claim[c].kind # "reverification"
        /\ u \notin placed
        /\ ~Elsewhere(c, u)
        /\ business.members[u] # "none"

Accounted(c) == PlaceBy(c) => Approving(c) \/ Gave(c)

Closures ==
    /\ \A p \in Callers : Known(p)
    /\ \A c \in Claims : Steady(c) /\ Accounted(c)

-----------------------------------------------------------------------------
(* How requests on claims begin and go on, and what saving a claim does.    *)

\* Which step follows which, and what the request makes of the claim it loaded.
Follows(p) ==
    LET r == request'[p]
        w == request[p].was
    IN  /\ r.claim = request[p].claim
        /\ r.was.kind = w.kind
        /\ r.was.status = IF Step(p) = "dispute" THEN "disputed" ELSE w.status
        /\ r.was.phone = IF Step(p) = "phone" THEN "passed" ELSE w.phone
        /\ <<Step(p), r.step>> \in
            {<<"phone", "phoneLoad">>, <<"phoneLoad", "join">>, <<"phoneLoad", "dispute">>,
             <<"dispute", "freeze">>, <<"close", "closeLoad">>, <<"closeLoad", "closeSave">>,
             <<"approveLoad", "approveSave">>, <<"approveSave", "approveClaim">>}

LEMMA NextStepOf ==
  ASSUME IInv, NEW p \in Callers, Proceed(p) \/ Crash(p)
  PROVE  request'[p] = Idle \/ Follows(p)
  <1>1. request[p] \in Request /\ request[p].was \in Claim
    BY Held
  <1>2. CASE SavePhone(p)
    <2> DEFINE w == [request[p].was EXCEPT !.phone = "passed"]
               r == [request[p] EXCEPT !.step = "phoneLoad", !.was = w]
    <2>1. request'[p] = r
      BY <1>1, <1>2 DEF SavePhone, IInv, Requests, Request
    <2>2. w.status = request[p].was.status /\ w.kind = request[p].was.kind
          /\ w.phone = "passed"
      BY <1>1 DEF Claim
    <2>3. r.step = "phoneLoad" /\ r.claim = request[p].claim /\ r.was = w
      BY <1>1 DEF Request
    <2>4. QED
      BY <1>2, <2>1, <2>2, <2>3 DEF Follows, SavePhone
  <1>3. CASE SaveDispute(p)
    <2> DEFINE w == [request[p].was EXCEPT !.status = "disputed"]
               r == [request[p] EXCEPT !.step = "freeze", !.was = w]
    <2>1. request'[p] = r
      BY <1>1, <1>3 DEF SaveDispute, IInv, Requests, Request
    <2>2. w.phone = request[p].was.phone /\ w.kind = request[p].was.kind
          /\ w.status = "disputed"
      BY <1>1 DEF Claim
    <2>3. r.step = "freeze" /\ r.claim = request[p].claim /\ r.was = w
      BY <1>1 DEF Request
    <2>4. QED
      BY <1>3, <2>1, <2>2, <2>3 DEF Follows, SaveDispute
  <1>4. ASSUME NEW s, Step(p) \notin {"phone", "dispute"},
               <<Step(p), s>> \in
                {<<"phoneLoad", "join">>, <<"phoneLoad", "dispute">>,
                 <<"close", "closeLoad">>, <<"closeLoad", "closeSave">>,
                 <<"approveLoad", "approveSave">>, <<"approveSave", "approveClaim">>},
               request'[p].step = s, request'[p].claim = request[p].claim,
               request'[p].was = request[p].was
        PROVE  Follows(p)
    BY <1>4 DEF Follows
  <1>5. CASE LoadAfterPhone(p) \/ LoadForClose(p) \/ LoadForApprove(p)
    <2>1. ASSUME NEW s, LoadBusiness(p, s)
          PROVE  request'[p].step = s /\ request'[p].claim = request[p].claim
                 /\ request'[p].was = request[p].was
      BY <1>1, <2>1 DEF LoadBusiness, Request, IInv, Requests
    <2>2. QED
      BY <1>4, <1>5, <2>1, OwnRequest DEF LoadAfterPhone, RefuseDispute, LoadForClose, LoadForApprove, Done
  <1>6. CASE SaveClosed(p)
    <2>1. request'[p].step = "closeLoad" /\ request'[p].claim = request[p].claim
          /\ request'[p].was = request[p].was
      BY <1>1, <1>6 DEF SaveClosed, Request, IInv, Requests
    <2>2. QED
      BY <1>4, <1>6, <2>1 DEF SaveClosed
  <1>7. CASE SaveVerified(p)
    <2> DEFINE r == [request[p] EXCEPT !.step = "approveClaim"]
    <2>1. \E new, u : SavePushed(p, new, u, r) \/ SaveMembers(p, new, r)
      BY <1>7 DEF SaveVerified
    <2>2. request'[p] \in {r, Idle}
      BY <2>1, SavedRequest
    <2>3. r.step = "approveClaim" /\ r.claim = request[p].claim /\ r.was = request[p].was
      BY <1>1 DEF Request
    <2>4. QED
      BY <1>4, <1>7, <2>2, <2>3 DEF SaveVerified
  <1>8. CASE Freeze(p) \/ Join(p) \/ SaveAfterClose(p) \/ SaveMember(p) \/ SaveOwner(p)
    <2>1. \E new, u : SavePaths(p, new, Idle) \/ SavePushed(p, new, u, Idle)
                      \/ SaveMembers(p, new, Idle)
      BY <1>8 DEF Freeze, Join, SaveAfterClose, SaveMember, SaveOwner
    <2>2. QED
      BY <2>1, SavedRequest
  <1>9. CASE SaveAccepted(p)
    <2>1. (\E new, u : SavePushed(p, new, u, Idle)) \/ Done(p)
      BY <1>9 DEF SaveAccepted
    <2>2. QED
      BY <2>1, SavedRequest, OwnRequest DEF Done
  <1>10. CASE CreateClaim(p) \/ SaveSubmitted(p) \/ SaveInfoRequested(p) \/ SaveApproved(p)
              \/ RefuseDispute(p) \/ Crash(p)
    BY <1>10, OwnRequest
    DEF CreateClaim, RefuseDispute, SaveSubmitted, SaveInfoRequested, SaveApproved, Crash, Done
  <1>11. QED
    BY <1>2, <1>3, <1>5, <1>6, <1>7, <1>8, <1>9, <1>10 DEF Proceed

\* What a request that has just begun is: about a member, or on an open claim.
Opens(p) ==
    \/ request'[p].step \notin ClaimSteps
    \/ \E c \in Claims :
        /\ request'[p].claim = c
        /\ request'[p].was = claim[c]
        /\ claim[c].status \in Open
        /\ request'[p].step \in {"phone", "submit", "info", "close", "approveLoad"}
        /\ request'[p].step = "phone" => claim[c].phone = "sent"

LEMMA AskedOpens ==
  ASSUME IInv, NEW p \in Callers, Ask(p)
  PROVE  /\ OnlyOwn(p) /\ Opens(p) /\ Step(p) = "idle"
         /\ UNCHANGED <<claim, overtaken, placed, crashes>>
         /\ business'.members = business.members
  <1>1. PICK r : Begin(p, r)
    BY DEF Ask, Start, StartNewBusiness, StartReverification, ChangeOwner, AcceptInvite,
       ChangeMember, Member, VerifyCode, Submit, RequestInfo, Withdraw, Reject, Expire,
       Approve
  <1>2. OnlyOwn(p) /\ Step(p) = "idle" /\ request'[p] = r
    BY <1>1, OwnRequest DEF Begin
  <1>3. UNCHANGED <<claim, overtaken, placed, crashes>>
        /\ business'.members = business.members
    BY DEF Ask, Start, StartNewBusiness, StartReverification, ChangeOwner, AcceptInvite,
       ChangeMember, VerifyCode, Submit, RequestInfo, Withdraw, Reject, Expire, Approve,
       history, IInv, Documents, Business
  <1>4. ASSUME NEW c \in Claims, NEW s \in {"phone", "submit", "info", "close", "approveLoad"},
               NEW to, claim[c].status \in Open, s = "phone" => claim[c].phone = "sent",
               Begin(p, On(c, s, to))
        PROVE  Opens(p)
    <2>1. request'[p] = On(c, s, to)
      BY <1>4, OwnRequest DEF Begin
    <2>2. On(c, s, to).step = s /\ On(c, s, to).claim = c /\ On(c, s, to).was = claim[c]
      BY DEF On, Idle
    <2>3. QED
      BY <1>4, <2>1, <2>2 DEF Opens
  <1>5. CASE \E c \in Claims :
            \/ VerifyCode(p, c) \/ Submit(p, c) \/ RequestInfo(p, c) \/ Withdraw(p, c)
            \/ Reject(p, c) \/ Expire(p, c) \/ Approve(p, c)
    <2>1. PICK c \in Claims :
            \/ VerifyCode(p, c) \/ Submit(p, c) \/ RequestInfo(p, c) \/ Withdraw(p, c)
            \/ Reject(p, c) \/ Expire(p, c) \/ Approve(p, c)
      BY <1>5
    <2>2. claim[c].status \in Open
      BY <2>1 DEF VerifyCode, Submit, RequestInfo, Withdraw, Reject, Expire, Approve, Open,
         Submitted
    <2>3. \E to : \E s \in {"phone", "submit", "info", "close", "approveLoad"} :
            Begin(p, On(c, s, to)) /\ (s = "phone" => claim[c].phone = "sent")
      <3>1. CASE VerifyCode(p, c)
        BY <3>1 DEF VerifyCode
      <3>2. CASE Submit(p, c) \/ RequestInfo(p, c) \/ Approve(p, c)
        BY <3>2 DEF Submit, RequestInfo, Approve
      <3>3. CASE Withdraw(p, c) \/ Reject(p, c) \/ Expire(p, c)
        BY <3>3 DEF Withdraw, Reject, Expire
      <3>4. QED
        BY <2>1, <3>1, <3>2, <3>3
    <2>4. QED
      BY <1>2, <1>3, <1>4, <2>2, <2>3
  <1>6. ASSUME NEW u, NEW k, Begin(p, Starting(u, k))
        PROVE  Opens(p)
    <2>1. Starting(u, k).step = "create"
      BY DEF Starting, Idle
    <2>2. QED
      BY <1>6, <2>1, OwnRequest DEF Begin, Opens, ClaimSteps
  <1>7. ASSUME NEW u, NEW to, NEW s \in {"accept", "role", "owner"}, Member(p, s, u, to)
        PROVE  Opens(p)
    <2> DEFINE m == [Idle EXCEPT !.step = s, !.user = u, !.to = to, !.seen = business]
    <2>1. m.step = s
      BY DEF Idle
    <2>2. Begin(p, m)
      BY <1>7 DEF Member
    <2>3. QED
      BY <2>1, <2>2, OwnRequest DEF Begin, Opens, ClaimSteps
  <1>8. CASE \E u \in Users :
            Start(p, u) \/ StartNewBusiness(p, u) \/ StartReverification(p, u)
    <2>1. \E u, k : Begin(p, Starting(u, k))
      BY <1>8 DEF Start, StartNewBusiness, StartReverification
    <2>2. QED
      BY <1>2, <1>3, <1>6, <2>1
  <1>9. CASE \E u \in Users :
            \/ ChangeOwner(p, u)
            \/ \E role \in {"staff", "owner"} : AcceptInvite(p, u, role)
            \/ \E role \in {"none", "staff", "owner"} : ChangeMember(p, u, role)
    <2>1. \E u, to : \E s \in {"accept", "role", "owner"} : Member(p, s, u, to)
      BY <1>9 DEF ChangeOwner, AcceptInvite, ChangeMember
    <2>2. QED
      BY <1>2, <1>3, <1>7, <2>1
  <1>10. QED
    BY <1>2, <1>3, <1>5, <1>8, <1>9 DEF Ask

\* The saves of a claim.
ClaimSave(p) ==
    \/ SavePhone(p) \/ SaveDispute(p) \/ SaveSubmitted(p) \/ SaveInfoRequested(p)
    \/ SaveClosed(p) \/ SaveApproved(p)

LEMMA ClaimSaved ==
  ASSUME IInv, NEW p \in Callers, ClaimSave(p)
  PROVE  LET c == request[p].claim
             was == request[p].was
         IN  /\ Step(p) \in ClaimSteps /\ c \in Claims
             /\ c \notin overtaken' =>
                    claim[c].status = was.status /\ claim[c].phone = was.phone
             /\ overtaken \subseteq overtaken'
             /\ \A d \in Claims \ {c} : claim'[d] = claim[d]
             /\ claim'[c].kind = claim[c].kind /\ claim'[c].user = claim[c].user
             /\ claim'[c].phone = IF SavePhone(p) THEN "passed" ELSE claim[c].phone
             /\ SavePhone(p) => claim'[c].status = claim[c].status
             /\ SaveDispute(p) => claim'[c].status = "disputed"
             /\ SaveSubmitted(p) => claim'[c].status = Unless(p, "pending")
             /\ SaveInfoRequested(p) => claim'[c].status = Unless(p, "info_requested")
             /\ SaveClosed(p) => claim'[c].status \in Closings
             /\ SaveApproved(p) => claim'[c].status = "approved"
             /\ UNCHANGED <<business, placed, crashes>>
  <1> DEFINE c == request[p].claim
  <1>1. Step(p) \in ClaimSteps
    BY DEF ClaimSave, SavePhone, SaveDispute, SaveSubmitted, SaveInfoRequested, SaveClosed,
       SaveApproved, ClaimSteps, Steps
  <1>2. c \in Claims /\ claim \in [Claims -> Claim] /\ claim[c] \in Claim
    BY <1>1, Held
  <1>3. NoteOvertaken(p) /\ UNCHANGED <<business, placed, crashes>>
    BY DEF ClaimSave, SavePhone, SaveDispute, SaveSubmitted, SaveInfoRequested, SaveClosed,
       SaveApproved, rest
  <1>4. /\ c \notin overtaken' =>
            claim[c].status = request[p].was.status /\ claim[c].phone = request[p].was.phone
        /\ overtaken \subseteq overtaken'
    BY <1>3 DEF NoteOvertaken
  <1>5. /\ \A d \in Claims \ {c} : claim'[d] = claim[d]
        /\ claim'[c].kind = claim[c].kind /\ claim'[c].user = claim[c].user
    BY <1>2 DEF ClaimSave, SavePhone, SaveDispute, SaveSubmitted, SaveInfoRequested,
       SaveClosed, SaveApproved, Claim
  <1>6. claim'[c].phone = IF SavePhone(p) THEN "passed" ELSE claim[c].phone
    <2>1. CASE SavePhone(p)
      BY <1>2, <2>1 DEF SavePhone, Claim
    <2>2. CASE ~SavePhone(p)
      BY <1>2, <2>2 DEF ClaimSave, SaveDispute, SaveSubmitted, SaveInfoRequested,
         SaveClosed, SaveApproved, Claim
    <2>3. QED
      BY <2>1, <2>2
  <1>7. /\ SavePhone(p) => claim'[c].status = claim[c].status
        /\ SaveDispute(p) => claim'[c].status = "disputed"
        /\ SaveSubmitted(p) => claim'[c].status = Unless(p, "pending")
        /\ SaveInfoRequested(p) => claim'[c].status = Unless(p, "info_requested")
        /\ SaveApproved(p) => claim'[c].status = "approved"
    BY <1>2 DEF SavePhone, SaveDispute, SaveSubmitted, SaveInfoRequested, SaveApproved, Claim
  <1>8. SaveClosed(p) => claim'[c].status \in Closings
    BY <1>2, Held DEF SaveClosed, Claim, Sound, Step
  <1>9. QED
    BY <1>1, <1>2, <1>3, <1>4, <1>5, <1>6, <1>7, <1>8

-----------------------------------------------------------------------------
(* What requests know of their claims stays true.                           *)

\* What becomes of claims that have a claimant.
Grows(c) ==
    /\ claim'[c].user = claim[c].user
    /\ claim'[c].kind = claim[c].kind
    /\ claim[c].phone = "passed" => claim'[c].phone = "passed"

LEMMA KnownOther ==
  ASSUME IInv, Keeping, NEW q \in Callers, Known(q),
         request'[q] \in {request[q], [request[q] EXCEPT !.fresh = FALSE]},
         \A c \in Claims : claim[c].user \in Users => Grows(c)
  PROVE  Known(q)'
  <1>1. request[q] \in Request
    BY Held
  <1>2. /\ request'[q].step = request[q].step /\ request'[q].claim = request[q].claim
        /\ request'[q].was = request[q].was
    BY <1>1 DEF Request
  <1>3. CASE Step(q) \in ClaimSteps
    <2>1. request[q].claim \in Claims /\ claim[request[q].claim].user \in Users
      BY <1>3, Held DEF Keeping, Names, About
    <2>2. QED
      BY <1>2, <2>1 DEF Known, Step, Grows
  <1>4. CASE Step(q) \notin ClaimSteps
    BY <1>2, <1>4 DEF Known, Step
  <1>5. QED
    BY <1>3, <1>4

\* A step that touches at most one claim which has a claimant, and only its own.
LEMMA SavedGrows ==
  ASSUME IInv, NEW p \in Callers, ClaimSave(p), NEW c \in Claims
  PROVE  Grows(c)
  BY ClaimSaved DEF Grows

LEMMA KnownAsked ==
  ASSUME IInv, Closures, NEW p \in Callers, Ask(p)
  PROVE  Known(p)'
  <1>1. Opens(p) /\ UNCHANGED claim
    BY AskedOpens
  <1>2. CASE request'[p].step \notin ClaimSteps
    BY <1>2 DEF Known, Step
  <1>3. ASSUME NEW c \in Claims,
               request'[p].claim = c, request'[p].was = claim[c], claim[c].status \in Open,
               request'[p].step \in {"phone", "submit", "info", "close", "approveLoad"},
               request'[p].step = "phone" => claim[c].phone = "sent"
        PROVE  Known(p)'
    <2>1. claim[c].status = "disputed" => claim[c].phone = "passed"
      BY DEF Closures, Steady
    <2>2. QED
      BY <1>1, <1>3, <2>1 DEF Known, Step, Proving
  <1>4. QED
    BY <1>1, <1>2, <1>3 DEF Opens

LEMMA KnownProceeds ==
  ASSUME IInv, Keeping, Closures, NEW p \in Callers, Proceed(p) \/ Crash(p)
  PROVE  Known(p)'
  <1>1. CASE request'[p] = Idle
    BY <1>1, IdleSound DEF Known, Step, ClaimSteps
  <1>2. CASE Follows(p)
    <2>1. Step(p) \in ClaimSteps /\ request'[p].claim = request[p].claim
      BY <1>2 DEF Follows, ClaimSteps, Steps
    <2>2. request[p].claim \in Claims /\ Known(p)
      BY <2>1, Held DEF Closures
    <2>3. claim'[request[p].claim].kind = claim[request[p].claim].kind
      <3>1. CASE ClaimSave(p)
        BY <2>2, <3>1, SavedGrows DEF Grows
      <3>2. CASE ~ClaimSave(p)
        <4>1. ~CreateClaim(p)
          BY <2>1 DEF CreateClaim, ClaimSteps
        <4>2. UNCHANGED claim
          BY <3>2, <4>1 DEF ClaimSave, Proceed, Crash, LoadAfterPhone, RefuseDispute, Freeze, Join,
             LoadForClose, SaveAfterClose, LoadForApprove, SaveVerified, SaveAccepted,
             SaveMember, SaveOwner
        <4>3. QED
          BY <4>2
      <3>3. QED
        BY <3>1, <3>2
    <2>4. request'[p].step \in Proving =>
            request'[p].was.phone = "passed" /\ claim'[request[p].claim].phone = "passed"
            /\ request'[p].was.status # "disputed"
      <3>1. CASE SavePhone(p)
        <4>1. Step(p) = "phone"
          BY <3>1 DEF SavePhone
        <4>2. QED
          BY <1>2, <2>1, <2>2, <3>1, <4>1, ClaimSaved DEF ClaimSave, Follows, Known
      <3>2. CASE LoadAfterPhone(p)
        <4>1. Step(p) = "phoneLoad" /\ UNCHANGED claim
          BY <3>2 DEF LoadAfterPhone
        <4>2. QED
          BY <1>2, <2>1, <2>2, <4>1 DEF Follows, Known, Proving
      <3>3. CASE ~SavePhone(p) /\ ~LoadAfterPhone(p)
        <4>1. Step(p) \notin {"phone", "phoneLoad"}
          BY <1>1, <1>2, <3>3, IdleSound DEF Proceed, Crash, CreateClaim, SaveDispute,
             RefuseDispute, Freeze, Join, SaveSubmitted, SaveInfoRequested, SaveClosed, LoadForClose,
             SaveAfterClose, LoadForApprove, SaveVerified, SaveApproved, SaveAccepted,
             SaveMember, SaveOwner, Done, IInv, Requests, Follows
        <4>2. QED
          BY <1>2, <4>1 DEF Follows, Proving
      <3>4. QED
        BY <3>1, <3>2, <3>3
    <2>5. request'[p].step # "phone"
      BY <1>2 DEF Follows
    <2>6. request'[p].was.status \in Open
      BY <1>2, <2>1, <2>2 DEF Follows, Known, Open, Submitted
    <2>7. request'[p].was.kind = claim'[request[p].claim].kind
      BY <1>2, <2>1, <2>2, <2>3 DEF Follows, Known
    <2>8. QED
      BY <2>1, <2>4, <2>5, <2>6, <2>7 DEF Known, Step
  <1>3. QED
    BY <1>1, <1>2, NextStepOf

LEMMA KnownStep ==
  ASSUME IInv, Keeping, Closures, [Next]_vars, NEW q \in Callers
  PROVE  Known(q)'
  <1>1. Known(q)
    BY DEF Closures
  <1>2. ASSUME NEW p \in Callers, Ask(p)
        PROVE  Known(q)'
    <2>1. OnlyOwn(p) /\ UNCHANGED claim
      BY <1>2, AskedOpens
    <2>2. \A c \in Claims : Grows(c)
      BY <2>1 DEF Grows
    <2>3. QED
      BY <1>1, <1>2, <2>1, <2>2, KnownAsked, KnownOther DEF OnlyOwn
  <1>3. ASSUME NEW p \in Callers, Proceed(p) \/ Crash(p)
        PROVE  Known(q)'
    <2>1. \A c \in Claims : claim[c].user \in Users => Grows(c)
      <3>1. CASE CreateClaim(p)
        <4>1. PICK c \in Claims :
                claim[c].status = "none" /\ \A d \in Claims \ {c} : claim'[d] = claim[d]
          BY <3>1, Held DEF CreateClaim
        <4>2. claim[c].user \notin Users
          BY <4>1, ClaimConstants DEF Keeping, Names, Named
        <4>3. QED
          BY <4>1, <4>2 DEF Grows
      <3>2. CASE ClaimSave(p)
        BY <3>2, SavedGrows
      <3>3. CASE UNCHANGED claim
        BY <3>3 DEF Grows
      <3>4. QED
        BY <1>3, <3>1, <3>2, <3>3 DEF ClaimSave, Proceed, Crash, LoadAfterPhone, RefuseDispute, Freeze, Join,
           LoadForClose, SaveAfterClose, LoadForApprove, SaveVerified, SaveAccepted,
           SaveMember, SaveOwner
    <2>2. OnlyOwn(p)
      BY <1>3, Continued
    <2>3. QED
      BY <1>1, <1>3, <2>1, <2>2, KnownProceeds, KnownOther DEF OnlyOwn
  <1>4. ASSUME NEW c \in Claims, SendCode(c) \/ DaysPass(c)
        PROVE  Known(q)'
    <2>1. UNCHANGED request /\ \A d \in Claims : Grows(d)
      BY <1>4 DEF SendCode, DaysPass, Grows, IInv, Documents, Claim
    <2>2. QED
      BY <1>1, <2>1, KnownOther
  <1>5. CASE (\E u \in Users : Invite(u)) \/ UNCHANGED vars
    <2>1. UNCHANGED <<claim, request>>
      BY <1>5 DEF Invite, vars
    <2>2. QED
      BY <1>1, <2>1 DEF Known, Step
  <1>6. QED
    BY <1>2, <1>3, <1>4, <1>5 DEF Next

-----------------------------------------------------------------------------
(* A claim passes the phone check once, and ends once.                      *)

LEMMA OvertakenGrows ==
  ASSUME IInv, [Next]_vars
  PROVE  overtaken \subseteq overtaken'
  <1>1. ASSUME NEW p \in Callers, Ask(p)
        PROVE  overtaken \subseteq overtaken'
    BY <1>1, AskedOpens
  <1>2. ASSUME NEW p \in Callers, ClaimSave(p)
        PROVE  overtaken \subseteq overtaken'
    BY <1>2, ClaimSaved
  <1>3. ASSUME NEW p \in Callers, Proceed(p) \/ Crash(p), ~ClaimSave(p)
        PROVE  overtaken \subseteq overtaken'
    BY <1>3 DEF Proceed, ClaimSave, Crash, CreateClaim, LoadAfterPhone, RefuseDispute, Freeze, Join,
       NoteOvertaken, LoadForClose, SaveAfterClose, LoadForApprove, SaveVerified,
       SaveAccepted, SaveMember, SaveOwner, history
  <1>4. CASE \/ \E c \in Claims : SendCode(c) \/ DaysPass(c)
             \/ \E u \in Users : Invite(u)
             \/ UNCHANGED vars
    BY <1>4 DEF SendCode, DaysPass, Invite, vars, history
  <1>5. QED
    BY <1>1, <1>2, <1>3, <1>4 DEF Next

\* Claims change only where they are saved.
LEMMA Unsaved ==
  ASSUME NEW p \in Callers, Proceed(p) \/ Crash(p), ~ClaimSave(p), ~CreateClaim(p)
  PROVE  UNCHANGED claim
  BY DEF Proceed, ClaimSave, Crash, LoadAfterPhone, RefuseDispute, Freeze, Join, LoadForClose,
     SaveAfterClose, LoadForApprove, SaveVerified, SaveAccepted, SaveMember, SaveOwner

\* Whoever holds claim c afterwards did so before, unless the step is p's own.
LEMMA StillHolds ==
  ASSUME IInv, NEW p \in Callers, OnlyOwn(p), NEW q \in Callers \ {p}
  PROVE  /\ request'[q].step = Step(q) /\ request'[q].claim = request[q].claim
         /\ request'[q].was = request[q].was /\ request'[q].seen = Seen(q)
  <1>1. request[q] \in Request
    BY Held
  <1>2. QED
    BY <1>1 DEF OnlyOwn, Request, Step, Seen

\* No step of p brings claim c to the steps of a passed check, or of an end.
LEMMA SteadyOther ==
  ASSUME IInv, Closures, NEW p \in Callers, OnlyOwn(p), NEW c \in Claims,
         overtaken \subseteq overtaken',
         claim'[c].status = claim[c].status, claim'[c].phone = claim[c].phone,
         Holds(p, c)' /\ Step(p)' \in Proving => Holds(p, c) /\ Step(p) \in Proving,
         Holds(p, c)' /\ Step(p)' \in Ending =>
            Holds(p, c) /\ Step(p) \in Ending /\ request'[p].was.phone = request[p].was.phone
  PROVE  Steady(c)'
  <1>1. Steady(c)
    BY DEF Closures
  <1>2. \A q \in Callers : Holds(q, c)' /\ Step(q)' \in Proving => Holds(q, c) /\ Step(q) \in Proving
    BY StillHolds DEF Holds, Step
  <1>3. \A q \in Callers : Holds(q, c)' /\ Step(q)' \in Ending =>
            Holds(q, c) /\ Step(q) \in Ending /\ request'[q].was.phone = request[q].was.phone
    BY StillHolds DEF Holds, Step
  <1>4. QED
    BY <1>1, <1>2, <1>3 DEF Steady

LEMMA SteadySaved ==
  ASSUME IInv, Keeping, Closures, NEW p \in Callers, ClaimSave(p), NEW c \in Claims
  PROVE  Steady(c)'
  <1> DEFINE was == request[p].was
  <1>1. OnlyOwn(p) /\ (request'[p] = Idle \/ Follows(p))
    BY Continued, NextStepOf DEF ClaimSave, Proceed
  <1>2. overtaken \subseteq overtaken'
    BY ClaimSaved
  <1>3. CASE c # request[p].claim
    <2>1. claim'[c] = claim[c] /\ ~Holds(p, c)'
      BY <1>1, <1>3, ClaimSaved, IdleSound DEF Follows, Holds, Step, ClaimSteps
    <2>2. QED
      BY <1>1, <1>2, <2>1, SteadyOther
  <1>4. CASE c = request[p].claim
    <2>1. Known(p) /\ Steady(c) /\ Step(p) \in ClaimSteps
      BY ClaimSaved DEF Closures
    <2>2. /\ c \notin overtaken' => claim[c].status = was.status /\ claim[c].phone = was.phone
          /\ was.status \in Open
          /\ claim[c].phone = "passed" => claim'[c].phone = "passed"
      BY <1>4, <2>1, ClaimSaved DEF Known
    <2>3. claim'[c].status = "disputed" => claim'[c].phone = "passed"
      <3>1. CASE SaveDispute(p)
        <4>1. Step(p) \in Proving
          BY <3>1 DEF SaveDispute, Proving
        <4>2. QED
          BY <1>4, <2>1, <2>2, <4>1 DEF Known
      <3>2. CASE ~SaveDispute(p)
        <4>1. claim'[c].status = "disputed" => claim[c].status = "disputed"
          BY <1>4, <3>2, ClaimSaved DEF ClaimSave, Unless, Closings
        <4>2. QED
          BY <2>1, <2>2, <4>1 DEF Steady
      <3>3. QED
        BY <3>1, <3>2
    <2>4. ASSUME c \notin overtaken', NEW q \in Callers, NEW r \in Callers,
                 Holds(q, c)', Holds(r, c)', Step(q)' \in Proving, Step(r)' \in Proving
          PROVE  q = r
      <3>1. c \notin overtaken
        BY <1>2, <2>4
      <3>2. CASE SavePhone(p)
        <4>1. claim[c].phone = "sent"
          BY <1>4, <2>1, <2>2, <2>4, <3>2 DEF Known, SavePhone
        <4>2. \A s \in Callers \ {p} : ~(Holds(s, c)' /\ Step(s)' \in Proving)
          <5>1. ASSUME NEW s \in Callers \ {p}, Holds(s, c)', Step(s)' \in Proving
                PROVE  FALSE
            <6>1. Holds(s, c) /\ Step(s) \in Proving
              BY <1>1, <5>1, StillHolds DEF Holds, Step
            <6>2. claim[c].phone = "passed"
              BY <6>1 DEF Closures, Known, Holds
            <6>3. QED
              BY <4>1, <6>2
          <5>2. QED
            BY <5>1
        <4>3. QED
          BY <2>4, <4>2
      <3>3. CASE ~SavePhone(p)
        <4>1. Step(p)' \notin Proving
          <5>1. Step(p) \notin {"phone", "phoneLoad"}
            BY <3>3 DEF ClaimSave, SaveDispute, SaveSubmitted, SaveInfoRequested, SaveClosed,
               SaveApproved
          <5>2. QED
            BY <1>1, <5>1, IdleSound DEF Follows, Step, Proving
        <4>2. Holds(q, c) /\ Step(q) \in Proving /\ Holds(r, c) /\ Step(r) \in Proving
          BY <1>1, <2>4, <4>1, StillHolds DEF Holds, Step
        <4>3. QED
          BY <2>1, <3>1, <4>2 DEF Steady
      <3>4. QED
        BY <3>2, <3>3
    <2>5. ASSUME c \notin overtaken', NEW q \in Callers, Holds(q, c)', Step(q)' \in Ending
          PROVE  claim'[c].status \in Closings /\ claim'[c].phone = request'[q].was.phone
      <3>1. c \notin overtaken /\ claim[c].status \in Open
        BY <1>2, <2>2, <2>5
      <3>2. CASE q # p
        <4>1. Holds(q, c) /\ Step(q) \in Ending
          BY <1>1, <2>5, <3>2, StillHolds DEF Holds, Step
        <4>2. claim[c].status \in Closings
          BY <2>1, <3>1, <4>1 DEF Steady
        <4>3. QED
          BY <3>1, <4>2 DEF Open, Submitted, Closings
      <3>3. CASE q = p
        <4>1. request'[p] # Idle /\ Follows(p)
          BY <1>1, <2>5, <3>3, IdleSound DEF Holds, Step, ClaimSteps
        <4>2. Step(p) \in {"close", "closeLoad"}
          BY <2>5, <3>3, <4>1 DEF Follows, Ending, Step
        <4>3. SaveClosed(p)
          BY <4>2 DEF ClaimSave, SavePhone, SaveDispute, SaveSubmitted, SaveInfoRequested,
             SaveApproved
        <4>4. ~SavePhone(p) /\ Step(p) = "close"
          BY <4>3 DEF SaveClosed, SavePhone
        <4>5. QED
          BY <1>4, <2>2, <2>5, <3>3, <4>1, <4>3, <4>4, ClaimSaved DEF Follows
      <3>4. QED
        BY <3>2, <3>3
    <2>6. QED
      BY <2>3, <2>4, <2>5 DEF Steady
  <1>5. QED
    BY <1>3, <1>4

LEMMA SteadyStep ==
  ASSUME IInv, Keeping, Closures, [Next]_vars, NEW c \in Claims
  PROVE  Steady(c)'
  <1>1. Steady(c) /\ overtaken \subseteq overtaken'
    BY OvertakenGrows DEF Closures
  <1>2. ASSUME NEW p \in Callers, Ask(p)
        PROVE  Steady(c)'
    <2>1. OnlyOwn(p) /\ Opens(p) /\ UNCHANGED claim
      BY <1>2, AskedOpens
    <2>2. Holds(p, c)' => Step(p)' \notin Proving \cup Ending
      BY <2>1 DEF Opens, Holds, Step, Proving, Ending
    <2>3. QED
      BY <1>1, <2>1, <2>2, SteadyOther
  <1>3. ASSUME NEW p \in Callers, ClaimSave(p)
        PROVE  Steady(c)'
    BY <1>3, SteadySaved
  <1>4. ASSUME NEW p \in Callers, CreateClaim(p)
        PROVE  Steady(c)'
    <2>1. OnlyOwn(p) /\ request'[p] = Idle
      BY <1>4, OwnRequest DEF CreateClaim, Done
    <2>2. PICK d \in Claims :
            /\ claim[d].status = "none"
            /\ claim' = [claim EXCEPT ![d] = [NoClaimYet EXCEPT
                    !.status = "draft", !.user = request[p].user,
                    !.kind = request[p].to, !.waiting = "running"]]
      BY <1>4 DEF CreateClaim
    <2>3. ~Holds(p, c)'
      BY <2>1, IdleSound DEF Holds, Step, ClaimSteps
    <2>4. CASE c # d
      BY <1>1, <2>1, <2>2, <2>3, <2>4, Held, SteadyOther
    <2>5. CASE c = d
      <3>1. \A q \in Callers : ~Holds(q, c)
        <4>1. claim[c].user \notin Users
          BY <2>2, <2>5, ClaimConstants DEF Keeping, Names, Named
        <4>2. QED
          BY <4>1, Held DEF Holds, Keeping, Names, About
      <3>2. \A q \in Callers : ~Holds(q, c)'
        BY <2>1, <2>3, <3>1, StillHolds DEF Holds, Step
      <3>3. claim'[c].status = "draft"
        BY <2>2, <2>5, Held DEF NoClaimYet
      <3>4. QED
        BY <3>2, <3>3 DEF Steady
    <2>6. QED
      BY <2>4, <2>5
  <1>5. ASSUME NEW p \in Callers, Proceed(p) \/ Crash(p), ~ClaimSave(p), ~CreateClaim(p)
        PROVE  Steady(c)'
    <2>1. OnlyOwn(p) /\ UNCHANGED claim /\ (request'[p] = Idle \/ Follows(p))
      BY <1>5, Continued, Unsaved, NextStepOf
    <2>2. Step(p) \notin {"phone", "close"}  \/ request'[p] = Idle
      BY <1>5 DEF ClaimSave, Proceed, Crash, CreateClaim, LoadAfterPhone, RefuseDispute, Freeze, Join,
         LoadForClose, SaveAfterClose, LoadForApprove, SaveVerified, SaveAccepted,
         SaveMember, SaveOwner, Done, IInv, Requests
    <2>3. /\ Holds(p, c)' /\ Step(p)' \in Proving => Holds(p, c) /\ Step(p) \in Proving
          /\ Holds(p, c)' /\ Step(p)' \in Ending =>
                Holds(p, c) /\ Step(p) \in Ending
                /\ request'[p].was.phone = request[p].was.phone
      BY <2>1, <2>2, IdleSound DEF Follows, Holds, Step, Proving, Ending, ClaimSteps, Steps
    <2>4. QED
      BY <1>1, <2>1, <2>3, SteadyOther
  <1>6. CASE \E d \in Claims : SendCode(d) \/ DaysPass(d)
    <2>1. PICK d \in Claims : SendCode(d) \/ DaysPass(d)
      BY <1>6
    <2>2. UNCHANGED request
      BY <2>1 DEF SendCode, DaysPass
    <2>3. claim'[c].status = claim[c].status
          /\ (claim'[c].phone = claim[c].phone
              \/ (claim[c].status \in Open /\ claim[c].phone = "unsent"))
      <3>1. claim \in [Claims -> Claim] /\ claim[c] \in Claim
        BY DEF IInv, Documents
      <3>2. CASE SendCode(d)
        BY <3>1, <3>2 DEF SendCode, Claim
      <3>3. CASE DaysPass(d)
        BY <3>1, <3>3 DEF DaysPass, Claim
      <3>4. QED
        BY <2>1, <3>2, <3>3
    <2>4. claim[c].status \in Open => claim[c].status \notin Closings
      BY DEF Open, Submitted, Closings
    <2>5. QED
      BY <1>1, <2>2, <2>3, <2>4 DEF Steady, Holds, Step
  <1>7. CASE (\E u \in Users : Invite(u)) \/ UNCHANGED vars
    <2>1. UNCHANGED <<claim, request, overtaken>>
      BY <1>7 DEF Invite, vars, history
    <2>2. QED
      BY <1>1, <2>1 DEF Steady, Holds, Step
  <1>8. QED
    BY <1>2, <1>3, <1>4, <1>5, <1>6, <1>7 DEF Next

-----------------------------------------------------------------------------
(* Who has come onto the team, and why he is on it.                         *)

\* A step that brings u onto the team, by no invitation and no admin, is that of
\* a claim of his.
Enters(p, u) ==
    /\ u \notin placed
    /\ \/ business.members[u] # "none"
       \/ Join(p) /\ Claimant(p) = u
       \/ SaveVerified(p) /\ Claimant(p) = u /\ request'[p] # Idle

LEMMA EntersReplaced ==
  ASSUME IInv, NEW p \in Callers, NEW new \in Business, NEW next, NEW u \in Users,
         Step(p) \in TeamSteps, SaveMembers(p, new, next), business'.members[u] # "none",
         new.members[u] \in {Seen(p).members[u], "none"}
  PROVE  business.members[u] # "none"
  <1>1. CASE request[p].fresh
    <2>1. business'.members = new.members
      BY <1>1, SavedFields
    <2>2. Seen(p).members = business.members
      BY <1>1 DEF IInv, Requests, Current, Seen, Step
    <2>3. QED
      BY <2>1, <2>2
  <1>2. CASE ~request[p].fresh
    BY <1>2, SavedFields
  <1>3. QED
    BY <1>1, <1>2

LEMMA PathsKeep ==
  ASSUME IInv, NEW p \in Callers, NEW new \in Business, NEW next, SavePaths(p, new, next)
  PROVE  business'.members = business.members
  BY SavedFields

LEMMA VerifiedEnters ==
  ASSUME IInv, Keeping, NEW p \in Callers, SaveVerified(p), NEW u \in Users,
         u \notin placed', business'.members[u] # "none"
  PROVE  Enters(p, u)
  <1> DEFINE w == Claimant(p)
             b == Seen(p)
             kept == [v \in Users |-> IF v \in Replaced(p) THEN "none" ELSE b.members[v]]
             members == [kept EXCEPT
                ![w] = IF @ = "none" /\ b.owner = w THEN @ ELSE WithFirst(@, "owner")]
             new == [b EXCEPT
                !.members = members,
                !.owner = IF @ = Nobody \/ request[p].was.status = "disputed" THEN w ELSE @,
                !.level = Verified,
                !.frozen = FALSE,
                !.dispute = NoClaim,
                !.status = IF @ = "pending" THEN "active" ELSE @]
             next == [request[p] EXCEPT !.step = "approveClaim"]
  <1>1. /\ Step(p) = "approveSave" /\ w \in Users /\ w \notin Replaced(p)
        /\ \A v \in Users \ {w} : members[v] = kept[v]
        /\ members \in [Users -> Entries]
    <2>1. Step(p) = "approveSave"
      BY DEF SaveVerified
    <2>2. Claimant(p) \notin Replaced(p)
      BY <2>1 DEF Keeping, Names, About, Replaced, ClaimSteps, Steps
    <2>3. QED
      BY <2>1, <2>2, DecidedMembers
  <1>2. new \in Business /\ new.members = members
    <2>1. b \in Business /\ members \in [Users -> Entries]
      BY <1>1, Held
    <2>2. LET d == Decided(b, w, members, request[p].was.status)
          IN  d \in Business /\ d.members = members
      <3> HIDE DEF members, b
      <3> QED
        BY <1>1, <2>1, DecidedType
    <2>3. QED
      BY <2>2 DEF Decided
  <1>3. next.step = "approveClaim"
    BY Held DEF Request
  <1>4. /\ IF kept = b.members /\ Role(b, w) = "none"
           THEN SavePushed(p, new, w, next)
           ELSE SaveMembers(p, new, next)
        /\ placed' = IF business' = business \/ request[p].was.status # "disputed"
                     THEN placed ELSE placed \ (request[p].was.against \ CameBack(p))
    BY DEF SaveVerified
  <1>5. u \in placed => u \in Replaced(p) /\ u \notin CameBack(p) /\ business' # business
    BY <1>4 DEF Replaced
  <1>6. kept[u] = IF u \in Replaced(p) THEN "none" ELSE b.members[u]
    OBVIOUS
  <1> HIDE DEF members, new, kept
  <1>7. CASE SavePushed(p, new, w, next) /\ kept = b.members
    <2>1. \A v \in Users \ {w} : business'.members[v] = business.members[v]
      BY <1>1, <1>2, <1>7, PushKeeps
    <2>2. request'[p] # Idle
      BY <1>3, <1>7, OwnRequest, IdleSound DEF SavePushed
    <2>3. u \notin placed
      <3>1. ASSUME u \in placed
            PROVE  FALSE
        <4>1. u # w /\ b.members[u] = "none"
          BY <1>1, <1>5, <1>6, <1>7, <3>1
        <4>2. business.members[u] = "none"
          BY <1>5, <3>1, <4>1 DEF CameBack
        <4>3. QED
          BY <2>1, <4>1, <4>2
      <3>2. QED
        BY <3>1
    <2>4. QED
      BY <2>1, <2>2, <2>3 DEF Enters
  <1>8. CASE SaveMembers(p, new, next)
    <2>1. CASE ~request[p].fresh
      <3>1. business' = business
        BY <1>2, <1>8, <2>1, SavedFields
      <3>2. QED
        BY <1>5, <3>1 DEF Enters
    <2>2. CASE request[p].fresh
      <3>1. business'.members = members
        BY <1>2, <1>8, <2>2, SavedFields
      <3>2. request'[p] # Idle
        BY <1>3, <1>8, <2>2, OwnRequest, IdleSound DEF SaveMembers
      <3>3. u # w => u \notin Replaced(p) /\ business.members[u] # "none"
        <4>1. u # w => new.members[u] = kept[u]
          BY <1>1, <1>2
        <4>2. u # w => kept[u] # "none"
          BY <1>2, <3>1, <4>1
        <4>3. QED
          BY <1>1, <1>2, <1>6, <1>8, <4>1, <4>2, EntersReplaced DEF TeamSteps
      <3>4. u \notin placed
        BY <1>1, <1>5, <3>3
      <3>5. QED
        BY <3>2, <3>3, <3>4 DEF Enters
    <2>3. QED
      BY <2>1, <2>2
  <1>9. QED
    BY <1>4, <1>7, <1>8

LEMMA Entrance ==
  ASSUME IInv, Keeping, NEW p \in Callers, Proceed(p), NEW u \in Users,
         u \notin placed', business'.members[u] # "none"
  PROVE  Enters(p, u)
  <1>1. CASE SaveVerified(p)
    BY <1>1, VerifiedEnters
  <1>2. CASE ~SaveVerified(p)
    <2>1. u \notin placed
      BY <1>2 DEF Proceed, CreateClaim, SavePhone, LoadAfterPhone, RefuseDispute, SaveDispute, Freeze, Join,
         SaveSubmitted, SaveInfoRequested, SaveClosed, LoadForClose, SaveAfterClose,
         LoadForApprove, SaveApproved, SaveAccepted, SaveMember, SaveOwner, history
    <2>2. CASE Join(p)
      <3>1. Claimant(p) \in Users
        BY <2>2, Held DEF Join, Keeping, Names, About, ClaimSteps, Steps
      <3> DEFINE w == Claimant(p)
                 new == [Seen(p) EXCEPT
                        !.members[w] = IF Role(Seen(p), w) = "none" THEN "owner" ELSE @,
                        !.owner = IF @ = Nobody THEN w ELSE @,
                        !.level = IF @ < ClaimPending THEN ClaimPending ELSE @]
      <3>2. new \in Business
        BY <3>1, JoinedType, Held DEF Joined
      <3>3. SavePaths(p, new, Idle) \/ SavePushed(p, new, w, Idle)
        BY <2>2 DEF Join
      <3> HIDE DEF new
      <3>4. u = w \/ business'.members[u] = business.members[u]
        BY <3>1, <3>2, <3>3, PushKeeps, PathsKeep
      <3>5. QED
        BY <2>1, <2>2, <3>4 DEF Enters
    <2>3. CASE Freeze(p)
      <3> DEFINE new == [Seen(p) EXCEPT !.frozen = TRUE, !.dispute = request[p].claim]
      <3>1. new \in Business
        BY <2>3, Held DEF Freeze, Business, ClaimSteps, Steps
      <3>2. SavePaths(p, new, Idle)
        BY <2>3 DEF Freeze
      <3> HIDE DEF new
      <3>3. business'.members = business.members
        BY <3>1, <3>2, PathsKeep
      <3>4. QED
        BY <2>1, <3>3 DEF Enters
    <2>4. CASE SaveAfterClose(p)
      <3>1. PICK new \in AfterClose(request[p].was, Seen(p)) :
              SavePaths(p, new, Idle) \/ SaveMembers(p, new, Idle)
        BY <2>4 DEF SaveAfterClose
      <3>2. new \in Business /\ new.members[u] \in {Seen(p).members[u], "none"}
        BY Held, AfterCloseType, AfterCloseFields
      <3>3. Step(p) \in TeamSteps
        BY <2>4 DEF SaveAfterClose, TeamSteps
      <3>4. business.members[u] # "none"
        BY <3>1, <3>2, <3>3, EntersReplaced, PathsKeep
      <3>5. QED
        BY <2>1, <3>4 DEF Enters
    <2>5. CASE SaveAccepted(p)
      <3> DEFINE w == request[p].user
                 new == [Seen(p) EXCEPT !.members[w] = request[p].to]
      <3>1. w \in Users /\ request[p].to \in Roles /\ u # w
        BY <2>5, Held DEF SaveAccepted, Sound, Step, Roles
      <3>2. new \in Business
        <4>1. [Seen(p).members EXCEPT ![w] = request[p].to] \in [Users -> Entries]
          BY <3>1, RolesAreEntries, Held DEF Business
        <4>2. QED
          BY <4>1, Held DEF Business, Entries
      <3>3. SavePushed(p, new, w, Idle) \/ UNCHANGED business
        BY <2>5 DEF SaveAccepted
      <3> HIDE DEF new
      <3>4. business.members[u] # "none"
        BY <3>1, <3>2, <3>3, PushKeeps
      <3>5. QED
        BY <2>1, <3>4 DEF Enters
    <2>6. CASE SaveMember(p)
      <3> DEFINE w == request[p].user
                 members == [Seen(p).members EXCEPT
                    ![w] = IF request[p].to = "none" THEN request[p].to
                           ELSE WithFirst(@, request[p].to)]
      <3>1. Step(p) = "role" /\ w \in Users /\ request[p].to \in Roles /\ u # w
        BY <2>6, Held DEF SaveMember, Sound, Step
      <3>2. members \in [Users -> Entries] /\ members[u] = Seen(p).members[u]
        <4>1. Seen(p).members \in [Users -> Entries] /\ "none" \in Entries
          BY Held DEF Business, Entries
        <4>2. request[p].to # "none" =>
                WithFirst(Seen(p).members[w], request[p].to) \in Entries
          BY <3>1, <4>1, WithFirstEntry DEF Roles
        <4>3. QED
          BY <3>1, <4>1, <4>2
      <3>3. PICK heir \in Heirs(members) :
              SaveMembers(p, Led(Seen(p), w, members, request[p].to, heir), Idle)
        BY <2>6 DEF SaveMember, Led
      <3> DEFINE new == Led(Seen(p), w, members, request[p].to, heir)
      <3>4. new \in Business /\ new.members = members
        BY <3>1, <3>2, <3>3, HeirsType, LedType, Held
      <3> HIDE DEF new, members
      <3>5. business.members[u] # "none"
        BY <3>1, <3>2, <3>3, <3>4, EntersReplaced DEF new, TeamSteps
      <3>6. QED
        BY <2>1, <3>5 DEF Enters
    <2>7. CASE SaveOwner(p)
      <3> DEFINE w == request[p].user
                 b == Seen(p)
      <3>1. Step(p) = "owner" /\ w \in Users /\ u # w
        BY <2>7, Held DEF SaveOwner, Sound, Step
      <3>2. PICK leaving \in {{}, Owners(b)} :
              SaveMembers(p,
                Given(b, w, [v \in Users |-> IF v = w THEN "owner"
                                             ELSE IF v \in leaving THEN "none"
                                             ELSE b.members[v]]), Idle)
        BY <2>7 DEF SaveOwner, Given
      <3> DEFINE members == [v \in Users |-> IF v = w THEN "owner"
                                             ELSE IF v \in leaving THEN "none"
                                             ELSE b.members[v]]
                 new == Given(b, w, members)
      <3>3. members \in [Users -> Entries] /\ members[u] \in {b.members[u], "none"}
        BY <3>1, Held DEF Business, Entries
      <3> HIDE DEF members
      <3>4. new \in Business /\ new.members = members
        BY <3>1, <3>3, Held, GivenType DEF Given, Business, Entries
      <3> HIDE DEF new
      <3>5. business.members[u] # "none"
        BY <3>1, <3>2, <3>3, <3>4, EntersReplaced DEF new, members, TeamSteps
      <3>6. QED
        BY <2>1, <3>5 DEF Enters
    <2>8. CASE UNCHANGED business
      BY <2>1, <2>8 DEF Enters
    <2>9. QED
      BY <1>2, <2>2, <2>3, <2>4, <2>5, <2>6, <2>7, <2>8
      DEF Proceed, CreateClaim, SavePhone, LoadAfterPhone, RefuseDispute, SaveDispute, SaveSubmitted,
          SaveInfoRequested, SaveClosed, LoadForClose, LoadForApprove, SaveApproved
  <1>3. QED
    BY <1>1, <1>2

-----------------------------------------------------------------------------
(* Whoever is on the team by one claim alone is accounted for.              *)

\* A claim puts somebody on the team only if it did before, or he has just come.
LEMMA PlaceBack ==
  ASSUME IInv, Keeping, UsersKept, NEW p \in Callers, Proceed(p), NEW c \in Claims,
         claim'[c].user = claim[c].user, claim'[c].kind = claim[c].kind,
         overtaken \subseteq overtaken', UNCHANGED crashes, PlaceBy(c)'
  PROVE  /\ claim[c].user \in Users /\ c \notin overtaken
         /\ claim[c].kind # "reverification" /\ ~Elsewhere(c, claim[c].user)
         /\ Enters(p, claim[c].user)
         /\ business.members[claim[c].user] # "none" => PlaceBy(c)
  <1> DEFINE u == claim[c].user
  <1>1. /\ u \in Users /\ c \notin overtaken /\ claim[c].kind # "reverification"
        /\ u \notin placed' /\ business'.members[u] # "none" /\ crashes = 0
    BY DEF PlaceBy
  <1>2. ~Elsewhere(c, u)
    <2>1. ASSUME NEW d \in Claims \ {c}, claim[d].user = u
          PROVE  FALSE
      <3>1. claim'[d].user = u
        BY <1>1, <2>1 DEF UsersKept
      <3>2. QED
        BY <2>1, <3>1 DEF PlaceBy, Elsewhere
    <2>2. QED
      BY <2>1 DEF Elsewhere
  <1>3. Enters(p, u)
    BY <1>1, Entrance
  <1>4. QED
    BY <1>1, <1>2, <1>3 DEF PlaceBy, Enters

\* A request for the claimant of c is one on c.
LEMMA OnlyHis ==
  ASSUME IInv, Keeping, NEW p \in Callers, Step(p) \in ClaimSteps, NEW c \in Claims,
         Claimant(p) = claim[c].user, ~Elsewhere(c, claim[c].user)
  PROVE  Holds(p, c)
  <1>1. request[p].claim \in Claims /\ claim[request[p].claim].user = claim[c].user
    BY Held DEF Keeping, Names, About
  <1>2. QED
    BY <1>1 DEF Elsewhere, Holds

\* A step that saves no claim and ends no approval, no check and no end of claim c.
LEMMA StillAccounted ==
  ASSUME IInv, NEW p \in Callers, OnlyOwn(p), NEW c \in Claims,
         claim'[c].status = claim[c].status, claim'[c].phone = claim[c].phone,
         claim'[c].user = claim[c].user,
         Holds(p, c)' => Step(p)' \notin Proving,
         TakesBack(p, c) => TakesBack(p, c)',
         Holds(p, c) /\ Step(p) = "approveClaim" => Approving(c)',
         Approving(c) \/ Gave(c)
  PROVE  Approving(c)' \/ Gave(c)'
  <1>1. \A q \in Callers \ {p} :
            /\ Holds(q, c)' <=> Holds(q, c)
            /\ Step(q)' = Step(q)
            /\ TakesBack(q, c)' <=> TakesBack(q, c)
    <2>1. ASSUME NEW q \in Callers \ {p}
          PROVE  /\ Holds(q, c)' <=> Holds(q, c)
                 /\ Step(q)' = Step(q)
                 /\ TakesBack(q, c)' <=> TakesBack(q, c)
      <3>1. /\ request'[q].step = request[q].step /\ request'[q].claim = request[q].claim
            /\ request'[q].was = request[q].was /\ request'[q].seen = request[q].seen
        BY StillHolds DEF Step, Seen
      <3>2. QED
        BY <3>1 DEF Holds, TakesBack, Step, Seen
    <2>2. QED
      BY <2>1
  <1>2. CASE Approving(c)
    <2>1. CASE claim[c].status = "approved"
      BY <2>1 DEF Approving
    <2>2. CASE \E q \in Callers : Holds(q, c) /\ Step(q) = "approveClaim"
      <3>1. PICK q \in Callers : Holds(q, c) /\ Step(q) = "approveClaim"
        BY <2>2
      <3>2. CASE q = p
        BY <3>1, <3>2
      <3>3. CASE q # p
        <4>1. Holds(q, c)' /\ Step(q)' = "approveClaim"
          BY <1>1, <3>1, <3>3
        <4>2. QED
          BY <4>1 DEF Approving
      <3>4. QED
        BY <3>2, <3>3
    <2>3. QED
      BY <1>2, <2>1, <2>2 DEF Approving
  <1>3. CASE Gave(c)
    <2>1. \A q \in Callers : Holds(q, c)' => Step(q)' \notin Proving
      BY <1>1, <1>3 DEF Gave
    <2>2. claim'[c].status \in Open \/ \E q \in Callers : TakesBack(q, c)'
      BY <1>1, <1>3 DEF Gave
    <2>3. QED
      BY <1>3, <2>1, <2>2 DEF Gave
  <1>4. QED
    BY <1>2, <1>3

\* The saves of the claim itself.
LEMMA SavedAccounted ==
  ASSUME IInv, Keeping, Closures, NEW p \in Callers, ClaimSave(p), NEW c \in Claims,
         c \notin overtaken', PlaceBy(c)
  PROVE  Approving(c)' \/ Gave(c)'
  <1> DEFINE was == request[p].was
  <1>1. OnlyOwn(p) /\ (request'[p] = Idle \/ Follows(p))
    BY Continued, NextStepOf DEF ClaimSave, Proceed
  <1>2. Approving(c) \/ Gave(c)
    BY DEF Closures, Accounted
  <1>3. CASE c # request[p].claim
    <2>1. claim'[c] = claim[c] /\ ~Holds(p, c)' /\ ~Holds(p, c)
      BY <1>1, <1>3, ClaimSaved, IdleSound DEF Follows, Holds, Step, ClaimSteps
    <2>2. QED
      BY <1>1, <1>2, <2>1, StillAccounted DEF TakesBack
  <1>4. CASE c = request[p].claim
    <2>1. /\ Holds(p, c) /\ Known(p)
          /\ claim[c].status = was.status /\ claim[c].phone = was.phone
          /\ was.status \in Open
      BY <1>4, ClaimSaved DEF Closures, Known, Holds
    <2>2. CASE SaveApproved(p)
      BY <1>4, <2>2, ClaimSaved DEF Approving
    <2>3. ASSUME NEW q \in Callers, Holds(q, c), Step(q) = "approveClaim", ~SaveApproved(p)
          PROVE  Approving(c)'
      <3>1. q # p
        BY <2>3 DEF ClaimSave, SavePhone, SaveDispute, SaveSubmitted, SaveInfoRequested,
           SaveClosed
      <3>2. Holds(q, c)' /\ Step(q)' = "approveClaim"
        BY <1>1, <2>3, <3>1, StillHolds DEF Holds, Step
      <3>3. QED
        BY <3>2 DEF Approving
    <2>4. CASE Gave(c) /\ ~SaveApproved(p)
      <3>1. /\ claim[c].phone = "passed" /\ claim[c].status # "disputed"
            /\ Step(p) \notin Proving
            /\ \A q \in Callers : Holds(q, c) => Step(q) \notin Proving
        BY <2>1, <2>4 DEF Gave
      <3>2. ~SavePhone(p) /\ ~SaveDispute(p)
        BY <2>1, <3>1 DEF Known, SavePhone, SaveDispute, Proving, ClaimSteps, Steps
      <3>3. claim'[c].phone = "passed"
        BY <1>4, <3>1, <3>2, ClaimSaved
      <3>4. \A q \in Callers : Holds(q, c)' => Step(q)' \notin Proving
        <4>1. Step(p) \notin {"phone", "phoneLoad"}
          BY <2>4, <3>2 DEF ClaimSave, SaveSubmitted, SaveInfoRequested, SaveClosed
        <4>2. Step(p)' \notin Proving
          BY <1>1, <4>1, IdleSound DEF Follows, Step, Proving
        <4>3. QED
          BY <1>1, <3>1, <4>2, StillHolds DEF Holds, Step
      <3>5. CASE SaveSubmitted(p) \/ SaveInfoRequested(p)
        <4>1. claim'[c].status \in {"pending", "info_requested"}
          BY <1>4, <2>1, <3>1, <3>5, ClaimSaved DEF Unless
        <4>2. QED
          BY <3>3, <3>4, <4>1 DEF Gave, Open, Submitted
      <3>6. CASE SaveClosed(p)
        <4>1. claim'[c].status \in Closings /\ claim'[c].status # "disputed"
          BY <1>4, <3>6, ClaimSaved DEF Closings
        <4>2. request'[p] # Idle /\ Follows(p) /\ request'[p].step = "closeLoad"
          <5>1. request'[p].step = "closeLoad"
            BY <3>6, Held DEF SaveClosed, IInv, Requests, Request
          <5>2. QED
            BY <1>1, <5>1, IdleSound
        <4>3. TakesBack(p, c)'
          <5>1. /\ request'[p].claim = c /\ request'[p].was.status = was.status
                /\ request'[p].was.phone = was.phone
            BY <1>4, <3>6, <4>2 DEF Follows, SaveClosed
          <5>2. QED
            BY <2>1, <3>1, <4>2, <5>1 DEF TakesBack, Holds, Step, Ending, ClaimSteps, Steps
        <4>4. QED
          BY <3>3, <3>4, <4>1, <4>3 DEF Gave
      <3>7. QED
        BY <2>4, <3>2, <3>5, <3>6 DEF ClaimSave
    <2>5. Approving(c) => claim[c].status # "approved"
      BY <2>1 DEF Open, Submitted
    <2>6. QED
      BY <1>2, <2>2, <2>3, <2>4, <2>5 DEF Approving
  <1>5. QED
    BY <1>3, <1>4

\* The other steps of a request that has begun.
LEMMA MovedAccounted ==
  ASSUME IInv, Keeping, Closures, UsersKept, NEW p \in Callers, Proceed(p), ~ClaimSave(p),
         ~CreateClaim(p), NEW c \in Claims, PlaceBy(c)', UNCHANGED <<claim, crashes>>,
         overtaken \subseteq overtaken'
  PROVE  Approving(c)' \/ Gave(c)'
  <1> DEFINE u == claim[c].user
  <1>1. OnlyOwn(p) /\ (request'[p] = Idle \/ Follows(p))
    BY Continued, NextStepOf
  <1>2. /\ u \in Users /\ c \notin overtaken /\ ~Elsewhere(c, u)
        /\ claim[c].kind # "reverification" /\ Enters(p, u)
        /\ business.members[u] # "none" => PlaceBy(c)
    BY PlaceBack
  <1>3. CASE Join(p) /\ Claimant(p) = u
    <2>1. Step(p) = "join" /\ Step(p) \in ClaimSteps \cap Proving /\ c \notin overtaken'
      BY <1>3 DEF Join, ClaimSteps, Steps, Proving, PlaceBy
    <2>2. Holds(p, c) /\ request[p].claim = c /\ Known(p) /\ Steady(c)
      BY <1>2, <1>3, <2>1, OnlyHis DEF Closures, Holds
    <2>3. /\ claim[c].phone = "passed" /\ claim[c].status \in Open
          /\ claim[c].status # "disputed"
      BY <1>3, <2>1, <2>2 DEF Join, NoteOvertaken, Known
    <2>4. \A q \in Callers : Holds(q, c)' => Step(q)' \notin Proving
      <3>1. ASSUME NEW q \in Callers, Holds(q, c)', Step(q)' \in Proving
            PROVE  FALSE
        <4>1. request'[p] = Idle
          BY <1>3, SavedRequest DEF Join
        <4>2. q # p
          BY <3>1, <4>1, IdleSound DEF Holds, Step, ClaimSteps
        <4>3. Holds(q, c) /\ Step(q) \in Proving
          BY <1>1, <3>1, <4>2, StillHolds DEF Holds, Step
        <4>4. QED
          BY <1>2, <2>1, <2>2, <4>2, <4>3 DEF Steady
      <3>2. QED
        BY <3>1
    <2>5. QED
      BY <2>3, <2>4 DEF Gave
  <1>4. CASE SaveVerified(p) /\ Claimant(p) = u /\ request'[p] # Idle
    <2>1. Step(p) = "approveSave" /\ Step(p) \in ClaimSteps
      BY <1>4 DEF SaveVerified, ClaimSteps, Steps
    <2>2. Holds(p, c)
      BY <1>2, <1>4, <2>1, OnlyHis
    <2>3. request'[p].step = "approveClaim" /\ request'[p].claim = c
      BY <1>1, <1>4, <2>1, <2>2 DEF Follows, Holds
    <2>4. Holds(p, c)' /\ Step(p)' = "approveClaim"
      BY <2>3 DEF Holds, Step, ClaimSteps, Steps
    <2>5. QED
      BY <2>4 DEF Approving
  <1>5. CASE business.members[u] # "none"
    <2>1. PlaceBy(c) /\ (Approving(c) \/ Gave(c)) /\ Steady(c)
      BY <1>2, <1>5 DEF Closures, Accounted
    <2>2. Step(p) # "approveClaim"
      BY DEF Proceed, ClaimSave, CreateClaim, LoadAfterPhone, RefuseDispute, Freeze, Join, LoadForClose,
         SaveAfterClose, LoadForApprove, SaveVerified, SaveAccepted, SaveMember, SaveOwner
    <2>3. Step(p) \in {"phone", "phoneLoad"} => LoadAfterPhone(p)
      BY DEF Proceed, ClaimSave, CreateClaim, SavePhone, RefuseDispute, Freeze, Join,
         LoadForClose, SaveAfterClose, LoadForApprove, SaveVerified, SaveAccepted, SaveMember, SaveOwner
    <2>4. CASE Step(p) \in {"phoneLoad"} /\ Holds(p, c)
      <3>1. \/ claim[c].status = "approved"
            \/ \E q \in Callers \ {p} : Holds(q, c) /\ Step(q) = "approveClaim"
        BY <2>1, <2>4 DEF Gave, Approving, Proving
      <3>2. CASE claim[c].status = "approved"
        BY <3>2 DEF Approving
      <3>3. CASE \E q \in Callers \ {p} : Holds(q, c) /\ Step(q) = "approveClaim"
        <4>1. PICK q \in Callers \ {p} : Holds(q, c) /\ Step(q) = "approveClaim"
          BY <3>3
        <4>2. Holds(q, c)' /\ Step(q)' = "approveClaim"
          BY <1>1, <4>1, StillHolds DEF Holds, Step
        <4>3. QED
          BY <4>2 DEF Approving
      <3>4. QED
        BY <3>1, <3>2, <3>3
    <2>5. CASE ~(Step(p) \in {"phoneLoad"} /\ Holds(p, c))
      <3>1. Holds(p, c)' => Step(p)' \notin Proving
        <4>1. ASSUME Holds(p, c)', Step(p)' \in Proving
              PROVE  FALSE
          <5>1. Follows(p) /\ request'[p].claim = c
            BY <1>1, <4>1, IdleSound DEF Holds, Step, ClaimSteps
          <5>2. Step(p) \in {"phone", "phoneLoad"}
            BY <4>1, <5>1 DEF Follows, Step, Proving
          <5>3. Step(p) = "phoneLoad"
            BY <2>3, <5>2 DEF LoadAfterPhone
          <5>4. Holds(p, c)
            BY <5>1, <5>3 DEF Follows, Holds, ClaimSteps, Steps
          <5>5. QED
            BY <2>5, <5>3, <5>4
        <4>2. QED
          BY <4>1
      <3>2. TakesBack(p, c) => TakesBack(p, c)'
        <4>1. ASSUME TakesBack(p, c)
              PROVE  TakesBack(p, c)'
          <5>1. CASE LoadForClose(p)
            <6>1. /\ request'[p].step = "closeSave" /\ request'[p].claim = request[p].claim
                  /\ request'[p].was = request[p].was /\ request'[p].seen = business
              BY <5>1, Held DEF LoadForClose, LoadBusiness, IInv, Requests, Request
            <6>2. QED
              BY <1>5, <4>1, <6>1 DEF TakesBack, Holds, Step, Seen, ClaimSteps, Steps, Ending
          <5>2. CASE SaveAfterClose(p)
            <6> DEFINE was == request[p].was
            <6>1. /\ Step(p) = "closeSave" /\ was.status # "disputed" /\ was.phone = "passed"
                  /\ was.kind # "reverification" /\ Claimant(p) = u
                  /\ Seen(p).members[u] # "none"
              <7>1. Step(p) = "closeSave" /\ Holds(p, c) /\ Known(p)
                BY <4>1, <5>2 DEF SaveAfterClose, TakesBack, Closures
              <7>2. Claimant(p) = u
                BY <7>1 DEF Holds, Keeping, Names, About
              <7>3. QED
                BY <1>2, <4>1, <7>1, <7>2 DEF TakesBack, Known, Holds
            <6>2. Seen(p).level < Verified
              <7>1. u \notin placed' /\ placed' = placed \cup StaysOn(p)
                BY <5>2 DEF PlaceBy, SaveAfterClose
              <7>2. QED
                BY <1>2, <6>1, <7>1, Held DEF StaysOn, Business, Verified, Unclaimed
            <6>3. PICK new \in AfterClose(was, Seen(p)) :
                    IF new.members = Seen(p).members
                    THEN SavePaths(p, new, Idle) /\ UNCHANGED overtaken
                    ELSE /\ SaveMembers(p, new, Idle)
                         /\ overtaken' = IF request[p].fresh THEN overtaken
                                         ELSE overtaken \cup {request[p].claim}
              BY <5>2 DEF SaveAfterClose
            <6>4. new \in Business /\ new.members[u] = "none"
              <7>1. PICK heir : new = TakenBack(Seen(p), was.user, was.kind, heir)
                BY <6>1, <6>2, <6>3 DEF AfterClose
              <7>2. new.members = [Seen(p).members EXCEPT ![u] = "none"]
                BY <6>1, <7>1, Held DEF TakenBack, Business, Claimant
              <7>3. QED
                BY <1>2, <6>3, <7>2, Held, AfterCloseType DEF Business
            <6>5. SaveMembers(p, new, Idle) /\ request[p].fresh
              BY <4>1, <6>1, <6>3, <6>4 DEF PlaceBy, TakesBack, Holds
            <6>6. business'.members[u] = "none"
              BY <6>4, <6>5, SavedFields
            <6>7. QED
              BY <6>6 DEF PlaceBy
          <5>3. LoadForClose(p) \/ SaveAfterClose(p)
            BY <4>1 DEF TakesBack, Ending, Proceed, ClaimSave, CreateClaim, LoadAfterPhone,
               RefuseDispute, Freeze, Join, LoadForApprove, SaveVerified, SaveAccepted, SaveMember, SaveOwner
          <5>4. QED
            BY <5>1, <5>2, <5>3
        <4>2. QED
          BY <4>1
      <3>3. QED
        BY <1>1, <2>1, <2>2, <3>1, <3>2, StillAccounted
    <2>6. QED
      BY <2>4, <2>5
  <1>6. QED
    BY <1>2, <1>3, <1>4, <1>5 DEF Enters

\* A new claim: its claimant is not on the team by it, and nothing else changes.
LEMMA CreatedAccounted ==
  ASSUME IInv, Keeping, Closures, UsersKept, NEW p \in Callers, CreateClaim(p),
         NEW c \in Claims, PlaceBy(c)'
  PROVE  Approving(c)' \/ Gave(c)'
  <1>1. OnlyOwn(p) /\ request'[p] = Idle
    BY OwnRequest DEF CreateClaim, Done
  <1>2. UNCHANGED <<business, placed, crashes, overtaken>> /\ Proceed(p)
    BY DEF CreateClaim, Proceed, rest, history
  <1>3. PICK d \in Claims :
          /\ claim[d].status = "none"
          /\ claim' = [claim EXCEPT ![d] = [NoClaimYet EXCEPT
                !.status = "draft", !.user = request[p].user,
                !.kind = request[p].to, !.waiting = "running"]]
    BY DEF CreateClaim
  <1>4. ~Holds(p, c) /\ ~Holds(p, c)'
    BY <1>1, IdleSound DEF CreateClaim, Holds, Step, ClaimSteps
  <1>5. CASE c # d
    <2>1. claim'[c] = claim[c]
      BY <1>3, <1>5, Held
    <2>2. PlaceBy(c)
      BY <1>2, <2>1, PlaceBack DEF PlaceBy
    <2>3. QED
      BY <1>1, <1>4, <2>1, <2>2, StillAccounted DEF Closures, Accounted, TakesBack
  <1>6. CASE c = d
    <2> DEFINE u == claim'[c].user
    <2>1. u \in Users /\ u \notin placed /\ business.members[u] # "none"
          /\ \A e \in Claims \ {c} : claim'[e].user # u
      BY <1>2 DEF PlaceBy, Elsewhere
    <2>2. PICK e \in Claims : claim[e].user = u
      BY <2>1 DEF Keeping, Reasons
    <2>3. claim[c].user = Nobody
      BY <1>3, <1>6 DEF Keeping, Names, Named
    <2>4. e # c /\ claim'[e].user = u
      BY <2>1, <2>2, <2>3, ClaimConstants DEF UsersKept
    <2>5. QED
      BY <2>1, <2>4
  <1>7. QED
    BY <1>5, <1>6

\* The steps of nobody's request.
LEMMA RestAccounted ==
  ASSUME IInv, Closures, NEW c \in Claims, PlaceBy(c)',
         \/ \E d \in Claims : SendCode(d) \/ DaysPass(d)
         \/ \E u \in Users : Invite(u)
         \/ UNCHANGED vars
  PROVE  Approving(c)' \/ Gave(c)'
  <1>1. UNCHANGED <<business, request, placed, overtaken, crashes>>
    BY DEF SendCode, DaysPass, Invite, vars, rest, history
  <1> DEFINE Same ==
        /\ \A d \in Claims : claim'[d].user = claim[d].user /\ claim'[d].kind = claim[d].kind
        /\ claim'[c].status = claim[c].status
        /\ claim'[c].phone = claim[c].phone \/ claim[c].phone = "unsent"
  <1>2. Same
    <2>1. claim \in [Claims -> Claim] /\ claim[c] \in Claim
      BY DEF IInv, Documents
    <2>2. ASSUME NEW d \in Claims, SendCode(d) \/ DaysPass(d)
          PROVE  Same
      <3>1. CASE SendCode(d)
        BY <2>1, <3>1 DEF SendCode, Claim
      <3>2. CASE DaysPass(d)
        BY <2>1, <3>2 DEF DaysPass, Claim
      <3>3. QED
        BY <2>2, <3>1, <3>2
    <2>3. CASE (\E u \in Users : Invite(u)) \/ UNCHANGED vars
      BY <2>3 DEF Invite, vars
    <2>4. QED
      BY <2>2, <2>3
  <1>3. PlaceBy(c)
    BY <1>1, <1>2 DEF PlaceBy, Elsewhere
  <1>4. CASE Approving(c)
    BY <1>1, <1>2, <1>4 DEF Approving, Holds, Step
  <1>5. CASE Gave(c)
    BY <1>1, <1>2, <1>5 DEF Gave, TakesBack, Holds, Step, Seen
  <1>6. QED
    BY <1>3, <1>4, <1>5 DEF Closures, Accounted

LEMMA ClosuresStep ==
  ASSUME IInv, Keeping, Closures, [Next]_vars
  PROVE  Closures'
  <1>1. UsersKept /\ overtaken \subseteq overtaken'
    BY NamesStep, OvertakenGrows DEF Keeping, UsersKept
  <1>2. ASSUME NEW c \in Claims, PlaceBy(c)'
        PROVE  Approving(c)' \/ Gave(c)'
    <2>1. ASSUME NEW p \in Callers, Ask(p)
          PROVE  Approving(c)' \/ Gave(c)'
      <3>1. /\ OnlyOwn(p) /\ Opens(p) /\ Step(p) = "idle"
            /\ UNCHANGED <<claim, overtaken, placed, crashes>>
            /\ business'.members = business.members
        BY <2>1, AskedOpens
      <3>2. PlaceBy(c)
        BY <1>2, <3>1 DEF PlaceBy, Elsewhere
      <3>3. ~Holds(p, c)
        BY <3>1 DEF Holds, ClaimSteps
      <3>4. Holds(p, c)' => Step(p)' \notin Proving
        BY <3>1 DEF Opens, Holds, Step, Proving
      <3>5. QED
        BY <3>1, <3>2, <3>3, <3>4, StillAccounted DEF Closures, Accounted, TakesBack
    <2>2. ASSUME NEW p \in Callers, ClaimSave(p)
          PROVE  Approving(c)' \/ Gave(c)'
      <3>1. claim'[c].user = claim[c].user /\ claim'[c].kind = claim[c].kind
        BY <2>2, ClaimSaved
      <3>2. UNCHANGED <<business, placed, crashes>>
        BY <2>2, ClaimSaved
      <3>3. PlaceBy(c)
        BY <1>1, <1>2, <2>2, <3>1, <3>2, PlaceBack DEF PlaceBy, ClaimSave, Proceed
      <3>4. QED
        BY <1>2, <2>2, <3>3, SavedAccounted DEF PlaceBy
    <2>3. ASSUME NEW p \in Callers, CreateClaim(p)
          PROVE  Approving(c)' \/ Gave(c)'
      BY <1>1, <1>2, <2>3, CreatedAccounted
    <2>4. ASSUME NEW p \in Callers, Proceed(p), ~ClaimSave(p), ~CreateClaim(p)
          PROVE  Approving(c)' \/ Gave(c)'
      <3>1. UNCHANGED <<claim, crashes>>
        BY <2>4, Unsaved DEF Proceed, ClaimSave, LoadAfterPhone, RefuseDispute, Freeze, Join, LoadForClose,
           SaveAfterClose, LoadForApprove, SaveVerified, SaveAccepted, SaveMember,
           SaveOwner, rest
      <3>2. QED
        BY <1>1, <1>2, <2>4, <3>1, MovedAccounted
    <2>5. ASSUME NEW p \in Callers, Crash(p)
          PROVE  FALSE
      BY <1>2, <2>5, Held DEF Crash, PlaceBy
    <2>6. QED
      BY <1>2, <2>1, <2>2, <2>3, <2>4, <2>5, RestAccounted DEF Next
  <1>3. \A c \in Claims : Accounted(c)'
    BY <1>2 DEF Accounted
  <1>4. QED
    BY <1>3, KnownStep, SteadyStep DEF Closures

LEMMA InitClosures ==
  ASSUME Init
  PROVE  Closures
  <1>1. \A p \in Callers : Step(p) = "idle"
    BY IdleSound DEF Init, Step
  <1>2. \A c \in Claims : claim[c] = NoClaimYet
    BY DEF Init
  <1>3. \A c \in Claims : ~PlaceBy(c)
    BY <1>2, ClaimConstants DEF PlaceBy, NoClaimYet
  <1>4. \A c \in Claims : Steady(c)
    BY <1>1, <1>2 DEF Steady, Holds, ClaimSteps, NoClaimYet
  <1>5. QED
    BY <1>1, <1>3, <1>4 DEF Closures, Known, Accounted, ClaimSteps

LEMMA ClosuresHolds == Spec => []Closures
  <1>1. Init => Closures
    BY InitClosures
  <1>2. IInv /\ Keeping /\ Closures /\ [Next]_vars => Closures'
    BY ClosuresStep
  <1>3. QED
    BY <1>1, <1>2, IInvHolds, KeepingHolds, PTL DEF Spec

\* Whoever is on the team by one claim alone has it open or approved, or a request
\* is taking his place back: a claim that has been closed leaves its claimant
\* nothing (ClosedTakesBack).
THEOREM ClosedIsTakenBack == Spec => []ClosedTakesBack
  <1>1. IInv /\ Keeping /\ Closures => ClosedTakesBack
    <2> SUFFICES ASSUME IInv, Keeping, Closures, NEW c \in Claims,
                        crashes = 0,
                        claim[c].status \in Closings,
                        claim[c].kind # "reverification",
                        Settled(c),
                        c \notin overtaken,
                        claim[c].user \notin placed,
                        ~Elsewhere(c, claim[c].user),
                        business.members[claim[c].user] # "none"
                 PROVE  FALSE
      BY DEF ClosedTakesBack
    <2>1. claim[c].user \in Users
      BY UserKnown DEF Keeping, Closings
    <2>2. Approving(c) \/ Gave(c)
      BY <2>1 DEF PlaceBy, Closures, Accounted
    <2>3. \A p \in Callers : ~Holds(p, c)
      BY DEF Settled, Holds
    <2>4. claim[c].status # "approved" /\ claim[c].status \notin Open
      BY DEF Closings, Open, Submitted
    <2>5. QED
      BY <2>2, <2>3, <2>4 DEF Approving, Gave, TakesBack
  <1>2. QED
    BY <1>1, IInvHolds, KeepingHolds, ClosuresHolds, PTL

-----------------------------------------------------------------------------
(* A frozen listing.                                                       *)

\* Claim c is in dispute, and whoever is deciding it unfreezes the listing first.
Binds(c) ==
    /\ claim[c].status = "disputed"
    /\ \A p \in Callers : Holds(p, c) =>
        /\ Step(p) # "approveClaim"
        /\ Step(p) = "approveSave" => Seen(p).frozen

\* The request p has closed a dispute and is about to unfreeze the listing.
Unfreezes(p) ==
    /\ request[p].was.status = "disputed"
    /\ Step(p) = "closeLoad" \/ (Step(p) = "closeSave" /\ Seen(p).frozen)

\* Nobody has died, and every request has worked on its claim as it is.
Undisturbed == crashes = 0 /\ overtaken = {}

Freezing ==
    Undisturbed /\ business.frozen =>
        (\E c \in Claims : Binds(c)) \/ (\E p \in Callers : Unfreezes(p))

\* The listing as it is saved is frozen only if it was frozen when it was loaded.
Thaws(new, b) == "frozen" \in DOMAIN new /\ new.frozen \in {b.frozen, FALSE}

-----------------------------------------------------------------------------
(* What saving a listing does to its freezing.                              *)

LEMMA SavedFrozen ==
  ASSUME NEW p \in Callers, NEW new, "frozen" \in DOMAIN new, NEW u, NEW next,
         \/ SavePaths(p, new, next) \/ SavePushed(p, new, u, next)
         \/ SaveMembers(p, new, next) /\ request[p].fresh = TRUE
  PROVE  business'.frozen =
            IF new.frozen # Seen(p).frozen THEN new.frozen ELSE business.frozen
  <1>1. \E members : business' = Merged(p, new, members)
    BY DEF SavePaths, SavePushed, SaveMembers
  <1>2. QED
    BY <1>1 DEF Merged

\* A save of what was loaded, frozen or not, or unfrozen, freezes nothing.
LEMMA SavedUnfrozen ==
  ASSUME IInv, NEW p \in Callers, NEW new, Thaws(new, Seen(p)), NEW u, NEW next,
         \/ SavePaths(p, new, next) \/ SavePushed(p, new, u, next)
         \/ SaveMembers(p, new, next),
         business'.frozen = TRUE
  PROVE  business.frozen = TRUE
  <1>1. Seen(p).frozen \in BOOLEAN /\ business.frozen \in BOOLEAN
    BY Held DEF Business
  <1>2. CASE business' = business
    BY <1>2
  <1>3. CASE business' # business
    <2>1. \/ SavePaths(p, new, next) \/ SavePushed(p, new, u, next)
          \/ SaveMembers(p, new, next) /\ request[p].fresh = TRUE
      BY <1>3, Held DEF SaveMembers, Request
    <2>2. business'.frozen =
            IF new.frozen # Seen(p).frozen THEN new.frozen ELSE business.frozen
      BY <2>1, SavedFrozen DEF Thaws
    <2>3. QED
      BY <1>1, <2>2 DEF Thaws
  <1>4. QED
    BY <1>2, <1>3

\* Closing a claim freezes nothing.
LEMMA AfterCloseThaws ==
  ASSUME NEW was \in Claim, NEW b \in Business, NEW new \in AfterClose(was, b)
  PROVE  Thaws(new, b)
  <1>1. CASE new = Unfrozen(b)
    BY <1>1 DEF Unfrozen, Business, Thaws
  <1>2. CASE new = b
    BY <1>2 DEF Business, Thaws
  <1>3. CASE \E heir : new = TakenBack(b, was.user, was.kind, heir)
    BY <1>3 DEF TakenBack, Business, Thaws
  <1>4. QED
    BY <1>1, <1>2, <1>3 DEF AfterClose

\* Only a dispute freezes a listing.
LEMMA FrozenBy ==
  ASSUME IInv, [Next]_vars, business'.frozen = TRUE, business.frozen = FALSE
  PROVE  \E p \in Callers : Freeze(p)
  <1>1. ASSUME NEW p \in Callers, Ask(p)
        PROVE  FALSE
    BY <1>1 DEF Ask, Start, StartNewBusiness, StartReverification, ChangeOwner,
       AcceptInvite, ChangeMember, VerifyCode, Submit, RequestInfo, Withdraw, Reject,
       Expire, Approve, IInv, Documents, Business
  <1>2. ASSUME NEW p \in Callers,
               \/ CreateClaim(p) \/ SavePhone(p) \/ LoadAfterPhone(p) \/ SaveDispute(p)
               \/ SaveSubmitted(p) \/ SaveInfoRequested(p) \/ SaveClosed(p)
               \/ LoadForClose(p) \/ LoadForApprove(p) \/ SaveApproved(p)
               \/ RefuseDispute(p) \/ Crash(p)
        PROVE  FALSE
    BY <1>2 DEF CreateClaim, SavePhone, LoadAfterPhone, RefuseDispute, SaveDispute, SaveSubmitted,
       SaveInfoRequested, SaveClosed, LoadForClose, LoadForApprove, SaveApproved, Crash
  <1>3. ASSUME NEW p \in Callers, NEW new, NEW u, NEW next,
               Thaws(new, Seen(p)),
               \/ SavePaths(p, new, next) \/ SavePushed(p, new, u, next)
               \/ SaveMembers(p, new, next)
        PROVE  FALSE
    BY <1>3, SavedUnfrozen
  <1>4. ASSUME NEW p \in Callers
        PROVE  Seen(p) \in Business /\ DOMAIN Seen(p) = DOMAIN Unlisted
               /\ "frozen" \in DOMAIN Seen(p)
    BY Held DEF Business, Unlisted
  <1>5. ASSUME NEW p \in Callers, Join(p)
        PROVE  FALSE
    <2>1. Thaws(Joined(Seen(p), Claimant(p)), Seen(p))
      BY <1>4 DEF Joined, Business, Thaws
    <2>2. \/ SavePaths(p, Joined(Seen(p), Claimant(p)), Idle)
          \/ SavePushed(p, Joined(Seen(p), Claimant(p)), Claimant(p), Idle)
      BY <1>5 DEF Join, Joined
    <2>3. QED
      BY <1>3, <2>1, <2>2
  <1>6. ASSUME NEW p \in Callers, SaveAfterClose(p)
        PROVE  FALSE
    <2>1. PICK new \in AfterClose(request[p].was, Seen(p)) :
            SavePaths(p, new, Idle) \/ SaveMembers(p, new, Idle)
      BY <1>6 DEF SaveAfterClose
    <2>2. Thaws(new, Seen(p))
      BY <1>4, Held, AfterCloseThaws
    <2>3. QED
      BY <1>3, <2>1, <2>2
  <1>7. ASSUME NEW p \in Callers, SaveVerified(p)
        PROVE  FALSE
    <2>1. \E members : LET d == Decided(Seen(p), Claimant(p), members, request[p].was.status)
                       IN  \E next : \/ SavePushed(p, d, Claimant(p), next)
                                     \/ SaveMembers(p, d, next)
      BY <1>7 DEF SaveVerified, Decided
    <2>2. PICK members, d, next :
            /\ d = Decided(Seen(p), Claimant(p), members, request[p].was.status)
            /\ SavePushed(p, d, Claimant(p), next) \/ SaveMembers(p, d, next)
      BY <2>1
    <2>3. Thaws(d, Seen(p))
      BY <1>4, <2>2 DEF Decided, Business, Thaws
    <2>4. QED
      BY <1>3, <2>2, <2>3
  <1>8. ASSUME NEW p \in Callers, SaveAccepted(p)
        PROVE  FALSE
    <2>1. PICK u, new :
            /\ new = [Seen(p) EXCEPT !.members[u] = request[p].to]
            /\ SavePushed(p, new, u, Idle) \/ UNCHANGED business
      BY <1>8 DEF SaveAccepted
    <2>2. Thaws(new, Seen(p))
      BY <1>4, <2>1 DEF Business, Thaws
    <2>3. QED
      BY <1>3, <2>1, <2>2
  <1>9. ASSUME NEW p \in Callers, SaveMember(p)
        PROVE  FALSE
    <2>1. PICK members, heir :
            SaveMembers(p, Led(Seen(p), request[p].user, members, request[p].to, heir), Idle)
      BY <1>9 DEF SaveMember, Led
    <2> DEFINE new == Led(Seen(p), request[p].user, members, request[p].to, heir)
    <2>2. Thaws(new, Seen(p))
      BY <1>4 DEF Led, Business, Thaws
    <2> HIDE DEF new
    <2>3. SaveMembers(p, new, Idle)
      BY <2>1 DEF new
    <2>4. QED
      BY <1>3, <2>2, <2>3
  <1>10. ASSUME NEW p \in Callers, SaveOwner(p)
         PROVE  FALSE
    <2>1. PICK members : SaveMembers(p, Given(Seen(p), request[p].user, members), Idle)
      BY <1>10 DEF SaveOwner, Given
    <2> DEFINE new == Given(Seen(p), request[p].user, members)
    <2>2. Thaws(new, Seen(p))
      BY <1>4 DEF Given, Business, Thaws
    <2> HIDE DEF new
    <2>3. SaveMembers(p, new, Idle)
      BY <2>1 DEF new
    <2>4. QED
      BY <1>3, <2>2, <2>3
  <1>11. ASSUME \/ \E c \in Claims : SendCode(c) \/ DaysPass(c)
                \/ \E u \in Users : Invite(u)
                \/ UNCHANGED vars
         PROVE  FALSE
    BY <1>11 DEF SendCode, DaysPass, Invite, vars
  <1>12. QED
    BY <1>1, <1>2, <1>5, <1>6, <1>7, <1>8, <1>9, <1>10, <1>11 DEF Next, Proceed

\* A dispute that has been closed unfreezes the listing it has found frozen.
LEMMA CloseUnfreezes ==
  ASSUME IInv, NEW p \in Callers, SaveAfterClose(p), request[p].was.status = "disputed",
         Seen(p).frozen = TRUE
  PROVE  business'.frozen = FALSE
  <1>1. PICK new \in AfterClose(request[p].was, Seen(p)) :
          IF new.members = Seen(p).members THEN SavePaths(p, new, Idle)
                                           ELSE SaveMembers(p, new, Idle)
    BY DEF SaveAfterClose
  <1>2. request[p].was \in Claim /\ Seen(p) \in Business
    BY Held
  <1>3. "frozen" \in DOMAIN new /\ new.frozen = FALSE /\ new.members = Seen(p).members
    <2>1. new = Unfrozen(Seen(p))
      BY <1>1 DEF AfterClose
    <2>2. QED
      BY <1>2, <2>1 DEF Unfrozen, Business
  <1>4. SavePaths(p, new, Idle)
    BY <1>1, <1>3
  <1>5. business'.frozen = IF new.frozen # Seen(p).frozen THEN new.frozen ELSE business.frozen
    BY <1>3, <1>4, SavedFrozen
  <1>6. QED
    BY <1>3, <1>5

\* So does an approval, or it ends with a VersionError.
LEMMA ApprovalUnfreezes ==
  ASSUME IInv, NEW p \in Callers, SaveVerified(p), Seen(p).frozen = TRUE, business'.frozen = TRUE
  PROVE  request'[p] = Idle
  <1>1. PICK members, d, next :
          /\ d = Decided(Seen(p), Claimant(p), members, request[p].was.status)
          /\ SavePushed(p, d, Claimant(p), next) \/ SaveMembers(p, d, next)
    <2>1. \E members : LET d == Decided(Seen(p), Claimant(p), members, request[p].was.status)
                       IN  \E next : \/ SavePushed(p, d, Claimant(p), next)
                                     \/ SaveMembers(p, d, next)
      BY DEF SaveVerified, Decided
    <2>2. QED
      BY <2>1
  <1>2. "frozen" \in DOMAIN d /\ d.frozen = FALSE
    BY <1>1, Held DEF Decided, Business
  <1>3. ASSUME \/ SavePushed(p, d, Claimant(p), next)
               \/ SaveMembers(p, d, next) /\ request[p].fresh = TRUE
        PROVE  FALSE
    <2>1. business'.frozen = IF d.frozen # Seen(p).frozen THEN d.frozen ELSE business.frozen
      BY <1>2, <1>3, SavedFrozen
    <2>2. QED
      BY <1>2, <2>1
  <1>4. SaveMembers(p, d, next) /\ request[p].fresh = FALSE
    BY <1>1, <1>3, Held DEF Request
  <1>5. Done(p)
    BY <1>4 DEF SaveMembers
  <1>6. QED
    BY <1>5, OwnRequest DEF Done

-----------------------------------------------------------------------------
(* A dispute that binds a frozen listing does so until it is unfrozen.      *)

LEMMA AskedFreezing ==
  ASSUME IInv, NEW p \in Callers, Ask(p)
  PROVE  /\ \A c \in Claims : Binds(c) => Binds(c)'
         /\ \A q \in Callers : Unfreezes(q) => Unfreezes(q)'
  <1>1. OnlyOwn(p) /\ Opens(p) /\ Step(p) = "idle" /\ UNCHANGED claim
    BY AskedOpens
  <1>2. ASSUME NEW c \in Claims, Binds(c)
        PROVE  Binds(c)'
    BY <1>1, <1>2, StillHolds DEF Binds, Holds, Opens, Step, Seen, ClaimSteps
  <1>3. ASSUME NEW q \in Callers, Unfreezes(q)
        PROVE  Unfreezes(q)'
    BY <1>1, <1>3, StillHolds DEF Unfreezes, Step, Seen
  <1>4. QED
    BY <1>2, <1>3

LEMMA FrozenFreezing ==
  ASSUME IInv, NEW p \in Callers, Freeze(p), overtaken' = {}
  PROVE  \E c \in Claims : Binds(c)'
  <1>1. PICK c \in Claims :
            /\ claim[c].status = "disputed" /\ UNCHANGED claim
            /\ \A q \in Callers \ {p} : request[q].claim # c
    <2>1. Step(p) \in ClaimSteps /\ UNCHANGED claim
      BY DEF Freeze, ClaimSteps, Steps
    <2>2. request[p].claim \in Claims
      BY <2>1, Held
    <2>3. QED
      BY <2>1, <2>2 DEF Freeze
  <1>2. \E new : SavePaths(p, new, Idle)
    BY DEF Freeze
  <1>3. OnlyOwn(p) /\ request'[p] = Idle
    BY <1>2, SavedRequest
  <1>4. ASSUME NEW q \in Callers
        PROVE  ~Holds(q, c)'
    <2>1. CASE q = p
      BY <1>3, <2>1, IdleSound DEF Holds, Step, ClaimSteps
    <2>2. CASE q # p
      BY <1>1, <1>3, <2>2, StillHolds DEF Holds
    <2>3. QED
      BY <2>1, <2>2
  <1>5. Binds(c)'
    BY <1>1, <1>4 DEF Binds
  <1>6. QED
    BY <1>5

LEMMA SavedFreezing ==
  ASSUME IInv, NEW p \in Callers, ClaimSave(p), overtaken' = {}, NEW c \in Claims, Binds(c)
  PROVE  Binds(c)' \/ Unfreezes(p)'
  <1> DEFINE d == request[p].claim
             was == request[p].was
  <1>1. /\ Step(p) \in ClaimSteps /\ d \in Claims
        /\ claim[d].status = was.status
        /\ \A e \in Claims \ {d} : claim'[e] = claim[e]
        /\ SavePhone(p) => claim'[d].status = claim[d].status
        /\ SaveDispute(p) => claim'[d].status = "disputed"
        /\ SaveSubmitted(p) => claim'[d].status = Unless(p, "pending")
        /\ SaveInfoRequested(p) => claim'[d].status = Unless(p, "info_requested")
    BY ClaimSaved
  <1>2. Proceed(p) /\ OnlyOwn(p)
    BY Continued DEF ClaimSave, Proceed
  <1>3. request'[p] = Idle \/ Follows(p)
    BY <1>2, NextStepOf
  <1>4. request'[p].step \notin {"approveSave", "approveClaim"}
    BY <1>3, IdleSound DEF Follows, ClaimSave, SavePhone, SaveDispute, SaveSubmitted,
       SaveInfoRequested, SaveClosed, SaveApproved
  <1>5. claim'[c].status = "disputed" => Binds(c)'
    BY <1>2, <1>4, StillHolds DEF Binds, Holds, Step, Seen
  <1>6. CASE c # d
    BY <1>1, <1>5, <1>6 DEF Binds
  <1>7. CASE c = d
    <2>1. CASE SaveClosed(p)
      <3>1. request'[p].step = "closeLoad" /\ request'[p].was = was
        BY <2>1, Held DEF SaveClosed, Request, IInv, Requests
      <3>2. QED
        BY <1>1, <1>7, <3>1 DEF Unfreezes, Binds, Step
    <2>2. CASE SaveApproved(p)
      BY <1>1, <1>7, <2>2 DEF SaveApproved, Binds, Holds
    <2>3. CASE SavePhone(p) \/ SaveDispute(p) \/ SaveSubmitted(p) \/ SaveInfoRequested(p)
      BY <1>1, <1>5, <1>7, <2>3 DEF Binds, Unless
    <2>4. QED
      BY <2>1, <2>2, <2>3 DEF ClaimSave
  <1>8. QED
    BY <1>6, <1>7

\* A request that saves no claim.
LEMMA SteppedFreezing ==
  ASSUME IInv, NEW p \in Callers, Proceed(p), ~ClaimSave(p), ~Freeze(p),
         business.frozen = TRUE, business'.frozen = TRUE, NEW c \in Claims, Binds(c)
  PROVE  Binds(c)'
  <1>1. claim'[c].status = claim[c].status
    <2>1. CASE CreateClaim(p)
      <3>1. PICK e \in Claims : claim[e].status = "none" /\ \A d \in Claims \ {e} : claim'[d] = claim[d]
        BY <2>1 DEF CreateClaim, IInv, Documents
      <3>2. QED
        BY <3>1 DEF Binds
    <2>2. CASE ~CreateClaim(p)
      BY <2>2, Unsaved
    <2>3. QED
      BY <2>1, <2>2
  <1>2. OnlyOwn(p) /\ (request'[p] = Idle \/ Follows(p))
    BY Continued, NextStepOf
  <1>3. CASE request'[p].step \notin {"approveSave", "approveClaim"}
    BY <1>1, <1>2, <1>3, StillHolds DEF Binds, Holds, Step, Seen
  <1>4. CASE LoadForApprove(p)
    <2>1. request'[p].step = "approveSave" /\ request'[p].seen = business
      BY <1>4, Held DEF LoadForApprove, LoadBusiness, Request, IInv, Requests
    <2>2. QED
      BY <1>1, <1>2, <2>1, StillHolds DEF Binds, Holds, Step, Seen
  <1>5. CASE SaveVerified(p)
    <2>1. CASE Holds(p, c)
      <3>1. Seen(p).frozen = TRUE
        BY <1>5, <2>1, Held DEF Binds, SaveVerified, Business
      <3>2. request'[p] = Idle
        BY <1>5, <3>1, ApprovalUnfreezes
      <3>3. QED
        BY <1>3, <3>2, IdleSound
    <2>2. CASE ~Holds(p, c)
      <3>1. request[p].claim # c
        BY <1>5, <2>2 DEF Holds, SaveVerified, ClaimSteps, Steps
      <3>2. ~Holds(p, c)'
        BY <1>2, <3>1, IdleSound DEF Follows, Holds, Step, ClaimSteps
      <3>3. QED
        BY <1>1, <1>2, <3>2, StillHolds DEF Binds, Holds, Step, Seen
    <2>3. QED
      BY <2>1, <2>2
  <1>6. Step(p) \in {"approveLoad", "approveSave"}
        \/ request'[p].step \notin {"approveSave", "approveClaim"}
    BY <1>2, IdleSound DEF Follows
  <1>7. Step(p) \in {"approveLoad", "approveSave"} => LoadForApprove(p) \/ SaveVerified(p)
    BY DEF Proceed, CreateClaim, SavePhone, LoadAfterPhone, RefuseDispute, SaveDispute, Freeze, Join,
       SaveSubmitted, SaveInfoRequested, SaveClosed, LoadForClose, SaveAfterClose,
       SaveApproved, SaveAccepted, SaveMember, SaveOwner
  <1>8. QED
    BY <1>3, <1>4, <1>5, <1>6, <1>7

\* A request that unfreezes the listing goes on until it has.
LEMMA UnfreezingGoesOn ==
  ASSUME IInv, NEW p \in Callers, Proceed(p), business.frozen = TRUE, business'.frozen = TRUE,
         NEW q \in Callers, Unfreezes(q)
  PROVE  Unfreezes(q)'
  <1>1. OnlyOwn(p)
    BY Continued
  <1>2. CASE q # p
    BY <1>1, <1>2, StillHolds DEF Unfreezes, Step, Seen
  <1>3. CASE q = p
    <2>1. LoadForClose(p) \/ SaveAfterClose(p)
      BY <1>3 DEF Unfreezes, Proceed, CreateClaim, SavePhone, LoadAfterPhone, RefuseDispute, SaveDispute,
         Freeze, Join, SaveSubmitted, SaveInfoRequested, SaveClosed, LoadForApprove,
         SaveVerified, SaveApproved, SaveAccepted, SaveMember, SaveOwner
    <2>2. CASE LoadForClose(p)
      <3>1. /\ request'[p].step = "closeSave" /\ request'[p].seen = business
            /\ request'[p].was = request[p].was
        BY <2>2, Held DEF LoadForClose, LoadBusiness, Request, IInv, Requests
      <3>2. QED
        BY <1>3, <3>1 DEF Unfreezes, Step, Seen
    <2>3. ~SaveAfterClose(p)
      BY <1>3, CloseUnfreezes DEF Unfreezes, SaveAfterClose
    <2>4. QED
      BY <2>1, <2>2, <2>3
  <1>4. QED
    BY <1>2, <1>3

LEMMA FreezingStep ==
  ASSUME IInv, Freezing, [Next]_vars
  PROVE  Freezing'
  <1> DEFINE Goal == (\E c \in Claims : Binds(c)') \/ (\E q \in Callers : Unfreezes(q)')
  <1>1. SUFFICES ASSUME Undisturbed', business'.frozen = TRUE
                 PROVE  Goal
    BY DEF Freezing
  <1>2. overtaken' = {} /\ overtaken = {} /\ crashes' = 0
    BY <1>1, OvertakenGrows DEF Undisturbed
  <1>3. ASSUME NEW p \in Callers
        PROVE  ~Crash(p)
    BY <1>2 DEF Crash, IInv, Others
  <1>4. crashes = 0
    <2>1. ASSUME NEW p \in Callers, Ask(p)
          PROVE  UNCHANGED crashes
      BY <2>1, AskedOpens
    <2>2. ASSUME NEW p \in Callers, Proceed(p)
          PROVE  UNCHANGED crashes
      BY <2>2 DEF Proceed, CreateClaim, SavePhone, LoadAfterPhone, RefuseDispute, SaveDispute, Freeze, Join,
         SaveSubmitted, SaveInfoRequested, SaveClosed, LoadForClose, SaveAfterClose,
         LoadForApprove, SaveVerified, SaveApproved, SaveAccepted, SaveMember, SaveOwner,
         rest
    <2>3. CASE \/ \E c \in Claims : SendCode(c) \/ DaysPass(c)
               \/ \E u \in Users : Invite(u)
               \/ UNCHANGED vars
      BY <1>2, <2>3 DEF SendCode, DaysPass, Invite, rest, vars
    <2>4. QED
      BY <1>2, <1>3, <2>1, <2>2, <2>3 DEF Next
  <1>5. ASSUME NEW p \in Callers, Freeze(p)
        PROVE  Goal
    BY <1>2, <1>5, FrozenFreezing
  <1>6. CASE \A p \in Callers : ~Freeze(p)
    <2>1. business.frozen = TRUE
      BY <1>1, <1>6, FrozenBy DEF IInv, Documents, Business
    <2>2. (\E c \in Claims : Binds(c)) \/ (\E q \in Callers : Unfreezes(q))
      BY <1>2, <1>4, <2>1 DEF Freezing, Undisturbed
    <2>3. ASSUME NEW p \in Callers, Ask(p)
          PROVE  Goal
      BY <2>2, <2>3, AskedFreezing
    <2>4. ASSUME NEW p \in Callers, Proceed(p)
          PROVE  Goal
      <3>1. CASE \E q \in Callers : Unfreezes(q)
        BY <1>1, <2>1, <2>4, <3>1, UnfreezingGoesOn
      <3>2. ASSUME NEW c \in Claims, Binds(c)
            PROVE  Goal
        BY <1>1, <1>2, <1>6, <2>1, <2>4, <3>2, SavedFreezing, SteppedFreezing
      <3>3. QED
        BY <2>2, <3>1, <3>2
    <2>5. CASE \/ \E c \in Claims : SendCode(c) \/ DaysPass(c)
               \/ \E u \in Users : Invite(u)
               \/ UNCHANGED vars
      <3>1. UNCHANGED request /\ \A c \in Claims : claim'[c].status = claim[c].status
        <4>1. CASE \E d \in Claims : SendCode(d) \/ DaysPass(d)
          BY <4>1 DEF SendCode, DaysPass, IInv, Documents, Claim
        <4>2. CASE UNCHANGED <<request, claim>>
          BY <4>2
        <4>3. QED
          BY <2>5, <4>1, <4>2 DEF Invite, vars
      <3>2. QED
        BY <2>2, <3>1 DEF Binds, Unfreezes, Holds, Step, Seen
    <2>6. QED
      BY <1>3, <2>3, <2>4, <2>5 DEF Next
  <1>7. QED
    BY <1>5, <1>6

\* A listing stays frozen only as long as a dispute of it is open or somebody is
\* deciding one: `close` and `approve` unfreeze it in the order in which they save
\* listing and claim, also where several disputes on one listing are closed, approved
\* and begun at the same time.
THEOREM FrozenForDisputes == Spec => []FrozenByOpenDispute
  <1>1. Init => Freezing
    <2>1. ASSUME Init
          PROVE  business.frozen = FALSE
      <3>1. Unlisted.frozen = FALSE /\ Unlisted \in Business
        BY UnlistedType DEF Unlisted
      <3>2. QED
        BY <2>1, <3>1 DEF Init, Business
    <2>2. QED
      BY <2>1 DEF Freezing
  <1>2. IInv /\ Freezing /\ [Next]_vars => Freezing'
    BY FreezingStep
  <1>3. Freezing => FrozenByOpenDispute
    BY DEF Freezing, FrozenByOpenDispute, Undisturbed, Binds, Unfreezes
  <1>4. QED
    BY <1>1, <1>2, <1>3, IInvHolds, PTL DEF Spec
=============================================================================
