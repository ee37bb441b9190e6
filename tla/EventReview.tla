----------------------------- MODULE EventReview -----------------------------
(***************************************************************************)
(* The people around one published event: who is credited on it, who is    *)
(* asked to review it and who approved which version.  Sources:            *)
(* services/geolocator_credit.py, approvals.py, approval_requests.py, and  *)
(* the account moderation of services/admin.py.                            *)
(*                                                                         *)
(* EventLifecycle shows that a published version number names one content, *)
(* so a version is its number here.  Every write locks the event row and   *)
(* re-reads its status under the lock, but not its visibility: a request   *)
(* that passed the route's check may land on a row taken down since, so no *)
(* action asks for a visible row.                                          *)
(***************************************************************************)
EXTENDS Integers, FiniteSets

CONSTANTS
    Users, Orgs,
    MaxGeolocators,   \* MAX_EVENT_GEOLOCATORS
    VersionCap,       \* bound of the model: the version no save moves past
    MaxRequests,      \* bound of the model: requests kept at once, open or in cooldown
    NoUser

ASSUME Cast == Orgs \cap Users = {} /\ NoUser \notin Users
ASSUME Limits == {MaxGeolocators, VersionCap, MaxRequests} \subseteq Nat

\* In whose name an approval stands, or to whom a request goes.
Voices == Users \cup Orgs

VARIABLES
    status,      \* "draft" until the publication, "geolocated", "closed", "erased"
    versionNo,   \* Event.version_no
    owner,       \* Event.owner_id
    deleted,     \* Event.deleted_at: "no", set on its own, or with its owner's ban
    active,      \* event_geolocators: the rows in state active ...
    invited,     \* ... in state invited ...
    departed,    \* ... and those that carry departed_at, whatever their state
    approvals,   \* event_approvals: [voice, by, version]
    requests,    \* approval_requests: requester -> target -> "none", "open" or "declined"
    members,     \* organization_members in state active
    banned,      \* users.deleted_at is set
    gone,        \* erased accounts
    seen         \* the version of the page each analyst has open, 0 for none

credit == <<active, invited, departed>>
reviews == <<approvals, requests>>
people == <<members, banned, gone>>
vars == <<status, versionNo, owner, deleted, active, invited, departed,
          approvals, requests, members, banned, gone, seen>>

Approvals == [voice : Voices, by : Users \cup {NoUser}, version : Nat]

NoRequests == [u \in Users |-> [t \in Voices |-> "none"]]

Init ==
    /\ status = "draft"
    /\ versionNo = 0
    /\ owner = NoUser
    /\ deleted = "no"
    /\ active = {} /\ invited = {} /\ departed = {}
    /\ approvals = {}
    /\ requests = NoRequests
    /\ members = [o \in Orgs |-> {}]
    /\ banned = {} /\ gone = {}
    /\ seen = [u \in Users |-> 0]

-----------------------------------------------------------------------------
\* The accounts that may sign in, and that a username resolves to.
LiveUsers == Users \ (banned \cup gone)

Published == status \in {"geolocated", "closed"}

\* ever_credited_ids: the owner, the geolocators and those who lost the credit.
EverCredited == {owner} \cup active \cup departed

IsGeolocator(u) == u = owner \/ u \in active

\* A standing approval of the live version in the name of v.
Reviewed(v) == \E a \in approvals : a.voice = v /\ a.version = versionNo

\* _can_act_for: a live member of the organization outside the credit of the event.
CanActFor(o) == \E m \in members[o] : m \in LiveUsers /\ m \notin EverCredited

\* The open requests among `asks` are resolved, withdrawn or deleted.
Resolve(asks) ==
    requests' = [u \in Users |-> [t \in Voices |->
        IF requests[u][t] = "open" /\ <<u, t>> \in asks THEN "none" ELSE requests[u][t]]]

-----------------------------------------------------------------------------
\* The publication, by save_version, create_with_evidence or the batch: the publisher owns
\* and is credited (_credit_geolocator), and invite_on_publish invites in the same
\* transaction.
PublishEvent(u) ==
    /\ status = "draft" /\ u \in LiveUsers
    /\ status' = "geolocated"
    /\ versionNo' = 1
    /\ owner' = u
    /\ active' = {u}
    /\ \E guests \in SUBSET (LiveUsers \ {u}) :
          /\ guests # {} => Cardinality(guests) + 1 <= MaxGeolocators
          /\ invited' = guests
    /\ UNCHANGED <<deleted, departed, reviews, people, seen>>

\* save_version on a published row files the live version.
Revise(u) ==
    /\ status = "geolocated" /\ u = owner /\ u \in LiveUsers
    /\ versionNo < VersionCap
    /\ versionNo' = versionNo + 1
    /\ UNCHANGED <<status, owner, deleted, credit, reviews, people, seen>>

CloseEvent(u) ==
    /\ status = "geolocated" /\ u = owner /\ u \in LiveUsers
    /\ status' = "closed"
    /\ UNCHANGED <<versionNo, owner, deleted, credit, reviews, people, seen>>

ReadEvent(u) ==
    /\ Published /\ deleted = "no" /\ u \in LiveUsers
    /\ seen' = [seen EXCEPT ![u] = versionNo]
    /\ UNCHANGED <<status, versionNo, owner, deleted, credit, reviews, people>>

-----------------------------------------------------------------------------
\* The byline's cap counts the geolocators and invitees whose account is live.
Held == (active \cup invited) \cap LiveUsers

\* invite, _stage_invite.
Invite(u, guest) ==
    /\ status = "geolocated" /\ u = owner /\ u \in LiveUsers
    /\ guest \in LiveUsers \ (active \cup invited \cup {owner})
    /\ Cardinality(Held) < MaxGeolocators
    /\ invited' = invited \cup {guest}
    /\ UNCHANGED <<status, versionNo, owner, deleted, active, departed, reviews, people, seen>>

\* Mutant of EndInvitation: the row goes, a former geolocator's too.
EndInvitationForgetful(u) ==
    /\ u \in invited
    /\ invited' = invited \ {u}
    /\ departed' = departed \ {u}
    /\ UNCHANGED <<status, versionNo, owner, deleted, active, reviews, people, seen>>

\* _end_invitation: a former geolocator's row returns to departed, any other goes.
EndInvitation(u) ==
    /\ u \in invited
    /\ invited' = invited \ {u}
    /\ UNCHANGED <<status, versionNo, owner, deleted, active, departed, reviews, people, seen>>

\* withdraw by the owner, decline by the invitee: whatever the status of the event.
Withdraw(u, guest) == u = owner /\ u \in LiveUsers /\ guest \in LiveUsers /\ EndInvitation(guest)
Decline(u) == u \in LiveUsers /\ EndInvitation(u)

\* Mutant of Accept: only the approvals placed in the analyst's own name are deleted.
AcceptKeepsActsForOthers(u) ==
    /\ u \in invited /\ u \in LiveUsers
    /\ status = "geolocated"
    /\ invited' = invited \ {u} /\ active' = active \cup {u}
    /\ approvals' = {a \in approvals : a.voice # u}
    /\ Resolve(Users \X {u})
    /\ UNCHANGED <<status, versionNo, owner, deleted, departed, people, seen>>

\* accept: the invitee joins, loses the approvals they placed (delete_approvals_on_join)
\* and is asked for none.
Accept(u) ==
    /\ u \in invited /\ u \in LiveUsers
    /\ status = "geolocated"
    /\ invited' = invited \ {u}
    /\ active' = active \cup {u}
    /\ approvals' = {a \in approvals : a.by # u}
    /\ Resolve(Users \X {u})
    /\ UNCHANGED <<status, versionNo, owner, deleted, departed, people, seen>>

\* Mutant of Remove: the owner may leave.
RemoveAny(u, target) ==
    /\ Published /\ u \in LiveUsers
    /\ target \in active
    /\ u \in {target, owner}
    /\ active' = active \ {target}
    /\ departed' = departed \cup {target}
    /\ Resolve({target} \X Voices)
    /\ UNCHANGED <<status, versionNo, owner, deleted, invited, approvals, people, seen>>

\* remove: the owner removes a co-geolocator, or one leaves; the requests they sent are
\* withdrawn and the departure is stamped.
Remove(u, target) ==
    /\ Published /\ u \in LiveUsers
    /\ target \in active \ {owner}
    /\ u \in {target, owner}
    /\ active' = active \ {target}
    /\ departed' = departed \cup {target}
    /\ Resolve({target} \X Voices)
    /\ UNCHANGED <<status, versionNo, owner, deleted, invited, approvals, people, seen>>

-----------------------------------------------------------------------------
\* Mutant of Approve: the version is not compared under the lock.
ApproveUnseen(u, voice) ==
    /\ status = "geolocated" /\ u \in LiveUsers
    /\ voice \in Orgs => u \in members[voice]
    /\ voice \in Users => voice = u
    /\ u \notin EverCredited
    /\ seen[u] > 0
    /\ ~Reviewed(voice)
    /\ approvals' = approvals \cup {[voice |-> voice, by |-> u, version |-> versionNo]}
    /\ Resolve(Users \X {voice})
    /\ UNCHANGED <<status, versionNo, owner, deleted, credit, people, seen>>

\* Mutant of Approve: the requests the voice received stay open.
ApproveUnanswered(u, voice) ==
    /\ status = "geolocated" /\ u \in LiveUsers
    /\ voice \in Orgs => u \in members[voice]
    /\ voice \in Users => voice = u
    /\ u \notin EverCredited
    /\ seen[u] = versionNo
    /\ ~Reviewed(voice)
    /\ approvals' = approvals \cup {[voice |-> voice, by |-> u, version |-> versionNo]}
    /\ UNCHANGED <<status, versionNo, owner, deleted, credit, requests, people, seen>>

\* approve, in one's own name or for an organization: the version posted is the page's and
\* must be live, and the requests that voice received are resolved.
Approve(u, voice) ==
    /\ status = "geolocated" /\ u \in LiveUsers
    /\ voice \in Orgs => u \in members[voice]
    /\ voice \in Users => voice = u
    /\ u \notin EverCredited
    /\ seen[u] = versionNo
    /\ ~Reviewed(voice)
    /\ approvals' = approvals \cup {[voice |-> voice, by |-> u, version |-> versionNo]}
    /\ Resolve(Users \X {voice})
    /\ UNCHANGED <<status, versionNo, owner, deleted, credit, people, seen>>

\* delete_as_admin.
DeleteApproval(a) ==
    /\ approvals' = approvals \ {a}
    /\ UNCHANGED <<status, versionNo, owner, deleted, credit, requests, people, seen>>

\* The requests that stand in the way of another one.
Kept == {ask \in Users \X Voices : requests[ask[1]][ask[2]] # "none"}

\* request_approval. The target's audience and the daily cap refuse some more of them.
RequestApproval(u, t) ==
    /\ status = "geolocated" /\ u \in LiveUsers
    /\ IsGeolocator(u)
    /\ t \in Users => t \in LiveUsers \ EverCredited
    /\ t \in Orgs => CanActFor(t)
    /\ ~Reviewed(t)
    /\ requests[u][t] = "none" /\ Cardinality(Kept) < MaxRequests
    /\ requests' = [requests EXCEPT ![u][t] = "open"]
    /\ UNCHANGED <<status, versionNo, owner, deleted, credit, approvals, people, seen>>

\* decline, by the analyst asked or a member of the organization asked.
DeclineRequest(u, r, t) ==
    /\ u \in LiveUsers /\ requests[r][t] = "open"
    /\ u = t \/ (t \in Orgs /\ u \in members[t])
    /\ requests' = [requests EXCEPT ![r][t] = "declined"]
    /\ UNCHANGED <<status, versionNo, owner, deleted, credit, approvals, people, seen>>

\* DECLINE_COOLDOWN has passed: the request may be sent again.
CooldownEnds(r, t) ==
    /\ requests[r][t] = "declined"
    /\ requests' = [requests EXCEPT ![r][t] = "none"]
    /\ UNCHANGED <<status, versionNo, owner, deleted, credit, approvals, people, seen>>

-----------------------------------------------------------------------------
\* organizations.accept_invite and appoint_manager; remove_member. Roles are left out, so the
\* refusal to lose the last manager is too: more departures than the code allows.
JoinOrganization(u, o) ==
    /\ u \in LiveUsers \ members[o]
    /\ members' = [members EXCEPT ![o] = @ \cup {u}]
    /\ UNCHANGED <<status, versionNo, owner, deleted, credit, reviews, banned, gone, seen>>

LeaveOrganization(u, o) ==
    /\ u \in LiveUsers \cap members[o]
    /\ members' = [members EXCEPT ![o] = @ \ {u}]
    /\ UNCHANGED <<status, versionNo, owner, deleted, credit, reviews, banned, gone, seen>>

\* organizations.delete_organization: what was given in its name and asked of it goes. (A
\* later organization may take the name.)
DeleteOrganization(o) ==
    /\ members[o] # {}
    /\ members' = [members EXCEPT ![o] = {}]
    /\ approvals' = {a \in approvals : a.voice # o}
    /\ requests' = [r \in Users |-> [requests[r] EXCEPT ![o] = "none"]]
    /\ UNCHANGED <<status, versionNo, owner, deleted, credit, banned, gone, seen>>

\* hand_over_owned_events: an heir is a live co-geolocator (the earliest; any one here).
Heirs(u) == (active \cap LiveUsers) \ {u}

\* soft_delete_user: the live event the banned analyst owns passes to an heir, or is hidden.
Ban(u) ==
    /\ u \in LiveUsers
    /\ banned' = banned \cup {u}
    /\ IF owner = u /\ deleted = "no"
          THEN \/ Heirs(u) # {} /\ owner' \in Heirs(u) /\ UNCHANGED deleted
               \/ Heirs(u) = {} /\ deleted' = "with owner" /\ UNCHANGED owner
          ELSE UNCHANGED <<owner, deleted>>
    /\ UNCHANGED <<status, versionNo, credit, reviews, members, gone, seen>>

\* restore_user: the event hidden with the ban returns; a handed-over one does not.
RestoreUser(u) ==
    /\ u \in banned
    /\ banned' = banned \ {u}
    /\ deleted' = IF owner = u /\ deleted = "with owner" THEN "no" ELSE deleted
    /\ UNCHANGED <<status, versionNo, owner, credit, reviews, members, gone, seen>>

\* soft_delete_geolocation, which reads the stamp without the lock: it may overwrite a ban's.
SoftDeleteEvent ==
    /\ Published /\ deleted # "own"
    /\ deleted' = "own"
    /\ UNCHANGED <<status, versionNo, owner, credit, reviews, people, seen>>

\* The DELETE of the event row, everything that names it in the cascade.
EventGoes ==
    /\ status' = "erased"
    /\ owner' = NoUser
    /\ active' = {} /\ invited' = {} /\ departed' = {}
    /\ approvals' = {}
    /\ requests' = NoRequests
    /\ UNCHANGED <<versionNo, deleted>>

EraseEvent ==
    /\ Published
    /\ EventGoes
    /\ UNCHANGED <<people, seen>>

\* What the DELETE of a user row takes with it: their rows of the credit and of the requests
\* (CASCADE), their own approvals; one placed for an organization loses its reviewer.
AccountGoes(u) ==
    /\ active' = active \ {u} /\ invited' = invited \ {u} /\ departed' = departed \ {u}
    /\ approvals' = {[a EXCEPT !.by = IF @ = u THEN NoUser ELSE @] :
                        a \in {b \in approvals : b.voice # u}}
    /\ requests' = [r \in Users |-> [t \in Voices |->
                        IF u \in {r, t} THEN "none" ELSE requests[r][t]]]
    /\ UNCHANGED <<status, versionNo>>

\* Mutant of EraseAccount: the event of the erased owner is not handed over.
EraseWithoutHeir(u) ==
    /\ u \notin gone
    /\ gone' = gone \cup {u} /\ banned' = banned \ {u}
    /\ members' = [o \in Orgs |-> members[o] \ {u}]
    /\ seen' = [seen EXCEPT ![u] = 0]
    /\ AccountGoes(u) /\ UNCHANGED <<owner, deleted>>

\* hard_delete_user: the event the account owns passes to an heir, unless it was soft-deleted
\* on its own, or goes with the account.
EraseAccount(u) ==
    /\ u \notin gone
    /\ gone' = gone \cup {u} /\ banned' = banned \ {u}
    /\ members' = [o \in Orgs |-> members[o] \ {u}]
    /\ seen' = [seen EXCEPT ![u] = 0]
    /\ \/ /\ owner = u /\ deleted # "own" /\ Heirs(u) # {}
          /\ owner' \in Heirs(u) /\ deleted' = "no"
          /\ AccountGoes(u)
       \/ owner = u /\ (deleted = "own" \/ Heirs(u) = {}) /\ EventGoes
       \/ owner # u /\ AccountGoes(u) /\ UNCHANGED <<owner, deleted>>

-----------------------------------------------------------------------------
Analyst(u) ==
    \/ PublishEvent(u) \/ Revise(u) \/ CloseEvent(u) \/ ReadEvent(u)
    \/ Accept(u) \/ Decline(u)
    \/ \E w \in Users : Invite(u, w) \/ Withdraw(u, w) \/ Remove(u, w)
    \/ \E v \in Voices : Approve(u, v) \/ RequestApproval(u, v)
    \/ \E r \in Users, t \in Voices : DeclineRequest(u, r, t)
    \/ \E o \in Orgs : JoinOrganization(u, o) \/ LeaveOrganization(u, o)

Admin ==
    \/ \E u \in Users : Ban(u) \/ RestoreUser(u) \/ EraseAccount(u)
    \/ \E a \in approvals : DeleteApproval(a)
    \/ \E o \in Orgs : DeleteOrganization(o)
    \/ SoftDeleteEvent \/ EraseEvent

Next ==
    \/ \E u \in Users : Analyst(u)
    \/ \E r \in Users, t \in Voices : CooldownEnds(r, t)
    \/ Admin

Spec == Init /\ [][Next]_vars

-----------------------------------------------------------------------------
\* Types, the foreign key of a published event to its owner, and one credit row an analyst.
TypeOK ==
    /\ status \in {"draft", "geolocated", "closed", "erased"}
    /\ versionNo \in Nat
    /\ owner \in Users \cup {NoUser}
    /\ Published => owner \in Users \ gone
    /\ deleted \in {"no", "own", "with owner"}
    /\ active \subseteq Users /\ invited \subseteq Users /\ departed \subseteq Users
    /\ active \cap invited = {}
    /\ approvals \subseteq Approvals
    /\ requests \in [Users -> [Voices -> {"none", "open", "declined"}]]
    /\ members \in [Orgs -> SUBSET Users]
    /\ banned \subseteq Users /\ gone \subseteq Users
    /\ seen \in [Users -> Nat]

\* "The basis of the GDPR-erasure floor" (_credit_geolocator, events/rules.py): the owner of
\* a published event is one of its geolocators, through removals, hand-overs and re-joins, so
\* an erasure always finds the heir of shared work.
OwnerIsGeolocator == Published => owner \in active

\* approvals.py: nobody who is or was credited on the event, the owner included, stands
\* behind an approval of it, in their own name or for an organization.
ApproverIndependent == \A a \in approvals : a.by \notin EverCredited

\* A request that is open can be meant: it was sent by someone still a geolocator, to a
\* target whose answer is still wanted: not one who joined, nor one who approved the live
\* version (accept, remove and approve each resolve the ones they overtake).
RequestsStand ==
    \A r \in Users, t \in Voices :
        requests[r][t] = "open" =>
            /\ IsGeolocator(r)
            /\ t \notin EverCredited
            /\ ~Reviewed(t)

\* "An approval never lands on a version its reviewer did not see" (approvals.py).
ApprovalLandsOnWhatWasSeen ==
    [][\A a \in approvals' :
          a.by # NoUser /\ (\A b \in approvals : <<b.voice, b.version>> # <<a.voice, a.version>>)
              => a.version = seen[a.by] /\ a.version = versionNo]_vars

\* A former geolocator stays one, invited again or not, joined again or not, until the
\* account or the event is erased (departed_at in _end_invitation and remove): only so does
\* nobody wash the credit off to approve their own work.
CreditIsNeverForgotten ==
    [][status' # "erased" => \A u \in EverCredited : u \in EverCredited' \cup gone' \cup {NoUser}]_vars
=============================================================================
