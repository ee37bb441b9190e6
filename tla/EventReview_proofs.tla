------------------------- MODULE EventReview_proofs -------------------------
(***************************************************************************)
(* The independence of reviewers and the credit of owners, for every set   *)
(* of analysts and organizations and every limit.                          *)
(***************************************************************************)
EXTENDS EventReview, TLAPS

\* Before the publication and after the erasure nobody is credited and nothing is approved.
NobodyIsCredited ==
    ~Published => owner = NoUser /\ active = {} /\ departed = {} /\ approvals = {}

\* The inductive invariant: independence leans on the credit of the owner (an heir is a
\* geolocator already, so the hand-over credits nobody new).
IInv == TypeOK /\ NobodyIsCredited /\ OwnerIsGeolocator /\ ApproverIndependent

-----------------------------------------------------------------------------
LEMMA InitIInv == Init => IInv
  BY Cast DEF Init, IInv, TypeOK, NobodyIsCredited, OwnerIsGeolocator, ApproverIndependent,
              Published, NoRequests

\* One step of Next, by its actions.
LEMMA Steps ==
  ASSUME Next
  PROVE  \/ \E u \in Users :
               \/ PublishEvent(u) \/ Revise(u) \/ CloseEvent(u) \/ ReadEvent(u)
               \/ Accept(u) \/ EndInvitation(u)
               \/ Ban(u) \/ RestoreUser(u) \/ EraseAccount(u)
         \/ \E u \in Users, w \in Users : Invite(u, w) \/ Remove(u, w)
         \/ \E u \in Users, v \in Voices : Approve(u, v) \/ RequestApproval(u, v)
         \/ \E u \in Users, r \in Users, t \in Voices : DeclineRequest(u, r, t)
         \/ \E r \in Users, t \in Voices : CooldownEnds(r, t)
         \/ \E u \in Users, o \in Orgs : JoinOrganization(u, o) \/ LeaveOrganization(u, o)
         \/ \E a \in approvals : DeleteApproval(a)
         \/ \E o \in Orgs : DeleteOrganization(o)
         \/ SoftDeleteEvent \/ EraseEvent
  BY DEF Next, Analyst, Admin, Decline, Withdraw

RequestTable == [Users -> [Voices -> {"none", "open", "declined"}]]

\* Resolving requests, or moving one, keeps the table.
LEMMA ResolveTypes ==
  ASSUME requests \in RequestTable, NEW asks, Resolve(asks)
  PROVE  requests' \in RequestTable
  <1>1. \A u \in Users, t \in Voices : requests[u][t] \in {"none", "open", "declined"}
    BY DEF RequestTable
  <1>2. \A u \in Users, t \in Voices :
           (IF requests[u][t] = "open" /\ <<u, t>> \in asks THEN "none" ELSE requests[u][t])
              \in {"none", "open", "declined"}
    BY <1>1
  <1> QED
    BY <1>2 DEF Resolve, RequestTable

\* A request that moves keeps the table of requests one.
LEMMA MoveTypes ==
  ASSUME requests \in RequestTable, NEW u \in Users, NEW t \in Voices,
         NEW x \in {"none", "open", "declined"},
         requests' = [requests EXCEPT ![u][t] = x]
  PROVE  requests' \in RequestTable
  <1>1. [requests[u] EXCEPT ![t] = x] \in [Voices -> {"none", "open", "declined"}]
    BY DEF RequestTable
  <1> QED
    BY <1>1 DEF RequestTable

\* The types, first of the reviews ...
LEMMA ReviewTypeStep ==
  ASSUME TypeOK, [Next]_vars
  PROVE  approvals' \subseteq Approvals /\ requests' \in RequestTable
  <1>0. approvals \subseteq Approvals /\ requests \in RequestTable /\ versionNo \in Nat
    BY DEF TypeOK, RequestTable
  <1> USE DEF reviews
  <1>1. CASE UNCHANGED vars
    BY <1>0, <1>1 DEF vars
  <1>2. ASSUME NEW u \in Users, PublishEvent(u) \/ Revise(u) \/ CloseEvent(u) \/ ReadEvent(u)
        PROVE  UNCHANGED reviews
    BY <1>2 DEF PublishEvent, Revise, CloseEvent, ReadEvent
  <1>3. ASSUME NEW u \in Users, EndInvitation(u) \/ Ban(u) \/ RestoreUser(u)
        PROVE  UNCHANGED reviews
    BY <1>3 DEF EndInvitation, Ban, RestoreUser
  <1>4. ASSUME NEW u \in Users, NEW o \in Orgs, JoinOrganization(u, o) \/ LeaveOrganization(u, o)
        PROVE  UNCHANGED reviews
    BY <1>4 DEF JoinOrganization, LeaveOrganization
  <1>5. ASSUME NEW u \in Users, Accept(u)
        PROVE  approvals' \subseteq Approvals /\ requests' \in RequestTable
    BY <1>0, <1>5, ResolveTypes DEF Accept
  <1>6. ASSUME NEW u \in Users, NEW w \in Users, Invite(u, w) \/ Remove(u, w)
        PROVE  approvals' \subseteq Approvals /\ requests' \in RequestTable
    BY <1>0, <1>6, ResolveTypes DEF Invite, Remove
  <1>7. ASSUME NEW u \in Users, NEW v \in Voices, Approve(u, v)
        PROVE  approvals' \subseteq Approvals /\ requests' \in RequestTable
    <2>1. [voice |-> v, by |-> u, version |-> versionNo] \in Approvals
      BY <1>0 DEF Approvals
    <2> QED
      BY <1>0, <1>7, <2>1, ResolveTypes DEF Approve
  <1>8. ASSUME NEW u \in Users, NEW r \in Users, NEW t \in Voices,
               RequestApproval(u, t) \/ DeclineRequest(u, r, t) \/ CooldownEnds(r, t)
        PROVE  approvals' \subseteq Approvals /\ requests' \in RequestTable
    <2>1. CASE RequestApproval(u, t)
      BY <1>0, <2>1, MoveTypes DEF RequestApproval
    <2>2. CASE DeclineRequest(u, r, t)
      BY <1>0, <2>2, MoveTypes DEF DeclineRequest
    <2>3. CASE CooldownEnds(r, t)
      BY <1>0, <2>3, MoveTypes DEF CooldownEnds
    <2> QED
      BY <1>8, <2>1, <2>2, <2>3
  <1>9. ASSUME EventGoes
        PROVE  approvals' \subseteq Approvals /\ requests' \in RequestTable
    BY <1>9 DEF EventGoes, NoRequests, RequestTable
  <1>10. ASSUME NEW u \in Users, AccountGoes(u)
         PROVE  approvals' \subseteq Approvals /\ requests' \in RequestTable
    <2>1. \A a \in approvals : [a EXCEPT !.by = IF @ = u THEN NoUser ELSE @] \in Approvals
      BY <1>0 DEF Approvals
    <2>2. approvals' \subseteq Approvals
      BY <1>10, <2>1 DEF AccountGoes
    <2>3. \A r \in Users, t \in Voices :
             (IF u \in {r, t} THEN "none" ELSE requests[r][t]) \in {"none", "open", "declined"}
      BY <1>0 DEF RequestTable
    <2>4. requests' \in RequestTable
      BY <1>10, <2>3 DEF AccountGoes, RequestTable
    <2> QED
      BY <2>2, <2>4
  <1>11. ASSUME NEW o \in Orgs, DeleteOrganization(o)
         PROVE  approvals' \subseteq Approvals /\ requests' \in RequestTable
    <2>1. \A r \in Users : [requests[r] EXCEPT ![o] = "none"]
                              \in [Voices -> {"none", "open", "declined"}]
      BY <1>0 DEF RequestTable
    <2> QED
      BY <1>0, <1>11, <2>1 DEF DeleteOrganization, RequestTable
  <1>12. CASE (\E a \in approvals : DeleteApproval(a)) \/ SoftDeleteEvent
    BY <1>0, <1>12 DEF DeleteApproval, SoftDeleteEvent
  <1>13. ASSUME NEW u \in Users, EraseAccount(u)
         PROVE  EventGoes \/ AccountGoes(u)
    BY <1>13 DEF EraseAccount
  <1>14. CASE EraseEvent
    BY <1>9, <1>14 DEF EraseEvent
  <1> QED
    BY <1>0, Steps, <1>1, <1>2, <1>3, <1>4, <1>5, <1>6, <1>7, <1>8, <1>9, <1>10, <1>11, <1>12,
       <1>13, <1>14

\* ... then of the event, its credit and the people.
EventTypeOK ==
    /\ status \in {"draft", "geolocated", "closed", "erased"}
    /\ versionNo \in Nat
    /\ owner \in Users \cup {NoUser}
    /\ Published => owner \in Users \ gone
    /\ deleted \in {"no", "own", "with owner"}
    /\ active \subseteq Users /\ invited \subseteq Users /\ departed \subseteq Users
    /\ active \cap invited = {}

PeopleTypeOK ==
    /\ members \in [Orgs -> SUBSET Users]
    /\ banned \subseteq Users /\ gone \subseteq Users
    /\ seen \in [Users -> Nat]

LEMMA EventTypeStep ==
  ASSUME TypeOK, [Next]_vars
  PROVE  EventTypeOK'
  <1>0. EventTypeOK /\ gone \subseteq Users /\ banned \subseteq Users
    BY DEF EventTypeOK, TypeOK
  <1> USE DEF EventTypeOK, Published, credit, people, LiveUsers
  <1>1. CASE UNCHANGED vars
    BY <1>0, <1>1 DEF vars
  <1>2. ASSUME NEW u \in Users, PublishEvent(u) \/ Revise(u) \/ CloseEvent(u) \/ ReadEvent(u)
        PROVE  EventTypeOK'
    <2>1. CASE PublishEvent(u)
      <3>1. invited' \subseteq Users \ {u}
        BY <2>1 DEF PublishEvent
      <3>2. /\ status' = "geolocated" /\ versionNo' = 1 /\ owner' = u /\ active' = {u}
            /\ u \notin gone /\ UNCHANGED <<deleted, departed, gone>>
        BY <2>1 DEF PublishEvent
      <3> QED
        BY <1>0, <3>1, <3>2
    <2>2. CASE Revise(u)
      <3>1. versionNo' = versionNo + 1 /\ versionNo \in Nat
        BY <1>0, <2>2 DEF Revise
      <3> QED
        <4>1. versionNo' \in Nat
          BY <3>1
        <4> QED
          BY <1>0, <2>2, <4>1 DEF Revise
    <2>3. CASE CloseEvent(u)
      BY <1>0, <2>3 DEF CloseEvent
    <2>4. CASE ReadEvent(u)
      BY <1>0, <2>4 DEF ReadEvent
    <2> QED
      BY <1>2, <2>1, <2>2, <2>3, <2>4
  <1>3. ASSUME NEW u \in Users, Accept(u) \/ EndInvitation(u)
        PROVE  EventTypeOK'
    BY <1>0, <1>3 DEF Accept, EndInvitation
  <1>4. ASSUME NEW u \in Users, NEW w \in Users, Invite(u, w) \/ Remove(u, w)
        PROVE  EventTypeOK'
    BY <1>0, <1>4 DEF Invite, Remove
  <1>5. ASSUME NEW u \in Users, NEW r \in Users, NEW t \in Voices,
               \/ Approve(u, t) \/ RequestApproval(u, t)
               \/ DeclineRequest(u, r, t) \/ CooldownEnds(r, t)
        PROVE  EventTypeOK'
    BY <1>0, <1>5 DEF Approve, RequestApproval, DeclineRequest, CooldownEnds
  <1>6. ASSUME NEW u \in Users, NEW o \in Orgs, JoinOrganization(u, o) \/ LeaveOrganization(u, o)
        PROVE  EventTypeOK'
    BY <1>0, <1>6 DEF JoinOrganization, LeaveOrganization
  <1>7. ASSUME NEW u \in Users, Ban(u) \/ RestoreUser(u)
        PROVE  EventTypeOK'
    <2>1. CASE Ban(u)
      <3>1. (owner' = owner \/ owner' \in Heirs(u)) /\ deleted' \in {"no", "own", "with owner"}
        BY <1>0, <2>1 DEF Ban
      <3>2. Heirs(u) \subseteq Users \ gone
        BY <1>0 DEF Heirs
      <3>3. UNCHANGED <<status, versionNo, active, invited, departed, gone>>
        BY <2>1 DEF Ban
      <3> QED
        BY <1>0, <3>1, <3>2, <3>3
    <2>2. CASE RestoreUser(u)
      BY <1>0, <2>2 DEF RestoreUser
    <2> QED
      BY <1>7, <2>1, <2>2
  <1>8. ASSUME NEW u \in Users, EraseAccount(u)
        PROVE  EventTypeOK'
    BY <1>0, <1>8 DEF EraseAccount, EventGoes, AccountGoes, Heirs
  <1>9. CASE (\E a \in approvals : DeleteApproval(a)) \/ SoftDeleteEvent \/ EraseEvent
    BY <1>0, <1>9 DEF DeleteApproval, SoftDeleteEvent, EraseEvent, EventGoes
  <1>10. ASSUME NEW o \in Orgs, DeleteOrganization(o)
         PROVE  EventTypeOK'
    BY <1>0, <1>10 DEF DeleteOrganization
  <1>11. Next => EventTypeOK'
    BY Steps, <1>2, <1>3, <1>4, <1>5, <1>6, <1>7, <1>8, <1>9, <1>10
  <1> QED
    BY <1>1, <1>11

LEMMA PeopleTypeStep ==
  ASSUME TypeOK, [Next]_vars
  PROVE  PeopleTypeOK'
  <1>0. PeopleTypeOK /\ versionNo \in Nat
    BY DEF PeopleTypeOK, TypeOK
  <1> USE DEF PeopleTypeOK, people, LiveUsers
  <1>1. CASE UNCHANGED vars
    BY <1>0, <1>1 DEF vars
  <1>2. ASSUME NEW u \in Users, PublishEvent(u) \/ Revise(u) \/ CloseEvent(u) \/ ReadEvent(u)
        PROVE  PeopleTypeOK'
    BY <1>0, <1>2 DEF PublishEvent, Revise, CloseEvent, ReadEvent
  <1>3. ASSUME NEW u \in Users, NEW w \in Users,
               Accept(u) \/ EndInvitation(u) \/ Invite(u, w) \/ Remove(u, w)
        PROVE  PeopleTypeOK'
    BY <1>0, <1>3 DEF Accept, EndInvitation, Invite, Remove
  <1>4. ASSUME NEW u \in Users, NEW r \in Users, NEW t \in Voices,
               \/ Approve(u, t) \/ RequestApproval(u, t)
               \/ DeclineRequest(u, r, t) \/ CooldownEnds(r, t)
        PROVE  PeopleTypeOK'
    BY <1>0, <1>4 DEF Approve, RequestApproval, DeclineRequest, CooldownEnds
  <1>5. ASSUME NEW u \in Users, NEW o \in Orgs, JoinOrganization(u, o) \/ LeaveOrganization(u, o)
        PROVE  PeopleTypeOK'
    <2>1. members[o] \cup {u} \in SUBSET Users /\ members[o] \ {u} \in SUBSET Users
      BY <1>0
    <2>2. members' \in [Orgs -> SUBSET Users]
      BY <1>0, <1>5, <2>1 DEF JoinOrganization, LeaveOrganization
    <2> QED
      BY <1>0, <1>5, <2>2 DEF JoinOrganization, LeaveOrganization
  <1>6. ASSUME NEW o \in Orgs, DeleteOrganization(o)
        PROVE  PeopleTypeOK'
    BY <1>0, <1>6 DEF DeleteOrganization
  <1>7. ASSUME NEW u \in Users, Ban(u) \/ RestoreUser(u) \/ EraseAccount(u)
        PROVE  PeopleTypeOK'
    <2>1. banned' \subseteq Users /\ gone' \subseteq Users
      BY <1>0, <1>7 DEF Ban, RestoreUser, EraseAccount
    <2>2. CASE Ban(u) \/ RestoreUser(u)
      BY <1>0, <2>1, <2>2 DEF Ban, RestoreUser
    <2>3. CASE EraseAccount(u)
      <3>1. \A o \in Orgs : members[o] \ {u} \in SUBSET Users
        BY <1>0
      <3>2. members' \in [Orgs -> SUBSET Users]
        BY <2>3, <3>1 DEF EraseAccount
      <3>3. seen' \in [Users -> Nat]
        BY <1>0, <2>3 DEF EraseAccount
      <3> QED
        BY <2>1, <3>2, <3>3
    <2> QED
      BY <1>7, <2>2, <2>3
  <1>8. CASE (\E a \in approvals : DeleteApproval(a)) \/ SoftDeleteEvent \/ EraseEvent
    BY <1>0, <1>8 DEF DeleteApproval, SoftDeleteEvent, EraseEvent
  <1> QED
    BY Steps, <1>1, <1>2, <1>3, <1>4, <1>5, <1>6, <1>7, <1>8

LEMMA TypeStep ==
  ASSUME TypeOK, [Next]_vars
  PROVE  TypeOK'
  BY ReviewTypeStep, EventTypeStep, PeopleTypeStep
  DEF TypeOK, RequestTable, EventTypeOK, PeopleTypeOK

\* Every reachable state is well typed, and the owner of a published event has an account.
THEOREM TypeCorrect == Spec => []TypeOK
  <1>1. Init => TypeOK
    BY InitIInv DEF IInv
  <1>2. TypeOK /\ [Next]_vars => TypeOK'
    BY TypeStep
  <1> QED
    BY <1>1, <1>2, PTL DEF Spec

-----------------------------------------------------------------------------
\* Before it is published an event credits nobody.
LEMMA NobodyStep ==
  ASSUME TypeOK, NobodyIsCredited, [Next]_vars
  PROVE  NobodyIsCredited'
  <1> USE DEF NobodyIsCredited, Published, credit, reviews
  <1>1. CASE UNCHANGED vars
    BY <1>1 DEF vars
  <1>2. ASSUME NEW u \in Users, PublishEvent(u) \/ Revise(u) \/ CloseEvent(u) \/ ReadEvent(u)
        PROVE  NobodyIsCredited'
    BY <1>2 DEF PublishEvent, Revise, CloseEvent, ReadEvent
  <1>3. ASSUME NEW u \in Users, NEW w \in Users,
               Accept(u) \/ EndInvitation(u) \/ Invite(u, w) \/ Remove(u, w)
        PROVE  NobodyIsCredited'
    BY <1>3 DEF Accept, EndInvitation, Invite, Remove
  <1>4. ASSUME NEW u \in Users, NEW r \in Users, NEW t \in Voices,
               \/ Approve(u, t) \/ RequestApproval(u, t)
               \/ DeclineRequest(u, r, t) \/ CooldownEnds(r, t)
        PROVE  NobodyIsCredited'
    BY <1>4 DEF Approve, RequestApproval, DeclineRequest, CooldownEnds
  <1>5. ASSUME NEW u \in Users, NEW o \in Orgs, JoinOrganization(u, o) \/ LeaveOrganization(u, o)
        PROVE  NobodyIsCredited'
    BY <1>5 DEF JoinOrganization, LeaveOrganization
  <1>6. ASSUME NEW o \in Orgs, DeleteOrganization(o)
        PROVE  NobodyIsCredited'
    BY <1>6 DEF DeleteOrganization
  <1>7. ASSUME NEW u \in Users, Ban(u) \/ RestoreUser(u)
        PROVE  NobodyIsCredited'
    BY <1>7, Cast DEF Ban, RestoreUser
  <1>8. ASSUME NEW u \in Users, EraseAccount(u)
        PROVE  NobodyIsCredited'
    BY <1>8, Cast DEF EraseAccount, EventGoes, AccountGoes, Heirs
  <1>9. CASE (\E a \in approvals : DeleteApproval(a)) \/ SoftDeleteEvent \/ EraseEvent
    BY <1>9 DEF DeleteApproval, SoftDeleteEvent, EraseEvent, EventGoes
  <1>10. Next => NobodyIsCredited'
    BY Steps, <1>2, <1>3, <1>4, <1>5, <1>6, <1>7, <1>8, <1>9
  <1> QED
    BY <1>1, <1>10

\* A ban leaves the credit alone, and an heir is a geolocator.
LEMMA BanEffect ==
  ASSUME NEW u \in Users, Ban(u) \/ RestoreUser(u)
  PROVE  /\ UNCHANGED <<status, versionNo, active, invited, departed, approvals, requests>>
         /\ owner' = owner \/ owner' \in active
  <1>1. CASE Ban(u)
    <2>1. owner' = owner \/ owner' \in Heirs(u)
      BY <1>1 DEF Ban
    <2> QED
      BY <1>1, <2>1 DEF Ban, Heirs, credit, reviews
  <1>2. CASE RestoreUser(u)
    BY <1>2 DEF RestoreUser, credit, reviews
  <1> QED
    BY <1>1, <1>2

\* An heir is a geolocator, and only a co-geolocator is removed.
LEMMA OwnerStep ==
  ASSUME TypeOK, OwnerIsGeolocator, [Next]_vars
  PROVE  OwnerIsGeolocator'
  <1> USE DEF OwnerIsGeolocator, Published, credit, reviews
  <1>1. CASE UNCHANGED vars
    BY <1>1 DEF vars
  <1>2. ASSUME NEW u \in Users, PublishEvent(u) \/ Revise(u) \/ CloseEvent(u) \/ ReadEvent(u)
        PROVE  OwnerIsGeolocator'
    BY <1>2 DEF PublishEvent, Revise, CloseEvent, ReadEvent
  <1>3. ASSUME NEW u \in Users, NEW w \in Users,
               Accept(u) \/ EndInvitation(u) \/ Invite(u, w) \/ Remove(u, w)
        PROVE  OwnerIsGeolocator'
    BY <1>3 DEF Accept, EndInvitation, Invite, Remove
  <1>4. ASSUME NEW u \in Users, NEW r \in Users, NEW t \in Voices,
               \/ Approve(u, t) \/ RequestApproval(u, t)
               \/ DeclineRequest(u, r, t) \/ CooldownEnds(r, t)
        PROVE  OwnerIsGeolocator'
    BY <1>4 DEF Approve, RequestApproval, DeclineRequest, CooldownEnds
  <1>5. ASSUME NEW u \in Users, NEW o \in Orgs, JoinOrganization(u, o) \/ LeaveOrganization(u, o)
        PROVE  OwnerIsGeolocator'
    BY <1>5 DEF JoinOrganization, LeaveOrganization
  <1>6. ASSUME NEW o \in Orgs, DeleteOrganization(o)
        PROVE  OwnerIsGeolocator'
    BY <1>6 DEF DeleteOrganization
  <1>7. ASSUME NEW u \in Users, Ban(u) \/ RestoreUser(u)
        PROVE  OwnerIsGeolocator'
    BY <1>7, BanEffect
  <1>8. ASSUME NEW u \in Users, EraseAccount(u)
        PROVE  OwnerIsGeolocator'
    BY <1>8 DEF EraseAccount, EventGoes, AccountGoes, Heirs
  <1>9. CASE (\E a \in approvals : DeleteApproval(a)) \/ SoftDeleteEvent \/ EraseEvent
    BY <1>9 DEF DeleteApproval, SoftDeleteEvent, EraseEvent, EventGoes
  <1>10. Next => OwnerIsGeolocator'
    BY Steps, <1>2, <1>3, <1>4, <1>5, <1>6, <1>7, <1>8, <1>9
  <1> QED
    BY <1>1, <1>10

-----------------------------------------------------------------------------
\* The credit grows by the publisher and by those who accept: no other step credits anyone.
NobodyJoins == EverCredited' \subseteq EverCredited

LEMMA IndependenceStep ==
  ASSUME IInv, [Next]_vars
  PROVE  ApproverIndependent'
  <1>0. TypeOK /\ NobodyIsCredited /\ OwnerIsGeolocator /\ ApproverIndependent
    BY DEF IInv
  <1> USE DEF EverCredited, credit, reviews
  <1>1. ASSUME approvals' \subseteq approvals, NobodyJoins
        PROVE  ApproverIndependent'
    BY <1>0, <1>1 DEF ApproverIndependent, NobodyJoins
  <1>2. CASE UNCHANGED vars
    BY <1>1, <1>2 DEF vars, NobodyJoins
  <1>3. ASSUME NEW u \in Users, PublishEvent(u)
        PROVE  ApproverIndependent'
    \* A draft has no approval.
    BY <1>0, <1>3 DEF PublishEvent, NobodyIsCredited, Published, ApproverIndependent
  <1>4. ASSUME NEW u \in Users, Revise(u) \/ CloseEvent(u) \/ ReadEvent(u) \/ EndInvitation(u)
        PROVE  ApproverIndependent'
    BY <1>1, <1>4 DEF Revise, CloseEvent, ReadEvent, EndInvitation, NobodyJoins
  <1>5. ASSUME NEW u \in Users, Accept(u)
        PROVE  ApproverIndependent'
    BY <1>0, <1>5 DEF Accept, ApproverIndependent
  <1>6. ASSUME NEW u \in Users, NEW w \in Users, Invite(u, w) \/ Remove(u, w)
        PROVE  ApproverIndependent'
    BY <1>1, <1>6 DEF Invite, Remove, NobodyJoins
  <1>7. ASSUME NEW u \in Users, NEW v \in Voices, Approve(u, v)
        PROVE  ApproverIndependent'
    BY <1>0, <1>7 DEF Approve, ApproverIndependent
  <1>8. ASSUME NEW u \in Users, NEW r \in Users, NEW t \in Voices,
               RequestApproval(u, t) \/ DeclineRequest(u, r, t) \/ CooldownEnds(r, t)
        PROVE  ApproverIndependent'
    BY <1>1, <1>8 DEF RequestApproval, DeclineRequest, CooldownEnds, NobodyJoins
  <1>9. ASSUME NEW u \in Users, NEW o \in Orgs, JoinOrganization(u, o) \/ LeaveOrganization(u, o)
        PROVE  ApproverIndependent'
    BY <1>1, <1>9 DEF JoinOrganization, LeaveOrganization, NobodyJoins
  <1>10. ASSUME NEW o \in Orgs, DeleteOrganization(o)
         PROVE  ApproverIndependent'
    BY <1>1, <1>10 DEF DeleteOrganization, NobodyJoins
  <1>11. ASSUME NEW u \in Users, Ban(u) \/ RestoreUser(u)
         PROVE  ApproverIndependent'
    BY <1>1, <1>11 DEF Ban, RestoreUser, Heirs, NobodyJoins
  <1>12. ASSUME NEW u \in Users, EraseAccount(u)
         PROVE  ApproverIndependent'
    <2>1. CASE EventGoes
      BY <2>1 DEF EventGoes, ApproverIndependent
    <2>2. CASE AccountGoes(u) /\ (owner' = owner \/ owner' \in Heirs(u))
      <3>1. EverCredited' \subseteq EverCredited
        BY <2>2 DEF AccountGoes, Heirs
      <3>2. \A a \in approvals' : a.by = NoUser \/ \E b \in approvals : a.by = b.by
        BY <1>0, <2>2 DEF AccountGoes, TypeOK, Approvals
      <3>3. CASE Published
        <4>1. NoUser \notin EverCredited
          BY <1>0, <3>3, Cast DEF TypeOK
        <4> QED
          BY <1>0, <3>1, <3>2, <4>1 DEF ApproverIndependent
      <3>4. CASE ~Published
        BY <1>0, <2>2, <3>4 DEF NobodyIsCredited, AccountGoes, ApproverIndependent
      <3> QED
        BY <3>3, <3>4
    <2> QED
      BY <1>12, <2>1, <2>2 DEF EraseAccount
  <1>13. CASE (\E a \in approvals : DeleteApproval(a)) \/ SoftDeleteEvent
    BY <1>1, <1>13 DEF DeleteApproval, SoftDeleteEvent, NobodyJoins
  <1>14. CASE EraseEvent
    BY <1>14 DEF EraseEvent, EventGoes, ApproverIndependent
  <1>15. Next => ApproverIndependent'
    BY Steps, <1>3, <1>4, <1>5, <1>6, <1>7, <1>8, <1>9, <1>10, <1>11, <1>12, <1>13, <1>14
  <1> QED
    BY <1>2, <1>15

-----------------------------------------------------------------------------
LEMMA Invariance == Spec => []IInv
  <1>1. IInv /\ [Next]_vars => IInv'
    BY TypeStep, NobodyStep, OwnerStep, IndependenceStep DEF IInv
  <1> QED
    BY InitIInv, <1>1, PTL DEF Spec

\* The owner of a published event is always one of its geolocators.
THEOREM OwnerIsCredited == Spec => []OwnerIsGeolocator
  BY Invariance, PTL DEF IInv

\* Nobody who is or was credited on an event stands behind an approval of it.
THEOREM ReviewIsIndependent == Spec => []ApproverIndependent
  BY Invariance, PTL DEF IInv

\* No sequence of departures, invitations and hand-overs washes a credit off.
THEOREM CreditIsKept == Spec => CreditIsNeverForgotten
  <1> DEFINE Kept_ == status' # "erased" =>
                        \A u \in EverCredited : u \in EverCredited' \cup gone' \cup {NoUser}
  <1>1. ASSUME IInv, Next
        PROVE  Kept_
    <2>0. TypeOK /\ NobodyIsCredited /\ OwnerIsGeolocator
      BY <1>1 DEF IInv
    <2> USE DEF EverCredited, credit
    <2>1. ASSUME NEW u \in Users, PublishEvent(u)
          PROVE  Kept_
      BY <2>0, <2>1 DEF PublishEvent, NobodyIsCredited, Published
    <2>2. ASSUME NEW u \in Users,
                 Revise(u) \/ CloseEvent(u) \/ ReadEvent(u) \/ EndInvitation(u) \/ Accept(u)
          PROVE  Kept_
      BY <2>2 DEF Revise, CloseEvent, ReadEvent, EndInvitation, Accept
    <2>3. ASSUME NEW u \in Users, NEW w \in Users, Invite(u, w) \/ Remove(u, w)
          PROVE  Kept_
      BY <2>3 DEF Invite, Remove
    <2>4. ASSUME NEW u \in Users, NEW r \in Users, NEW t \in Voices,
                 \/ Approve(u, t) \/ RequestApproval(u, t)
                 \/ DeclineRequest(u, r, t) \/ CooldownEnds(r, t)
          PROVE  Kept_
      BY <2>4 DEF Approve, RequestApproval, DeclineRequest, CooldownEnds
    <2>5. ASSUME NEW u \in Users, NEW o \in Orgs,
                 JoinOrganization(u, o) \/ LeaveOrganization(u, o)
          PROVE  Kept_
      BY <2>5 DEF JoinOrganization, LeaveOrganization
    <2>6. ASSUME NEW o \in Orgs, DeleteOrganization(o)
          PROVE  Kept_
      BY <2>6 DEF DeleteOrganization
    <2>7. ASSUME NEW u \in Users, Ban(u) \/ RestoreUser(u)
          PROVE  Kept_
      \* The owner who is handed over from was a geolocator, and stays one.
      <3>1. CASE Published
        BY <2>0, <2>7, <3>1, BanEffect DEF OwnerIsGeolocator
      <3>2. CASE ~Published
        BY <2>0, <2>7, <3>2, BanEffect DEF NobodyIsCredited
      <3> QED
        BY <3>1, <3>2
    <2>8. ASSUME NEW u \in Users, EraseAccount(u)
          PROVE  Kept_
      BY <2>0, <2>8 DEF EraseAccount, EventGoes, AccountGoes
    <2>9. CASE (\E a \in approvals : DeleteApproval(a)) \/ SoftDeleteEvent \/ EraseEvent
      BY <2>9 DEF DeleteApproval, SoftDeleteEvent, EraseEvent, EventGoes
    <2> QED
      BY <1>1, Steps, <2>1, <2>2, <2>3, <2>4, <2>5, <2>6, <2>7, <2>8, <2>9
  <1>2. IInv /\ [Next]_vars => [Kept_]_vars
    BY <1>1
  <1> QED
    BY <1>2, Invariance, PTL DEF Spec, CreditIsNeverForgotten

-----------------------------------------------------------------------------
\* Nothing is asked before the publication or after the erasure.
NothingAsked == ~Published => requests = NoRequests

\* An approval names a version that has been filed, so filing the next one leaves every
\* voice without a review of the live version.
ApprovalsAreOfFiled == \A a \in approvals : a.version <= versionNo

\* What keeps the requests meaningful, on top of the invariant above.
AskInv == IInv /\ NothingAsked /\ ApprovalsAreOfFiled /\ RequestsStand

\* Of the requests left open by Resolve, each was open and none is among those resolved.
LEMMA ResolveEffect ==
  ASSUME NEW asks, Resolve(asks)
  PROVE  \A r \in Users, t \in Voices :
            requests'[r][t] = "open" => requests[r][t] = "open" /\ <<r, t>> \notin asks
  BY DEF Resolve

\* A request moved to x leaves every other one as it was.
LEMMA MoveEffect ==
  ASSUME requests \in RequestTable, NEW u \in Users, NEW s \in Voices, NEW x,
         requests' = [requests EXCEPT ![u][s] = x]
  PROVE  \A r \in Users, t \in Voices :
            requests'[r][t] = IF r = u /\ t = s THEN x ELSE requests[r][t]
  BY DEF RequestTable

\* A blank table stays blank under Resolve.
LEMMA ResolveNothing ==
  ASSUME requests = NoRequests, NEW asks, Resolve(asks)
  PROVE  requests' = NoRequests
  BY DEF Resolve, NoRequests

\* Nobody is asked about an event that is not published.
LEMMA NothingAskedStep ==
  ASSUME TypeOK, NothingAsked, [Next]_vars
  PROVE  NothingAsked'
  <1> USE DEF NothingAsked, Published, credit, reviews
  <1>0. \A r \in Users, t \in Voices : NoRequests[r][t] = "none"
    BY DEF NoRequests
  <1>1. CASE UNCHANGED vars
    BY <1>1 DEF vars, NoRequests
  <1>2. ASSUME NEW u \in Users, PublishEvent(u) \/ Revise(u) \/ CloseEvent(u) \/ ReadEvent(u)
        PROVE  NothingAsked'
    BY <1>2 DEF PublishEvent, Revise, CloseEvent, ReadEvent, NoRequests
  <1>3. ASSUME NEW u \in Users, NEW w \in Users,
               Accept(u) \/ EndInvitation(u) \/ Invite(u, w) \/ Remove(u, w)
        PROVE  NothingAsked'
    BY <1>3 DEF Accept, EndInvitation, Invite, Remove, NoRequests
  <1>4. ASSUME NEW u \in Users, NEW r \in Users, NEW t \in Voices,
               \/ Approve(u, t) \/ RequestApproval(u, t)
               \/ DeclineRequest(u, r, t) \/ CooldownEnds(r, t)
        PROVE  NothingAsked'
    BY <1>0, <1>4 DEF Approve, RequestApproval, DeclineRequest, CooldownEnds
  <1>5. ASSUME NEW u \in Users, NEW o \in Orgs, JoinOrganization(u, o) \/ LeaveOrganization(u, o)
        PROVE  NothingAsked'
    BY <1>5 DEF JoinOrganization, LeaveOrganization, NoRequests
  <1>6. ASSUME NEW o \in Orgs, DeleteOrganization(o)
        PROVE  NothingAsked'
    <2>1. \A r \in Users : [NoRequests[r] EXCEPT ![o] = "none"] = [t \in Voices |-> "none"]
      BY DEF NoRequests
    <2> QED
      BY <1>6, <2>1 DEF DeleteOrganization, NoRequests
  <1>7. ASSUME NEW u \in Users, Ban(u) \/ RestoreUser(u)
        PROVE  NothingAsked'
    BY <1>7, BanEffect DEF NoRequests
  <1>8. ASSUME NEW u \in Users, EraseAccount(u)
        PROVE  NothingAsked'
    <2>1. CASE EventGoes
      BY <2>1 DEF EventGoes, NoRequests
    <2>2. CASE AccountGoes(u)
      <3>1. \A r \in Users, t \in Voices :
               (IF u \in {r, t} THEN "none" ELSE NoRequests[r][t]) = "none"
        BY <1>0
      <3> QED
        BY <2>2, <3>1 DEF AccountGoes, NoRequests
    <2> QED
      BY <1>8, <2>1, <2>2 DEF EraseAccount
  <1>9. CASE (\E a \in approvals : DeleteApproval(a)) \/ SoftDeleteEvent \/ EraseEvent
    BY <1>9 DEF DeleteApproval, SoftDeleteEvent, EraseEvent, EventGoes, NoRequests
  <1> QED
    BY Steps, <1>1, <1>2, <1>3, <1>4, <1>5, <1>6, <1>7, <1>8, <1>9

\* An approval stands on a version that was filed.
LEMMA FiledStep ==
  ASSUME IInv, ApprovalsAreOfFiled, [Next]_vars
  PROVE  ApprovalsAreOfFiled'
  <1>0. TypeOK /\ NobodyIsCredited /\ versionNo \in Nat /\ approvals \subseteq Approvals
    BY DEF IInv, TypeOK
  <1>a. \A a \in approvals : a.version \in Nat
    BY <1>0 DEF Approvals
  <1> USE DEF ApprovalsAreOfFiled, credit, reviews
  <1>1. CASE UNCHANGED vars
    BY <1>1 DEF vars
  <1>2. ASSUME NEW u \in Users, PublishEvent(u)
        PROVE  ApprovalsAreOfFiled'
    BY <1>0, <1>2 DEF PublishEvent, NobodyIsCredited, Published
  <1>3. ASSUME NEW u \in Users, Revise(u)
        PROVE  ApprovalsAreOfFiled'
    BY <1>0, <1>a, <1>3 DEF Revise
  <1>4. ASSUME NEW u \in Users, NEW w \in Users,
               \/ CloseEvent(u) \/ ReadEvent(u) \/ Accept(u) \/ EndInvitation(u)
               \/ Invite(u, w) \/ Remove(u, w)
        PROVE  ApprovalsAreOfFiled'
    BY <1>4 DEF CloseEvent, ReadEvent, Accept, EndInvitation, Invite, Remove
  <1>5. ASSUME NEW u \in Users, NEW r \in Users, NEW t \in Voices,
               \/ Approve(u, t) \/ RequestApproval(u, t)
               \/ DeclineRequest(u, r, t) \/ CooldownEnds(r, t)
        PROVE  ApprovalsAreOfFiled'
    BY <1>0, <1>5 DEF Approve, RequestApproval, DeclineRequest, CooldownEnds
  <1>6. ASSUME NEW u \in Users, NEW o \in Orgs, JoinOrganization(u, o) \/ LeaveOrganization(u, o)
        PROVE  ApprovalsAreOfFiled'
    BY <1>6 DEF JoinOrganization, LeaveOrganization
  <1>7. ASSUME NEW o \in Orgs, DeleteOrganization(o)
        PROVE  ApprovalsAreOfFiled'
    BY <1>7 DEF DeleteOrganization
  <1>8. ASSUME NEW u \in Users, Ban(u) \/ RestoreUser(u)
        PROVE  ApprovalsAreOfFiled'
    BY <1>8, BanEffect
  <1>9. ASSUME NEW u \in Users, EraseAccount(u)
        PROVE  ApprovalsAreOfFiled'
    <2>1. CASE EventGoes
      BY <2>1 DEF EventGoes
    <2>2. CASE AccountGoes(u)
      <3>1. \A a \in approvals' : \E b \in approvals : a.version = b.version
        BY <1>0, <2>2 DEF AccountGoes, Approvals
      <3> QED
        BY <2>2, <3>1 DEF AccountGoes
    <2> QED
      BY <1>9, <2>1, <2>2 DEF EraseAccount
  <1>10. CASE (\E a \in approvals : DeleteApproval(a)) \/ SoftDeleteEvent \/ EraseEvent
    BY <1>10 DEF DeleteApproval, SoftDeleteEvent, EraseEvent, EventGoes
  <1> QED
    BY Steps, <1>1, <1>2, <1>3, <1>4, <1>5, <1>6, <1>7, <1>8, <1>9, <1>10

\* A step that opens no request, credits nobody, keeps the senders of the open ones and
\* reviews no version for the first time leaves the open requests meaningful.
LEMMA StandStep ==
  ASSUME RequestsStand,
         \A r \in Users, t \in Voices :
            requests'[r][t] = "open" =>
               /\ requests[r][t] = "open"
               /\ IsGeolocator(r) => IsGeolocator(r)'
               /\ t \notin EverCredited => t \notin EverCredited'
               /\ Reviewed(t)' => Reviewed(t)
  PROVE  RequestsStand'
  BY DEF RequestsStand

\* A request stays open only where it could still be sent.
LEMMA RequestsStandStep ==
  ASSUME AskInv, [Next]_vars
  PROVE  RequestsStand'
  <1>0. /\ TypeOK /\ NobodyIsCredited /\ OwnerIsGeolocator
        /\ NothingAsked /\ ApprovalsAreOfFiled /\ RequestsStand
    BY DEF AskInv, IInv
  <1>a. requests \in RequestTable
    BY <1>0 DEF TypeOK, RequestTable
  <1>b. ASSUME ~Published
        PROVE  \A r \in Users, t \in Voices : requests[r][t] # "open"
    BY <1>0, <1>b DEF NothingAsked, NoRequests
  <1> USE DEF EverCredited, IsGeolocator, credit, reviews
  <1>1. CASE UNCHANGED vars
    BY <1>0, <1>1 DEF vars, RequestsStand, Reviewed
  <1>2. ASSUME NEW u \in Users, PublishEvent(u)
        PROVE  RequestsStand'
    BY <1>b, <1>2 DEF PublishEvent, Published, RequestsStand
  <1>3. ASSUME NEW u \in Users, Revise(u)
        PROVE  RequestsStand'
    \* No approval names the new version.
    <2>1. \A t : ~Reviewed(t)'
      <3>1. versionNo \in Nat /\ versionNo' = versionNo + 1 /\ approvals' = approvals
        BY <1>0, <1>3 DEF Revise, TypeOK
      <3>2. \A a \in approvals : a.version \in Nat /\ a.version <= versionNo
        BY <1>0 DEF TypeOK, Approvals, ApprovalsAreOfFiled
      <3> QED
        BY <3>1, <3>2 DEF Reviewed
    <2> QED
      BY <1>0, <1>3, <2>1 DEF Revise, RequestsStand
  <1>4. ASSUME NEW u \in Users, NEW w \in Users,
               CloseEvent(u) \/ ReadEvent(u) \/ EndInvitation(u) \/ Invite(u, w)
        PROVE  RequestsStand'
    BY <1>0, <1>4 DEF CloseEvent, ReadEvent, EndInvitation, Invite, RequestsStand, Reviewed
  <1>5. ASSUME NEW u \in Users, Accept(u)
        PROVE  RequestsStand'
    <2>1. \A r \in Users, t \in Voices :
             requests'[r][t] = "open" => requests[r][t] = "open" /\ t # u
      <3>1. Resolve(Users \X {u})
        BY <1>5 DEF Accept
      <3>2. \A r \in Users, t \in Voices :
               requests'[r][t] = "open" => requests[r][t] = "open" /\ <<r, t>> \notin Users \X {u}
        BY <3>1, ResolveEffect
      <3> QED
        BY <3>2
    <2>2. /\ owner' = owner /\ active' = active \cup {u} /\ departed' = departed
          /\ approvals' \subseteq approvals /\ versionNo' = versionNo
      BY <1>5 DEF Accept
    <2> QED
      BY <1>0, <2>1, <2>2, StandStep DEF Reviewed
  <1>6. ASSUME NEW u \in Users, NEW w \in Users, Remove(u, w)
        PROVE  RequestsStand'
    <2>1. \A r \in Users, t \in Voices :
             requests'[r][t] = "open" => requests[r][t] = "open" /\ r # w
      <3>1. Resolve({w} \X Voices)
        BY <1>6 DEF Remove
      <3>2. \A r \in Users, t \in Voices :
               requests'[r][t] = "open" => requests[r][t] = "open" /\ <<r, t>> \notin {w} \X Voices
        BY <3>1, ResolveEffect
      <3> QED
        BY <3>2
    <2>2. /\ owner' = owner /\ active' = active \ {w} /\ departed' = departed \cup {w}
          /\ w \in active /\ approvals' = approvals /\ versionNo' = versionNo
      BY <1>6 DEF Remove
    <2> QED
      BY <1>0, <2>1, <2>2, StandStep DEF Reviewed
  <1>7. ASSUME NEW u \in Users, NEW v \in Voices, Approve(u, v)
        PROVE  RequestsStand'
    <2>1. \A r \in Users, t \in Voices :
             requests'[r][t] = "open" => requests[r][t] = "open" /\ t # v
      <3>1. Resolve(Users \X {v})
        BY <1>7 DEF Approve
      <3>2. \A r \in Users, t \in Voices :
               requests'[r][t] = "open" => requests[r][t] = "open" /\ <<r, t>> \notin Users \X {v}
        BY <3>1, ResolveEffect
      <3> QED
        BY <3>2
    <2>2. /\ owner' = owner /\ active' = active /\ departed' = departed /\ versionNo' = versionNo
          /\ approvals' = approvals \cup {[voice |-> v, by |-> u, version |-> versionNo]}
      BY <1>7 DEF Approve
    <2>3. \A t : t # v => (Reviewed(t)' => Reviewed(t))
      BY <2>2 DEF Reviewed
    <2> QED
      BY <1>0, <2>1, <2>2, <2>3, StandStep
  <1>8. ASSUME NEW u \in Users, NEW t \in Voices, RequestApproval(u, t)
        PROVE  RequestsStand'
    <2>1. /\ owner' = owner /\ active' = active /\ departed' = departed
          /\ versionNo' = versionNo /\ approvals' = approvals
      BY <1>8 DEF RequestApproval
    <2>2. IsGeolocator(u) /\ ~Reviewed(t) /\ Published
      BY <1>8 DEF RequestApproval, Published
    <2>3. t \notin EverCredited
      <3>1. EverCredited \subseteq Users
        BY <1>0, <2>2 DEF TypeOK
      <3> QED
        BY <1>8, <3>1, Cast DEF RequestApproval, Voices
    <2>4. \A r \in Users, s \in Voices :
             requests'[r][s] = IF r = u /\ s = t THEN "open" ELSE requests[r][s]
      <3>1. requests' = [requests EXCEPT ![u][t] = "open"]
        BY <1>8 DEF RequestApproval
      <3> QED
        BY <3>1, <1>a DEF RequestTable
    <2> QED
      BY <1>0, <2>1, <2>2, <2>3, <2>4 DEF RequestsStand, Reviewed
  <1>9. ASSUME NEW u \in Users, NEW r \in Users, NEW t \in Voices,
               DeclineRequest(u, r, t) \/ CooldownEnds(r, t)
        PROVE  RequestsStand'
    <2>1. \E x \in {"none", "declined"} : requests' = [requests EXCEPT ![r][t] = x]
      BY <1>9 DEF DeclineRequest, CooldownEnds
    <2>2. \A s \in Users, v \in Voices : requests'[s][v] = "open" => requests[s][v] = "open"
      BY <1>a, <2>1, MoveEffect
    <2>3. /\ owner' = owner /\ active' = active /\ departed' = departed
          /\ versionNo' = versionNo /\ approvals' = approvals
      BY <1>9 DEF DeclineRequest, CooldownEnds
    <2> QED
      BY <1>0, <2>2, <2>3 DEF RequestsStand, Reviewed
  <1>10. ASSUME NEW u \in Users, NEW o \in Orgs, JoinOrganization(u, o) \/ LeaveOrganization(u, o)
         PROVE  RequestsStand'
    BY <1>0, <1>10 DEF JoinOrganization, LeaveOrganization, RequestsStand, Reviewed
  <1>11. ASSUME NEW o \in Orgs, DeleteOrganization(o)
         PROVE  RequestsStand'
    <2>1. \A r \in Users, t \in Voices : requests'[r][t] = "open" => requests[r][t] = "open"
      BY <1>a, <1>11 DEF DeleteOrganization, RequestTable
    <2>2. /\ owner' = owner /\ active' = active /\ departed' = departed
          /\ versionNo' = versionNo /\ approvals' \subseteq approvals
      BY <1>11 DEF DeleteOrganization
    <2> QED
      BY <1>0, <2>1, <2>2, StandStep DEF Reviewed
  <1>12. ASSUME NEW u \in Users, Ban(u) \/ RestoreUser(u)
         PROVE  RequestsStand'
    \* The owner of a published event keeps the credit when it is handed over.
    <2>1. CASE Published
      BY <1>0, <1>12, <2>1, BanEffect DEF OwnerIsGeolocator, RequestsStand, Reviewed
    <2>2. CASE ~Published
      BY <1>b, <1>12, <2>2, BanEffect DEF RequestsStand
    <2> QED
      BY <2>1, <2>2
  <1>13. ASSUME NEW u \in Users, EraseAccount(u)
         PROVE  RequestsStand'
    <2>1. CASE EventGoes
      BY <2>1 DEF EventGoes, NoRequests, RequestsStand
    <2>2. CASE AccountGoes(u) /\ (owner' = owner \/ (owner = u /\ owner' \in Heirs(u)))
      <3>1. \A r \in Users, t \in Voices :
               requests'[r][t] = "open" => requests[r][t] = "open" /\ r # u /\ t # u
        BY <2>2 DEF AccountGoes
      <3>2. /\ active' = active \ {u} /\ departed' = departed \ {u} /\ versionNo' = versionNo
        BY <2>2 DEF AccountGoes
      <3>3. \A t : Reviewed(t)' => Reviewed(t)
        <4>1. \A a \in approvals' :
                 \E b \in approvals : a.voice = b.voice /\ a.version = b.version
          BY <1>0, <2>2 DEF AccountGoes, TypeOK, Approvals
        <4> QED
          BY <3>2, <4>1 DEF Reviewed
      <3> QED
        BY <1>0, <2>2, <3>1, <3>2, <3>3, StandStep DEF Heirs
    <2> QED
      BY <1>13, <2>1, <2>2 DEF EraseAccount
  <1>14. CASE (\E a \in approvals : DeleteApproval(a)) \/ SoftDeleteEvent
    BY <1>0, <1>14 DEF DeleteApproval, SoftDeleteEvent, RequestsStand, Reviewed
  <1>15. CASE EraseEvent
    BY <1>15 DEF EraseEvent, EventGoes, NoRequests, RequestsStand
  <1>16. Next => RequestsStand'
    BY Steps, <1>2, <1>3, <1>4, <1>5, <1>6, <1>7, <1>8, <1>9, <1>10, <1>11, <1>12, <1>13,
       <1>14, <1>15
  <1> QED
    BY <1>1, <1>16

LEMMA AskInvariance == Spec => []AskInv
  <1>1. Init => AskInv
    BY InitIInv DEF Init, AskInv, NothingAsked, ApprovalsAreOfFiled, RequestsStand, NoRequests
  <1>2. AskInv /\ [Next]_vars => AskInv'
    BY TypeStep, NobodyStep, OwnerStep, IndependenceStep, NothingAskedStep, FiledStep,
       RequestsStandStep DEF AskInv, IInv
  <1> QED
    BY <1>1, <1>2, PTL DEF Spec

\* Every open request was sent by someone still credited, to somebody whose answer is still
\* wanted: accept, remove, approve, bans and erasures leave none behind.
THEOREM OpenRequestsStand == Spec => []RequestsStand
  BY AskInvariance, PTL DEF AskInv

-----------------------------------------------------------------------------
\* An approval new in its voice and version was just placed, on the version the reviewer
\* read: an erasure renames the reviewer of one that stood, and moves no version.
THEOREM ApprovalLands == Spec => ApprovalLandsOnWhatWasSeen
  <1> DEFINE Stood(a) == \E b \in approvals : <<b.voice, b.version>> = <<a.voice, a.version>>
             Lands(a) == a.version = seen[a.by] /\ a.version = versionNo
             Landing == \A a \in approvals' : a.by # NoUser /\ ~Stood(a) => Lands(a)
  <1>1. ASSUME IInv, Next
        PROVE  Landing
    <2>0. approvals \subseteq Approvals
      BY <1>1 DEF IInv, TypeOK
    <2>1. ASSUME approvals' \subseteq approvals
          PROVE  Landing
      BY <2>1
    <2> USE DEF reviews
    <2>2. ASSUME NEW u \in Users, NEW w \in Users,
                 \/ PublishEvent(u) \/ Revise(u) \/ CloseEvent(u) \/ ReadEvent(u)
                 \/ Accept(u) \/ EndInvitation(u) \/ Ban(u) \/ RestoreUser(u)
                 \/ Invite(u, w) \/ Remove(u, w)
          PROVE  Landing
      BY <2>1, <2>2 DEF PublishEvent, Revise, CloseEvent, ReadEvent, Accept, EndInvitation, Ban,
                  RestoreUser, Invite, Remove
    <2>3. ASSUME NEW u \in Users, NEW r \in Users, NEW t \in Voices,
                 RequestApproval(u, t) \/ DeclineRequest(u, r, t) \/ CooldownEnds(r, t)
          PROVE  Landing
      BY <2>1, <2>3 DEF RequestApproval, DeclineRequest, CooldownEnds
    <2>4. ASSUME NEW u \in Users, NEW o \in Orgs,
                 JoinOrganization(u, o) \/ LeaveOrganization(u, o)
          PROVE  Landing
      BY <2>1, <2>4 DEF JoinOrganization, LeaveOrganization
    <2>5. CASE \/ \E a \in approvals : DeleteApproval(a)
               \/ \E o \in Orgs : DeleteOrganization(o)
               \/ SoftDeleteEvent \/ EraseEvent
      BY <2>1, <2>5 DEF DeleteApproval, DeleteOrganization, SoftDeleteEvent, EraseEvent, EventGoes
    <2>6. ASSUME NEW u \in Users, NEW v \in Voices, Approve(u, v)
          PROVE  Landing
      BY <2>6 DEF Approve
    <2>7. ASSUME NEW u \in Users, EraseAccount(u)
          PROVE  Landing
      <3>1. CASE EventGoes
        BY <2>1, <3>1 DEF EventGoes
      <3>2. CASE AccountGoes(u)
        <4>1. \A a \in approvals' :
                 \E b \in approvals : a.voice = b.voice /\ a.version = b.version
          BY <2>0, <3>2 DEF AccountGoes, Approvals
        <4> QED
          BY <4>1
      <3> QED
        BY <2>7, <3>1, <3>2 DEF EraseAccount
    <2> HIDE DEF Landing
    <2> QED
      BY <1>1, Steps, <2>2, <2>3, <2>4, <2>5, <2>6, <2>7
  <1>2. IInv /\ [Next]_vars
           => [\A a \in approvals' :
                  a.by # NoUser
                  /\ (\A b \in approvals : <<b.voice, b.version>> # <<a.voice, a.version>>)
                     => a.version = seen[a.by] /\ a.version = versionNo]_vars
    BY <1>1
  <1> QED
    BY <1>2, Invariance, PTL DEF Spec, ApprovalLandsOnWhatWasSeen
=============================================================================
