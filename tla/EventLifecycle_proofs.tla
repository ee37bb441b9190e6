----------------------- MODULE EventLifecycle_proofs -----------------------
(***************************************************************************)
(* The invariants of EventLifecycle for every set of analysts, of bodies   *)
(* and of copies, and every ceiling; then those of DetectionImport for     *)
(* every set of works, of accounts and of imports at once.                 *)
(***************************************************************************)
EXTENDS MCEventLifecycle, EvidenceStore_proofs

\* A row that is not inserted yet has no history and nobody has read it.
AbsentIsBlank ==
    status = "absent" =>
        DOMAIN history = {} /\ \A u \in Users : pages[u] = NoPage

\* The inductive invariant. VersionNamesContent is not inductive alone: a save files the
\* content a page shows only if the numbers below the live one are all filed
\* (VersionsAreNumbered), and the ceiling holds at a draft because a draft has no history.
IInv ==
    /\ TypeOK
    /\ AbsentIsBlank
    /\ VersionsAreNumbered
    /\ VersionNamesContent
    /\ PublishedMeetsFloor
    /\ CeilingHolds

\* What the invariant reads: every step that leaves it alone preserves it.
Quiet == UNCHANGED <<status, beforeClosed, versionNo, content, history, pages>>

\* What an erasure leaves.
ErasedRow ==
    /\ status \in Live /\ status' = "erased"
    /\ content' = NoContent
    /\ history' = [v \in {} |-> Blank]
    /\ UNCHANGED <<beforeClosed, versionNo, pages>>

-----------------------------------------------------------------------------
LEMMA InitIInv == Init => IInv
  <1>1. Init => AbsentIsBlank
    BY DEF Init, AbsentIsBlank
  <1>2. Init => TypeOK
    <2> SUFFICES ASSUME Init PROVE TypeOK
      OBVIOUS
    <2>1. DOMAIN history = {} /\ history \in [DOMAIN history -> Contents \cup {Blank}]
      BY DEF Init
    <2>2. pages \in [Users -> Pages \cup {NoPage}]
      BY DEF Init
    <2> QED
      BY <2>1, <2>2 DEF Init, TypeOK, Live, Writable, Unpublished
  <1> QED
    BY <1>1, <1>2 DEF Init, IInv, VersionsAreNumbered, VersionNamesContent, PublishedMeetsFloor,
                CeilingHolds, Live, Writable, Unpublished

\* The forms a step takes, as far as the invariant can tell.
LEMMA StepForms ==
  ASSUME [Next]_vars
  PROVE  \/ Quiet
         \/ ErasedRow
         \/ \E u \in Users, c \in Contents, st \in Writable :
               /\ Insert(u, st, c)
               /\ st = "geolocated" => MeetsFloor(c)
               /\ st = "requested" => c.body \in Sourced
         \/ \E u \in Users : ReadPage(u)
         \/ \E u \in Users, c \in Contents : \E expected \in Expected(u) :
               Publish(u, c, expected) \/ Correct(u, c, expected)
         \/ \E u \in Users : UpdateRequest(u) \/ PublishDetection(u) \/ Close(u)
         \/ UpsertOne
         \/ \E v \in 0 .. VersionCap : RedactVersion(v)
  <1>1. CASE UNCHANGED vars
    BY <1>1 DEF vars, Quiet
  <1>2. ASSUME NEW u \in Users, Analyst(u)
        PROVE  \/ Quiet
               \/ \E c \in Contents, st \in Writable :
                     /\ Insert(u, st, c)
                     /\ st = "geolocated" => MeetsFloor(c)
                     /\ st = "requested" => c.body \in Sourced
               \/ ReadPage(u)
               \/ \E c \in Contents : \E expected \in Expected(u) :
                     Publish(u, c, expected) \/ Correct(u, c, expected)
               \/ UpdateRequest(u) \/ PublishDetection(u) \/ Close(u)
    <2>1. CASE CreateWithEvidence(u)
      BY <2>1 DEF CreateWithEvidence, Writable, Unpublished
    <2>2. CASE CreateRequest(u)
      BY <2>2 DEF CreateRequest, Writable, Unpublished
    <2>3. CASE ResolveLiveEvent(u) \/ RequestFails(u)
      BY <2>3 DEF ResolveLiveEvent, RequestFails, Quiet, row
    <2>4. CASE SaveVersion(u)
      BY <2>4 DEF SaveVersion
    <2> QED
      BY <1>2, <2>1, <2>2, <2>3, <2>4 DEF Analyst
  <1>3. CASE Machine
    <2>1. ASSUME NEW u \in Users, PersistDetection(u)
          PROVE  \E c \in Contents : Insert(u, "detected", c)
      BY <2>1, ACopy DEF PersistDetection, Contents
    <2>2. CASE ImportVerdict \/ UpsertSkipped
      BY <2>2 DEF ImportVerdict, UpsertSkipped, Quiet, row, clients
    <2> QED
      BY <1>3, <2>1, <2>2 DEF Machine, Writable, Unpublished
  <1>4. CASE Admin
    <2>1. CASE Withhold \/ LiftTakedown \/ SoftDelete \/ OwnerBanned \/ OwnerRestored
      BY <2>1 DEF Withhold, LiftTakedown, SoftDelete, OwnerBanned, OwnerRestored, Quiet,
                  row, clients
    <2>2. ASSUME NEW heir \in Users, HandOver(heir)
          PROVE  Quiet
      BY <2>2 DEF HandOver, Quiet, clients
    <2>3. CASE HardDelete \/ PurgeDelete
      BY <2>3 DEF HardDelete, PurgeDelete, Erase, ErasedRow, Quiet, row, clients
    <2>4. CASE PurgeRead
      BY <2>4 DEF PurgeRead, Quiet, row, clients
    <2> QED
      BY <1>4, <2>1, <2>2, <2>3, <2>4 DEF Admin
  <1> QED
    BY <1>1, <1>2, <1>3, <1>4 DEF Next

-----------------------------------------------------------------------------
\* Filing the live version extends the history by its number.
LEMMA FilesTheLiveVersion ==
  ASSUME TypeOK, content \in Contents, NEW e \in BOOLEAN, FileVersion(e)
  PROVE  /\ versionNo' = versionNo + 1
         /\ DOMAIN history' = DOMAIN history \cup {versionNo}
         /\ history'[versionNo] = content
         /\ \A v \in DOMAIN history : v # versionNo => history'[v] = history[v]
         /\ history' \in [DOMAIN history' -> Contents \cup {Blank}]
  <1>1. DOMAIN history' = DOMAIN history \cup {versionNo}
    BY DEF FileVersion
  <1>2. \A v \in DOMAIN history : v # versionNo => history'[v] = history[v]
    BY DEF FileVersion
  <1>3. history'[versionNo] = content /\ versionNo' = versionNo + 1
    BY DEF FileVersion
  <1>4. \A v \in DOMAIN history' : history'[v] \in Contents \cup {Blank}
    BY <1>1, <1>2, <1>3 DEF TypeOK
  <1>5. history' = [v \in DOMAIN history' |-> history'[v]]
    BY <1>1 DEF FileVersion
  <1> QED
    BY <1>1, <1>2, <1>3, <1>4, <1>5

\* The type invariant, first the columns no version is made of.
LEMMA FlagTypeStep ==
  ASSUME TypeOK, [Next]_vars
  PROVE  /\ owner' \in Users \cup {NoUser}
         /\ hidden' \in BOOLEAN
         /\ deleted' \in {"no", "own", "with owner"}
         /\ inflight' \subseteq Users
         /\ upserting' \in BOOLEAN
         /\ purging' \in BOOLEAN
  <1> USE DEF TypeOK
  <1>1. CASE UNCHANGED vars
    BY <1>1 DEF vars
  <1>2. ASSUME NEW u \in Users, Analyst(u)
        PROVE  /\ owner' \in Users \cup {NoUser}
               /\ inflight' \subseteq Users
               /\ UNCHANGED <<hidden, deleted, upserting, purging>>
    <2> USE DEF row, moderation, clients, machines, Insert, Answered, FileVersion
    <2>1. CASE CreateWithEvidence(u) \/ CreateRequest(u)
      BY <2>1 DEF CreateWithEvidence, CreateRequest
    <2>2. CASE ReadPage(u) \/ ResolveLiveEvent(u) \/ RequestFails(u)
      BY <2>2 DEF ReadPage, ResolveLiveEvent, RequestFails
    <2>3. CASE SaveVersion(u)
      BY <2>3 DEF SaveVersion, Publish, Correct
    <2>4. CASE UpdateRequest(u) \/ PublishDetection(u) \/ Close(u)
      BY <2>4 DEF UpdateRequest, PublishDetection, Close
    <2> QED
      BY <1>2, <2>1, <2>2, <2>3, <2>4 DEF Analyst
  <1>3. CASE Machine
    BY <1>3 DEF Machine, PersistDetection, Insert, ImportVerdict, UpsertSkipped, UpsertOne,
                row, moderation, clients, machines
  <1>4. CASE Admin
    <2> USE DEF row, moderation, clients, machines
    <2>1. CASE Withhold \/ LiftTakedown \/ SoftDelete \/ OwnerBanned \/ OwnerRestored
      BY <2>1 DEF Withhold, LiftTakedown, SoftDelete, OwnerBanned, OwnerRestored
    <2>2. CASE \E heir \in Users : HandOver(heir)
      BY <2>2 DEF HandOver
    <2>3. CASE \E v \in 0 .. VersionCap : RedactVersion(v)
      BY <2>3 DEF RedactVersion
    <2>4. CASE HardDelete \/ PurgeRead \/ PurgeDelete
      BY <2>4 DEF HardDelete, PurgeRead, PurgeDelete, Erase
    <2> QED
      BY <1>4, <2>1, <2>2, <2>3, <2>4 DEF Admin
  <1> QED
    BY <1>1, <1>2, <1>3, <1>4 DEF Next

\* Then the row, its history and the pages it was read into.
RowTypeOK ==
    /\ status \in Live \cup {"absent", "erased"}
    /\ beforeClosed \in Writable \cup {"none"}
    /\ versionNo \in Nat
    /\ content \in Contents \cup {NoContent}
    /\ status \in Live => content \in Contents
    /\ DOMAIN history \subseteq Nat
    /\ history \in [DOMAIN history -> Contents \cup {Blank}]
    /\ pages \in [Users -> Pages \cup {NoPage}]

LEMMA RowTypeStep ==
  ASSUME TypeOK, [Next]_vars
  PROVE  RowTypeOK'
  <1> USE DEF RowTypeOK, Live, Writable, Unpublished
  <1>1. CASE Quiet
    BY <1>1 DEF Quiet, TypeOK
  <1>2. CASE ErasedRow
    <2>1. DOMAIN history' = {} /\ history' \in [DOMAIN history' -> Contents \cup {Blank}]
      BY <1>2 DEF ErasedRow
    <2> QED
      BY <1>2, <2>1 DEF ErasedRow, TypeOK
  <1>3. ASSUME NEW u \in Users, NEW c \in Contents, NEW st \in Writable, Insert(u, st, c)
        PROVE  RowTypeOK'
    BY <1>3 DEF Insert, clients, TypeOK
  <1>4. ASSUME NEW u \in Users, ReadPage(u)
        PROVE  RowTypeOK'
    <2>1. [version |-> versionNo, content |-> content] \in Pages
      BY <1>4 DEF ReadPage, TypeOK, Pages
    <2> QED
      BY <1>4, <2>1 DEF ReadPage, row, TypeOK
  <1>5. ASSUME NEW u \in Users, NEW c \in Contents, NEW expected \in Expected(u),
               Publish(u, c, expected) \/ Correct(u, c, expected)
        PROVE  RowTypeOK'
    <2>1. \E e \in BOOLEAN : FileVersion(e)
      BY <1>5 DEF Publish, Correct, FieldsMove
    <2>2. content \in Contents
      BY <1>5 DEF Publish, Correct, TypeOK
    <2>3. versionNo' = versionNo + 1 /\ DOMAIN history' = DOMAIN history \cup {versionNo}
      BY <2>1, <2>2, FilesTheLiveVersion
    <2>4. pages' \in [Users -> Pages \cup {NoPage}]
      BY <1>5 DEF Publish, Correct, Answered, TypeOK
    <2>5. versionNo' \in Nat /\ DOMAIN history' \subseteq Nat
      <3>1. versionNo \in Nat /\ DOMAIN history \subseteq Nat
        BY DEF TypeOK
      <3> QED
        BY <2>3, <3>1
    <2>6. status' = "geolocated" /\ beforeClosed' = beforeClosed /\ content' \in Contents
      BY <1>5 DEF Publish, Correct
    <2>7. history' \in [DOMAIN history' -> Contents \cup {Blank}]
      BY <2>1, <2>2, FilesTheLiveVersion
    <2> QED
      BY <2>4, <2>5, <2>6, <2>7 DEF TypeOK
  <1>6. ASSUME NEW u \in Users, UpdateRequest(u)
        PROVE  RowTypeOK'
    BY <1>6 DEF UpdateRequest, Answered, TypeOK
  <1>7. ASSUME NEW u \in Users, PublishDetection(u)
        PROVE  RowTypeOK'
    <2>1. content \in Contents /\ FileVersion(TRUE)
      BY <1>7 DEF PublishDetection, TypeOK
    <2>2. versionNo' = versionNo + 1 /\ DOMAIN history' = DOMAIN history \cup {versionNo}
      BY <2>1, FilesTheLiveVersion
    <2>3. content' \in Contents
      BY <1>7, <2>1 DEF PublishDetection, Contents
    <2>4. versionNo' \in Nat /\ DOMAIN history' \subseteq Nat
      <3>1. versionNo \in Nat /\ DOMAIN history \subseteq Nat
        BY DEF TypeOK
      <3> QED
        BY <2>2, <3>1
    <2>5. status' = "geolocated" /\ UNCHANGED <<beforeClosed, pages>>
      BY <1>7 DEF PublishDetection, clients
    <2>6. history' \in [DOMAIN history' -> Contents \cup {Blank}]
      BY <2>1, FilesTheLiveVersion
    <2> QED
      BY <2>3, <2>4, <2>5, <2>6 DEF TypeOK
  <1>8. ASSUME NEW u \in Users, Close(u)
        PROVE  RowTypeOK'
    BY <1>8 DEF Close, Answered, TypeOK
  <1>9. CASE UpsertOne
    <2>1. content' \in Contents
      BY <1>9 DEF UpsertOne, Upsertable, Contents, TypeOK
    <2> QED
      BY <1>9, <2>1 DEF UpsertOne, clients, TypeOK
  <1>10. ASSUME NEW v \in 0 .. VersionCap, RedactVersion(v)
         PROVE  RowTypeOK'
    <2>1. /\ DOMAIN history' = DOMAIN history
          /\ history' \in [DOMAIN history' -> Contents \cup {Blank}]
      BY <1>10 DEF RedactVersion, TypeOK
    <2> QED
      BY <1>10, <2>1 DEF RedactVersion, clients, TypeOK
  <1> QED
    BY StepForms, <1>1, <1>2, <1>3, <1>4, <1>5, <1>6, <1>7, <1>8, <1>9, <1>10

LEMMA TypeStep ==
  ASSUME TypeOK, [Next]_vars
  PROVE  TypeOK'
  BY FlagTypeStep, RowTypeStep DEF TypeOK, RowTypeOK

\* Every reachable state is well typed: the columns, the filed versions and the pages.
THEOREM TypeCorrect == Spec => []TypeOK
  <1>1. Init => TypeOK
    BY InitIInv DEF IInv
  <1>2. TypeOK /\ [Next]_vars => TypeOK'
    BY TypeStep
  <1> QED
    BY <1>1, <1>2, PTL DEF Spec

-----------------------------------------------------------------------------
\* What a step does to the row, whichever handler takes it.
PagesKept == \A u \in Users : pages'[u] \in {pages[u], NoPage}

\* create_with_evidence, create_request, _persist_one.
Born ==
    /\ status = "absent" /\ status' \in Writable
    /\ versionNo' = IF status' \in Unpublished THEN 0 ELSE 1
    /\ status' = "geolocated" => MeetsFloor(content')
    /\ status' = "requested" => content'.body \in Sourced
    /\ UNCHANGED <<history, pages>>

\* save_version and the batch: the live version is filed under its number.
Filed ==
    /\ status \in Writable /\ status' = "geolocated"
    /\ versionNo' = versionNo + 1
    /\ DOMAIN history' = DOMAIN history \cup {versionNo}
    /\ history'[versionNo] = content
    /\ \A v \in DOMAIN history : v # versionNo => history'[v] = history[v]
    /\ MeetsFloor(content')
    /\ versionNo >= MaxVersions =>
          content'.body = content.body /\ content'.conflict = content.conflict
    /\ PagesKept

\* update_request and _upsert_one: a draft is overwritten in place.
Edited ==
    /\ status \in Unpublished
    /\ status = "requested" => content'.body \in Sourced
    /\ UNCHANGED <<status, beforeClosed, versionNo, history>>
    /\ PagesKept

Closed ==
    /\ status \in Writable /\ status' = "closed"
    /\ beforeClosed' = status
    /\ UNCHANGED <<versionNo, content, history, pages>>

RedactedRow(v) ==
    /\ status \in Live
    /\ v \in DOMAIN history
    /\ DOMAIN history' = DOMAIN history
    /\ history'[v] = Blank
    /\ \A w \in DOMAIN history : w # v => history'[w] = history[w]
    /\ UNCHANGED <<status, beforeClosed, versionNo, content, pages>>

\* What a step may do to the row, in the eight ways the proofs tell apart.
LEMMA Effects ==
  ASSUME TypeOK, [Next]_vars
  PROVE  \/ Quiet \/ ErasedRow \/ Born \/ Filed \/ Edited \/ Closed
         \/ \E u \in Users : ReadPage(u)
         \/ \E v \in Nat : RedactedRow(v)
  <1>0. (versionNo < MaxVersions) => ~(versionNo >= MaxVersions)
    <2>1. versionNo \in Nat
      BY DEF TypeOK
    <2> QED
      BY <2>1, Ceiling
  <1>1. ASSUME NEW u \in Users, NEW c \in Contents, NEW st \in Writable, Insert(u, st, c),
               st = "geolocated" => MeetsFloor(c), st = "requested" => c.body \in Sourced
        PROVE  Born
    BY <1>1 DEF Born, Insert, clients
  <1>2. ASSUME NEW u \in Users, NEW c \in Contents, NEW expected \in Expected(u),
               Publish(u, c, expected)
        PROVE  Filed
    <2>1. FileVersion(TRUE) /\ content \in Contents
      BY <1>2 DEF Publish, TypeOK, Live, Writable
    <2>2. ~(versionNo >= MaxVersions)
      BY <1>0, <2>1 DEF FileVersion
    <2>3. PagesKept
      BY <1>2 DEF Publish, Answered, PagesKept, TypeOK
    <2>4. status \in Writable /\ status' = "geolocated" /\ MeetsFloor(content')
      BY <1>2 DEF Publish, Writable
    <2> QED
      BY <2>1, <2>2, <2>3, <2>4, FilesTheLiveVersion DEF Filed
  <1>3. ASSUME NEW u \in Users, NEW c \in Contents, NEW expected \in Expected(u),
               Correct(u, c, expected)
        PROVE  Filed
    <2>1. FileVersion(FieldsMove(c)) /\ content \in Contents /\ FieldsMove(c) \in BOOLEAN
      BY <1>3 DEF Correct, FieldsMove, TypeOK, Live, Writable
    <2>2. versionNo >= MaxVersions => c.body = content.body /\ c.conflict = content.conflict
      <3>1. FieldsMove(c) => versionNo < MaxVersions
        BY <2>1 DEF FileVersion
      <3> QED
        BY <1>0, <3>1 DEF FieldsMove
    <2>3. PagesKept
      BY <1>3 DEF Correct, Answered, PagesKept, TypeOK
    <2>4. /\ status \in Writable /\ status' = "geolocated" /\ content' = c
          /\ MeetsFloor(c) /\ MeetsFloor(content')
      BY <1>3 DEF Correct, Writable
    <2> QED
      BY <2>1, <2>2, <2>3, <2>4, FilesTheLiveVersion DEF Filed
  <1>4. ASSUME NEW u \in Users, PublishDetection(u)
        PROVE  Filed
    <2>1. FileVersion(TRUE) /\ content \in Contents
      BY <1>4 DEF PublishDetection, TypeOK, Live, Writable, Unpublished
    <2>2. ~(versionNo >= MaxVersions)
      BY <1>0, <2>1 DEF FileVersion
    <2>3. PagesKept
      BY <1>4 DEF PublishDetection, clients, PagesKept
    <2>4. status \in Writable /\ status' = "geolocated" /\ MeetsFloor(content')
      BY <1>4, <2>1 DEF PublishDetection, Writable, Unpublished, MeetsFloor, Contents
    <2> QED
      BY <2>1, <2>2, <2>3, <2>4, FilesTheLiveVersion DEF Filed
  <1>5. ASSUME NEW u \in Users, UpdateRequest(u)
        PROVE  Edited
    BY <1>5 DEF UpdateRequest, Edited, Answered, PagesKept, Unpublished, TypeOK
  <1>6. ASSUME NEW u \in Users, Close(u)
        PROVE  Closed
    BY <1>6 DEF Close, Closed, Answered
  <1>7. CASE UpsertOne
    BY <1>7 DEF UpsertOne, Upsertable, Edited, PagesKept, clients, Unpublished
  <1>8. ASSUME NEW v \in 0 .. VersionCap, RedactVersion(v)
        PROVE  v \in Nat /\ RedactedRow(v)
    BY <1>8 DEF RedactVersion, RedactedRow, clients, TypeOK
  <1> QED
    BY StepForms, <1>1, <1>2, <1>3, <1>4, <1>5, <1>6, <1>7, <1>8

-----------------------------------------------------------------------------
\* A row that is not there has no version filed and is on nobody's page.
LEMMA AbsentStep ==
  ASSUME IInv, [Next]_vars
  PROVE  AbsentIsBlank'
  <1> USE DEF AbsentIsBlank, Writable, Unpublished
  <1>1. TypeOK /\ AbsentIsBlank
    BY DEF IInv
  <1>2. CASE Quiet
    BY <1>1, <1>2 DEF Quiet
  <1>3. CASE ErasedRow \/ Born \/ Filed \/ Edited \/ Closed
    BY <1>3 DEF ErasedRow, Born, Filed, Edited, Closed
  <1>4. ASSUME NEW u \in Users, ReadPage(u)
        PROVE  AbsentIsBlank'
    BY <1>4 DEF ReadPage, row, Live
  <1>5. ASSUME NEW v \in Nat, RedactedRow(v)
        PROVE  AbsentIsBlank'
    BY <1>1, <1>5 DEF RedactedRow
  <1> QED
    BY <1>1, Effects, <1>2, <1>3, <1>4, <1>5

\* The numbers: a filing extends the domain by exactly the live number.
LEMMA NumberedStep ==
  ASSUME IInv, [Next]_vars
  PROVE  VersionsAreNumbered'
  <1> USE DEF VersionsAreNumbered, OpenStatus, Live, Writable, Unpublished
  <1>1. TypeOK /\ AbsentIsBlank /\ VersionsAreNumbered
    BY DEF IInv
  <1>0. versionNo \in Nat
    BY <1>1 DEF TypeOK
  <1>2. CASE Quiet
    BY <1>1, <1>2 DEF Quiet
  <1>3. CASE ErasedRow
    BY <1>3 DEF ErasedRow
  <1>4. CASE Born
    <2>1. DOMAIN history' = {}
      BY <1>1, <1>4 DEF Born, AbsentIsBlank
    <2>2. DOMAIN history' = 1 .. versionNo' - 1
      BY <1>4, <2>1 DEF Born
    <2>3. versionNo' = 0 <=> status' \in Unpublished
      BY <1>4 DEF Born
    <2> QED
      BY <1>4, <2>2, <2>3 DEF Born
  <1>5. CASE Filed
    <2>1. PICK first \in {0, 1} : DOMAIN history = first .. versionNo - 1
      BY <1>1, <1>5 DEF Filed
    <2>2. CASE versionNo = 0
      <3>1. DOMAIN history' = 0 .. versionNo' - 1
        BY <1>5, <2>1, <2>2 DEF Filed
      <3> QED
        BY <1>5, <2>2, <3>1 DEF Filed
    <2>3. CASE versionNo # 0
      <3>1. DOMAIN history' = first .. versionNo' - 1
        BY <1>0, <1>5, <2>1, <2>3 DEF Filed
      <3> QED
        BY <1>0, <1>5, <3>1 DEF Filed
    <2> QED
      BY <2>2, <2>3
  <1>6. CASE Edited
    BY <1>1, <1>6 DEF Edited
  <1>7. CASE Closed
    BY <1>1, <1>7 DEF Closed
  <1>8. ASSUME NEW u \in Users, ReadPage(u)
        PROVE  VersionsAreNumbered'
    BY <1>1, <1>8 DEF ReadPage, row
  <1>9. ASSUME NEW v \in Nat, RedactedRow(v)
        PROVE  VersionsAreNumbered'
    BY <1>1, <1>9 DEF RedactedRow
  <1> QED
    BY <1>1, Effects, <1>2, <1>3, <1>4, <1>5, <1>6, <1>7, <1>8, <1>9

\* A number a page shows is live or filed, so a filing keeps its content.
LEMMA NamesStep ==
  ASSUME IInv, [Next]_vars
  PROVE  VersionNamesContent'
  <1> USE DEF VersionNamesContent, At
  <1>1. TypeOK /\ AbsentIsBlank /\ VersionsAreNumbered /\ VersionNamesContent
    BY DEF IInv
  <1>0. versionNo \in Nat
    BY <1>1 DEF TypeOK
  <1>2. CASE Quiet
    BY <1>1, <1>2 DEF Quiet
  <1>3. CASE ErasedRow
    BY <1>3 DEF ErasedRow, Live, Writable, Unpublished
  <1>4. CASE Born
    BY <1>1, <1>4 DEF Born, AbsentIsBlank
  <1>5. CASE Filed
    <2> SUFFICES ASSUME NEW u \in Users, pages'[u] # NoPage, pages'[u].version >= 1
                 PROVE  /\ pages'[u].version \in DOMAIN history' \cup {versionNo'}
                        /\ (IF pages'[u].version = versionNo' THEN content'
                              ELSE history'[pages'[u].version]) \in {pages'[u].content, Blank}
      OBVIOUS
    <2>1. pages'[u] = pages[u]
      BY <1>5 DEF Filed, PagesKept
    <2>2. /\ pages[u].version \in DOMAIN history \cup {versionNo}
          /\ At(pages[u].version) \in {pages[u].content, Blank}
      BY <1>1, <1>5, <2>1 DEF Filed, Live
    <2>3. PICK first \in {0, 1} : DOMAIN history = first .. versionNo - 1
      BY <1>1, <1>5 DEF Filed, Live, VersionsAreNumbered
    <2>4. \A v \in DOMAIN history : v # versionNo /\ v # versionNo'
      BY <1>0, <1>5, <2>3 DEF Filed
    <2>5. pages[u].version # versionNo'
      BY <1>0, <1>5, <2>2, <2>4 DEF Filed
    <2>6. pages[u].version \in DOMAIN history' \cup {versionNo'}
      BY <1>5, <2>2 DEF Filed
    <2>7. history'[pages[u].version] \in {pages[u].content, Blank}
      BY <1>5, <2>2, <2>4 DEF Filed
    <2> QED
      BY <2>1, <2>5, <2>6, <2>7
  <1>6. CASE Edited
    \* A draft is version 0: no page shows a version from 1 on.
    <2>1. versionNo = 0
      BY <1>1, <1>6 DEF Edited, VersionsAreNumbered, OpenStatus, Live, Writable, Unpublished
    <2>2. PICK first \in {0, 1} : DOMAIN history = first .. versionNo - 1
      BY <1>1, <1>6 DEF Edited, Live, Writable, VersionsAreNumbered
    <2>3. \A v \in DOMAIN history \cup {versionNo} : ~(v >= 1)
      BY <2>1, <2>2
    <2> QED
      BY <1>1, <1>6, <2>3 DEF Edited, PagesKept, Live, Writable
  <1>7. CASE Closed
    BY <1>1, <1>7 DEF Closed, Live
  <1>8. ASSUME NEW u \in Users, ReadPage(u)
        PROVE  VersionNamesContent'
    <2>1. /\ pages'[u] = [version |-> versionNo, content |-> content]
          /\ \A w \in Users : w # u => pages'[w] = pages[w]
      BY <1>1, <1>8 DEF ReadPage, TypeOK
    <2> QED
      BY <1>1, <1>8, <2>1 DEF ReadPage, row
  <1>9. ASSUME NEW v \in Nat, RedactedRow(v)
        PROVE  VersionNamesContent'
    BY <1>1, <1>9 DEF RedactedRow
  <1> QED
    BY <1>1, Effects, <1>2, <1>3, <1>4, <1>5, <1>6, <1>7, <1>8, <1>9

\* The floor is checked on every content that is published, and a draft files at 0.
LEMMA FloorStep ==
  ASSUME IInv, [Next]_vars
  PROVE  PublishedMeetsFloor'
  <1> USE DEF PublishedMeetsFloor, At, OpenStatus, Live, Writable, Unpublished
  <1>1. TypeOK /\ AbsentIsBlank /\ VersionsAreNumbered /\ PublishedMeetsFloor
    BY DEF IInv
  <1>0. versionNo \in Nat
    BY <1>1 DEF TypeOK
  <1>2. CASE Quiet
    BY <1>1, <1>2 DEF Quiet, MeetsFloor
  <1>3. CASE ErasedRow
    BY <1>3 DEF ErasedRow
  <1>4. CASE Born
    BY <1>1, <1>4 DEF Born, AbsentIsBlank, MeetsFloor
  <1>5. CASE Filed
    <2>1. status' = "geolocated" /\ MeetsFloor(content')
      BY <1>5 DEF Filed
    <2>2. ASSUME NEW v \in DOMAIN history', v >= 1, history'[v] # Blank
          PROVE  MeetsFloor(history'[v])
      <3>1. CASE v = versionNo
        BY <1>1, <1>5, <2>2, <3>1 DEF Filed
      <3>2. CASE v # versionNo
        BY <1>1, <1>5, <2>2, <3>2 DEF Filed
      <3> QED
        BY <3>1, <3>2
    <2> QED
      BY <2>1, <2>2 DEF MeetsFloor
  <1>6. CASE Edited
    <2>1. versionNo = 0
      BY <1>1, <1>6 DEF Edited, VersionsAreNumbered
    <2>2. \E first \in {0, 1} : DOMAIN history = first .. versionNo - 1
      BY <1>1, <1>6 DEF Edited, VersionsAreNumbered
    <2>3. \A v \in DOMAIN history \cup {versionNo} : ~(v >= 1)
      BY <2>1, <2>2
    <2> QED
      BY <1>6, <2>3 DEF Edited
  <1>7. CASE Closed
    BY <1>1, <1>7 DEF Closed, MeetsFloor
  <1>8. ASSUME NEW u \in Users, ReadPage(u)
        PROVE  PublishedMeetsFloor'
    BY <1>1, <1>8 DEF ReadPage, row, MeetsFloor
  <1>9. ASSUME NEW v \in Nat, RedactedRow(v)
        PROVE  PublishedMeetsFloor'
    BY <1>1, <1>9 DEF RedactedRow, MeetsFloor
  <1> QED
    BY <1>1, Effects, <1>2, <1>3, <1>4, <1>5, <1>6, <1>7, <1>8, <1>9

\* From the ceiling on a filing moves copies alone, so it says what the filed ones say.
LEMMA CeilingStep ==
  ASSUME IInv, [Next]_vars
  PROVE  CeilingHolds'
  <1> USE DEF CeilingHolds, FieldsMove
  <1>1. TypeOK /\ AbsentIsBlank /\ VersionsAreNumbered /\ CeilingHolds
    BY DEF IInv
  <1>0. versionNo \in Nat
    BY <1>1 DEF TypeOK
  <1>2. CASE Quiet
    BY <1>1, <1>2 DEF Quiet
  <1>3. CASE ErasedRow
    BY <1>3 DEF ErasedRow
  <1>4. CASE Born
    BY <1>1, <1>4 DEF Born, AbsentIsBlank
  <1>5. CASE Filed
    <2> SUFFICES ASSUME NEW v \in DOMAIN history', v >= MaxVersions, history'[v] # Blank
                 PROVE  /\ history'[v].body = content'.body
                        /\ history'[v].conflict = content'.conflict
      OBVIOUS
    <2>1. PICK first \in {0, 1} : DOMAIN history = first .. versionNo - 1
      BY <1>1, <1>5 DEF Filed, Live, VersionsAreNumbered
    <2>2. v <= versionNo /\ v \in Int
      BY <1>0, <1>5, <2>1 DEF Filed
    <2>3. versionNo >= MaxVersions
      BY <1>0, <2>2, Ceiling
    <2>4. content'.body = content.body /\ content'.conflict = content.conflict
      BY <1>5, <2>3 DEF Filed
    <2>5. CASE v = versionNo
      BY <1>5, <2>4, <2>5 DEF Filed
    <2>6. CASE v # versionNo
      BY <1>1, <1>5, <2>4, <2>6 DEF Filed, Live
    <2> QED
      BY <2>5, <2>6
  <1>6. CASE Edited
    \* A draft has filed nothing.
    <2>1. versionNo = 0
      BY <1>1, <1>6 DEF Edited, VersionsAreNumbered, OpenStatus, Live, Writable, Unpublished
    <2>2. PICK first \in {0, 1} : DOMAIN history = first .. versionNo - 1
      BY <1>1, <1>6 DEF Edited, Live, Writable, VersionsAreNumbered
    <2>3. DOMAIN history = {}
      BY <2>1, <2>2
    <2> QED
      BY <1>6, <2>3 DEF Edited
  <1>7. CASE Closed
    BY <1>1, <1>7 DEF Closed, Live
  <1>8. ASSUME NEW u \in Users, ReadPage(u)
        PROVE  CeilingHolds'
    BY <1>1, <1>8 DEF ReadPage, row
  <1>9. ASSUME NEW v \in Nat, RedactedRow(v)
        PROVE  CeilingHolds'
    BY <1>1, <1>9 DEF RedactedRow
  <1> QED
    BY <1>1, Effects, <1>2, <1>3, <1>4, <1>5, <1>6, <1>7, <1>8, <1>9

-----------------------------------------------------------------------------
LEMMA Inductive == IInv /\ [Next]_vars => IInv'
  BY TypeStep, AbsentStep, NumberedStep, NamesStep, FloorStep, CeilingStep DEF IInv

LEMMA Invariance == Spec => []IInv
  BY InitIInv, Inductive, PTL DEF Spec

\* ck_events_version_published holds and no history has a hole, in every reachable state.
THEOREM VersionsCorrect == Spec => []VersionsAreNumbered
  BY Invariance, PTL DEF IInv

\* A published number names one content for good, whoever read it and when.
THEOREM NamesCorrect == Spec => []VersionNamesContent
  BY Invariance, PTL DEF IInv

\* Nothing is ever served as published below the publication floor.
THEOREM FloorCorrect == Spec => []PublishedMeetsFloor
  BY Invariance, PTL DEF IInv

\* Past MAX_VERSIONS_PER_EVENT nothing but archived copies moves.
THEOREM CeilingCorrect == Spec => []CeilingHolds
  BY Invariance, PTL DEF IInv

-----------------------------------------------------------------------------
\* A save that posts the version its form was loaded at files, as that version, exactly what
\* the form showed: the page names the live version, and a version names one content.
THEOREM SavesCorrect == Spec => SaveSupersedesWhatItsAuthorRead
  <1> DEFINE NoLostUpdate ==
        \A u \in Users :
          (pages[u] # NoPage /\ pages'[u] = NoPage /\ versionNo >= 1 /\ versionNo' # versionNo)
              => history'[versionNo] = pages[u].content
  <1>1. ASSUME IInv, [Next]_vars
        PROVE  NoLostUpdate
    <2> SUFFICES ASSUME NEW u \in Users, pages[u] # NoPage, pages'[u] = NoPage,
                        versionNo >= 1, versionNo' # versionNo
                 PROVE  history'[versionNo] = pages[u].content
      OBVIOUS
    <2>0. TypeOK /\ VersionNamesContent
      BY <1>1 DEF IInv
    <2>1. \/ \E w \in Users, c \in Contents : \E expected \in Expected(w) :
                Publish(w, c, expected) \/ Correct(w, c, expected)
      <3>1. ~Quiet
        BY DEF Quiet
      <3>2. ~ErasedRow
        BY DEF ErasedRow
      <3>3. ~\E w \in Users, c \in Contents, st \in Writable : Insert(w, st, c)
        BY DEF Insert, clients
      <3>4. ~\E w \in Users : ReadPage(w) \/ UpdateRequest(w) \/ PublishDetection(w) \/ Close(w)
        BY DEF ReadPage, UpdateRequest, PublishDetection, Close, row, clients
      <3>5. ~UpsertOne /\ ~\E v \in 0 .. VersionCap : RedactVersion(v)
        BY DEF UpsertOne, RedactVersion
      <3> QED
        BY <1>1, StepForms, <3>1, <3>2, <3>3, <3>4, <3>5
    <2>2. PICK w \in Users, c \in Contents : \E expected \in Expected(w) :
                Publish(w, c, expected) \/ Correct(w, c, expected)
      BY <2>1
    <2>3. PICK expected \in Expected(w) : Publish(w, c, expected) \/ Correct(w, c, expected)
      BY <2>2
    <2>4. w = u /\ expected # NoVersion
      BY <2>0, <2>3 DEF Publish, Correct, Answered, TypeOK
    <2>5. expected = versionNo /\ expected = pages[u].version
      BY <2>3, <2>4 DEF Publish, Correct, VersionHolds, Expected
    <2>6. content \in Contents /\ status \in Live
      BY <2>0, <2>3 DEF Publish, Correct, TypeOK, Live, Writable
    <2>7. content = pages[u].content
      BY <2>0, <2>5, <2>6, NoneIsNoContent DEF VersionNamesContent, At
    <2>8. \E e \in BOOLEAN : FileVersion(e)
      BY <2>3 DEF Publish, Correct, FieldsMove
    <2> QED
      BY <2>0, <2>6, <2>7, <2>8, FilesTheLiveVersion
  <1>2. IInv /\ [Next]_vars => [NoLostUpdate]_vars
    BY <1>1
  <1> QED
    BY <1>2, Invariance, PTL DEF Spec, SaveSupersedesWhatItsAuthorRead

-----------------------------------------------------------------------------
\* The row implements the citable record: what each form of a step is to a reader.
LEMMA ReaderSeesNothing ==
  ASSUME UNCHANGED <<status, versionNo>>,
         \A v \in 1 .. Latest : At(v)' = At(v)
  PROVE  UNCHANGED <<Phase, Latest, Record>>
  <1>1. Latest' = Latest /\ Phase' = Phase
    BY DEF Latest, Phase
  <1> QED
    BY <1>1 DEF Record

\* Every step is one the abstract record allows, or none it sees.
LEMMA StepIsPromised ==
  ASSUME IInv, [Next]_vars
  PROVE  Promise!Next \/ UNCHANGED <<Phase, Latest, Record>>
  <1>1. TypeOK /\ AbsentIsBlank /\ VersionsAreNumbered
    BY DEF IInv
  <1>0. versionNo \in Nat /\ (status \in Live => content \in Contents)
    BY <1>1 DEF TypeOK
  <1>a. IInv' /\ TypeOK'
    BY Inductive DEF IInv
  <1>b. versionNo' \in Nat /\ (status' \in Live => content' \in Contents)
    BY <1>a DEF TypeOK
  <1>2. CASE Quiet
    BY <1>2 DEF Quiet, Phase, Latest, Record, At
  <1>3. CASE ErasedRow
    <2>1. Phase \notin {"none", "gone"} /\ Phase' = "gone"
      BY <1>3 DEF ErasedRow, Phase, Live, Writable, Unpublished
    <2>2. Latest' = 0
      BY <1>3 DEF ErasedRow, Latest, Live, Writable, Unpublished
    <2>3. Record' = [v \in {} |-> Blank]
      <3>1. 1 .. Latest' = {}
        BY <2>2
      <3> QED
        BY <3>1 DEF Record
    <2>4. Promise!Erase
      BY <2>1, <2>2, <2>3 DEF Promise!Erase
    <2> QED
      BY <2>4 DEF Promise!Next
  <1>4. CASE Born
    <2>1. Phase = "none" /\ Latest = 0
      BY <1>4 DEF Born, Phase, Latest, Live, Writable, Unpublished
    <2>2. CASE status' \in Unpublished
      <3>1. Phase' = "draft" /\ Latest' = 0
        BY <1>4, <2>2 DEF Born, Phase, Latest, Live, Writable, Unpublished
      <3>2. Record' = Record
        <4>1. 1 .. Latest = {} /\ 1 .. Latest' = {}
          BY <2>1, <3>1
        <4> QED
          BY <4>1 DEF Record
      <3> QED
        BY <2>1, <3>1, <3>2 DEF Promise!Next, Promise!Draft
    <2>3. CASE status' = "geolocated"
      <3>1. Phase' = "public" /\ versionNo' = 1 /\ Latest' = Latest + 1 /\ content' \in Contents
        BY <1>4, <1>b, <2>1, <2>3 DEF Born, Phase, Latest, Live, Writable, Unpublished
      <3>2. Record' = [v \in 1 .. Latest + 1 |->
                          IF v = Latest + 1 THEN content' ELSE Record[v]]
        BY <2>1, <3>1 DEF Record, At
      <3> QED
        BY <2>1, <3>1, <3>2 DEF Promise!Next, Promise!Publish, Promise!Append
    <2> QED
      BY <1>4, <2>2, <2>3 DEF Born, Writable, Unpublished
  <1>5. CASE Filed
    <2>1. PICK first \in {0, 1} : DOMAIN history = first .. versionNo - 1
      BY <1>1, <1>5 DEF Filed, Live, VersionsAreNumbered
    <2>2. Latest = versionNo /\ Latest' = Latest + 1 /\ versionNo' = Latest + 1
      BY <1>5 DEF Filed, Latest, Live, Writable, Unpublished
    <2>3. \A v \in 1 .. versionNo : v # versionNo => v \in DOMAIN history
      BY <1>0, <2>1
    <2>4. \A v \in 1 .. Latest : At(v)' = Record[v]
      <3>1. SUFFICES ASSUME NEW v \in 1 .. Latest
                     PROVE  At(v)' = Record[v]
        OBVIOUS
      <3>2. v # versionNo'
        BY <1>0, <2>2
      <3>3. history'[v] = Record[v]
        BY <1>5, <2>2, <2>3 DEF Filed, Record, At
      <3> QED
        BY <3>2, <3>3 DEF At
    <2>5. Record' = [v \in 1 .. Latest + 1 |-> IF v = Latest + 1 THEN content' ELSE Record[v]]
      <3>1. \A v \in 1 .. Latest + 1 : v # Latest + 1 => v \in 1 .. Latest
        BY <1>0, <2>2
      <3>2. \A v \in 1 .. Latest + 1 :
               At(v)' = IF v = Latest + 1 THEN content' ELSE Record[v]
        BY <2>2, <2>4, <3>1 DEF At
      <3> QED
        BY <2>2, <3>2 DEF Record
    <2>6. content' \in Contents /\ Phase' = "public"
      BY <1>5, <1>b DEF Filed, Phase, Live, Writable, Unpublished
    <2>7. CASE status = "geolocated"
      <3>1. Phase = "public"
        BY <2>7 DEF Phase, Unpublished
      <3> QED
        BY <2>2, <2>5, <2>6, <3>1 DEF Promise!Next, Promise!Revise, Promise!Append
    <2>8. CASE status \in Unpublished
      <3>1. Phase = "draft"
        BY <2>8 DEF Phase, Unpublished
      <3> QED
        BY <2>2, <2>5, <2>6, <3>1 DEF Promise!Next, Promise!Publish, Promise!Append
    <2> QED
      BY <1>5, <2>7, <2>8 DEF Filed, Writable
  <1>6. CASE Edited
    <2>1. versionNo = 0
      BY <1>1, <1>6 DEF Edited, VersionsAreNumbered, OpenStatus, Live, Writable, Unpublished
    <2>2. 1 .. Latest = {}
      BY <2>1 DEF Latest
    <2> QED
      BY <1>6, <2>2, ReaderSeesNothing DEF Edited
  <1>7. CASE Closed
    <2>1. Latest' = Latest /\ Record' = Record
      BY <1>7 DEF Closed, Latest, Record, At, Live
    <2>2. CASE status = "geolocated"
      <3>1. versionNo # 0
        BY <1>1, <2>2 DEF VersionsAreNumbered, OpenStatus, Live, Writable, Unpublished
      <3>2. Phase = "public" /\ Phase' = "retracted"
        BY <1>7, <2>2, <3>1 DEF Closed, Phase, Unpublished
      <3> QED
        BY <2>1, <3>2 DEF Promise!Next, Promise!Withdraw
    <2>3. CASE status \in Unpublished
      <3>1. versionNo = 0
        BY <1>1, <2>3 DEF VersionsAreNumbered, OpenStatus, Live, Writable, Unpublished
      <3>2. Phase = "draft" /\ Phase' = "rejected"
        BY <1>7, <2>3, <3>1 DEF Closed, Phase, Unpublished
      <3> QED
        BY <2>1, <3>2 DEF Promise!Next, Promise!Withdraw
    <2> QED
      BY <1>7, <2>2, <2>3 DEF Closed, Writable
  <1>8. ASSUME NEW u \in Users, ReadPage(u)
        PROVE  UNCHANGED <<Phase, Latest, Record>>
    BY <1>8 DEF ReadPage, row, Phase, Latest, Record, At
  <1>9. ASSUME NEW v \in Nat, RedactedRow(v)
        PROVE  Promise!Next \/ UNCHANGED <<Phase, Latest, Record>>
    <2>1. PICK first \in {0, 1} : DOMAIN history = first .. versionNo - 1
      BY <1>1, <1>9 DEF RedactedRow, VersionsAreNumbered
    <2>2. v < versionNo
      BY <1>0, <1>9, <2>1 DEF RedactedRow
    <2>3. Latest = versionNo /\ Latest' = Latest /\ Phase' = Phase
      BY <1>9 DEF RedactedRow, Latest, Phase
    <2>4. \A w \in 1 .. Latest : w # v => At(w)' = At(w)
      <3>1. \A w \in 1 .. Latest : w # versionNo => w \in DOMAIN history
        BY <1>0, <2>1, <2>3
      <3> QED
        BY <1>9, <3>1 DEF RedactedRow, At
    <2>5. CASE v = 0
      BY <1>9, <2>3, <2>4, <2>5, ReaderSeesNothing DEF RedactedRow
    <2>6. CASE v # 0
      <3>1. v \in 1 .. Latest
        BY <1>0, <2>2, <2>3, <2>6
      <3>2. At(v)' = Blank
        BY <1>0, <1>9, <2>2 DEF RedactedRow, At
      <3>3. Record' = [Record EXCEPT ![v] = Blank]
        BY <2>3, <2>4, <3>1, <3>2 DEF Record
      <3>4. Phase \in {"public", "retracted"}
        <4>1. versionNo # 0
          BY <1>0, <2>2
        <4> QED
          BY <1>1, <1>9, <4>1 DEF RedactedRow, VersionsAreNumbered, OpenStatus, Phase, Live,
                                  Writable, Unpublished
      <3> QED
        BY <2>2, <2>3, <3>1, <3>3, <3>4 DEF Promise!Next, Promise!Redact
    <2> QED
      BY <2>5, <2>6
  <1> QED
    BY <1>1, Effects, <1>2, <1>3, <1>4, <1>5, <1>6, <1>7, <1>8, <1>9

\* An event is a citable record: the row, its filed versions and every handler that writes
\* them keep what the address /vN promises.
THEOREM EventIsCitable == Spec => IsCitable
  <1>1. Init => Promise!Init
    <2> SUFFICES ASSUME Init
                 PROVE  Promise!Init
      OBVIOUS
    <2>1. Phase = "none" /\ Latest = 0
      BY DEF Init, Phase, Latest, Live, Writable, Unpublished
    <2>2. 1 .. Latest = {}
      BY <2>1
    <2> QED
      BY <2>1, <2>2 DEF Promise!Init, Record
  <1>2. IInv /\ [Next]_vars => [Promise!Next]_(Promise!recordVars)
    BY StepIsPromised DEF Promise!recordVars
  <1> QED
    BY <1>1, <1>2, Invariance, PTL DEF Spec, IsCitable, Promise!Spec

-----------------------------------------------------------------------------
\* What a row still says of the work it was written for, unless something marked it.
Provenanced(record, marks) ==
    record.work # NoWork =>
        /\ "relinked" \notin marks => record.work.links \subseteq Readable(record)
        /\ "moved" \notin marks => record.at = record.work.at
        /\ "handed over" \notin marks => record.owner = record.by
        /\ "deleted" \notin marks => record.deleted = "no"

RowsProvenanced == \A r \in Present : Provenanced(rows[r], fate[r])

\* Nobody reviewed it: the rows that an import may still write.
Unreviewed(record) == record.status = "detected" /\ ~record.saved

\* An overwrite waits for a row at the place of its work, unless a person took the row.
OverwritesMatch ==
    \A m \in Importers : import[m].step = "upsert" =>
        LET r == import[m].row
        IN /\ r \in Written
           /\ r \in Present /\ Unreviewed(rows[r]) => rows[r].at = import[m].work.at

\* An import that found nothing has missed only rows that landed since.
NothingMissed ==
    \A m \in Importers : import[m].step = "create" =>
        \A r \in Present : Holds(r, import[m].owner, import[m].work) => r \in import[m].since

\* Rows are numbered as they land.
InOrder == \A r, s \in Row : r < s /\ s \in Written => r \in Written

ImportInv ==
    /\ ImportTypeOK /\ RowsProvenanced /\ OverwritesMatch /\ NothingMissed /\ InOrder
    /\ DoublesAreRaces

\* The bounds are numbers, and a work is at a place or nowhere and declares its source.
LEMMA ImportConstants ==
  /\ MaxRow \in Nat /\ MaxEdits \in Nat /\ Linked \subseteq Owners
  /\ Nowhere \notin Coordinates /\ NoLink \notin Links /\ NoWork \notin Works
  /\ \A work \in Works :
        /\ work.post \in work.thread
        /\ work.at \in Coordinates \cup {Nowhere}
        /\ work.source \in work.links \cup {NoLink} /\ work.links \subseteq Links
  BY ImportAssumption

\* A row is present exactly when it has a record.
LEMMA PresentRow ==
  ASSUME ImportTypeOK, NEW r \in Row
  PROVE  /\ r \in Present <=> rows[r] \in Recorded
         /\ r \in Written <=> rows[r] # NotWritten
  <1>1. rows[r] \in Recorded \cup {NotWritten, Erased}
    BY DEF ImportTypeOK
  <1>2. NotWritten.status = "none" /\ Erased.status = "erased"
    BY DEF NotWritten, Erased
  <1>3. \A record \in Recorded : record.status # "none" /\ record.status # "erased"
    BY DEF Recorded
  <1> QED
    BY <1>1, <1>2, <1>3 DEF Present, Written

\* An import at work creates or overwrites.
LEMMA ImportAtWork ==
  ASSUME ImportTypeOK, NEW m \in Importers
  PROVE  /\ import[m].step = "create" => import[m] \in Creations
         /\ import[m].step = "upsert" => import[m] \in Overwrites
         /\ import[m] # NoImport => import[m].step \in {"create", "upsert"}
  <1>1. import[m] \in Creations \cup Overwrites \cup {NoImport}
    BY DEF ImportTypeOK
  <1>2. NoImport.step = "idle"
    BY DEF NoImport
  <1> QED
    BY <1>1, <1>2 DEF Creations, Overwrites

\* What a step may make of a record that is present, and of the marks it leaves.
Revises(record, marks, r) ==
    /\ fate[r] \subseteq marks /\ marks \subseteq Fates
    /\ \/ record = Erased
       \/ /\ record \in Recorded /\ Provenanced(record, marks)
          /\ record.work = rows[r].work /\ record.by = rows[r].by
          /\ Unreviewed(record) => Unreviewed(rows[r]) /\ record.at = rows[r].at

\* A row rewritten in place loses nothing of its work that its marks do not tell: no second row
\* is excused that was not before.
LEMMA InPlace ==
  ASSUME ImportInv, NEW r \in Present, NEW record, NEW marks, Revises(record, marks, r),
         rows' = [rows EXCEPT ![r] = record], fate' = [fate EXCEPT ![r] = marks],
         raced' = raced, edits' \in 0 .. MaxEdits,
         import' \in [Importers -> Creations \cup Overwrites \cup {NoImport}],
         \A m \in Importers : import'[m] = import[m] \/ import'[m] = NoImport
  PROVE  ImportInv'
  <1> r \in Row
    BY DEF Present, Written
  <1>1. /\ rows'[r] = record /\ fate'[r] = marks
        /\ \A s \in Row : s # r => rows'[s] = rows[s] /\ fate'[s] = fate[s]
    BY DEF ImportInv, ImportTypeOK
  <1>2. ImportTypeOK'
    BY DEF ImportInv, ImportTypeOK, Revises
  <1>3. NoImport.step = "idle"
    BY DEF NoImport
  <1>4. \A s \in Row : s \in Present' =>
           /\ s \in Present /\ rows'[s].work = rows[s].work /\ rows'[s].by = rows[s].by
           /\ fate[s] \subseteq fate'[s] /\ Provenanced(rows'[s], fate'[s])
           /\ Unreviewed(rows'[s]) => Unreviewed(rows[s]) /\ rows'[s].at = rows[s].at
    <2>1. ASSUME NEW s \in Row, s \in Present', s # r
          PROVE  s \in Present
      BY <1>1, <2>1 DEF Present, Written
    <2>2. \A s \in Row : s \in Present /\ s # r => Provenanced(rows'[s], fate'[s])
      BY <1>1 DEF ImportInv, RowsProvenanced
    <2>3. r \in Present' => record # Erased
      BY <1>1 DEF Present, Erased
    <2> QED
      BY <1>1, <2>1, <2>2, <2>3 DEF Revises
  <1>5. RowsProvenanced'
    BY <1>4 DEF RowsProvenanced, Present, Written
  <1>7. \A s \in Row : \A u, work : s \in Present' /\ Holds(s, u, work)' => Holds(s, u, work)
    <2> TAKE s \in Row
    <2> TAKE u, work
    <2> HAVE s \in Present' /\ Holds(s, u, work)'
    <2>1. /\ rows'[s].work = rows[s].work /\ rows'[s].by = rows[s].by
          /\ fate[s] \subseteq fate'[s]
      BY <1>4
    <2>2. SameThing(work, s)
      BY <2>1 DEF Holds, SameThing
    <2> QED
      BY <2>1, <2>2 DEF Holds
  <1>8. NothingMissed'
    BY <1>3, <1>4, <1>7 DEF ImportInv, NothingMissed, Present, Written
  <1>9. \A s \in Row : s \in Written' <=> s \in Written
    <2>1. rows[r].status # "none"
      BY DEF Present, Written
    <2>2. record.status # "none"
      BY DEF Revises, Recorded, Erased
    <2> QED
      BY <1>1, <2>1, <2>2 DEF Written
  <1>6. OverwritesMatch'
    <2>1. ASSUME NEW m \in Importers, import'[m].step = "upsert"
          PROVE  import'[m] = import[m] /\ import[m].row \in Row
      BY <1>3, <2>1, ImportAtWork DEF Overwrites, ImportInv
    <2> QED
      BY <1>4, <1>9, <2>1 DEF ImportInv, OverwritesMatch
  <1>10. InOrder'
    BY <1>9 DEF ImportInv, InOrder
  <1>11. DoublesAreRaces'
    <2>1. ASSUME NEW q \in Row, NEW s \in Row, q \in Present', s \in Present', q < s,
                 rows'[s].work # NoWork, Holds(q, rows[s].by, rows[s].work)'
          PROVE  q \in raced'[s]
      <3>1. q \in Present /\ s \in Present /\ rows'[s].by = rows[s].by
            /\ rows'[s].work = rows[s].work
        BY <1>4, <2>1
      <3>2. Holds(q, rows[s].by, rows[s].work)
        <4>1. PICK u, work : u = rows[s].by /\ work = rows[s].work
          OBVIOUS
        <4>2. Holds(q, u, work)'
          BY <2>1, <3>1, <4>1 DEF Holds, SameThing
        <4> QED
          BY <1>7, <2>1, <4>1, <4>2
      <3> QED
        BY <2>1, <3>1, <3>2 DEF ImportInv, DoublesAreRaces
    <2> QED
      BY <2>1 DEF DoublesAreRaces, Present, Written
  <1> QED
    BY <1>2, <1>5, <1>6, <1>8, <1>10, <1>11 DEF ImportInv

\* A row that lands: whoever is at work learns that it did, and its own import had seen all the
\* others that hold its work.
LEMMA RowLands ==
  ASSUME ImportInv, NEW r \in Row, NEW record \in Recorded, NEW since \in SUBSET Row,
         Land(r, record, since), Provenanced(record, {}),
         record.work # NoWork =>
            \A q \in Present : Holds(q, record.by, record.work) => q \in since,
         fate' = fate, edits' \in 0 .. MaxEdits,
         \A m \in Importers : import'[m] = NoImport \/ import'[m] = Told(m, r),
         DOMAIN import' = Importers, import' = [m \in Importers |-> import'[m]]
  PROVE  ImportInv'
  <1>1. /\ rows'[r] = record /\ raced'[r] = since
        /\ \A s \in Row : s # r => rows'[s] = rows[s] /\ raced'[s] = raced[s]
    BY DEF Land, ImportInv, ImportTypeOK
  <1>2. /\ rows[r].status = "none" /\ record.status # "none" /\ record.status # "erased"
        /\ \A s \in Row : s < r => s \in Written
    BY ImportConstants DEF Land, NotWritten, Recorded, Row
  <1>3. \A s \in Row : r < s => s \notin Written
    BY <1>2 DEF ImportInv, InOrder, Written
  <1>4. \A s \in Row : /\ s \in Written' <=> s = r \/ s \in Written
                       /\ s \in Present' <=> s = r \/ s \in Present
    BY <1>1, <1>2 DEF Written, Present
  <1>5. NoImport.step = "idle"
    BY DEF NoImport
  <1>6. \A m \in Importers :
           /\ import'[m] \in Creations \cup Overwrites \cup {NoImport}
           /\ import'[m].step = "create" =>
                 /\ import[m].step = "create" /\ import'[m].owner = import[m].owner
                 /\ import'[m].work = import[m].work
                 /\ import'[m].since = import[m].since \cup {r}
           /\ import'[m].step = "upsert" => import[m].step = "upsert" /\ import'[m] = import[m]
    <2>1. ASSUME NEW m \in Importers, import[m].step = "create"
          PROVE  /\ Told(m, r) \in Creations /\ Told(m, r).step = "create"
                 /\ Told(m, r).owner = import[m].owner /\ Told(m, r).work = import[m].work
                 /\ Told(m, r).since = import[m].since \cup {r}
      <3>1. import[m] \in Creations /\ Told(m, r) = [import[m] EXCEPT !.since = @ \cup {r}]
        BY <2>1, ImportAtWork DEF Told, ImportInv
      <3> QED
        BY <3>1 DEF Creations
    <2>2. ASSUME NEW m \in Importers, import[m].step # "create"
          PROVE  /\ Told(m, r) = import[m]
                 /\ import[m] \in Creations \cup Overwrites \cup {NoImport}
      BY <2>2 DEF Told, ImportInv, ImportTypeOK
    <2> QED
      BY <1>5, <2>1, <2>2
  <1>7. ImportTypeOK'
    <2>1. import' \in [Importers -> Creations \cup Overwrites \cup {NoImport}]
      BY <1>6
    <2> QED
      BY <2>1 DEF Land, ImportInv, ImportTypeOK
  <1>8. RowsProvenanced'
    <2>1. Provenanced(record, fate[r])
      BY DEF Provenanced
    <2>2. \A s \in Row : s \in Present' => Provenanced(rows'[s], fate'[s])
      BY <1>1, <1>4, <2>1 DEF ImportInv, RowsProvenanced
    <2> QED
      BY <2>2 DEF RowsProvenanced, Present, Written
  <1>9. OverwritesMatch'
    <2>1. ASSUME NEW m \in Importers, import'[m].step = "upsert"
          PROVE  /\ import'[m] = import[m] /\ import[m].row \in Row /\ import[m].row \in Written
                 /\ import[m].row # r
      BY <1>2, <1>6, <2>1, ImportAtWork DEF Overwrites, ImportInv, OverwritesMatch, Written
    <2> QED
      BY <1>1, <1>4, <1>6, <2>1 DEF ImportInv, OverwritesMatch
  <1>10. \A s \in Row : \A u, work : s # r /\ Holds(s, u, work)' => Holds(s, u, work)
    BY <1>1 DEF Holds, SameThing
  <1>11. NothingMissed'
    BY <1>4, <1>6, <1>10 DEF ImportInv, NothingMissed, Present, Written
  <1>12. InOrder'
    BY <1>2, <1>3, <1>4 DEF InOrder, ImportInv
  <1>13. DoublesAreRaces'
    <2>1. ASSUME NEW q \in Row, NEW s \in Row, q \in Present', s \in Present', q < s,
                 rows'[s].work # NoWork, Holds(q, rows[s].by, rows[s].work)'
          PROVE  q \in raced'[s]
      <3>1. q # r
        BY <1>3, <1>4, <2>1, ImportConstants DEF Present, Row
      <3>2. PICK u, work : u = rows'[s].by /\ work = rows'[s].work
        OBVIOUS
      <3>3. Holds(q, u, work)'
        BY <2>1, <3>2 DEF Holds, SameThing
      <3>4. q \in Present /\ Holds(q, u, work)
        BY <1>4, <1>10, <2>1, <3>1, <3>3
      <3> QED
        BY <1>1, <1>4, <2>1, <3>2, <3>4 DEF ImportInv, DoublesAreRaces
    <2> QED
      BY <2>1 DEF DoublesAreRaces, Present, Written
  <1> QED
    BY <1>7, <1>8, <1>9, <1>11, <1>12, <1>13 DEF ImportInv

-----------------------------------------------------------------------------
\* A decision to create has looked at every row that holds the work.
LEMMA FoundNone ==
  ASSUME ImportInv, NEW u, NEW work \in Works, Matches(u, work) = {}
  PROVE  \A r \in Present : ~Holds(r, u, work)
  <1>1. ASSUME NEW r \in Present, Holds(r, u, work)
        PROVE  FALSE
    <2>1. Provenanced(rows[r], fate[r]) /\ rows[r].work # NoWork /\ rows[r].by = u
      BY <1>1 DEF ImportInv, RowsProvenanced, Holds
    <2>2. rows[r].owner = u
      BY <1>1, <2>1 DEF Provenanced, Holds
    <2>3. Recognises(work, rows[r])
      BY <1>1, <2>1 DEF Provenanced, Holds, SameThing, Recognises, SharesPost
    <2>4. IF work.at = Nowhere THEN rows[r].deleted = "no" ELSE rows[r].at = work.at
      BY <1>1, <2>1 DEF Provenanced, Holds
    <2> QED
      BY <2>2, <2>3, <2>4 DEF Matches
  <1> QED
    BY <1>1

\* Decisions, and imports that end without a row.
LEMMA DecideStep ==
  ASSUME ImportInv, NEW m \in Importers, NEW u \in Linked, NEW work \in Works,
         Decide(m, u, work)
  PROVE  ImportInv'
  <1>1. UNCHANGED <<rows, raced, fate, edits>> /\ u \in Owners
    BY ImportConstants DEF Decide
  <1>2. PICK decision :
           /\ import' = [import EXCEPT ![m] = decision]
           /\ \/ /\ Matches(u, work) = {}
                 /\ decision = [step |-> "create", owner |-> u, work |-> work, since |-> {}]
              \/ \E r \in Matches(u, work) :
                    /\ work.at # Nowhere
                    /\ decision = [step |-> "upsert", row |-> r, work |-> work]
    BY DEF Decide
  <1>3. /\ import'[m] = decision
        /\ \A n \in Importers : n # m => import'[n] = import[n]
    BY <1>2 DEF ImportInv, ImportTypeOK
  <1>4. decision \in Creations \cup Overwrites
    <2>1. Matches(u, work) \subseteq Row
      BY DEF Matches, Present, Written
    <2> QED
      BY <1>1, <1>2, <2>1 DEF Creations, Overwrites
  <1>5. ImportTypeOK'
    BY <1>1, <1>2, <1>4 DEF ImportInv, ImportTypeOK
  <1>6. /\ Present' = Present /\ Written' = Written
        /\ RowsProvenanced' /\ InOrder' /\ DoublesAreRaces'
    BY <1>1 DEF ImportInv, Present, Written, RowsProvenanced, InOrder, DoublesAreRaces, Holds,
       SameThing
  <1>7. OverwritesMatch'
    <2>1. decision.step = "upsert" =>
             /\ decision.row \in Written
             /\ rows[decision.row].at = decision.work.at
      BY <1>2 DEF Matches, Present
    <2> QED
      BY <1>1, <1>3, <1>6, <2>1 DEF ImportInv, OverwritesMatch
  <1>8. NothingMissed'
    <2>1. decision.step = "create" =>
             \A r \in Present : ~Holds(r, decision.owner, decision.work)
      BY <1>2, FoundNone
    <2>2. \A r, v, w : Holds(r, v, w)' <=> Holds(r, v, w)
      BY <1>1 DEF Holds, SameThing
    <2> QED
      BY <1>3, <1>6, <2>1, <2>2 DEF ImportInv, NothingMissed
  <1> QED
    BY <1>5, <1>6, <1>7, <1>8 DEF ImportInv

\* An import that gives up leaves the rows.
LEMMA GiveUpStep ==
  ASSUME ImportInv, NEW m \in Importers, GiveUp(m)
  PROVE  ImportInv'
  <1>1. UNCHANGED <<rows, raced, fate, edits>> /\ import' = [import EXCEPT ![m] = NoImport]
    BY DEF GiveUp
  <1>2. ImportTypeOK' /\ \A n \in Importers : import'[n] = import[n] \/ import'[n] = NoImport
    BY <1>1 DEF ImportInv, ImportTypeOK
  <1>3. /\ Present' = Present /\ Written' = Written
        /\ RowsProvenanced' /\ InOrder' /\ DoublesAreRaces'
    BY <1>1 DEF ImportInv, Present, Written, RowsProvenanced, InOrder, DoublesAreRaces, Holds,
       SameThing
  <1>4. NoImport.step = "idle"
    BY DEF NoImport
  <1>5. OverwritesMatch'
    BY <1>1, <1>2, <1>3, <1>4 DEF ImportInv, OverwritesMatch
  <1>6. NothingMissed'
    <2>1. \A r, v, w : Holds(r, v, w)' <=> Holds(r, v, w)
      BY <1>1 DEF Holds, SameThing
    <2> QED
      BY <1>2, <1>3, <1>4, <2>1 DEF ImportInv, NothingMissed
  <1> QED
    BY <1>2, <1>3, <1>5, <1>6 DEF ImportInv

\* A row just made says of its work what the work says.
LEMMA NewRowIsOne ==
  ASSUME NEW u \in Owners, NEW work \in Works \cup {NoWork},
         NEW kind \in {"detected", "requested", "geolocated"},
         NEW at \in Coordinates \cup {Nowhere}, NEW links \in SUBSET Links,
         work # NoWork => at = work.at /\ links = work.links
  PROVE  /\ NewRow(u, work, kind, at, links) \in Recorded
         /\ Provenanced(NewRow(u, work, kind, at, links), {})
         /\ NewRow(u, work, kind, at, links).by = u
         /\ NewRow(u, work, kind, at, links).work = work
  <1>1. NewRow(u, work, kind, at, links) \in Recorded
    BY DEF NewRow, Recorded
  <1> QED
    BY <1>1 DEF NewRow, Provenanced, Readable

\* An import that found nothing writes its row, and knows of every row that holds its work.
LEMMA PersistStep ==
  ASSUME ImportInv, NEW m \in Importers, NEW r \in Row, Persist(m, r)
  PROVE  ImportInv'
  <1>1. import[m] \in Creations /\ import[m].step = "create"
    BY ImportAtWork DEF Persist, ImportInv
  <1>2. PICK u \in Owners, work \in Works, since \in SUBSET Row, kind \in {"detected", "requested"} :
           /\ u = import[m].owner /\ work = import[m].work /\ since = import[m].since
           /\ Land(r, NewRow(u, work, kind, work.at, work.links), since)
    BY <1>1 DEF Persist, Creations
  <1>3. work.at \in Coordinates \cup {Nowhere} /\ work.links \in SUBSET Links /\ work # NoWork
    BY ImportConstants
  <1> DEFINE record == NewRow(u, work, kind, work.at, work.links)
  <1>4. record \in Recorded /\ Provenanced(record, {}) /\ record.by = u /\ record.work = work
    BY <1>3, NewRowIsOne
  <1>5. \A q \in Present : Holds(q, u, work) => q \in since
    BY <1>1, <1>2 DEF ImportInv, NothingMissed
  <1>6. fate' = fate /\ edits' = edits
        /\ import' = [n \in Importers |-> IF n = m THEN NoImport ELSE Told(n, r)]
    BY DEF Persist
  <1>7. edits' \in 0 .. MaxEdits
    BY <1>6 DEF ImportInv, ImportTypeOK
  <1> QED
    BY <1>2, <1>4, <1>5, <1>6, <1>7, RowLands

\* A row written by hand is of no work.
LEMMA WriteByHandStep ==
  ASSUME ImportInv, NEW r \in Row, NEW u \in Owners, NEW kind \in {"requested", "geolocated"},
         NEW at \in Coordinates \cup {Nowhere}, NEW links \in SUBSET Links,
         WriteByHand(u, r, kind, at, links)
  PROVE  ImportInv'
  <1> DEFINE record == NewRow(u, NoWork, kind, at, links)
  <1>1. record \in Recorded /\ Provenanced(record, {}) /\ record.work = NoWork
    BY NewRowIsOne
  <1>2. fate' = fate /\ import' = [m \in Importers |-> Told(m, r)] /\ Land(r, record, {})
    BY DEF WriteByHand
  <1>3. edits' \in 0 .. MaxEdits
    BY ImportConstants DEF WriteByHand, ImportInv, ImportTypeOK
  <1> QED
    BY <1>1, <1>2, <1>3, RowLands

\* An overwrite sets the row to the place it was matched at, and its links to those of the work.
LEMMA UpsertStep ==
  ASSUME ImportInv, NEW m \in Importers, Upsert(m)
  PROVE  ImportInv'
  <1>1. import[m] \in Overwrites /\ import[m].step = "upsert"
    BY ImportAtWork DEF Upsert, ImportInv
  <1>2. PICK r \in Row, work \in Works : r = import[m].row /\ work = import[m].work
    BY <1>1 DEF Overwrites
  <1> DEFINE new == [rows[r] EXCEPT !.at = work.at, !.links = work.links]
             marks == fate[r] \cup Relinked(r, new)
  <1>3. /\ r \in Present /\ Overwritable(rows[r])
        /\ rows' = [rows EXCEPT ![r] = new] /\ fate' = [fate EXCEPT ![r] = @ \cup Relinked(r, new)]
        /\ import' = [import EXCEPT ![m] = NoImport] /\ raced' = raced /\ edits' = edits
    BY <1>2 DEF Upsert
  <1>4. rows[r] \in Recorded /\ Unreviewed(rows[r]) /\ rows[r].at = work.at
    BY <1>1, <1>2, <1>3, PresentRow DEF ImportInv, OverwritesMatch, Overwritable, Unreviewed
  <1>5. work.at \in Coordinates \cup {Nowhere} /\ work.links \in SUBSET Links
    BY ImportConstants
  <1>6. /\ new \in Recorded /\ new.work = rows[r].work /\ new.by = rows[r].by
        /\ new.at = rows[r].at /\ new.owner = rows[r].owner /\ new.deleted = rows[r].deleted
    BY <1>4, <1>5 DEF Recorded
  <1>7. Provenanced(new, marks)
    <2>1. Provenanced(rows[r], fate[r])
      BY <1>3 DEF ImportInv, RowsProvenanced
    <2>2. "relinked" \notin marks /\ new.work # NoWork => new.work.links \subseteq Readable(new)
      BY <1>6 DEF Relinked
    <2> QED
      BY <1>6, <2>1, <2>2 DEF Provenanced
  <1>8. marks \subseteq Fates
    BY <1>2 DEF ImportInv, ImportTypeOK, Relinked, Fates
  <1>9. Revises(new, marks, r)
    BY <1>4, <1>6, <1>7, <1>8 DEF Revises
  <1>10. fate' = [fate EXCEPT ![r] = marks]
    BY <1>3
  <1>11. /\ import' \in [Importers -> Creations \cup Overwrites \cup {NoImport}]
         /\ edits' \in 0 .. MaxEdits
         /\ \A n \in Importers : import'[n] = import[n] \/ import'[n] = NoImport
    BY <1>3 DEF ImportInv, ImportTypeOK
  <1> QED
    BY <1>3, <1>9, <1>10, <1>11, InPlace

-----------------------------------------------------------------------------
\* An edit under the row's lock.
LEMMA ChangeStep ==
  ASSUME ImportInv, NEW r \in Row, NEW record, NEW what, Change(r, record, what),
         Revises(record, fate[r] \cup what, r)
  PROVE  ImportInv'
  <1> DEFINE marks == fate[r] \cup what
  <1>1. /\ r \in Present /\ rows' = [rows EXCEPT ![r] = record]
        /\ fate' = [fate EXCEPT ![r] = @ \cup what] /\ raced' = raced /\ import' = import
        /\ edits' = edits + 1 /\ edits < MaxEdits
    BY DEF Change
  <1>2. fate' = [fate EXCEPT ![r] = marks]
    BY <1>1
  <1>3. edits' \in 0 .. MaxEdits
    BY <1>1, ImportConstants DEF ImportInv, ImportTypeOK
  <1>4. import' \in [Importers -> Creations \cup Overwrites \cup {NoImport}]
    BY <1>1 DEF ImportInv, ImportTypeOK
  <1> QED
    BY <1>1, <1>2, <1>3, <1>4, InPlace

\* The record of a row that is present, and what its marks say of it.
LEMMA PresentFacts ==
  ASSUME ImportInv, NEW r \in Row, r \in Present
  PROVE  rows[r] \in Recorded /\ Provenanced(rows[r], fate[r]) /\ fate[r] \subseteq Fates
  BY PresentRow DEF ImportInv, RowsProvenanced, ImportTypeOK

\* A save marks a move, a change of hands and the links it takes from the work.
LEMMA SaveStep ==
  ASSUME ImportInv, NEW r \in Row, NEW u \in Owners, NEW at \in Coordinates,
         NEW links \in SUBSET Links, SaveRow(r, u, at, links)
  PROVE  ImportInv'
  <1> DEFINE new == [rows[r] EXCEPT !.status = "geolocated", !.owner = u, !.at = at,
                                    !.links = links, !.filed = @ \cup {rows[r].links},
                                    !.saved = TRUE]
             what == Moved(r, at) \cup Relinked(r, new)
                     \cup IF u # rows[r].owner THEN {"handed over"} ELSE {}
  <1>1. r \in Present /\ Change(r, new, what)
    BY DEF SaveRow
  <1>2. rows[r] \in Recorded /\ Provenanced(rows[r], fate[r]) /\ fate[r] \subseteq Fates
    BY <1>1, PresentFacts
  <1>3. /\ new \in Recorded /\ new.work = rows[r].work /\ new.by = rows[r].by
        /\ new.at = at /\ new.owner = u /\ new.deleted = rows[r].deleted /\ new.saved = TRUE
    BY <1>2 DEF Recorded
  <1>4. Provenanced(new, fate[r] \cup what)
    <2>1. /\ "moved" \notin fate[r] \cup what => at = rows[r].at
          /\ "handed over" \notin fate[r] \cup what => u = rows[r].owner
      BY DEF Moved
    <2>2. "relinked" \notin what /\ new.work # NoWork => new.work.links \subseteq Readable(new)
      BY <1>3 DEF Relinked
    <2>3. /\ "moved" \notin fate[r] \cup what => "moved" \notin fate[r]
          /\ "handed over" \notin fate[r] \cup what => "handed over" \notin fate[r]
          /\ "deleted" \notin fate[r] \cup what => "deleted" \notin fate[r]
          /\ "relinked" \notin fate[r] \cup what => "relinked" \notin what
      OBVIOUS
    <2> HIDE DEF what, new
    <2> QED
      BY <1>2, <1>3, <2>1, <2>2, <2>3 DEF Provenanced
  <1>5. what \subseteq Fates
    BY DEF Moved, Relinked, Fates
  <1>6. Revises(new, fate[r] \cup what, r)
    BY <1>2, <1>3, <1>4, <1>5 DEF Revises, Unreviewed
  <1> QED
    BY <1>1, <1>6, ChangeStep

\* An edit of a request in place marks a move and the links it takes from the work.
LEMMA EditStep ==
  ASSUME ImportInv, NEW r \in Row, NEW at \in Coordinates \cup {Nowhere},
         NEW links \in SUBSET Links, EditRequest(r, at, links)
  PROVE  ImportInv'
  <1> DEFINE new == [rows[r] EXCEPT !.at = at, !.links = links]
             what == Moved(r, at) \cup Relinked(r, new)
  <1>1. r \in Present /\ rows[r].status = "requested" /\ Change(r, new, what)
    BY DEF EditRequest
  <1>2. rows[r] \in Recorded /\ Provenanced(rows[r], fate[r]) /\ fate[r] \subseteq Fates
    BY <1>1, PresentFacts
  <1>3. /\ new \in Recorded /\ new.work = rows[r].work /\ new.by = rows[r].by
        /\ new.at = at /\ new.owner = rows[r].owner /\ new.deleted = rows[r].deleted
        /\ new.status = "requested"
    BY <1>1, <1>2 DEF Recorded
  <1>4. Provenanced(new, fate[r] \cup what)
    <2>1. "moved" \notin fate[r] \cup what => at = rows[r].at
      BY DEF Moved
    <2>2. "relinked" \notin what /\ new.work # NoWork => new.work.links \subseteq Readable(new)
      BY <1>3 DEF Relinked
    <2>3. /\ "moved" \notin fate[r] \cup what => "moved" \notin fate[r]
          /\ "handed over" \notin fate[r] \cup what => "handed over" \notin fate[r]
          /\ "deleted" \notin fate[r] \cup what => "deleted" \notin fate[r]
          /\ "relinked" \notin fate[r] \cup what => "relinked" \notin what
      OBVIOUS
    <2> HIDE DEF what, new
    <2> QED
      BY <1>2, <1>3, <2>1, <2>2, <2>3 DEF Provenanced
  <1>5. what \subseteq Fates
    BY DEF Moved, Relinked, Fates
  <1>6. Revises(new, fate[r] \cup what, r)
    BY <1>2, <1>3, <1>4, <1>5 DEF Revises, Unreviewed
  <1> QED
    BY <1>1, <1>6, ChangeStep

\* A redaction marks the links it takes from the work.
LEMMA RedactStep ==
  ASSUME ImportInv, NEW r \in Row, NEW links, RedactLinks(r, links)
  PROVE  ImportInv'
  <1> DEFINE new == [rows[r] EXCEPT !.filed = @ \ {links}]
             what == Relinked(r, new)
  <1>1. r \in Present /\ Change(r, new, what)
    BY DEF RedactLinks
  <1>2. rows[r] \in Recorded /\ Provenanced(rows[r], fate[r]) /\ fate[r] \subseteq Fates
    BY <1>1, PresentFacts
  <1>3. /\ new \in Recorded /\ new.work = rows[r].work /\ new.by = rows[r].by
        /\ new.at = rows[r].at /\ new.owner = rows[r].owner /\ new.deleted = rows[r].deleted
        /\ new.status = rows[r].status /\ new.saved = rows[r].saved
    BY <1>2 DEF Recorded
  <1>4. Provenanced(new, fate[r] \cup what)
    <2>1. "relinked" \notin what /\ new.work # NoWork => new.work.links \subseteq Readable(new)
      BY <1>3 DEF Relinked
    <2> QED
      BY <1>2, <1>3, <2>1 DEF Provenanced
  <1>5. what \subseteq Fates
    BY DEF Relinked, Fates
  <1>6. Revises(new, fate[r] \cup what, r)
    BY <1>2, <1>3, <1>4, <1>5 DEF Revises, Unreviewed
  <1> QED
    BY <1>1, <1>6, ChangeStep

\* A row that changes hands, is deleted or is restored keeps its place and its links.
LEMMA HandsStep ==
  ASSUME ImportInv, NEW r \in Row,
         \/ \E u \in Owners : PassOn(r, u)
         \/ DeleteRow(r) \/ RestoreRow(r)
  PROVE  ImportInv'
  <1>1. ASSUME NEW u \in Owners, NEW how \in {"no", "own", "ban"}, NEW what, r \in Present,
               what \subseteq Fates,
               u = rows[r].owner \/ "handed over" \in what,
               how = "no" \/ "deleted" \in what,
               Change(r, [rows[r] EXCEPT !.owner = u, !.deleted = how], what)
        PROVE  ImportInv'
    <2> DEFINE new == [rows[r] EXCEPT !.owner = u, !.deleted = how]
    <2>1. rows[r] \in Recorded /\ Provenanced(rows[r], fate[r]) /\ fate[r] \subseteq Fates
      BY <1>1, PresentFacts
    <2>2. /\ new \in Recorded /\ new.work = rows[r].work /\ new.by = rows[r].by
          /\ new.at = rows[r].at /\ new.owner = u /\ new.deleted = how
          /\ new.status = rows[r].status /\ new.saved = rows[r].saved
          /\ Readable(new) = Readable(rows[r])
      BY <2>1 DEF Recorded, Readable
    <2>3. Provenanced(new, fate[r] \cup what)
      BY <1>1, <2>1, <2>2 DEF Provenanced
    <2>4. Revises(new, fate[r] \cup what, r)
      BY <1>1, <2>1, <2>2, <2>3 DEF Revises, Unreviewed
    <2> QED
      BY <1>1, <2>4, ChangeStep
  <1>2. ASSUME NEW u \in Owners, PassOn(r, u)
        PROVE  ImportInv'
    BY <1>1, <1>2 DEF PassOn, Fates
  <1>3. ASSUME DeleteRow(r) \/ RestoreRow(r)
        PROVE  ImportInv'
    <2>1. PICK how \in {"no", "own", "ban"}, what \in {{}, {"deleted"}} :
             /\ r \in Present /\ Change(r, [rows[r] EXCEPT !.deleted = how], what)
             /\ how = "no" \/ "deleted" \in what
      BY <1>3 DEF DeleteRow, RestoreRow
    <2>2. rows[r] \in Recorded /\ rows[r].owner \in Owners
      BY <2>1, PresentFacts DEF Recorded
    <2>3. [rows[r] EXCEPT !.deleted = how]
          = [rows[r] EXCEPT !.owner = rows[r].owner, !.deleted = how]
      BY <2>2 DEF Recorded
    <2>4. Change(r, [rows[r] EXCEPT !.owner = rows[r].owner, !.deleted = how], what)
      BY <2>1, <2>3
    <2>5. what \subseteq Fates
      BY DEF Fates
    <2> QED
      BY <1>1, <2>1, <2>2, <2>4, <2>5
  <1> QED
    BY <1>2, <1>3

\* A row that is closed, withheld or shown says the same of its work.
LEMMA FlagStep ==
  ASSUME ImportInv, NEW r \in Row, CloseRow(r) \/ WithholdRow(r)
  PROVE  ImportInv'
  <1>1. PICK record :
           /\ r \in Present /\ Change(r, record, {})
           /\ \/ record = [rows[r] EXCEPT !.status = "closed"]
              \/ record = [rows[r] EXCEPT !.hidden = ~ rows[r].hidden]
    BY DEF CloseRow, WithholdRow
  <1>2. rows[r] \in Recorded /\ Provenanced(rows[r], fate[r]) /\ fate[r] \subseteq Fates
    BY <1>1, PresentFacts
  <1>3. /\ record \in Recorded /\ record.work = rows[r].work /\ record.by = rows[r].by
        /\ record.at = rows[r].at /\ record.owner = rows[r].owner
        /\ record.deleted = rows[r].deleted /\ record.saved = rows[r].saved
        /\ record.status = rows[r].status \/ record.status = "closed"
        /\ Readable(record) = Readable(rows[r])
    <2>1. CASE record = [rows[r] EXCEPT !.status = "closed"]
      BY <1>2, <2>1 DEF Recorded, Readable
    <2>2. CASE record = [rows[r] EXCEPT !.hidden = ~ rows[r].hidden]
      BY <1>2, <2>2 DEF Recorded, Readable
    <2> QED
      BY <1>1, <2>1, <2>2
  <1>4. Provenanced(record, fate[r] \cup {})
    BY <1>2, <1>3 DEF Provenanced
  <1>5. Revises(record, fate[r] \cup {}, r)
    BY <1>2, <1>3, <1>4 DEF Revises, Unreviewed
  <1> QED
    BY <1>1, <1>5, ChangeStep

\* A row deleted for good is compared with nothing.
LEMMA EraseStep ==
  ASSUME ImportInv, NEW r \in Row, EraseRow(r)
  PROVE  ImportInv'
  <1>1. r \in Present /\ Change(r, Erased, {})
    BY DEF EraseRow, Change
  <1>2. fate[r] \subseteq Fates
    BY <1>1, PresentFacts
  <1> QED
    BY <1>1, <1>2, ChangeStep DEF Revises

\* Every step keeps the invariant.
LEMMA ImportStep ==
  ASSUME ImportInv, [ImportNext]_importVars
  PROVE  ImportInv'
  <1>1. CASE UNCHANGED importVars
    <2>1. ImportTypeOK'
      BY <1>1 DEF importVars, ImportInv, ImportTypeOK
    <2>2. RowsProvenanced' /\ OverwritesMatch' /\ InOrder'
      BY <1>1 DEF importVars, ImportInv, RowsProvenanced, OverwritesMatch, InOrder, Present,
         Written
    <2>3. \A r, u, work : Holds(r, u, work)' <=> Holds(r, u, work)
      BY <1>1 DEF importVars, Holds, SameThing
    <2>4. Present' = Present
      BY <1>1 DEF importVars, Present, Written
    <2>5. NothingMissed'
      BY <1>1, <2>3, <2>4 DEF importVars, ImportInv, NothingMissed
    <2>6. DoublesAreRaces'
      BY <1>1, <2>3, <2>4 DEF importVars, ImportInv, DoublesAreRaces
    <2> QED
      BY <2>1, <2>2, <2>5, <2>6 DEF ImportInv
  <1>2. ASSUME NEW m \in Importers, Importing(m)
        PROVE  ImportInv'
    BY <1>2, DecideStep, PersistStep, UpsertStep, GiveUpStep DEF Importing
  <1>3. ASSUME NEW r \in Row, Editing(r)
        PROVE  ImportInv'
    BY <1>3, RedactStep, SaveStep, EditStep, WriteByHandStep, HandsStep, FlagStep, EraseStep
       DEF Editing
  <1> QED
    BY <1>1, <1>2, <1>3 DEF ImportNext

\* The inductive invariant of the imports.
THEOREM ImportHolds == ImportSpec => []ImportInv
  <1>1. ImportInit => ImportInv
    <2> SUFFICES ASSUME ImportInit PROVE ImportInv
      OBVIOUS
    <2>1. NotWritten.status = "none" /\ NoImport.step = "idle"
      BY DEF NotWritten, NoImport
    <2>2. ImportTypeOK
      BY ImportConstants DEF ImportInit, ImportTypeOK
    <2>3. Written = {} /\ Present = {}
      BY <2>1 DEF ImportInit, Written, Present
    <2> QED
      BY <2>1, <2>2, <2>3 DEF ImportInit, ImportInv, RowsProvenanced, OverwritesMatch,
         NothingMissed, InOrder, DoublesAreRaces
  <1>2. ImportInv /\ [ImportNext]_importVars => ImportInv'
    BY ImportStep
  <1> QED
    BY <1>1, <1>2, PTL DEF ImportSpec

\* Rows, imports and marks are of their types in every state of the imports.
THEOREM ImportTypes == ImportSpec => []ImportTypeOK
  <1>1. ImportInv => ImportTypeOK
    BY DEF ImportInv
  <1> QED
    BY <1>1, ImportHolds, PTL

\* For any works, owners, coordinates and number of imports at once: a second row for what an
\* account already has is written only by an import that was at work when the first row landed, or
\* when something happened to the first that is on record (_disposition, _existing_row_for).
THEOREM OneRowForOnePost == ImportSpec => []DoublesAreRaces
  <1>1. ImportInv => DoublesAreRaces
    BY DEF ImportInv
  <1> QED
    BY <1>1, ImportHolds, PTL

-----------------------------------------------------------------------------
\* A step of the composition is a step of one component, and of the others a stutter.
LEMMA PartSteps ==
  ASSUME [PartNext]_<<vars, evidenceVars, importVars, part>>
  PROVE  [Next]_vars /\ [EvidenceNext]_evidenceVars /\ [ImportNext]_importVars
  BY DEF PartNext

\* The composition of the record's components, whatever parts it follows, is a behaviour of each:
\* what is proved of a component holds where the run checks it.
THEOREM PartsAreTheirComponents == PartSpec => Spec /\ EvidenceSpec /\ ImportSpec
  <1>1. PartInit => Init /\ EvidenceInit /\ ImportInit
    BY DEF PartInit
  <1>2. [PartNext]_<<vars, evidenceVars, importVars, part>>
          => [Next]_vars /\ [EvidenceNext]_evidenceVars /\ [ImportNext]_importVars
    BY PartSteps
  <1> QED
    BY <1>1, <1>2, PTL DEF PartSpec, Spec, EvidenceSpec, ImportSpec

\* Events, stored files and imported rows keep their types in the composition of the three.
THEOREM PartTypes == PartSpec => []TypesOK
  <1>1. TypeOK /\ EvidenceTypeOK /\ ImportTypeOK => TypesOK
    BY DEF TypesOK
  <1> QED
    BY <1>1, PartsAreTheirComponents, TypeCorrect, EvidenceTypes, ImportTypes, PTL
=============================================================================
