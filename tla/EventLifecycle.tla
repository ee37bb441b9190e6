--------------------------- MODULE EventLifecycle ---------------------------
(***************************************************************************)
(* One row of the `events` table through its whole life: a request for     *)
(* help or a machine detection (version 0), its publication, corrections,  *)
(* retraction, takedown and erasure.  Sources: services/events/*.py,       *)
(* versions.py, detection.py, reports.py and admin.py of src/backend/app.  *)
(*                                                                         *)
(* Every writer runs in one transaction under the row lock (`lock_event`), *)
(* so a transaction is one step.  What is NOT under the lock is a step of  *)
(* its own: the page a client read, the visibility check of                *)
(* `resolve_live_event`, the verdict of an import and the list of a purge. *)
(***************************************************************************)
EXTENDS Integers

CONSTANTS
    Users,        \* analysts
    Bodies,       \* the editable fields but the conflicts and archived copies
    Sourced,      \* bodies with a direct or indirect source and its file
    Complete,     \* sourced bodies that also carry coordinates and a proof image
    Copies,       \* the archived copies the links of an event may name
    NoCopy,       \* no link is archived
    MaxVersions,  \* MAX_VERSIONS_PER_EVENT
    VersionCap,   \* bound of the model: the version no save moves past
    NoContent, NoUser, NoPage, NoVersion, Blank   \* model values for "none"

ASSUME Floors == Sourced \subseteq Bodies /\ Complete \subseteq Sourced
ASSUME Ceiling == MaxVersions \in Nat /\ VersionCap \in Nat
ASSUME ACopy == NoCopy \in Copies

\* What one version holds: the fields `save_version` writes.
Contents == [body : Bodies, conflict : BOOLEAN, copy : Copies]

ASSUME NoneIsNoContent == NoContent \notin Contents /\ Blank \notin Contents
ASSUME NoneIsNoUser == NoUser \notin Users

Pages == [version : Nat, content : Contents]
ASSUME NoneIsNoPage == NoPage \notin Pages

Unpublished == {"requested", "detected"}
Writable == Unpublished \cup {"geolocated"}
Live == Writable \cup {"closed"}          \* the row exists

VARIABLES
    status,        \* Event.status; "absent" before the insert, "erased" after the delete
    beforeClosed,  \* Event.before_closed_status
    versionNo,     \* Event.version_no
    content,       \* the live editable state
    owner,         \* Event.owner_id
    history,       \* event_versions: filed number -> snapshot, Blank once redacted
    hidden,        \* Event.hidden_at is set
    deleted,       \* Event.deleted_at: "no", set on its own, or with its owner's ban
    pages,         \* what each analyst's form was loaded with
    inflight,      \* analysts whose write request has passed resolve_live_event
    upserting,     \* an import holds an "upsert" verdict it read without the lock
    purging        \* a purge has listed the row among its owner's detections

row == <<status, beforeClosed, versionNo, content, owner, history>>
moderation == <<hidden, deleted>>
clients == <<pages, inflight>>
machines == <<upserting, purging>>
vars == <<status, beforeClosed, versionNo, content, owner, history,
          hidden, deleted, pages, inflight, upserting, purging>>

Init ==
    /\ status = "absent"
    /\ beforeClosed = "none"
    /\ versionNo = 0
    /\ content = NoContent
    /\ owner = NoUser
    /\ history = [v \in {} |-> Blank]
    /\ hidden = FALSE
    /\ deleted = "no"
    /\ pages = [u \in Users |-> NoPage]
    /\ inflight = {}
    /\ upserting = FALSE
    /\ purging = FALSE

-----------------------------------------------------------------------------
\* visible_events(): not soft-deleted, not withheld.
Visible == ~hidden /\ deleted = "no"

\* The publication floor: coordinates, a source with its file, a proof image, a conflict.
MeetsFloor(c) == c.body \in Complete /\ c.conflict

\* What moves between the live row and a posted form, archived copies left out.
FieldsMove(c) == c.body # content.body \/ c.conflict # content.conflict

\* Mutant of FileVersion: the snapshot takes the number after the bump.
FileVersionAfterBump(enforced) ==
    /\ enforced => versionNo < MaxVersions
    /\ versionNo < VersionCap
    /\ history' = [v \in DOMAIN history \cup {versionNo + 1} |->
                      IF v = versionNo + 1 THEN content ELSE history[v]]
    /\ versionNo' = versionNo + 1

\* Mutant of FileVersion: every save is spared the ceiling, not only an archiving one.
FileVersionUncapped(enforced) ==
    /\ versionNo < VersionCap
    /\ history' = [v \in DOMAIN history \cup {versionNo} |->
                      IF v = versionNo THEN content ELSE history[v]]
    /\ versionNo' = versionNo + 1

\* file_version: the live content is filed under its number and the row takes the
\* next one; at the ceiling only when `enforced` is off.
FileVersion(enforced) ==
    /\ enforced => versionNo < MaxVersions
    /\ versionNo < VersionCap
    /\ history' = [v \in DOMAIN history \cup {versionNo} |->
                      IF v = versionNo THEN content ELSE history[v]]
    /\ versionNo' = versionNo + 1

\* A row is born published (version 1) or unpublished (version 0): _initial_version.
Insert(u, st, c) ==
    /\ status = "absent"
    /\ status' = st
    /\ versionNo' = IF st \in Unpublished THEN 0 ELSE 1
    /\ content' = c
    /\ owner' = u
    /\ UNCHANGED <<beforeClosed, history, moderation, clients, machines>>

\* POST /events: a direct geolocation with its full evidence.
CreateWithEvidence(u) ==
    \E c \in Contents : MeetsFloor(c) /\ Insert(u, "geolocated", c)

\* An open call for help: the footage must be there, nothing else.
CreateRequest(u) ==
    \E c \in Contents : c.body \in Sourced /\ Insert(u, "requested", c)

\* _persist_one: an import writes no conflict and archives no link.
PersistDetection(u) ==
    \E b \in Bodies :
        Insert(u, "detected", [body |-> b, conflict |-> FALSE, copy |-> NoCopy])

-----------------------------------------------------------------------------
\* GET /events/{id}, the read an edit form is filled from.
ReadPage(u) ==
    /\ status \in Live /\ Visible
    /\ pages' = [pages EXCEPT ![u] = [version |-> versionNo, content |-> content]]
    /\ UNCHANGED <<row, moderation, inflight, machines>>

\* resolve_live_event: a write verb's visibility check, made without the lock.
ResolveLiveEvent(u) ==
    /\ status \in Live /\ Visible
    /\ u \notin inflight
    /\ inflight' = inflight \cup {u}
    /\ UNCHANGED <<row, moderation, pages, machines>>

\* A 403, 409 or 422, a lost connection, or the lock_timeout of the API.
RequestFails(u) ==
    /\ u \in inflight
    /\ inflight' = inflight \ {u}
    /\ UNCHANGED <<row, moderation, pages, machines>>

\* A write answers 200: the request is over and the client leaves its form.
Answered(u, page) ==
    /\ u \in inflight
    /\ inflight' = inflight \ {u}
    /\ pages' = IF page THEN [pages EXCEPT ![u] = NoPage] ELSE pages

\* The optional version_no of a save: the one its form was loaded at, or none.
Expected(u) == {NoVersion} \cup (IF pages[u] = NoPage THEN {} ELSE {pages[u].version})

\* Mutant of VersionHolds: expected_version is not compared.
VersionUnchecked(expected) == TRUE

\* A posted version_no must be the live one (VersionMismatchError).
VersionHolds(expected) == expected = NoVersion \/ expected = versionNo

\* save_version on a request or a detection: file it as version 0 and publish.
Publish(u, c, expected) ==
    /\ status \in Unpublished
    /\ VersionHolds(expected)
    /\ status = "detected" => owner = u
    /\ MeetsFloor(c)
    /\ FileVersion(TRUE)
    /\ status' = "geolocated"
    /\ content' = c
    /\ owner' = u
    /\ Answered(u, expected # NoVersion)
    /\ UNCHANGED <<beforeClosed, moderation, machines>>

\* save_version on a published row: the owner files the live version and corrects it.
Correct(u, c, expected) ==
    /\ status = "geolocated"
    /\ VersionHolds(expected)
    /\ owner = u
    /\ MeetsFloor(c)
    /\ FieldsMove(c) \/ c.copy # content.copy        \* NothingChangedError
    /\ FileVersion(FieldsMove(c))
    /\ content' = c
    /\ Answered(u, expected # NoVersion)
    /\ UNCHANGED <<status, beforeClosed, owner, moderation, machines>>

SaveVersion(u) ==
    \E c \in Contents, expected \in Expected(u) :
        Publish(u, c, expected) \/ Correct(u, c, expected)

\* Mutant of UpdateRequest: the status is not re-checked under the lock.
UpdateAnyStatus(u) ==
    /\ status \in Live
    /\ owner = u
    /\ \E c \in Contents : c.body \in Sourced /\ content' = c
    /\ Answered(u, TRUE)
    /\ UNCHANGED <<status, beforeClosed, versionNo, owner, history, moderation, machines>>

\* update_request: an open request is overwritten in place; no version, no version_no.
UpdateRequest(u) ==
    /\ status = "requested"
    /\ owner = u
    /\ \E c \in Contents : c.body \in Sourced /\ content' = c
    /\ Answered(u, TRUE)
    /\ UNCHANGED <<status, beforeClosed, versionNo, owner, history, moderation, machines>>

\* Mutant of PublishDetection: the batch does not check the floor.
PublishUnchecked(u) ==
    /\ status = "detected" /\ Visible
    /\ owner = u
    /\ FileVersion(TRUE)
    /\ status' = "geolocated"
    /\ content' = [content EXCEPT !.conflict = TRUE]
    /\ UNCHANGED <<beforeClosed, owner, moderation, clients, machines>>

\* _publish_detection, one row of a batch: visibility is re-checked under the lock, and
\* only the conflicts (and the kind of the sources) are supplied.
PublishDetection(u) ==
    /\ status = "detected" /\ Visible
    /\ owner = u
    /\ content.body \in Complete
    /\ FileVersion(TRUE)
    /\ status' = "geolocated"
    /\ content' = [content EXCEPT !.conflict = TRUE]
    /\ UNCHANGED <<beforeClosed, owner, moderation, clients, machines>>

\* Mutant of Close: a closed row is closed again.
CloseAgain(u) ==
    /\ status \in Live
    /\ owner = u
    /\ beforeClosed' = status
    /\ status' = "closed"
    /\ Answered(u, FALSE)
    /\ UNCHANGED <<versionNo, content, owner, history, moderation, machines>>

\* close: withdraw, reject or retract; owner-only, from any open state.
Close(u) ==
    /\ status \in Writable
    /\ owner = u
    /\ beforeClosed' = status
    /\ status' = "closed"
    /\ Answered(u, FALSE)
    /\ UNCHANGED <<versionNo, content, owner, history, moderation, machines>>

-----------------------------------------------------------------------------
\* _row_disposition: the one row a re-import may overwrite.
Upsertable == deleted = "no" /\ ~hidden /\ versionNo = 0 /\ status = "detected"

\* _disposition, read without the lock before the media is fetched.
ImportVerdict ==
    /\ ~upserting
    /\ Upsertable
    /\ upserting' = TRUE
    /\ UNCHANGED <<row, moderation, clients, purging>>

\* _upsert_one: the matrix is run again under the lock, and a row it no longer admits
\* (or a parse that moves nothing, or a fetch that fails) is left alone.
UpsertSkipped ==
    /\ upserting
    /\ upserting' = FALSE
    /\ UNCHANGED <<row, moderation, clients, purging>>

\* Mutant of UpsertOne: the matrix is not run again under the lock.
UpsertStale ==
    /\ upserting
    /\ status \in Live
    /\ upserting' = FALSE
    /\ \E b \in Bodies : content' = [content EXCEPT !.body = b]
    /\ UNCHANGED <<status, beforeClosed, versionNo, owner, history, moderation, clients, purging>>

UpsertOne ==
    /\ upserting
    /\ Upsertable
    /\ upserting' = FALSE
    /\ \E b \in Bodies : content' = [content EXCEPT !.body = b]
    /\ UNCHANGED <<status, beforeClosed, versionNo, owner, history, moderation, clients, purging>>

-----------------------------------------------------------------------------
\* set_event_moderation and a "hidden" verdict: a takedown, reachable on a
\* soft-deleted row through the report queue; lifting one is not.
Withhold ==
    /\ status \in Live /\ ~hidden
    /\ hidden' = TRUE
    /\ UNCHANGED <<row, deleted, clients, machines>>

LiftTakedown ==
    /\ status \in Live /\ hidden /\ deleted = "no"
    /\ hidden' = FALSE
    /\ UNCHANGED <<row, deleted, clients, machines>>

\* soft_delete_geolocation, which reads the stamp without the lock: it may overwrite a ban's.
SoftDelete ==
    /\ status \in Live /\ deleted # "own"
    /\ deleted' = "own"
    /\ UNCHANGED <<row, hidden, clients, machines>>

\* The cascade of soft_delete_user, and its undoing by restore_user.
OwnerBanned ==
    /\ status \in Live /\ deleted = "no"
    /\ deleted' = "with owner"
    /\ UNCHANGED <<row, hidden, clients, machines>>

OwnerRestored ==
    /\ status \in Live /\ deleted = "with owner"
    /\ deleted' = "no"
    /\ UNCHANGED <<row, hidden, clients, machines>>

\* hand_over_owned_events: shared work passes to a co-geolocator of the departing owner.
HandOver(heir) ==
    /\ status \in Live /\ versionNo > 0
    /\ deleted # "own"
    /\ heir # owner
    /\ owner' = heir
    /\ deleted' = "no"
    /\ UNCHANGED <<status, beforeClosed, versionNo, content, history, hidden, clients, machines>>

\* redact_version: a filed snapshot is blanked in place, its number kept.
RedactVersion(v) ==
    /\ status \in Live /\ deleted = "no"
    /\ v \in DOMAIN history
    /\ history[v] # Blank
    /\ history' = [history EXCEPT ![v] = Blank]
    /\ UNCHANGED <<status, beforeClosed, versionNo, content, owner, moderation, clients, machines>>

\* The DELETE of the row, its versions in the cascade.
Erase ==
    /\ status' = "erased"
    /\ content' = NoContent
    /\ owner' = NoUser
    /\ history' = [v \in {} |-> Blank]
    /\ UNCHANGED <<beforeClosed, versionNo, moderation, clients>>

\* hard_delete_geolocation, and the rows hard_delete_user does not hand over.
HardDelete ==
    /\ status \in Live
    /\ Erase
    /\ UNCHANGED machines

\* purge_detected_events: the list is read without a lock ...
PurgeRead ==
    /\ status = "detected" /\ ~purging
    /\ purging' = TRUE
    /\ UNCHANGED <<row, moderation, clients, upserting>>

\* ... and every row on it is deleted, whatever it has become (or gone already).
PurgeDelete ==
    /\ purging
    /\ purging' = FALSE
    /\ IF status \in Live
          THEN Erase
          ELSE UNCHANGED <<row, moderation, clients>>
    /\ UNCHANGED upserting

-----------------------------------------------------------------------------
Analyst(u) ==
    \/ CreateWithEvidence(u) \/ CreateRequest(u)
    \/ ReadPage(u) \/ ResolveLiveEvent(u) \/ RequestFails(u)
    \/ SaveVersion(u) \/ UpdateRequest(u) \/ PublishDetection(u) \/ Close(u)

Machine == (\E u \in Users : PersistDetection(u)) \/ ImportVerdict \/ UpsertSkipped \/ UpsertOne

Admin ==
    \/ Withhold \/ LiftTakedown \/ SoftDelete
    \/ OwnerBanned \/ OwnerRestored \/ (\E heir \in Users : HandOver(heir))
    \/ (\E v \in 0 .. VersionCap : RedactVersion(v))
    \/ HardDelete \/ PurgeRead \/ PurgeDelete

Next == (\E u \in Users : Analyst(u)) \/ Machine \/ Admin

Spec == Init /\ [][Next]_vars

-----------------------------------------------------------------------------
\* Types, and the shape of the row the CHECK constraints of the table pin.
TypeOK ==
    /\ status \in Live \cup {"absent", "erased"}
    /\ beforeClosed \in Writable \cup {"none"}
    /\ versionNo \in Nat
    /\ content \in Contents \cup {NoContent}
    /\ status \in Live => content \in Contents
    /\ owner \in Users \cup {NoUser}
    /\ DOMAIN history \subseteq Nat
    /\ history \in [DOMAIN history -> Contents \cup {Blank}]
    /\ hidden \in BOOLEAN
    /\ deleted \in {"no", "own", "with owner"}
    /\ pages \in [Users -> Pages \cup {NoPage}]
    /\ inflight \subseteq Users
    /\ upserting \in BOOLEAN
    /\ purging \in BOOLEAN

\* The status the row has, or had when it was closed: the COALESCE of the CHECKs.
OpenStatus == IF status = "closed" THEN beforeClosed ELSE status

\* What the address /vN serves: the live content or the filed snapshot.
At(v) == IF v = versionNo THEN content ELSE history[v]

\* ck_events_version_published (models/event.py): version 0 is exactly the unpublished
\* row, closed or not, and the history has no hole. An event at version n carries every
\* version below it, down to 1 when it was created published and to 0 when it was
\* published from a draft, whatever saves, batches and redactions interleave.
VersionsAreNumbered ==
    status \in Live =>
        /\ versionNo = 0 <=> OpenStatus \in Unpublished
        /\ \E first \in {0, 1} : DOMAIN history = first .. versionNo - 1

\* A published version number names one content for good: whatever an analyst read at
\* version n >= 1, the row still serves at n, live or filed, unless an admin redacted it.
\* (An open request is version 0 and moves in place, so a page of it may be stale.)
VersionNamesContent ==
    \A u \in Users :
        (status \in Live /\ pages[u] # NoPage /\ pages[u].version >= 1) =>
            /\ pages[u].version \in DOMAIN history \cup {versionNo}
            /\ At(pages[u].version) \in {pages[u].content, Blank}

\* Everything published meets the publication floor (create, save_version and the batch
\* each check it), the filed versions and a retracted event included; an open request
\* keeps its footage.
PublishedMeetsFloor ==
    status \in Live =>
        /\ OpenStatus = "requested" => content.body \in Sourced
        /\ \A v \in DOMAIN history \cup {versionNo} :
              v >= 1 /\ At(v) # Blank => MeetsFloor(At(v))

\* MAX_VERSIONS_PER_EVENT: past the ceiling nothing but archived copies moves, so every
\* readable version from the ceiling on says the same thing.
CeilingHolds ==
    status \in Live =>
        \A v \in DOMAIN history :
            v >= MaxVersions /\ history[v] # Blank => ~FieldsMove(history[v])

\* No lost update: a save that posts the version its form was loaded at supersedes exactly
\* the published content that form showed (expected_version in save_version).
SaveSupersedesWhatItsAuthorRead ==
    [][\A u \in Users :
          (pages[u] # NoPage /\ pages'[u] = NoPage /\ versionNo >= 1 /\ versionNo' # versionNo)
              => history'[versionNo] = pages[u].content]_vars

\* The promise to a reader who cites /events/{id}/vN (versions.py, closure.py): the row
\* is a CitableRecord. Its numbers 1..n are served by the live row and the filed versions,
\* a machine or a stale write never overwrites what a person published, nothing reopens a
\* closed row, and only the erasure takes a record away.
Phase ==
    CASE status = "absent" -> "none"
      [] status \in Unpublished -> "draft"
      [] status = "geolocated" -> "public"
      [] status = "closed" -> IF versionNo = 0 THEN "rejected" ELSE "retracted"
      [] OTHER -> "gone"
Latest == IF status \in Live THEN versionNo ELSE 0
Record == [v \in 1 .. Latest |-> At(v)]

Promise == INSTANCE CitableRecord WITH
    Words <- Contents, phase <- Phase, latest <- Latest, record <- Record

IsCitable == Promise!Spec

\* docs/ingestion.md:555 and resolve_live_event: "a takedown freezes the event for its
\* owner too, until the admin moderation endpoint lifts it".
FrozenUnderTakedown ==
    [][(hidden /\ hidden' /\ status \in Live /\ status' \in Live)
          => UNCHANGED <<status, content, versionNo>>]_vars

\* purge_detected_events: the repair leaves "the account, geolocations and requests".
PurgeSparesPublished ==
    [][(purging /\ ~purging' /\ status = "geolocated") => status' = "geolocated"]_vars
=============================================================================
