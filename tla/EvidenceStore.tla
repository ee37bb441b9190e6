---------------------------- MODULE EvidenceStore ----------------------------
(***************************************************************************)
(* The stored files of the events: staged by one request and taken by the  *)
(* event write that names them (services/uploads.py), shown by the event's *)
(* sources, its proof body and the versions filed of it, and deleted once  *)
(* nothing names them (services/evidence_intake.py, admin.redact_version). *)
(* The rows change in one transaction and the objects before or after it,  *)
(* so a writer may fail or die with the two apart.                         *)
(***************************************************************************)
EXTENDS Naturals, Sequences, FiniteSets

CONSTANTS
    Events,
    Files,       \* the source files uploaded
    Images,      \* the images uploaded with a proof body
    Writers,     \* the requests that write an event at one time
    MaxFiled,    \* bound on the versions filed of one event
    NoEvent,
    NoImage

ASSUME EvidenceAssumption ==
    /\ NoEvent \notin Events /\ NoImage \notin Files \cup Images
    /\ Files \cap Images = {}
    /\ MaxFiled \in Nat

VARIABLES
    store,       \* the objects in the bucket
    made,        \* the object names given out: a key is never reused
    staged,      \* the rows of uploads
    late,        \* the staged rows past expires_at
    event,       \* its status, its sources' files, its proof's media rows, the images of its body
    filed,       \* event -> its event_versions
    tx,          \* writer -> its transaction
    reaped,      \* the files whose rows the reaper deleted, not yet swept
    admin        \* an admin's redaction or erasure

evidenceVars == <<store, made, staged, late, event, filed, tx, reaped, admin>>

Objects == Files \cup Images

NewEvent == [status |-> "none", sources |-> {}, rows |-> {}, body |-> {}]
NoTx == [stage |-> "idle", event |-> NoEvent, takes |-> {}, image |-> NoImage, drop |-> {}]
NoAdmin == [stage |-> "idle", event |-> NoEvent, free |-> {}, objects |-> {}]

\* build_snapshot, and what redact_version leaves of one.
Snapshot(r) == [sources |-> r.sources, body |-> r.body, images |-> r.body \cap r.rows]
Redacted == [sources |-> {}, body |-> {}, images |-> {}]

\* _history_pinned_srcs and _history_pinned_source_srcs: the readable versions' files.
PinnedImages(snapshots) == UNION {snapshots[k].images : k \in DOMAIN snapshots}
PinnedSources(snapshots) == UNION {snapshots[k].sources : k \in DOMAIN snapshots}

\* Mutant of Named: the versions filed are forgotten.
NamedByRows == UNION {event[e].sources \cup event[e].rows : e \in Events}

\* unreferenced: the media rows, and the sources of every readable version.
Named == UNION {event[e].sources \cup event[e].rows \cup PinnedSources(filed[e]) : e \in Events}
Unreferenced(objects) == objects \ Named

EvidenceInit ==
    /\ store = {} /\ made = {} /\ staged = {} /\ late = {} /\ reaped = {}
    /\ event = [e \in Events |-> NewEvent]
    /\ filed = [e \in Events |-> <<>>]
    /\ tx = [w \in Writers |-> NoTx]
    /\ admin = NoAdmin
-----------------------------------------------------------------------------
\* stage_upload, stage_from_link, stage_from_proof: the object, then its row.
StageFile(f) ==
    /\ f \notin made
    /\ made' = made \cup {f}
    /\ store' = store \cup {f}
    /\ staged' \in {staged \cup {f}, staged}
    /\ UNCHANGED <<late, event, filed, tx, reaped, admin>>

UploadExpires(f) ==
    /\ f \in staged \ late
    /\ late' = late \cup {f}
    /\ UNCHANGED <<store, made, staged, event, filed, tx, reaped, admin>>

Open(w) == tx[w].stage = "open"
EventLocked(e) == \E w \in Writers : Open(w) /\ tx[w].event = e

\* Mutant of UploadLocked: the taken rows are read, not locked.
UploadUnlocked(f) == f \notin Files

\* take_uploads: the row lock a second write, or the reaper's DELETE, waits for.
UploadLocked(f) == \E w \in Writers : Open(w) /\ f \in tx[w].takes

\* lock_event, then plan_sources: a create has no row to lock yet.
BeginWrite(w, e, takes) ==
    /\ tx[w] = NoTx
    /\ event[e].status # "gone" /\ ~EventLocked(e)
    /\ takes \subseteq staged \ late
    /\ \A f \in takes : ~UploadLocked(f)
    /\ tx' = [tx EXCEPT ![w] = [NoTx EXCEPT !.stage = "open", !.event = e, !.takes = takes]]
    /\ UNCHANGED <<store, made, staged, late, event, filed, reaped, admin>>

\* upload_proof_image, ahead of the commit.
StoreImage(w, i) ==
    /\ Open(w) /\ tx[w].image = NoImage
    /\ i \notin made
    /\ made' = made \cup {i}
    /\ store' = store \cup {i}
    /\ tx' = [tx EXCEPT ![w].image = i]
    /\ UNCHANGED <<staged, late, event, filed, reaped, admin>>

\* apply_sources, attach_evidence_and_commit: the form's sources replace the stored ones, the body
\* shows images of this event only, and the proof rows nothing renders any more go.
CommitRows(w, e, status, snapshots, kept, body) ==
    LET t == tx[w]
        sources == kept \cup t.takes
        image == {t.image} \ {NoImage}
        own == event[e].rows \cup sources \cup PinnedSources(snapshots)
        rows == {m \in event[e].rows : m \in body \cup PinnedImages(snapshots)}
    IN
    /\ sources # {}
    /\ image \subseteq body /\ body \subseteq own \cup image
    /\ status = "published" => body # {}
    /\ event' = [event EXCEPT ![e] = [status |-> status, sources |-> sources,
                                      rows |-> rows \cup image, body |-> body]]
    /\ filed' = [filed EXCEPT ![e] = snapshots]
    /\ staged' = staged \ t.takes /\ late' = late \ t.takes
    /\ tx' = [tx EXCEPT ![w] = [NoTx EXCEPT !.stage = "sweep", !.event = e,
                                            !.drop = (event[e].rows \ rows)
                                                       \cup (event[e].sources \ sources)]]
    /\ UNCHANGED <<store, made, reaped, admin>>

\* create_request and create_with_evidence.
CommitCreate(w) ==
    /\ Open(w) /\ event[tx[w].event].status = "none"
    /\ \E status \in {"open", "published"}, body \in SUBSET Objects :
          CommitRows(w, tx[w].event, status, <<>>, {}, body)

\* update_request: no version is filed.
CommitCorrection(w) ==
    LET e == tx[w].event IN
    /\ Open(w) /\ event[e].status = "open"
    /\ \E kept \in SUBSET event[e].sources, body \in SUBSET Objects :
          CommitRows(w, e, "open", filed[e], kept, body)

\* save_version: the state it supersedes is filed first.
CommitSave(w) ==
    LET e == tx[w].event IN
    /\ Open(w) /\ event[e].status \in {"open", "published"}
    /\ Len(filed[e]) < MaxFiled
    /\ \E kept \in SUBSET event[e].sources, body \in SUBSET Objects :
          CommitRows(w, e, "published", Append(filed[e], Snapshot(event[e])), kept, body)

\* A check refuses, the storage or the commit fails: the rows roll back and the image goes.
WriteFailed(w) ==
    /\ Open(w)
    /\ tx' = [tx EXCEPT ![w] = NoTx]
    /\ store' = store \ {tx[w].image}
    /\ UNCHANGED <<made, staged, late, event, filed, reaped, admin>>

\* sweep_unreferenced after the commit, which spares what the event's body shows by then: it
\* reads the event again, and gives up on one that is gone.
SweepDropped(w) ==
    /\ tx[w].stage = "sweep"
    /\ event[tx[w].event].status # "gone"
    /\ store' = store \ Unreferenced(tx[w].drop \ event[tx[w].event].body)
    /\ tx' = [tx EXCEPT ![w] = NoTx]
    /\ UNCHANGED <<made, staged, late, event, filed, reaped, admin>>

\* The process dies, or the sweep does: its transaction rolls back, and nothing sweeps.
WriterDies(w) ==
    /\ tx[w] # NoTx
    /\ tx' = [tx EXCEPT ![w] = NoTx]
    /\ UNCHANGED <<store, made, staged, late, event, filed, reaped, admin>>
-----------------------------------------------------------------------------
\* reap_expired_uploads: one DELETE, committed, then the sweep of its objects.
Reap ==
    /\ reaped = {} /\ late # {}
    /\ \A f \in late : ~UploadLocked(f)
    /\ reaped' = late
    /\ staged' = staged \ late /\ late' = {}
    /\ UNCHANGED <<store, made, event, filed, tx, admin>>

SweepReaped ==
    /\ reaped # {}
    /\ store' \in {store \ Unreferenced(reaped), store}
    /\ reaped' = {}
    /\ UNCHANGED <<made, staged, late, event, filed, tx, admin>>
-----------------------------------------------------------------------------
\* admin.redact_version, under the event's lock: the proof rows no body shows any more go, and
\* orphaned_source_media picks the files of the version that nothing else is seen to render.
RedactSnapshot(e, k) ==
    LET snapshots == [filed[e] EXCEPT ![k] = Redacted]
        rows == event[e].rows \cap (event[e].body \cup PinnedImages(snapshots))
    IN
    /\ admin = NoAdmin
    /\ event[e].status # "gone" /\ ~EventLocked(e)
    /\ filed[e][k] # Redacted
    /\ filed' = [filed EXCEPT ![e] = snapshots]
    /\ event' = [event EXCEPT ![e].rows = rows]
    /\ admin' = [stage |-> "sweep", event |-> e, objects |-> event[e].rows \ rows,
                 free |-> (filed[e][k].sources \ Named') \ event[e].body]
    /\ UNCHANGED <<store, made, staged, late, tx, reaped>>

\* admin.hard_delete_geolocation: the files are listed ahead of the row's lock.
ListObjects(e) ==
    /\ admin = NoAdmin
    /\ event[e].status \in {"open", "published"}
    /\ admin' = [NoAdmin EXCEPT !.stage = "listed", !.event = e,
                                !.objects = event[e].rows \cup event[e].sources
                                              \cup PinnedSources(filed[e])]
    /\ UNCHANGED <<store, made, staged, late, event, filed, tx, reaped>>

EraseRows ==
    LET e == admin.event IN
    /\ admin.stage = "listed" /\ ~EventLocked(e)
    /\ event' = [event EXCEPT ![e] = [NewEvent EXCEPT !.status = "gone"]]
    /\ filed' = [filed EXCEPT ![e] = <<>>]
    /\ admin' = [admin EXCEPT !.stage = "sweep"]
    /\ UNCHANGED <<store, made, staged, late, tx, reaped>>

\* sweep_unreferenced reads again what names an object; sweep_snapshot_media does not.
SweepAdmin ==
    /\ admin.stage = "sweep"
    /\ store' \in {store \ (admin.free \cup Unreferenced(admin.objects)), store}
    /\ admin' = NoAdmin
    /\ UNCHANGED <<made, staged, late, event, filed, tx, reaped>>

EvidenceNext ==
    \/ \E f \in Files : StageFile(f) \/ UploadExpires(f)
    \/ \E w \in Writers :
          \/ \E e \in Events, takes \in SUBSET Files : BeginWrite(w, e, takes)
          \/ \E i \in Images : StoreImage(w, i)
          \/ CommitCreate(w) \/ CommitCorrection(w) \/ CommitSave(w)
          \/ WriteFailed(w) \/ SweepDropped(w) \/ WriterDies(w)
    \/ Reap \/ SweepReaped
    \/ \E e \in Events : ListObjects(e) \/ \E k \in DOMAIN filed[e] : RedactSnapshot(e, k)
    \/ EraseRows \/ SweepAdmin

EvidenceSpec == EvidenceInit /\ [][EvidenceNext]_evidenceVars
-----------------------------------------------------------------------------
EvidenceTypeOK ==
    /\ store \subseteq made /\ made \subseteq Objects
    /\ late \subseteq staged /\ staged \subseteq Files /\ reaped \subseteq Files
    /\ \A e \in Events :
          /\ event[e].status \in {"none", "open", "published", "gone"}
          /\ event[e].rows \subseteq Images /\ event[e].sources \subseteq Files
          /\ Len(filed[e]) <= MaxFiled
    /\ admin.stage \in {"idle", "listed", "sweep"}

\* One staged file becomes the source of one write: no two events hold it, and its staged row is
\* gone with the commit ("The row lock makes a second write naming the same upload wait, then find
\* it gone", take_uploads).
UploadTakenOnce ==
    \A e \in Events :
        /\ event[e].sources \cap staged = {}
        /\ \A g \in Events \ {e} : event[e].sources \cap event[g].sources = {}

\* Whatever writers, the reaper and the admins do, and wherever they die, no sweep takes a file
\* an event's sources, proof rows or body show, or a source or a proof image of a version that
\* can still be read.
EvidenceStays ==
    /\ staged \subseteq store
    /\ \A e \in Events :
          event[e].sources \cup event[e].rows \cup event[e].body
            \cup PinnedSources(filed[e]) \cup PinnedImages(filed[e]) \subseteq store

\* "The source files of a redacted snapshot that nothing renders any more" (orphaned_source_media):
\* the body of a version that can still be read shows the images it was filed with.
VersionsRender == \A e \in Events : \A k \in DOMAIN filed[e] : filed[e][k].body \subseteq store
=============================================================================
