------------------------- MODULE EvidenceStore_proofs -------------------------
(***************************************************************************)
(* Stored files are taken once and stay, for every set of events, files,   *)
(* images and writers.                                                     *)
(*                                                                         *)
(* The argument is ownership.  An object is fresh (staged, or uploaded by  *)
(* an open write), then shown by one event, and never passes to another;   *)
(* a list of objects to delete names objects that are neither fresh nor    *)
(* another event's, so a sweep has only its own event to spare.            *)
(***************************************************************************)
EXTENDS EvidenceStore, TLAPS

\* What an event shows, itself or through a version that can still be read.
Shown(e) == event[e].sources \cup event[e].rows \cup event[e].body
              \cup PinnedSources(filed[e]) \cup PinnedImages(filed[e])

\* The images of the open writes; what no event holds yet.
Pending == {tx[w].image : w \in Writers} \ {NoImage}
Fresh == staged \cup Pending

\* What an admin's redaction or erasure is about to delete.
Doomed == admin.free \cup admin.objects

-----------------------------------------------------------------------------
EventType == [status : {"none", "open", "published", "gone"}, sources : SUBSET Files,
              rows : SUBSET Images, body : SUBSET Objects]
SnapshotType == [sources : SUBSET Files, body : SUBSET Objects, images : SUBSET Images]
TxType == [stage : {"idle", "open", "sweep"}, event : Events \cup {NoEvent},
           takes : SUBSET Files, image : Images \cup {NoImage}, drop : SUBSET Objects]
AdminType == [stage : {"idle", "listed", "sweep"}, event : Events \cup {NoEvent},
              free : SUBSET Files, objects : SUBSET Objects]

\* The types; a stage past the first names its event, and only an open write holds files.
RowsTyped ==
    /\ store \subseteq made /\ made \subseteq Objects
    /\ late \subseteq staged /\ staged \subseteq Files /\ reaped \subseteq Files
    /\ event \in [Events -> EventType]
    /\ filed \in [Events -> Seq(SnapshotType)]
    /\ \A e \in Events : Len(filed[e]) <= MaxFiled

TxTyped ==
    /\ tx \in [Writers -> TxType]
    /\ \A w \in Writers : tx[w].stage # "idle" => tx[w].event \in Events
    /\ \A w \in Writers : tx[w].stage # "open" => tx[w].takes = {} /\ tx[w].image = NoImage

AdminTyped ==
    /\ admin \in AdminType
    /\ admin.stage # "idle" => admin.event \in Events

Typed == RowsTyped /\ TxTyped /\ AdminTyped

\* An object is fresh or shown by one event, and stored.
ShownOnce ==
    /\ Fresh \subseteq store
    /\ \A e \in Events : Shown(e) \subseteq store /\ Shown(e) \cap Fresh = {}
    /\ \A e, g \in Events : e # g => Shown(e) \cap Shown(g) = {}

\* The proof images of the readable versions keep their rows.
PinsAreRows == \A e \in Events : PinnedImages(filed[e]) \subseteq event[e].rows

\* The rows a write takes are staged, and no other write takes them; no two write one image.
TakesApart ==
    /\ \A w \in Writers : tx[w].takes \subseteq staged
    /\ \A w, v \in Writers :
          w # v => /\ tx[w].takes \cap tx[v].takes = {}
                   /\ tx[w].image = tx[v].image => tx[w].image = NoImage

\* The three lists of objects to delete: of a write, of the reaper, of an admin.
DropsAreOwn ==
    \A w \in Writers :
        /\ tx[w].drop \subseteq made \ Fresh
        /\ \A g \in Events \ {tx[w].event} : tx[w].drop \cap Shown(g) = {}

ReapedIsNobodys ==
    /\ reaped \subseteq made \ Fresh
    /\ \A e \in Events : reaped \cap Shown(e) = {}

DoomedIsOwn ==
    /\ Doomed \subseteq made \ Fresh
    /\ \A g \in Events : g # admin.event \/ admin.stage = "sweep" => Doomed \cap Shown(g) = {}

\* The inductive invariant.
EvidenceIInv ==
    /\ Typed /\ ShownOnce /\ PinsAreRows /\ TakesApart
    /\ DropsAreOwn /\ ReapedIsNobodys /\ DoomedIsOwn

-----------------------------------------------------------------------------
\* Lemmas about what the filed versions pin.
LEMMA NothingPinned == PinnedSources(<<>>) = {} /\ PinnedImages(<<>>) = {}
  BY DEF PinnedSources, PinnedImages

\* Filing one more version pins what it shows, and nothing else.
LEMMA FilingPins ==
  ASSUME NEW s \in Seq(SnapshotType), NEW x \in SnapshotType
  PROVE  /\ PinnedSources(Append(s, x)) = PinnedSources(s) \cup x.sources
         /\ PinnedImages(Append(s, x)) = PinnedImages(s) \cup x.images
  <1>1. /\ DOMAIN s = 1 .. Len(s) /\ DOMAIN Append(s, x) = 1 .. Len(s) + 1
        /\ Len(s) \in Nat
        /\ \A k \in 1 .. Len(s) : Append(s, x)[k] = s[k]
        /\ Append(s, x)[Len(s) + 1] = x
    OBVIOUS
  <1>2. 1 .. Len(s) + 1 = (1 .. Len(s)) \cup {Len(s) + 1}
    BY <1>1
  <1> QED
    BY <1>1, <1>2 DEF PinnedSources, PinnedImages

\* A redacted version pins nothing, and the others what they did.
LEMMA RedactingPins ==
  ASSUME NEW s, NEW k \in DOMAIN s
  PROVE  /\ PinnedSources([s EXCEPT ![k] = Redacted]) \subseteq PinnedSources(s)
         /\ PinnedImages([s EXCEPT ![k] = Redacted]) \subseteq PinnedImages(s)
  <1> DEFINE r == [s EXCEPT ![k] = Redacted]
  <1>1. \A j \in DOMAIN r : j \in DOMAIN s /\ (r[j] = s[j] \/ r[j] = Redacted)
    OBVIOUS
  <1>2. Redacted.sources = {} /\ Redacted.images = {}
    BY DEF Redacted
  <1> HIDE DEF r
  <1> QED
    BY <1>1, <1>2 DEF PinnedSources, PinnedImages

\* A step that leaves the rows alone shows what was shown.
LEMMA SameShown ==
  ASSUME UNCHANGED <<event, filed>>
  PROVE  \A e : Shown(e)' = Shown(e)
  BY DEF Shown, PinnedSources, PinnedImages

\* What a page shows of a row is stored files and images.
LEMMA ShownTyped ==
  ASSUME RowsTyped, NEW e \in Events
  PROVE  /\ PinnedSources(filed[e]) \subseteq Files
         /\ PinnedImages(filed[e]) \subseteq Images
  <1>1. filed[e] \in Seq(SnapshotType)
    BY DEF RowsTyped
  <1>2. \A k \in DOMAIN filed[e] : filed[e][k] \in SnapshotType
    BY <1>1
  <1> QED
    BY <1>2 DEF PinnedSources, PinnedImages, SnapshotType

-----------------------------------------------------------------------------
LEMMA EvidenceInitIInv == EvidenceInit => EvidenceIInv
  <1> SUFFICES ASSUME EvidenceInit
               PROVE  EvidenceIInv
    OBVIOUS
  <1>1. \A e \in Events : event[e] = NewEvent /\ filed[e] = <<>>
    BY DEF EvidenceInit
  <1>2. \A w \in Writers : tx[w] = NoTx
    BY DEF EvidenceInit
  <1>3. Typed
    <2>1. NewEvent \in EventType /\ NoTx \in TxType /\ NoAdmin \in AdminType
      BY DEF NewEvent, EventType, NoTx, TxType, NoAdmin, AdminType
    <2>2. <<>> \in Seq(SnapshotType) /\ Len(<<>>) = 0
      OBVIOUS
    <2>3. RowsTyped
      BY <1>1, <2>1, <2>2, EvidenceAssumption DEF EvidenceInit, RowsTyped
    <2>4. TxTyped
      BY <1>2, <2>1 DEF EvidenceInit, TxTyped, NoTx
    <2>5. AdminTyped
      BY <2>1 DEF EvidenceInit, AdminTyped, NoAdmin
    <2> QED
      BY <2>3, <2>4, <2>5 DEF Typed
  <1>4. Fresh = {} /\ \A e \in Events : Shown(e) = {}
    BY <1>1, <1>2, NothingPinned DEF EvidenceInit, Fresh, Pending, Shown, NewEvent, NoTx
  <1>5. ShownOnce /\ PinsAreRows /\ TakesApart
    BY <1>1, <1>2, <1>4, NothingPinned DEF ShownOnce, PinsAreRows, TakesApart, NoTx
  <1>6. DropsAreOwn /\ ReapedIsNobodys /\ DoomedIsOwn
    BY <1>2, <1>4
    DEF EvidenceInit, DropsAreOwn, ReapedIsNobodys, DoomedIsOwn, Doomed, NoTx, NoAdmin
  <1> QED
    BY <1>3, <1>5, <1>6 DEF EvidenceIInv

\* The three ways to commit a write share CommitRows, over a kept part of the sources and
\* the versions filed so far, perhaps with the state they supersede.
LEMMA Commits ==
  ASSUME Typed, PinsAreRows, NEW w \in Writers,
         CommitCreate(w) \/ CommitCorrection(w) \/ CommitSave(w)
  PROVE  /\ tx[w] \in TxType /\ tx[w].stage = "open" /\ tx[w].event \in Events
         /\ \E status \in {"open", "published"}, snapshots \in Seq(SnapshotType),
               kept \in SUBSET event[tx[w].event].sources, body \in SUBSET Objects :
               /\ Len(snapshots) <= MaxFiled
               /\ PinnedSources(snapshots) \subseteq Shown(tx[w].event)
               /\ PinnedImages(snapshots) \subseteq event[tx[w].event].rows
               /\ CommitRows(w, tx[w].event, status, snapshots, kept, body)
  <1> DEFINE e == tx[w].event
  <1>1. tx[w] \in TxType /\ tx[w].stage = "open" /\ e \in Events
    BY DEF CommitCreate, CommitCorrection, CommitSave, Open, Typed, TxTyped
  <1>2. /\ filed[e] \in Seq(SnapshotType) /\ Len(filed[e]) <= MaxFiled
        /\ event[e] \in EventType /\ PinnedImages(filed[e]) \subseteq event[e].rows
        /\ PinnedSources(filed[e]) \subseteq Shown(e)
    BY <1>1 DEF Typed, RowsTyped, PinsAreRows, Shown
  <1>3. CASE CommitCreate(w)
    <2>1. <<>> \in Seq(SnapshotType) /\ Len(<<>>) <= MaxFiled /\ {} \in SUBSET event[e].sources
      BY EvidenceAssumption
    <2> QED
      BY <1>1, <1>3, <2>1, NothingPinned DEF CommitCreate
  <1>4. CASE CommitCorrection(w)
    BY <1>1, <1>2, <1>4 DEF CommitCorrection
  <1>5. CASE CommitSave(w)
    <2> DEFINE x == Snapshot(event[e])
    <2>1. /\ x \in SnapshotType /\ x.images \subseteq event[e].rows /\ x.sources \subseteq Shown(e)
      BY <1>2 DEF Snapshot, EventType, SnapshotType, Shown
    <2>2. PICK kept \in SUBSET event[e].sources, body \in SUBSET Objects :
             CommitRows(w, e, "published", Append(filed[e], x), kept, body)
      BY <1>5 DEF CommitSave
    <2>3. Len(filed[e]) < MaxFiled
      BY <1>5 DEF CommitSave
    <2> HIDE DEF x
    <2>4. Append(filed[e], x) \in Seq(SnapshotType) /\ Len(Append(filed[e], x)) = Len(filed[e]) + 1
      BY <1>2, <2>1
    <2>5. Len(Append(filed[e], x)) <= MaxFiled
      BY <1>2, <2>3, <2>4, EvidenceAssumption
    <2>6. /\ PinnedSources(Append(filed[e], x)) \subseteq Shown(e)
          /\ PinnedImages(Append(filed[e], x)) \subseteq event[e].rows
      BY <1>2, <2>1, FilingPins
    <2> HIDE DEF e
    <2>7. \E snapshots \in Seq(SnapshotType) :
             /\ snapshots = Append(filed[e], x)
             /\ Len(snapshots) <= MaxFiled
             /\ PinnedSources(snapshots) \subseteq Shown(e)
             /\ PinnedImages(snapshots) \subseteq event[e].rows
             /\ CommitRows(w, e, "published", snapshots, kept, body)
      BY <2>2, <2>4, <2>5, <2>6
    <2> QED
      BY <1>1, <2>7 DEF e
  <1> QED
    BY <1>3, <1>4, <1>5

\* The transaction of a write that has committed and has yet to sweep.
Sweeping(e, drop) == [NoTx EXCEPT !.stage = "sweep", !.event = e, !.drop = drop]

\* What a commit does: the event's objects are those it showed, those the write took and
\* the image it uploaded; the rows it dropped are the event's own.
LEMMA CommitEffect ==
  ASSUME Typed, PinsAreRows, NEW w \in Writers, NEW e, e = tx[w].event,
         CommitCreate(w) \/ CommitCorrection(w) \/ CommitSave(w)
  PROVE  /\ tx[w] \in TxType /\ tx[w].stage = "open" /\ e \in Events
         /\ RowsTyped' /\ PinsAreRows'
         /\ Shown(e)' \subseteq Shown(e) \cup tx[w].takes \cup ({tx[w].image} \ {NoImage})
         /\ \A g \in Events \ {e} : Shown(g)' = Shown(g)
         /\ staged' = staged \ tx[w].takes
         /\ \E drop \in SUBSET Objects :
               drop \subseteq Shown(e) /\ tx' = [tx EXCEPT ![w] = Sweeping(e, drop)]
         /\ UNCHANGED <<store, made, reaped, admin>>
  <1> DEFINE t == tx[w]
             image == {tx[w].image} \ {NoImage}
  <1>1. tx[w] \in TxType /\ tx[w].stage = "open" /\ e \in Events
    BY Commits
  <1>2. PICK status \in {"open", "published"}, snapshots \in Seq(SnapshotType),
               kept \in SUBSET event[e].sources, body \in SUBSET Objects :
               /\ Len(snapshots) <= MaxFiled
               /\ PinnedSources(snapshots) \subseteq Shown(e)
               /\ PinnedImages(snapshots) \subseteq event[e].rows
               /\ CommitRows(w, e, status, snapshots, kept, body)
    BY Commits
  <1> DEFINE sources == kept \cup t.takes
             rows == {m \in event[e].rows : m \in body \cup PinnedImages(snapshots)}
             drop == (event[e].rows \ rows) \cup (event[e].sources \ sources)
             row == [status |-> status, sources |-> sources, rows |-> rows \cup image,
                     body |-> body]
  <1>3. /\ body \subseteq event[e].rows \cup sources \cup PinnedSources(snapshots) \cup image
        /\ event' = [event EXCEPT ![e] = row]
        /\ filed' = [filed EXCEPT ![e] = snapshots]
        /\ staged' = staged \ t.takes /\ late' = late \ t.takes
        /\ tx' = [tx EXCEPT ![w] = Sweeping(e, drop)]
        /\ UNCHANGED <<store, made, reaped, admin>>
    BY <1>2 DEF CommitRows, Sweeping
  <1>4. event \in [Events -> EventType] /\ filed \in [Events -> Seq(SnapshotType)]
    BY DEF Typed, RowsTyped
  <1>5. event[e] \in EventType /\ t.takes \in SUBSET Files /\ image \in SUBSET Images
    BY <1>1, <1>4 DEF TxType
  <1>6. row \in EventType
    BY <1>5 DEF EventType
  <1>7. drop \in SUBSET Objects /\ drop \subseteq Shown(e)
    <2>1. drop \subseteq event[e].rows \cup event[e].sources
      OBVIOUS
    <2> HIDE DEF drop
    <2> QED
      BY <1>5, <2>1 DEF EventType, Objects, Shown
  <1>8. event'[e] = row /\ filed'[e] = snapshots
    BY <1>1, <1>3, <1>4
  <1>9. \A g \in Events \ {e} : event'[g] = event[g] /\ filed'[g] = filed[g]
    BY <1>3, <1>4
  <1>10. Shown(e)' = sources \cup (rows \cup image) \cup body
                       \cup PinnedSources(snapshots) \cup PinnedImages(snapshots)
    <2>1. /\ PinnedSources(filed[e])' = PinnedSources(snapshots)
          /\ PinnedImages(filed[e])' = PinnedImages(snapshots)
      BY <1>8 DEF PinnedSources, PinnedImages
    <2> QED
      BY <1>8, <2>1 DEF Shown
  <1>11. \A g \in Events \ {e} : Shown(g)' = Shown(g)
    BY <1>9 DEF Shown, PinnedSources, PinnedImages
  <1>12. event[e].rows \cup event[e].sources \subseteq Shown(e)
    BY DEF Shown
  <1> HIDE DEF t, image
  <1>13. Shown(e)' \subseteq Shown(e) \cup t.takes \cup image
    BY <1>2, <1>3, <1>10, <1>12
  <1>14. RowsTyped'
    <2>1. event' \in [Events -> EventType]
      BY <1>3, <1>4, <1>6
    <2>2. filed' \in [Events -> Seq(SnapshotType)]
      BY <1>2, <1>3, <1>4
    <2>3. \A g \in Events : Len(filed'[g]) <= MaxFiled
      BY <1>2, <1>8, <1>9 DEF Typed, RowsTyped
    <2> QED
      BY <1>3, <2>1, <2>2, <2>3 DEF Typed, RowsTyped
  <1>15. PinsAreRows'
    <2>1. PinnedImages(snapshots) \subseteq row.rows
      BY <1>2
    <2>2. \A g \in Events : PinnedImages(filed'[g]) \subseteq event'[g].rows
      BY <1>8, <1>9, <2>1 DEF PinsAreRows
    <2> QED
      BY <2>2 DEF PinsAreRows, PinnedImages
  <1> HIDE DEF drop
  <1> QED
    BY <1>1, <1>3, <1>7, <1>11, <1>13, <1>14, <1>15 DEF t, image
-----------------------------------------------------------------------------
\* A step of one writer leaves the others alone.
LEMMA OneWriter ==
  ASSUME TxTyped, NEW w \in Writers, NEW x \in TxType, tx' = [tx EXCEPT ![w] = x],
         x.stage # "idle" => x.event \in Events,
         x.stage # "open" => x.takes = {} /\ x.image = NoImage
  PROVE  /\ TxTyped'
         /\ tx'[w] = x
         /\ \A v \in Writers \ {w} : tx'[v] = tx[v]
         /\ Pending' \subseteq Pending \cup ({x.image} \ {NoImage})
  <1>1. tx \in [Writers -> TxType]
    BY DEF TxTyped
  <1>2. \A v \in Writers : tx'[v] = IF v = w THEN x ELSE tx[v]
    BY <1>1
  <1>3. tx' \in [Writers -> TxType]
    BY <1>1
  <1>4. TxTyped'
    BY <1>2, <1>3 DEF TxTyped
  <1>5. Pending' \subseteq Pending \cup ({x.image} \ {NoImage})
    BY <1>2 DEF Pending
  <1> QED
    BY <1>2, <1>4, <1>5

\* A step that shows what was shown, and that gives out or deletes no object an event or a
\* writer holds, keeps the invariant if each list of objects to delete keeps its promise.
LEMMA RowsAlone ==
  ASSUME EvidenceIInv, UNCHANGED <<event, filed>>,
         RowsTyped', TxTyped', AdminTyped', TakesApart',
         Fresh' \subseteq store',
         \A e \in Events : Shown(e) \cap store \subseteq store',
         \A o \in Fresh' : o \in Fresh \/ o \notin made,
         made \subseteq made',
         \A w \in Writers :
            tx'[w].drop = {} \/ (tx'[w].drop = tx[w].drop /\ tx'[w].event = tx[w].event),
         \A o \in reaped' : o \in reaped \/ (o \in Fresh /\ o \notin Fresh'),
         \/ admin' = NoAdmin \/ admin' = admin
         \/ /\ admin'.stage = "listed" /\ admin'.free = {}
            /\ admin'.event \in Events /\ admin'.objects \subseteq Shown(admin'.event)
  PROVE  EvidenceIInv'
  <1>0. /\ RowsTyped /\ TxTyped /\ ShownOnce /\ PinsAreRows
        /\ DropsAreOwn /\ ReapedIsNobodys /\ DoomedIsOwn
    BY DEF EvidenceIInv, Typed
  <1>1. \A e \in Events : Shown(e)' = Shown(e)
    BY SameShown
  <1>2. store \subseteq made
    BY <1>0 DEF RowsTyped
  <1>3. ShownOnce'
    BY <1>0, <1>1, <1>2 DEF ShownOnce
  <1>4. PinsAreRows'
    BY <1>0 DEF PinsAreRows, PinnedImages
  <1>5. DropsAreOwn'
    BY <1>0, <1>1 DEF DropsAreOwn
  <1>6. ReapedIsNobodys'
    BY <1>0, <1>1, <1>2 DEF ReapedIsNobodys, ShownOnce
  <1>7. DoomedIsOwn'
    <2>1. CASE admin' = NoAdmin
      BY <2>1 DEF DoomedIsOwn, Doomed, NoAdmin
    <2>2. CASE admin' = admin
      BY <1>0, <1>1, <2>2 DEF DoomedIsOwn, Doomed
    <2>3. CASE /\ admin'.stage = "listed" /\ admin'.free = {}
               /\ admin'.event \in Events /\ admin'.objects \subseteq Shown(admin'.event)
      <3>1. Doomed' \subseteq Shown(admin'.event)
        BY <2>3 DEF Doomed
      <3>2. /\ Shown(admin'.event) \subseteq made \ Fresh
            /\ \A g \in Events \ {admin'.event} : Shown(g) \cap Shown(admin'.event) = {}
        BY <1>0, <1>2, <2>3 DEF ShownOnce
      <3>3. Doomed' \subseteq made' \ Fresh'
        BY <3>1, <3>2
      <3>4. \A g \in Events \ {admin'.event} : Doomed' \cap Shown(g)' = {}
        BY <1>1, <3>1, <3>2
      <3> QED
        BY <2>3, <3>3, <3>4 DEF DoomedIsOwn
    <2> QED
      BY <2>1, <2>2, <2>3
  <1> QED
    BY <1>3, <1>4, <1>5, <1>6, <1>7 DEF EvidenceIInv, Typed
-----------------------------------------------------------------------------
\* The uploads.
LEMMA StageStep ==
  ASSUME EvidenceIInv, NEW f \in Files, StageFile(f)
  PROVE  EvidenceIInv'
  <1>0. RowsTyped /\ TxTyped /\ AdminTyped /\ TakesApart /\ ShownOnce
    BY DEF EvidenceIInv, Typed
  <1>1. /\ f \notin made /\ made' = made \cup {f} /\ store' = store \cup {f}
        /\ staged \subseteq staged' /\ staged' \subseteq staged \cup {f}
        /\ UNCHANGED <<late, event, filed, tx, reaped, admin>>
    BY DEF StageFile
  <1>2. Pending' = Pending
    BY <1>1 DEF Pending
  <1>3. RowsTyped'
    BY <1>0, <1>1 DEF RowsTyped, Objects
  <1>4. TxTyped' /\ AdminTyped' /\ TakesApart'
    BY <1>0, <1>1 DEF TxTyped, AdminTyped, TakesApart
  <1>5. /\ Fresh' \subseteq store' /\ \A o \in Fresh' : o \in Fresh \/ o \notin made
    BY <1>0, <1>1, <1>2 DEF Fresh, ShownOnce
  <1> QED
    BY <1>1, <1>3, <1>4, <1>5, RowsAlone

\* The steps that leave the rows alone: the clock, the store of an image, the sweeps.
LEMMA ExpiryStep ==
  ASSUME EvidenceIInv, NEW f \in Files, UploadExpires(f)
  PROVE  EvidenceIInv'
  <1>0. RowsTyped /\ TxTyped /\ AdminTyped /\ TakesApart /\ ShownOnce
    BY DEF EvidenceIInv, Typed
  <1>1. /\ f \in staged /\ late' = late \cup {f}
        /\ UNCHANGED <<store, made, staged, event, filed, tx, reaped, admin>>
    BY DEF UploadExpires
  <1>2. Fresh' = Fresh
    BY <1>1 DEF Fresh, Pending
  <1>3. RowsTyped'
    BY <1>0, <1>1 DEF RowsTyped
  <1>4. TxTyped' /\ AdminTyped' /\ TakesApart'
    BY <1>0, <1>1 DEF TxTyped, AdminTyped, TakesApart
  <1> QED
    BY <1>0, <1>1, <1>2, <1>3, <1>4, RowsAlone DEF ShownOnce

\* The steps of a write.
LEMMA BeginStep ==
  ASSUME EvidenceIInv, NEW w \in Writers, NEW e \in Events, NEW takes \in SUBSET Files,
         BeginWrite(w, e, takes)
  PROVE  EvidenceIInv'
  <1>0. RowsTyped /\ TxTyped /\ AdminTyped /\ TakesApart /\ ShownOnce
    BY DEF EvidenceIInv, Typed
  <1> DEFINE x == [NoTx EXCEPT !.stage = "open", !.event = e, !.takes = takes]
  <1>1. /\ takes \subseteq staged
        /\ \A f \in takes : ~UploadLocked(f)
        /\ tx' = [tx EXCEPT ![w] = x]
        /\ UNCHANGED <<store, made, staged, late, event, filed, reaped, admin>>
    BY DEF BeginWrite
  <1>2. /\ x \in TxType /\ x.stage = "open" /\ x.event = e /\ x.takes = takes
        /\ x.image = NoImage /\ x.drop = {}
    BY DEF TxType, NoTx
  <1> HIDE DEF x
  <1>3. /\ TxTyped' /\ tx'[w] = x /\ \A v \in Writers \ {w} : tx'[v] = tx[v]
        /\ Pending' \subseteq Pending
    BY <1>0, <1>1, <1>2, OneWriter
  <1>4. Fresh' \subseteq Fresh
    BY <1>1, <1>3 DEF Fresh
  <1>5. \A v \in Writers : tx[v].takes \cap takes = {}
    BY <1>0, <1>1 DEF UploadLocked, Open, TxTyped
  <1>6. TakesApart'
    BY <1>0, <1>1, <1>2, <1>3, <1>5 DEF TakesApart
  <1>7. RowsTyped' /\ AdminTyped'
    BY <1>0, <1>1 DEF RowsTyped, AdminTyped
  <1> QED
    BY <1>0, <1>1, <1>2, <1>3, <1>4, <1>6, <1>7, RowsAlone DEF ShownOnce

LEMMA ImageStep ==
  ASSUME EvidenceIInv, NEW w \in Writers, NEW i \in Images, StoreImage(w, i)
  PROVE  EvidenceIInv'
  <1>0. RowsTyped /\ TxTyped /\ AdminTyped /\ TakesApart /\ ShownOnce
    BY DEF EvidenceIInv, Typed
  <1> DEFINE x == [tx[w] EXCEPT !.image = i]
  <1>1. /\ tx[w].stage = "open" /\ i \notin made
        /\ made' = made \cup {i} /\ store' = store \cup {i}
        /\ tx' = [tx EXCEPT ![w] = x]
        /\ UNCHANGED <<staged, late, event, filed, reaped, admin>>
    BY DEF StoreImage, Open
  <1>a. tx[w] \in TxType /\ (tx[w].stage # "idle" => tx[w].event \in Events)
    BY <1>0 DEF TxTyped
  <1>2. /\ x \in TxType /\ x.stage = "open" /\ x.event = tx[w].event
        /\ x.takes = tx[w].takes /\ x.image = i /\ x.drop = tx[w].drop
    BY <1>1, <1>a DEF TxType
  <1> HIDE DEF x
  <1>3. /\ TxTyped' /\ tx'[w] = x /\ \A v \in Writers \ {w} : tx'[v] = tx[v]
        /\ Pending' \subseteq Pending \cup {i}
    BY <1>0, <1>1, <1>2, <1>a, OneWriter
  <1>4. Fresh' \subseteq Fresh \cup {i}
    BY <1>1, <1>3 DEF Fresh
  <1>5. \A v \in Writers : tx[v].image # i
    <2>1. \A v \in Writers : tx[v].image # NoImage => tx[v].image \in Pending
      BY DEF Pending
    <2>2. i # NoImage
      BY EvidenceAssumption
    <2> QED
      BY <1>0, <1>1, <2>1, <2>2 DEF Fresh, ShownOnce, RowsTyped
  <1>6. TakesApart'
    BY <1>0, <1>1, <1>2, <1>3, <1>5 DEF TakesApart
  <1>7. RowsTyped' /\ AdminTyped'
    BY <1>0, <1>1 DEF RowsTyped, AdminTyped, Objects
  <1>8. Fresh' \subseteq store' /\ \A o \in Fresh' : o \in Fresh \/ o \notin made
    BY <1>0, <1>1, <1>4 DEF ShownOnce
  <1> QED
    BY <1>1, <1>2, <1>3, <1>6, <1>7, <1>8, RowsAlone

\* The write ends with nothing swept, or with what nothing names; its image goes with it if
\* it failed.
LEMMA EndStep ==
  ASSUME EvidenceIInv, NEW w \in Writers, WriteFailed(w) \/ SweepDropped(w) \/ WriterDies(w)
  PROVE  EvidenceIInv'
  <1>0. /\ RowsTyped /\ TxTyped /\ AdminTyped /\ TakesApart /\ ShownOnce /\ PinsAreRows
        /\ DropsAreOwn
    BY DEF EvidenceIInv, Typed
  <1>1. /\ tx' = [tx EXCEPT ![w] = NoTx] /\ store' \subseteq store
        /\ UNCHANGED <<made, staged, late, event, filed, reaped, admin>>
    BY DEF WriteFailed, SweepDropped, WriterDies
  <1>2. /\ NoTx \in TxType /\ NoTx.stage = "idle" /\ NoTx.takes = {} /\ NoTx.image = NoImage
        /\ NoTx.drop = {}
    BY DEF TxType, NoTx
  <1>3. /\ TxTyped' /\ tx'[w] = NoTx /\ \A v \in Writers \ {w} : tx'[v] = tx[v]
        /\ Pending' \subseteq Pending
    BY <1>0, <1>1, <1>2, OneWriter
  <1>4. Fresh' \subseteq Fresh
    BY <1>1, <1>3 DEF Fresh
  <1>5. TakesApart'
    BY <1>0, <1>1, <1>2, <1>3 DEF TakesApart
  <1>6. RowsTyped' /\ AdminTyped'
    BY <1>0, <1>1 DEF RowsTyped, AdminTyped
  <1>7. Fresh' \subseteq store' /\ \A g \in Events : Shown(g) \subseteq store'
    <2>1. CASE WriteFailed(w)
      <3>1. store' = store \ {tx[w].image}
        BY <2>1 DEF WriteFailed
      <3>2. NoImage \notin store
        BY <1>0, EvidenceAssumption DEF RowsTyped, Objects
      <3>3. tx[w].image \notin Pending'
        BY <1>0, <1>2, <1>3 DEF Pending, TakesApart
      <3>4. tx[w].image \notin staged
        <4>1. tx[w].image \in Images \cup {NoImage} /\ staged \subseteq Files
          BY <1>0 DEF TxTyped, TxType, RowsTyped
        <4> QED
          BY <4>1, EvidenceAssumption
      <3>5. \A g \in Events : tx[w].image \notin Shown(g)
        <4>1. tx[w].image # NoImage => tx[w].image \in Fresh
          BY DEF Fresh, Pending
        <4> QED
          BY <1>0, <3>2, <4>1 DEF ShownOnce
      <3> QED
        BY <1>0, <1>1, <1>4, <3>1, <3>3, <3>4, <3>5 DEF ShownOnce, Fresh
    <2>2. CASE SweepDropped(w)
      <3> DEFINE e == tx[w].event
                 swept == Unreferenced(tx[w].drop \ event[e].body)
      <3>1. store' = store \ swept /\ e \in Events
        BY <1>0, <2>2 DEF SweepDropped, TxTyped
      <3>2. \A g \in Events : (event[g].sources \cup event[g].rows \cup PinnedSources(filed[g]))
                                 \cap swept = {}
        BY DEF Unreferenced, Named
      <3>3. Shown(e) \cap swept = {}
        BY <1>0, <3>1, <3>2 DEF Shown, PinsAreRows, Unreferenced
      <3>4. swept \subseteq tx[w].drop
        BY DEF Unreferenced
      <3> HIDE DEF swept
      <3>5. \A g \in Events \ {e} : Shown(g) \cap swept = {}
        BY <1>0, <3>4 DEF DropsAreOwn
      <3>6. Fresh \cap swept = {}
        BY <1>0, <3>4 DEF DropsAreOwn
      <3> QED
        BY <1>0, <1>4, <3>1, <3>3, <3>5, <3>6 DEF ShownOnce
    <2>3. CASE WriterDies(w)
      BY <1>0, <1>4, <2>3 DEF WriterDies, ShownOnce
    <2> QED
      BY <2>1, <2>2, <2>3
  <1> QED
    BY <1>1, <1>2, <1>3, <1>4, <1>5, <1>6, <1>7, RowsAlone
\* A commit moves what the write held from the fresh objects to its event's, and lists
\* what the event no longer shows.
LEMMA CommitStep ==
  ASSUME EvidenceIInv, NEW w \in Writers,
         CommitCreate(w) \/ CommitCorrection(w) \/ CommitSave(w)
  PROVE  EvidenceIInv'
  <1>0. /\ Typed /\ RowsTyped /\ TxTyped /\ AdminTyped /\ TakesApart /\ ShownOnce /\ PinsAreRows
        /\ DropsAreOwn /\ ReapedIsNobodys /\ DoomedIsOwn
    BY DEF EvidenceIInv, Typed
  <1> DEFINE image == {tx[w].image} \ {NoImage}
  <1>1. PICK e : e = tx[w].event
    OBVIOUS
  <1>2. /\ tx[w] \in TxType /\ tx[w].stage = "open" /\ e \in Events
        /\ RowsTyped' /\ PinsAreRows'
        /\ Shown(e)' \subseteq Shown(e) \cup tx[w].takes \cup image
        /\ \A g \in Events \ {e} : Shown(g)' = Shown(g)
        /\ staged' = staged \ tx[w].takes
        /\ UNCHANGED <<store, made, reaped, admin>>
    BY <1>0, <1>1, CommitEffect
  <1>3. PICK drop \in SUBSET Objects :
           drop \subseteq Shown(e) /\ tx' = [tx EXCEPT ![w] = Sweeping(e, drop)]
    BY <1>0, <1>1, CommitEffect
  <1> DEFINE x == Sweeping(e, drop)
  <1>4. /\ x \in TxType /\ x.stage = "sweep" /\ x.event = e /\ x.drop = drop
        /\ x.takes = {} /\ x.image = NoImage
    BY <1>2 DEF Sweeping, TxType, NoTx
  <1> HIDE DEF x
  <1>5. tx' = [tx EXCEPT ![w] = x]
    BY <1>3 DEF x
  <1>6. /\ TxTyped' /\ tx'[w] = x /\ \A v \in Writers \ {w} : tx'[v] = tx[v]
    BY <1>0, <1>2, <1>4, <1>5, OneWriter
  <1>7. Pending' \subseteq Pending \ image
    BY <1>0, <1>4, <1>6 DEF Pending, TakesApart
  <1> DEFINE held == tx[w].takes \cup image
  <1>8. held \subseteq Fresh
    BY <1>0 DEF Fresh, Pending, TakesApart
  <1>9. Fresh' \subseteq Fresh \ held
    <2>1. tx[w].takes \cap Pending = {} /\ image \cap staged = {}
      <3>1. tx[w].takes \subseteq Files /\ staged \subseteq Files /\ image \subseteq Images
        BY <1>0, <1>2 DEF TxType, RowsTyped
      <3>2. Pending \subseteq Images
        BY <1>0 DEF Pending, TxTyped, TxType
      <3> QED
        BY <3>1, <3>2, EvidenceAssumption
    <2> QED
      BY <1>2, <1>7, <2>1 DEF Fresh
  <1> HIDE DEF held
  <1>10. Shown(e)' \subseteq Shown(e) \cup held
    BY <1>2 DEF held
  <1>11. ShownOnce'
    <2>1. \A g \in Events : Shown(g)' \subseteq Shown(g) \cup (IF g = e THEN held ELSE {})
      BY <1>2, <1>10
    <2> QED
      BY <1>0, <1>2, <1>8, <1>9, <2>1 DEF ShownOnce
  <1>12. TakesApart'
    BY <1>0, <1>2, <1>4, <1>6 DEF TakesApart
  <1>13. DropsAreOwn'
    <2>1. drop \subseteq made' \ Fresh' /\ \A g \in Events \ {e} : drop \cap Shown(g)' = {}
      BY <1>0, <1>2, <1>3, <1>9 DEF ShownOnce, RowsTyped
    <2>2. ASSUME NEW v \in Writers \ {w}
          PROVE  /\ tx[v].drop \subseteq made' \ Fresh'
                 /\ \A g \in Events \ {tx[v].event} : tx[v].drop \cap Shown(g)' = {}
      BY <1>0, <1>2, <1>8, <1>9, <1>10 DEF DropsAreOwn
    <2> QED
      BY <1>4, <1>6, <2>1, <2>2 DEF DropsAreOwn
  <1>14. ReapedIsNobodys'
    BY <1>0, <1>2, <1>8, <1>9, <1>10 DEF ReapedIsNobodys
  <1>15. DoomedIsOwn'
    <2>1. Doomed' = Doomed
      BY <1>2 DEF Doomed
    <2> QED
      BY <1>0, <1>2, <1>8, <1>9, <1>10, <2>1 DEF DoomedIsOwn
  <1>16. AdminTyped'
    BY <1>0, <1>2 DEF AdminTyped
  <1> QED
    BY <1>2, <1>6, <1>11, <1>12, <1>13, <1>14, <1>15, <1>16 DEF EvidenceIInv, Typed

-----------------------------------------------------------------------------
\* The reaper: the lock of a taken row holds its DELETE, so no write loses what it took.
LEMMA ReapStep ==
  ASSUME EvidenceIInv, Reap
  PROVE  EvidenceIInv'
  <1>0. RowsTyped /\ TxTyped /\ AdminTyped /\ TakesApart /\ ShownOnce
    BY DEF EvidenceIInv, Typed
  <1>1. /\ \A f \in late : ~UploadLocked(f)
        /\ reaped' = late /\ staged' = staged \ late /\ late' = {}
        /\ UNCHANGED <<store, made, event, filed, tx, admin>>
    BY DEF Reap
  <1>2. late \subseteq staged /\ staged \subseteq Files
    BY <1>0 DEF RowsTyped
  <1>3. \A w \in Writers : tx[w].takes \cap late = {}
    BY <1>0, <1>1 DEF UploadLocked, Open, TxTyped
  <1>4. TakesApart'
    BY <1>0, <1>1, <1>3 DEF TakesApart
  <1>5. Pending' = Pending
    BY <1>1 DEF Pending
  <1>6. Fresh' \subseteq Fresh /\ \A o \in late : o \in Fresh /\ o \notin Fresh'
    <2>1. Pending \subseteq Images
      BY <1>0 DEF Pending, TxTyped, TxType
    <2> QED
      BY <1>1, <1>2, <1>5, <2>1, EvidenceAssumption DEF Fresh
  <1>7. RowsTyped' /\ TxTyped' /\ AdminTyped'
    BY <1>0, <1>1, <1>2 DEF RowsTyped, TxTyped, AdminTyped
  <1> QED
    BY <1>0, <1>1, <1>4, <1>6, <1>7, RowsAlone DEF ShownOnce

LEMMA SweepReapedStep ==
  ASSUME EvidenceIInv, SweepReaped
  PROVE  EvidenceIInv'
  <1>0. RowsTyped /\ TxTyped /\ AdminTyped /\ TakesApart /\ ShownOnce /\ ReapedIsNobodys
    BY DEF EvidenceIInv, Typed
  <1>1. /\ store' \subseteq store /\ store \ reaped \subseteq store'
        /\ reaped' = {}
        /\ UNCHANGED <<made, staged, late, event, filed, tx, admin>>
    BY DEF SweepReaped, Unreferenced
  <1>2. Fresh' = Fresh
    BY <1>1 DEF Fresh, Pending
  <1>3. RowsTyped' /\ TxTyped' /\ AdminTyped' /\ TakesApart'
    BY <1>0, <1>1 DEF RowsTyped, TxTyped, AdminTyped, TakesApart
  <1>4. Fresh' \subseteq store' /\ \A g \in Events : Shown(g) \subseteq store'
    BY <1>0, <1>1, <1>2 DEF ShownOnce, ReapedIsNobodys
  <1> QED
    BY <1>1, <1>2, <1>3, <1>4, RowsAlone

-----------------------------------------------------------------------------
\* The admin.
LEMMA ListStep ==
  ASSUME EvidenceIInv, NEW e \in Events, ListObjects(e)
  PROVE  EvidenceIInv'
  <1>0. RowsTyped /\ TxTyped /\ AdminTyped /\ TakesApart /\ ShownOnce
    BY DEF EvidenceIInv, Typed
  <1> DEFINE objects == event[e].rows \cup event[e].sources \cup PinnedSources(filed[e])
  <1>1. /\ admin' = [NoAdmin EXCEPT !.stage = "listed", !.event = e, !.objects = objects]
        /\ UNCHANGED <<store, made, staged, late, event, filed, tx, reaped>>
    BY DEF ListObjects
  <1>2. objects \subseteq Shown(e) /\ objects \subseteq Objects
    <2>1. Shown(e) \subseteq Objects
      BY <1>0 DEF ShownOnce, RowsTyped
    <2> QED
      BY <2>1 DEF Shown
  <1> HIDE DEF objects
  <1>3. /\ admin' \in AdminType /\ admin'.stage = "listed" /\ admin'.event = e
        /\ admin'.free = {} /\ admin'.objects = objects
    BY <1>1, <1>2 DEF AdminType, NoAdmin
  <1>4. Fresh' = Fresh
    BY <1>1 DEF Fresh, Pending
  <1>5. RowsTyped' /\ TxTyped' /\ AdminTyped' /\ TakesApart'
    BY <1>0, <1>1, <1>3 DEF RowsTyped, TxTyped, AdminTyped, TakesApart
  <1> QED
    BY <1>0, <1>1, <1>2, <1>3, <1>4, <1>5, RowsAlone DEF ShownOnce

LEMMA SweepAdminStep ==
  ASSUME EvidenceIInv, SweepAdmin
  PROVE  EvidenceIInv'
  <1>0. RowsTyped /\ TxTyped /\ AdminTyped /\ TakesApart /\ ShownOnce /\ DoomedIsOwn
    BY DEF EvidenceIInv, Typed
  <1>1. /\ store' \subseteq store /\ store \ Doomed \subseteq store'
        /\ admin.stage = "sweep" /\ admin' = NoAdmin
        /\ UNCHANGED <<made, staged, late, event, filed, tx, reaped>>
    BY DEF SweepAdmin, Unreferenced, Doomed
  <1>2. Fresh' = Fresh
    BY <1>1 DEF Fresh, Pending
  <1>3. RowsTyped' /\ TxTyped' /\ AdminTyped' /\ TakesApart'
    BY <1>0, <1>1 DEF RowsTyped, TxTyped, AdminTyped, AdminType, NoAdmin, TakesApart
  <1>4. Fresh' \subseteq store' /\ \A g \in Events : Shown(g) \subseteq store'
    BY <1>0, <1>1, <1>2 DEF ShownOnce, DoomedIsOwn
  <1> QED
    BY <1>1, <1>2, <1>3, <1>4, RowsAlone
\* The rows go, and what the event still shows shrinks with the redacted version: what the
\* redaction is about to delete is what nothing of the event shows.
LEMMA RedactionStep ==
  ASSUME EvidenceIInv, NEW e \in Events, NEW k \in DOMAIN filed[e], RedactSnapshot(e, k)
  PROVE  EvidenceIInv'
  <1>0. /\ RowsTyped /\ TxTyped /\ AdminTyped /\ TakesApart /\ ShownOnce /\ PinsAreRows
        /\ DropsAreOwn /\ ReapedIsNobodys
    BY DEF EvidenceIInv, Typed
  <1> DEFINE snapshots == [filed[e] EXCEPT ![k] = Redacted]
             rows == event[e].rows \cap (event[e].body \cup PinnedImages(snapshots))
             objects == event[e].rows \ rows
             free == (filed[e][k].sources \ Named') \ event[e].body
  <1>1. /\ filed' = [filed EXCEPT ![e] = snapshots]
        /\ event' = [event EXCEPT ![e].rows = rows]
        /\ admin' = [stage |-> "sweep", event |-> e, objects |-> objects, free |-> free]
        /\ UNCHANGED <<store, made, staged, late, tx, reaped>>
    BY DEF RedactSnapshot
  <1>2. /\ event \in [Events -> EventType] /\ event[e] \in EventType
        /\ filed \in [Events -> Seq(SnapshotType)] /\ filed[e] \in Seq(SnapshotType)
        /\ filed[e][k] \in SnapshotType
    BY <1>0 DEF RowsTyped
  <1>3. snapshots \in Seq(SnapshotType) /\ Len(snapshots) = Len(filed[e])
    <2>1. Redacted \in SnapshotType
      BY DEF Redacted, SnapshotType
    <2> QED
      BY <1>2, <2>1
  <1>4. /\ PinnedSources(snapshots) \subseteq PinnedSources(filed[e])
        /\ PinnedImages(snapshots) \subseteq PinnedImages(filed[e])
    BY RedactingPins
  <1>5. filed[e][k].sources \subseteq PinnedSources(filed[e])
    BY DEF PinnedSources
  <1> HIDE DEF snapshots
  <1>6. /\ event'[e] = [event[e] EXCEPT !.rows = rows] /\ filed'[e] = snapshots
        /\ \A g \in Events \ {e} : event'[g] = event[g] /\ filed'[g] = filed[g]
    BY <1>1, <1>2
  <1>7. Shown(e)' = event[e].sources \cup rows \cup event[e].body
                      \cup PinnedSources(snapshots) \cup PinnedImages(snapshots)
    <2>1. /\ event'[e].sources = event[e].sources /\ event'[e].rows = rows
          /\ event'[e].body = event[e].body
      BY <1>2, <1>6 DEF EventType
    <2>2. /\ PinnedSources(filed[e])' = PinnedSources(snapshots)
          /\ PinnedImages(filed[e])' = PinnedImages(snapshots)
      BY <1>6 DEF PinnedSources, PinnedImages
    <2> QED
      BY <2>1, <2>2 DEF Shown
  <1>8. \A g \in Events \ {e} : Shown(g)' = Shown(g)
    BY <1>6 DEF Shown, PinnedSources, PinnedImages
  <1>9. /\ rows \subseteq Shown(e) /\ objects \subseteq Shown(e) /\ free \subseteq Shown(e)
        /\ Shown(e)' \subseteq Shown(e)
    BY <1>4, <1>5, <1>7 DEF Shown
  <1>10. (free \cup objects) \cap Shown(e)' = {}
    <2>1. /\ event[e].sources \subseteq Files /\ rows \subseteq Images /\ objects \subseteq Images
          /\ free \subseteq Files
          /\ PinnedSources(snapshots) \subseteq Files /\ PinnedImages(snapshots) \subseteq Images
      <3>1. PinnedSources(filed[e]) \subseteq Files /\ PinnedImages(filed[e]) \subseteq Images
        BY <1>0, ShownTyped
      <3> QED
        BY <1>2, <1>4, <3>1 DEF EventType, SnapshotType
    <2>2. objects \cap (event[e].body \cup PinnedImages(snapshots) \cup rows) = {}
      OBVIOUS
    <2>3. free \cap (event[e].sources \cup PinnedSources(snapshots)) = {}
      <3>1. event'[e].sources = event[e].sources
        BY <1>2, <1>6 DEF EventType
      <3>2. PinnedSources(filed[e])' = PinnedSources(snapshots)
        BY <1>6 DEF PinnedSources
      <3>3. event'[e].sources \cup PinnedSources(filed[e])' \subseteq Named'
        BY DEF Named
      <3> HIDE DEF rows
      <3> QED
        BY <3>1, <3>2, <3>3
    <2>4. free \cap event[e].body = {}
      OBVIOUS
    <2> HIDE DEF rows, objects, free
    <2> QED
      BY <1>7, <2>1, <2>2, <2>3, <2>4, EvidenceAssumption
  <1> HIDE DEF free, objects
  <1>11. Fresh' = Fresh
    BY <1>1 DEF Fresh, Pending
  <1>12. RowsTyped'
    <2>1. event' \in [Events -> EventType]
      <3>1. [event[e] EXCEPT !.rows = rows] \in EventType
        BY <1>2 DEF EventType
      <3> QED
        BY <1>1, <1>2, <3>1
    <2>2. filed' \in [Events -> Seq(SnapshotType)]
      BY <1>1, <1>2, <1>3
    <2>3. \A g \in Events : Len(filed'[g]) <= MaxFiled
      BY <1>0, <1>3, <1>6 DEF RowsTyped
    <2> QED
      BY <1>0, <1>1, <2>1, <2>2, <2>3 DEF RowsTyped
  <1>13. PinsAreRows'
    <2>1. PinnedImages(snapshots) \subseteq rows
      BY <1>0, <1>4 DEF PinsAreRows
    <2>2. event'[e].rows = rows
      BY <1>2, <1>6 DEF EventType
    <2>3. \A g \in Events : PinnedImages(filed'[g]) \subseteq event'[g].rows
      BY <1>0, <1>6, <2>1, <2>2 DEF PinsAreRows
    <2> QED
      BY <2>3 DEF PinsAreRows, PinnedImages
  <1>14. TxTyped' /\ TakesApart'
    BY <1>0, <1>1 DEF TxTyped, TakesApart
  <1>15. free \cup objects \subseteq Objects
    BY <1>0, <1>9 DEF ShownOnce, RowsTyped
  <1>16. AdminTyped'
    <2>1. free \subseteq Files
      BY <1>2 DEF free, SnapshotType
    <2> QED
      BY <1>1, <1>15, <2>1 DEF AdminTyped, AdminType
  <1> HIDE DEF rows
  <1>17. ShownOnce'
    BY <1>0, <1>1, <1>8, <1>9, <1>11 DEF ShownOnce
  <1>18. DropsAreOwn' /\ ReapedIsNobodys'
    BY <1>0, <1>1, <1>8, <1>9, <1>11 DEF DropsAreOwn, ReapedIsNobodys
  <1>19. DoomedIsOwn'
    <2>1. Doomed' = free \cup objects /\ admin'.event = e
      BY <1>1 DEF Doomed
    <2>2. Doomed' \subseteq made' \ Fresh'
      BY <1>0, <1>1, <1>9, <1>11, <2>1 DEF ShownOnce, RowsTyped
    <2>3. \A g \in Events : Doomed' \cap Shown(g)' = {}
      BY <1>0, <1>8, <1>9, <1>10, <2>1 DEF ShownOnce
    <2> QED
      BY <2>2, <2>3 DEF DoomedIsOwn
  <1> QED
    BY <1>12, <1>13, <1>14, <1>16, <1>17, <1>18, <1>19 DEF EvidenceIInv, Typed

\* The event shows nothing any more, so what was listed of it is nobody's.
LEMMA ErasureStep ==
  ASSUME EvidenceIInv, EraseRows
  PROVE  EvidenceIInv'
  <1>0. /\ RowsTyped /\ TxTyped /\ AdminTyped /\ TakesApart /\ ShownOnce /\ PinsAreRows
        /\ DropsAreOwn /\ ReapedIsNobodys /\ DoomedIsOwn
    BY DEF EvidenceIInv, Typed
  <1>1. PICK e : e = admin.event
    OBVIOUS
  <1> DEFINE gone == [NewEvent EXCEPT !.status = "gone"]
  <1>2. /\ admin.stage = "listed" /\ e \in Events
        /\ event' = [event EXCEPT ![e] = gone]
        /\ filed' = [filed EXCEPT ![e] = <<>>]
        /\ admin' = [admin EXCEPT !.stage = "sweep"]
        /\ UNCHANGED <<store, made, staged, late, tx, reaped>>
    BY <1>0, <1>1 DEF EraseRows, AdminTyped
  <1>3. /\ gone \in EventType /\ gone.sources = {} /\ gone.rows = {} /\ gone.body = {}
    BY DEF EventType, NewEvent
  <1> HIDE DEF gone
  <1>4. /\ event \in [Events -> EventType] /\ filed \in [Events -> Seq(SnapshotType)]
        /\ admin \in AdminType
    BY <1>0 DEF RowsTyped, AdminTyped
  <1>5. /\ event'[e] = gone /\ filed'[e] = <<>>
        /\ \A g \in Events \ {e} : event'[g] = event[g] /\ filed'[g] = filed[g]
    BY <1>2, <1>4
  <1>6. PinnedSources(filed[e])' = {} /\ PinnedImages(filed[e])' = {}
    BY <1>5, NothingPinned DEF PinnedSources, PinnedImages
  <1>7. Shown(e)' = {}
    BY <1>3, <1>5, <1>6 DEF Shown
  <1>8. \A g \in Events \ {e} : Shown(g)' = Shown(g)
    BY <1>5 DEF Shown, PinnedSources, PinnedImages
  <1>9. Fresh' = Fresh
    BY <1>2 DEF Fresh, Pending
  <1>10. RowsTyped'
    <2>1. <<>> \in Seq(SnapshotType) /\ Len(<<>>) <= MaxFiled
      BY EvidenceAssumption
    <2>2. event' \in [Events -> EventType] /\ filed' \in [Events -> Seq(SnapshotType)]
      BY <1>2, <1>3, <1>4, <2>1
    <2>3. \A g \in Events : Len(filed'[g]) <= MaxFiled
      BY <1>0, <1>5, <2>1 DEF RowsTyped
    <2> QED
      BY <1>0, <1>2, <2>2, <2>3 DEF RowsTyped
  <1>11. PinsAreRows'
    <2>1. \A g \in Events \ {e} : PinnedImages(filed[g])' \subseteq event'[g].rows
      BY <1>0, <1>5 DEF PinsAreRows, PinnedImages
    <2> QED
      BY <1>6, <2>1 DEF PinsAreRows
  <1>12. /\ admin'.stage = "sweep" /\ admin'.event = e /\ admin' \in AdminType
         /\ Doomed' = Doomed
    BY <1>1, <1>2, <1>4 DEF AdminType, Doomed
  <1>13. TxTyped' /\ TakesApart' /\ AdminTyped'
    BY <1>0, <1>2, <1>12 DEF TxTyped, TakesApart, AdminTyped
  <1>14. ShownOnce'
    BY <1>0, <1>2, <1>7, <1>8, <1>9 DEF ShownOnce
  <1>15. DropsAreOwn' /\ ReapedIsNobodys'
    BY <1>0, <1>2, <1>7, <1>8, <1>9 DEF DropsAreOwn, ReapedIsNobodys
  <1>16. DoomedIsOwn'
    BY <1>0, <1>1, <1>2, <1>7, <1>8, <1>9, <1>12 DEF DoomedIsOwn
  <1> QED
    BY <1>10, <1>11, <1>13, <1>14, <1>15, <1>16 DEF EvidenceIInv, Typed

-----------------------------------------------------------------------------
LEMMA EvidenceInvariance == EvidenceSpec => []EvidenceIInv
  <1>1. ASSUME EvidenceIInv, UNCHANGED evidenceVars
        PROVE  EvidenceIInv'
    <2>1. Fresh' = Fresh /\ Doomed' = Doomed
      BY <1>1 DEF evidenceVars, Fresh, Pending, Doomed
    <2>2. \A e : Shown(e)' = Shown(e)
      BY <1>1, SameShown DEF evidenceVars
    <2>3. Typed' /\ PinsAreRows'
      BY <1>1 DEF EvidenceIInv, evidenceVars, Typed, RowsTyped, TxTyped, AdminTyped, PinsAreRows,
                  PinnedImages
    <2> QED
      BY <1>1, <2>1, <2>2, <2>3
      DEF EvidenceIInv, evidenceVars, ShownOnce, TakesApart, DropsAreOwn, ReapedIsNobodys,
          DoomedIsOwn
  <1>2. EvidenceIInv /\ EvidenceNext => EvidenceIInv'
    BY StageStep, ExpiryStep, BeginStep, ImageStep, CommitStep, EndStep, ReapStep,
       SweepReapedStep, ListStep, RedactionStep, ErasureStep, SweepAdminStep
    DEF EvidenceNext
  <1>3. EvidenceIInv /\ [EvidenceNext]_evidenceVars => EvidenceIInv'
    BY <1>1, <1>2
  <1> QED
    BY EvidenceInitIInv, <1>3, PTL DEF EvidenceSpec

\* Every reachable state is well typed.
THEOREM EvidenceTypes == EvidenceSpec => []EvidenceTypeOK
  <1>1. EvidenceIInv => EvidenceTypeOK
    BY DEF EvidenceIInv, Typed, RowsTyped, AdminTyped, EventType, AdminType, EvidenceTypeOK
  <1> QED
    BY <1>1, EvidenceInvariance, PTL

\* No staged file becomes a source of two events, whatever writers race for it and whenever
\* the reaper runs.
THEOREM TakenOnce == EvidenceSpec => []UploadTakenOnce
  <1>1. EvidenceIInv => UploadTakenOnce
    BY DEF EvidenceIInv, ShownOnce, Shown, Fresh, UploadTakenOnce
  <1> QED
    BY <1>1, EvidenceInvariance, PTL

\* No sweep, of a save, of the reaper or of an admin, deletes a file that an event or a
\* version of it that can still be read shows, and no failure in between does.
THEOREM FilesStay == EvidenceSpec => []EvidenceStays
  <1>1. EvidenceIInv => EvidenceStays
    BY DEF EvidenceIInv, ShownOnce, Shown, Fresh, EvidenceStays
  <1> QED
    BY <1>1, EvidenceInvariance, PTL
===============================================================================
