---------------------------- MODULE SourceUploads ----------------------------
(***************************************************************************)
(* The sources of an event form (components/sources/SourcesField.tsx,      *)
(* lib/sources.ts): a file given to a source uploads on a request of its   *)
(* own while the reader goes on editing, its answer finds the source again *)
(* by key and token, and the frames of a GIF become sources of their own.  *)
(* A write waits for the uploads: on the submit form by the gate of every  *)
(* click (useEventWrite), on a published event's form by the gate of the   *)
(* click that opens the panel of the version's note (usePublishAction).    *)
(***************************************************************************)
EXTENDS Integers, Sequences, FiniteSets

CONSTANTS
    MaxSources,    \* MAX_SOURCES_PER_EVENT
    Frames,        \* the files a picked one may split into
    MaxPicks,      \* bound on the files given to the form
    MaxKeys,       \* bound on the sources one page makes
    MaxReloads,    \* bound on the loads of the page after the first
    NoPost

ASSUME SourcesAssumption ==
    /\ MaxSources \in Nat \ {0} /\ MaxPicks \in Nat /\ MaxKeys \in Nat /\ MaxReloads \in Nat
    /\ Frames \subseteq Nat \ {0}

VARIABLES
    page,      \* "submit", or "version": the edit form of a published event
    sources,   \* the form's list: key, level, file, and the pick its reader gave it (history)
    made,      \* keyCounter
    tokens,    \* uploadToken
    uploads,   \* the requests of this page to POST /uploads, /uploads/from-link, /uploads/from-proof
    asking,    \* the panel of the version's note is open
    posted,    \* what the write named of each source's file, and whether it was on its way (history)
    picks,     \* the files given so far, which number the picks
    reloads

sourcesVars == <<page, sources, made, tokens, uploads, asking, posted, picks, reloads>>

Levels == {"direct", "context"}
Evidence == {"direct"}
Ways == {"upload", "import", "copy"}

NoFile == [state |-> "none", way |-> "none", token |-> 0, pick |-> 0, frame |-> 0]
Running(f) == f.state = "running"
Staged(f) == f.state = "staged"
Refused(f) == [NoFile EXCEPT !.state = "failed", !.pick = f.pick]

NewSource(k) == [key |-> k, level |-> "direct", file |-> NoFile, given |-> 0]

\* The editors a form opens on: one blank, or the stored source of the event.
Seed ==
    IF page = "submit" THEN <<NewSource(1)>>
    ELSE <<[NewSource(1) EXCEPT !.file = [NoFile EXCEPT !.state = "stored"]]>>

\* holdsFile counts a file on its way; sourceFloor and uploadsRunning.
Holds(d) == d.file.state \notin {"none", "failed"}
HasEvidence == \E i \in DOMAIN sources : sources[i].level \in Evidence /\ Holds(sources[i])
Held == \E i \in DOMAIN sources : Running(sources[i].file)

SourcesInit ==
    /\ page \in {"submit", "version"}
    /\ sources = Seed
    /\ made = 1 /\ tokens = 0 /\ picks = 0 /\ reloads = 0
    /\ uploads = {}
    /\ asking = FALSE
    /\ posted = NoPost
-----------------------------------------------------------------------------
\* A press outside the panel closes it (useDismiss); a key or a dropped file does not.
PanelMayClose == asking' \in {asking, FALSE}

AddSource ==
    /\ Len(sources) < MaxSources /\ made < MaxKeys
    /\ made' = made + 1
    /\ sources' = Append(sources, NewSource(made'))
    /\ PanelMayClose
    /\ UNCHANGED <<page, tokens, uploads, posted, picks, reloads>>

RemoveSource(i) ==
    /\ Len(sources) > 1
    /\ sources' = [n \in 1 .. Len(sources) - 1 |-> sources[IF n < i THEN n ELSE n + 1]]
    /\ PanelMayClose
    /\ UNCHANGED <<page, made, tokens, uploads, posted, picks, reloads>>

\* moveDraft: a source and the one after it change places.
MoveSource(i) ==
    /\ i < Len(sources)
    /\ sources' = [sources EXCEPT ![i] = sources[i + 1], ![i + 1] = sources[i]]
    /\ PanelMayClose
    /\ UNCHANGED <<page, made, tokens, uploads, posted, picks, reloads>>

SetLevel(i, l) ==
    /\ sources[i].level # l
    /\ sources' = [sources EXCEPT ![i].level = l]
    /\ PanelMayClose
    /\ UNCHANGED <<page, made, tokens, uploads, posted, picks, reloads>>

\* What the slot offers: a picker while it is empty, a link's post then or another file of the
\* post it holds, a proof image of the edited event while no source of evidence holds a file
\* (proofImagesFor) or another one in place of the one it holds.
SlotOffers(d, way) ==
    LET again == Staged(d.file) /\ d.file.way = way IN
    CASE way = "upload" -> ~Holds(d)
      [] way = "import" -> ~Holds(d) \/ again
      [] OTHER -> page = "version" /\ (again \/ (d.level \in Evidence /\ ~HasEvidence))

\* pickFile, importLink, copyProofImage: the request goes at once, under a fresh token.
Give(i, way) ==
    /\ picks < MaxPicks
    /\ SlotOffers(sources[i], way)
    /\ picks' = picks + 1
    /\ tokens' = tokens + 1
    /\ sources' = [sources EXCEPT ![i].file = [NoFile EXCEPT !.state = "running", !.way = way,
                                                             !.token = tokens', !.pick = picks'],
                                  ![i].given = picks']
    /\ uploads' = uploads \cup {[pick |-> picks', key |-> sources[i].key, token |-> tokens',
                               way |-> way]}
    /\ PanelMayClose
    /\ UNCHANGED <<page, made, posted, reloads>>

\* An upload on its way can be dropped, an import or a copy cannot.
RemoveFile(i) ==
    /\ Holds(sources[i])
    /\ Running(sources[i].file) => sources[i].file.way = "upload"
    /\ sources' = [sources EXCEPT ![i].file = NoFile, ![i].given = 0]
    /\ PanelMayClose
    /\ UNCHANGED <<page, made, tokens, uploads, posted, picks, reloads>>
-----------------------------------------------------------------------------
\* Mutant of Awaits: an answer fills whatever its source waits for.
AwaitsAny(d, c) == d.key = c.key /\ Running(d.file)

\* settle, placeUploads: the answer is dropped unless its own request is still the source's file.
Awaits(d, c) == d.key = c.key /\ Running(d.file) /\ d.file.token = c.token

Fill(c, frame) ==
    [NoFile EXCEPT !.state = "staged", !.way = c.way, !.pick = c.pick, !.frame = frame]

\* placeUploads: a GIF's further frames are new sources after the one that picked it, if they fit.
Placed(i, c, frames) ==
    LET rest == frames - 1 IN
    IF rest > MaxSources - Len(sources)
    THEN [sources EXCEPT ![i].file = Refused(@)]
    ELSE [n \in 1 .. Len(sources) + rest |->
            CASE n < i -> sources[n]
              [] n = i -> [sources[i] EXCEPT !.file = Fill(c, 1)]
              [] n > i + rest -> sources[n - rest]
              [] OTHER -> [key |-> made + (n - i), level |-> sources[i].level,
                           file |-> Fill(c, n - i + 1), given |-> c.pick]]

\* The answers of a file: staged, in one part or as the frames of a GIF, or refused (a type, a size,
\* the cap of files staged at once).  The source that waits may be gone, or hold something else.
LandUpload(c) ==
    /\ c \in uploads
    /\ uploads' = uploads \ {c}
    /\ \/ /\ ~\E i \in DOMAIN sources : Awaits(sources[i], c)
          /\ UNCHANGED sources
       \/ \E i \in DOMAIN sources :
             /\ Awaits(sources[i], c)
             /\ \/ sources' = [sources EXCEPT ![i].file = Refused(@)]
                \/ \E frames \in IF c.way = "upload" THEN Frames ELSE {1} :
                      sources' = Placed(i, c, frames)
    /\ made' = made + Len(sources') - Len(sources)
    /\ UNCHANGED <<page, tokens, asking, posted, picks, reloads>>
-----------------------------------------------------------------------------
\* restoredSourceDraft: a fresh key, and a refusal in place of a file that cannot stand any more:
\* one that was on its way, or whose staged file is past its day.
Restored(d, k, expired) ==
    [d EXCEPT !.key = k,
              !.file = IF Running(@) \/ (Staged(@) /\ @.pick \in expired) THEN Refused(@) ELSE @]

\* The page and its counters start over; its requests are lost to it.  The submit form takes up the
\* draft IndexedDB keeps, which is the form as it was a moment ago: what it is now, or what an
\* earlier reload would have met.
ReloadSources ==
    /\ reloads < MaxReloads
    /\ reloads' = reloads + 1
    /\ \/ sources' = Seed
       \/ /\ page = "submit"
          /\ \E expired \in SUBSET (1 .. picks) :
                sources' = [i \in DOMAIN sources |-> Restored(sources[i], i, expired)]
    /\ made' = Len(sources')
    /\ tokens' = 0 /\ uploads' = {} /\ asking' = FALSE
    /\ UNCHANGED <<page, posted, picks>>
-----------------------------------------------------------------------------
\* sourceCreatePayload, fileReference: a file on its way, or refused, is named by no field.
Named(f) ==
    CASE f.state = "stored" -> "media_id" [] f.state = "staged" -> "upload_id" [] OTHER -> "none"

\* The write that lands, after which the page is left; a refused one leaves the form as it was.
Post ==
    /\ posted' = {[names |-> Named(sources[i].file), awaited |-> Running(sources[i].file)] :
                     i \in DOMAIN sources}
    /\ sources' = <<>> /\ uploads' = {} /\ made' = 0 /\ tokens' = 0
    /\ asking' = FALSE
    /\ UNCHANGED <<page, picks, reloads>>

\* The gate: the floor, which counts a file on its way, then the hold of the uploads.
PassesGate == HasEvidence /\ ~Held

PostForm == page = "submit" /\ PassesGate /\ Post

OpenPanel ==
    /\ page = "version" /\ PassesGate
    /\ asking' = TRUE
    /\ UNCHANGED <<page, sources, made, tokens, uploads, posted, picks, reloads>>

\* confirmAsk: the panel's own button writes, past no gate.
PostFromPanel == asking /\ Post

\* What happens to a form while its write is on its way changes nothing about the write.
SourcesNext ==
    /\ posted = NoPost
    /\ \/ AddSource
       \/ \E i \in DOMAIN sources :
             \/ RemoveSource(i) \/ MoveSource(i) \/ RemoveFile(i)
             \/ \E l \in Levels : SetLevel(i, l)
             \/ \E way \in Ways : Give(i, way)
       \/ \E c \in uploads : LandUpload(c)
       \/ ReloadSources
       \/ PostForm \/ OpenPanel \/ PostFromPanel

SourcesSpec == SourcesInit /\ [][SourcesNext]_sourcesVars

\* A request ends, and its answer is heard.
UploadsEnd == \E c \in uploads : LandUpload(c)
-----------------------------------------------------------------------------
SourcesTypeOK ==
    /\ page \in {"submit", "version"}
    /\ \A i \in DOMAIN sources :
          /\ sources[i].key \in Nat
          /\ sources[i].level \in Levels
          /\ sources[i].file.state \in {"none", "stored", "running", "staged", "failed"}
    /\ \A i, j \in DOMAIN sources : sources[i].key = sources[j].key => i = j
    /\ tokens \in Nat /\ made \in Nat /\ picks \in 0 .. MaxPicks
    /\ asking => page = "version"

\* Whatever answers late, a source shows the file its reader gave it last and no other, no two
\* sources hold one staged file, and the frames of a GIF never take the list past its cap
\* ("drops that upload's answer", the comment of SourcesField).
SlotsTellTheTruth ==
    /\ Len(sources) <= MaxSources
    /\ \A i \in DOMAIN sources : sources[i].file.pick = sources[i].given
    /\ \A i, j \in DOMAIN sources :
          (Staged(sources[i].file) /\ Staged(sources[j].file)
             /\ sources[i].file.pick = sources[j].file.pick
             /\ sources[i].file.frame = sources[j].file.frame) => i = j

\* "Whether a source file is still uploading or importing: the write waits for it" (uploadsRunning,
\* lib/sources.ts), whichever button the write was asked with.
WriteWaitsForFiles == posted # NoPost => ~\E s \in posted : s.awaited

\* No source waits for good.
UploadsSettle == Held ~> ~Held
=============================================================================
