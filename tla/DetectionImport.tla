---------------------------- MODULE DetectionImport ----------------------------
(***************************************************************************)
(* Which row a post belongs to: the import of a thread, or the request a   *)
(* bot drafts from one, onto the rows its owner already holds.  Source:    *)
(* services/detection.py; what people and admins do to a row meanwhile, in *)
(* as much as the recognition reads it, from services/events and admin.py. *)
(*                                                                         *)
(* An import recognises rows in one unlocked read, fetches media, and then *)
(* inserts, or overwrites under the row's lock.  A work is one thing to    *)
(* import: its post and its thread, a coordinate, and the links of its     *)
(* sources; a request's has no coordinate.                                 *)
(***************************************************************************)
EXTENDS Integers, FiniteSets

CONSTANTS
    Owners,
    Linked,           \* the accounts linked to an X handle, whose posts are imported
    Works,            \* what may be imported
    Importers,        \* imports that may run at once
    Coordinates,
    Links,
    Nowhere,          \* no coordinate
    NoLink,           \* a source-less thread
    NoWork,           \* no provenance: a row a person wrote
    MaxRow,           \* bound of the model: the rows written
    MaxEdits          \* bound of the model: what people and admins do to rows

ASSUME ImportAssumption ==
    /\ MaxRow \in Nat /\ MaxEdits \in Nat
    /\ Linked \subseteq Owners
    /\ Nowhere \notin Coordinates /\ NoLink \notin Links /\ NoWork \notin Works
    /\ \A work \in Works :
          /\ work.post \in work.thread
          /\ work.at \in Coordinates \cup {Nowhere}
          /\ work.source \in work.links \cup {NoLink} /\ work.links \subseteq Links

VARIABLES
    rows,       \* the rows by the order they landed in, those deleted for good included
    import,     \* what each import has decided, until it has written
    raced,      \* history: row -> the rows that landed while its import was at work
    fate,       \* history: row -> what has happened to it, among Fates
    edits

importVars == <<rows, import, raced, fate, edits>>

Fates == {"moved", "handed over", "deleted", "relinked"}
Row == 1 .. MaxRow
NoImport == [step |-> "idle"]
NotWritten == [status |-> "none"]
Erased == [status |-> "erased"]

ImportInit ==
    /\ rows = [r \in Row |-> NotWritten]
    /\ import = [m \in Importers |-> NoImport]
    /\ raced = [r \in Row |-> {}]
    /\ fate = [r \in Row |-> {}]
    /\ edits = 0

-----------------------------------------------------------------------------
Written == {r \in Row : rows[r].status # "none"}
Present == {r \in Written : rows[r].status # "erased"}

\* A version holds the links its content had; a redacted one is blank.
Readable(row) == row.links \cup UNION row.filed

\* Mutant of SharesPost: the anchor alone.
SharesAnchor(work, other) == other # NoWork /\ work.post = other.post

\* The provenance leg: the anchor, or any post of the thread, which entries that anchor
\* differently on one self-thread share.
SharesPost(work, other) ==
    /\ other # NoWork
    /\ work.post = other.post \/ work.thread \cap other.thread # {}

\* _match_legs.
Recognises(work, row) == SharesPost(work, row.work) \/ work.source \in Readable(row)

\* The rows of the owner that _disposition, or _existing_row_for, finds for a work.
Matches(u, work) ==
    {r \in Present :
        /\ rows[r].owner = u /\ Recognises(work, rows[r])
        /\ IF work.at = Nowhere THEN rows[r].deleted = "no" ELSE rows[r].at = work.at}

\* _row_disposition: the one kind of row that an import may overwrite.
Overwritable(row) ==
    row.deleted = "no" /\ ~row.hidden /\ ~row.saved /\ row.status = "detected"

-----------------------------------------------------------------------------
\* _disposition, and the first lines of open_request. A match that may not be touched ends the
\* import, and so does any match of a request.
Decide(m, u, work) ==
    /\ import[m] = NoImport
    /\ \/ /\ Matches(u, work) = {}
          /\ import' = [import EXCEPT ![m] =
                [step |-> "create", owner |-> u, work |-> work, since |-> {}]]
       \/ /\ work.at # Nowhere
          /\ \A r \in Matches(u, work) : Overwritable(rows[r])
          \* The oldest, by a stamp taken before the commit.
          /\ \E r \in Matches(u, work) :
                import' = [import EXCEPT ![m] = [step |-> "upsert", row |-> r, work |-> work]]
    /\ UNCHANGED <<rows, raced, fate, edits>>

\* A row lands: whoever is at work and has not seen it learns nothing of it.
Land(r, row, since) ==
    /\ rows[r] = NotWritten /\ \A older \in 1 .. (r - 1) : older \in Written
    /\ rows' = [rows EXCEPT ![r] = row]
    /\ raced' = [raced EXCEPT ![r] = since]

Told(m, r) ==
    IF import[m].step = "create" THEN [import[m] EXCEPT !.since = @ \cup {r}] ELSE import[m]

NewRow(u, work, status, at, links) ==
    [status |-> status, owner |-> u, by |-> u, work |-> work, at |-> at, links |-> links,
     filed |-> {}, saved |-> FALSE, deleted |-> "no", hidden |-> FALSE]

\* _persist_one and open_request, from the fetch of the media to the commit.
Persist(m, r) ==
    /\ import[m].step = "create"
    /\ LET work == import[m].work
           status == IF work.at = Nowhere THEN "requested" ELSE "detected"
       IN Land(r, NewRow(import[m].owner, work, status, work.at, work.links), import[m].since)
    /\ import' = [n \in Importers |-> IF n = m THEN NoImport ELSE Told(n, r)]
    /\ UNCHANGED <<fate, edits>>

\* A row that no longer offers a link it came with cannot be recognised by it.
Relinked(r, row) ==
    IF rows[r].work # NoWork /\ ~ rows[r].work.links \subseteq Readable(row)
    THEN {"relinked"} ELSE {}

\* _upsert_one: the disposition is read again under the row's lock, the match is not.
Upsert(m) ==
    /\ import[m].step = "upsert"
    /\ LET r == import[m].row
           new == [rows[r] EXCEPT !.at = import[m].work.at, !.links = import[m].work.links]
       IN /\ r \in Present /\ Overwritable(rows[r])
          /\ rows' = [rows EXCEPT ![r] = new]
          /\ fate' = [fate EXCEPT ![r] = @ \cup Relinked(r, new)]
    /\ import' = [import EXCEPT ![m] = NoImport]
    /\ UNCHANGED <<raced, edits>>

\* The row was taken meanwhile or nothing moved, a raise that is counted, a crash.
GiveUp(m) ==
    /\ import[m] # NoImport
    /\ import' = [import EXCEPT ![m] = NoImport]
    /\ UNCHANGED <<rows, raced, fate, edits>>

-----------------------------------------------------------------------------
\* What people and admins do to a row, under its lock. Whether the row was withheld or deleted
\* a person's request read before the lock, so that here it may be.
Change(r, row, what) ==
    /\ r \in Present /\ row # rows[r]
    /\ edits < MaxEdits /\ edits' = edits + 1
    /\ rows' = [rows EXCEPT ![r] = row]
    /\ fate' = [fate EXCEPT ![r] = @ \cup what]
    /\ UNCHANGED <<import, raced>>

Moved(r, at) == IF at # rows[r].at THEN {"moved"} ELSE {}

\* save_version: a publish or a correction files the content it replaces. A request passes to
\* whoever fulfils it.
SaveRow(r, u, at, links) ==
    /\ r \in Present /\ rows[r].status \in {"detected", "requested", "geolocated"}
    /\ u = rows[r].owner \/ rows[r].status = "requested"
    /\ LET new == [rows[r] EXCEPT !.status = "geolocated", !.owner = u, !.at = at,
                                  !.links = links, !.filed = @ \cup {rows[r].links},
                                  !.saved = TRUE]
       IN Change(r, new, Moved(r, at) \cup Relinked(r, new)
                         \cup IF u # rows[r].owner THEN {"handed over"} ELSE {})

\* update_request edits an open request in place, its guess of a place too: no version is filed.
EditRequest(r, at, links) ==
    /\ r \in Present /\ rows[r].status = "requested"
    /\ LET new == [rows[r] EXCEPT !.at = at, !.links = links]
       IN Change(r, new, Moved(r, at) \cup Relinked(r, new))

\* close: nothing reopens the row.
CloseRow(r) ==
    /\ r \in Present /\ rows[r].status # "closed"
    /\ Change(r, [rows[r] EXCEPT !.status = "closed"], {})

\* hand_over_owned_events, when the owner is banned or erased: a row deleted on its own stays.
PassOn(r, u) ==
    /\ r \in Present /\ rows[r].saved /\ rows[r].deleted # "own" /\ u # rows[r].owner
    /\ Change(r, [rows[r] EXCEPT !.owner = u, !.deleted = "no"], {"handed over"})

\* redact_version; of two versions with the same links one may stay.
RedactLinks(r, links) ==
    /\ r \in Present /\ rows[r].deleted = "no" /\ links \in rows[r].filed
    /\ LET new == [rows[r] EXCEPT !.filed = @ \ {links}] IN Change(r, new, Relinked(r, new))

\* soft_delete_geolocation for good, or the ban of the owner and its end, row by row.
DeleteRow(r) ==
    /\ r \in Present /\ rows[r].deleted = "no"
    /\ \E how \in {"own", "ban"} : Change(r, [rows[r] EXCEPT !.deleted = how], {"deleted"})
RestoreRow(r) ==
    /\ r \in Present /\ rows[r].deleted = "ban"
    /\ Change(r, [rows[r] EXCEPT !.deleted = "no"], {})

\* resolve_report, set_event_moderation.
WithholdRow(r) ==
    /\ r \in Present
    /\ Change(r, [rows[r] EXCEPT !.hidden = ~ @], {})

\* hard_delete_geolocation, purge_detected_events: the provenance goes with the row.
EraseRow(r) == Change(r, Erased, {})

\* create_with_evidence and create_request: a person's row is matched against nothing.
WriteByHand(u, r, status, at, links) ==
    /\ status = "geolocated" => at # Nowhere
    /\ edits < MaxEdits /\ edits' = edits + 1
    /\ Land(r, NewRow(u, NoWork, status, at, links), {})
    /\ import' = [m \in Importers |-> Told(m, r)]
    /\ UNCHANGED fate

-----------------------------------------------------------------------------
Importing(m) ==
    \/ \E u \in Linked, work \in Works : Decide(m, u, work)
    \/ \E r \in Row : Persist(m, r)
    \/ Upsert(m) \/ GiveUp(m)

Editing(r) ==
    \/ \E links \in SUBSET Links :
          \/ RedactLinks(r, links)
          \/ \E at \in Coordinates, u \in Owners : SaveRow(r, u, at, links)
          \/ \E at \in Coordinates \cup {Nowhere} :
                \/ EditRequest(r, at, links)
                \/ \E u \in Owners, status \in {"requested", "geolocated"} :
                      WriteByHand(u, r, status, at, links)
    \/ \E u \in Owners : PassOn(r, u)
    \/ CloseRow(r) \/ DeleteRow(r) \/ RestoreRow(r) \/ WithholdRow(r) \/ EraseRow(r)

ImportNext == (\E m \in Importers : Importing(m)) \/ (\E r \in Row : Editing(r))

ImportSpec == ImportInit /\ [][ImportNext]_importVars

-----------------------------------------------------------------------------
Recorded ==
    [status : {"detected", "requested", "geolocated", "closed"}, owner : Owners, by : Owners,
     work : Works \cup {NoWork}, at : Coordinates \cup {Nowhere}, links : SUBSET Links,
     filed : SUBSET SUBSET Links, saved : BOOLEAN, deleted : {"no", "own", "ban"},
     hidden : BOOLEAN]
Creations == [step : {"create"}, owner : Owners, work : Works, since : SUBSET Row]
Overwrites == [step : {"upsert"}, row : Row, work : Works]

\* Types; the provenance of a row is what brought it.
ImportTypeOK ==
    /\ rows \in [Row -> Recorded \cup {NotWritten, Erased}]
    /\ import \in [Importers -> Creations \cup Overwrites \cup {NoImport}]
    /\ raced \in [Row -> SUBSET Row]
    /\ fate \in [Row -> SUBSET Fates]
    /\ edits \in 0 .. MaxEdits

\* The two have a post in common, or the footage one declares and the other still names.
SameThing(work, r) ==
    \/ work.thread \cap rows[r].work.thread # {}
    \/ work.source \in rows[r].work.links /\ "relinked" \notin fate[r]

\* The work is on the row already, and nothing has happened to the row since that hides it.
Holds(r, u, work) ==
    /\ rows[r].work # NoWork /\ rows[r].by = u /\ SameThing(work, r)
    /\ "handed over" \notin fate[r]
    /\ IF work.at = Nowhere THEN "deleted" \notin fate[r]
       ELSE rows[r].work.at = work.at /\ "moved" \notin fate[r]

\* "The three entries land on one row" (models/event.py), whichever post of a thread each of
\* them anchors on: a second row for what one account already has, at that coordinate, is
\* written only by two imports at work at once, or when the first was handed over, corrected to
\* another place, or lost the link both came with. A row taken down still holds its post, so
\* that no import undoes a takedown.
DoublesAreRaces ==
    \A r, s \in Present :
        r < s /\ rows[s].work # NoWork /\ Holds(r, rows[s].by, rows[s].work) => r \in raced[s]
=============================================================================
