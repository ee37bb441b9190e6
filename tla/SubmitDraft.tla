----------------------------- MODULE SubmitDraft -----------------------------
(***************************************************************************)
(* The submit form of one signed-in analyst in one tab (app/submit,        *)
(* useEventWrite, usePublishAction, useConfirmAction, useMutation) and the *)
(* draft it keeps in IndexedDB (useStoredDraft, lib/drafts.ts).  The       *)
(* browser runs the store's transactions one after the other, each some    *)
(* time after the call; a page that is reloaded loses the ones not run.    *)
(* A create names the file staged for its source, and the server gives a   *)
(* staged file to one event: all that keeps a create sent again from being *)
(* a second event, as it carries no key of its own.                        *)
(***************************************************************************)
EXTENDS Integers, Sequences, FiniteSets

CONSTANTS
    MaxDrafts,     \* bound on the drafts typed, numbered as they are
    Writes,        \* "publish" and "request"
    Meets,         \* write -> the drafts that meet its floor, which asks for a source's file
    FileOf,        \* draft -> the staged file it names
    MaxOpenings,   \* bound on the times the form is opened
    NoWrite

ASSUME SubmitAssumption ==
    /\ MaxDrafts \in Nat /\ MaxOpenings \in Nat
    /\ NoWrite \notin Writes
    /\ "publish" \in Writes
    /\ \A w \in Writes : Meets[w] \subseteq 1 .. MaxDrafts
    /\ DOMAIN FileOf = 1 .. MaxDrafts

VARIABLES
    form,        \* the form on the page
    store,       \* the draft under submit:<user> in IndexedDB
    tasks,       \* the store's transactions still to run, oldest first
    posting,     \* the create the page waits for
    pending,     \* the drafts of creates the page no longer waits for and the server still has
    created,     \* draft -> the events the server has created from it
    typed,
    openings,
    spent,       \* history: the drafts of a form whose publish it knows to have landed
    excused      \* history: a draft was read before its drop, or its drop was lost

submitVars == <<form, store, tasks, posting, pending, created, typed, openings, spent, excused>>

Blank == 0
Drafts == 1 .. MaxDrafts

\* ready once the stored draft is read; resting: the 250 ms timer; armed: the button that a first
\* click has armed.
NoForm == [stage |-> "away", text |-> Blank, resting |-> FALSE, cleared |-> FALSE,
           armed |-> NoWrite, number |-> 0]
Idle == [kind |-> NoWrite, text |-> Blank, stage |-> "idle", number |-> 0]

\* loading of the mutation of this form: its buttons are disabled while it is TRUE.
Busy == posting # Idle /\ posting.number = form.number
Open == form.stage = "ready"

SubmitInit ==
    /\ form = NoForm
    /\ store = Blank
    /\ tasks = <<>>
    /\ posting = Idle
    /\ pending = {}
    /\ created = [d \in Drafts |-> 0]
    /\ typed = 0
    /\ openings = 0
    /\ spent = {}
    /\ excused = FALSE
-----------------------------------------------------------------------------
\* A form opened while a publish of the same draft runs reads it before it is dropped.
OpenForm ==
    /\ form.stage = "away"
    /\ openings < MaxOpenings
    /\ openings' = openings + 1
    /\ form' = [NoForm EXCEPT !.stage = "reading", !.number = openings']
    /\ excused' = (excused \/ posting # Idle)
    /\ UNCHANGED <<store, tasks, posting, pending, created, typed, spent>>

\* The read waits its turn behind the writes asked before it; restoring is a change to store.
ReadDraft ==
    /\ form.stage = "reading"
    /\ tasks = <<>>
    /\ \E kept \in {store, Blank} :
          form' = [form EXCEPT !.stage = "ready", !.text = kept, !.resting = TRUE]
    /\ UNCHANGED <<store, tasks, posting, pending, created, typed, openings, spent, excused>>

\* A change restarts the timer; focus in a field disarms the buttons.
TypeDraft ==
    /\ Open
    /\ typed < MaxDrafts
    /\ typed' = typed + 1
    /\ form' = [form EXCEPT !.text = typed', !.resting = TRUE, !.armed = NoWrite]
    /\ spent' = IF form.cleared THEN spent \cup {typed'} ELSE spent
    /\ UNCHANGED <<store, tasks, posting, pending, created, openings, excused>>

\* Mutant of StoreDraft: the timer that fires after the publish stores the draft again.
StoreDraftAnyway ==
    /\ Open
    /\ form.resting
    /\ form' = [form EXCEPT !.resting = FALSE]
    /\ tasks' = Append(tasks, [op |-> "put", text |-> form.text])
    /\ UNCHANGED <<store, posting, pending, created, typed, openings, spent, excused>>

StoreDraft ==
    /\ Open
    /\ form.resting
    /\ form' = [form EXCEPT !.resting = FALSE]
    /\ tasks' = IF form.cleared THEN tasks ELSE Append(tasks, [op |-> "put", text |-> form.text])
    /\ UNCHANGED <<store, posting, pending, created, typed, openings, spent, excused>>

\* One transaction of the store, which may fail: a draft that could not be dropped stays.
RunTask ==
    /\ tasks # <<>>
    /\ tasks' = Tail(tasks)
    /\ \/ store' = Head(tasks).text /\ UNCHANGED excused
       \/ /\ UNCHANGED store
          /\ excused' = (excused \/ Head(tasks).op = "delete")
    /\ UNCHANGED <<form, posting, pending, created, typed, openings, spent>>
-----------------------------------------------------------------------------
\* The first click that meets the floor arms, the second writes; a short form disarms.
ClickShort(w) ==
    /\ Open /\ ~Busy
    /\ form.text \notin Meets[w]
    /\ form' = [form EXCEPT !.armed = NoWrite]
    /\ UNCHANGED <<store, tasks, posting, pending, created, typed, openings, spent, excused>>

Arm(w) ==
    /\ Open /\ ~Busy
    /\ form.text \in Meets[w]
    /\ form.armed # w
    /\ form' = [form EXCEPT !.armed = w]
    /\ UNCHANGED <<store, tasks, posting, pending, created, typed, openings, spent, excused>>

\* The page stays, its buttons enabled, until the redirect it asked for: a reader may confirm
\* again there.  The page waits for one create at a time here; more are pending.
Confirm(w) ==
    /\ Open /\ ~Busy
    /\ posting = Idle
    /\ form.armed = w
    /\ form.text \in Meets[w]
    /\ form' = [form EXCEPT !.armed = NoWrite]
    /\ posting' = [kind |-> w, text |-> form.text, stage |-> "sent", number |-> form.number]
    /\ UNCHANGED <<store, tasks, pending, created, typed, openings, spent, excused>>

\* ARM_MS, Escape, a click or a focus elsewhere.
Disarm ==
    /\ form.armed # NoWrite
    /\ form' = [form EXCEPT !.armed = NoWrite]
    /\ UNCHANGED <<store, tasks, posting, pending, created, typed, openings, spent, excused>>

\* Mutant of FileIsStaged: a create leaves its files staged.
FileStaysStaged(d) == FileOf[d] = FileOf[d]

\* take_uploads: the staged file becomes the event's own, so a later create that names it is
\* refused.  Nothing else tells one create from another.
FileIsStaged(d) == \A e \in Drafts : FileOf[e] = FileOf[d] => created[e] = 0

ServerCreates ==
    /\ posting.stage = "sent"
    /\ FileIsStaged(posting.text)
    /\ created' = [created EXCEPT ![posting.text] = @ + 1]
    /\ posting' = [posting EXCEPT !.stage = "created"]
    /\ UNCHANGED <<form, store, tasks, pending, typed, openings, spent, excused>>

\* A create whose page gave up on it, or is gone.
ServerCreatesLate(d) ==
    /\ d \in pending
    /\ pending' = pending \ {d}
    /\ IF FileIsStaged(d) THEN created' = [created EXCEPT ![d] = @ + 1] ELSE UNCHANGED created
    /\ UNCHANGED <<form, store, tasks, posting, typed, openings, spent, excused>>

\* onSuccess: the stored draft goes, the form stores no more, and the router is asked to leave.
\* The form that posted may be gone by then: its clear still runs.
Succeed ==
    /\ tasks' = Append(tasks, [op |-> "delete", text |-> Blank])
    /\ posting' = Idle
    /\ form' = IF form.number = posting.number THEN [form EXCEPT !.cleared = TRUE] ELSE form
    /\ spent' = spent \cup {posting.text} \cup (IF form.number = posting.number THEN {form.text} \ {Blank} ELSE {})

\* The links of a geolocation are saved once it exists; a refused link is swallowed.
LinkSites ==
    /\ posting.stage = "linking"
    /\ Succeed
    /\ UNCHANGED <<store, pending, created, typed, openings, excused>>

CreateAnswered ==
    /\ posting.stage = "created"
    /\ IF posting.kind = "publish"
       THEN posting' = [posting EXCEPT !.stage = "linking"] /\ UNCHANGED <<tasks, form, spent>>
       ELSE Succeed
    /\ UNCHANGED <<store, pending, created, typed, openings, excused>>

\* A create not yet served may reach the server all the same.
Unserved == IF posting.stage = "sent" THEN {{}, {posting.text}} ELSE {{}}

\* Refused, or no answer at all: the banner shows, the form stays, and the reader may send again.
CreateFails ==
    /\ posting.stage \in {"sent", "created"}
    /\ \E d \in Unserved : pending' = pending \cup d
    /\ posting' = Idle
    /\ UNCHANGED <<form, store, tasks, created, typed, openings, spent, excused>>
-----------------------------------------------------------------------------
\* The redirect, or a link: the form unmounts, its timer with it; a create in flight goes on.
LeaveForm ==
    /\ form.stage # "away"
    /\ form' = NoForm
    /\ UNCHANGED <<store, tasks, posting, pending, created, typed, openings, spent, excused>>

\* A reload or a closed tab: what the store had not run is lost, and so is the answer of a create.
ReloadForm ==
    /\ form.stage # "away" \/ tasks # <<>> \/ posting # Idle
    /\ form' = NoForm
    /\ tasks' = <<>>
    /\ posting' = Idle
    /\ \E d \in Unserved : pending' = pending \cup d
    /\ excused' = (excused \/ \E i \in DOMAIN tasks : tasks[i].op = "delete")
    /\ UNCHANGED <<store, created, typed, openings, spent>>

SubmitNext ==
    \/ OpenForm \/ ReadDraft \/ TypeDraft \/ StoreDraft \/ RunTask
    \/ \E w \in Writes : ClickShort(w) \/ Arm(w) \/ Confirm(w)
    \/ Disarm \/ ServerCreates \/ LinkSites \/ CreateAnswered \/ CreateFails
    \/ LeaveForm \/ ReloadForm
    \/ \E d \in Drafts : ServerCreatesLate(d)

SubmitSpec == SubmitInit /\ [][SubmitNext]_submitVars
-----------------------------------------------------------------------------
SubmitTypeOK ==
    /\ form \in [stage : {"away", "reading", "ready"}, text : Drafts \cup {Blank},
                 resting : BOOLEAN, cleared : BOOLEAN, armed : Writes \cup {NoWrite},
                 number : 0 .. MaxOpenings]
    /\ store \in Drafts \cup {Blank}
    /\ tasks \in Seq([op : {"put", "delete"}, text : Drafts \cup {Blank}])
    /\ posting \in [kind : Writes \cup {NoWrite}, text : Drafts \cup {Blank},
                    stage : {"idle", "sent", "created", "linking"}, number : 0 .. MaxOpenings]
    /\ pending \subseteq Drafts
    /\ created \in [Drafts -> Nat]
    /\ typed \in 0 .. MaxDrafts /\ openings \in 0 .. MaxOpenings
    /\ spent \subseteq Drafts

\* Once the page knows its publish landed and the store has dropped the draft, no timer and no
\* transaction still on its way brings back a draft of that form (the clear of useStoredDraft),
\* unless the drop itself was lost or a form opened while the publish was on its way (excused).
DraftStaysGone ==
    (~excused /\ \A i \in DOMAIN tasks : tasks[i].op # "delete") => store \notin spent

\* One staged file makes at most one event, whatever the page is told: an answer that is lost or
\* late, a refused site link, an impatient click, a reload or a draft that came back never
\* publishes it twice (the comment in app/submit/page.tsx).
OnePublish ==
    \A d, e \in Drafts :
        (FileOf[d] = FileOf[e] /\ created[d] > 0 /\ created[e] > 0) => d = e /\ created[d] = 1
=============================================================================
