--------------------------- MODULE CollectionEdit ---------------------------
(***************************************************************************)
(* The edit page of a collection (app/collections/[id]/edit/page.tsx): the *)
(* set it opens on is read page by page, the reader picks and drops rows   *)
(* on the form, and the save sends the difference from the opening set     *)
(* one call at a time, while another tab of the owner writes to the same   *)
(* collection.                                                             *)
(***************************************************************************)
EXTENDS Integers, FiniteSets

CONSTANTS
    Events,      \* the analyst's events, numbered in the order the collection lists them
    BlockSize,   \* the rows of one page of the sequence
    ReaderMax,   \* READER_MAX_ITEMS
    MaxSaves,    \* bound on the saves of one form
    MaxOthers    \* bound on what happens outside this page

ASSUME EditAssumption ==
    /\ Events \subseteq Nat \ {0}
    /\ BlockSize \in Nat \ {0} /\ ReaderMax \in Nat \ {0}
    /\ MaxSaves \in Nat /\ MaxOthers \in Nat

VARIABLES
    members,   \* the collection's rows on the server
    gone,      \* the events no collection may hold any more
    editor,    \* the state of the edit page, and the last row it has read
    opened,    \* the opening set (before), as far as it is read
    picked,    \* the rows on the form
    saving,    \* the save in flight: what it still has to add and to remove
    saves,
    others,
    wanted,    \* history: the rows of the form at the last save
    changed,   \* history: the rows some save of this form added or dropped
    theirs,    \* history: the rows there would be without this page
    late       \* history: the events another tab wrote

editVars == <<members, gone, editor, opened, picked, saving, saves, others, wanted, changed, theirs,
              late>>

NotSaving == [on |-> FALSE, details |-> FALSE, add |-> {}, remove |-> {}]
First(n, S) == {e \in S : Cardinality({f \in S : f < e}) < n}

EditInit ==
    /\ members \in SUBSET Events
    /\ gone = {}
    /\ editor = [stage |-> "reading", upTo |-> 0]
    /\ opened = {}
    /\ picked = {}
    /\ saving = NotSaving
    /\ saves = 0
    /\ others = 0
    /\ wanted = {}
    /\ changed = {}
    /\ theirs = members
    /\ late = {}
-----------------------------------------------------------------------------
\* fetchCollectionSequence: one page after the other from the last row read, up to the ceiling;
\* the form mounts on what was read, never on a part of it.
ReadBlock ==
    /\ editor.stage = "reading"
    /\ LET left == {e \in members \ gone : e > editor.upTo}
           block == First(BlockSize, left)
           read == opened \cup block
       IN  IF block = left \/ Cardinality(read) >= ReaderMax
           THEN /\ opened' = First(ReaderMax, read)
                /\ picked' = opened'
                /\ editor' = [editor EXCEPT !.stage = "form"]
           ELSE /\ opened' = read
                /\ editor' = [editor EXCEPT !.upTo = CHOOSE e \in block : \A f \in block : f <= e]
                /\ UNCHANGED picked
    /\ UNCHANGED <<members, gone, saving, saves, others, wanted, changed, theirs, late>>

\* A read that fails shows its error in the form's place, and nothing can be saved.
ReadFails ==
    /\ editor.stage = "reading"
    /\ editor' = [editor EXCEPT !.stage = "error"]
    /\ UNCHANGED <<members, gone, opened, picked, saving, saves, others, wanted, changed,
                   theirs, late>>

\* The picker lists events a collection may hold, and not the rows on the form.
Pick(e) ==
    /\ editor.stage = "form"
    /\ e \notin picked \cup gone
    /\ picked' = picked \cup {e}
    /\ UNCHANGED <<members, gone, editor, opened, saving, saves, others, wanted, changed,
                   theirs, late>>

Drop(e) ==
    /\ editor.stage = "form"
    /\ e \in picked
    /\ picked' = picked \ {e}
    /\ UNCHANGED <<members, gone, editor, opened, saving, saves, others, wanted, changed,
                   theirs, late>>
-----------------------------------------------------------------------------
\* Mutant of Difference: the save drops what the collection holds that is not on the form.
DifferenceFromServer(form) ==
    [on |-> TRUE, details |-> FALSE, add |-> form \ opened, remove |-> members \ form]

\* From the opening set, which a failed save does not move.
Difference(form) ==
    [on |-> TRUE, details |-> FALSE, add |-> form \ opened, remove |-> opened \ form]

\* The rows are those of the click; what is picked while the save runs waits for the next one.
Save ==
    /\ editor.stage = "form"
    /\ ~saving.on
    /\ saves < MaxSaves
    /\ saves' = saves + 1
    /\ wanted' = picked
    /\ changed' = changed \cup (picked \ opened) \cup (opened \ picked)
    /\ saving' = Difference(picked)
    /\ UNCHANGED <<members, gone, editor, opened, picked, others, theirs, late>>

SaveDetails ==
    /\ saving.on /\ ~saving.details
    /\ saving' = [saving EXCEPT !.details = TRUE]
    /\ UNCHANGED <<members, gone, editor, opened, picked, saves, others, wanted, changed, theirs,
                   late>>

\* One PUT, idempotent; an event no collection may hold any more is refused (SaveFails).
AddOne(e) ==
    /\ saving.details
    /\ e \in saving.add \ gone
    /\ members' = members \cup {e}
    /\ saving' = [saving EXCEPT !.add = @ \ {e}]
    /\ UNCHANGED <<gone, editor, opened, picked, saves, others, wanted, changed, theirs, late>>

\* One DELETE, once every row is added; idempotent, and never refused for the event's state.
RemoveOne(e) ==
    /\ saving.details /\ saving.add = {}
    /\ e \in saving.remove
    /\ members' = members \ {e}
    /\ saving' = [saving EXCEPT !.remove = @ \ {e}]
    /\ UNCHANGED <<gone, editor, opened, picked, saves, others, wanted, changed, theirs, late>>

\* A call refused, or unanswered though the server may have done it: the walk stops there.
SaveFails ==
    /\ saving.on
    /\ saving' = NotSaving
    /\ \/ UNCHANGED members
       \/ \E e \in saving.add \ gone : saving.details /\ members' = members \cup {e}
       \/ \E e \in saving.remove : saving.details /\ saving.add = {} /\ members' = members \ {e}
    /\ UNCHANGED <<gone, editor, opened, picked, saves, others, wanted, changed, theirs, late>>

\* The walk is done: the router leaves for the collection.
SaveDone ==
    /\ saving.details /\ saving.add = {} /\ saving.remove = {}
    /\ saving' = NotSaving
    /\ editor' = [editor EXCEPT !.stage = "saved"]
    /\ UNCHANGED <<members, gone, opened, picked, saves, others, wanted, changed, theirs, late>>
-----------------------------------------------------------------------------
\* Another tab of the owner, or the event's own page, adds or removes a row.
OtherTab(e) ==
    /\ editor.stage # "saved"
    /\ others < MaxOthers
    /\ others' = others + 1
    /\ late' = late \cup {e}
    /\ \/ /\ e \notin gone
          /\ members' = members \cup {e}
          /\ theirs' = theirs \cup {e}
       \/ /\ members' = members \ {e}
          /\ theirs' = theirs \ {e}
    /\ UNCHANGED <<gone, editor, opened, picked, saving, saves, wanted, changed>>

\* An event that is withheld or closed leaves what a collection shows, its row with it or not.
EventLeaves(e) ==
    /\ editor.stage # "saved"
    /\ others < MaxOthers
    /\ e \notin gone
    /\ others' = others + 1
    /\ gone' = gone \cup {e}
    /\ UNCHANGED <<members, editor, opened, picked, saving, saves, wanted, changed, theirs, late>>

EditNext ==
    \/ ReadBlock \/ ReadFails \/ Save \/ SaveDetails \/ SaveFails \/ SaveDone
    \/ \E e \in Events : \/ Pick(e) \/ Drop(e) \/ AddOne(e) \/ RemoveOne(e)
                         \/ OtherTab(e) \/ EventLeaves(e)

EditSpec == EditInit /\ [][EditNext]_editVars
-----------------------------------------------------------------------------
EditTypeOK ==
    /\ {members, gone, opened, picked, wanted, changed, theirs, late} \subseteq SUBSET Events
    /\ editor \in [stage : {"reading", "form", "error", "saved"}, upTo : Events \cup {0}]
    /\ saving \in [on : BOOLEAN, details : BOOLEAN, add : SUBSET Events, remove : SUBSET Events]
    /\ saves \in 0 .. MaxSaves /\ others \in 0 .. MaxOthers

\* A save is a three-way merge.  A row no save of the form changed is there or not as everybody
\* else left it, a row past the ceiling and a row added meanwhile included; once a save ran
\* through, a row it changed and nobody else wrote is what the form said.
SaveIsItsDifference ==
    \A e \in Events :
        /\ e \notin changed => (e \in members <=> e \in theirs)
        /\ (editor.stage = "saved" /\ (e \in wanted <=> e \notin opened) /\ e \notin late) =>
              (e \in members <=> e \in wanted)
=============================================================================
