---------------------------- MODULE CitableRecord ----------------------------
(***************************************************************************)
(* What an event promises a reader who cites it.  Versions are numbered    *)
(* from 1 as they are published; a number, once served, serves the same    *)
(* words for good or nothing at all; a retracted record takes no more      *)
(* versions and nothing but an erasure takes the record away.  A draft (an *)
(* open request, a detection) promises nothing.                            *)
(***************************************************************************)
EXTENDS Integers

CONSTANTS Words, Blank

VARIABLES
    phase,    \* "none", "draft", "rejected", "public", "retracted", "gone"
    latest,   \* the number of the newest version, 0 before the publication
    record    \* version number -> words, Blank once redacted

recordVars == <<phase, latest, record>>

Init ==
    /\ phase = "none"
    /\ latest = 0
    /\ record = [v \in {} |-> Blank]

Draft ==
    /\ phase = "none"
    /\ phase' = "draft"
    /\ UNCHANGED <<latest, record>>

Append(w) ==
    /\ latest' = latest + 1
    /\ record' = [v \in 1 .. latest + 1 |-> IF v = latest + 1 THEN w ELSE record[v]]

Publish(w) ==
    /\ phase \in {"none", "draft"}
    /\ phase' = "public"
    /\ Append(w)

Revise(w) ==
    /\ phase = "public"
    /\ Append(w)
    /\ UNCHANGED phase

\* Only a superseded version is redacted: the newest one is the record itself.
Redact(v) ==
    /\ phase \in {"public", "retracted"}
    /\ v < latest
    /\ record' = [record EXCEPT ![v] = Blank]
    /\ UNCHANGED <<phase, latest>>

Withdraw ==
    /\ phase \in {"draft", "public"}
    /\ phase' = IF phase = "draft" THEN "rejected" ELSE "retracted"
    /\ UNCHANGED <<latest, record>>

Erase ==
    /\ phase \notin {"none", "gone"}
    /\ phase' = "gone"
    /\ latest' = 0
    /\ record' = [v \in {} |-> Blank]

Next ==
    \/ Draft \/ Withdraw \/ Erase
    \/ \E w \in Words : Publish(w) \/ Revise(w)
    \/ \E v \in 1 .. latest : Redact(v)

Spec == Init /\ [][Next]_recordVars
=============================================================================
