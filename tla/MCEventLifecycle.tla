-------------------------- MODULE MCEventLifecycle --------------------------
(***************************************************************************)
(* Instances of EventLifecycle, EvidenceStore and DetectionImport small    *)
(* enough for TLC, the parts of one cfg: every analyst and body and no     *)
(* archived copy; or one analyst whose saves archive copies on both sides  *)
(* of the version ceiling; or the stored files of two events; or the rows  *)
(* that an account's imports land on.  Each part keeps its own abstraction *)
(* of an event, with the actions of the others that matter to it.          *)
(***************************************************************************)
EXTENDS EventLifecycle, EvidenceStore, DetectionImport, TLC

CONSTANTS proved, revised, Parts

VARIABLE part

Writing == ({owner} \ {NoUser}) \cup inflight \cup {u \in Users : pages[u] # NoPage}

InPart ==
    content # NoContent =>
        IF part = "writers" THEN content.copy = NoCopy
        ELSE Cardinality(Writing) <= 1 /\ content.body \in Complete

\* One self-thread read from its head, without a source, and from its second post; and a
\* request to place the same footage.
MCWorks ==
    {[post |-> 1, thread |-> {1, 2}, at |-> "square", source |-> NoLink, links |-> {}],
     [post |-> 2, thread |-> {1, 2}, at |-> "square", source |-> "clip", links |-> {"clip"}],
     [post |-> 3, thread |-> {3}, at |-> Nowhere, source |-> "clip", links |-> {"clip"}]}

\* A row written by hand is met by an import only if it has the footage.
HandWrittenMatters ==
    \A r \in Present :
        rows[r].work = NoWork => rows[r].by \in Linked /\ "clip" \in Readable(rows[r])

PartInit == Init /\ EvidenceInit /\ ImportInit /\ part \in Parts

PartNext ==
    /\ UNCHANGED part
    /\ \/ /\ part \in {"writers", "ceiling"} /\ Next /\ InPart'
          /\ UNCHANGED <<evidenceVars, importVars>>
       \/ part = "files" /\ EvidenceNext /\ UNCHANGED <<vars, importVars>>
       \/ /\ part = "imports" /\ ImportNext /\ HandWrittenMatters'
          /\ UNCHANGED <<vars, evidenceVars>>

PartSpec == PartInit /\ [][PartNext]_<<vars, evidenceVars, importVars, part>>

Symmetric == Permutations(Users) \cup Permutations({proved, revised}) \cup Permutations(Files)

\* The types of every part.
TypesOK == TypeOK /\ EvidenceTypeOK /\ ImportTypeOK
=============================================================================
