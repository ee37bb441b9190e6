---------------------------- MODULE MCEventReview ----------------------------
(***************************************************************************)
(* Instances of EventReview small enough for TLC, each a part of the       *)
(* people and the organizations of the same cfg: three analysts and no     *)
(* organization, or two analysts and an organization they may join, leave, *)
(* speak for and delete.                                                   *)
(***************************************************************************)
EXTENDS EventReview, TLC

VARIABLE cast

\* The analysts an instance has used so far: an account banned, erased, credited, asked, a
\* member, or one with the page open.
Involved ==
    {u \in Users : \/ u \in EverCredited \cup invited \cup banned \cup gone
                   \/ \E o \in Orgs : u \in members[o]
                   \/ seen[u] # 0
                   \/ \E v \in Users : requests[u][v] # "none" \/ requests[v][u] # "none"}

Asked == {<<u, v>> \in Users \X Voices : requests[u][v] # "none"}

InCast ==
    IF cast = "analysts"
    THEN members = [o \in Orgs |-> {}] /\ Cardinality(Asked) <= 1
    ELSE Cardinality(Involved) <= 2

ReviewInit == Init /\ cast \in {"analysts", "with an organization"}

ReviewNext == Next /\ UNCHANGED cast /\ InCast'

ReviewSpec == ReviewInit /\ [][ReviewNext]_<<vars, cast>>

Symmetric == Permutations(Users) \cup Permutations(Orgs)
=============================================================================
