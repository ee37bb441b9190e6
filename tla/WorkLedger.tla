----------------------------- MODULE WorkLedger -----------------------------
(***************************************************************************)
(* What a work queue promises whoever put something in it.  An item handed *)
(* in gets one verdict, the verdict stands for good, and it comes.  The    *)
(* mention queue, the archive imports and the notification emails each     *)
(* implement this ledger with workers that die half way through an item.   *)
(* A step may move several items: one statement expires a whole backlog.   *)
(***************************************************************************)
CONSTANTS Items, Verdicts

VARIABLE ledger   \* item -> "new", "open" or its verdict

Init == ledger = [i \in Items |-> "new"]

Moves(before, after) ==
    \/ after = before
    \/ before = "new" /\ after = "open"
    \/ before = "open" /\ after \in Verdicts

Next == \A i \in Items : Moves(ledger[i], ledger'[i])

Settled(i) == ledger[i] \in Verdicts

Spec ==
    /\ Init
    /\ [][Next]_ledger
    /\ \A i \in Items : ledger[i] = "open" ~> Settled(i)
=============================================================================
