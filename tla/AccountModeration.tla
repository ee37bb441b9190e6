--------------------------- MODULE AccountModeration ---------------------------
(***************************************************************************)
(* Bans, restores and erasures of accounts that share published events.    *)
(* Sources: soft_delete_user, restore_user and hard_delete_user of         *)
(* services/admin.py, hand_over_owned_events and the locks of              *)
(* services/geolocator_credit.py.                                          *)
(*                                                                         *)
(* EventReview takes an admin transaction on one event as one step.  Here  *)
(* there are many events, and a ban or an erasure is what READ COMMITTED   *)
(* makes it: an unlocked read of the account, the lock on the rows it      *)
(* owns, an unlocked read of the heirs, then the writes and the commit.    *)
(***************************************************************************)
EXTENDS Integers, FiniteSets

CONSTANTS
    Users, Events,
    Admins,      \* the admin requests that may run at once
    MaxClock,    \* bound of the model: the bans that may commit
    NoUser

ASSUME NoneIsNoUser == NoUser \notin Users
ASSUME Clock == MaxClock \in Nat

Stamps == 0 .. MaxClock     \* 0 for "not deleted"
Apart == -1                 \* a soft delete of the event on its own: no ban's stamp

VARIABLES
    bannedAt,   \* users.deleted_at
    gone,       \* erased accounts
    owner,      \* Event.owner_id, NoUser once the row is deleted
    hiddenAt,   \* Event.deleted_at
    credit,     \* event_geolocators, the active rows
    clock,      \* the last stamp a ban took
    job,        \* the transaction each admin request runs
    restamped   \* history: accounts whose ban another ban wrote over

accounts == <<bannedAt, gone>>
events == <<owner, hiddenAt, credit>>
vars == <<bannedAt, gone, owner, hiddenAt, credit, clock, job, restamped>>

Idle == [step |-> "idle"]

Init ==
    /\ bannedAt = [u \in Users |-> 0]
    /\ gone = {}
    /\ owner \in [Events -> Users]
    /\ hiddenAt = [e \in Events |-> 0]
    /\ credit = [e \in Events |-> {owner[e]}]
    /\ clock = 0
    /\ job = [a \in Admins |-> Idle]
    /\ restamped = {}

-----------------------------------------------------------------------------
LiveUsers == {u \in Users \ gone : bannedAt[u] = 0}

\* The rows a transaction keeps locked until it ends.
Locks(a) == IF job[a].step \in {"locked", "decided"} THEN job[a].rows ELSE {}

\* Mutant of Unlocked: nobody takes the row lock.
NeverLocked(e, others) == TRUE

\* No transaction of `others` holds the lock on the row of e.
Unlocked(e, others) == \A b \in others : e \notin Locks(b)

-----------------------------------------------------------------------------
\* accept and remove of geolocator_credit.py, under the row lock of the event.
Join(u, e) ==
    /\ u \in LiveUsers /\ owner[e] # NoUser /\ u \notin credit[e]
    /\ Unlocked(e, Admins)
    /\ credit' = [credit EXCEPT ![e] = @ \cup {u}]
    /\ UNCHANGED <<accounts, owner, hiddenAt, clock, job, restamped>>

Leave(u, e) ==
    /\ u \in credit[e] \ {owner[e]}
    /\ Unlocked(e, Admins)
    /\ credit' = [credit EXCEPT ![e] = @ \ {u}]
    /\ UNCHANGED <<accounts, owner, hiddenAt, clock, job, restamped>>

\* soft_delete_geolocation: its check is made without the lock, so the stamp may replace a ban's.
SoftDeleteEvent(e) ==
    /\ owner[e] # NoUser /\ hiddenAt[e] # Apart
    /\ Unlocked(e, Admins)
    /\ hiddenAt' = [hiddenAt EXCEPT ![e] = Apart]
    /\ UNCHANGED <<accounts, owner, credit, clock, job, restamped>>

-----------------------------------------------------------------------------
\* soft_delete_user and hard_delete_user read the account; neither locks it, and a ban
\* returns on one that is banned already.
Begin(a, op, u) ==
    /\ job[a] = Idle
    /\ u \notin gone
    /\ op = "ban" => bannedAt[u] = 0
    /\ job' = [job EXCEPT ![a] = [step |-> "read", op |-> op, user |-> u,
                                  stamp |-> bannedAt[u], rows |-> {}, heirs |-> [e \in {} |-> u],
                                  absent |-> {}]]
    /\ UNCHANGED <<accounts, events, clock, restamped>>

\* ... WITH FOR UPDATE: a ban locks the live events of the account, an erasure all of them.
LockOwned(a) ==
    /\ job[a].step = "read"
    /\ LET rows == {e \in Events : owner[e] = job[a].user
                                   /\ (job[a].op = "ban" => hiddenAt[e] = 0)}
       IN /\ \A e \in rows : Unlocked(e, Admins \ {a})
          /\ job' = [job EXCEPT ![a] = [@ EXCEPT !.step = "locked", !.rows = rows]]
    /\ UNCHANGED <<accounts, events, clock, restamped>>

\* hand_over_owned_events: an event hidden with the account's own ban counts as live.
Transferable(a) ==
    {e \in job[a].rows : hiddenAt[e] = 0 \/ (hiddenAt[e] = job[a].stamp /\ job[a].stamp > 0)}

HeirsOf(e, u) == (credit[e] \cap LiveUsers) \ {u}

\* Mutant of ChooseHeirs: an event hidden with the ban counts as deleted on its own.
ChooseHeirsOfVisible(a) ==
    /\ job[a].step = "locked"
    /\ LET shared == {e \in job[a].rows : hiddenAt[e] = 0 /\ HeirsOf(e, job[a].user) # {}}
       IN \E heirs \in [shared -> Users] :
             /\ \A e \in shared : heirs[e] \in HeirsOf(e, job[a].user)
             /\ job' = [job EXCEPT ![a] = [@ EXCEPT !.step = "decided", !.heirs = heirs,
                                                       !.absent = Users \ LiveUsers]]
    /\ UNCHANGED <<accounts, events, clock, restamped>>

\* ... and passes to a live co-geolocator (the earliest; any one here), whose account the
\* query reads without a lock.
ChooseHeirs(a) ==
    /\ job[a].step = "locked"
    /\ LET shared == {e \in Transferable(a) : HeirsOf(e, job[a].user) # {}}
       IN \E heirs \in [shared -> Users] :
             /\ \A e \in shared : heirs[e] \in HeirsOf(e, job[a].user)
             /\ job' = [job EXCEPT ![a] = [@ EXCEPT !.step = "decided", !.heirs = heirs,
                                                       !.absent = Users \ LiveUsers]]
    /\ UNCHANGED <<accounts, events, clock, restamped>>

\* The writes need the account, and the foreign key of owner_id needs the heirs.
MayCommit(a) ==
    /\ job[a].step = "decided"
    /\ job[a].user \notin gone
    /\ \A e \in DOMAIN job[a].heirs : job[a].heirs[e] \notin gone

HandedOver(a) == [e \in Events |->
    IF e \in DOMAIN job[a].heirs THEN job[a].heirs[e] ELSE owner[e]]

\* Mutant of CommitBan: the cascade is stamped apart from the account.
CommitBanTwoClocks(a) ==
    /\ MayCommit(a) /\ job[a].op = "ban" /\ clock < MaxClock
    /\ owner' = HandedOver(a)
    /\ LET hides == {e \in Events : owner'[e] = job[a].user /\ hiddenAt[e] = 0}
       IN /\ \A e \in hides : Unlocked(e, Admins \ {a})
          /\ hiddenAt' = [e \in Events |->
                IF e \in DOMAIN job[a].heirs THEN 0 ELSE IF e \in hides THEN clock + 1 ELSE hiddenAt[e]]
    /\ bannedAt' = [bannedAt EXCEPT ![job[a].user] = clock]
    /\ restamped' = IF bannedAt[job[a].user] > 0 THEN restamped \cup {job[a].user} ELSE restamped
    /\ clock' = clock + 1
    /\ job' = [job EXCEPT ![a] = Idle]
    /\ UNCHANGED <<gone, credit>>

\* The ban: the account is stamped (over an earlier stamp, if another ban committed
\* meanwhile), the chosen events are handed over, and an UPDATE gives the same stamp to every
\* live event the account owns by then, locked at the start or not.
CommitBan(a) ==
    /\ MayCommit(a) /\ job[a].op = "ban" /\ clock < MaxClock
    /\ owner' = HandedOver(a)
    /\ LET hides == {e \in Events : owner'[e] = job[a].user /\ hiddenAt[e] = 0}
       IN /\ \A e \in hides : Unlocked(e, Admins \ {a})
          /\ hiddenAt' = [e \in Events |->
                IF e \in DOMAIN job[a].heirs THEN 0 ELSE IF e \in hides THEN clock + 1 ELSE hiddenAt[e]]
    /\ bannedAt' = [bannedAt EXCEPT ![job[a].user] = clock + 1]
    /\ restamped' = IF bannedAt[job[a].user] > 0 THEN restamped \cup {job[a].user} ELSE restamped
    /\ clock' = clock + 1
    /\ job' = [job EXCEPT ![a] = Idle]
    /\ UNCHANGED <<gone, credit>>

\* Mutant of CommitErasure: the events of an account are not looked for again, nor refused by
\* the foreign key.
CommitErasureUnchecked(a) ==
    /\ MayCommit(a) /\ job[a].op = "erase"
    /\ LET u == job[a].user
           lost == job[a].rows \ DOMAIN job[a].heirs
       IN /\ owner' = [e \in Events |-> IF e \in lost THEN NoUser ELSE HandedOver(a)[e]]
          /\ hiddenAt' = [e \in Events |-> IF e \in job[a].rows THEN 0 ELSE hiddenAt[e]]
          /\ credit' = [e \in Events |-> IF e \in lost THEN {} ELSE credit[e] \ {u}]
          /\ gone' = gone \cup {u}
          /\ bannedAt' = [bannedAt EXCEPT ![u] = 0]
    /\ job' = [job EXCEPT ![a] = Idle]
    /\ UNCHANGED <<clock, restamped>>

\* The erasure: the chosen events are handed over, the other locked ones deleted, then the
\* account with its credit; the foreign key refuses it while it owns an event it did not lock.
CommitErasure(a) ==
    /\ MayCommit(a) /\ job[a].op = "erase"
    /\ LET u == job[a].user
           lost == job[a].rows \ DOMAIN job[a].heirs
       IN /\ \A e \in Events : owner[e] = u => e \in job[a].rows
          /\ owner' = [e \in Events |-> IF e \in lost THEN NoUser ELSE HandedOver(a)[e]]
          /\ hiddenAt' = [e \in Events |-> IF e \in job[a].rows THEN 0 ELSE hiddenAt[e]]
          /\ credit' = [e \in Events |-> IF e \in lost THEN {} ELSE credit[e] \ {u}]
          /\ gone' = gone \cup {u}
          /\ bannedAt' = [bannedAt EXCEPT ![u] = 0]
    /\ job' = [job EXCEPT ![a] = Idle]
    /\ UNCHANGED <<clock, restamped>>

\* A lost account or heir, the foreign key, a deadlock Postgres breaks, a crash: the
\* transaction rolls back.
Abort(a) ==
    /\ job[a] # Idle
    /\ job' = [job EXCEPT ![a] = Idle]
    /\ UNCHANGED <<accounts, events, clock, restamped>>

\* Mutant of RestoreUser: every hidden event of the account returns.
RestoreEverything(u) ==
    /\ u \notin gone /\ bannedAt[u] > 0
    /\ LET back == {e \in Events : owner[e] = u}
       IN /\ \A e \in back : Unlocked(e, Admins)
          /\ hiddenAt' = [e \in Events |-> IF e \in back THEN 0 ELSE hiddenAt[e]]
    /\ bannedAt' = [bannedAt EXCEPT ![u] = 0]
    /\ UNCHANGED <<gone, owner, credit, clock, job, restamped>>

\* restore_user: one UPDATE under the lock on the account.
RestoreUser(u) ==
    /\ u \notin gone /\ bannedAt[u] > 0
    /\ LET back == {e \in Events : owner[e] = u /\ hiddenAt[e] = bannedAt[u]}
       IN /\ \A e \in back : Unlocked(e, Admins)
          /\ hiddenAt' = [e \in Events |-> IF e \in back THEN 0 ELSE hiddenAt[e]]
    /\ bannedAt' = [bannedAt EXCEPT ![u] = 0]
    /\ UNCHANGED <<gone, owner, credit, clock, job, restamped>>

-----------------------------------------------------------------------------
Transaction(a) ==
    \/ \E op \in {"ban", "erase"}, u \in Users : Begin(a, op, u)
    \/ LockOwned(a) \/ ChooseHeirs(a) \/ CommitBan(a) \/ CommitErasure(a) \/ Abort(a)

Next ==
    \/ \E a \in Admins : Transaction(a)
    \/ \E u \in Users : RestoreUser(u)
    \/ \E u \in Users, e \in Events : Join(u, e) \/ Leave(u, e)
    \/ \E e \in Events : SoftDeleteEvent(e)

Spec == Init /\ [][Next]_vars

-----------------------------------------------------------------------------
Hands == UNION {[E -> Users] : E \in SUBSET Events}

Transactions ==
    [step : {"read", "locked", "decided"}, op : {"ban", "erase"}, user : Users, stamp : Stamps,
     rows : SUBSET Events, heirs : Hands, absent : SUBSET Users]

\* Types, and the foreign key of an event to its owner.
TypeOK ==
    /\ bannedAt \in [Users -> Stamps]
    /\ gone \subseteq Users /\ restamped \subseteq Users
    /\ owner \in [Events -> (Users \ gone) \cup {NoUser}]
    /\ hiddenAt \in [Events -> Stamps \cup {Apart}]
    /\ credit \in [Events -> SUBSET Users]
    /\ clock \in Stamps
    /\ job \in [Admins -> {Idle} \cup Transactions]

\* "Always among the geolocators" (models/event.py): whatever joins, departures, bans and
\* erasures run at once, the owner of an event is credited on it.
OwnerIsCredited == \A e \in Events : owner[e] # NoUser => owner[e] \in credit[e]

\* soft_delete_user stamps the events it hides with the account's own stamp, which is all that
\* restore_user has to find them by: as long as no two bans of one account raced, an event a
\* ban hid carries the stamp its present owner is banned with.
HiddenWithTheBan ==
    \A e \in Events :
        hiddenAt[e] > 0 => owner[e] \in restamped \/ hiddenAt[e] = bannedAt[owner[e]]

\* "An event soft-deleted on its own carries another stamp and stays deleted" (restore_user,
\* hand_over_owned_events): no ban, restore or erasure, of any owner it has had, revives it.
DeletedApartStays ==
    [][\A e \in Events : hiddenAt[e] = Apart => hiddenAt'[e] = Apart \/ owner'[e] = NoUser]_vars

\* "An owned event another live analyst is credited on passes to the earliest of them ..., so
\* shared work stays published" (soft_delete_user, hard_delete_user): a transaction hides or
\* deletes a live event it has locked only if everybody else credited on it as it commits was
\* banned or erased when it looked for heirs.
SharedWorkPasses ==
    [][\A a \in Admins, e \in Events :
          /\ job[a] # Idle /\ job'[a] = Idle
          /\ job[a].step = "decided" /\ e \in Transferable(a)
          /\ owner'[e] = NoUser \/ hiddenAt'[e] > hiddenAt[e]
          => credit[e] \ {job[a].user} \subseteq job[a].absent]_vars

\* "Undo a soft delete: clear users.deleted_at and restore the events it hid" (restore_user).
BanIsUndone ==
    [][\A u \in Users :
          bannedAt[u] > 0 /\ bannedAt'[u] = 0 /\ u \notin gone'
              => \A e \in Events : owner[e] = u /\ hiddenAt[e] > 0 => hiddenAt'[e] = 0]_vars
=============================================================================
