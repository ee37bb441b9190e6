---------------------------- MODULE Accounts_proofs ----------------------------
(***************************************************************************)
(* Bans and erasures at once, for any number of accounts, events and admin *)
(* requests: what a transaction decided under its locks still holds when   *)
(* it commits.  Then the way to an account: invite codes, registrations    *)
(* and confirmations at once, for any number of each.                      *)
(***************************************************************************)
EXTENDS MCAccounts, FiniteSetTheorems, TLAPS

\* No row is locked twice, and nobody but the holder of its lock takes it from its owner.
LocksApart == \A a, b \in Admins : a # b => Locks(a) \cap Locks(b) = {}

LockedIsOwned == \A a \in Admins : \A e \in Locks(a) : owner[e] = job[a].user

\* The events an heir was chosen for are locked, and the heir keeps the credit until the
\* commit (or the heir's account is erased, which MayCommit sees).
HeirsWait ==
    \A a \in Admins : job[a].step = "decided" =>
        /\ DOMAIN job[a].heirs \subseteq job[a].rows
        /\ \A e \in DOMAIN job[a].heirs :
              /\ job[a].heirs[e] \in Users \ {job[a].user}
              /\ job[a].heirs[e] \in credit[e] \cup gone
              /\ hiddenAt[e] # Apart

\* An event no heir was chosen for has none among those credited since.
NoHeirLeftOut ==
    \A a \in Admins : job[a].step = "decided" =>
        \A e \in Transferable(a) \ DOMAIN job[a].heirs :
            credit[e] \ {job[a].user} \subseteq job[a].absent

\* A deleted row is hidden by nobody.
DeletedRow == \A e \in Events : owner[e] = NoUser => hiddenAt[e] = 0

IInv ==
    /\ TypeOK /\ LocksApart /\ LockedIsOwned /\ HeirsWait /\ NoHeirLeftOut
    /\ DeletedRow /\ OwnerIsCredited /\ HiddenWithTheBan

-----------------------------------------------------------------------------
\* A running transaction is a record of its fields.
LEMMA Running ==
  ASSUME TypeOK, NEW a \in Admins, job[a].step # "idle"
  PROVE  job[a] \in Transactions
  BY DEF TypeOK, Idle

\* What a transaction past its first read carries.
LEMMA Fields ==
  ASSUME TypeOK, NEW a \in Admins, job[a].step \in {"read", "locked", "decided"}
  PROVE  /\ job[a].op \in {"ban", "erase"} /\ job[a].user \in Users /\ job[a].stamp \in Stamps
         /\ job[a].rows \subseteq Events /\ job[a].heirs \in Hands
         /\ job[a].absent \subseteq Users
  BY Running DEF Transactions

\* An assignment of heirs is a function on the events it names.
LEMMA HandsOf ==
  ASSUME NEW h \in Hands
  PROVE  DOMAIN h \subseteq Events /\ \A e \in DOMAIN h : h[e] \in Users
  BY DEF Hands

\* A transaction locks rows of events.
LEMMA LocksOf ==
  ASSUME TypeOK, NEW a \in Admins
  PROVE  Locks(a) \subseteq Events
  BY Fields DEF Locks

\* The initial states.
LEMMA InitIInv == Init => IInv
  <1> SUFFICES ASSUME Init PROVE IInv
    OBVIOUS
  <1>1. TypeOK
    BY Clock DEF Init, TypeOK, Stamps
  <1>2. \A a \in Admins : job[a].step = "idle" /\ Locks(a) = {}
    BY DEF Init, Idle, Locks
  <1>3. LocksApart /\ LockedIsOwned /\ HeirsWait /\ NoHeirLeftOut
    BY <1>2 DEF LocksApart, LockedIsOwned, HeirsWait, NoHeirLeftOut
  <1>4. DeletedRow /\ OwnerIsCredited /\ HiddenWithTheBan
    BY DEF Init, DeletedRow, OwnerIsCredited, HiddenWithTheBan
  <1> QED
    BY <1>1, <1>3, <1>4 DEF IInv

-----------------------------------------------------------------------------
\* What each step of a transaction makes of it.
LEMMA BeginTypes ==
  ASSUME TypeOK, NEW a \in Admins, NEW op \in {"ban", "erase"}, NEW u \in Users, Begin(a, op, u)
  PROVE  TypeOK'
  <1>1. [e \in {} |-> u] \in Hands
    <2>1. [e \in {} |-> u] \in [{} -> Users]
      OBVIOUS
    <2> QED
      BY <2>1 DEF Hands
  <1>2. [step |-> "read", op |-> op, user |-> u, stamp |-> bannedAt[u], rows |-> {},
         heirs |-> [e \in {} |-> u], absent |-> {}] \in Transactions
    BY <1>1 DEF Transactions, TypeOK
  <1> QED
    BY <1>2 DEF Begin, TypeOK, accounts, events

LEMMA LockTypes ==
  ASSUME TypeOK, NEW a \in Admins, LockOwned(a)
  PROVE  TypeOK'
  <1> DEFINE rows == {e \in Events : owner[e] = job[a].user
                                     /\ (job[a].op = "ban" => hiddenAt[e] = 0)}
  <1>1. [job[a] EXCEPT !.step = "locked", !.rows = rows] \in Transactions
    BY Running DEF LockOwned, Transactions
  <1> QED
    BY <1>1 DEF LockOwned, TypeOK, accounts, events

LEMMA ChooseTypes ==
  ASSUME TypeOK, NEW a \in Admins, ChooseHeirs(a)
  PROVE  TypeOK'
  <1> DEFINE shared == {e \in Transferable(a) : HeirsOf(e, job[a].user) # {}}
  <1>1. shared \subseteq Events
    BY Fields DEF ChooseHeirs, Transferable
  <1>2. PICK heirs \in [shared -> Users] :
           job' = [job EXCEPT ![a] = [@ EXCEPT !.step = "decided", !.heirs = heirs,
                                               !.absent = Users \ LiveUsers]]
    BY DEF ChooseHeirs
  <1>3. heirs \in Hands
    BY <1>1 DEF Hands
  <1>4. [job[a] EXCEPT !.step = "decided", !.heirs = heirs, !.absent = Users \ LiveUsers]
           \in Transactions
    BY <1>3, Running DEF ChooseHeirs, Transactions
  <1> QED
    BY <1>2, <1>4 DEF ChooseHeirs, TypeOK, accounts, events

\* Every event an account hands over goes to an account that is not erased, or to nobody.
LEMMA HandedOverTypes ==
  ASSUME TypeOK, NEW a \in Admins, MayCommit(a)
  PROVE  HandedOver(a) \in [Events -> (Users \ gone) \cup {NoUser}]
  <1>1. job[a].heirs \in Hands
    BY Fields DEF MayCommit
  <1>2. \A e \in DOMAIN job[a].heirs : job[a].heirs[e] \in Users \ gone
    BY <1>1, HandsOf DEF MayCommit
  <1> QED
    BY <1>2 DEF HandedOver, TypeOK

LEMMA BanTypes ==
  ASSUME TypeOK, NEW a \in Admins, CommitBan(a)
  PROVE  TypeOK'
  <1>1. MayCommit(a) /\ clock + 1 \in Stamps /\ 0 \in Stamps
    BY Clock DEF CommitBan, TypeOK, Stamps
  <1>2. owner' \in [Events -> (Users \ gone) \cup {NoUser}]
    BY <1>1, HandedOverTypes DEF CommitBan
  <1>3. hiddenAt' \in [Events -> Stamps \cup {Apart}]
    BY <1>1 DEF CommitBan, TypeOK
  <1>4. bannedAt' \in [Users -> Stamps] /\ restamped' \subseteq Users
    BY <1>1, Fields DEF CommitBan, MayCommit, TypeOK
  <1> QED
    BY <1>1, <1>2, <1>3, <1>4 DEF CommitBan, TypeOK

LEMMA ErasureTypes ==
  ASSUME TypeOK, HeirsWait, NEW a \in Admins, CommitErasure(a)
  PROVE  TypeOK'
  <1> DEFINE u == job[a].user
             lost == job[a].rows \ DOMAIN job[a].heirs
  <1>1. MayCommit(a) /\ job[a].step = "decided" /\ u \in Users /\ 0 \in Stamps
    BY Fields, Clock DEF CommitErasure, MayCommit, Stamps
  <1>2. owner' = [e \in Events |-> IF e \in lost THEN NoUser ELSE HandedOver(a)[e]]
    BY DEF CommitErasure
  <1>3. ASSUME NEW e \in Events
        PROVE  owner'[e] \in (Users \ (gone \cup {u})) \cup {NoUser}
    <2>1. CASE e \in lost
      BY <1>2, <2>1
    <2>2. CASE e \notin lost /\ e \in DOMAIN job[a].heirs
      <3>1. owner'[e] = job[a].heirs[e]
        BY <1>2, <2>2 DEF HandedOver
      <3> QED
        BY <1>1, <2>2, <3>1 DEF HeirsWait, MayCommit
    <2>3. CASE e \notin lost /\ e \notin DOMAIN job[a].heirs
      <3>1. owner'[e] = owner[e] /\ owner[e] # u
        BY <1>2, <2>3 DEF HandedOver, CommitErasure
      <3> QED
        BY <3>1 DEF TypeOK
    <2> QED
      BY <2>1, <2>2, <2>3
  <1>4. owner' \in [Events -> (Users \ gone') \cup {NoUser}]
    BY <1>2, <1>3 DEF CommitErasure
  <1>5. hiddenAt' \in [Events -> Stamps \cup {Apart}]
    BY <1>1 DEF CommitErasure, TypeOK
  <1>6. credit' \in [Events -> SUBSET Users]
    BY DEF CommitErasure, TypeOK
  <1>7. bannedAt' \in [Users -> Stamps] /\ gone' \subseteq Users
    BY <1>1 DEF CommitErasure, TypeOK
  <1> QED
    BY <1>4, <1>5, <1>6, <1>7 DEF CommitErasure, TypeOK

LEMMA TypeStep ==
  ASSUME TypeOK, HeirsWait, [Next]_vars
  PROVE  TypeOK'
  <1>1. CASE UNCHANGED vars
    BY <1>1 DEF vars, TypeOK
  <1>2. ASSUME NEW a \in Admins, Transaction(a)
        PROVE  TypeOK'
    <2>1. CASE Abort(a)
      BY <2>1 DEF Abort, TypeOK, accounts, events
    <2> QED
      BY <1>2, <2>1, BeginTypes, LockTypes, ChooseTypes, BanTypes, ErasureTypes DEF Transaction
  <1>3. ASSUME NEW u \in Users, RestoreUser(u)
        PROVE  TypeOK'
    <2>1. 0 \in Stamps
      BY Clock DEF Stamps
    <2> QED
      BY <1>3, <2>1 DEF RestoreUser, TypeOK
  <1>4. ASSUME NEW u \in Users, NEW e \in Events, Join(u, e) \/ Leave(u, e)
        PROVE  TypeOK'
    BY <1>4 DEF Join, Leave, TypeOK, accounts
  <1>5. ASSUME NEW e \in Events, SoftDeleteEvent(e)
        PROVE  TypeOK'
    BY <1>5 DEF SoftDeleteEvent, TypeOK, accounts
  <1> QED
    BY <1>1, <1>2, <1>3, <1>4, <1>5 DEF Next

-----------------------------------------------------------------------------
\* The other transactions are as they were: a step runs one.
LEMMA OthersStand ==
  ASSUME TypeOK, NEW a \in Admins, Transaction(a), NEW b \in Admins, b # a
  PROVE  job'[b] = job[b] /\ Locks(b)' = Locks(b)
  <1>1. job'[b] = job[b]
    <2>1. ASSUME NEW op \in {"ban", "erase"}, NEW u \in Users, Begin(a, op, u)
          PROVE  job'[b] = job[b]
      BY <2>1 DEF Begin, TypeOK
    <2>2. CASE LockOwned(a)
      BY <2>2 DEF LockOwned, TypeOK
    <2>3. CASE ChooseHeirs(a)
      BY <2>3 DEF ChooseHeirs, TypeOK
    <2>4. CASE CommitBan(a) \/ CommitErasure(a) \/ Abort(a)
      BY <2>4 DEF CommitBan, CommitErasure, Abort, TypeOK
    <2> QED
      BY <2>1, <2>2, <2>3, <2>4 DEF Transaction
  <1> QED
    BY <1>1 DEF Locks

\* After a commit or an abort a transaction holds nothing.
LEMMA Ended ==
  ASSUME TypeOK, NEW a \in Admins, CommitBan(a) \/ CommitErasure(a) \/ Abort(a)
  PROVE  job'[a] = Idle /\ job'[a].step = "idle" /\ Locks(a)' = {}
  <1>1. job'[a] = Idle
    BY DEF CommitBan, CommitErasure, Abort, TypeOK
  <1> QED
    BY <1>1 DEF Locks, Idle

\* What a transaction holds after a step that did not end it.
LEMMA BeginHolds ==
  ASSUME TypeOK, NEW a \in Admins, NEW op, NEW u, Begin(a, op, u)
  PROVE  job'[a].step = "read" /\ Locks(a)' = {}
  BY DEF Begin, TypeOK, Locks

\* The lock takes the rows the account still owns, and nobody else holds one of them.
LEMMA LockHolds ==
  ASSUME TypeOK, NEW a \in Admins, LockOwned(a)
  PROVE  /\ job'[a].step = "locked" /\ job'[a].user = job[a].user
         /\ Locks(a)' = job'[a].rows
         /\ \A e \in Locks(a)' : /\ e \in Events /\ owner[e] = job[a].user
                                 /\ \A b \in Admins \ {a} : e \notin Locks(b)
  <1> DEFINE rows == {e \in Events : owner[e] = job[a].user
                                     /\ (job[a].op = "ban" => hiddenAt[e] = 0)}
  <1>1. job[a] \in Transactions
    BY Running DEF LockOwned
  <1>2. job'[a] = [job[a] EXCEPT !.step = "locked", !.rows = rows]
    BY DEF LockOwned, TypeOK
  <1>3. /\ job'[a].step = "locked" /\ job'[a].user = job[a].user /\ job'[a].rows = rows
    BY <1>1, <1>2 DEF Transactions
  <1>4. \A e \in rows : \A b \in Admins \ {a} : e \notin Locks(b)
    BY DEF LockOwned, Unlocked
  <1> QED
    BY <1>3, <1>4 DEF Locks

\* The heirs are chosen among the rows locked, one for each that has somebody to pass to.
LEMMA ChooseHolds ==
  ASSUME TypeOK, NEW a \in Admins, ChooseHeirs(a)
  PROVE  /\ job[a].step = "locked" /\ job'[a].step = "decided"
         /\ job'[a].user = job[a].user /\ job'[a].rows = job[a].rows
         /\ job'[a].stamp = job[a].stamp /\ job'[a].absent = Users \ LiveUsers
         /\ Locks(a)' = Locks(a) /\ Locks(a) = job[a].rows
         /\ DOMAIN job'[a].heirs
               = {e \in Transferable(a) : HeirsOf(e, job[a].user) # {}}
         /\ \A e \in DOMAIN job'[a].heirs : job'[a].heirs[e] \in HeirsOf(e, job[a].user)
  <1> DEFINE shared == {e \in Transferable(a) : HeirsOf(e, job[a].user) # {}}
  <1>1. PICK heirs \in [shared -> Users] :
           /\ \A e \in shared : heirs[e] \in HeirsOf(e, job[a].user)
           /\ job' = [job EXCEPT ![a] = [@ EXCEPT !.step = "decided", !.heirs = heirs,
                                                  !.absent = Users \ LiveUsers]]
    BY DEF ChooseHeirs
  <1>2. job[a] \in Transactions /\ job[a].step = "locked"
    BY Running DEF ChooseHeirs
  <1>3. job'[a] = [job[a] EXCEPT !.step = "decided", !.heirs = heirs,
                                 !.absent = Users \ LiveUsers]
    BY <1>1 DEF TypeOK
  <1>4. /\ job'[a].step = "decided" /\ job'[a].user = job[a].user
        /\ job'[a].rows = job[a].rows /\ job'[a].stamp = job[a].stamp
        /\ job'[a].absent = Users \ LiveUsers /\ job'[a].heirs = heirs
    BY <1>2, <1>3 DEF Transactions
  <1>5. DOMAIN heirs = shared
    OBVIOUS
  <1>6. Locks(a)' = job'[a].rows /\ Locks(a) = job[a].rows
    BY <1>2, <1>4 DEF Locks
  <1> QED
    BY <1>1, <1>2, <1>4, <1>5, <1>6

\* No row is locked twice.
LEMMA LocksStep ==
  ASSUME TypeOK, LocksApart, [Next]_vars
  PROVE  LocksApart'
  <1>1. ASSUME UNCHANGED job
        PROVE  LocksApart'
    BY <1>1 DEF LocksApart, Locks
  <1>2. ASSUME NEW a \in Admins, Transaction(a)
        PROVE  LocksApart'
    <2>1. ASSUME NEW b \in Admins, b # a
          PROVE  Locks(a)' \cap Locks(b) = {}
      <3>1. CASE \E op \in {"ban", "erase"}, u \in Users : Begin(a, op, u)
        BY <3>1, BeginHolds
      <3>2. CASE LockOwned(a)
        BY <2>1, <3>2, LockHolds
      <3>3. CASE ChooseHeirs(a)
        BY <2>1, <3>3, ChooseHolds DEF LocksApart
      <3>4. CASE CommitBan(a) \/ CommitErasure(a) \/ Abort(a)
        BY <3>4, Ended
      <3> QED
        BY <1>2, <3>1, <3>2, <3>3, <3>4 DEF Transaction
    <2>2. \A b \in Admins : b # a => Locks(b)' = Locks(b)
      BY <1>2, OthersStand
    <2> QED
      BY <2>1, <2>2 DEF LocksApart
  <1>3. CASE \/ UNCHANGED vars \/ (\E u \in Users : RestoreUser(u))
             \/ (\E u \in Users, e \in Events : Join(u, e) \/ Leave(u, e))
             \/ (\E e \in Events : SoftDeleteEvent(e))
    BY <1>1, <1>3 DEF vars, RestoreUser, Join, Leave, SoftDeleteEvent
  <1> QED
    BY <1>2, <1>3 DEF Next

-----------------------------------------------------------------------------
\* What a lock preserves: the owner and the stamp of the row, and its credit but for the
\* accounts erased meanwhile.
Stands(e) ==
    /\ owner'[e] = owner[e] /\ hiddenAt'[e] = hiddenAt[e]
    /\ credit'[e] \subseteq credit[e] /\ credit[e] \subseteq credit'[e] \cup gone'
    /\ gone \subseteq gone'

\* At the commit every row with an heir is locked, and its heir is a credited account that lives.
LEMMA DecidedLocks ==
  ASSUME HeirsWait, NEW a \in Admins, MayCommit(a)
  PROVE  /\ job[a].step = "decided" /\ Locks(a) = job[a].rows
         /\ DOMAIN job[a].heirs \subseteq job[a].rows
         /\ \A e \in DOMAIN job[a].heirs :
              /\ job[a].heirs[e] \in Users \ ({job[a].user} \cup gone)
              /\ job[a].heirs[e] \in credit[e] /\ hiddenAt[e] # Apart
  BY DEF HeirsWait, MayCommit, Locks

\* A transaction leaves the rows it has not locked itself alone, if another has.
LEMMA OthersRowsStand ==
  ASSUME TypeOK, LocksApart, HeirsWait, NEW a \in Admins, Transaction(a),
         NEW b \in Admins, b # a, NEW e \in Locks(b)
  PROVE  Stands(e)
  <1>1. e \in Events /\ e \notin Locks(a)
    BY LocksOf DEF LocksApart
  <1>2. CASE CommitBan(a)
    <2>1. e \notin DOMAIN job[a].heirs
      BY <1>1, <1>2, DecidedLocks DEF CommitBan
    <2>2. owner'[e] = owner[e]
      BY <1>1, <1>2, <2>1 DEF CommitBan, HandedOver
    <2>3. ~(owner'[e] = job[a].user /\ hiddenAt[e] = 0)
      BY <1>1, <1>2 DEF CommitBan, Unlocked
    <2>4. hiddenAt'[e] = hiddenAt[e]
      BY <1>1, <1>2, <2>1, <2>3 DEF CommitBan
    <2> QED
      BY <1>2, <2>2, <2>4 DEF CommitBan, Stands
  <1>3. CASE CommitErasure(a)
    <2>1. e \notin job[a].rows /\ e \notin DOMAIN job[a].heirs
      BY <1>1, <1>3, DecidedLocks DEF CommitErasure
    <2>2. owner'[e] = owner[e] /\ hiddenAt'[e] = hiddenAt[e]
      BY <1>1, <1>3, <2>1 DEF CommitErasure, HandedOver
    <2>3. credit'[e] = credit[e] \ {job[a].user} /\ gone' = gone \cup {job[a].user}
      BY <1>1, <1>3, <2>1 DEF CommitErasure
    <2> QED
      BY <2>2, <2>3 DEF Stands
  <1>4. ASSUME UNCHANGED <<accounts, events>>
        PROVE  Stands(e)
    BY <1>4 DEF accounts, events, Stands
  <1>5. CASE \E op \in {"ban", "erase"}, u \in Users : Begin(a, op, u)
    BY <1>4, <1>5 DEF Begin
  <1>6. CASE LockOwned(a) \/ ChooseHeirs(a) \/ Abort(a)
    BY <1>4, <1>6 DEF LockOwned, ChooseHeirs, Abort
  <1> QED
    BY <1>2, <1>3, <1>5, <1>6 DEF Transaction

\* The writes outside the transactions, each refused on a locked row.
Elsewhere ==
    \/ UNCHANGED vars
    \/ \E u \in Users : RestoreUser(u)
    \/ \E u \in Users, e \in Events : Join(u, e) \/ Leave(u, e)
    \/ \E e \in Events : SoftDeleteEvent(e)

\* A step that is no transaction leaves the locks and what they hold as they are.
LEMMA ElsewhereStands ==
  ASSUME TypeOK, Elsewhere
  PROVE  /\ UNCHANGED job
         /\ \A b \in Admins : Locks(b)' = Locks(b) /\ \A e \in Locks(b) : Stands(e)
  <1>1. UNCHANGED job
    BY DEF Elsewhere, vars, RestoreUser, Join, Leave, SoftDeleteEvent
  <1>2. ASSUME NEW b \in Admins, NEW e \in Locks(b)
        PROVE  Stands(e)
    <2>1. e \in Events
      BY <1>2, LocksOf
    <2>2. ASSUME NEW u \in Users, RestoreUser(u)
          PROVE  Stands(e)
      <3>1. hiddenAt'[e] = hiddenAt[e]
        BY <1>2, <2>1, <2>2 DEF RestoreUser, Unlocked
      <3> QED
        BY <2>2, <3>1 DEF RestoreUser, Stands
    <2>3. ASSUME NEW u \in Users, NEW f \in Events, Join(u, f) \/ Leave(u, f)
          PROVE  Stands(e)
      <3>1. e # f
        BY <1>2, <2>3 DEF Join, Leave, Unlocked
      <3>2. credit'[e] = credit[e]
        BY <2>1, <2>3, <3>1 DEF Join, Leave, TypeOK
      <3> QED
        BY <2>3, <3>2 DEF Join, Leave, Stands, accounts
    <2>4. ASSUME NEW f \in Events, SoftDeleteEvent(f)
          PROVE  Stands(e)
      <3>1. e # f
        BY <1>2, <2>4 DEF SoftDeleteEvent, Unlocked
      <3>2. hiddenAt'[e] = hiddenAt[e]
        BY <2>1, <2>4, <3>1 DEF SoftDeleteEvent, TypeOK
      <3> QED
        BY <2>4, <3>2 DEF SoftDeleteEvent, Stands, accounts
    <2>5. CASE UNCHANGED vars
      BY <2>5 DEF vars, Stands
    <2> QED
      BY <2>2, <2>3, <2>4, <2>5 DEF Elsewhere
  <1> QED
    BY <1>1, <1>2 DEF Locks

\* A step leaves a transaction as it was, with every row it holds, unless it is its own.
LEMMA Bystander ==
  ASSUME TypeOK, LocksApart, HeirsWait, [Next]_vars, NEW b \in Admins, ~Transaction(b)
  PROVE  job'[b] = job[b] /\ Locks(b)' = Locks(b) /\ \A e \in Locks(b) : Stands(e)
  <1>1. CASE \E a \in Admins : Transaction(a)
    BY <1>1, OthersStand, OthersRowsStand
  <1>2. CASE Elsewhere
    BY <1>2, ElsewhereStands
  <1> QED
    BY <1>1, <1>2 DEF Next, Elsewhere

\* The step of each part of the invariant, from the parts it leans on.
LEMMA OwnedStep ==
  ASSUME TypeOK, LocksApart, HeirsWait, LockedIsOwned, [Next]_vars
  PROVE  LockedIsOwned'
  <1> SUFFICES ASSUME NEW b \in Admins, NEW e \in Locks(b)'
               PROVE  owner'[e] = job'[b].user
    BY DEF LockedIsOwned
  <1>1. CASE ~Transaction(b)
    BY <1>1, Bystander DEF LockedIsOwned, Stands
  <1>2. CASE LockOwned(b)
    BY <1>2, LockHolds DEF LockOwned, events
  <1>3. CASE ChooseHeirs(b)
    <2>1. job'[b].user = job[b].user /\ Locks(b)' = Locks(b)
      BY <1>3, ChooseHolds
    <2>2. owner' = owner
      BY <1>3 DEF ChooseHeirs, events
    <2> QED
      BY <2>1, <2>2 DEF LockedIsOwned
  <1>4. CASE \/ \E op \in {"ban", "erase"}, u \in Users : Begin(b, op, u)
             \/ CommitBan(b) \/ CommitErasure(b) \/ Abort(b)
    BY <1>4, BeginHolds, Ended
  <1> QED
    BY <1>1, <1>2, <1>3, <1>4 DEF Transaction

\* Only ChooseHeirs decides.
LEMMA Decided ==
  ASSUME TypeOK, LocksApart, HeirsWait, [Next]_vars, NEW b \in Admins, job'[b].step = "decided"
  PROVE  ChooseHeirs(b) \/ ~Transaction(b)
  <1>1. ASSUME NEW op, NEW u, Begin(b, op, u)
        PROVE  FALSE
    BY <1>1, BeginHolds
  <1>2. CASE LockOwned(b)
    BY <1>2, LockHolds
  <1>3. CASE CommitBan(b) \/ CommitErasure(b) \/ Abort(b)
    BY <1>3, Ended
  <1> QED
    BY <1>1, <1>2, <1>3 DEF Transaction

\* Nothing changes hands that is not locked.
LEMMA TransferableIsLocked ==
  ASSUME NEW a \in Admins, job[a].step \in {"locked", "decided"}
  PROVE  Transferable(a) \subseteq Locks(a)
  BY DEF Transferable, Locks

LEMMA HeirsStep ==
  ASSUME TypeOK, LocksApart, HeirsWait, [Next]_vars
  PROVE  HeirsWait'
  <1> SUFFICES ASSUME NEW b \in Admins, job'[b].step = "decided"
               PROVE  /\ DOMAIN job'[b].heirs \subseteq job'[b].rows
                      /\ \A e \in DOMAIN job'[b].heirs :
                            /\ job'[b].heirs[e] \in Users \ {job'[b].user}
                            /\ job'[b].heirs[e] \in credit'[e] \cup gone'
                            /\ hiddenAt'[e] # Apart
    BY DEF HeirsWait
  <1>1. CASE ChooseHeirs(b)
    <2>1. UNCHANGED <<credit, gone, hiddenAt>>
      BY <1>1 DEF ChooseHeirs, accounts, events
    <2>2. job[b].stamp \in Stamps
      BY <1>1, Fields DEF ChooseHeirs
    <2>3. \A e \in Transferable(b) : hiddenAt[e] # Apart
      BY <2>2, Clock DEF Transferable, Stamps, Apart
    <2> QED
      BY <1>1, <2>1, <2>3, ChooseHolds, TransferableIsLocked DEF HeirsOf, LiveUsers
  <1>2. CASE ~Transaction(b)
    <2>1. job'[b] = job[b] /\ Locks(b) = job[b].rows /\ \A e \in Locks(b) : Stands(e)
      BY <1>2, Bystander DEF Locks
    <2> QED
      BY <2>1 DEF HeirsWait, Stands
  <1> QED
    BY <1>1, <1>2, Decided

LEMMA LeftOutStep ==
  ASSUME TypeOK, LocksApart, HeirsWait, NoHeirLeftOut, [Next]_vars
  PROVE  NoHeirLeftOut'
  <1> SUFFICES ASSUME NEW b \in Admins, job'[b].step = "decided",
                      NEW e \in Transferable(b)', e \notin DOMAIN job'[b].heirs
               PROVE  credit'[e] \ {job'[b].user} \subseteq job'[b].absent
    BY DEF NoHeirLeftOut
  <1>1. CASE ChooseHeirs(b)
    <2>1. UNCHANGED <<credit, hiddenAt>>
      BY <1>1 DEF ChooseHeirs, events
    <2>2. e \in Transferable(b) /\ e \in Events
      BY <1>1, <2>1, ChooseHolds, LocksOf DEF Transferable
    <2>3. HeirsOf(e, job[b].user) = {}
      BY <1>1, <2>2, ChooseHolds
    <2> QED
      BY <1>1, <2>1, <2>2, <2>3, ChooseHolds DEF HeirsOf, TypeOK
  <1>2. CASE ~Transaction(b)
    <2>1. job'[b] = job[b] /\ Locks(b) = job[b].rows /\ \A f \in Locks(b) : Stands(f)
      BY <1>2, Bystander DEF Locks
    <2>2. e \in job[b].rows /\ e \in Transferable(b)
      BY <2>1 DEF Transferable, Stands
    <2> QED
      BY <2>1, <2>2 DEF NoHeirLeftOut, Stands
  <1> QED
    BY <1>1, <1>2, Decided

-----------------------------------------------------------------------------
\* A deleted row is hidden by nobody ...
LEMMA DeletedStep ==
  ASSUME TypeOK, HeirsWait, DeletedRow, [Next]_vars
  PROVE  DeletedRow'
  <1> SUFFICES ASSUME NEW e \in Events, owner'[e] = NoUser
               PROVE  hiddenAt'[e] = 0
    BY DEF DeletedRow
  <1>1. ASSUME NEW a \in Admins, CommitBan(a)
        PROVE  hiddenAt'[e] = 0
    <2>1. job[a].user # NoUser
      BY <1>1, Fields, NoneIsNoUser DEF CommitBan, MayCommit
    <2>2. CASE e \in DOMAIN job[a].heirs
      BY <1>1, <2>2 DEF CommitBan
    <2>3. CASE e \notin DOMAIN job[a].heirs
      <3>1. owner[e] = NoUser
        BY <1>1, <2>3 DEF CommitBan, HandedOver
      <3> QED
        BY <1>1, <2>1, <2>3, <3>1 DEF CommitBan, DeletedRow
    <2> QED
      BY <2>2, <2>3
  <1>2. ASSUME NEW a \in Admins, CommitErasure(a)
        PROVE  hiddenAt'[e] = 0
    <2>1. CASE e \in job[a].rows
      BY <1>2, <2>1 DEF CommitErasure
    <2>2. CASE e \notin job[a].rows
      <3>1. owner[e] = NoUser
        BY <1>2, <2>2, DecidedLocks DEF CommitErasure, HandedOver
      <3> QED
        BY <1>2, <2>2, <3>1 DEF CommitErasure, DeletedRow
    <2> QED
      BY <2>1, <2>2
  <1>3. ASSUME NEW a \in Admins, Transaction(a), ~CommitBan(a), ~CommitErasure(a)
        PROVE  hiddenAt'[e] = 0
    BY <1>3 DEF Transaction, Begin, LockOwned, ChooseHeirs, Abort, events, DeletedRow
  <1>4. CASE \E u \in Users : RestoreUser(u)
    BY <1>4 DEF RestoreUser, DeletedRow
  <1>5. CASE \E u \in Users, f \in Events : Join(u, f) \/ Leave(u, f)
    BY <1>5 DEF Join, Leave, DeletedRow
  <1>6. CASE \E f \in Events : SoftDeleteEvent(f)
    BY <1>6 DEF SoftDeleteEvent, DeletedRow, TypeOK
  <1>7. CASE UNCHANGED vars
    BY <1>7 DEF vars, DeletedRow
  <1> QED
    BY <1>1, <1>2, <1>3, <1>4, <1>5, <1>6, <1>7 DEF Next

\* ... the owner keeps the credit, and an heir has it ...
LEMMA CreditStep ==
  ASSUME TypeOK, HeirsWait, OwnerIsCredited, [Next]_vars
  PROVE  OwnerIsCredited'
  <1> SUFFICES ASSUME NEW e \in Events, owner'[e] # NoUser
               PROVE  owner'[e] \in credit'[e]
    BY DEF OwnerIsCredited
  <1>1. ASSUME NEW a \in Admins, CommitBan(a)
        PROVE  owner'[e] \in credit'[e]
    <2>1. UNCHANGED credit
      BY <1>1 DEF CommitBan
    <2>2. CASE e \in DOMAIN job[a].heirs
      BY <1>1, <2>1, <2>2, DecidedLocks DEF CommitBan, HandedOver
    <2>3. CASE e \notin DOMAIN job[a].heirs
      BY <1>1, <2>1, <2>3 DEF CommitBan, HandedOver, OwnerIsCredited
    <2> QED
      BY <2>2, <2>3
  <1>2. ASSUME NEW a \in Admins, CommitErasure(a)
        PROVE  owner'[e] \in credit'[e]
    <2>1. e \notin job[a].rows \ DOMAIN job[a].heirs
      BY <1>2 DEF CommitErasure
    <2>2. owner'[e] = HandedOver(a)[e] /\ credit'[e] = credit[e] \ {job[a].user}
      BY <1>2, <2>1 DEF CommitErasure
    <2>3. CASE e \in DOMAIN job[a].heirs
      BY <1>2, <2>2, <2>3, DecidedLocks DEF CommitErasure, HandedOver
    <2>4. CASE e \notin DOMAIN job[a].heirs
      <3>1. owner[e] # job[a].user
        BY <1>2, <2>1, <2>4 DEF CommitErasure
      <3> QED
        BY <2>2, <2>4, <3>1 DEF HandedOver, OwnerIsCredited
    <2> QED
      BY <2>3, <2>4
  <1>3. ASSUME NEW a \in Admins, Transaction(a), ~CommitBan(a), ~CommitErasure(a)
        PROVE  owner'[e] \in credit'[e]
    BY <1>3 DEF Transaction, Begin, LockOwned, ChooseHeirs, Abort, events, OwnerIsCredited
  <1>4. CASE \E u \in Users : RestoreUser(u)
    BY <1>4 DEF RestoreUser, OwnerIsCredited
  <1>5. CASE \E u \in Users, f \in Events : Join(u, f) \/ Leave(u, f)
    BY <1>5 DEF Join, Leave, OwnerIsCredited, TypeOK
  <1>6. CASE \E f \in Events : SoftDeleteEvent(f)
    BY <1>6 DEF SoftDeleteEvent, OwnerIsCredited
  <1>7. CASE UNCHANGED vars
    BY <1>7 DEF vars, OwnerIsCredited
  <1> QED
    BY <1>1, <1>2, <1>3, <1>4, <1>5, <1>6, <1>7 DEF Next

\* ... and what a ban hides carries the stamp of its owner.
HiddenRight(e) == hiddenAt[e] > 0 => owner[e] \in restamped \/ hiddenAt[e] = bannedAt[owner[e]]

LEMMA HiddenStep ==
  ASSUME TypeOK, HeirsWait, DeletedRow, HiddenWithTheBan, [Next]_vars
  PROVE  HiddenWithTheBan'
  <1> SUFFICES ASSUME NEW e \in Events, hiddenAt'[e] > 0
               PROVE  owner'[e] \in restamped' \/ hiddenAt'[e] = bannedAt'[owner'[e]]
    BY DEF HiddenWithTheBan
  <1>0. HiddenRight(e) /\ hiddenAt[e] \in Int /\ clock \in Nat
    BY Clock DEF HiddenWithTheBan, HiddenRight, TypeOK, Stamps, Apart
  <1>1. ASSUME NEW a \in Admins, CommitBan(a)
        PROVE  owner'[e] \in restamped' \/ hiddenAt'[e] = bannedAt'[owner'[e]]
    <2> DEFINE u == job[a].user
    <2>1. u \in Users
      BY <1>1, Fields DEF CommitBan, MayCommit
    <2>2. bannedAt' = [bannedAt EXCEPT ![u] = clock + 1] /\ bannedAt'[u] = clock + 1
      BY <1>1, <2>1 DEF CommitBan, TypeOK
    <2>3. e \notin DOMAIN job[a].heirs
      BY <1>1 DEF CommitBan
    <2>4. owner'[e] = owner[e]
      BY <1>1, <2>3 DEF CommitBan, HandedOver
    <2>5. CASE owner[e] = u /\ hiddenAt[e] = 0
      BY <1>1, <2>2, <2>3, <2>4, <2>5 DEF CommitBan
    <2>6. CASE owner[e] = u /\ hiddenAt[e] # 0
      <3>1. hiddenAt'[e] = hiddenAt[e]
        BY <1>1, <2>3, <2>4, <2>6 DEF CommitBan
      <3>2. owner[e] \in restamped \/ bannedAt[u] > 0
        BY <1>0, <2>6, <3>1 DEF HiddenRight
      <3> QED
        BY <1>1, <2>4, <2>6, <3>2 DEF CommitBan
    <2>7. CASE owner[e] # u
      <3>1. hiddenAt'[e] = hiddenAt[e]
        BY <1>1, <2>3, <2>4, <2>7 DEF CommitBan
      <3>2. owner[e] \in Users
        BY <3>1 DEF DeletedRow, TypeOK
      <3>3. bannedAt'[owner[e]] = bannedAt[owner[e]]
        BY <2>2, <2>7, <3>2 DEF TypeOK
      <3> QED
        BY <1>0, <1>1, <2>4, <3>1, <3>3 DEF CommitBan, HiddenRight
    <2> QED
      BY <2>5, <2>6, <2>7
  <1>2. ASSUME NEW a \in Admins, CommitErasure(a)
        PROVE  owner'[e] \in restamped' \/ hiddenAt'[e] = bannedAt'[owner'[e]]
    <2>1. e \notin job[a].rows
      BY <1>2 DEF CommitErasure
    <2>2. hiddenAt'[e] = hiddenAt[e] /\ owner'[e] = owner[e] /\ owner[e] # job[a].user
      BY <1>2, <2>1, DecidedLocks DEF CommitErasure, HandedOver
    <2>3. owner[e] \in Users
      BY <2>2 DEF DeletedRow, TypeOK
    <2>4. bannedAt'[owner[e]] = bannedAt[owner[e]]
      BY <1>2, <2>2, <2>3 DEF CommitErasure, TypeOK
    <2> QED
      BY <1>0, <1>2, <2>2, <2>4 DEF CommitErasure, HiddenRight
  <1>3. ASSUME NEW u \in Users, RestoreUser(u)
        PROVE  owner'[e] \in restamped' \/ hiddenAt'[e] = bannedAt'[owner'[e]]
    <2>1. hiddenAt'[e] = hiddenAt[e] /\ ~(owner[e] = u /\ hiddenAt[e] = bannedAt[u])
      BY <1>3 DEF RestoreUser
    <2>2. owner[e] \in Users
      BY <2>1 DEF DeletedRow, TypeOK
    <2>3. owner[e] # u => bannedAt'[owner[e]] = bannedAt[owner[e]]
      BY <1>3, <2>2 DEF RestoreUser, TypeOK
    <2> QED
      BY <1>0, <1>3, <2>1, <2>3 DEF RestoreUser, HiddenRight
  <1>4. ASSUME NEW a \in Admins, Transaction(a), ~CommitBan(a), ~CommitErasure(a)
        PROVE  UNCHANGED <<hiddenAt, owner, bannedAt, restamped>>
    BY <1>4 DEF Transaction, Begin, LockOwned, ChooseHeirs, Abort, events, accounts
  <1>5. CASE \E u \in Users, f \in Events : Join(u, f) \/ Leave(u, f)
    BY <1>0, <1>5 DEF Join, Leave, HiddenRight, accounts
  <1>6. CASE \E f \in Events : SoftDeleteEvent(f)
    <2>1. hiddenAt'[e] = hiddenAt[e]
      BY <1>6 DEF SoftDeleteEvent, TypeOK, Apart
    <2> QED
      BY <1>0, <1>6, <2>1 DEF SoftDeleteEvent, HiddenRight, accounts
  <1>7. CASE UNCHANGED vars
    BY <1>0, <1>7 DEF vars, HiddenRight
  <1> QED
    BY <1>0, <1>1, <1>2, <1>3, <1>4, <1>5, <1>6, <1>7 DEF Next, HiddenRight

-----------------------------------------------------------------------------
LEMMA Inductive ==
  ASSUME IInv, [Next]_vars
  PROVE  IInv'
  <1> USE DEF IInv
  <1>1. TypeOK' /\ LocksApart'
    BY TypeStep, LocksStep
  <1>2. LockedIsOwned' /\ HeirsWait' /\ NoHeirLeftOut'
    BY OwnedStep, HeirsStep, LeftOutStep
  <1>3. DeletedRow' /\ OwnerIsCredited' /\ HiddenWithTheBan'
    BY DeletedStep, CreditStep, HiddenStep
  <1> QED
    BY <1>1, <1>2, <1>3

\* What the locks of the admin transactions protect holds in every reachable state.
THEOREM Invariant == Spec => []IInv
  BY InitIInv, Inductive, PTL DEF Spec

\* Types, and the foreign key of an event to its owner.
THEOREM TypeCorrect == Spec => []TypeOK
  BY Invariant, PTL DEF IInv

\* "Always among the geolocators" (models/event.py), whatever runs at once.
THEOREM OwnersAreCredited == Spec => []OwnerIsCredited
  BY Invariant, PTL DEF IInv

\* An event a ban hid can be found by the stamp of its owner (soft_delete_user, restore_user),
\* unless two bans of that owner raced.
THEOREM HiddenWithItsOwner == Spec => []HiddenWithTheBan
  BY Invariant, PTL DEF IInv

\* What is deleted on its own stays deleted (restore_user, hand_over_owned_events).
THEOREM DeletedApart == Spec => DeletedApartStays
  <1> DEFINE Stays(e) == hiddenAt[e] = Apart => hiddenAt'[e] = Apart \/ owner'[e] = NoUser
  <1>1. ASSUME IInv, [Next]_vars
        PROVE  [\A e \in Events : Stays(e)]_vars
    <2>1. SUFFICES ASSUME NEW e \in Events, hiddenAt[e] = Apart, hiddenAt'[e] # Apart, Next
                   PROVE  owner'[e] = NoUser
      BY <1>1
    <2>2. TypeOK /\ HeirsWait /\ Apart \notin Stamps /\ Apart # 0
      BY <1>1, Clock DEF IInv, Stamps, Apart
    <2>3. ASSUME NEW a \in Admins, CommitBan(a)
          PROVE  owner'[e] = NoUser
      BY <2>1, <2>2, <2>3, DecidedLocks DEF CommitBan
    <2>4. ASSUME NEW a \in Admins, CommitErasure(a)
          PROVE  owner'[e] = NoUser
      BY <2>1, <2>2, <2>4, DecidedLocks DEF CommitErasure
    <2>5. ASSUME NEW u \in Users, RestoreUser(u)
          PROVE  owner'[e] = NoUser
      BY <2>1, <2>2, <2>5 DEF RestoreUser, TypeOK
    <2>6. ASSUME NEW a \in Admins, Transaction(a), ~CommitBan(a), ~CommitErasure(a)
          PROVE  UNCHANGED hiddenAt
      BY <2>6 DEF Transaction, Begin, LockOwned, ChooseHeirs, Abort, events
    <2>7. CASE \E u \in Users, f \in Events : Join(u, f) \/ Leave(u, f)
      BY <2>1, <2>7 DEF Join, Leave
    <2>8. CASE \E f \in Events : SoftDeleteEvent(f)
      BY <2>1, <2>2, <2>8 DEF SoftDeleteEvent, TypeOK
    <2> QED
      BY <2>1, <2>3, <2>4, <2>5, <2>6, <2>7, <2>8 DEF Next
  <1> QED
    BY <1>1, Invariant, PTL DEF Spec, DeletedApartStays

\* Shared work is hidden or deleted only when nobody could inherit it (soft_delete_user,
\* hard_delete_user): the locks make the choice of heirs hold until the commit.
THEOREM SharedWork == Spec => SharedWorkPasses
  <1> DEFINE Passes(a, e) ==
          /\ job[a] # Idle /\ job'[a] = Idle
          /\ job[a].step = "decided" /\ e \in Transferable(a)
          /\ owner'[e] = NoUser \/ hiddenAt'[e] > hiddenAt[e]
          => credit[e] \ {job[a].user} \subseteq job[a].absent
  <1>1. ASSUME IInv, [Next]_vars
        PROVE  [\A a \in Admins, e \in Events : Passes(a, e)]_vars
    <2>1. SUFFICES ASSUME NEW a \in Admins, NEW e \in Events,
                          job[a] # Idle, job'[a] = Idle, job[a].step = "decided",
                          e \in Transferable(a),
                          owner'[e] = NoUser \/ hiddenAt'[e] > hiddenAt[e]
                   PROVE  e \notin DOMAIN job[a].heirs
      BY <1>1 DEF IInv, NoHeirLeftOut
    <2>2. TypeOK /\ HeirsWait /\ LocksApart /\ LockedIsOwned
      BY <1>1 DEF IInv
    <2>3. e \in Locks(a) /\ owner[e] = job[a].user /\ owner[e] # NoUser /\ hiddenAt[e] \in Int
      BY <2>1, <2>2, Fields, TransferableIsLocked, NoneIsNoUser, Clock
         DEF LockedIsOwned, TypeOK, Stamps, Apart
    <2>4. hiddenAt[e] >= 0
      BY <2>1, <2>3 DEF Transferable
    <2>5. CASE ~Transaction(a)
      BY <1>1, <2>1, <2>2, <2>5, Bystander
    <2>6. CASE CommitBan(a)
      BY <2>1, <2>2, <2>3, <2>4, <2>6, DecidedLocks, NoneIsNoUser DEF CommitBan, HandedOver
    <2>7. CASE CommitErasure(a)
      BY <2>1, <2>2, <2>3, <2>4, <2>7, DecidedLocks, NoneIsNoUser DEF CommitErasure, HandedOver
    <2>8. CASE Abort(a) \/ LockOwned(a) \/ ChooseHeirs(a)
                 \/ \E op \in {"ban", "erase"}, u \in Users : Begin(a, op, u)
      <3>1. UNCHANGED events
        BY <2>8 DEF Abort, LockOwned, ChooseHeirs, Begin
      <3> QED
        BY <2>1, <2>3, <3>1 DEF events
    <2> QED
      BY <2>5, <2>6, <2>7, <2>8 DEF Transaction
  <1> QED
    BY <1>1, Invariant, PTL DEF Spec, SharedWorkPasses

-----------------------------------------------------------------------------
\* A confirmation at work holds the row it claimed, and nobody else does.
ClaimsHold ==
    \A c \in Clicks : click[c] # NoRow =>
        LET e == click[c].email
        IN /\ Staged(e) /\ pending[e].token = click[c].row.token
           /\ pending[e].name = click[c].row.name /\ pending[e].invite = click[c].row.invite
ClaimsApart ==
    \A c, d \in Clicks :
        c # d /\ click[c] # NoRow /\ click[d] # NoRow => click[c].email # click[d].email

\* A link is mailed once, and not again after it has opened an account.
LinksApart ==
    /\ \A e \in Emails : Staged(e) => pending[e].token <= lastToken
    /\ \A e, f \in Emails :
          Staged(e) /\ Staged(f) /\ e # f => pending[e].token # pending[f].token
    /\ \A u \in opened :
          u.token <= lastToken /\ \A e \in Emails : Staged(e) => pending[e].token # u.token

\* An account was opened by a code that was minted.
OpenedByCode == \A u \in opened : invite[u.invite] # NotMinted

RegistrationInv ==
    /\ RegistrationTypeOK /\ ClaimsHold /\ ClaimsApart /\ LinksApart
    /\ OpenedByCode /\ InviteServesOnce

-----------------------------------------------------------------------------
\* The bounds are numbers, and no sponsor is nobody.
LEMMA RegistrationBounds ==
  DailyMintLimit \in Nat /\ DailyMintLimit > 0 /\ MaxToken \in Nat /\ MaxDay \in Nat
  /\ Nobody \notin Sponsors
  BY RegistrationAssumption

\* A code that has a row, a staged registration and a confirmation are records of their fields.
LEMMA CodeKept ==
  ASSUME RegistrationTypeOK, NEW i \in Invites, HasRow(i)
  PROVE  invite[i] \in Kept
  <1>1. invite[i] \in Kept \cup {NotMinted}
    BY DEF RegistrationTypeOK
  <1>2. NotMinted.state # "kept"
    BY DEF NotMinted
  <1> QED
    BY <1>1, <1>2 DEF HasRow

\* A code whose use, revocation, expiry or deletion is written is a code still.
LEMMA CodeWritten ==
  ASSUME NEW code \in Kept
  PROVE  /\ [code EXCEPT !.used = TRUE] \in Kept
         /\ [code EXCEPT !.revoked = TRUE] \in Kept
         /\ [code EXCEPT !.expired = TRUE] \in Kept
         /\ [code EXCEPT !.state = "deleted"] \in Kept
  BY DEF Kept

\* A staged row is a record of its fields.
LEMMA RowStaged ==
  ASSUME RegistrationTypeOK, NEW e \in Emails, Staged(e)
  PROVE  pending[e] \in Rows
  BY DEF RegistrationTypeOK, Staged, NoRow

\* A confirmation at work is one, and its address is claimed.
LEMMA ClickHeld ==
  ASSUME RegistrationTypeOK, NEW c \in Clicks, click[c] # NoRow
  PROVE  /\ click[c] \in [state : {"claimed", "checked"}, email : Emails, row : Rows]
         /\ click[c].state # "none" /\ click[c].email \in Emails /\ click[c].row \in Rows
         /\ Claimed(click[c].email)
  BY DEF RegistrationTypeOK, Claimed

\* The sweep removes staged rows, and only rows nobody claimed.
LEMMA SweptRows ==
  ASSUME RegistrationTypeOK, MaySweep, NEW e \in Emails
  PROVE  /\ Swept \in [Emails -> Rows \cup {NoRow}]
         /\ Swept[e] = pending[e] \/ Swept[e] = NoRow
         /\ Claimed(e) => Swept[e] = pending[e]
  BY DEF RegistrationTypeOK, MaySweep, Swept

-----------------------------------------------------------------------------
\* Types after a step on the codes.
LEMMA CodeTypes ==
  ASSUME RegistrationTypeOK, NEW i \in Invites,
         \/ MintAsAdmin(i) \/ RevokeOwn(i) \/ RevokeAsAdmin(i) \/ ReadUnused(i)
         \/ CodeExpires(i) \/ \E d \in Desks : FinishMint(d, i)
  PROVE  RegistrationTypeOK'
  <1>1. ASSUME NEW by \in Sponsors \cup {Nobody}
        PROVE  NewCode(by) \in Kept
    BY DEF NewCode, Kept, RegistrationTypeOK
  <1>2. CASE MintAsAdmin(i)
    BY <1>1, <1>2 DEF MintAsAdmin, RegistrationTypeOK, requests
  <1>3. CASE RevokeOwn(i) \/ RevokeAsAdmin(i)
    <2>1. HasRow(i) /\ invite' = [invite EXCEPT ![i] = [@ EXCEPT !.revoked = TRUE]]
      BY <1>3 DEF RevokeOwn, RevokeAsAdmin, Active
    <2>2. [invite[i] EXCEPT !.revoked = TRUE] \in Kept
      BY <2>1, CodeKept, CodeWritten
    <2> QED
      BY <1>3, <2>1, <2>2 DEF RevokeOwn, RevokeAsAdmin, RegistrationTypeOK, requests
  <1>4. CASE ReadUnused(i)
    BY <1>4 DEF ReadUnused, RegistrationTypeOK, requests
  <1>5. CASE CodeExpires(i)
    <2>1. HasRow(i) /\ invite' = [invite EXCEPT ![i] = [@ EXCEPT !.expired = TRUE]]
      BY <1>5 DEF CodeExpires
    <2>2. [invite[i] EXCEPT !.expired = TRUE] \in Kept
      BY <2>1, CodeKept, CodeWritten
    <2> QED
      BY <1>5, <2>1, <2>2 DEF CodeExpires, RegistrationTypeOK, requests
  <1>6. ASSUME NEW d \in Desks, FinishMint(d, i)
        PROVE  RegistrationTypeOK'
    <2>1. NewCode(mint[d]) \in Kept
      BY <1>1 DEF RegistrationTypeOK
    <2> QED
      BY <1>6, <2>1 DEF FinishMint, RegistrationTypeOK, requests
  <1> QED
    BY <1>2, <1>3, <1>4, <1>5, <1>6

\* Types after a code is deleted, the registrations staged on it with it.
LEMMA DeleteTypes ==
  ASSUME RegistrationTypeOK, NEW i \in Invites, DeleteCode(i)
  PROVE  RegistrationTypeOK'
  <1>1. HasRow(i) => [invite[i] EXCEPT !.state = "deleted"] \in Kept
    BY CodeKept, CodeWritten
  <1>2. invite' \in [Invites -> Kept \cup {NotMinted}]
    BY <1>1 DEF DeleteCode, RegistrationTypeOK
  <1>3. pending' \in [Emails -> Rows \cup {NoRow}]
    BY DEF DeleteCode, RegistrationTypeOK
  <1> QED
    BY <1>2, <1>3 DEF DeleteCode, RegistrationTypeOK, requests

\* Types after a step of a registration.
LEMMA VisitTypes ==
  ASSUME RegistrationTypeOK, NEW v \in Visitors,
         \/ \E e \in Emails, n \in Names, i \in Invites : CheckRegistration(v, e, n, i)
         \/ StageRegistration(v) \/ RegistrationRefused(v)
  PROVE  RegistrationTypeOK'
  <1>1. ASSUME NEW e \in Emails, NEW n \in Names, NEW i \in Invites, CheckRegistration(v, e, n, i)
        PROVE  RegistrationTypeOK'
    <2>1. pending' \in [Emails -> Rows \cup {NoRow}]
      BY <1>1, SweptRows DEF CheckRegistration, RegistrationTypeOK, Swept
    <2> QED
      BY <1>1, <2>1 DEF CheckRegistration, RegistrationTypeOK, codes
  <1>2. CASE StageRegistration(v)
    <2>1. visit[v] \in [state : {"checked"}, email : Emails, name : Names, invite : Invites]
      BY <1>2 DEF StageRegistration, RegistrationTypeOK
    <2>2. lastToken' \in 0 .. MaxToken /\ lastToken + 1 \in 1 .. MaxToken
      BY <1>2, RegistrationBounds DEF StageRegistration, RegistrationTypeOK
    <2>3. [state |-> "staged", name |-> visit[v].name, invite |-> visit[v].invite,
           token |-> lastToken + 1, late |-> FALSE] \in Rows
      BY <2>1, <2>2 DEF Rows
    <2>4. pending' \in [Emails -> Rows \cup {NoRow}]
      BY <1>2, <2>1, <2>3 DEF StageRegistration, RegistrationTypeOK
    <2> QED
      BY <1>2, <2>2, <2>4 DEF StageRegistration, RegistrationTypeOK, codes
  <1>3. CASE RegistrationRefused(v)
    BY <1>3 DEF RegistrationRefused, RegistrationTypeOK, codes
  <1> QED
    BY <1>1, <1>2, <1>3

\* Types after a resend, a sweep or an expiry.
LEMMA RowTypes ==
  ASSUME RegistrationTypeOK,
         SweepExpired \/ \E e \in Emails : Resend(e) \/ RowExpires(e)
  PROVE  RegistrationTypeOK'
  <1>1. CASE SweepExpired
    <2>1. pending' \in [Emails -> Rows \cup {NoRow}]
      BY <1>1 DEF SweepExpired, RegistrationTypeOK, Swept
    <2> QED
      BY <1>1, <2>1 DEF SweepExpired, RegistrationTypeOK, codes, requests
  <1>2. ASSUME NEW e \in Emails, Resend(e)
        PROVE  RegistrationTypeOK'
    <2>1. lastToken' \in 0 .. MaxToken /\ lastToken + 1 \in 1 .. MaxToken
      BY <1>2, RegistrationBounds DEF Resend, RegistrationTypeOK
    <2>2. Swept \in [Emails -> Rows \cup {NoRow}] /\ Swept[e] = pending[e]
      BY <1>2 DEF Resend, Swept, RegistrationTypeOK
    <2>3. [pending[e] EXCEPT !.token = lastToken + 1] \in Rows
      BY <1>2, <2>1, RowStaged DEF Resend, Rows
    <2>4. pending' \in [Emails -> Rows \cup {NoRow}]
      BY <1>2, <2>2, <2>3 DEF Resend
    <2> QED
      BY <1>2, <2>1, <2>4 DEF Resend, RegistrationTypeOK, codes, requests
  <1>3. ASSUME NEW e \in Emails, RowExpires(e)
        PROVE  RegistrationTypeOK'
    <2>1. [pending[e] EXCEPT !.late = TRUE] \in Rows
      BY <1>3, RowStaged DEF RowExpires, Rows
    <2> QED
      BY <1>3, <2>1 DEF RowExpires, RegistrationTypeOK, codes, requests
  <1> QED
    BY <1>1, <1>2, <1>3

\* Types after a step of a confirmation.
LEMMA ClickTypes ==
  ASSUME RegistrationTypeOK, NEW c \in Clicks,
         \/ \E t \in 1 .. lastToken : ClaimToken(c, t)
         \/ RejectConfirmation(c) \/ PassChecks(c) \/ LandAccount(c) \/ RollBackConfirmation(c)
  PROVE  RegistrationTypeOK'
  <1>1. ASSUME NEW t \in 1 .. lastToken, ClaimToken(c, t)
        PROVE  RegistrationTypeOK'
    <2>1. PICK e \in Emails :
             /\ Staged(e)
             /\ click' = [click EXCEPT ![c] = [state |-> "claimed", email |-> e, row |-> pending[e]]]
      BY <1>1 DEF ClaimToken
    <2>2. [state |-> "claimed", email |-> e, row |-> pending[e]]
            \in [state : {"claimed", "checked"}, email : Emails, row : Rows]
      BY <2>1, RowStaged
    <2> QED
      BY <1>1, <2>1, <2>2 DEF ClaimToken, RegistrationTypeOK, codes
  <1>2. CASE RejectConfirmation(c)
    BY <1>2 DEF RejectConfirmation, RegistrationTypeOK, codes
  <1>3. CASE PassChecks(c)
    <2>1. click[c] # NoRow
      BY <1>3 DEF PassChecks, NoRow
    <2>2. [click[c] EXCEPT !.state = "checked"]
            \in [state : {"claimed", "checked"}, email : Emails, row : Rows]
      BY <2>1, ClickHeld
    <2> QED
      BY <1>3, <2>2 DEF PassChecks, RegistrationTypeOK, codes
  <1>4. CASE LandAccount(c)
    <2> DEFINE user == [email |-> click[c].email, name |-> click[c].row.name,
                        invite |-> click[c].row.invite, token |-> click[c].row.token]
               i == click[c].row.invite
    <2>1. click[c] # NoRow
      BY <1>4 DEF LandAccount, NoRow
    <2>2. user \in Accounts /\ i \in Invites
      BY <2>1, ClickHeld DEF Rows, Accounts
    <2>3. users' = users \cup {user} /\ opened' = opened \cup {user}
          /\ invite' = [invite EXCEPT ![i] = [@ EXCEPT !.used = TRUE]]
      BY <1>4 DEF LandAccount
    <2>4. [invite[i] EXCEPT !.used = TRUE] \in Kept
      <3>1. HasRow(i)
        BY <1>4 DEF LandAccount, Consumable
      <3>2. invite[i] \in Kept
        BY <2>2, <3>1, CodeKept
      <3> QED
        BY <3>2, CodeWritten
    <2>5. invite' \in [Invites -> Kept \cup {NotMinted}]
      BY <2>2, <2>3, <2>4 DEF RegistrationTypeOK
    <2>6. opened' \subseteq Accounts /\ users' \subseteq opened'
      BY <2>2, <2>3 DEF RegistrationTypeOK
    <2>7. pending' \in [Emails -> Rows \cup {NoRow}] /\ click' = [click EXCEPT ![c] = NoRow]
      BY <1>4 DEF LandAccount, RegistrationTypeOK
    <2> QED
      BY <1>4, <2>5, <2>6, <2>7 DEF LandAccount, RegistrationTypeOK
  <1>5. CASE RollBackConfirmation(c)
    BY <1>5 DEF RollBackConfirmation, RegistrationTypeOK, codes
  <1> QED
    BY <1>1, <1>2, <1>3, <1>4, <1>5

\* Every step keeps the types.
LEMMA RegistrationTypeStep ==
  ASSUME RegistrationTypeOK, [RegistrationNext]_regVars
  PROVE  RegistrationTypeOK'
  <1>1. CASE UNCHANGED regVars
    BY <1>1 DEF regVars, codes, requests, RegistrationTypeOK
  <1>2. ASSUME NEW i \in Invites, Invitation(i)
        PROVE  RegistrationTypeOK'
    BY <1>2, CodeTypes, DeleteTypes DEF Invitation
  <1>3. ASSUME NEW d \in Desks, AbandonMint(d) \/ \E s \in Sponsors : BeginMint(d, s)
        PROVE  RegistrationTypeOK'
    BY <1>3 DEF AbandonMint, BeginMint, RegistrationTypeOK, codes, requests
  <1>4. ASSUME NEW u \in users, EraseUser(u)
        PROVE  RegistrationTypeOK'
    BY <1>4 DEF EraseUser, RegistrationTypeOK, codes, requests
  <1>5. CASE NewDay
    BY <1>5, RegistrationBounds DEF NewDay, RegistrationTypeOK, codes, requests
  <1> QED
    BY <1>1, <1>2, <1>3, <1>4, <1>5, VisitTypes, RowTypes, ClickTypes DEF RegistrationNext

-----------------------------------------------------------------------------
\* Codes are of no concern to the rows, and a mint, a visit or an erasure changes none.
RowsKept == UNCHANGED <<pending, lastToken, click>> /\ opened' = opened

\* A step that leaves rows, links, confirmations and accounts alone keeps what is said of them.
LEMMA RowsStand ==
  ASSUME ClaimsHold, ClaimsApart, LinksApart, RowsKept
  PROVE  ClaimsHold' /\ ClaimsApart' /\ LinksApart'
  BY DEF RowsKept, ClaimsHold, ClaimsApart, LinksApart, Staged

\* Rows that go, none of them claimed, take nothing from the confirmations.
LEMMA RowsGo ==
  ASSUME RegistrationTypeOK, ClaimsHold, ClaimsApart, LinksApart,
         UNCHANGED <<lastToken, click>>, opened' = opened,
         \A e \in Emails : pending'[e] = pending[e] \/ (pending'[e] = NoRow /\ ~Claimed(e))
  PROVE  ClaimsHold' /\ ClaimsApart' /\ LinksApart'
  <1>1. ClaimsHold'
    BY ClickHeld DEF ClaimsHold, Staged
  <1>2. ClaimsApart'
    BY DEF ClaimsApart
  <1>3. \A e \in Emails : Staged(e)' => Staged(e) /\ pending'[e] = pending[e]
    BY DEF Staged, NoRow
  <1>4. LinksApart'
    BY <1>3 DEF LinksApart
  <1> QED
    BY <1>1, <1>2, <1>4

\* A sweep spares the rows that are claimed.
LEMMA SweepSpares ==
  ASSUME RegistrationTypeOK, MaySweep, NEW e \in Emails
  PROVE  Swept[e] = pending[e] \/ (Swept[e] = NoRow /\ ~Claimed(e))
  BY SweptRows

\* A link mailed now is one above the last: it is nobody else's.
LEMMA FreshLink ==
  ASSUME RegistrationTypeOK, LinksApart, NEW e \in Emails,
         lastToken' = lastToken + 1, opened' = opened, pending'[e].token = lastToken + 1,
         \A f \in Emails : f # e /\ Staged(f)' => Staged(f) /\ pending'[f] = pending[f]
  PROVE  LinksApart'
  <1>1. lastToken \in Nat
    BY RegistrationBounds DEF RegistrationTypeOK
  <1>2. \A f \in Emails : Staged(f) => pending[f].token \in Nat /\ pending[f].token <= lastToken
    <2>1. \A f \in Emails : Staged(f) => pending[f].token \in 1 .. MaxToken
      BY RowStaged DEF Rows
    <2> QED
      BY <2>1, RegistrationBounds DEF LinksApart
  <1>3. \A u \in opened : u.token \in Nat /\ u.token <= lastToken
    <2>1. \A u \in opened : u.token \in 1 .. MaxToken
      BY DEF RegistrationTypeOK, Accounts
    <2> QED
      BY <2>1, RegistrationBounds DEF LinksApart
  <1>4. \A f \in Emails : Staged(f)' =>
           \/ f = e /\ pending'[f].token = lastToken + 1
           \/ /\ f # e /\ Staged(f) /\ pending'[f].token = pending[f].token
              /\ pending'[f].token \in Nat /\ pending'[f].token <= lastToken
    BY <1>2
  <1>5. \A f \in Emails : Staged(f)' => pending'[f].token <= lastToken'
    BY <1>1, <1>4
  <1>6. \A f, g \in Emails :
           Staged(f)' /\ Staged(g)' /\ f # g => pending'[f].token # pending'[g].token
    BY <1>1, <1>4 DEF LinksApart
  <1>7. \A u \in opened' :
           u.token <= lastToken' /\ \A f \in Emails : Staged(f)' => pending'[f].token # u.token
    BY <1>1, <1>3, <1>4 DEF LinksApart
  <1> QED
    BY <1>5, <1>6, <1>7 DEF LinksApart

\* What is claimed stays claimed while an unclaimed row is written.
LEMMA RegistrationRows ==
  ASSUME RegistrationTypeOK, ClaimsHold, ClaimsApart, LinksApart, NEW v \in Visitors,
         \/ \E e \in Emails, n \in Names, i \in Invites : CheckRegistration(v, e, n, i)
         \/ StageRegistration(v) \/ RegistrationRefused(v)
  PROVE  ClaimsHold' /\ ClaimsApart' /\ LinksApart'
  <1>1. ASSUME NEW e \in Emails, NEW n \in Names, NEW i \in Invites, CheckRegistration(v, e, n, i)
        PROVE  ClaimsHold' /\ ClaimsApart' /\ LinksApart'
    <2>1. \A f \in Emails : pending'[f] = pending[f] \/ (pending'[f] = NoRow /\ ~Claimed(f))
      BY <1>1, SweepSpares DEF CheckRegistration
    <2> QED
      BY <1>1, <2>1, RowsGo DEF CheckRegistration
  <1>2. CASE StageRegistration(v)
    <2>0. PICK e \in Emails : e = visit[v].email
      BY <1>2 DEF StageRegistration, RegistrationTypeOK
    <2>1. /\ ~Staged(e) /\ lastToken' = lastToken + 1 /\ lastToken \in Nat
          /\ \A f \in Emails : f # e => pending'[f] = pending[f]
          /\ pending'[e].token = lastToken + 1 /\ Staged(e)'
          /\ click' = click /\ opened' = opened
      <3>0. lastToken \in Nat /\ click' = click /\ opened' = opened
        BY <1>2, RegistrationBounds DEF StageRegistration, RegistrationTypeOK, codes
      <3>2. pending' = [pending EXCEPT ![e] =
               [state |-> "staged", name |-> visit[v].name, invite |-> visit[v].invite,
                token |-> lastToken + 1, late |-> FALSE]]
        BY <1>2, <2>0 DEF StageRegistration
      <3> QED
        BY <1>2, <2>0, <3>0, <3>2 DEF StageRegistration, Free, RegistrationTypeOK, Staged, NoRow
    <2>2. ClaimsHold'
      BY <2>1, ClickHeld DEF ClaimsHold, Staged
    <2>3. ClaimsApart'
      BY <2>1 DEF ClaimsApart
    <2>4. \A f \in Emails : f # e /\ Staged(f)' => Staged(f) /\ pending'[f] = pending[f]
      BY <2>1 DEF Staged
    <2>7. LinksApart'
      BY <2>1, <2>4, FreshLink
    <2> QED
      BY <2>2, <2>3, <2>7
  <1>3. CASE RegistrationRefused(v)
    BY <1>3, RowsStand DEF RegistrationRefused, RowsKept
  <1> QED
    BY <1>1, <1>2, <1>3

\* A sweep, a resend or an expiry keeps the claims and the links apart.
LEMMA RowsMove ==
  ASSUME RegistrationTypeOK, ClaimsHold, ClaimsApart, LinksApart,
         SweepExpired \/ \E e \in Emails : Resend(e) \/ RowExpires(e)
  PROVE  ClaimsHold' /\ ClaimsApart' /\ LinksApart'
  <1>1. CASE SweepExpired
    <2>1. \A f \in Emails : pending'[f] = pending[f] \/ (pending'[f] = NoRow /\ ~Claimed(f))
      BY <1>1, SweepSpares DEF SweepExpired
    <2> QED
      BY <1>1, <2>1, RowsGo DEF SweepExpired, requests
  <1>2. ASSUME NEW e \in Emails, Resend(e)
        PROVE  ClaimsHold' /\ ClaimsApart' /\ LinksApart'
    <2>1. Swept \in [Emails -> Rows \cup {NoRow}] /\ Swept[e] = pending[e]
      BY <1>2, SweptRows DEF Resend, Swept
    <2>2. /\ ~Claimed(e) /\ Staged(e) /\ lastToken' = lastToken + 1
          /\ \A f \in Emails : f # e => pending'[f] = Swept[f]
          /\ pending'[e] = [pending[e] EXCEPT !.token = lastToken + 1]
          /\ click' = click /\ opened' = opened
      BY <1>2, <2>1 DEF Resend, RegistrationTypeOK, requests
    <2>3. pending'[e].token = lastToken + 1 /\ Staged(e)'
      BY <2>2, RowStaged DEF Rows, Staged
    <2>4. \A f \in Emails : f # e => pending'[f] = pending[f] \/ (pending'[f] = NoRow /\ ~Claimed(f))
      BY <1>2, <2>2, SweepSpares DEF Resend
    <2>5. ClaimsHold'
      BY <2>2, <2>4, ClickHeld DEF ClaimsHold, Staged
    <2>6. ClaimsApart'
      BY <2>2 DEF ClaimsApart
    <2>7. \A f \in Emails : f # e /\ Staged(f)' => Staged(f) /\ pending'[f] = pending[f]
      BY <2>4 DEF Staged, NoRow
    <2>10. LinksApart'
      BY <2>2, <2>3, <2>7, FreshLink
    <2> QED
      BY <2>5, <2>6, <2>10
  <1>3. ASSUME NEW e \in Emails, RowExpires(e)
        PROVE  ClaimsHold' /\ ClaimsApart' /\ LinksApart'
    <2>1. /\ click' = click /\ opened' = opened /\ lastToken' = lastToken
          /\ \A f \in Emails : f # e => pending'[f] = pending[f]
          /\ pending'[e] = [pending[e] EXCEPT !.late = TRUE] /\ pending[e] \in Rows
      BY <1>3, RowStaged DEF RowExpires, RegistrationTypeOK, requests
    <2>2. \A f \in Emails : Staged(f) =>
             /\ pending'[f].token = pending[f].token /\ pending'[f].name = pending[f].name
             /\ pending'[f].invite = pending[f].invite /\ pending'[f].state = pending[f].state
      BY <2>1 DEF Rows, Staged
    <2>3. \A f \in Emails : Staged(f)' <=> Staged(f)
      BY <2>1, <2>2, <1>3 DEF Staged, Rows, RowExpires
    <2>4. ClaimsHold'
      BY <2>1, <2>2, <2>3, ClickHeld DEF ClaimsHold
    <2>5. ClaimsApart'
      BY <2>1 DEF ClaimsApart
    <2>6. LinksApart'
      BY <2>1, <2>2, <2>3 DEF LinksApart
    <2> QED
      BY <2>4, <2>5, <2>6
  <1> QED
    BY <1>1, <1>2, <1>3

\* A claim takes a row that nobody else holds; its end gives it up or takes it away.
LEMMA ClaimRows ==
  ASSUME RegistrationTypeOK, ClaimsHold, ClaimsApart, LinksApart, NEW c \in Clicks,
         NEW t, ClaimToken(c, t)
  PROVE  ClaimsHold' /\ ClaimsApart' /\ LinksApart'
  <1>1. PICK e \in Emails :
           /\ Staged(e) /\ ~Claimed(e)
           /\ click' = [click EXCEPT ![c] = [state |-> "claimed", email |-> e, row |-> pending[e]]]
    BY DEF ClaimToken
  <1>2. /\ pending' = pending /\ opened' = opened /\ lastToken' = lastToken
        /\ click'[c].email = e /\ click'[c].row = pending[e]
        /\ \A d \in Clicks : d # c => click'[d] = click[d]
    BY <1>1 DEF ClaimToken, RegistrationTypeOK
  <1>3. ClaimsHold'
    BY <1>1, <1>2 DEF ClaimsHold, Staged
  <1>4. \A d \in Clicks : click[d] # NoRow => click[d].email # e
    BY <1>1, ClickHeld
  <1>5. ClaimsApart'
    BY <1>2, <1>4 DEF ClaimsApart
  <1> QED
    BY <1>2, <1>3, <1>5 DEF LinksApart, Staged

\* The end of a claim: its row stays or goes, and an account it opens carries its link.
LEMMA EndOfClaim ==
  ASSUME RegistrationTypeOK, ClaimsHold, ClaimsApart, LinksApart, NEW c \in Clicks,
         click[c] # NoRow, click' = [click EXCEPT ![c] = NoRow],
         lastToken' = lastToken,
         \/ pending' = pending
         \/ pending' = [pending EXCEPT ![click[c].email] = NoRow],
         \/ opened' = opened
         \/ /\ pending' = [pending EXCEPT ![click[c].email] = NoRow]
            /\ \A u \in opened' \ opened : u.token = click[c].row.token
  PROVE  ClaimsHold' /\ ClaimsApart' /\ LinksApart'
  <1>1. PICK e \in Emails :
           e = click[c].email /\ Staged(e) /\ pending[e].token = click[c].row.token
    BY ClickHeld DEF ClaimsHold
  <1>2. \A d \in Clicks :
           click'[d] # NoRow => /\ d # c /\ click[d] # NoRow /\ click'[d] = click[d]
                                /\ click[d].email # e
    BY <1>1 DEF ClaimsApart, RegistrationTypeOK
  <1>3. \A f \in Emails : f # e => pending'[f] = pending[f]
    BY <1>1 DEF RegistrationTypeOK
  <1>4. ClaimsHold'
    BY <1>2, <1>3, ClickHeld DEF ClaimsHold, Staged
  <1>5. ClaimsApart'
    BY <1>2 DEF ClaimsApart
  <1>6. \A f \in Emails : Staged(f)' => Staged(f) /\ pending'[f] = pending[f]
    BY <1>1, <1>3 DEF Staged, NoRow, RegistrationTypeOK
  <1>7. CASE opened' = opened
    BY <1>4, <1>5, <1>6, <1>7 DEF LinksApart
  <1>8. CASE /\ pending' = [pending EXCEPT ![e] = NoRow]
             /\ \A u \in opened' \ opened : u.token = click[c].row.token
    <2>1. ~Staged(e)'
      <3>1. pending'[e] = NoRow
        BY <1>1, <1>8 DEF RegistrationTypeOK
      <3> QED
        BY <3>1 DEF Staged, NoRow
    <2>2. \A f \in Emails : Staged(f)' => f # e
      BY <2>1
    <2>3. \A u \in opened' : u \in opened \/ u.token = pending[e].token
      BY <1>1, <1>8
    <2>4. pending[e].token <= lastToken
      BY <1>1 DEF LinksApart
    <2>5. \A u \in opened' :
             u.token <= lastToken' /\ \A f \in Emails : Staged(f)' => pending'[f].token # u.token
      BY <1>1, <1>6, <2>2, <2>3, <2>4 DEF LinksApart
    <2>6. /\ \A f \in Emails : Staged(f)' => pending'[f].token <= lastToken'
          /\ \A f, g \in Emails :
                Staged(f)' /\ Staged(g)' /\ f # g => pending'[f].token # pending'[g].token
      BY <1>6 DEF LinksApart
    <2> QED
      BY <1>4, <1>5, <2>5, <2>6 DEF LinksApart
  <1> QED
    BY <1>1, <1>7, <1>8

\* Every step of a confirmation keeps the claims and the links apart.
LEMMA ClickRows ==
  ASSUME RegistrationTypeOK, ClaimsHold, ClaimsApart, LinksApart, NEW c \in Clicks,
         \/ \E t \in 1 .. lastToken : ClaimToken(c, t)
         \/ RejectConfirmation(c) \/ PassChecks(c) \/ LandAccount(c) \/ RollBackConfirmation(c)
  PROVE  ClaimsHold' /\ ClaimsApart' /\ LinksApart'
  <1>1. ASSUME NEW t \in 1 .. lastToken, ClaimToken(c, t)
        PROVE  ClaimsHold' /\ ClaimsApart' /\ LinksApart'
    BY <1>1, ClaimRows
  <1>2. CASE RejectConfirmation(c) \/ RollBackConfirmation(c)
    BY <1>2, EndOfClaim DEF RejectConfirmation, RollBackConfirmation, NoRow
  <1>3. CASE LandAccount(c)
    <2>1. click[c] # NoRow
      BY <1>3 DEF LandAccount, NoRow
    <2>2. \A u \in opened' \ opened : u.token = click[c].row.token
      BY <1>3 DEF LandAccount
    <2> QED
      BY <1>3, <2>1, <2>2, EndOfClaim DEF LandAccount
  <1>4. CASE PassChecks(c)
    <2>1. click[c] # NoRow /\ click' = [click EXCEPT ![c] = [@ EXCEPT !.state = "checked"]]
      BY <1>4 DEF PassChecks, NoRow
    <2>2. \A d \in Clicks : click'[d] # NoRow =>
             click[d] # NoRow /\ click'[d].email = click[d].email /\ click'[d].row = click[d].row
      BY <2>1, ClickHeld DEF RegistrationTypeOK
    <2> QED
      BY <1>4, <2>2 DEF PassChecks, ClaimsHold, ClaimsApart, LinksApart, Staged
  <1> QED
    BY <1>1, <1>2, <1>3, <1>4

\* Every step keeps the claims with their rows and the links apart.
LEMMA RowsStep ==
  ASSUME RegistrationTypeOK, ClaimsHold, ClaimsApart, LinksApart, [RegistrationNext]_regVars
  PROVE  ClaimsHold' /\ ClaimsApart' /\ LinksApart'
  <1>1. CASE UNCHANGED regVars
    BY <1>1, RowsStand DEF regVars, requests, RowsKept
  <1>2. ASSUME NEW i \in Invites, Invitation(i)
        PROVE  ClaimsHold' /\ ClaimsApart' /\ LinksApart'
    <2>1. CASE DeleteCode(i)
      <3>1. \A e \in Emails : pending'[e] = pending[e] \/ (pending'[e] = NoRow /\ ~Claimed(e))
        BY <2>1 DEF DeleteCode
      <3> QED
        BY <2>1, <3>1, RowsGo DEF DeleteCode, requests
    <2>2. CASE ~DeleteCode(i)
      BY <1>2, <2>2, RowsStand DEF Invitation, MintAsAdmin, RevokeOwn, RevokeAsAdmin, ReadUnused,
         CodeExpires, FinishMint, RowsKept, requests
    <2> QED
      BY <2>1, <2>2
  <1>3. ASSUME NEW d \in Desks, AbandonMint(d) \/ \E s \in Sponsors : BeginMint(d, s)
        PROVE  RowsKept
    BY <1>3 DEF AbandonMint, BeginMint, RowsKept, requests
  <1>4. ASSUME NEW u \in users, EraseUser(u)
        PROVE  RowsKept
    BY <1>4 DEF EraseUser, RowsKept, requests
  <1>5. CASE NewDay
    BY <1>5, RowsStand DEF NewDay, RowsKept, requests
  <1> QED
    BY <1>1, <1>2, <1>3, <1>4, <1>5, RowsStand, RegistrationRows, RowsMove, ClickRows
       DEF RegistrationNext

-----------------------------------------------------------------------------
\* A code that has been minted keeps who minted it and when; only a landing spends it.
CodesStand(i) ==
    invite[i] # NotMinted =>
        /\ invite'[i] # NotMinted /\ invite'[i].used = invite[i].used
        /\ invite'[i].by = invite[i].by /\ invite'[i].day = invite[i].day

\* A code that is not minted is given a row of its own, unspent and of today.
CodeOf(i, by) ==
    /\ invite[i] = NotMinted /\ invite'[i] # NotMinted
    /\ invite'[i].used = FALSE /\ invite'[i].by = by /\ invite'[i].day = today
    /\ \A j \in Invites : j # i => invite'[j] = invite[j]

\* A mint gives a code that had no row one of its own.
LEMMA CodesMinted ==
  ASSUME RegistrationTypeOK, NEW i \in Invites, NEW by, invite[i] = NotMinted,
         invite' = [invite EXCEPT ![i] = NewCode(by)]
  PROVE  CodeOf(i, by)
  <1>1. invite'[i] = NewCode(by) /\ \A j \in Invites : j # i => invite'[j] = invite[j]
    BY DEF RegistrationTypeOK
  <1>2. NewCode(by).state # NotMinted.state
    BY DEF NewCode, NotMinted
  <1>3. NewCode(by).used = FALSE /\ NewCode(by).by = by /\ NewCode(by).day = today
    BY DEF NewCode
  <1> QED
    BY <1>1, <1>2, <1>3 DEF CodeOf

\* A mark on a code's row, its deletion too, leaves the codes standing.
LEMMA CodeMarked ==
  ASSUME RegistrationTypeOK, NEW i \in Invites, HasRow(i),
         \/ invite' = [invite EXCEPT ![i] = [@ EXCEPT !.revoked = TRUE]]
         \/ invite' = [invite EXCEPT ![i] = [@ EXCEPT !.expired = TRUE]]
         \/ invite' = [invite EXCEPT ![i] = [@ EXCEPT !.state = "deleted"]]
  PROVE  \A j \in Invites : CodesStand(j)
  <1>1. invite[i] \in Kept
    BY CodeKept
  <1>2. \A j \in Invites : j # i => invite'[j] = invite[j]
    BY DEF RegistrationTypeOK
  <1>3. NotMinted \notin Kept
    BY DEF NotMinted, Kept
  <1>4. /\ invite'[i] \in Kept /\ invite'[i].used = invite[i].used
        /\ invite'[i].by = invite[i].by /\ invite'[i].day = invite[i].day
    <2>1. \/ invite'[i] = [invite[i] EXCEPT !.revoked = TRUE]
          \/ invite'[i] = [invite[i] EXCEPT !.expired = TRUE]
          \/ invite'[i] = [invite[i] EXCEPT !.state = "deleted"]
      BY DEF RegistrationTypeOK
    <2> QED
      BY <1>1, <2>1 DEF Kept
  <1> QED
    BY <1>2, <1>3, <1>4 DEF CodesStand

\* Every step on a code but a mint leaves the codes standing.
LEMMA CodesKept ==
  ASSUME RegistrationTypeOK, NEW i \in Invites,
         RevokeOwn(i) \/ RevokeAsAdmin(i) \/ ReadUnused(i) \/ DeleteCode(i) \/ CodeExpires(i)
  PROVE  \A j \in Invites : CodesStand(j)
  <1>1. CASE RevokeOwn(i) \/ RevokeAsAdmin(i)
    BY <1>1, CodeMarked DEF RevokeOwn, RevokeAsAdmin, Active
  <1>2. CASE ReadUnused(i)
    <2>1. invite' = invite
      BY <1>2 DEF ReadUnused
    <2> QED
      BY <2>1 DEF CodesStand
  <1>3. CASE DeleteCode(i)
    <2>1. CASE HasRow(i)
      <3>1. invite' = [invite EXCEPT ![i] = [@ EXCEPT !.state = "deleted"]]
        BY <1>3, <2>1 DEF DeleteCode
      <3> QED
        BY <2>1, <3>1, CodeMarked
    <2>2. CASE ~HasRow(i)
      <3>1. \A j \in Invites : invite'[j] = invite[j]
        BY <1>3, <2>2 DEF DeleteCode, RegistrationTypeOK
      <3> QED
        BY <3>1 DEF CodesStand
    <2> QED
      BY <2>1, <2>2
  <1>4. CASE CodeExpires(i)
    BY <1>4, CodeMarked DEF CodeExpires
  <1> QED
    BY <1>1, <1>2, <1>3, <1>4

\* Codes that stand, and accounts that stay, keep the pact of a code with its account.
LEMMA ServesStand ==
  ASSUME InviteServesOnce, opened' = opened, \A i \in Invites : CodesStand(i),
         \A i \in Invites : invite[i] = NotMinted => invite'[i] = NotMinted
  PROVE  InviteServesOnce'
  BY DEF InviteServesOnce, CodesStand

\* A code just minted has opened nothing: its account would have spent it.
LEMMA ServesMinted ==
  ASSUME RegistrationTypeOK, InviteServesOnce, opened' = opened,
         OpenedByCode, NEW i \in Invites, NEW by, CodeOf(i, by)
  PROVE  InviteServesOnce' /\ OpenedByCode'
  <1>1. \A j \in Invites : j # i => invite'[j] = invite[j]
    BY DEF CodeOf
  <1>2. \A u \in opened : u.invite \in Invites /\ u.invite # i
    BY DEF CodeOf, RegistrationTypeOK, Accounts, OpenedByCode
  <1>3. OpenedByCode'
    BY <1>1, <1>2 DEF OpenedByCode
  <1> QED
    BY <1>1, <1>2, <1>3 DEF InviteServesOnce, CodeOf

\* What a landing does: one account, of a code not spent, and of a link that opened none.
LEMMA ServesLanding ==
  ASSUME RegistrationInv, NEW c \in Clicks, LandAccount(c)
  PROVE  OpenedByCode' /\ InviteServesOnce'
  <1> DEFINE user == [email |-> click[c].email, name |-> click[c].row.name,
                      invite |-> click[c].row.invite, token |-> click[c].row.token]
  <1>1. click[c] # NoRow /\ opened' = opened \cup {user}
    BY DEF LandAccount, NoRow
  <1>2. PICK i \in Invites : i = click[c].row.invite
    BY <1>1, ClickHeld DEF Rows, RegistrationInv
  <1>3. /\ invite[i] \in Kept /\ invite[i].used = FALSE
        /\ invite' = [invite EXCEPT ![i] = [@ EXCEPT !.used = TRUE]]
    BY <1>2, CodeKept DEF LandAccount, Consumable, Kept, RegistrationInv
  <1>4. NotMinted \notin Kept
    BY DEF NotMinted, Kept
  <1>5. /\ \A j \in Invites : j # i => invite'[j] = invite[j]
        /\ invite'[i] \in Kept /\ invite'[i].used = TRUE
    BY <1>3 DEF RegistrationInv, RegistrationTypeOK, Kept
  <1>6. \A u \in opened : u.invite \in Invites /\ u.invite # i
    BY <1>3, <1>4 DEF RegistrationInv, RegistrationTypeOK, Accounts, InviteServesOnce
  <1>7. \A u \in opened : u.token # user.token
    BY <1>1, ClickHeld DEF RegistrationInv, ClaimsHold, LinksApart
  <1>8. user.invite = i
    BY <1>2
  <1>9. OpenedByCode'
    BY <1>1, <1>4, <1>5, <1>6, <1>8 DEF RegistrationInv, OpenedByCode
  <1>10. \A u, w \in opened' : u # w => u.invite # w.invite /\ u.token # w.token
    BY <1>1, <1>6, <1>7, <1>8 DEF RegistrationInv, InviteServesOnce
  <1>11. \A j \in Invites :
            invite'[j] # NotMinted => (invite'[j].used <=> \E u \in opened' : u.invite = j)
    <2>1. \A j \in Invites : (\E u \in opened' : u.invite = j)
                             <=> j = i \/ \E u \in opened : u.invite = j
      BY <1>1, <1>8
    <2> QED
      BY <1>5, <2>1 DEF RegistrationInv, InviteServesOnce
  <1> QED
    BY <1>9, <1>10, <1>11 DEF InviteServesOnce

\* Codes and accounts that are left alone.
LEMMA ServesApart ==
  ASSUME OpenedByCode, InviteServesOnce, opened' = opened, invite' = invite
  PROVE  OpenedByCode' /\ InviteServesOnce'
  BY DEF OpenedByCode, InviteServesOnce

\* Every step keeps the pact of the codes with the accounts they open.
LEMMA ServesStep ==
  ASSUME RegistrationInv, [RegistrationNext]_regVars
  PROVE  OpenedByCode' /\ InviteServesOnce'
  <1> USE DEF RegistrationInv
  <1>1. CASE UNCHANGED regVars
    BY <1>1, ServesApart DEF regVars, codes
  <1>2. ASSUME NEW i \in Invites, Invitation(i)
        PROVE  OpenedByCode' /\ InviteServesOnce'
    <2>1. CASE MintAsAdmin(i)
      BY <2>1, CodesMinted, ServesMinted DEF MintAsAdmin
    <2>2. ASSUME NEW d \in Desks, FinishMint(d, i)
          PROVE  OpenedByCode' /\ InviteServesOnce'
      <3>1. CodeOf(i, mint[d]) /\ opened' = opened
        BY <2>2, CodesMinted DEF FinishMint
      <3> QED
        BY <3>1, ServesMinted
    <2>3. CASE \/ RevokeOwn(i) \/ RevokeAsAdmin(i) \/ ReadUnused(i) \/ DeleteCode(i)
               \/ CodeExpires(i)
      <3>1. \A j \in Invites : CodesStand(j)
        BY <2>3, CodesKept
      <3>2. opened' = opened /\ \A j \in Invites : invite[j] = NotMinted => invite'[j] = NotMinted
        <4>1. NotMinted.state # "kept"
          BY DEF NotMinted
        <4> QED
          BY <2>3, <4>1 DEF RevokeOwn, RevokeAsAdmin, ReadUnused, DeleteCode, CodeExpires, Active,
             HasRow, RegistrationTypeOK
      <3>3. OpenedByCode'
        BY <3>1, <3>2 DEF OpenedByCode, CodesStand, RegistrationTypeOK, Accounts
      <3> QED
        BY <3>1, <3>2, <3>3, ServesStand
    <2> QED
      BY <1>2, <2>1, <2>2, <2>3 DEF Invitation
  <1>3. ASSUME NEW d \in Desks, AbandonMint(d) \/ \E s \in Sponsors : BeginMint(d, s)
        PROVE  opened' = opened /\ invite' = invite
    BY <1>3 DEF AbandonMint, BeginMint, codes
  <1>4. ASSUME NEW v \in Visitors,
               \/ \E e \in Emails, n \in Names, i \in Invites : CheckRegistration(v, e, n, i)
               \/ StageRegistration(v) \/ RegistrationRefused(v)
        PROVE  opened' = opened /\ invite' = invite
    BY <1>4 DEF CheckRegistration, StageRegistration, RegistrationRefused, codes
  <1>5. ASSUME NEW c \in Clicks,
               \/ \E t \in 1 .. lastToken : ClaimToken(c, t)
               \/ RejectConfirmation(c) \/ PassChecks(c) \/ RollBackConfirmation(c)
        PROVE  opened' = opened /\ invite' = invite
    BY <1>5 DEF ClaimToken, RejectConfirmation, PassChecks, RollBackConfirmation, codes
  <1>6. ASSUME NEW e \in Emails, Resend(e) \/ RowExpires(e)
        PROVE  opened' = opened /\ invite' = invite
    BY <1>6 DEF Resend, RowExpires, codes
  <1>7. ASSUME NEW u \in users, EraseUser(u)
        PROVE  opened' = opened /\ invite' = invite
    BY <1>7 DEF EraseUser, codes
  <1>8. CASE SweepExpired \/ NewDay
    BY <1>8, ServesApart DEF SweepExpired, NewDay, codes
  <1> QED
    BY <1>1, <1>2, <1>3, <1>4, <1>5, <1>6, <1>7, <1>8, ServesLanding, ServesApart
       DEF RegistrationNext

\* The inductive invariant.
THEOREM RegistrationHolds == RegistrationSpec => []RegistrationInv
  <1>1. RegistrationInit => RegistrationInv
    <2>1. NoRow.state # "staged" /\ NotMinted = NotMinted
      BY DEF NoRow
    <2> SUFFICES ASSUME RegistrationInit PROVE RegistrationInv
      OBVIOUS
    <2>2. RegistrationTypeOK
      BY RegistrationBounds DEF RegistrationInit, RegistrationTypeOK
    <2>3. ClaimsHold /\ ClaimsApart /\ LinksApart /\ OpenedByCode /\ InviteServesOnce
      BY <2>1 DEF RegistrationInit, ClaimsHold, ClaimsApart, LinksApart, OpenedByCode,
         InviteServesOnce, Staged
    <2> QED
      BY <2>2, <2>3 DEF RegistrationInv
  <1>2. RegistrationInv /\ [RegistrationNext]_regVars => RegistrationInv'
    BY RegistrationTypeStep, RowsStep, ServesStep DEF RegistrationInv
  <1> QED
    BY <1>1, <1>2, PTL DEF RegistrationSpec

\* Every state of the registrations and the codes is of its types, and no account exists that
\* was never opened.
THEOREM AccountTypes == RegistrationSpec => []RegistrationTypeOK
  <1>1. RegistrationInv => RegistrationTypeOK
    BY DEF RegistrationInv
  <1> QED
    BY <1>1, RegistrationHolds, PTL

\* A code and a link each open one account at most, ever, and a code is marked used exactly
\* when it opened one: whatever checks, deletions, expiries and other confirmations come between
\* the checks of confirm_pending_registration and its commit.
THEOREM CodesServeOnce == RegistrationSpec => []InviteServesOnce
  <1>1. RegistrationInv => InviteServesOnce
    BY DEF RegistrationInv
  <1> QED
    BY <1>1, RegistrationHolds, PTL

\* Only a landing opens an account, and it opens it from the row the address still holds, which
\* goes in the same step (confirm_pending_registration).
THEOREM LiveRowsOpen == RegistrationSpec => OnlyTheLiveRowOpens
  <1> DEFINE OpensLive ==
         \A u \in opened' \ opened :
            /\ Staged(u.email) /\ pending'[u.email] = NoRow
            /\ pending[u.email].token = u.token /\ pending[u.email].name = u.name
            /\ pending[u.email].invite = u.invite
  <1>1. RegistrationInv /\ [RegistrationNext]_regVars => [OpensLive]_regVars
    <2> SUFFICES ASSUME RegistrationInv, RegistrationNext PROVE OpensLive
      OBVIOUS
    <2>1. ASSUME NEW c \in Clicks, LandAccount(c)
          PROVE  OpensLive
      <3>1. click[c] # NoRow /\ \A u \in opened' \ opened :
               u.email = click[c].email /\ u.name = click[c].row.name
               /\ u.invite = click[c].row.invite /\ u.token = click[c].row.token
        BY <2>1 DEF LandAccount, NoRow
      <3>2. pending'[click[c].email] = NoRow
        BY <2>1, <3>1, ClickHeld DEF LandAccount, RegistrationInv, RegistrationTypeOK
      <3> QED
        BY <3>1, <3>2 DEF RegistrationInv, ClaimsHold
    <2>2. CASE \A c \in Clicks : ~LandAccount(c)
      <3>1. opened' = opened
        BY <2>2 DEF RegistrationNext, Invitation, MintAsAdmin, RevokeOwn, RevokeAsAdmin,
           ReadUnused, DeleteCode, CodeExpires, FinishMint, AbandonMint, BeginMint,
           CheckRegistration, StageRegistration, RegistrationRefused, ClaimToken,
           RejectConfirmation, PassChecks, RollBackConfirmation, Resend, RowExpires, EraseUser,
           SweepExpired, NewDay
      <3> QED
        BY <3>1
    <2> QED
      BY <2>1, <2>2
  <1> QED
    BY <1>1, RegistrationHolds, PTL DEF RegistrationSpec, OnlyTheLiveRowOpens

-----------------------------------------------------------------------------
\* The codes ever minted are finite in number, none is dated ahead, and the row of a sponsor is
\* locked by one mint at most.
Minted == {i \in Invites : invite[i] # NotMinted}
MintsApart == \A d, o \in Desks : d # o /\ mint[d] # Nobody => mint[d] # mint[o]
NoneDatedAhead == \A i \in Invites : HasRow(i) => invite[i].day <= today
QuotaInv ==
    RegistrationTypeOK /\ IsFiniteSet(Minted) /\ MintsApart /\ NoneDatedAhead /\ QuotaHolds

\* What a sponsor minted today is a finite set.
LEMMA MintedFinite ==
  ASSUME RegistrationTypeOK, IsFiniteSet(Minted), NEW s
  PROVE  /\ IsFiniteSet(MintedToday(s)) /\ Cardinality(MintedToday(s)) \in Nat
         /\ \A T : T \subseteq MintedToday(s) =>
               Cardinality(T) \in Nat /\ Cardinality(T) <= Cardinality(MintedToday(s))
  <1>1. NotMinted.state # "kept"
    BY DEF NotMinted
  <1>2. MintedToday(s) \subseteq Minted
    BY <1>1 DEF MintedToday, Minted, HasRow
  <1>3. IsFiniteSet(MintedToday(s))
    BY <1>2, FS_Subset
  <1> QED
    BY <1>3, FS_Subset, FS_CardinalityType

\* A code that a step leaves or rewrites in place: what it counts for is the same or less.
CodeLasts(i) ==
    \/ invite'[i] = invite[i]
    \/ /\ HasRow(i) /\ invite'[i] # NotMinted
       /\ invite'[i].by = invite[i].by /\ invite'[i].day = invite[i].day

\* No step on a code but a mint makes one count that did not.
LEMMA CodesLast ==
  ASSUME RegistrationTypeOK, NEW i \in Invites,
         \/ RevokeOwn(i) \/ RevokeAsAdmin(i) \/ ReadUnused(i) \/ DeleteCode(i)
         \/ CodeExpires(i)
  PROVE  \A j \in Invites : CodeLasts(j)
  <1>1. \A j \in Invites : CodesStand(j)
    BY CodesKept
  <1>2. HasRow(i) \/ invite'[i] = invite[i]
    BY DEF RevokeOwn, RevokeAsAdmin, ReadUnused, DeleteCode, CodeExpires, Active, RegistrationTypeOK
  <1>3. \A j \in Invites : j # i => invite'[j] = invite[j]
    BY DEF RevokeOwn, RevokeAsAdmin, ReadUnused, DeleteCode, CodeExpires, RegistrationTypeOK
  <1>4. NotMinted.state # "kept"
    BY DEF NotMinted
  <1> QED
    BY <1>1, <1>2, <1>3, <1>4 DEF CodeLasts, CodesStand, HasRow

\* A redemption rewrites one row, and not who minted it or when.
LEMMA LandingLasts ==
  ASSUME RegistrationTypeOK, NEW c \in Clicks, LandAccount(c)
  PROVE  \A j \in Invites : CodeLasts(j)
  <1>1. click[c] # NoRow
    BY DEF LandAccount, NoRow
  <1>2. PICK i \in Invites : i = click[c].row.invite
    BY <1>1, ClickHeld DEF Rows
  <1>3. /\ HasRow(i) /\ invite[i] \in Kept
        /\ invite' = [invite EXCEPT ![i] = [@ EXCEPT !.used = TRUE]]
    BY <1>2, CodeKept DEF LandAccount, Consumable
  <1>4. invite'[i] = [invite[i] EXCEPT !.used = TRUE]
        /\ \A j \in Invites : j # i => invite'[j] = invite[j]
    BY <1>3 DEF RegistrationTypeOK
  <1>5. /\ invite'[i] \in Kept /\ invite'[i].by = invite[i].by /\ invite'[i].day = invite[i].day
    <2>1. invite[i] \in Kept
      BY <1>3
    <2>2. invite'[i] = [invite[i] EXCEPT !.used = TRUE]
      BY <1>4
    <2> QED
      BY <2>1, <2>2 DEF Kept
  <1>6. NotMinted \notin Kept
    BY DEF NotMinted, Kept
  <1> QED
    BY <1>3, <1>4, <1>5, <1>6 DEF CodeLasts

\* Codes that last, of a day that does not end, leave the quota kept while no mint begins.
LEMMA QuotaLasts ==
  ASSUME QuotaInv, RegistrationTypeOK', today' = today, \A i \in Invites : CodeLasts(i),
         \A d \in Desks : mint'[d] = mint[d] \/ mint'[d] = Nobody
  PROVE  QuotaInv'
  <1>1. NotMinted.state # "kept"
    BY DEF NotMinted
  <1>2. Minted' = Minted
    BY <1>1 DEF Minted, CodeLasts, HasRow
  <1>3. \A i \in Invites : HasRow(i)' =>
           HasRow(i) /\ invite'[i].by = invite[i].by /\ invite'[i].day = invite[i].day
    BY DEF CodeLasts, HasRow
  <1>4. NoneDatedAhead'
    BY <1>3 DEF QuotaInv, NoneDatedAhead
  <1>5. MintsApart'
    BY DEF QuotaInv, MintsApart
  <1>6. ASSUME NEW s \in Sponsors
        PROVE  /\ Cardinality(MintedToday(s)') <= DailyMintLimit
               /\ (\E d \in Desks : mint'[d] = s) => Cardinality(MintedToday(s)') < DailyMintLimit
    <2>1. MintedToday(s)' \subseteq MintedToday(s)
      BY <1>3 DEF MintedToday
    <2>2. /\ Cardinality(MintedToday(s)') \in Nat /\ Cardinality(MintedToday(s)) \in Nat
          /\ Cardinality(MintedToday(s)') <= Cardinality(MintedToday(s))
      BY <2>1, MintedFinite DEF QuotaInv
    <2>3. (\E d \in Desks : mint'[d] = s) => \E d \in Desks : mint[d] = s
      BY RegistrationBounds
    <2> QED
      BY <2>2, <2>3, RegistrationBounds DEF QuotaInv, QuotaHolds
  <1>7. QuotaHolds'
    BY <1>6 DEF QuotaHolds
  <1> QED
    BY <1>2, <1>4, <1>5, <1>7 DEF QuotaInv

\* A mint that ends: its code is the only one of its sponsor that is new, and had its place.
LEMMA QuotaMinted ==
  ASSUME QuotaInv, RegistrationTypeOK', today' = today, NEW i \in Invites,
         NEW by \in Sponsors \cup {Nobody}, CodeOf(i, by),
         \/ by = Nobody /\ mint' = mint
         \/ \E d \in Desks : by # Nobody /\ mint[d] = by /\ mint' = [mint EXCEPT ![d] = Nobody]
  PROVE  QuotaInv'
  <1>1. NotMinted.state # "kept"
    BY DEF NotMinted
  <1>2. Minted' = Minted \cup {i} /\ i \notin Minted
    BY DEF Minted, CodeOf
  <1>3. IsFiniteSet(Minted)'
    BY <1>2, FS_AddElement DEF QuotaInv
  <1>4. today \in Nat
    BY RegistrationBounds DEF QuotaInv, RegistrationTypeOK
  <1>5. NoneDatedAhead'
    BY <1>4 DEF QuotaInv, NoneDatedAhead, CodeOf, HasRow
  <1>6. \A d \in Desks : mint'[d] = mint[d] \/ mint'[d] = Nobody
    BY DEF QuotaInv, RegistrationTypeOK
  <1>7. MintsApart'
    BY <1>6 DEF QuotaInv, MintsApart
  <1>8. ~HasRow(i)
    BY <1>1 DEF CodeOf, HasRow
  <1>9. ASSUME NEW s \in Sponsors
        PROVE  /\ Cardinality(MintedToday(s)') <= DailyMintLimit
               /\ (\E d \in Desks : mint'[d] = s) => Cardinality(MintedToday(s)') < DailyMintLimit
    <2>1. CASE s # by
      <3>1. MintedToday(s)' \subseteq MintedToday(s)
        BY <2>1 DEF MintedToday, CodeOf, HasRow
      <3>2. /\ Cardinality(MintedToday(s)') \in Nat /\ Cardinality(MintedToday(s)) \in Nat
            /\ Cardinality(MintedToday(s)') <= Cardinality(MintedToday(s))
        BY <3>1, MintedFinite DEF QuotaInv
      <3>3. (\E d \in Desks : mint'[d] = s) => \E d \in Desks : mint[d] = s
        BY <1>6, RegistrationBounds
      <3> QED
        BY <3>2, <3>3, RegistrationBounds DEF QuotaInv, QuotaHolds
    <2>2. CASE s = by
      <3>1. MintedToday(s)' \subseteq MintedToday(s) \cup {i} /\ i \notin MintedToday(s)
        BY <1>8 DEF MintedToday, CodeOf, HasRow
      <3>2. PICK d \in Desks : mint[d] = s /\ mint' = [mint EXCEPT ![d] = Nobody]
        BY <2>2, RegistrationBounds
      <3>3. /\ Cardinality(MintedToday(s)) \in Nat /\ Cardinality(MintedToday(s)) < DailyMintLimit
            /\ IsFiniteSet(MintedToday(s))
        BY <3>2, MintedFinite DEF QuotaInv, QuotaHolds
      <3>4. /\ IsFiniteSet(MintedToday(s) \cup {i})
            /\ Cardinality(MintedToday(s) \cup {i}) = Cardinality(MintedToday(s)) + 1
        BY <3>1, <3>3, FS_AddElement
      <3>5. /\ Cardinality(MintedToday(s)') \in Nat
            /\ Cardinality(MintedToday(s)') <= Cardinality(MintedToday(s) \cup {i})
        BY <3>1, <3>4, FS_Subset, FS_CardinalityType
      <3>6. \A o \in Desks : mint'[o] # s
        BY <3>2, RegistrationBounds DEF QuotaInv, MintsApart, RegistrationTypeOK
      <3> QED
        BY <3>3, <3>4, <3>5, <3>6, RegistrationBounds
    <2> QED
      BY <2>1, <2>2
  <1>10. QuotaHolds'
    BY <1>9 DEF QuotaHolds
  <1> QED
    BY <1>3, <1>5, <1>7, <1>10 DEF QuotaInv

\* A mint that begins has counted, and holds the row of its sponsor alone.
LEMMA QuotaBegun ==
  ASSUME QuotaInv, RegistrationTypeOK', NEW d \in Desks, NEW s \in Sponsors, BeginMint(d, s)
  PROVE  QuotaInv'
  <1>1. /\ invite' = invite /\ today' = today
        /\ mint'[d] = s /\ \A o \in Desks : o # d => mint'[o] = mint[o] /\ mint[o] # s
    BY DEF BeginMint, QuotaInv, RegistrationTypeOK, codes
  <1>2. Minted' = Minted /\ \A t : MintedToday(t)' = MintedToday(t)
    BY <1>1 DEF Minted, MintedToday, HasRow
  <1>3. NoneDatedAhead'
    BY <1>1 DEF QuotaInv, NoneDatedAhead, HasRow
  <1>4. MintsApart'
    BY <1>1 DEF QuotaInv, MintsApart
  <1>5. Cardinality(MintedToday(s)) < DailyMintLimit
    BY DEF BeginMint
  <1>6. QuotaHolds'
    BY <1>1, <1>2, <1>5 DEF QuotaInv, QuotaHolds
  <1> QED
    BY <1>2, <1>3, <1>4, <1>6 DEF QuotaInv

\* A new day starts with nothing minted.
LEMMA QuotaRenewed ==
  ASSUME QuotaInv, RegistrationTypeOK', NewDay
  PROVE  QuotaInv'
  <1>1. invite' = invite /\ mint' = mint /\ today' = today + 1 /\ today \in Nat
    BY RegistrationBounds DEF NewDay, codes, QuotaInv, RegistrationTypeOK
  <1>2. \A i \in Invites : HasRow(i) => invite[i].day \in Nat /\ invite[i].day <= today
    <2>1. \A i \in Invites : HasRow(i) => invite[i].day \in 0 .. MaxDay
      BY CodeKept DEF Kept, QuotaInv
    <2> QED
      BY <2>1, RegistrationBounds DEF QuotaInv, NoneDatedAhead
  <1>3. NoneDatedAhead'
    BY <1>1, <1>2 DEF NoneDatedAhead, HasRow
  <1>4. \A s \in Sponsors : MintedToday(s)' = {}
    BY <1>1, <1>2 DEF MintedToday, HasRow
  <1>5. QuotaHolds'
    BY <1>4, FS_EmptySet, RegistrationBounds DEF QuotaHolds
  <1>6. Minted' = Minted /\ MintsApart'
    BY <1>1 DEF Minted, QuotaInv, MintsApart
  <1> QED
    BY <1>3, <1>5, <1>6 DEF QuotaInv

\* Every step keeps the quota.
LEMMA QuotaStep ==
  ASSUME QuotaInv, [RegistrationNext]_regVars
  PROVE  QuotaInv'
  <1>1. RegistrationTypeOK /\ RegistrationTypeOK'
    BY RegistrationTypeStep DEF QuotaInv
  <1>2. ASSUME invite' = invite, mint' = mint, today' = today
        PROVE  QuotaInv'
    BY <1>1, <1>2, QuotaLasts DEF CodeLasts
  <1>3. CASE UNCHANGED regVars
    BY <1>2, <1>3 DEF regVars, codes
  <1>4. ASSUME NEW i \in Invites, Invitation(i)
        PROVE  QuotaInv'
    <2>1. CASE MintAsAdmin(i)
      <3>1. CodeOf(i, Nobody) /\ mint' = mint /\ today' = today
        BY <1>1, <2>1, CodesMinted DEF MintAsAdmin
      <3> QED
        BY <1>1, <3>1, QuotaMinted
    <2>2. ASSUME NEW d \in Desks, FinishMint(d, i)
          PROVE  QuotaInv'
      <3>1. /\ CodeOf(i, mint[d]) /\ mint[d] # Nobody /\ mint[d] \in Sponsors \cup {Nobody}
            /\ mint' = [mint EXCEPT ![d] = Nobody] /\ today' = today
        BY <1>1, <2>2, CodesMinted DEF FinishMint, RegistrationTypeOK
      <3> QED
        BY <1>1, <3>1, QuotaMinted
    <2>3. CASE \/ RevokeOwn(i) \/ RevokeAsAdmin(i) \/ ReadUnused(i) \/ DeleteCode(i)
               \/ CodeExpires(i)
      <3>1. mint' = mint /\ today' = today
        BY <2>3 DEF RevokeOwn, RevokeAsAdmin, ReadUnused, DeleteCode, CodeExpires
      <3> QED
        BY <1>1, <2>3, <3>1, CodesLast, QuotaLasts
    <2> QED
      BY <1>4, <2>1, <2>2, <2>3 DEF Invitation
  <1>5. ASSUME NEW d \in Desks, AbandonMint(d)
        PROVE  QuotaInv'
    <2>1. invite' = invite /\ today' = today /\ mint' = [mint EXCEPT ![d] = Nobody]
      BY <1>5 DEF AbandonMint, codes
    <2>2. \A o \in Desks : mint'[o] = mint[o] \/ mint'[o] = Nobody
      BY <1>1, <2>1 DEF RegistrationTypeOK
    <2> QED
      BY <1>1, <2>1, <2>2, QuotaLasts DEF CodeLasts
  <1>6. ASSUME NEW d \in Desks, NEW s \in Sponsors, BeginMint(d, s)
        PROVE  QuotaInv'
    BY <1>1, <1>6, QuotaBegun
  <1>7. ASSUME NEW v \in Visitors,
               \/ \E e \in Emails, n \in Names, i \in Invites : CheckRegistration(v, e, n, i)
               \/ StageRegistration(v) \/ RegistrationRefused(v)
        PROVE  QuotaInv'
    BY <1>2, <1>7 DEF CheckRegistration, StageRegistration, RegistrationRefused, codes
  <1>8. ASSUME NEW c \in Clicks,
               \/ \E t \in 1 .. lastToken : ClaimToken(c, t)
               \/ RejectConfirmation(c) \/ PassChecks(c) \/ RollBackConfirmation(c)
        PROVE  QuotaInv'
    BY <1>2, <1>8 DEF ClaimToken, RejectConfirmation, PassChecks, RollBackConfirmation, codes
  <1>9. ASSUME NEW c \in Clicks, LandAccount(c)
        PROVE  QuotaInv'
    <2>1. mint' = mint /\ today' = today
      BY <1>9 DEF LandAccount
    <2> QED
      BY <1>1, <1>9, <2>1, LandingLasts, QuotaLasts
  <1>10. ASSUME NEW e \in Emails, Resend(e) \/ RowExpires(e)
         PROVE  QuotaInv'
    BY <1>2, <1>10 DEF Resend, RowExpires, codes
  <1>11. ASSUME NEW u \in users, EraseUser(u)
         PROVE  QuotaInv'
    BY <1>2, <1>11 DEF EraseUser, codes
  <1>12. CASE SweepExpired
    BY <1>2, <1>12 DEF SweepExpired, codes
  <1>13. CASE NewDay
    BY <1>1, <1>13, QuotaRenewed
  <1> QED
    BY <1>3, <1>4, <1>5, <1>6, <1>7, <1>8, <1>9, <1>10, <1>11, <1>12, <1>13 DEF RegistrationNext

\* No sponsor mints more codes in a day than DAILY_MINT_LIMIT, whatever mints run at once
\* (sponsored_invites.mint): the count is made under the lock on the sponsor's row.
THEOREM QuotaIsHeld == RegistrationSpec => []QuotaHolds
  <1>1. RegistrationInit => QuotaInv
    <2> SUFFICES ASSUME RegistrationInit PROVE QuotaInv
      OBVIOUS
    <2>1. NotMinted.state # "kept"
      BY DEF NotMinted
    <2>2. RegistrationTypeOK
      BY RegistrationBounds DEF RegistrationInit, RegistrationTypeOK
    <2>3. Minted = {} /\ (\A s : MintedToday(s) = {}) /\ MintsApart /\ NoneDatedAhead
      BY <2>1 DEF RegistrationInit, Minted, MintedToday, HasRow, MintsApart, NoneDatedAhead
    <2>4. QuotaHolds
      BY <2>3, FS_EmptySet, RegistrationBounds DEF QuotaHolds
    <2> QED
      BY <2>2, <2>3, <2>4, FS_EmptySet DEF QuotaInv
  <1>2. QuotaInv /\ [RegistrationNext]_regVars => QuotaInv'
    BY QuotaStep
  <1>3. QuotaInv => QuotaHolds
    BY DEF QuotaInv
  <1> QED
    BY <1>1, <1>2, <1>3, PTL DEF RegistrationSpec

-----------------------------------------------------------------------------
\* A step of the composition is a step of the moderation, or one of the registrations, or of the
\* codes alone, which is one of the registrations too.
LEMMA AccountsSteps ==
  ASSUME [AccountsNext]_allVars
  PROVE  [Next]_vars /\ [RegistrationNext]_regVars
  <1>1. CodesNext => RegistrationNext
    BY DEF CodesNext, RegistrationNext
  <1> QED
    BY <1>1 DEF AccountsNext, OfModeration, OfRegistration, OfCodes, allVars

\* The composition of what opens an account and what takes it away is a behaviour of each: what
\* is proved of a component holds where the run checks it.
THEOREM AccountsAreTheirComponents == AccountsSpec => Spec /\ RegistrationSpec
  <1>1. AccountsInit => Init /\ RegistrationInit
    BY DEF AccountsInit
  <1>2. [AccountsNext]_allVars => [Next]_vars /\ [RegistrationNext]_regVars
    BY AccountsSteps
  <1> QED
    BY <1>1, <1>2, PTL DEF AccountsSpec, Spec, RegistrationSpec
=============================================================================
