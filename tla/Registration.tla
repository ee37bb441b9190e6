------------------------------ MODULE Registration ------------------------------
(***************************************************************************)
(* The way to an account: invite codes, staged registrations and the link  *)
(* that confirms one.  Sources: services/registration.py, the invite codes *)
(* of services/auth.py, admin.py and sponsored_invites.py.                 *)
(*                                                                         *)
(* At READ COMMITTED a request reads before it writes, and what it read    *)
(* may have changed: a registration is a check and an insert, a            *)
(* confirmation is the claim of its row, a check and the landing, and a    *)
(* deletion of a code is a check and a DELETE.  A claimed row is locked:   *)
(* whoever else would write it waits.                                      *)
(***************************************************************************)
EXTENDS Integers, FiniteSets

CONSTANTS
    Emails, Names, Invites,
    Sponsors,         \* analysts who mint codes from Settings
    Visitors,         \* registrations that may run at once
    Clicks,           \* confirmations that may run at once
    Desks,            \* mints that may run at once
    DailyMintLimit,   \* DAILY_MINT_LIMIT
    MaxToken,         \* bound of the model: the links mailed
    MaxDay,           \* bound of the model: the days that pass
    Nobody            \* no row, no request, no sponsor

ASSUME RegistrationAssumption ==
    /\ DailyMintLimit \in Nat \ {0}
    /\ MaxToken \in Nat /\ MaxDay \in Nat
    /\ Nobody \notin Sponsors

VARIABLES
    users,      \* the accounts that exist, as what they were registered with
    opened,     \* history: every account there ever was
    pending,    \* email -> its row of pending_registrations
    lastToken,  \* the link mailed last: each has a token of its own
    invite,     \* code -> its row of invite_codes
    unused,     \* codes an admin who deletes one has read as not redeemed
    visit,      \* a registration between its checks and its insert
    click,      \* a confirmation that holds its row, checked or not
    mint,       \* desk -> the sponsor whose row a mint has locked
    today       \* the UTC day

codes == <<invite, unused>>
requests == <<visit, click>>
regVars == <<users, opened, pending, lastToken, codes, requests, mint, today>>

NoRow == [state |-> "none"]
NotMinted == [state |-> "not minted"]

RegistrationInit ==
    /\ users = {} /\ opened = {}
    /\ pending = [e \in Emails |-> NoRow]
    /\ lastToken = 0
    /\ invite = [i \in Invites |-> NotMinted]
    /\ unused = {}
    /\ visit = [v \in Visitors |-> NoRow]
    /\ click = [c \in Clicks |-> NoRow]
    /\ mint = [d \in Desks |-> Nobody]
    /\ today = 0

-----------------------------------------------------------------------------
HasRow(i) == invite[i].state = "kept"

\* invite_code_status: revoked outranks expired outranks exhausted; else active.
Active(i) == HasRow(i) /\ ~invite[i].revoked /\ ~invite[i].expired /\ ~invite[i].used

\* used_by_id names the account a code opened, until that account is erased.
Redeemer(i) == {u \in users : u.invite = i}

Taken(email, name) == \E u \in users : u.email = email \/ u.name = name

Staged(email) == pending[email].state = "staged"

\* DELETE ... RETURNING locks the row until the confirmation ends.
Claimed(email) == \E c \in Clicks : click[c].state # "none" /\ click[c].email = email

\* _delete_expired: a DELETE that waits for the rows a confirmation holds.
MaySweep == \A e \in Emails : Staged(e) /\ pending[e].late => ~Claimed(e)
Swept == [e \in Emails |-> IF Staged(e) /\ pending[e].late THEN NoRow ELSE pending[e]]

\* An address and a name that no row of pending_registrations holds.
Free(table, email, name) ==
    table[email] = NoRow /\ \A e \in Emails : table[e] # NoRow => table[e].name # name

-----------------------------------------------------------------------------
NewCode(by) == [state |-> "kept", by |-> by, day |-> today,
                used |-> FALSE, revoked |-> FALSE, expired |-> FALSE]

\* create_invite_code.
MintAsAdmin(i) ==
    /\ invite[i] = NotMinted
    /\ invite' = [invite EXCEPT ![i] = NewCode(Nobody)]
    /\ UNCHANGED <<users, opened, pending, lastToken, unused, requests, mint, today>>

\* _minted_since: every code of the day counts, revoked or used. A deleted one does not.
MintedToday(s) ==
    {i \in Invites : HasRow(i) /\ invite[i].by = s /\ invite[i].day = today}

\* mint of sponsored_invites.py: the count under the lock on the sponsor's row...
BeginMint(d, s) ==
    /\ mint[d] = Nobody
    /\ \A other \in Desks : mint[other] # s
    /\ Cardinality(MintedToday(s)) < DailyMintLimit
    /\ mint' = [mint EXCEPT ![d] = s]
    /\ UNCHANGED <<users, opened, pending, lastToken, codes, requests, today>>

\* ... then the insert, stamped as it is made, and the commit that drops the lock.
FinishMint(d, i) ==
    /\ mint[d] # Nobody /\ invite[i] = NotMinted
    /\ invite' = [invite EXCEPT ![i] = NewCode(mint[d])]
    /\ mint' = [mint EXCEPT ![d] = Nobody]
    /\ UNCHANGED <<users, opened, pending, lastToken, unused, requests, today>>

AbandonMint(d) ==
    /\ mint[d] # Nobody
    /\ mint' = [mint EXCEPT ![d] = Nobody]
    /\ UNCHANGED <<users, opened, pending, lastToken, codes, requests, today>>

\* revoke_own: the lock on the code's row, its status read under it.
RevokeOwn(i) ==
    /\ Active(i) /\ invite[i].by # Nobody
    /\ invite' = [invite EXCEPT ![i].revoked = TRUE]
    /\ UNCHANGED <<users, opened, pending, lastToken, unused, requests, mint, today>>

\* revoke_invite_code: an admin revokes any code that is not, a redeemed one too.
RevokeAsAdmin(i) ==
    /\ HasRow(i) /\ ~invite[i].revoked
    /\ invite' = [invite EXCEPT ![i].revoked = TRUE]
    /\ UNCHANGED <<users, opened, pending, lastToken, unused, requests, mint, today>>

\* delete_invite_code reads used_by_id without a lock ...
ReadUnused(i) ==
    /\ HasRow(i) /\ Redeemer(i) = {} /\ i \notin unused
    /\ unused' = unused \cup {i}
    /\ UNCHANGED <<users, opened, pending, lastToken, invite, requests, mint, today>>

\* ... and deletes the row by its id. The registrations staged on it go in the cascade, which
\* waits for those a confirmation holds.
DeleteCode(i) ==
    /\ i \in unused
    /\ unused' = unused \ {i}
    /\ \A e \in Emails : Staged(e) /\ pending[e].invite = i => ~Claimed(e)
    /\ invite' = [invite EXCEPT ![i] = IF HasRow(i) THEN [@ EXCEPT !.state = "deleted"] ELSE @]
    /\ pending' = [e \in Emails |->
          IF HasRow(i) /\ Staged(e) /\ pending[e].invite = i THEN NoRow ELSE pending[e]]
    /\ UNCHANGED <<users, opened, lastToken, requests, mint, today>>

-----------------------------------------------------------------------------
\* create_pending_registration, first half: the code, the sweep (committed), the accounts, the
\* rows staged.
CheckRegistration(v, email, name, i) ==
    /\ visit[v] = NoRow
    /\ Active(i) /\ MaySweep
    /\ pending' = Swept
    /\ ~Taken(email, name) /\ Free(Swept, email, name)
    /\ visit' = [visit EXCEPT ![v] = [state |-> "checked", email |-> email, name |-> name,
                                      invite |-> i]]
    /\ UNCHANGED <<users, opened, lastToken, codes, click, mint, today>>

\* Second half: the insert. An address or a name that another row holds is refused by the
\* constraints, which wait for a row being confirmed; a code deleted since, by its foreign key.
StageRegistration(v) ==
    /\ visit[v] # NoRow
    /\ HasRow(visit[v].invite)
    /\ Free(pending, visit[v].email, visit[v].name)
    /\ lastToken < MaxToken
    /\ lastToken' = lastToken + 1
    /\ pending' = [pending EXCEPT ![visit[v].email] =
          [state |-> "staged", name |-> visit[v].name, invite |-> visit[v].invite,
           token |-> lastToken + 1, late |-> FALSE]]
    /\ visit' = [visit EXCEPT ![v] = NoRow]
    /\ UNCHANGED <<users, opened, codes, click, mint, today>>

RegistrationRefused(v) ==
    /\ visit[v] # NoRow
    /\ visit' = [visit EXCEPT ![v] = NoRow]
    /\ UNCHANGED <<users, opened, pending, lastToken, codes, click, mint, today>>

\* resend_pending_registration: a new token, and the link mailed before is dead.
Resend(email) ==
    /\ MaySweep /\ Staged(email) /\ ~pending[email].late /\ ~Claimed(email)
    /\ lastToken < MaxToken
    /\ lastToken' = lastToken + 1
    /\ pending' = [Swept EXCEPT ![email].token = lastToken + 1]
    /\ UNCHANGED <<users, opened, codes, requests, mint, today>>

\* reap_pending_registrations, and the sweep of a registration or a resend that goes no further.
SweepExpired ==
    /\ MaySweep
    /\ pending' = Swept
    /\ UNCHANGED <<users, opened, lastToken, codes, requests, mint, today>>

-----------------------------------------------------------------------------
\* confirm_pending_registration: DELETE ... RETURNING claims the row of the token clicked. A
\* token no live row carries is refused, and nothing changes.
ClaimToken(c, t) ==
    /\ click[c] = NoRow
    /\ \E e \in Emails :
          /\ Staged(e) /\ pending[e].token = t /\ ~pending[e].late
          /\ ~Claimed(e)
          /\ click' = [click EXCEPT ![c] = [state |-> "claimed", email |-> e, row |-> pending[e]]]
    /\ UNCHANGED <<users, opened, pending, lastToken, codes, visit, mint, today>>

Confirmable(row, email) == ~Taken(email, row.name) /\ Active(row.invite)

\* The checks fail: the refusal commits the DELETE, so that the address is free at once.
RejectConfirmation(c) ==
    /\ click[c].state = "claimed"
    /\ ~Confirmable(click[c].row, click[c].email)
    /\ pending' = [pending EXCEPT ![click[c].email] = NoRow]
    /\ click' = [click EXCEPT ![c] = NoRow]
    /\ UNCHANGED <<users, opened, lastToken, codes, visit, mint, today>>

PassChecks(c) ==
    /\ click[c].state = "claimed"
    /\ Confirmable(click[c].row, click[c].email)
    /\ click' = [click EXCEPT ![c].state = "checked"]
    /\ UNCHANGED <<users, opened, pending, lastToken, codes, visit, mint, today>>

\* Mutant: a redemption that trusts what the check read of used_at.
ConsumableAsChecked(i) == HasRow(i) /\ ~invite[i].revoked

\* consume_invite_code: UPDATE ... WHERE used_at IS NULL, whatever was read before.
Consumable(i) == HasRow(i) /\ ~invite[i].revoked /\ ~invite[i].used

\* The user is inserted, the code stamped, and both land with the DELETE of the row.
LandAccount(c) ==
    /\ click[c].state = "checked"
    /\ ~Taken(click[c].email, click[c].row.name)
    /\ Consumable(click[c].row.invite)
    /\ LET user == [email |-> click[c].email, name |-> click[c].row.name,
                    invite |-> click[c].row.invite, token |-> click[c].row.token]
       IN users' = users \cup {user} /\ opened' = opened \cup {user}
    /\ invite' = [invite EXCEPT ![click[c].row.invite].used = TRUE]
    /\ pending' = [pending EXCEPT ![click[c].email] = NoRow]
    /\ click' = [click EXCEPT ![c] = NoRow]
    /\ UNCHANGED <<lastToken, unused, visit, mint, today>>

\* A constraint, a code redeemed by another confirmation, a deadlock, a crash: the row is back.
RollBackConfirmation(c) ==
    /\ click[c] # NoRow
    /\ click' = [click EXCEPT ![c] = NoRow]
    /\ UNCHANGED <<users, opened, pending, lastToken, codes, visit, mint, today>>

-----------------------------------------------------------------------------
\* hard_delete_user: the address and the name are free again; the code stays used.
EraseUser(u) ==
    /\ users' = users \ {u}
    /\ UNCHANGED <<opened, pending, lastToken, codes, requests, mint, today>>

\* Time passes: a row or a code expires, a day ends.
RowExpires(e) ==
    /\ Staged(e) /\ ~pending[e].late
    /\ pending' = [pending EXCEPT ![e].late = TRUE]
    /\ UNCHANGED <<users, opened, lastToken, codes, requests, mint, today>>

CodeExpires(i) ==
    /\ HasRow(i) /\ ~invite[i].expired
    /\ invite[i].by = Nobody           \* a sponsored code has no expiry
    /\ invite' = [invite EXCEPT ![i].expired = TRUE]
    /\ UNCHANGED <<users, opened, pending, lastToken, unused, requests, mint, today>>

NewDay ==
    /\ today < MaxDay
    /\ today' = today + 1
    /\ UNCHANGED <<users, opened, pending, lastToken, codes, requests, mint>>

-----------------------------------------------------------------------------
Invitation(i) ==
    \/ MintAsAdmin(i) \/ RevokeOwn(i) \/ RevokeAsAdmin(i) \/ ReadUnused(i) \/ DeleteCode(i)
    \/ CodeExpires(i)
    \/ \E d \in Desks : FinishMint(d, i)

RegistrationNext ==
    \/ \E i \in Invites : Invitation(i)
    \/ \E d \in Desks : AbandonMint(d) \/ \E s \in Sponsors : BeginMint(d, s)
    \/ \E v \in Visitors :
          \/ \E e \in Emails, n \in Names, i \in Invites : CheckRegistration(v, e, n, i)
          \/ StageRegistration(v) \/ RegistrationRefused(v)
    \/ \E c \in Clicks :
          \/ \E t \in 1 .. lastToken : ClaimToken(c, t)
          \/ RejectConfirmation(c) \/ PassChecks(c) \/ LandAccount(c) \/ RollBackConfirmation(c)
    \/ \E e \in Emails : Resend(e) \/ RowExpires(e)
    \/ \E u \in users : EraseUser(u)
    \/ SweepExpired \/ NewDay

RegistrationSpec == RegistrationInit /\ [][RegistrationNext]_regVars

-----------------------------------------------------------------------------
Accounts == [email : Emails, name : Names, invite : Invites, token : 1 .. MaxToken]
Rows == [state : {"staged"}, name : Names, invite : Invites, token : 1 .. MaxToken,
         late : BOOLEAN]
Kept == [state : {"kept", "deleted"}, by : Sponsors \cup {Nobody}, day : 0 .. MaxDay,
         used : BOOLEAN, revoked : BOOLEAN, expired : BOOLEAN]

\* Types, and no account without its record among those ever opened.
RegistrationTypeOK ==
    /\ opened \subseteq Accounts /\ users \subseteq opened
    /\ pending \in [Emails -> Rows \cup {NoRow}]
    /\ lastToken \in 0 .. MaxToken
    /\ invite \in [Invites -> Kept \cup {NotMinted}]
    /\ unused \subseteq Invites
    /\ visit \in [Visitors -> [state : {"checked"}, email : Emails, name : Names,
                               invite : Invites] \cup {NoRow}]
    /\ click \in [Clicks -> [state : {"claimed", "checked"}, email : Emails, row : Rows]
                            \cup {NoRow}]
    /\ mint \in [Desks -> Sponsors \cup {Nobody}]
    /\ today \in 0 .. MaxDay

\* However many registrations are staged on one code, and however their confirmations, the
\* deletion of the code or of the account and the clock interleave, a code and a link each open
\* one account at most, ever; and a code says it is spent exactly when it opened one
\* (confirm_pending_registration, consume_invite_code).
InviteServesOnce ==
    /\ \A u, w \in opened : u # w => u.invite # w.invite /\ u.token # w.token
    /\ \A i \in Invites :
          invite[i] # NotMinted => (invite[i].used <=> \E u \in opened : u.invite = i)

\* An account is opened from the row its address still holds: a link replaced by a resend, a row
\* swept, or one gone with its code opens nothing, however late its confirmation lands, and the
\* address is released in the same step.
OnlyTheLiveRowOpens ==
    [][\A u \in opened' \ opened :
          /\ Staged(u.email) /\ pending'[u.email] = NoRow
          /\ pending[u.email].token = u.token /\ pending[u.email].name = u.name
          /\ pending[u.email].invite = u.invite]_regVars

\* At whatever hour the mints of a sponsor are asked and end, no day carries more of the codes
\* they minted than the limit, and a mint that passed the count leaves room for its own
\* (sponsored_invites.mint).
QuotaHolds ==
    \A s \in Sponsors :
        /\ Cardinality(MintedToday(s)) <= DailyMintLimit
        /\ (\E d \in Desks : mint[d] = s) => Cardinality(MintedToday(s)) < DailyMintLimit
=============================================================================
