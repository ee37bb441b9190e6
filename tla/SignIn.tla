------------------------------- MODULE SignIn -------------------------------
(***************************************************************************)
(* Who one browser tab believes is signed in (contexts/AuthContext.tsx,    *)
(* lib/session.ts, the 401 branch of lib/api.ts).  The session itself is a *)
(* cookie the script cannot read and the server may end at any time, so    *)
(* the tab asks /auth/me, and the answers come late and in any order.      *)
(***************************************************************************)
EXTENDS Integers, FiniteSets

CONSTANTS
    Sessions,       \* the sessions the server will mint, one per sign-in, numbered in that order
    Who,            \* session -> its account
    CallSlots,      \* numbered: the bound on the /auth/me calls in flight
    MaxLoads,       \* bound on the page loads explored
    NoSession,
    Nobody

ASSUME SignInAssumption ==
    /\ Sessions \subseteq Nat /\ NoSession \notin Sessions
    /\ \A s \in Sessions : Who[s] \notin {Nobody, "fault", "refused"}
    /\ CallSlots \subseteq Nat
    /\ MaxLoads \in Nat

VARIABLES
    cookie,     \* the session the browser holds
    minted,     \* the sessions minted so far
    revoked,    \* the sessions the server no longer honours
    held,       \* localStorage "vidit:session-held"
    tab,        \* the state of AuthProvider
    calls,      \* slot -> an /auth/me in flight
    retryDue,   \* the 500 ms timer of the retry
    rejection,  \* a 401 to another call, on its way to the listener
    signing,    \* the session a login has minted whose answer is on its way
    loads,
    recent,     \* history: the sessions held since this tab last signed in, out or loaded
    lost        \* history: a session ended, and not by a sign-out here

signInVars == <<cookie, minted, revoked, held, tab, calls, retryDue, rejection, signing, loads,
                recent, lost>>

Accounts == {Who[s] : s \in Sessions}

\* "first" may be retried once, "again" is that retry, "recheck" follows a rejection.
\* A call is stale once stateVersion has moved since it was asked: the counter itself is only
\* ever compared for equality.
SessionHolds(s) == s # NoSession /\ s \notin revoked

NoCall == [kind |-> "none", stale |-> FALSE, session |-> NoSession, held |-> FALSE]
Question(kind, s) == [kind |-> kind, stale |-> FALSE, session |-> s, held |-> SessionHolds(s)]
Calls == [kind : {"first", "again", "recheck"}, stale : BOOLEAN,
          session : Sessions \cup {NoSession}, held : BOOLEAN]

\* The server answers at some moment between the question and the landing: with the account
\* when the session held at first, with a 401 when it holds no longer; or a 5xx, a lost
\* connection, which say nothing of the session.
Answers(c) ==
    {"fault"} \cup (IF c.held THEN {Who[c.session]} ELSE {})
              \cup (IF SessionHolds(c.session) THEN {} ELSE {"refused"})

FreshTab == [user |-> Nobody, loading |-> TRUE, ended |-> FALSE, checking |-> FALSE]

HasSessionCookie == cookie # NoSession

\* setUser marks the session held; settleSignedOut takes the mark and tells the reader once.
Shows(t, who) == [t EXCEPT !.user = who]
SettledOut(t) == [t EXCEPT !.user = Nobody, !.ended = @ \/ held]

FreeSlot(i) == calls[i] = NoCall /\ \A j \in CallSlots : calls[j] = NoCall => i <= j
Ask(kind, s) == \E i \in CallSlots : FreeSlot(i) /\ calls' = [calls EXCEPT ![i] = Question(kind, s)]

\* Mutant of Outdated: the version stays as it was.
NothingOutdated(cs) == cs

\* stateVersion.current += 1: what a stale call asked about is never looked at again.
Outdated(cs) ==
    [i \in CallSlots |->
        IF cs[i] = NoCall THEN NoCall ELSE [NoCall EXCEPT !.kind = cs[i].kind, !.stale = TRUE]]

\* fetchUser: without a cookie it settles at once, and asks nobody.
FetchUser(kind) ==
    \/ /\ ~HasSessionCookie
       /\ tab' = [SettledOut(tab) EXCEPT !.loading = FALSE]
       /\ held' = FALSE
       /\ UNCHANGED calls
    \/ /\ HasSessionCookie
       /\ Ask(kind, cookie)
       /\ UNCHANGED <<tab, held>>

SignInInit ==
    /\ cookie = NoSession
    /\ minted = {}
    /\ revoked = {}
    /\ held = FALSE
    /\ tab = [FreshTab EXCEPT !.loading = FALSE]
    /\ calls = [i \in CallSlots |-> NoCall]
    /\ retryDue = FALSE
    /\ rejection = FALSE
    /\ signing = NoSession
    /\ loads = 0
    /\ recent = {}
    /\ lost = FALSE
-----------------------------------------------------------------------------
\* A load forgets everything in memory; the mount effect calls fetchUser.
Load ==
    /\ loads < MaxLoads
    /\ loads' = loads + 1
    /\ retryDue' = FALSE
    /\ rejection' = FALSE
    /\ signing' = NoSession
    /\ recent' = {cookie} \ {NoSession}
    /\ IF HasSessionCookie
       THEN /\ tab' = FreshTab
            /\ calls' = [i \in CallSlots |-> IF \A j \in CallSlots : i <= j
                                              THEN Question("first", cookie) ELSE NoCall]
            /\ UNCHANGED held
       ELSE /\ tab' = [SettledOut(FreshTab) EXCEPT !.loading = FALSE]
            /\ calls' = [i \in CallSlots |-> NoCall]
            /\ held' = FALSE
    /\ UNCHANGED <<cookie, minted, revoked, lost>>

Current(c) == ~c.stale

LandMe(i) ==
    LET c == calls[i] IN
    /\ c.kind \in {"first", "again"}
    /\ calls' = [calls EXCEPT ![i] = NoCall]
    /\ \/ /\ ~Current(c)
          /\ UNCHANGED <<tab, held, retryDue>>
       \/ /\ Current(c)
          /\ \E who \in Answers(c) \cap Accounts : tab' = [Shows(tab, who) EXCEPT !.loading = FALSE]
          /\ held' = TRUE
          /\ UNCHANGED retryDue
       \/ /\ Current(c)
          /\ "refused" \in Answers(c)
          /\ tab' = [SettledOut(tab) EXCEPT !.loading = FALSE]
          /\ held' = FALSE
          /\ UNCHANGED retryDue
       \/ /\ Current(c)
          /\ c.kind = "first"
          /\ retryDue' = TRUE
          /\ UNCHANGED <<tab, held>>
       \/ /\ Current(c)
          /\ c.kind = "again"
          /\ tab' = [tab EXCEPT !.loading = FALSE]
          /\ UNCHANGED <<held, retryDue>>
    /\ UNCHANGED <<cookie, minted, revoked, rejection, signing, loads, recent, lost>>

\* Mutant of Retry: the retry may be retried.
RetryForever ==
    /\ retryDue
    /\ FetchUser("first")
    /\ retryDue' = FALSE
    /\ UNCHANGED <<cookie, minted, revoked, rejection, signing, loads, recent, lost>>

\* The timer's fetchUser(false).
Retry ==
    /\ retryDue
    /\ FetchUser("again")
    /\ retryDue' = FALSE
    /\ UNCHANGED <<cookie, minted, revoked, rejection, signing, loads, recent, lost>>

\* The profile page's refresh after a save.
Refresh ==
    /\ tab.user # Nobody
    /\ FetchUser("first")
    /\ UNCHANGED <<cookie, minted, revoked, retryDue, rejection, signing, loads, recent, lost>>
-----------------------------------------------------------------------------
\* Any call of a page that shows its reader signed in, sent under a session that is over.
CallRefused ==
    /\ tab.user # Nobody
    /\ ~SessionHolds(cookie)
    /\ ~rejection
    /\ rejection' = TRUE
    /\ UNCHANGED <<cookie, minted, revoked, held, tab, calls, retryDue, signing, loads, recent,
                   lost>>

\* The listener: one recheck however many calls failed, none for a reader signed out.
HearRejection ==
    /\ rejection
    /\ rejection' = FALSE
    /\ IF tab.user = Nobody \/ tab.checking
       THEN UNCHANGED <<tab, calls>>
       ELSE /\ Ask("recheck", cookie)
            /\ tab' = [tab EXCEPT !.checking = TRUE]
    /\ UNCHANGED <<cookie, minted, revoked, held, retryDue, signing, loads, recent, lost>>

LandRecheck(i) ==
    LET c == calls[i]
        done == [tab EXCEPT !.checking = FALSE]
    IN
    /\ c.kind = "recheck"
    /\ \/ /\ tab' = done
          /\ calls' = [calls EXCEPT ![i] = NoCall]
          /\ UNCHANGED held
       \/ /\ Current(c)
          /\ \E who \in Answers(c) \cap Accounts : tab' = Shows(done, who)
          /\ calls' = [calls EXCEPT ![i] = NoCall]
          /\ held' = TRUE
       \/ /\ Current(c)
          /\ "refused" \in Answers(c)
          /\ tab' = [done EXCEPT !.user = Nobody, !.ended = TRUE]
          /\ calls' = [Outdated(calls) EXCEPT ![i] = NoCall]
          /\ held' = FALSE
    /\ UNCHANGED <<cookie, minted, revoked, retryDue, rejection, signing, loads, recent, lost>>
-----------------------------------------------------------------------------
MintsNext(s) == minted = {t \in Sessions : t < s}

\* The server mints the session with its answer, whose body the page still has to read; the
\* sign-in form shows only once the tab knows its reader is signed out.
SignInServed(s) ==
    /\ ~tab.loading
    /\ tab.user = Nobody
    /\ signing = NoSession
    /\ MintsNext(s)
    /\ minted' = minted \cup {s}
    /\ cookie' = s
    /\ signing' = s
    /\ recent' = recent \cup {s}
    /\ UNCHANGED <<revoked, held, tab, calls, retryDue, rejection, loads, lost>>

SignInLands ==
    /\ signing # NoSession
    /\ signing' = NoSession
    /\ \/ /\ tab' = [Shows(tab, Who[signing]) EXCEPT !.ended = FALSE]
          /\ calls' = Outdated(calls)
          /\ held' = TRUE
          /\ recent' = {cookie, signing} \ {NoSession}
          /\ lost' = ~SessionHolds(cookie)
       \/ UNCHANGED <<tab, calls, held, recent, lost>>
    /\ UNCHANGED <<cookie, minted, revoked, retryDue, rejection, loads>>

\* /confirm-registration: the cookie arrives with the answer, then refresh; no version is bumped.
ConfirmRegistration(s) ==
    /\ signing = NoSession
    /\ MintsNext(s)
    /\ minted' = minted \cup {s}
    /\ cookie' = s
    /\ recent' = recent \cup {s}
    /\ Ask("first", s)
    /\ UNCHANGED <<revoked, held, tab, retryDue, rejection, signing, loads, lost>>

\* Mutant of SignOut: the mark of a held session is left behind.
SignOutMarked ==
    /\ tab.user # Nobody
    /\ cookie' \in {cookie, NoSession}
    /\ tab' = [tab EXCEPT !.user = Nobody]
    /\ calls' = Outdated(calls)
    /\ recent' = {cookie'} \ {NoSession}
    /\ lost' = (tab.ended \/ (cookie' # NoSession /\ ~SessionHolds(cookie')))
    /\ UNCHANGED <<minted, revoked, held, retryDue, rejection, signing, loads>>

\* The local state goes even when the server call failed and the cookie stays.  The hard
\* navigation that follows is a Load.
SignOut ==
    /\ tab.user # Nobody
    /\ cookie' \in {cookie, NoSession}
    /\ tab' = [tab EXCEPT !.user = Nobody]
    /\ calls' = Outdated(calls)
    /\ held' = FALSE
    /\ recent' = {cookie'} \ {NoSession}
    /\ lost' = (tab.ended \/ (cookie' # NoSession /\ ~SessionHolds(cookie')))
    /\ UNCHANGED <<minted, revoked, retryDue, rejection, signing, loads>>

DismissNotice ==
    /\ tab.ended
    /\ tab' = [tab EXCEPT !.ended = FALSE]
    /\ UNCHANGED <<cookie, minted, revoked, held, calls, retryDue, rejection, signing, loads,
                   recent, lost>>

\* The session ends without a sign-out: the server stops honouring it (its term, a ban, a new
\* password), or the browser drops the cookie.
SessionOver ==
    /\ HasSessionCookie
    /\ \/ /\ cookie \notin revoked
          /\ revoked' = revoked \cup {cookie}
          /\ UNCHANGED cookie
       \/ /\ cookie' = NoSession
          /\ UNCHANGED revoked
    /\ lost' = TRUE
    /\ UNCHANGED <<minted, held, tab, calls, retryDue, rejection, signing, loads, recent>>

SignInNext ==
    \/ Load \/ Retry \/ Refresh \/ CallRefused \/ HearRejection
    \/ SignInLands \/ SignOut \/ DismissNotice \/ SessionOver
    \/ \E s \in Sessions : SignInServed(s) \/ ConfirmRegistration(s)
    \/ \E i \in CallSlots : LandMe(i) \/ LandRecheck(i)

SignInSpec == SignInInit /\ [][SignInNext]_signInVars

SignInSettles == Retry \/ \E i \in CallSlots : LandMe(i) \/ LandRecheck(i)
-----------------------------------------------------------------------------
SignInTypeOK ==
    /\ cookie \in Sessions \cup {NoSession}
    /\ minted \subseteq Sessions
    /\ revoked \subseteq Sessions
    /\ tab \in [user : Accounts \cup {Nobody}, loading : BOOLEAN, ended : BOOLEAN,
                checking : BOOLEAN]
    /\ calls \in [CallSlots -> Calls \cup {NoCall}]
    /\ signing \in Sessions \cup {NoSession}
    /\ {held, retryDue, rejection, lost} \subseteq BOOLEAN

\* A late answer never brings back the account that was there before a sign-in, a sign-out or a
\* load: whoever the tab shows had this browser's cookie since (the comment on stateVersion).
ShownIsRecent == tab.user # Nobody => \E s \in recent : Who[s] = tab.user

\* The tab tells its reader that a session ended only when one did, and not by a sign-out: not
\* after a sign-out whose page then loads, not on the 401 of a call sent before a sign-in.
NoticeIsTrue == tab.ended => lost

\* A page never waits for its reader's identity for good, whatever the server answers.
SignInIsResolved == tab.loading ~> ~tab.loading
=============================================================================
