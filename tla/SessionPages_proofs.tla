------------------------ MODULE SessionPages_proofs -------------------------
(***************************************************************************)
(* What a tab shows of its reader, for any number of sessions, accounts,   *)
(* keys and values, and whenever an answer comes: who it says is signed in *)
(* was, and the choices it shows are the reader's.                         *)
(***************************************************************************)
EXTENDS SignIn, DisplayPreferences, TLAPS

-----------------------------------------------------------------------------
(***************************************************************************)
(* The sign-in of a tab.                                                   *)
(***************************************************************************)

\* A call in flight whose answer the tab will look at.
Live(i) == calls[i] # NoCall /\ ~calls[i].stale

\* Whoever a live call may bring back held this browser's cookie recently, and the cookie is
\* recent itself.
AnswersAreRecent ==
    /\ cookie # NoSession => cookie \in recent
    /\ \A i \in CallSlots : Live(i) => calls[i].session \in recent \cup {NoSession}
    /\ \A i \in CallSlots : calls[i].held => calls[i].session # NoSession

\* A mint is new, and the server ends only what it minted.
MintsAreNew == revoked \subseteq minted /\ cookie \in minted \cup {NoSession}

\* Each way to the notice (a cookie gone while the mark is held, a live call refused) starts
\* with a session that was lost.
LossIsKnown ==
    /\ cookie # NoSession /\ ~SessionHolds(cookie) => lost
    /\ held /\ cookie = NoSession => lost
    /\ tab.user # Nobody => held
    /\ \A i \in CallSlots :
          Live(i) /\ (cookie = NoSession \/ ~SessionHolds(calls[i].session)) => lost

\* The inductive invariant.
SignInInv ==
    /\ SignInTypeOK /\ MintsAreNew
    /\ ShownIsRecent /\ AnswersAreRecent
    /\ NoticeIsTrue /\ LossIsKnown

-----------------------------------------------------------------------------
TabType == [user : Accounts \cup {Nobody}, loading : BOOLEAN, ended : BOOLEAN,
            checking : BOOLEAN]
CallTable == [CallSlots -> Calls \cup {NoCall}]

LEMMA InitSignIn == SignInInit => SignInInv
  <1> SUFFICES ASSUME SignInInit
               PROVE  SignInInv
    OBVIOUS
  <1>1. tab \in TabType /\ tab.user = Nobody /\ tab.ended = FALSE
    BY DEF SignInInit, FreshTab, TabType
  <1>2. \A i \in CallSlots : calls[i] = NoCall
    BY DEF SignInInit
  <1>3. {held, retryDue, rejection, lost} \subseteq BOOLEAN
    BY DEF SignInInit
  <1>4. calls \in CallTable
    BY DEF SignInInit, CallTable
  <1>5. SignInTypeOK
    BY <1>1, <1>3, <1>4 DEF SignInInit, SignInTypeOK, TabType, CallTable
  <1>6. MintsAreNew /\ ShownIsRecent /\ NoticeIsTrue
    BY <1>1 DEF SignInInit, MintsAreNew, ShownIsRecent, NoticeIsTrue
  <1>7. AnswersAreRecent /\ LossIsKnown
    BY <1>1, <1>2 DEF SignInInit, AnswersAreRecent, LossIsKnown, Live, NoCall
  <1> QED
    BY <1>5, <1>6, <1>7 DEF SignInInv

\* A question is a call, that a live session may answer.
LEMMA QuestionIsACall ==
  ASSUME NEW kind \in {"first", "again", "recheck"}, NEW s \in Sessions \cup {NoSession}
  PROVE  /\ Question(kind, s) \in Calls /\ Question(kind, s) # NoCall
         /\ Question(kind, s).session = s /\ ~Question(kind, s).stale
         /\ Question(kind, s).held => s # NoSession
  BY DEF Question, Calls, NoCall, SessionHolds

\* A question to the server takes a free call, and leaves the others.
LEMMA AskEffect ==
  ASSUME calls \in CallTable, NEW kind \in {"first", "again", "recheck"},
         NEW s \in Sessions \cup {NoSession}, Ask(kind, s)
  PROVE  /\ calls' \in CallTable
         /\ \A j \in CallSlots : calls'[j] = calls[j] \/ calls'[j] = Question(kind, s)
  BY QuestionIsACall DEF Ask, CallTable

\* No call outlives the version it was asked under.
LEMMA OutdatedEffect ==
  ASSUME calls \in CallTable
  PROVE  /\ Outdated(calls) \in CallTable
         /\ \A j \in CallSlots : \/ Outdated(calls)[j] = NoCall
                                 \/ Outdated(calls)[j].stale /\ ~Outdated(calls)[j].held
  <1>1. ASSUME NEW j \in CallSlots, calls[j] # NoCall
        PROVE  /\ [NoCall EXCEPT !.kind = calls[j].kind, !.stale = TRUE] \in Calls
               /\ [NoCall EXCEPT !.kind = calls[j].kind, !.stale = TRUE].stale
               /\ ~[NoCall EXCEPT !.kind = calls[j].kind, !.stale = TRUE].held
    <2>1. calls[j] \in Calls
      BY <1>1 DEF CallTable
    <2> QED
      BY <2>1 DEF Calls, NoCall
  <1> QED
    BY <1>1 DEF Outdated, CallTable

\* The calls in flight after one has landed.
LEMMA LandEffect ==
  ASSUME calls \in CallTable, NEW i \in CallSlots, calls' = [calls EXCEPT ![i] = NoCall]
  PROVE  /\ calls' \in CallTable
         /\ \A j \in CallSlots : calls'[j] = calls[j] \/ calls'[j] = NoCall
  BY DEF CallTable

\* The answers to a live call: a recent account, or the refusal of a session that was lost.
LEMMA AnswerIs ==
  ASSUME SignInInv, NEW i \in CallSlots, Current(calls[i]), calls[i] # NoCall
  PROVE  /\ \A who \in Answers(calls[i]) \cap Accounts :
               who # Nobody /\ \E s \in recent : Who[s] = who
         /\ "refused" \in Answers(calls[i]) => lost
         /\ cookie = NoSession => lost
  <1>1. calls[i] \in Calls /\ Live(i)
    BY DEF SignInInv, SignInTypeOK, Live, Current
  <1>2. calls[i].held => calls[i].session \in Sessions /\ calls[i].session \in recent
    BY <1>1 DEF SignInInv, AnswersAreRecent, Calls
  <1>3. \A who \in Accounts : who \notin {Nobody, "fault", "refused"}
    BY SignInAssumption DEF Accounts
  <1>4. \A who \in Answers(calls[i]) \cap Accounts :
           calls[i].held /\ who = Who[calls[i].session]
    BY <1>3 DEF Answers
  <1>5. "refused" \in Answers(calls[i]) => ~SessionHolds(calls[i].session)
    <2>1. calls[i].held => Who[calls[i].session] # "refused"
      BY <1>2, SignInAssumption
    <2> QED
      BY <2>1 DEF Answers
  <1>6. cookie = NoSession \/ ~SessionHolds(calls[i].session) => lost
    BY <1>1 DEF SignInInv, LossIsKnown
  <1> QED
    BY <1>2, <1>3, <1>4, <1>5, <1>6

-----------------------------------------------------------------------------
\* fetchUser asks under a session that is recent, or finds the cookie gone.
LEMMA FetchEffect ==
  ASSUME SignInInv, NEW kind \in {"first", "again"}, FetchUser(kind)
  PROVE  /\ tab' \in TabType /\ held' \in BOOLEAN /\ calls' \in CallTable
         /\ \/ /\ cookie = NoSession /\ calls' = calls
               /\ tab'.user = Nobody /\ (tab'.ended => tab.ended \/ held) /\ held' = FALSE
            \/ /\ cookie # NoSession /\ tab' = tab /\ held' = held
               /\ \A j \in CallSlots : calls'[j] = calls[j] \/ calls'[j] = Question(kind, cookie)
  <1>0. /\ tab \in TabType /\ held \in BOOLEAN /\ calls \in CallTable
        /\ cookie \in Sessions \cup {NoSession}
    BY DEF SignInInv, SignInTypeOK, TabType, CallTable
  <1>1. CASE /\ ~HasSessionCookie
             /\ tab' = [SettledOut(tab) EXCEPT !.loading = FALSE]
             /\ held' = FALSE
             /\ UNCHANGED calls
    <2>1. /\ tab' \in TabType /\ tab'.user = Nobody /\ (tab'.ended => tab.ended \/ held)
      BY <1>0, <1>1 DEF SettledOut, TabType
    <2> QED
      BY <1>0, <1>1, <2>1 DEF HasSessionCookie
  <1>2. CASE HasSessionCookie /\ Ask(kind, cookie) /\ UNCHANGED <<tab, held>>
    BY <1>0, <1>2, AskEffect DEF HasSessionCookie
  <1> QED
    BY <1>1, <1>2 DEF FetchUser

\* What keeps the invariant when nobody signs in or out and no session is lost: the calls are
\* those before, dropped, or asked under the cookie; the account shown is the one before, none,
\* or a recent one with the mark held; the notice is the one before or justified.
LEMMA SameSession ==
  ASSUME SignInInv, SignInTypeOK',
         UNCHANGED <<cookie, minted, revoked, recent, lost>>,
         \A j \in CallSlots : \/ calls'[j] = calls[j] \/ calls'[j] = NoCall
                              \/ calls'[j].stale /\ ~calls'[j].held
                              \/ \E kind \in {"first", "again", "recheck"} :
                                    /\ calls'[j] = Question(kind, cookie)
                                    /\ cookie = NoSession => lost,
         tab'.ended => tab.ended \/ lost,
         \/ tab'.user = Nobody
         \/ tab'.user = tab.user /\ held'
         \/ /\ \E s \in recent : Who[s] = tab'.user
            /\ held',
         held' => held \/ (cookie = NoSession => lost)
  PROVE  SignInInv'
  <1>0. /\ SignInTypeOK /\ MintsAreNew /\ ShownIsRecent /\ AnswersAreRecent /\ NoticeIsTrue
        /\ LossIsKnown
    BY DEF SignInInv
  <1>1. \A s : SessionHolds(s)' = SessionHolds(s)
    BY DEF SessionHolds
  <1>2. NoCall.held = FALSE
    BY DEF NoCall
  <1>3. \A kind \in {"first", "again", "recheck"} :
           /\ Question(kind, cookie).session = cookie
           /\ Question(kind, cookie).held => cookie # NoSession
    BY DEF Question, SessionHolds
  <1>4. MintsAreNew' /\ NoticeIsTrue'
    BY <1>0 DEF MintsAreNew, NoticeIsTrue
  <1>5. ShownIsRecent'
    BY <1>0 DEF ShownIsRecent
  <1>6. AnswersAreRecent'
    BY <1>0, <1>2, <1>3 DEF AnswersAreRecent, Live
  <1>7. LossIsKnown'
    BY <1>0, <1>1, <1>3 DEF LossIsKnown, Live
  <1> QED
    BY <1>4, <1>5, <1>6, <1>7 DEF SignInInv
-----------------------------------------------------------------------------
\* The pieces of the type invariant, as the steps use them.
LEMMA SignInPieces ==
  ASSUME SignInInv
  PROVE  /\ tab \in TabType /\ calls \in CallTable
         /\ cookie \in Sessions \cup {NoSession} /\ signing \in Sessions \cup {NoSession}
         /\ minted \subseteq Sessions /\ revoked \subseteq Sessions
         /\ held \in BOOLEAN /\ retryDue \in BOOLEAN /\ rejection \in BOOLEAN /\ lost \in BOOLEAN
  BY DEF SignInInv, SignInTypeOK, TabType, CallTable

LEMMA FetchKeeps ==
  ASSUME SignInInv, Retry \/ Refresh
  PROVE  SignInInv'
  <1>1. PICK kind \in {"first", "again"} : FetchUser(kind)
    BY DEF Retry, Refresh
  <1>2. /\ UNCHANGED <<cookie, minted, revoked, rejection, signing, loads, recent, lost>>
        /\ retryDue' \in BOOLEAN
    BY SignInPieces DEF Retry, Refresh
  <1>3. SignInTypeOK'
    BY <1>1, <1>2, FetchEffect, SignInPieces DEF SignInTypeOK, TabType, CallTable
  <1>4. LossIsKnown
    BY DEF SignInInv
  <1> QED
    BY <1>1, <1>2, <1>3, <1>4, FetchEffect, SameSession DEF LossIsKnown

LEMMA LandMeKeeps ==
  ASSUME SignInInv, NEW i \in CallSlots, LandMe(i)
  PROVE  SignInInv'
  <1>1. /\ calls[i] # NoCall /\ calls' = [calls EXCEPT ![i] = NoCall]
        /\ UNCHANGED <<cookie, minted, revoked, rejection, signing, loads, recent, lost>>
    BY DEF LandMe, NoCall
  <1>2. /\ calls' \in CallTable
        /\ \A j \in CallSlots : calls'[j] = calls[j] \/ calls'[j] = NoCall
    BY <1>1, SignInPieces, LandEffect
  <1>3. LossIsKnown /\ tab \in TabType /\ held \in BOOLEAN /\ retryDue \in BOOLEAN
    BY SignInPieces DEF SignInInv
  <1> DEFINE Types == tab' \in TabType /\ held' \in BOOLEAN /\ retryDue' \in BOOLEAN
  <1>4. Types => SignInTypeOK'
    BY <1>1, <1>2, SignInPieces DEF SignInTypeOK, TabType, CallTable
  <1>5. CASE UNCHANGED <<tab, held>> /\ retryDue' \in BOOLEAN
    BY <1>1, <1>2, <1>3, <1>4, <1>5, SameSession DEF LossIsKnown
  <1>6. CASE /\ Current(calls[i])
             /\ \E who \in Answers(calls[i]) \cap Accounts :
                   tab' = [Shows(tab, who) EXCEPT !.loading = FALSE]
             /\ held' = TRUE /\ UNCHANGED retryDue
    <2>1. PICK who \in Answers(calls[i]) \cap Accounts :
             tab' = [Shows(tab, who) EXCEPT !.loading = FALSE]
      BY <1>6
    <2>2. tab' \in TabType /\ tab'.user = who /\ tab'.ended = tab.ended
      BY <1>3, <2>1 DEF TabType, Shows
    <2>3. (\E s \in recent : Who[s] = who) /\ (cookie = NoSession => lost)
      BY <1>1, <1>6, AnswerIs
    <2> QED
      BY <1>1, <1>2, <1>3, <1>4, <1>6, <2>2, <2>3, SameSession
  <1>7. CASE /\ Current(calls[i]) /\ "refused" \in Answers(calls[i])
             /\ tab' = [SettledOut(tab) EXCEPT !.loading = FALSE]
             /\ held' = FALSE /\ UNCHANGED retryDue
    <2>1. tab' \in TabType /\ tab'.user = Nobody
      BY <1>3, <1>7 DEF TabType, SettledOut
    <2>2. lost
      BY <1>1, <1>7, AnswerIs
    <2> QED
      BY <1>1, <1>2, <1>3, <1>4, <1>7, <2>1, <2>2, SameSession
  <1>8. CASE tab' = [tab EXCEPT !.loading = FALSE] /\ UNCHANGED <<held, retryDue>>
    <2>1. tab' \in TabType /\ tab'.user = tab.user /\ tab'.ended = tab.ended
      BY <1>3, <1>8 DEF TabType
    <2> QED
      BY <1>1, <1>2, <1>3, <1>4, <1>8, <2>1, SameSession DEF LossIsKnown
  <1> QED
    BY <1>3, <1>5, <1>6, <1>7, <1>8 DEF LandMe

LEMMA RecheckKeeps ==
  ASSUME SignInInv, NEW i \in CallSlots, LandRecheck(i)
  PROVE  SignInInv'
  <1> DEFINE done == [tab EXCEPT !.checking = FALSE]
  <1>1. /\ calls[i] # NoCall
        /\ UNCHANGED <<cookie, minted, revoked, retryDue, rejection, signing, loads, recent, lost>>
    BY DEF LandRecheck, NoCall
  <1>2. LossIsKnown /\ tab \in TabType /\ held \in BOOLEAN /\ calls \in CallTable
    BY SignInPieces DEF SignInInv
  <1>3. done \in TabType /\ done.user = tab.user /\ done.ended = tab.ended
    BY <1>2 DEF TabType
  <1>4. (tab' \in TabType /\ held' \in BOOLEAN /\ calls' \in CallTable) => SignInTypeOK'
    BY <1>1, SignInPieces DEF SignInTypeOK, TabType, CallTable
  <1>5. CASE tab' = done /\ calls' = [calls EXCEPT ![i] = NoCall] /\ UNCHANGED held
    <2> HIDE DEF done
    <2> QED
      BY <1>1, <1>2, <1>3, <1>4, <1>5, LandEffect, SameSession DEF LossIsKnown
  <1>6. CASE /\ Current(calls[i])
             /\ \E who \in Answers(calls[i]) \cap Accounts : tab' = Shows(done, who)
             /\ calls' = [calls EXCEPT ![i] = NoCall]
             /\ held' = TRUE
    <2>1. PICK who \in Answers(calls[i]) \cap Accounts : tab' = Shows(done, who)
      BY <1>6
    <2> HIDE DEF done
    <2>2. tab' \in TabType /\ tab'.user = who /\ tab'.ended = tab.ended
      BY <1>3, <2>1 DEF TabType, Shows
    <2>3. (\E s \in recent : Who[s] = who) /\ (cookie = NoSession => lost)
      BY <1>1, <1>6, AnswerIs
    <2> QED
      BY <1>1, <1>2, <1>4, <1>6, <2>2, <2>3, LandEffect, SameSession
  <1>7. CASE /\ Current(calls[i]) /\ "refused" \in Answers(calls[i])
             /\ tab' = [done EXCEPT !.user = Nobody, !.ended = TRUE]
             /\ calls' = [Outdated(calls) EXCEPT ![i] = NoCall]
             /\ held' = FALSE
    <2>1. tab' \in TabType /\ tab'.user = Nobody
      BY <1>2, <1>7 DEF TabType
    <2>2. lost
      BY <1>1, <1>7, AnswerIs
    <2>3. /\ calls' \in CallTable
          /\ \A j \in CallSlots : calls'[j] = NoCall \/ (calls'[j].stale /\ ~calls'[j].held)
      BY <1>2, <1>7, OutdatedEffect DEF CallTable
    <2> QED
      BY <1>1, <1>2, <1>4, <1>7, <2>1, <2>2, <2>3, SameSession
  <1> QED
    BY <1>5, <1>6, <1>7 DEF LandRecheck

LEMMA HearKeeps ==
  ASSUME SignInInv, HearRejection \/ CallRefused \/ DismissNotice
  PROVE  SignInInv'
  <1>0. LossIsKnown /\ tab \in TabType /\ calls \in CallTable
    BY SignInPieces DEF SignInInv
  <1>1. /\ UNCHANGED <<cookie, minted, revoked, held, signing, recent, lost>>
        /\ retryDue' = retryDue /\ rejection' \in BOOLEAN
    BY SignInPieces DEF HearRejection, CallRefused, DismissNotice
  <1>2. (tab' \in TabType /\ calls' \in CallTable) => SignInTypeOK'
    BY <1>1, SignInPieces DEF SignInTypeOK, TabType, CallTable
  <1>3. CASE UNCHANGED <<tab, calls>>
    BY <1>0, <1>1, <1>2, <1>3, SameSession DEF LossIsKnown
  <1>4. CASE /\ HearRejection /\ tab.user # Nobody
             /\ Ask("recheck", cookie) /\ tab' = [tab EXCEPT !.checking = TRUE]
    <2>1. tab' \in TabType /\ tab'.user = tab.user /\ tab'.ended = tab.ended
      BY <1>0, <1>4 DEF TabType
    <2>2. held /\ (cookie = NoSession => lost)
      BY <1>0, <1>4 DEF LossIsKnown
    <2>3. /\ calls' \in CallTable
          /\ \A j \in CallSlots : calls'[j] = calls[j] \/ calls'[j] = Question("recheck", cookie)
      BY <1>0, <1>4, AskEffect, SignInPieces
    <2> QED
      BY <1>1, <1>2, <2>1, <2>2, <2>3, SameSession
  <1>5. CASE DismissNotice
    <2>1. tab' \in TabType /\ tab'.user = tab.user /\ tab'.ended = FALSE /\ calls' = calls
      BY <1>0, <1>5 DEF DismissNotice, TabType
    <2> QED
      BY <1>0, <1>1, <1>2, <2>1, SameSession DEF LossIsKnown
  <1> QED
    BY <1>3, <1>4, <1>5 DEF HearRejection, CallRefused

-----------------------------------------------------------------------------
\* A freshly minted session holds: the server ends only what it has minted.
LEMMA MintHolds ==
  ASSUME SignInInv, NEW s \in Sessions, MintsNext(s), minted' = minted \cup {s},
         UNCHANGED revoked
  PROVE  /\ SessionHolds(s)' /\ s # NoSession
         /\ revoked' \subseteq minted' /\ minted' \subseteq Sessions
  <1>1. s \notin minted
    BY SignInAssumption DEF MintsNext
  <1> QED
    BY <1>1, SignInPieces, SignInAssumption DEF SignInInv, MintsAreNew, SessionHolds

\* A mint replaces the cookie: the old calls stay, the new ones ask under it.
LEMMA MintKeeps ==
  ASSUME SignInInv, NEW s \in Sessions, MintsNext(s), minted' = minted \cup {s}, cookie' = s,
         signing' \in Sessions \cup {NoSession}, recent' = recent \cup {s},
         UNCHANGED <<revoked, held, tab, retryDue, rejection, lost>>,
         calls' = calls \/ Ask("first", s)
  PROVE  SignInInv'
  <1>0. SignInTypeOK /\ ShownIsRecent /\ AnswersAreRecent /\ NoticeIsTrue /\ LossIsKnown
    BY DEF SignInInv
  <1>1. /\ SessionHolds(s)' /\ s # NoSession
        /\ revoked' \subseteq minted' /\ minted' \subseteq Sessions
    BY MintHolds
  <1>2. /\ calls' \in CallTable
        /\ \A j \in CallSlots : calls'[j] = calls[j] \/ calls'[j] = Question("first", s)
    BY AskEffect, SignInPieces
  <1>3. SignInTypeOK'
    BY <1>1, <1>2, SignInPieces DEF SignInTypeOK, TabType, CallTable
  <1>4. MintsAreNew' /\ ShownIsRecent' /\ NoticeIsTrue'
    BY <1>0, <1>1 DEF MintsAreNew, ShownIsRecent, NoticeIsTrue
  <1>5. \A t : SessionHolds(t)' = SessionHolds(t)
    BY DEF SessionHolds
  <1>6. Question("first", s).session = s
    BY DEF Question
  <1>7. AnswersAreRecent'
    BY <1>0, <1>1, <1>2, <1>6 DEF AnswersAreRecent, Live
  <1>8. LossIsKnown'
    <2>2. ASSUME NEW j \in CallSlots, Live(j)', ~SessionHolds(calls'[j].session)
          PROVE  lost'
      <3>1. calls'[j] = calls[j]
        BY <1>1, <1>2, <1>5, <1>6, <2>2
      <3> QED
        BY <1>0, <2>2, <3>1 DEF LossIsKnown, Live
    <2> QED
      BY <1>0, <1>1, <1>5, <2>2 DEF LossIsKnown
  <1> QED
    BY <1>3, <1>4, <1>7, <1>8 DEF SignInInv

LEMMA SignInServedKeeps ==
  ASSUME SignInInv, NEW s \in Sessions, SignInServed(s) \/ ConfirmRegistration(s)
  PROVE  SignInInv'
  <1>1. signing' \in Sessions \cup {NoSession}
    BY SignInPieces DEF SignInServed, ConfirmRegistration
  <1> QED
    BY <1>1, MintKeeps DEF SignInServed, ConfirmRegistration

\* A sign-in or a sign-out starts over: no call is looked at any more, and what was lost is
\* told again from the cookie alone.
LEMMA StartsOver ==
  ASSUME SignInInv, SignInTypeOK', UNCHANGED <<minted, revoked>>,
         cookie' \in {cookie, NoSession},
         calls' = Outdated(calls),
         cookie' # NoSession => cookie' \in recent',
         tab'.user # Nobody => held' /\ \E s \in recent' : Who[s] = tab'.user,
         tab'.ended => lost',
         cookie' # NoSession /\ ~SessionHolds(cookie') => lost',
         held' /\ cookie' = NoSession => lost'
  PROVE  SignInInv'
  <1>1. \A j \in CallSlots : ~Live(j)' /\ ~calls'[j].held
    <2>1. NoCall.held = FALSE
      BY DEF NoCall
    <2>2. \A j \in CallSlots : calls'[j] = NoCall \/ (calls'[j].stale /\ ~calls'[j].held)
      BY OutdatedEffect, SignInPieces
    <2> QED
      BY <2>1, <2>2 DEF Live
  <1>2. SessionHolds(cookie)' = SessionHolds(cookie')
    BY DEF SessionHolds
  <1>3. MintsAreNew' /\ ShownIsRecent' /\ NoticeIsTrue'
    BY DEF SignInInv, MintsAreNew, ShownIsRecent, NoticeIsTrue
  <1>4. AnswersAreRecent'
    BY <1>1 DEF AnswersAreRecent
  <1>5. LossIsKnown'
    BY <1>1, <1>2 DEF LossIsKnown
  <1> QED
    BY <1>3, <1>4, <1>5 DEF SignInInv

LEMMA SignInLandsKeeps ==
  ASSUME SignInInv, SignInLands
  PROVE  SignInInv'
  <1>1. CASE /\ tab' = [Shows(tab, Who[signing]) EXCEPT !.ended = FALSE]
             /\ calls' = Outdated(calls)
             /\ held' = TRUE
             /\ recent' = {cookie, signing} \ {NoSession}
             /\ lost' = ~SessionHolds(cookie)
    <2>1. signing \in Sessions /\ signing # NoSession
      BY SignInPieces, SignInAssumption DEF SignInLands
    <2>2. tab' \in TabType /\ tab'.user = Who[signing] /\ tab'.ended = FALSE
      BY <1>1, <2>1, SignInPieces DEF TabType, Shows, Accounts
    <2>3. UNCHANGED <<cookie, minted, revoked, retryDue, rejection>> /\ signing' = NoSession
      BY DEF SignInLands
    <2>4. lost' \in BOOLEAN /\ (~SessionHolds(cookie) => lost')
      BY <1>1
    <2>5. SignInTypeOK'
      BY <1>1, <2>2, <2>3, <2>4, SignInPieces, OutdatedEffect
         DEF SignInTypeOK, TabType, CallTable
    <2>6. ~SessionHolds(NoSession)
      BY DEF SessionHolds
    <2> QED
      BY <1>1, <2>1, <2>2, <2>3, <2>4, <2>5, <2>6, StartsOver
  <1>2. CASE UNCHANGED <<tab, calls, held, recent, lost>>
    <2>1. UNCHANGED <<cookie, minted, revoked, retryDue, rejection>> /\ signing' = NoSession
      BY DEF SignInLands
    <2>2. SignInTypeOK' /\ LossIsKnown
      BY <1>2, <2>1 DEF SignInInv, SignInTypeOK
    <2> QED
      BY <1>2, <2>1, <2>2, SameSession DEF LossIsKnown
  <1> QED
    BY <1>1, <1>2 DEF SignInLands

LEMMA SignOutKeeps ==
  ASSUME SignInInv, SignOut
  PROVE  SignInInv'
  <1>1. /\ UNCHANGED <<minted, revoked, retryDue, rejection, signing>>
        /\ cookie' \in {cookie, NoSession} /\ calls' = Outdated(calls) /\ held' = FALSE
        /\ recent' = {cookie'} \ {NoSession}
    BY DEF SignOut
  <1>2. tab' \in TabType /\ tab'.user = Nobody /\ tab'.ended = tab.ended
    BY SignInPieces DEF SignOut, TabType
  <1>3. /\ lost' \in BOOLEAN /\ (tab.ended => lost')
        /\ cookie' # NoSession /\ ~SessionHolds(cookie') => lost'
    BY SignInPieces DEF SignOut, TabType
  <1>4. SignInTypeOK'
    BY <1>1, <1>2, <1>3, SignInPieces, OutdatedEffect DEF SignInTypeOK, TabType, CallTable
  <1> QED
    BY <1>1, <1>2, <1>3, <1>4, StartsOver

\* A load asks once under the cookie it finds, or reads the mark of a session that was lost.
LEMMA LoadKeeps ==
  ASSUME SignInInv, Load
  PROVE  SignInInv'
  <1>0. /\ LossIsKnown /\ MintsAreNew
        /\ UNCHANGED <<cookie, minted, revoked, lost>>
        /\ retryDue' = FALSE /\ rejection' = FALSE /\ signing' = NoSession
        /\ recent' = {cookie} \ {NoSession}
    BY DEF SignInInv, Load
  <1>1. CASE HasSessionCookie
    <2>1. /\ tab' \in TabType /\ tab'.user = Nobody /\ tab'.ended = FALSE
          /\ held' = held
      <3>1. tab' = FreshTab /\ held' = held
        BY <1>1 DEF Load
      <3> QED
        BY <3>1 DEF FreshTab, TabType
    <2>2. /\ calls' \in CallTable
          /\ \A j \in CallSlots : calls'[j] = NoCall \/ calls'[j] = Question("first", cookie)
      BY <1>1, QuestionIsACall, SignInPieces DEF Load, CallTable
    <2> QED
      <3>1. SignInTypeOK'
        BY <1>0, <2>1, <2>2, SignInPieces DEF SignInTypeOK, TabType, CallTable
      <3>2. MintsAreNew' /\ ShownIsRecent' /\ NoticeIsTrue'
        BY <1>0, <2>1 DEF MintsAreNew, ShownIsRecent, NoticeIsTrue
      <3>3. NoCall.held = FALSE /\ Question("first", cookie).session = cookie
        BY DEF NoCall, Question
      <3>4. cookie # NoSession /\ cookie \in recent'
        BY <1>0, <1>1 DEF HasSessionCookie
      <3>5. AnswersAreRecent'
        BY <1>0, <2>2, <3>3, <3>4 DEF AnswersAreRecent, Live
      <3>6. \A t : SessionHolds(t)' = SessionHolds(t)
        BY <1>0 DEF SessionHolds
      <3>7. LossIsKnown'
        BY <1>0, <2>1, <2>2, <3>3, <3>4, <3>6 DEF LossIsKnown, Live
      <3> QED
        BY <3>1, <3>2, <3>5, <3>7 DEF SignInInv
  <1>2. CASE ~HasSessionCookie
    <2>1. /\ tab' \in TabType /\ tab'.user = Nobody /\ (tab'.ended => held)
          /\ held' = FALSE
      BY <1>2, SignInPieces DEF Load, FreshTab, SettledOut, TabType
    <2>2. calls' \in CallTable /\ \A j \in CallSlots : calls'[j] = NoCall
      BY <1>2 DEF Load, CallTable
    <2>3. cookie = NoSession
      BY <1>2 DEF HasSessionCookie
    <2>4. SignInTypeOK'
      BY <1>0, <2>1, <2>2, SignInPieces DEF SignInTypeOK, TabType, CallTable
    <2>5. MintsAreNew' /\ ShownIsRecent' /\ NoticeIsTrue'
      BY <1>0, <2>1, <2>3 DEF MintsAreNew, ShownIsRecent, NoticeIsTrue, LossIsKnown
    <2>6. NoCall.held = FALSE
      BY DEF NoCall
    <2>7. AnswersAreRecent' /\ LossIsKnown'
      BY <1>0, <2>1, <2>2, <2>3, <2>6 DEF AnswersAreRecent, LossIsKnown, Live
    <2> QED
      BY <2>4, <2>5, <2>7 DEF SignInInv
  <1> QED
    BY <1>1, <1>2

LEMMA SessionOverKeeps ==
  ASSUME SignInInv, SessionOver
  PROVE  SignInInv'
  <1>1. /\ UNCHANGED <<minted, held, tab, calls, retryDue, rejection, signing, recent>>
        /\ lost' = TRUE /\ cookie' \in {cookie, NoSession}
        /\ revoked' \in {revoked, revoked \cup {cookie}} /\ cookie # NoSession
    BY DEF SessionOver, HasSessionCookie
  <1>2. SignInTypeOK' /\ MintsAreNew'
    BY <1>1, SignInPieces DEF SignInInv, SignInTypeOK, MintsAreNew
  <1>3. ShownIsRecent' /\ AnswersAreRecent' /\ NoticeIsTrue' /\ LossIsKnown'
    BY <1>1 DEF SignInInv, ShownIsRecent, AnswersAreRecent, NoticeIsTrue, LossIsKnown, Live
  <1> QED
    BY <1>2, <1>3 DEF SignInInv

LEMMA SignInKept == SignInInv /\ [SignInNext]_signInVars => SignInInv'
  <1> SUFFICES ASSUME SignInInv, [SignInNext]_signInVars
               PROVE  SignInInv'
    OBVIOUS
  <1>1. CASE SignInNext
    BY <1>1, LoadKeeps, FetchKeeps, HearKeeps, SignInLandsKeeps, SignOutKeeps, SessionOverKeeps,
       SignInServedKeeps, LandMeKeeps, RecheckKeeps DEF SignInNext
  <1>2. CASE UNCHANGED signInVars
    BY <1>2 DEF signInVars, SignInInv, SignInTypeOK, MintsAreNew, ShownIsRecent,
       AnswersAreRecent, NoticeIsTrue, LossIsKnown, Live, SessionHolds
  <1> QED
    BY <1>1, <1>2

\* A late /auth/me answer never brings back the account that was there before: whoever the tab
\* shows had this browser's cookie since the last sign-in, sign-out or load.
THEOREM ShownWasHere == SignInSpec => []ShownIsRecent
  <1>1. SignInInv => ShownIsRecent
    BY DEF SignInInv
  <1> QED
    BY <1>1, InitSignIn, SignInKept, PTL DEF SignInSpec

\* The notice that a session ended is shown only when one did, and not by a sign-out: each of
\* the four ways to it starts with a session that was lost.
THEOREM NoticeIsEarned == SignInSpec => []NoticeIsTrue
  <1>1. SignInInv => NoticeIsTrue
    BY DEF SignInInv
  <1> QED
    BY <1>1, InitSignIn, SignInKept, PTL DEF SignInSpec

-----------------------------------------------------------------------------
(***************************************************************************)
(* The display preferences: what the reader chose is what the page shows.  *)
(***************************************************************************)

\* A pull asked before a choice knows that it is outdated: LandPull then leaves the cache alone.
PullKnowsOfChoices == (pull # NoPull /\ chosen # Nothing) => pull.outdated

DisplayInv == DisplayTypeOK /\ ChoiceShows /\ PullKnowsOfChoices

-----------------------------------------------------------------------------
\* Settings laid over settings, and no settings at all, are settings.
LEMMA OverTypes ==
  ASSUME NEW top \in Partial, NEW under \in Partial
  PROVE  Over(top, under) \in Partial
  BY DEF Over, Partial

LEMMA NothingTypes == Nothing \in Partial
  BY DEF Nothing, Partial

\* What a write sends is settings of one account.
LEMMA UploadTypes ==
  ASSUME NEW u \in Readers, NEW body \in Partial
  PROVE  Upload(u, body) \subseteq Patches
  BY DEF Upload, Patches

\* A pull that is on its way was asked for an account.
LEMMA PullTypes ==
  ASSUME DisplayTypeOK
  PROVE  /\ pull.for # NoReader <=> pull \in Pulls
         /\ pull.served => pull \in Pulls
         /\ pull \in Pulls => pull # NoPull
  BY DisplayAssumption DEF DisplayTypeOK, NoPull, Pulls

LEMMA InitDisplay == DisplayInit => DisplayInv
  BY NothingTypes, DisplayAssumption
  DEF DisplayInit, DisplayInv, DisplayTypeOK, ChoiceShows, PullKnowsOfChoices, Nothing

-----------------------------------------------------------------------------
\* A page that changes hands has nothing chosen on it yet.
LEMMA ArriveKeeps ==
  ASSUME DisplayInv, NEW u \in Readers, Arrive(u), patches' \subseteq patches,
         UNCHANGED <<stored, cache, owner, choices>>
  PROVE  DisplayInv'
  <1>1. pull' \in Pulls
    BY NothingTypes DEF Arrive, NoPull, Pulls
  <1>2. DisplayTypeOK'
    BY <1>1, NothingTypes DEF DisplayInv, DisplayTypeOK, Arrive
  <1>3. ChoiceShows' /\ PullKnowsOfChoices'
    BY DEF Arrive, ChoiceShows, PullKnowsOfChoices, Nothing
  <1> QED
    BY <1>2, <1>3 DEF DisplayInv

LEMMA LeaveKeeps ==
  ASSUME DisplayInv, SessionDrops \/ SignsOut
  PROVE  DisplayInv'
  <1>1. DisplayTypeOK'
    BY NothingTypes DEF DisplayInv, DisplayTypeOK, SessionDrops, SignsOut
  <1>2. ChoiceShows' /\ PullKnowsOfChoices'
    BY DEF SessionDrops, SignsOut, ChoiceShows, PullKnowsOfChoices, Nothing
  <1> QED
    BY <1>1, <1>2 DEF DisplayInv

LEMMA ServeKeeps ==
  ASSUME DisplayInv, ServePull
  PROVE  DisplayInv'
  <1>1. pull \in Pulls /\ stored[pull.for] \in Partial
    BY PullTypes DEF DisplayInv, DisplayTypeOK, ServePull, Pulls
  <1>2. pull' \in Pulls /\ pull'.outdated = pull.outdated
    BY <1>1 DEF ServePull, Pulls
  <1>3. DisplayTypeOK'
    BY <1>2 DEF DisplayInv, DisplayTypeOK, ServePull
  <1>4. ChoiceShows' /\ PullKnowsOfChoices'
    BY <1>1, <1>2, PullTypes
    DEF DisplayInv, ServePull, ChoiceShows, PullKnowsOfChoices
  <1> QED
    BY <1>3, <1>4 DEF DisplayInv

\* A pull that lands on the cache finds nothing chosen since it was asked.
LEMMA LandKeeps ==
  ASSUME DisplayInv, LandPull
  PROVE  DisplayInv'
  <1> DEFINE kept == IF owner \in {NoReader, pull.for} THEN cache ELSE Nothing
             up == [k \in Keys |-> IF pull.body[k] = Unset THEN kept[k] ELSE Unset]
  <1>1. pull \in Pulls /\ pull # NoPull
    BY PullTypes DEF DisplayInv, LandPull
  <1>2. kept \in Partial /\ pull.body \in Partial /\ pull.for \in Readers
    BY <1>1, NothingTypes DEF DisplayInv, DisplayTypeOK, Pulls
  <1>3. up \in Partial
    BY <1>2 DEF Partial
  <1>4. Upload(pull.for, up) \subseteq Patches
    BY <1>2, <1>3, UploadTypes
  <1>5. Over(pull.body, kept) \in Partial
    BY <1>2, OverTypes
  <1>6. DisplayTypeOK'
    <2>1. CASE pull.outdated
      BY <2>1 DEF DisplayInv, DisplayTypeOK, LandPull
    <2>2. CASE ~pull.outdated
      <3>1. /\ owner' = pull.for
            /\ cache' = Over(pull.body, kept)
            /\ patches' = patches \cup Upload(pull.for, up)
        BY <2>2 DEF LandPull
      <3> HIDE DEF kept, up
      <3> QED
        BY <1>2, <1>4, <1>5, <3>1 DEF DisplayInv, DisplayTypeOK, LandPull
    <2> QED
      BY <2>1, <2>2
  <1>7. ChoiceShows'
    <2>1. CASE pull.outdated
      BY <2>1 DEF DisplayInv, ChoiceShows, LandPull
    <2>2. CASE ~pull.outdated
      BY <2>2, <1>1 DEF DisplayInv, PullKnowsOfChoices, LandPull, ChoiceShows, Nothing
    <2> QED
      BY <2>1, <2>2
  <1>8. PullKnowsOfChoices'
    BY DEF LandPull, PullKnowsOfChoices
  <1> QED
    BY <1>6, <1>7, <1>8 DEF DisplayInv

\* A choice is cached and outdates the pull in the same step.
LEMMA ChooseKeeps ==
  ASSUME DisplayInv, NEW k \in Keys, NEW v \in Settings, Choose(k, v)
  PROVE  DisplayInv'
  <1> DEFINE choice == [by |-> reader, value |-> v]
  <1>1. reader \in Readers /\ choice \in Values
    BY DEF DisplayInv, DisplayTypeOK, Choose, Values
  <1>2. cache' = [cache EXCEPT ![k] = choice] /\ chosen' = [chosen EXCEPT ![k] = choice]
    BY DEF Choose
  <1>3. patches' = patches \cup Upload(reader, [Nothing EXCEPT ![k] = choice])
    BY DEF Choose
  <1> HIDE DEF choice
  <1>4. cache' \in Partial /\ chosen' \in Partial /\ [Nothing EXCEPT ![k] = choice] \in Partial
    BY <1>1, <1>2, NothingTypes DEF DisplayInv, DisplayTypeOK, Partial
  <1>5. patches' \subseteq Patches
    BY <1>1, <1>3, <1>4, UploadTypes DEF DisplayInv, DisplayTypeOK
  <1>6. pull' \in Pulls \cup {NoPull} /\ (pull' # NoPull => pull'.outdated)
    BY DEF DisplayInv, DisplayTypeOK, Choose, Pulls
  <1>7. DisplayTypeOK'
    <2>1. choices' \in 0 .. MaxChoices
      BY DisplayAssumption DEF DisplayInv, DisplayTypeOK, Choose
    <2>2. reader' = reader /\ owner' = reader /\ stored' = stored
      BY DEF Choose
    <2> QED
      BY <1>1, <1>4, <1>5, <1>6, <2>1, <2>2 DEF DisplayInv, DisplayTypeOK
  <1>8. ChoiceShows'
    BY <1>2 DEF DisplayInv, DisplayTypeOK, ChoiceShows, Partial
  <1>9. PullKnowsOfChoices'
    BY <1>6 DEF PullKnowsOfChoices
  <1> QED
    BY <1>7, <1>8, <1>9 DEF DisplayInv

LEMMA PatchKeeps ==
  ASSUME DisplayInv, NEW p \in patches, PatchLands(p) \/ PatchFails(p)
  PROVE  DisplayInv'
  <1>1. p.to \in Readers /\ p.body \in Partial
    BY DEF DisplayInv, DisplayTypeOK, Patches
  <1>2. stored' \in [Readers -> Partial]
    <2>1. Over(p.body, stored[p.to]) \in Partial
      BY <1>1, OverTypes DEF DisplayInv, DisplayTypeOK
    <2> QED
      BY <2>1 DEF PatchLands, PatchFails, DisplayInv, DisplayTypeOK
  <1>3. DisplayTypeOK'
    BY <1>2 DEF DisplayInv, DisplayTypeOK, PatchLands, PatchFails
  <1>4. ChoiceShows' /\ PullKnowsOfChoices'
    BY DEF DisplayInv, PatchLands, PatchFails, ChoiceShows, PullKnowsOfChoices
  <1> QED
    BY <1>3, <1>4 DEF DisplayInv

-----------------------------------------------------------------------------
\* The server's rows, the cache, the pull and the writes on their way are what they are declared
\* to be, and what the reader chose on the page is what it shows (saveDisplay, syncDisplay).
THEOREM DisplayCorrect == DisplaySpec => []DisplayInv
  <1>1. DisplayInit => DisplayInv
    BY InitDisplay
  <1>2. DisplayInv /\ [DisplayNext]_displayVars => DisplayInv'
    <2> SUFFICES ASSUME DisplayInv, [DisplayNext]_displayVars PROVE DisplayInv'
      OBVIOUS
    <2>1. ASSUME NEW u \in Readers, SignsIn(u) PROVE DisplayInv'
      BY <2>1, ArriveKeeps DEF SignsIn
    <2>2. CASE Reload
      <3>1. reader \in Readers
        BY <2>2 DEF Reload, DisplayInv, DisplayTypeOK
      <3> QED
        BY <2>2, <3>1, ArriveKeeps DEF Reload
    <2>3. CASE SessionDrops \/ SignsOut
      BY <2>3, LeaveKeeps
    <2>4. CASE ServePull
      BY <2>4, ServeKeeps
    <2>5. CASE LandPull
      BY <2>5, LandKeeps
    <2>6. CASE PullFails
      BY <2>6 DEF PullFails, DisplayInv, DisplayTypeOK, ChoiceShows, PullKnowsOfChoices
    <2>7. ASSUME NEW k \in Keys, NEW v \in Settings, Choose(k, v) PROVE DisplayInv'
      BY <2>7, ChooseKeeps
    <2>8. ASSUME NEW p \in patches, PatchLands(p) \/ PatchFails(p) PROVE DisplayInv'
      BY <2>8, PatchKeeps
    <2>9. CASE UNCHANGED displayVars
      BY <2>9 DEF displayVars, DisplayInv, DisplayTypeOK, ChoiceShows, PullKnowsOfChoices
    <2> QED
      BY <2>1, <2>2, <2>3, <2>4, <2>5, <2>6, <2>7, <2>8, <2>9 DEF DisplayNext
  <1> QED
    BY <1>1, <1>2, PTL DEF DisplaySpec

\* What the reader chose on this page is what the page shows, though a pull asked before the
\* choice answers after it.
THEOREM ChoiceIsShown == DisplaySpec => []ChoiceShows
  BY DisplayCorrect, PTL DEF DisplayInv

\* The tab, its requests and its settings are what they are declared to be.
THEOREM SessionTypes ==
  /\ SignInSpec => []SignInTypeOK
  /\ DisplaySpec => []DisplayTypeOK
  <1>1. SignInInv => SignInTypeOK
    BY DEF SignInInv
  <1>2. DisplayInv => DisplayTypeOK
    BY DEF DisplayInv
  <1> QED
    BY <1>1, <1>2, InitSignIn, SignInKept, DisplayCorrect, PTL DEF SignInSpec
=============================================================================
