------------------------------ MODULE MCAccounts ------------------------------
(***************************************************************************)
(* Instances of what opens an account and of what takes it away: the       *)
(* registrations and their codes, the bans and the erasures.  Neither      *)
(* writes what the other reads but for the end of an account, which        *)
(* Registration has as an action of its own, so a behaviour of both is one *)
(* behaviour of each, and a run follows one part at a time, out of the set *)
(* Followed.                                                               *)
(***************************************************************************)
EXTENDS AccountModeration, Registration, TLC

CONSTANT Followed

VARIABLE part

allVars == <<part, vars, regVars>>

AccountsInit == part \in Followed /\ Init /\ RegistrationInit

OfModeration(A) == part = "moderation" /\ A /\ UNCHANGED <<part, regVars>>
OfRegistration(A) == part = "registration" /\ A /\ UNCHANGED <<part, vars>>
OfCodes(A) == part = "codes" /\ A /\ UNCHANGED <<part, vars>>

\* The quota of a sponsor is counted over days, and no registration reads it.
CodesNext ==
    \/ \E i \in Invites : Invitation(i)
    \/ \E d \in Desks : AbandonMint(d) \/ \E s \in Sponsors : BeginMint(d, s)
    \/ NewDay

\* Two requests at once: confirmations, or registrations that are after one name on one code.
TwoAtOnce ==
    /\ Cardinality({v \in Visitors : visit[v] # NoRow})
         + Cardinality({c \in Clicks : click[c] # NoRow}) <= 2
    /\ \A v, w \in Visitors :
          visit[v] # NoRow /\ visit[w] # NoRow =>
              visit[v].name = visit[w].name /\ visit[v].invite = visit[w].invite

AccountsNext ==
    \/ OfModeration(Next)
    \/ OfRegistration(UNCHANGED <<mint, today>> /\ RegistrationNext /\ TwoAtOnce')
    \/ OfCodes(CodesNext)

AccountsSpec == AccountsInit /\ [][AccountsNext]_allVars

Symmetric == Permutations(Users) \cup Permutations(Events) \cup Permutations(Admins)
=============================================================================
