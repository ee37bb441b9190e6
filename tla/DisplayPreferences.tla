------------------------- MODULE DisplayPreferences -------------------------
(***************************************************************************)
(* The display preferences of one browser (lib/preferences.ts and          *)
(* components/PreferencesSync.tsx): the server row of the account, the     *)
(* localStorage cache tagged with an account, and the pull that reconciles *)
(* the two after each sign-in while the reader may already be choosing.    *)
(***************************************************************************)
EXTENDS Integers, FiniteSets

CONSTANTS
    Readers,       \* the accounts that sign in on this browser
    Keys,          \* palette, theme, help_tooltips
    Settings,      \* the values a key may take
    MaxChoices,    \* bound on the choices explored
    Unset,
    NoReader

ASSUME DisplayAssumption ==
    /\ NoReader \notin Readers
    /\ MaxChoices \in Nat

VARIABLES
    reader,      \* the account signed in
    stored,      \* account -> key -> the server's value
    cache,       \* key -> the value in localStorage
    owner,       \* localStorage "vidit:display-owner"
    pull,        \* the GET in flight
    patches,     \* the PATCHes in flight
    choices,
    chosen       \* history: key -> what the reader chose since the page last changed hands

displayVars == <<reader, stored, cache, owner, pull, patches, choices, chosen>>

\* A value remembers who chose it, which the code does not: that is what the properties tell apart.
Values == [by : Readers, value : Settings]
Partial == [Keys -> Values \cup {Unset}]
Nothing == [k \in Keys |-> Unset]

\* outdated: localChanges has moved since the pull was asked, or its effect was cleaned up.
NoPull == [for |-> NoReader, body |-> Nothing, served |-> FALSE, outdated |-> FALSE]
Pulls == [for : Readers, body : Partial, served : BOOLEAN, outdated : BOOLEAN]
Patches == [to : Readers, body : Partial]

\* The first body wherever it has a value, the second elsewhere.
Over(top, under) == [k \in Keys |-> IF top[k] # Unset THEN top[k] ELSE under[k]]
Upload(u, body) == IF body = Nothing THEN {} ELSE {[to |-> u, body |-> body]}

DisplayInit ==
    /\ reader = NoReader
    /\ stored = [u \in Readers |-> Nothing]
    /\ cache = Nothing
    /\ owner = NoReader
    /\ pull = NoPull
    /\ patches = {}
    /\ choices = 0
    /\ chosen = Nothing
-----------------------------------------------------------------------------
\* The sync effect: each change of the signed-in account, and each load, starts one pull.
Arrive(u) ==
    /\ reader' = u
    /\ pull' = [NoPull EXCEPT !.for = u]
    /\ chosen' = Nothing

SignsIn(u) ==
    /\ reader = NoReader
    /\ Arrive(u)
    /\ UNCHANGED <<stored, cache, owner, patches, choices>>

\* The page is loaded again; a write that had not left may be lost with it.
Reload ==
    /\ reader # NoReader
    /\ Arrive(reader)
    /\ patches' \in {patches, {}}
    /\ UNCHANGED <<stored, cache, owner, choices>>

\* A session that ends without a sign-out keeps the cache; the effect's cleanup aborts the pull.
SessionDrops ==
    /\ reader # NoReader
    /\ reader' = NoReader
    /\ pull' = NoPull
    /\ chosen' = Nothing
    /\ UNCHANGED <<stored, cache, owner, patches, choices>>

\* logout: clearDisplay, then a hard navigation.
SignsOut ==
    /\ reader # NoReader
    /\ reader' = NoReader
    /\ pull' = NoPull
    /\ cache' = Nothing
    /\ owner' = NoReader
    /\ chosen' = Nothing
    /\ UNCHANGED <<stored, patches, choices>>
-----------------------------------------------------------------------------
ServePull ==
    /\ pull.for # NoReader
    /\ ~pull.served
    /\ pull' = [pull EXCEPT !.served = TRUE, !.body = stored[pull.for]]
    /\ UNCHANGED <<reader, stored, cache, owner, patches, choices, chosen>>

\* Mutant of LandPull: the pull does not look at what changed since it was asked.
LandPullAnyway ==
    /\ pull.served
    /\ pull' = NoPull
    /\ LET kept == IF owner \in {NoReader, pull.for} THEN cache ELSE Nothing IN
       /\ owner' = pull.for
       /\ cache' = Over(pull.body, kept)
       /\ patches' = patches \cup
                     Upload(pull.for, [k \in Keys |-> IF pull.body[k] = Unset THEN kept[k] ELSE Unset])
    /\ UNCHANGED <<reader, stored, choices, chosen>>

\* syncDisplay: what the account stored wins; what it has not stored goes up from the cache, once
\* the cache is the account's own or nobody's.
LandPull ==
    /\ pull.served
    /\ pull' = NoPull
    /\ IF pull.outdated
       THEN UNCHANGED <<cache, owner, patches>>
       ELSE LET kept == IF owner \in {NoReader, pull.for} THEN cache ELSE Nothing IN
            /\ owner' = pull.for
            /\ cache' = Over(pull.body, kept)
            /\ patches' = patches \cup
                 Upload(pull.for, [k \in Keys |-> IF pull.body[k] = Unset THEN kept[k] ELSE Unset])
    /\ UNCHANGED <<reader, stored, choices, chosen>>

\* A failed pull keeps the cache, and the next load asks again.
PullFails ==
    /\ pull.for # NoReader
    /\ pull' = NoPull
    /\ UNCHANGED <<reader, stored, cache, owner, patches, choices, chosen>>

\* saveDisplay: counted and tagged, cached at once, written through.
Choose(k, v) ==
    LET choice == [by |-> reader, value |-> v] IN
    /\ reader # NoReader
    /\ choices < MaxChoices
    /\ choices' = choices + 1
    /\ pull' = IF pull = NoPull THEN NoPull ELSE [pull EXCEPT !.outdated = TRUE]
    /\ owner' = reader
    /\ cache' = [cache EXCEPT ![k] = choice]
    /\ chosen' = [chosen EXCEPT ![k] = choice]
    /\ patches' = patches \cup Upload(reader, [Nothing EXCEPT ![k] = choice])
    /\ UNCHANGED <<reader, stored>>

\* update_preferences merges under the row lock.
PatchLands(p) ==
    /\ p \in patches
    /\ patches' = patches \ {p}
    /\ stored' = [stored EXCEPT ![p.to] = Over(p.body, @)]
    /\ UNCHANGED <<reader, cache, owner, pull, choices, chosen>>

PatchFails(p) ==
    /\ p \in patches
    /\ patches' = patches \ {p}
    /\ UNCHANGED <<reader, stored, cache, owner, pull, choices, chosen>>

DisplayNext ==
    \/ Reload \/ SessionDrops \/ SignsOut \/ ServePull \/ LandPull \/ PullFails
    \/ \E u \in Readers : SignsIn(u)
    \/ \E k \in Keys, v \in Settings : Choose(k, v)
    \/ \E p \in patches : PatchLands(p) \/ PatchFails(p)

DisplaySpec == DisplayInit /\ [][DisplayNext]_displayVars
-----------------------------------------------------------------------------
DisplayTypeOK ==
    /\ reader \in Readers \cup {NoReader}
    /\ stored \in [Readers -> Partial]
    /\ cache \in Partial
    /\ owner \in Readers \cup {NoReader}
    /\ pull \in Pulls \cup {NoPull}
    /\ patches \subseteq Patches
    /\ choices \in 0 .. MaxChoices
    /\ chosen \in Partial

\* What the reader chose on this page is what the page shows, though a pull asked before the
\* choice answers after it (the comment on localChanges).
ChoiceShows == \A k \in Keys : chosen[k] # Unset => cache[k] = chosen[k]

\* lib/preferences.ts: "one account's values never reach another account on a shared browser".
DisplayStaysHome ==
    \A u \in Readers, k \in Keys : stored[u][k] # Unset => stored[u][k].by = u
=============================================================================
