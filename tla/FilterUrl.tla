------------------------------ MODULE FilterUrl ------------------------------
(***************************************************************************)
(* The filter panel of the search page and the URL that names its view     *)
(* (components/filters/model.ts, useFilterSurface.ts, lib/search.ts).  The *)
(* Show pick decides which other filters apply; a change of the view       *)
(* writes the URL, a move of the URL reads the view, and the router lands  *)
(* its navigations some time after it is asked for them.                   *)
(***************************************************************************)
EXTENDS Integers, Sequences, FiniteSets

CONSTANTS
    Statuses,     \* FILTER_STATUSES
    Kinds,        \* SHOW_KINDS
    Dims,         \* the dimensions with one value or none that search offers
    KindDims,     \* KIND_DIMENSIONS: kind -> the dimensions it answers
    LinksIn,      \* the URLs a link into the page may carry
    MaxMoves,     \* bound on the changes a reader makes
    NoVisit

ASSUME FilterAssumption ==
    /\ Statuses \cap Kinds = {} /\ "event" \notin Kinds
    /\ KindDims \in [Kinds -> SUBSET Dims]
    /\ MaxMoves \in Nat

VARIABLES
    filters,     \* the panel's state
    snapshot,    \* the committed state the URL follows
    written,     \* the query string the page last wrote or took
    query,       \* useSearchParams
    entries,     \* the session history of the page
    at,          \* the entry on show
    visit,       \* the navigation asked of the router
    moves,
    outrun       \* history: a write of the page gave way to a visit of the URL it is on

filterVars == <<filters, snapshot, written, query, entries, at, visit, moves, outrun>>

Guesses == {"guessed", "blind"}
States == [show : SUBSET (Statuses \cup Kinds), on : SUBSET Dims, guess : SUBSET Guesses,
           dated : BOOLEAN]
NoFilters == [show |-> {}, on |-> {}, guess |-> {}, dated |-> FALSE]

\* showScope: with no chip everything shows, else what the chips name.
ShowsEvents(show) == show = {} \/ show \cap Statuses # {}
ShowsOthers(show) == show = {} \/ show \cap Kinds # {}

\* offeredDimensions and datesOffered on search.
Offered(show) == IF ShowsEvents(show) THEN Dims ELSE UNION {KindDims[k] : k \in show}

\* scopeState
Scoped(state) ==
    IF ShowsEvents(state.show) THEN state
    ELSE [state EXCEPT !.on = @ \cap Offered(state.show), !.guess = {}, !.dated = FALSE]
-----------------------------------------------------------------------------
\* searchTypes
Types(show) ==
    IF ShowsEvents(show) /\ ShowsOthers(show)
    THEN IF show \cap Statuses # {} THEN {"event"} \cup (show \cap Kinds) ELSE {}
    ELSE IF ShowsEvents(show) THEN {"event"} ELSE show \cap Kinds

\* hasCoordsFilter: both guesses, like neither, name every row.
HasCoords(guess) == IF Cardinality(guess) = 1 THEN guess ELSE {}

\* searchPageParams: a pick of every status and no other kind goes out as type=event alone.
Write(state) ==
    [types |-> Types(state.show),
     status |-> IF Types(state.show) = {"event"} /\ Statuses \subseteq state.show
                THEN {} ELSE state.show \cap Statuses,
     on |-> state.on,
     coords |-> HasCoords(state.guess),
     dated |-> state.dated]

Urls == [types : SUBSET ({"event"} \cup Kinds), status : SUBSET Statuses, on : SUBSET Dims,
         coords : {{}} \cup {{g} : g \in Guesses}, dated : BOOLEAN]

ASSUME LinksAssumption ==
    /\ LinksIn \subseteq Urls
    /\ NoVisit \notin [to : Urls, as : {"push", "replace", "traverse"}]

\* readShowPick: type=event with no status names every status.
ReadShow(url) ==
    (IF url.status = {} /\ "event" \in url.types THEN Statuses ELSE url.status)
    \cup (url.types \cap Kinds)

Read(url) ==
    Scoped([show |-> ReadShow(url), on |-> url.on, guess |-> url.coords, dated |-> url.dated])

\* pushes: a new Show pick is an entry of its own.
Pushes(from, to) == from.types # to.types \/ from.status # to.status

FilterInit ==
    /\ query \in LinksIn
    /\ filters = Read(query)
    /\ snapshot = filters
    /\ written = Write(filters)
    /\ entries = <<query>>
    /\ at = 1
    /\ visit = NoVisit
    /\ moves = 0
    /\ outrun = FALSE
-----------------------------------------------------------------------------
Move == moves < MaxMoves /\ moves' = moves + 1

\* Mutant of Patch: the values the new pick hides stay.
PatchUnscoped(change) ==
    /\ Move
    /\ filters' = change
    /\ UNCHANGED <<snapshot, written, query, entries, at, visit, outrun>>

\* onPatch: one control changes, and what it hides goes with it.
Patch(change) ==
    /\ Move
    /\ filters' = Scoped(change)
    /\ UNCHANGED <<snapshot, written, query, entries, at, visit, outrun>>

Flip(S, x) == IF x \in S THEN S \ {x} ELSE S \cup {x}

\* The controls on the panel: those of the dimensions offered.
Changes ==
    {[filters EXCEPT !.show = Flip(@, s)] : s \in Statuses \cup Kinds}
    \cup {[filters EXCEPT !.on = Flip(@, d)] : d \in Offered(filters.show)}
    \cup (IF ShowsEvents(filters.show)
          THEN {[filters EXCEPT !.guess = Flip(@, g)] : g \in Guesses}
               \cup {[filters EXCEPT !.dated = ~@]}
          ELSE {})

Clear ==
    /\ Move
    /\ filters' = NoFilters
    /\ UNCHANGED <<snapshot, written, query, entries, at, visit, outrun>>

\* The debounce: the snapshot follows, and its effect writes the URL unless the page wrote it last.
\* A navigation asked for replaces the one still on its way.
Commit ==
    /\ snapshot # filters
    /\ snapshot' = filters
    /\ LET url == Write(filters) IN
       IF url = written THEN UNCHANGED <<written, visit>>
       ELSE /\ written' = url
            /\ visit' = [to |-> url, as |-> IF Pushes(written, url) THEN "push" ELSE "replace"]
    /\ UNCHANGED <<filters, query, entries, at, moves, outrun>>

\* The router drops the navigation on its way for the one asked after it; when that one brings
\* the URL the page is already on, the page is told nothing, and keeps the view it had written.
Visit(url, as) ==
    /\ visit' = [to |-> url, as |-> as]
    /\ outrun' = (outrun \/ (visit # NoVisit /\ url = query))

\* A See all link of a section, or a link into the page.
Follow(url) ==
    /\ Move
    /\ Visit(url, "push")
    /\ UNCHANGED <<filters, snapshot, written, query, entries, at>>

SeeAll(type) ==
    /\ Cardinality(Types(snapshot.show)) # 1
    /\ LET statuses == snapshot.show \cap Statuses IN
       Follow(Write(IF type = "event"
                    THEN [snapshot EXCEPT !.show = IF statuses = {} THEN Statuses ELSE statuses]
                    ELSE Scoped([snapshot EXCEPT !.show = {type}])))

\* Back and Forward: the browser is on the entry at once, the router brings its URL later.
Traverse(i) ==
    /\ i \in {at - 1, at + 1} \cap DOMAIN entries
    /\ Move
    /\ at' = i
    /\ Visit(entries[i], "traverse")
    /\ UNCHANGED <<filters, snapshot, written, query, entries>>

\* The page's own write is not read back as a move.
Taken(url) == url # query /\ Write(Read(url)) # written

Land ==
    /\ visit # NoVisit
    /\ visit' = NoVisit
    /\ query' = visit.to
    /\ \/ /\ visit.as = "push"
          /\ entries' = Append(SubSeq(entries, 1, at), visit.to)
          /\ at' = at + 1
       \/ /\ visit.as = "replace"
          /\ entries' = [entries EXCEPT ![at] = visit.to]
          /\ UNCHANGED at
       \/ /\ visit.as = "traverse"
          /\ UNCHANGED <<entries, at>>
    /\ IF Taken(visit.to)
       THEN /\ written' = Write(Read(visit.to))
            /\ filters' = Read(visit.to)
            /\ snapshot' = Read(visit.to)
       ELSE UNCHANGED <<written, filters, snapshot>>
    /\ UNCHANGED <<moves, outrun>>

FilterNext ==
    \/ Clear \/ Commit \/ Land
    \/ \E change \in Changes : Patch(change)
    \/ \E url \in LinksIn : Follow(url)
    \/ \E type \in {"event"} \cup Kinds : SeeAll(type)
    \/ \E i \in DOMAIN entries : Traverse(i)

FilterSpec == FilterInit /\ [][FilterNext]_filterVars
-----------------------------------------------------------------------------
FilterTypeOK ==
    /\ {filters, snapshot} \subseteq States
    /\ {written, query} \subseteq Urls
    /\ entries \in Seq(Urls)
    /\ at \in DOMAIN entries
    /\ visit # NoVisit => visit.to \in Urls /\ visit.as \in {"push", "replace", "traverse"}

\* Once the page is at rest its URL names the view on show, by what a reader of the shared link
\* would see, whatever the order of changes, links, Back and Forward, unless a write of the page
\* ever gave way to a visit of the URL it was on already (outrun: the router then tells the page
\* nothing, and the URL may stay behind); and no filter the panel hides ever narrows the list.
ViewIsItsUrl ==
    /\ (visit = NoVisit /\ ~outrun) => Write(Read(query)) = Write(snapshot)
    /\ \A d \in filters.on : d \in Offered(filters.show)
    /\ ~ShowsEvents(filters.show) => filters.guess = {} /\ ~filters.dated
=============================================================================
