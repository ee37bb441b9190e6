----------------------------- MODULE SearchPage -----------------------------
(***************************************************************************)
(* The search page (app/search/page.tsx) and the selection on its rows     *)
(* (components/collections/SearchSelection.tsx).  The reader types, a      *)
(* timer commits, each commit asks; the rows of the last answer stay on    *)
(* show, and stay live, until the next one lands.                          *)
(***************************************************************************)
EXTENDS Integers, Sequences, FiniteSets

CONSTANTS
    Searches,     \* the views a reader may name: a query with its filters
    Nowhere,      \* the view with neither, which searches nothing
    InList,       \* the searches of one kind, whose list is paged
    LastPage,     \* a search of InList -> its number of pages
    MaxAsks,      \* bound on the searches explored
    NoResults,
    NoMore

ASSUME SearchAssumption ==
    /\ Nowhere \notin Searches
    /\ InList \subseteq Searches
    /\ \A q \in InList : LastPage[q] \in Nat \ {0}
    /\ MaxAsks \in Nat
    /\ NoResults \notin [request : Searches, pages : Seq([of : Searches, at : Nat]), cursor : Nat]

VARIABLES
    input,       \* queryInput and filters, which the fields are bound to
    committed,   \* the debounced snapshot
    latest,      \* latestRequestId
    asked,       \* the searches in flight, each with its request id
    results,     \* the results state: a request, and the pages shown
    searchLoading,
    failed,      \* the error of the last search
    furtherPage, \* the loadMore in flight
    selection    \* the match the selection is keyed on, and the rows picked

searchVars == <<input, committed, latest, asked, results, searchLoading, failed, furtherPage,
                selection>>

Views == Searches \cup {Nowhere}

\* A page stands for its rows: whose search found it, and where in that search's ranking.
PageOf(q, n) == [of |-> q, at |-> n]
NoCursorLeft == 0
NextCursor(q, n) == IF q \in InList /\ n < LastPage[q] THEN n ELSE NoCursorLeft

\* The hits a selection may pick from: a list of one kind, never the sections.
Hits == IF results = NoResults \/ results.request \notin InList THEN {}
        ELSE {results.pages[i] : i \in DOMAIN results.pages}
Picked == IF selection.key = committed THEN selection.picked ELSE {}

SearchInit ==
    /\ input = Nowhere
    /\ committed = Nowhere
    /\ latest = 0
    /\ asked = {}
    /\ results = NoResults
    /\ searchLoading = FALSE
    /\ failed = FALSE
    /\ furtherPage = NoMore
    /\ selection = [key |-> Nowhere, picked |-> {}]
-----------------------------------------------------------------------------
Type(q) ==
    /\ input # q
    /\ input' = q
    /\ UNCHANGED <<committed, latest, asked, results, searchLoading, failed, furtherPage, selection>>

\* The effect of a new snapshot.  A view that searches nothing clears the page at once.
StartSearch(q) ==
    /\ latest < MaxAsks
    /\ latest' = latest + 1
    /\ failed' = FALSE
    /\ IF q = Nowhere
       THEN /\ results' = NoResults
            /\ searchLoading' = FALSE
            /\ UNCHANGED asked
       ELSE /\ asked' = asked \cup {[id |-> latest', request |-> q]}
            /\ searchLoading' = TRUE
            /\ UNCHANGED results

\* The debounce timer fires: an unchanged snapshot keeps its identity and asks nothing.
CommitInput ==
    /\ input # committed
    /\ committed' = input
    /\ StartSearch(input)
    /\ UNCHANGED <<input, furtherPage, selection>>

\* Back, Forward, a See all link or a respelling: the view is taken at once.
MoveTo(q) ==
    /\ q # committed
    /\ input' = q
    /\ committed' = q
    /\ StartSearch(q)
    /\ UNCHANGED <<furtherPage, selection>>

\* The notice of a failed search runs it again.
RetrySearch ==
    /\ failed
    /\ StartSearch(committed)
    /\ UNCHANGED <<input, committed, furtherPage, selection>>

\* Mutant of Latest: answers apply in the order they come.
LatestOrNot(a) == a.id <= latest

\* A late answer applies only while no newer search was asked.
Latest(a) == a.id = latest

LandSearch(a) ==
    /\ a \in asked
    /\ asked' = asked \ {a}
    /\ \/ /\ Latest(a)
          /\ results' = [request |-> a.request, pages |-> <<PageOf(a.request, 1)>>,
                         cursor |-> NextCursor(a.request, 1)]
          /\ searchLoading' = FALSE
          /\ UNCHANGED failed
       \/ /\ Latest(a)
          /\ failed' = TRUE
          /\ searchLoading' = FALSE
          /\ UNCHANGED results
       \/ /\ ~Latest(a)
          /\ UNCHANGED <<results, searchLoading, failed>>
    /\ UNCHANGED <<input, committed, latest, furtherPage, selection>>
-----------------------------------------------------------------------------
\* Show more, under the rows on show, which may be those of a search already left.
ShowMore ==
    /\ input # Nowhere
    /\ results # NoResults
    /\ results.cursor # NoCursorLeft
    /\ furtherPage = NoMore
    /\ furtherPage' = [id |-> latest, request |-> results.request, cursor |-> results.cursor]
    /\ UNCHANGED <<input, committed, latest, asked, results, searchLoading, failed, selection>>

\* The page lands on whatever list is on show.  The cursor it carries goes with the request of the
\* list next time.
LandFurther ==
    /\ furtherPage # NoMore
    /\ furtherPage' = NoMore
    /\ LET at == furtherPage.cursor + 1
           page == PageOf(furtherPage.request, at)
       IN  \/ /\ Latest(furtherPage)
              /\ results # NoResults /\ results.request \in InList
              /\ results' = [results EXCEPT !.pages = Append(@, page),
                                            !.cursor = NextCursor(furtherPage.request, at)]
           \/ UNCHANGED results
    /\ UNCHANGED <<input, committed, latest, asked, searchLoading, failed, selection>>
-----------------------------------------------------------------------------
\* toggle, on any row on show; the selection belongs to the committed match.
Toggle(page) ==
    /\ input # Nowhere
    /\ page \in Hits
    /\ selection' = [key |-> committed,
                     picked |-> IF page \in Picked THEN Picked \ {page} ELSE Picked \cup {page}]
    /\ UNCHANGED <<input, committed, latest, asked, results, searchLoading, failed, furtherPage>>

ClearSelection ==
    /\ Picked # {}
    /\ selection' = [key |-> committed, picked |-> {}]
    /\ UNCHANGED <<input, committed, latest, asked, results, searchLoading, failed, furtherPage>>

SearchNext ==
    \/ \E q \in Views : Type(q) \/ MoveTo(q)
    \/ CommitInput \/ RetrySearch \/ ShowMore \/ LandFurther \/ ClearSelection
    \/ \E a \in asked : LandSearch(a)
    \/ \E page \in Hits : Toggle(page)

SearchSpec == SearchInit /\ [][SearchNext]_searchVars
-----------------------------------------------------------------------------
SearchTypeOK ==
    LET Found == [of : Searches, at : Nat \ {0}] IN
    /\ {input, committed} \subseteq Views
    /\ latest \in 0 .. MaxAsks
    /\ asked \subseteq [id : 1 .. MaxAsks, request : Searches]
    /\ results # NoResults => /\ results.request \in Searches
                              /\ results.pages \in Seq(Found)
    /\ {searchLoading, failed} \subseteq BOOLEAN
    /\ selection.key \in Views /\ selection.picked \subseteq Found

\* Once a page has stopped loading without an error, what it shows answers the view its URL names,
\* in whatever order the answers came.
RestingPageAnswers ==
    (~searchLoading /\ ~failed) =>
        IF committed = Nowhere THEN results = NoResults
        ELSE results # NoResults /\ results.request = committed

\* app/search/page.tsx: "A page that lands after a new search started is dropped".
ListIsOneSearch ==
    results # NoResults =>
        \A i \in DOMAIN results.pages : results.pages[i].of = results.request
=============================================================================
