----------------------------- MODULE CursorList -----------------------------
(***************************************************************************)
(* A list that grows page by page (hooks/useCursorList.ts), over a keyset  *)
(* the server pages newest first (services/pagination.py) while rows come  *)
(* and go.  A walk is one path read from its top: the path or the reload   *)
(* that starts another leaves the pages of the old one in flight.          *)
(***************************************************************************)
EXTENDS Integers, Sequences, FiniteSets

CONSTANTS
    Paths,       \* the lists a page may turn to
    MaxRow,      \* bound on the rows; a newer row has a greater key
    Matches,     \* path -> the rows it lists
    PageSize,
    MaxWalks,    \* bound on the walks explored
    NoPath,
    NoRequest

ASSUME CursorAssumption ==
    /\ MaxRow \in Nat /\ MaxWalks \in Nat
    /\ PageSize \in Nat \ {0}
    /\ \A p \in Paths : Matches[p] \subseteq 1 .. MaxRow
    /\ NoPath \notin Paths

VARIABLES
    rows,      \* the rows the server holds
    newest,    \* the key of the last row inserted
    walk,      \* the walk the hook is on
    result,    \* the hook's result state, which names the walk it answers
    first,     \* the first page in flight; an aborted one never lands, and is dropped
    more,      \* the loadMore in flight: loadingMore is TRUE until it ends, aborted or not
    begun      \* history: the rows listed when the first page was served

listVars == <<rows, newest, walk, result, first, more, begun>>

RowKeys == 1 .. MaxRow
NoCursor == 0

Listed(p) == rows \cap Matches[p]

\* The newest rows before the cursor, cut to a page; the Link names its last row when one is left.
Cut(p, cursor) ==
    LET left == {r \in Listed(p) : cursor = NoCursor \/ r < cursor}
        page == {r \in left : Cardinality({s \in left : s > r}) < PageSize}
    IN  [rows |-> page,
         next |-> IF page = left THEN NoCursor ELSE CHOOSE r \in page : \A s \in page : r <= s]

PageAsk(p, cursor) ==
    [walk |-> walk.number, path |-> p, cursor |-> cursor, aborted |-> FALSE, served |-> FALSE,
     page |-> [rows |-> {}, next |-> NoCursor]]

Fresh == result.walk = walk.number
ListLoading == walk.path # NoPath /\ ~Fresh

ListInit ==
    /\ rows = 1 .. 3 \cap RowKeys
    /\ newest = Cardinality(rows)
    /\ walk = [number |-> 0, path |-> NoPath]
    /\ result = [walk |-> -1, items |-> <<>>, cursor |-> NoCursor, error |-> FALSE]
    /\ first = NoRequest
    /\ more = NoRequest
    /\ begun = {}
-----------------------------------------------------------------------------
InsertRow ==
    /\ newest < MaxRow
    /\ newest' = newest + 1
    /\ rows' = rows \cup {newest'}
    /\ UNCHANGED <<walk, result, first, more, begun>>

RemoveRow(r) ==
    /\ r \in rows
    /\ rows' = rows \ {r}
    /\ UNCHANGED <<newest, walk, result, first, more, begun>>
-----------------------------------------------------------------------------
\* A new path, or the reload of this one: the cleanup aborts both requests, and the first page
\* of the new walk is asked for.
StartWalk(p) ==
    /\ walk.number < MaxWalks
    /\ walk' = [number |-> walk.number + 1, path |-> p]
    /\ more' = IF more = NoRequest THEN NoRequest ELSE [more EXCEPT !.aborted = TRUE]
    /\ first' = IF p = NoPath THEN NoRequest
                ELSE [PageAsk(p, NoCursor) EXCEPT !.walk = walk.number + 1]
    /\ UNCHANGED <<rows, newest, result, begun>>

ServeFirst ==
    /\ first # NoRequest
    /\ ~first.served
    /\ first' = [first EXCEPT !.served = TRUE, !.page = Cut(first.path, NoCursor)]
    /\ begun' = Listed(first.path)
    /\ UNCHANGED <<rows, newest, walk, result, more>>

Descending(S) ==
    CHOOSE s \in [1 .. Cardinality(S) -> S] : \A i, j \in DOMAIN s : i < j => s[i] > s[j]

LandFirst ==
    /\ first # NoRequest
    /\ \/ /\ first.served
          /\ result' = [walk |-> first.walk, items |-> Descending(first.page.rows),
                        cursor |-> first.page.next, error |-> FALSE]
       \/ result' = [walk |-> first.walk, items |-> <<>>, cursor |-> NoCursor, error |-> TRUE]
    /\ first' = NoRequest
    /\ UNCHANGED <<rows, newest, walk, more, begun>>
-----------------------------------------------------------------------------
\* The button, or the sentinel of an infinite list: one page at a time, from the cursor of the
\* current walk.
LoadMore ==
    /\ Fresh
    /\ result.cursor # NoCursor
    /\ walk.path # NoPath
    /\ more = NoRequest
    /\ more' = PageAsk(walk.path, result.cursor)
    /\ UNCHANGED <<rows, newest, walk, result, first, begun>>

ServeMore ==
    /\ more # NoRequest
    /\ ~more.served
    /\ more' = [more EXCEPT !.served = TRUE, !.page = Cut(more.path, more.cursor)]
    /\ UNCHANGED <<rows, newest, walk, result, first, begun>>

\* Mutant of Appends: a page appends to whatever the list shows.
AppendsAnyWalk(m) == m.aborted \in BOOLEAN

\* Neither an aborted page nor one of another walk reaches the rows.
Appends(m) == ~m.aborted /\ result.walk = m.walk

\* The flag clears in every case: a page aborted by a new walk holds that walk's loadMore until
\* it ends.  A failed page keeps the rows and the cursor.
LandMore ==
    /\ more # NoRequest
    /\ \/ /\ more.served
          /\ Appends(more)
          /\ result' = [result EXCEPT !.items = @ \o Descending(more.page.rows),
                                      !.cursor = more.page.next, !.error = FALSE]
       \/ /\ Appends(more)
          /\ result' = [result EXCEPT !.error = TRUE]
       \/ /\ ~Appends(more)
          /\ UNCHANGED result
    /\ more' = NoRequest
    /\ UNCHANGED <<rows, newest, walk, first, begun>>

ListNext ==
    \/ InsertRow
    \/ \E r \in RowKeys : RemoveRow(r)
    \/ \E p \in Paths \cup {NoPath} : StartWalk(p)
    \/ ServeFirst \/ LandFirst \/ LoadMore \/ ServeMore \/ LandMore

ListSpec == ListInit /\ [][ListNext]_listVars
-----------------------------------------------------------------------------
RowPages == [rows : SUBSET RowKeys, next : RowKeys \cup {NoCursor}]
PageRequests == [walk : 0 .. MaxWalks, path : Paths, cursor : RowKeys \cup {NoCursor},
             aborted : BOOLEAN, served : BOOLEAN, page : RowPages]

ListTypeOK ==
    /\ rows \subseteq 1 .. newest
    /\ newest \in 0 .. MaxRow
    /\ walk \in [number : 0 .. MaxWalks, path : Paths \cup {NoPath}]
    /\ result.walk \in -1 .. walk.number
    /\ result.items \in Seq(RowKeys)
    /\ {first, more} \subseteq PageRequests \cup {NoRequest}
    /\ begun \subseteq RowKeys

\* What the list shows is one walk of one path, whatever answers late and whatever is inserted or
\* removed meanwhile: its rows in order, none twice, and of those it began with none skipped down
\* to its cursor (the contract of services/pagination.py and the generation of useCursorList).
WalkIsWhole ==
    (walk.path # NoPath /\ Fresh) =>
        LET shown == result.items IN
        /\ \A i, j \in DOMAIN shown : i < j => shown[i] > shown[j]
        /\ \A i \in DOMAIN shown : shown[i] \in Matches[walk.path]
        /\ (shown # <<>> \/ ~result.error) =>
              \A r \in begun \cap rows :
                 r >= result.cursor => \E i \in DOMAIN shown : shown[i] = r

\* A list stops loading once its reader rests.
ListSettles == ListLoading ~> ~ListLoading
=============================================================================
