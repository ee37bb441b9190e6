------------------------- MODULE BrowsePages_proofs -------------------------
(***************************************************************************)
(* The pages that show the archive, for any number of rows, searches,      *)
(* moves and filters, and in whatever order their answers come: what a     *)
(* page shows is what its address, its path or its camera asks for.        *)
(***************************************************************************)
EXTENDS CursorList, SearchPage, MapPoints, FilterUrl, FiniteSetTheorems, FunctionTheorems,
        SequenceTheorems, TLAPS

-----------------------------------------------------------------------------
(***************************************************************************)
(* The lists that grow page by page.                                       *)
(***************************************************************************)

\* The rank of a row is the number of rows above it.
Above(S, r) == {t \in S : t > r}
Rank(S, r) == Cardinality(Above(S, r))

\* The ranks of n rows are 0 .. n - 1, the newest first.
LEMMA Ranks ==
  ASSUME NEW S \in SUBSET Nat, IsFiniteSet(S)
  PROVE  /\ Cardinality(S) \in Nat
         /\ \A r \in S : Rank(S, r) \in 0 .. Cardinality(S) - 1
         /\ \A r, s \in S : r < s => Rank(S, s) < Rank(S, r)
         /\ \A k \in 0 .. Cardinality(S) - 1 : \E r \in S : Rank(S, r) = k
  <1> DEFINE n == Cardinality(S)
  <1>0. \A t \in S : t \in Nat
    OBVIOUS
  <1>1. n \in Nat
    BY FS_CardinalityType
  <1>2. \A r \in S : Rank(S, r) \in 0 .. n - 1
    <2> TAKE r \in S
    <2>1. IsFiniteSet(S \ {r}) /\ Cardinality(S \ {r}) = n - 1
      BY FS_RemoveElement
    <2>2. Above(S, r) \in SUBSET (S \ {r})
      BY DEF Above
    <2>3. IsFiniteSet(Above(S, r)) /\ Cardinality(Above(S, r)) <= n - 1
      BY <2>1, <2>2, FS_Subset
    <2> QED
      BY <1>1, <2>3, FS_CardinalityType DEF Rank
  <1>3. \A r, s \in S : r < s => Rank(S, s) < Rank(S, r)
    <2> TAKE r, s \in S
    <2> HAVE r < s
    <2>1. /\ Above(S, s) \in SUBSET Above(S, r) /\ s \in Above(S, r) /\ s \notin Above(S, s)
          /\ Above(S, r) \in SUBSET S
      <3>1. \A t \in S : t > s => t > r
        BY <1>0
      <3>2. ~(s > s)
        BY <1>0
      <3> QED
        BY <3>1, <3>2 DEF Above
    <2>2. IsFiniteSet(Above(S, r))
      BY <2>1, FS_Subset
    <2>3. Rank(S, s) <= Rank(S, r) /\ Rank(S, s) # Rank(S, r)
      BY <2>1, <2>2, FS_Subset DEF Rank
    <2> QED
      BY <1>1, <1>2, <2>3
  <1> DEFINE rank == [r \in S |-> Rank(S, r)]
  <1>4. rank \in [S -> 0 .. n - 1]
    BY <1>2
  <1>5. \A a, b \in S : rank[a] = rank[b] => a = b
    <2> TAKE a, b \in S
    <2> HAVE rank[a] = rank[b]
    <2>1. ~(a < b) /\ ~(b < a)
      BY <1>1, <1>2, <1>3
    <2> QED
      BY <1>0, <2>1
  <1>6. rank \in Injection(S, 0 .. n - 1)
    BY <1>4, <1>5, Fun_IsInj
  <1>7. IsFiniteSet(0 .. n - 1) /\ Cardinality(0 .. n - 1) = n
    <2> HIDE DEF n
    <2>1. /\ IsFiniteSet(0 .. n - 1)
          /\ Cardinality(0 .. n - 1) = IF 0 > n - 1 THEN 0 ELSE (n - 1) - 0 + 1
      BY <1>1, FS_Interval
    <2> QED
      BY <1>1, <2>1
  <1>8. rank \in Surjection(S, 0 .. n - 1)
    BY <1>6, <1>7, FS_Injection
  <1>9. \A k \in 0 .. n - 1 : \E r \in S : rank[r] = k
    BY <1>8 DEF Surjection
  <1> QED
    BY <1>1, <1>2, <1>3, <1>9

\* The rows of a page in order, each of them once.
LEMMA DescendingIs ==
  ASSUME NEW S \in SUBSET Nat, IsFiniteSet(S)
  PROVE  /\ Descending(S) \in [1 .. Cardinality(S) -> S] /\ Cardinality(S) \in Nat
         /\ \A i, j \in 1 .. Cardinality(S) : i < j => Descending(S)[i] > Descending(S)[j]
         /\ \A r \in S : \E i \in 1 .. Cardinality(S) : Descending(S)[i] = r
  <1> DEFINE n == Cardinality(S)
             ordered(s) == \A i, j \in DOMAIN s : i < j => s[i] > s[j]
             ranked(i) == CHOOSE r \in S : Rank(S, r) = i - 1
             list == [i \in 1 .. n |-> ranked(i)]
  <1>0. \A t \in S : t \in Nat
    OBVIOUS
  <1>1. n \in Nat
    BY Ranks
  <1>2. \A i \in 1 .. n : ranked(i) \in S /\ Rank(S, ranked(i)) = i - 1
    <2> TAKE i \in 1 .. n
    <2>1. i - 1 \in 0 .. n - 1
      BY <1>1
    <2>2. \E r \in S : Rank(S, r) = i - 1
      BY <2>1, Ranks
    <2> QED
      BY <2>2
  <1>3. list \in [1 .. n -> S]
    BY <1>2
  <1>4. ordered(list)
    <2> SUFFICES ASSUME NEW i \in 1 .. n, NEW j \in 1 .. n, i < j
                 PROVE  ranked(i) > ranked(j)
      OBVIOUS
    <2>1. ranked(i) \in S /\ ranked(j) \in S /\ Rank(S, ranked(i)) < Rank(S, ranked(j))
      <3>1. i - 1 < j - 1
        BY <1>1
      <3> HIDE DEF ranked
      <3> QED
        BY <1>2, <3>1
    <2> HIDE DEF ranked
    <2>2. PICK r \in S, s \in S : r = ranked(i) /\ s = ranked(j)
      BY <2>1
    <2>3. Rank(S, r) < Rank(S, s) /\ Rank(S, r) \in Nat /\ Rank(S, s) \in Nat
      BY <1>1, <2>1, <2>2, Ranks
    <2>4. ~(r < s) /\ r # s
      BY <2>3, Ranks
    <2> QED
      BY <1>0, <2>2, <2>4
  <1>5. Descending(S) = CHOOSE s \in [1 .. n -> S] : ordered(s)
    BY DEF Descending
  <1> HIDE DEF list
  <1>6. Descending(S) \in [1 .. n -> S] /\ ordered(Descending(S))
    BY <1>3, <1>4, <1>5
  <1> DEFINE d == Descending(S)
  <1> HIDE DEF d
  <1>7. d \in [1 .. n -> S] /\ \A i, j \in 1 .. n : i < j => d[i] > d[j]
    BY <1>6 DEF d
  <1>8. \A a, b \in 1 .. n : d[a] = d[b] => a = b
    <2> TAKE a, b \in 1 .. n
    <2> HAVE d[a] = d[b]
    <2>1. d[a] \in Nat /\ d[b] \in Nat /\ a \in Nat /\ b \in Nat
      <3>1. d[a] \in S /\ d[b] \in S
        BY <1>7
      <3>2. a \in Nat /\ b \in Nat
        BY <1>1
      <3> QED
        BY <1>0, <3>1, <3>2
    <2>2. ~(a < b) /\ ~(b < a)
      BY <1>7, <2>1
    <2> QED
      BY <2>1, <2>2
  <1>9. d \in Injection(1 .. n, S)
    BY <1>7, <1>8, Fun_IsInj
  <1>10. Cardinality(1 .. n) = n
    BY <1>1, FS_Interval
  <1>11. d \in Surjection(1 .. n, S)
    BY <1>9, <1>10, FS_Injection
  <1>12. \A r \in S : \E i \in 1 .. n : d[i] = r
    BY <1>11 DEF Surjection
  <1> QED
    BY <1>1, <1>7, <1>12 DEF d

\* A page that has rows has a last one.
LEMMA LastExists ==
  ASSUME NEW S \in SUBSET Nat, IsFiniteSet(S), S # {}
  PROVE  \E r \in S : \A s \in S : r <= s
  <1>1. Cardinality(S) \in Nat /\ Cardinality(S) # 0
    BY FS_EmptySet, FS_CardinalityType
  <1>2. PICK r \in S : Rank(S, r) = Cardinality(S) - 1
    <2>1. Cardinality(S) - 1 \in 0 .. Cardinality(S) - 1
      BY <1>1
    <2> QED
      BY <2>1, Ranks
  <1>3. \A s \in S : ~(s < r)
    BY <1>1, <1>2, Ranks
  <1> QED
    BY <1>2, <1>3

-----------------------------------------------------------------------------
Left(p, cursor) == {r \in Listed(p) : cursor = NoCursor \/ r < cursor}

\* A page is the newest rows before its cursor, down to the row its own cursor names: none of
\* those listed is skipped.
LEMMA CutIs ==
  ASSUME NEW p, NEW cursor, rows \subseteq RowKeys
  PROVE  /\ Cut(p, cursor).rows \subseteq Left(p, cursor)
         /\ Cut(p, cursor).next \in RowKeys \cup {NoCursor}
         /\ Cut(p, cursor).next # NoCursor =>
               /\ Cut(p, cursor).next \in Cut(p, cursor).rows
               /\ \A s \in Cut(p, cursor).rows : Cut(p, cursor).next <= s
         /\ \A r \in Left(p, cursor) : r >= Cut(p, cursor).next => r \in Cut(p, cursor).rows
  <1> DEFINE left == Left(p, cursor)
             page == {r \in left : Rank(left, r) < PageSize}
             last == CHOOSE r \in page : \A s \in page : r <= s
  <1>1. left \in SUBSET RowKeys /\ left \in SUBSET Nat /\ IsFiniteSet(left)
    <2>1. left \in SUBSET RowKeys
      BY DEF Left, Listed
    <2>2. IsFiniteSet(RowKeys) /\ RowKeys \subseteq Nat
      BY CursorAssumption, FS_Interval DEF RowKeys
    <2> QED
      BY <2>1, <2>2, FS_Subset
  <1>2. Cut(p, cursor) = [rows |-> page, next |-> IF page = left THEN NoCursor ELSE last]
    BY DEF Cut, Left, Rank, Above
  <1>3. CASE page = left
    BY <1>1, <1>2, <1>3
  <1>4. CASE page # left
    <2>1. left # {}
      BY <1>4
    <2>2. PICK top \in left : Rank(left, top) = 0
      <3>1. Cardinality(left) \in Nat /\ Cardinality(left) # 0
        BY <1>1, <2>1, FS_EmptySet, FS_CardinalityType
      <3>2. 0 \in 0 .. Cardinality(left) - 1
        BY <3>1
      <3> QED
        BY <1>1, <3>2, Ranks
    <2>3. top \in page
      BY <2>2, CursorAssumption
    <2>4. page \in SUBSET Nat /\ IsFiniteSet(page)
      BY <1>1, FS_Subset
    <2>5. last \in page /\ \A s \in page : last <= s
      BY <2>3, <2>4, LastExists
    <2>6. ASSUME NEW r \in left, r >= last
          PROVE  r \in page
      <3>1. Rank(left, r) <= Rank(left, last) /\ Rank(left, r) \in Nat /\ Rank(left, last) \in Nat
        <4>1. last \in left
          BY <2>5
        <4> HIDE DEF last, page
        <4>2. last < r \/ last = r
          BY <1>1, <2>6, <4>1
        <4> QED
          BY <1>1, <2>6, <4>1, <4>2, Ranks
      <3>2. Rank(left, last) < PageSize
        BY <2>5
      <3> HIDE DEF last
      <3> QED
        BY <3>1, <3>2, <2>6, CursorAssumption
    <2> HIDE DEF last
    <2>7. Cut(p, cursor).rows = page /\ Cut(p, cursor).next = last
      BY <1>2, <1>4
    <2>8. page \subseteq left /\ last \in RowKeys
      BY <1>1, <2>5
    <2> HIDE DEF page, left
    <2> QED
      BY <2>5, <2>6, <2>7, <2>8 DEF left
  <1> QED
    BY <1>3, <1>4

-----------------------------------------------------------------------------
\* A page served under a cursor, and what it holds of the rows its walk began with.
PageHolds(path, cursor, page) ==
    /\ page.rows \subseteq RowKeys \cap Matches[path]
    /\ cursor # NoCursor => \A r \in page.rows : r < cursor
    /\ page.next # NoCursor => page.next \in page.rows /\ \A r \in page.rows : page.next <= r
    /\ \A r \in begun \cap rows :
          (cursor = NoCursor \/ r < cursor) /\ r >= page.next => r \in page.rows

\* The first page in flight is of the walk the hook is on, which no result answers yet.
FirstIsOfTheWalk ==
    first # NoRequest =>
        /\ first.walk = walk.number /\ first.path = walk.path /\ walk.path # NoPath
        /\ result.walk # walk.number
        /\ first.served => /\ begun \subseteq Matches[first.path]
                           /\ PageHolds(first.path, NoCursor, first.page)

\* A further page not aborted is of the walk on show, asked for under its cursor.
MoreIsOfTheWalk ==
    (more # NoRequest /\ ~more.aborted) =>
        /\ more.walk = walk.number /\ more.path = walk.path /\ walk.path # NoPath
        /\ Fresh
        /\ more.cursor = result.cursor /\ result.cursor # NoCursor
        /\ more.served => PageHolds(more.path, more.cursor, more.page)

\* The list reaches down to its cursor; one that has a cursor shows ranked least its row.
ListReachesCursor ==
    (walk.path # NoPath /\ Fresh /\ result.cursor # NoCursor) =>
        /\ begun \subseteq Matches[walk.path]
        /\ result.items # <<>>
        /\ \A i \in DOMAIN result.items : result.items[i] >= result.cursor

ResultTyped == result \in [walk : Int, items : Seq(RowKeys), cursor : RowKeys \cup {NoCursor},
                           error : BOOLEAN]

\* The inductive invariant.
ListInv ==
    /\ ListTypeOK /\ ResultTyped
    /\ begun \subseteq 1 .. newest
    /\ FirstIsOfTheWalk /\ MoreIsOfTheWalk
    /\ ListReachesCursor
    /\ WalkIsWhole
-----------------------------------------------------------------------------
\* What the invariant says of a list, piece by piece.
LEMMA ListPieces ==
  ASSUME ListInv
  PROVE  /\ rows \subseteq 1 .. newest /\ newest \in 0 .. MaxRow /\ newest \in Nat
         /\ rows \subseteq RowKeys /\ MaxRow \in Nat /\ MaxWalks \in Nat
         /\ walk \in [number : 0 .. MaxWalks, path : Paths \cup {NoPath}]
         /\ walk.number \in 0 .. MaxWalks /\ walk.path \in Paths \cup {NoPath}
         /\ ResultTyped /\ result.walk \in -1 .. walk.number
         /\ result.items \in Seq(RowKeys) /\ result.cursor \in RowKeys \cup {NoCursor}
         /\ first # NoRequest => first \in PageRequests
         /\ more # NoRequest => more \in PageRequests
         /\ begun \subseteq RowKeys /\ begun \subseteq 1 .. newest
         /\ FirstIsOfTheWalk /\ MoreIsOfTheWalk /\ ListReachesCursor /\ WalkIsWhole
  BY CursorAssumption DEF ListInv, ListTypeOK, ResultTyped, RowKeys

LEMMA InitList == ListInit => ListInv
  <1> SUFFICES ASSUME ListInit
               PROVE  ListInv
    OBVIOUS
  <1>1. PICK k \in 0 .. MaxRow : rows = 1 .. k
    <2>1. CASE MaxRow < 3
      BY <2>1, CursorAssumption DEF ListInit, RowKeys
    <2>2. CASE MaxRow >= 3
      BY <2>2, CursorAssumption DEF ListInit, RowKeys
    <2> QED
      BY <2>1, <2>2, CursorAssumption
  <1>2. newest = k
    <2>1. newest = Cardinality(rows)
      BY DEF ListInit
    <2>2. k \in Int /\ newest = Cardinality(1 .. k)
      BY <1>1, <2>1, CursorAssumption
    <2>3. Cardinality(1 .. k) = IF 1 > k THEN 0 ELSE k - 1 + 1
      BY <2>2, FS_Interval
    <2> QED
      BY <2>2, <2>3, CursorAssumption
  <1>3. ListTypeOK /\ ResultTyped
    BY <1>1, <1>2, CursorAssumption DEF ListInit, ListTypeOK, ResultTyped, NoCursor
  <1>4. /\ walk.path = NoPath /\ first = NoRequest /\ more = NoRequest /\ begun = {}
    BY DEF ListInit
  <1> QED
    BY <1>3, <1>4 DEF ListInv, FirstIsOfTheWalk, MoreIsOfTheWalk, ListReachesCursor, WalkIsWhole

\* The rows the walk began with only go: what a page holds of them it goes on holding.
LEMMA RowsKeep ==
  ASSUME ListInv, begun' = begun, UNCHANGED <<walk, result, first, more>>,
         begun' \cap rows' \subseteq begun \cap rows,
         rows' \subseteq 1 .. newest', newest' \in 0 .. MaxRow, newest <= newest'
  PROVE  ListInv'
  <1>1. ListTypeOK' /\ ResultTyped'
    BY ListPieces DEF ListInv, ListTypeOK, ResultTyped
  <1>2. begun' \subseteq 1 .. newest'
    BY ListPieces
  <1>3. ASSUME NEW path, NEW cursor, NEW page, PageHolds(path, cursor, page)
        PROVE  PageHolds(path, cursor, page)'
    BY <1>3 DEF PageHolds
  <1>4. FirstIsOfTheWalk'
    <2> SUFFICES ASSUME first # NoRequest
                 PROVE  FirstIsOfTheWalk'
      BY DEF FirstIsOfTheWalk
    <2>1. PICK path, page : path = first.path /\ page = first.page
      OBVIOUS
    <2>2. PageHolds(path, NoCursor, page) => PageHolds(path, NoCursor, page)'
      BY <1>3
    <2> QED
      BY <2>1, <2>2, ListPieces DEF FirstIsOfTheWalk, PageHolds
  <1>5. MoreIsOfTheWalk'
    <2>1. PICK path, cursor, page : path = more.path /\ cursor = more.cursor /\ page = more.page
      OBVIOUS
    <2>2. PageHolds(path, cursor, page) => PageHolds(path, cursor, page)'
      BY <1>3
    <2> QED
      BY <2>1, <2>2, ListPieces DEF MoreIsOfTheWalk, PageHolds, Fresh
  <1>6. ListReachesCursor' /\ WalkIsWhole'
    BY ListPieces DEF ListReachesCursor, WalkIsWhole, Fresh
  <1> QED
    BY <1>1, <1>2, <1>4, <1>5, <1>6 DEF ListInv

\* A row inserted or removed on the server leaves what is shown as it is.
LEMMA ServerRowsKeep ==
  ASSUME ListInv, InsertRow \/ \E r \in RowKeys : RemoveRow(r)
  PROVE  ListInv'
  <1>1. CASE InsertRow
    <2>1. newest' = newest + 1 /\ newest < MaxRow /\ rows' = rows \cup {newest'}
          /\ UNCHANGED <<walk, result, first, more, begun>>
      BY <1>1 DEF InsertRow
    <2>2. newest' \notin begun
      BY <2>1, ListPieces
    <2> QED
      BY <2>1, <2>2, ListPieces, RowsKeep
  <1>2. CASE \E r \in RowKeys : RemoveRow(r)
    BY <1>2, ListPieces, RowsKeep DEF RemoveRow
  <1> QED
    BY <1>1, <1>2

\* A new walk aborts the page of the old one, and no result answers it yet.
LEMMA StartWalkKeeps ==
  ASSUME ListInv, NEW p \in Paths \cup {NoPath}, StartWalk(p)
  PROVE  ListInv'
  <1>1. /\ UNCHANGED <<rows, newest, result, begun>>
        /\ walk' = [number |-> walk.number + 1, path |-> p] /\ walk.number < MaxWalks
        /\ more' = IF more = NoRequest THEN NoRequest ELSE [more EXCEPT !.aborted = TRUE]
        /\ first' = IF p = NoPath THEN NoRequest
                    ELSE [PageAsk(p, NoCursor) EXCEPT !.walk = walk.number + 1]
    BY DEF StartWalk
  <1>2. /\ walk' \in [number : 0 .. MaxWalks, path : Paths \cup {NoPath}]
        /\ walk'.number = walk.number + 1 /\ walk'.path = p
        /\ result.walk \in Int /\ result.walk < walk'.number /\ result.walk \in -1 .. walk'.number
    BY <1>1, ListPieces
  <1>3. first' # NoRequest =>
           /\ p \in Paths /\ first' \in PageRequests /\ first'.walk = walk'.number
           /\ first'.path = p /\ ~first'.served
    BY <1>1, <1>2 DEF PageAsk, PageRequests, RowPages, NoCursor
  <1>4. more' # NoRequest => more' \in PageRequests /\ more'.aborted
    BY <1>1, ListPieces DEF PageRequests
  <1>5. ListTypeOK' /\ ResultTyped'
    BY <1>1, <1>2, <1>3, <1>4, ListPieces DEF ListTypeOK, ResultTyped
  <1>6. ~Fresh'
    BY <1>1, <1>2 DEF Fresh
  <1>7. FirstIsOfTheWalk' /\ MoreIsOfTheWalk' /\ ListReachesCursor' /\ WalkIsWhole'
    BY <1>1, <1>2, <1>3, <1>4, <1>6, CursorAssumption
       DEF FirstIsOfTheWalk, MoreIsOfTheWalk, ListReachesCursor, WalkIsWhole, Fresh
  <1>8. begun' \subseteq 1 .. newest'
    BY <1>1, ListPieces
  <1> QED
    BY <1>5, <1>7, <1>8 DEF ListInv

\* The server reads a page: what it holds is what is listed then.
LEMMA CutHolds ==
  ASSUME ListInv, NEW p \in Paths, NEW cursor \in RowKeys \cup {NoCursor}
  PROVE  /\ Cut(p, cursor) \in RowPages
         /\ Cut(p, cursor).rows \subseteq RowKeys \cap Matches[p]
         /\ cursor # NoCursor => \A r \in Cut(p, cursor).rows : r < cursor
         /\ Cut(p, cursor).next # NoCursor =>
               /\ Cut(p, cursor).next \in Cut(p, cursor).rows
               /\ \A s \in Cut(p, cursor).rows : Cut(p, cursor).next <= s
         /\ \A r \in rows \cap Matches[p] :
               (cursor = NoCursor \/ r < cursor) /\ r >= Cut(p, cursor).next
                   => r \in Cut(p, cursor).rows
  <1>1. Left(p, cursor) \subseteq RowKeys \cap Matches[p]
        /\ \A r \in Left(p, cursor) : cursor = NoCursor \/ r < cursor
    BY ListPieces DEF Left, Listed
  <1>2. \A r \in rows \cap Matches[p] : (cursor = NoCursor \/ r < cursor) => r \in Left(p, cursor)
    BY DEF Left, Listed
  <1>3. DOMAIN Cut(p, cursor) = {"rows", "next"}
        /\ Cut(p, cursor) = [rows |-> Cut(p, cursor).rows, next |-> Cut(p, cursor).next]
    BY DEF Cut
  <1>4. Cut(p, cursor) \in RowPages
    BY <1>1, <1>3, CutIs, ListPieces DEF RowPages
  <1> QED
    BY <1>1, <1>2, <1>4, CutIs, ListPieces

LEMMA ServeFirstKeeps ==
  ASSUME ListInv, ServeFirst
  PROVE  ListInv'
  <1>1. /\ first # NoRequest /\ UNCHANGED <<rows, newest, walk, result, more>>
        /\ begun' = Listed(first.path)
        /\ first' = [first EXCEPT !.served = TRUE, !.page = Cut(first.path, NoCursor)]
    BY DEF ServeFirst
  <1>2. /\ first \in PageRequests /\ first.path \in Paths
        /\ first.walk = walk.number /\ first.path = walk.path /\ walk.path # NoPath
        /\ result.walk # walk.number /\ ~Fresh
    BY <1>1, ListPieces DEF FirstIsOfTheWalk, PageRequests, Fresh
  <1> DEFINE page == Cut(first.path, NoCursor)
  <1>3. page \in RowPages
    BY <1>2, CutHolds
  <1> HIDE DEF page
  <1>4. /\ first' \in PageRequests /\ first'.walk = first.walk /\ first'.path = first.path
        /\ first'.served /\ first'.page = page
    BY <1>1, <1>2, <1>3 DEF PageRequests, page
  <1>5. begun' \subseteq rows /\ begun' \subseteq Matches[first.path]
    BY <1>1 DEF Listed
  <1>6. ListTypeOK' /\ ResultTyped' /\ begun' \subseteq 1 .. newest'
    BY <1>1, <1>4, <1>5, ListPieces DEF ListTypeOK, ResultTyped
  <1>7. \A r \in begun' \cap rows' : r >= page.next => r \in page.rows
    <2>1. \A r \in rows \cap Matches[first.path] : r >= page.next => r \in page.rows
      BY <1>2, CutHolds DEF page
    <2> QED
      BY <1>1, <1>5, <2>1
  <1>8. FirstIsOfTheWalk'
    <2>1. /\ page.rows \subseteq RowKeys \cap Matches[first.path]
          /\ page.next # NoCursor =>
                page.next \in page.rows /\ \A r \in page.rows : page.next <= r
      BY <1>2, CutHolds DEF page
    <2>2. PageHolds(first.path, NoCursor, first.page)'
      BY <1>4, <1>7, <2>1 DEF PageHolds
    <2> QED
      BY <1>1, <1>2, <1>4, <1>5, <2>2 DEF FirstIsOfTheWalk
  <1>9. ~Fresh' /\ (more' # NoRequest => more'.aborted)
    BY <1>1, <1>2, ListPieces DEF Fresh, MoreIsOfTheWalk, PageRequests
  <1>10. MoreIsOfTheWalk' /\ ListReachesCursor' /\ WalkIsWhole'
    BY <1>9 DEF MoreIsOfTheWalk, ListReachesCursor, WalkIsWhole
  <1> QED
    BY <1>6, <1>8, <1>10 DEF ListInv

\* A page in order, as its walk shows it.
LEMMA PageInOrder ==
  ASSUME NEW S \in SUBSET RowKeys
  PROVE  /\ Descending(S) \in Seq(RowKeys) /\ (S # {} => Descending(S) # <<>>)
         /\ \A i, j \in DOMAIN Descending(S) : i < j => Descending(S)[i] > Descending(S)[j]
         /\ \A i \in DOMAIN Descending(S) : Descending(S)[i] \in S
         /\ \A r \in S : \E i \in DOMAIN Descending(S) : Descending(S)[i] = r
  <1>1. S \in SUBSET Nat /\ IsFiniteSet(S)
    <2>1. IsFiniteSet(RowKeys) /\ RowKeys \subseteq Nat
      BY CursorAssumption, FS_Interval DEF RowKeys
    <2> QED
      BY <2>1, FS_Subset
  <1> DEFINE d == Descending(S)
             n == Cardinality(S)
  <1>2. /\ d \in [1 .. n -> S] /\ n \in Nat
        /\ \A i, j \in 1 .. n : i < j => d[i] > d[j]
        /\ \A r \in S : \E i \in 1 .. n : d[i] = r
    BY <1>1, DescendingIs
  <1> HIDE DEF d, n
  <1>3. DOMAIN d = 1 .. n /\ d \in [1 .. n -> RowKeys]
    BY <1>2
  <1>4. d \in Seq(RowKeys)
    BY <1>2, <1>3, SeqDef
  <1>5. S # {} => d # <<>>
    BY <1>2, <1>3
  <1> QED
    BY <1>2, <1>3, <1>4, <1>5 DEF d

\* The first page lands: the walk shows its rows, or an error and nothing.
LEMMA LandFirstKeeps ==
  ASSUME ListInv, LandFirst
  PROVE  ListInv'
  <1>1. /\ first # NoRequest /\ first' = NoRequest
        /\ UNCHANGED <<rows, newest, walk, more, begun>>
    BY DEF LandFirst
  <1>2. /\ first \in PageRequests /\ first.path \in Paths
        /\ first.walk = walk.number /\ first.path = walk.path /\ walk.path # NoPath
        /\ result.walk # walk.number /\ ~Fresh
    BY <1>1, ListPieces DEF FirstIsOfTheWalk, PageRequests, Fresh
  <1>3. more' # NoRequest => more'.aborted
    BY <1>1, <1>2, ListPieces DEF MoreIsOfTheWalk, PageRequests
  <1>4. walk.number \in Int
    BY ListPieces
  <1>5. (ResultTyped' /\ result'.walk = walk.number) => ListTypeOK'
    BY <1>1, <1>4, ListPieces DEF ListTypeOK, ResultTyped
  <1>6. FirstIsOfTheWalk' /\ MoreIsOfTheWalk' /\ begun' \subseteq 1 .. newest'
    BY <1>1, <1>3, ListPieces DEF FirstIsOfTheWalk, MoreIsOfTheWalk
  <1>7. CASE result' = [walk |-> first.walk, items |-> <<>>, cursor |-> NoCursor, error |-> TRUE]
    <2>1. ResultTyped' /\ result'.walk = walk.number
      BY <1>2, <1>4, <1>7 DEF ResultTyped, NoCursor
    <2>2. result'.cursor = NoCursor /\ result'.items = <<>> /\ result'.error
      BY <1>7
    <2>3. ListReachesCursor' /\ WalkIsWhole'
      BY <2>2 DEF ListReachesCursor, WalkIsWhole
    <2> QED
      BY <1>5, <1>6, <2>1, <2>3 DEF ListInv
  <1>8. CASE /\ first.served
             /\ result' = [walk |-> first.walk, items |-> Descending(first.page.rows),
                           cursor |-> first.page.next, error |-> FALSE]
    <2> DEFINE page == first.page
               shown == Descending(page.rows)
    <2>1. /\ begun \subseteq Matches[walk.path] /\ page \in RowPages
          /\ page.rows \subseteq RowKeys \cap Matches[walk.path]
          /\ page.next \in RowKeys \cup {NoCursor}
          /\ page.next # NoCursor => page.next \in page.rows /\ \A r \in page.rows : page.next <= r
          /\ \A r \in begun \cap rows : r >= page.next => r \in page.rows
      BY <1>1, <1>2, <1>8, ListPieces DEF FirstIsOfTheWalk, PageHolds, PageRequests, RowPages
    <2>2. /\ shown \in Seq(RowKeys) /\ (page.rows # {} => shown # <<>>)
          /\ \A i, j \in DOMAIN shown : i < j => shown[i] > shown[j]
          /\ \A i \in DOMAIN shown : shown[i] \in page.rows
          /\ \A r \in page.rows : \E i \in DOMAIN shown : shown[i] = r
      BY <2>1, PageInOrder
    <2>3. result' = [walk |-> walk.number, items |-> shown, cursor |-> page.next, error |-> FALSE]
      BY <1>2, <1>8
    <2> HIDE DEF page, shown
    <2>4. ResultTyped' /\ result'.walk = walk.number
      BY <1>4, <2>1, <2>2, <2>3 DEF ResultTyped
    <2>5. ListReachesCursor'
      <3>1. \A i \in DOMAIN shown : page.next # NoCursor => shown[i] >= page.next
        BY <2>1, <2>2 DEF RowKeys
      <3> QED
        BY <1>1, <2>1, <2>2, <2>3, <3>1 DEF ListReachesCursor
    <2>6. WalkIsWhole'
      BY <1>1, <2>1, <2>2, <2>3 DEF WalkIsWhole
    <2> QED
      BY <1>5, <1>6, <2>4, <2>5, <2>6 DEF ListInv
  <1> QED
    BY <1>7, <1>8 DEF LandFirst

\* A further page is asked for under the cursor of the list on show.
LEMMA LoadMoreKeeps ==
  ASSUME ListInv, LoadMore
  PROVE  ListInv'
  <1>1. /\ Fresh /\ result.cursor # NoCursor /\ walk.path # NoPath
        /\ more' = PageAsk(walk.path, result.cursor)
        /\ UNCHANGED <<rows, newest, walk, result, first, begun>>
    BY DEF LoadMore
  <1>2. /\ more' \in PageRequests /\ more'.walk = walk.number /\ more'.path = walk.path
        /\ more'.cursor = result.cursor /\ ~more'.served
    BY <1>1, ListPieces DEF PageAsk, PageRequests, RowPages, NoCursor
  <1>3. ListTypeOK' /\ ResultTyped' /\ begun' \subseteq 1 .. newest'
    BY <1>1, <1>2, ListPieces DEF ListTypeOK, ResultTyped
  <1>4. MoreIsOfTheWalk'
    BY <1>1, <1>2 DEF MoreIsOfTheWalk, Fresh
  <1>5. first = NoRequest /\ first' = NoRequest
    BY <1>1, ListPieces DEF FirstIsOfTheWalk, Fresh
  <1>6. FirstIsOfTheWalk' /\ ListReachesCursor' /\ WalkIsWhole'
    BY <1>1, <1>5, ListPieces DEF FirstIsOfTheWalk, ListReachesCursor, WalkIsWhole, Fresh
  <1> QED
    BY <1>3, <1>4, <1>6 DEF ListInv

LEMMA ServeMoreKeeps ==
  ASSUME ListInv, ServeMore
  PROVE  ListInv'
  <1>1. /\ more # NoRequest /\ UNCHANGED <<rows, newest, walk, result, first, begun>>
        /\ more' = [more EXCEPT !.served = TRUE, !.page = Cut(more.path, more.cursor)]
    BY DEF ServeMore
  <1>2. /\ more \in PageRequests /\ more.path \in Paths /\ more.cursor \in RowKeys \cup {NoCursor}
    BY <1>1, ListPieces DEF PageRequests
  <1> DEFINE page == Cut(more.path, more.cursor)
  <1>3. /\ page \in RowPages
        /\ page.rows \subseteq RowKeys \cap Matches[more.path]
        /\ more.cursor # NoCursor => \A r \in page.rows : r < more.cursor
        /\ page.next # NoCursor => page.next \in page.rows /\ \A r \in page.rows : page.next <= r
        /\ \A r \in rows \cap Matches[more.path] :
              (more.cursor = NoCursor \/ r < more.cursor) /\ r >= page.next => r \in page.rows
    BY <1>2, CutHolds
  <1>4. more' = [more EXCEPT !.served = TRUE, !.page = page]
    BY <1>1
  <1> HIDE DEF page
  <1>5. /\ more' \in PageRequests /\ more'.walk = more.walk /\ more'.path = more.path
        /\ more'.cursor = more.cursor /\ more'.aborted = more.aborted /\ more'.page = page
    BY <1>2, <1>3, <1>4 DEF PageRequests
  <1>6. ListTypeOK' /\ ResultTyped' /\ begun' \subseteq 1 .. newest'
    BY <1>1, <1>5, ListPieces DEF ListTypeOK, ResultTyped
  <1>7. MoreIsOfTheWalk'
    <2> SUFFICES ASSUME ~more.aborted
                 PROVE  MoreIsOfTheWalk'
      BY <1>5 DEF MoreIsOfTheWalk
    <2>1. /\ more.walk = walk.number /\ more.path = walk.path /\ walk.path # NoPath /\ Fresh
          /\ more.cursor = result.cursor /\ result.cursor # NoCursor
      BY <1>1, ListPieces DEF MoreIsOfTheWalk
    <2>2. begun \subseteq Matches[more.path]
      BY <2>1, ListPieces DEF ListReachesCursor
    <2>3. PageHolds(more.path, more.cursor, more.page)'
      BY <1>1, <1>3, <1>5, <2>2 DEF PageHolds
    <2> QED
      BY <1>1, <1>5, <2>1, <2>3 DEF MoreIsOfTheWalk, Fresh
  <1>8. FirstIsOfTheWalk'
    BY <1>1, ListPieces DEF FirstIsOfTheWalk, PageHolds
  <1>9. ListReachesCursor' /\ WalkIsWhole'
    BY <1>1, ListPieces DEF ListReachesCursor, WalkIsWhole, Fresh
  <1> QED
    BY <1>6, <1>7, <1>8, <1>9 DEF ListInv

\* A further page lands after the rows it was asked for under: its rows are the older ones.
LEMMA LandMoreKeeps ==
  ASSUME ListInv, LandMore
  PROVE  ListInv'
  <1>1. /\ more # NoRequest /\ more' = NoRequest
        /\ UNCHANGED <<rows, newest, walk, first, begun>>
    BY DEF LandMore
  <1>2. MoreIsOfTheWalk' /\ begun' \subseteq 1 .. newest'
    BY <1>1, ListPieces DEF MoreIsOfTheWalk
  <1>3. (ResultTyped' /\ result'.walk = result.walk) => ListTypeOK'
    BY <1>1, ListPieces DEF ListTypeOK, ResultTyped
  <1>4. result'.walk = result.walk => FirstIsOfTheWalk'
    BY <1>1, ListPieces DEF FirstIsOfTheWalk, PageHolds
  <1>5. CASE UNCHANGED result
    BY <1>1, <1>2, <1>3, <1>4, <1>5, ListPieces
       DEF ListInv, ResultTyped, ListReachesCursor, WalkIsWhole, Fresh
  <1>6. ASSUME Appends(more)
        PROVE  /\ more \in PageRequests /\ more.path = walk.path /\ walk.path # NoPath /\ Fresh
               /\ more.cursor = result.cursor /\ result.cursor # NoCursor
               /\ result.items # <<>> /\ begun \subseteq Matches[walk.path]
               /\ more.served => PageHolds(more.path, more.cursor, more.page)
    BY <1>1, <1>6, ListPieces DEF Appends, MoreIsOfTheWalk, ListReachesCursor
  <1>7. CASE Appends(more) /\ result' = [result EXCEPT !.error = TRUE]
    <2>1. /\ ResultTyped' /\ result'.walk = result.walk /\ result'.items = result.items
          /\ result'.cursor = result.cursor
      BY <1>7, ListPieces DEF ResultTyped
    <2>2. ListReachesCursor' /\ WalkIsWhole'
      BY <1>1, <1>6, <1>7, <2>1, ListPieces DEF ListReachesCursor, WalkIsWhole, Fresh
    <2> QED
      BY <1>2, <1>3, <1>4, <2>1, <2>2 DEF ListInv
  <1>8. CASE /\ more.served /\ Appends(more)
             /\ result' = [result EXCEPT !.items = @ \o Descending(more.page.rows),
                                         !.cursor = more.page.next, !.error = FALSE]
    <2> DEFINE page == more.page
               old == result.items
               new == Descending(page.rows)
               shown == old \o new
    <2>1. /\ page \in RowPages /\ page.rows \subseteq RowKeys \cap Matches[walk.path]
          /\ page.next \in RowKeys \cup {NoCursor}
          /\ \A r \in page.rows : r < result.cursor
          /\ page.next # NoCursor => page.next \in page.rows /\ \A r \in page.rows : page.next <= r
          /\ \A r \in begun \cap rows : r < result.cursor /\ r >= page.next => r \in page.rows
      BY <1>6, <1>8 DEF PageHolds, PageRequests, RowPages
    <2>2. /\ new \in Seq(RowKeys)
          /\ \A i, j \in DOMAIN new : i < j => new[i] > new[j]
          /\ \A i \in DOMAIN new : new[i] \in page.rows
          /\ \A r \in page.rows : \E i \in DOMAIN new : new[i] = r
      BY <2>1, PageInOrder
    <2>3. /\ old \in Seq(RowKeys) /\ old # <<>>
          /\ \A i, j \in DOMAIN old : i < j => old[i] > old[j]
          /\ \A i \in DOMAIN old : old[i] \in Matches[walk.path] /\ old[i] >= result.cursor
          /\ \A r \in begun \cap rows : r >= result.cursor => \E i \in DOMAIN old : old[i] = r
      BY <1>6, <1>8, ListPieces DEF ListReachesCursor, WalkIsWhole
    <2>11. result' = [result EXCEPT !.items = shown, !.cursor = page.next, !.error = FALSE]
      BY <1>8
    <2> HIDE DEF page, new, old
    <2>12. shown \in Seq(RowKeys)
      BY <2>2, <2>3
    <2> HIDE DEF shown
    <2>4. /\ result'.walk = result.walk /\ result'.items = shown /\ result'.cursor = page.next
          /\ ResultTyped'
      BY <2>1, <2>11, <2>12, ListPieces DEF ResultTyped
    <2> USE DEF shown
    <2>5. /\ Len(old) \in Nat /\ Len(new) \in Nat
          /\ DOMAIN old = 1 .. Len(old) /\ DOMAIN new = 1 .. Len(new)
          /\ DOMAIN shown = 1 .. Len(old) + Len(new) /\ shown # <<>>
          /\ \A i \in DOMAIN shown : i <= Len(old) => i \in DOMAIN old /\ shown[i] = old[i]
          /\ \A i \in DOMAIN shown : i > Len(old) =>
                i - Len(old) \in DOMAIN new /\ shown[i] = new[i - Len(old)]
          /\ \A i \in DOMAIN old : i \in DOMAIN shown /\ shown[i] = old[i]
          /\ \A i \in DOMAIN new : i + Len(old) \in DOMAIN shown /\ shown[i + Len(old)] = new[i]
      BY <2>2, <2>3
    <2> HIDE DEF shown
    <2>6. /\ \A i \in DOMAIN old : old[i] \in Nat
          /\ \A r \in page.rows : r \in Nat
          /\ result.cursor \in Nat /\ page.next \in Nat
      <3>1. RowKeys \cup {NoCursor} \subseteq Nat
        BY CursorAssumption DEF RowKeys, NoCursor
      <3>2. result.cursor \in RowKeys \cup {NoCursor}
        BY ListPieces
      <3> QED
        BY <2>1, <2>3, <3>1, <3>2
    <2>7. \A i, j \in DOMAIN shown : i < j => shown[i] > shown[j]
      <3> TAKE i, j \in DOMAIN shown
      <3> HAVE i < j
      <3>0. i \in Nat /\ j \in Nat
        BY <2>5
      <3>1. CASE j <= Len(old)
        BY <2>3, <2>5, <3>0, <3>1
      <3>2. CASE i <= Len(old) /\ j > Len(old)
        <4>1. shown[i] >= result.cursor /\ shown[j] < result.cursor
              /\ shown[i] \in Nat /\ shown[j] \in Nat
          BY <2>1, <2>2, <2>3, <2>5, <2>6, <3>2
        <4> QED
          BY <2>6, <4>1
      <3>3. CASE i > Len(old)
        <4>1. /\ j > Len(old) /\ i - Len(old) < j - Len(old)
          BY <2>5, <3>0, <3>3
        <4> QED
          BY <2>2, <2>5, <3>3, <4>1
      <3> QED
        BY <2>5, <3>0, <3>1, <3>2, <3>3
    <2>8. \A i \in DOMAIN shown : shown[i] \in Matches[walk.path]
                                  /\ (page.next # NoCursor => shown[i] >= page.next)
      <3> TAKE i \in DOMAIN shown
      <3>0. i \in Nat
        BY <2>5
      <3>1. CASE i <= Len(old)
        <4>1. shown[i] \in Matches[walk.path] /\ shown[i] >= result.cursor /\ shown[i] \in Nat
          BY <2>3, <2>5, <2>6, <3>1
        <4>2. page.next # NoCursor => page.next < result.cursor
          BY <2>1
        <4> QED
          BY <2>6, <4>1, <4>2
      <3>2. CASE i > Len(old)
        BY <2>1, <2>2, <2>5, <2>6, <3>2
      <3> QED
        BY <2>5, <3>0, <3>1, <3>2
    <2>9. \A r \in begun \cap rows : r >= page.next => \E i \in DOMAIN shown : shown[i] = r
      <3> TAKE r \in begun \cap rows
      <3> HAVE r >= page.next
      <3>0. r \in Nat
        BY ListPieces
      <3>1. CASE r >= result.cursor
        BY <2>3, <2>5, <3>1
      <3>2. CASE r < result.cursor
        <4>1. r \in page.rows
          BY <2>1, <3>2
        <4>2. PICK i \in DOMAIN new : new[i] = r
          BY <2>2, <4>1
        <4> QED
          BY <2>5, <4>2
      <3> QED
        BY <2>6, <3>0, <3>1, <3>2
    <2>10. ListReachesCursor' /\ WalkIsWhole'
      <3>1. ListReachesCursor'
        BY <1>1, <1>6, <1>8, <2>4, <2>5, <2>8 DEF ListReachesCursor
      <3>2. WalkIsWhole'
        BY <1>1, <2>4, <2>7, <2>8, <2>9 DEF WalkIsWhole
      <3> QED
        BY <3>1, <3>2
    <2> QED
      BY <1>2, <1>3, <1>4, <2>4, <2>10 DEF ListInv
  <1> QED
    BY <1>5, <1>7, <1>8 DEF LandMore

LEMMA ListKept == ListInv /\ [ListNext]_listVars => ListInv'
  <1> SUFFICES ASSUME ListInv, [ListNext]_listVars
               PROVE  ListInv'
    OBVIOUS
  <1>1. CASE ListNext
    BY <1>1, ServerRowsKeep, StartWalkKeeps, ServeFirstKeeps, LandFirstKeeps, LoadMoreKeeps,
       ServeMoreKeeps, LandMoreKeeps DEF ListNext
  <1>2. CASE UNCHANGED listVars
    BY <1>2, ListPieces, RowsKeep DEF listVars
  <1> QED
    BY <1>1, <1>2

\* What the list shows is one walk of one path, whatever answers late and whatever is inserted
\* or removed meanwhile: in order, none twice, none of those it began with skipped.
THEOREM WalksAreWhole == ListSpec => []WalkIsWhole
  <1>1. ListInv => WalkIsWhole
    BY DEF ListInv
  <1> QED
    BY <1>1, InitList, ListKept, PTL DEF ListSpec

-----------------------------------------------------------------------------
(***************************************************************************)
(* The search page.                                                        *)
(***************************************************************************)

\* A list of results, and a request for its next page.
ResultLists == [request : Searches, pages : Seq([of : Searches, at : Nat]), cursor : Nat]
FurtherPages == [id : Nat, request : Searches, cursor : Nat]

SearchTyped ==
    /\ input \in Views /\ committed \in Views
    /\ latest \in Nat
    /\ asked \subseteq [id : Nat, request : Searches]
    /\ results \in ResultLists \cup {NoResults}
    /\ furtherPage \in FurtherPages \cup {NoMore}
    /\ searchLoading \in BOOLEAN /\ failed \in BOOLEAN

\* Of the searches in flight, the newest is of the view committed, and no other counts.
NewestIsCommitted ==
    \A a \in asked : a.id <= latest /\ (a.id = latest => a.request = committed)

\* The inductive invariant.
SearchInv == SearchTyped /\ NewestIsCommitted /\ RestingPageAnswers

LEMMA InitSearch == SearchInit => SearchInv
  <1>1. ASSUME SearchInit
        PROVE  SearchTyped
    <2>1. searchLoading \in BOOLEAN /\ failed \in BOOLEAN
      BY <1>1 DEF SearchInit
    <2>2. input \in Views /\ committed \in Views /\ latest \in Nat
      BY <1>1 DEF SearchInit, Views
    <2> QED
      BY <1>1, <2>1, <2>2 DEF SearchInit, SearchTyped
  <1>2. SearchInit => NewestIsCommitted /\ RestingPageAnswers
    BY DEF SearchInit, NewestIsCommitted, RestingPageAnswers
  <1> QED
    BY <1>1, <1>2 DEF SearchInv

\* A page's cursor is a number, and a list is a list.
LEMMA CursorTypes ==
  ASSUME NEW q \in Searches, NEW n \in Nat
  PROVE  NextCursor(q, n) \in Nat
  BY DEF NextCursor, NoCursorLeft

\* A list of results is not the absence of one.
LEMMA ListIsNoNothing == NoResults \notin ResultLists
  BY SearchAssumption DEF ResultLists

\* A search started for the view committed with it.
LEMMA StartKeeps ==
  ASSUME SearchTyped, \A a \in asked : a.id <= latest,
         NEW q \in Views, committed' = q, StartSearch(q),
         input' \in Views, UNCHANGED furtherPage
  PROVE  SearchInv'
  <1>1. latest' = latest + 1 /\ latest \in Nat /\ failed' = FALSE
    BY DEF StartSearch, SearchTyped
  <1>2. CASE q = Nowhere
    <2>1. results' = NoResults /\ searchLoading' = FALSE /\ asked' = asked
      BY <1>2 DEF StartSearch
    <2>2. SearchTyped'
      <3>1. latest' \in Nat
        BY <1>1
      <3> QED
        BY <1>1, <2>1, <3>1 DEF SearchTyped
    <2>3. NewestIsCommitted'
      <3>1. \A a \in asked : a.id \in Nat
        BY DEF SearchTyped
      <3> QED
        BY <1>1, <2>1, <3>1 DEF NewestIsCommitted
    <2>4. RestingPageAnswers'
      BY <1>2, <2>1 DEF RestingPageAnswers
    <2> QED
      BY <2>2, <2>3, <2>4 DEF SearchInv
  <1>3. CASE q # Nowhere
    <2>1. /\ asked' = asked \cup {[id |-> latest', request |-> q]}
          /\ searchLoading' = TRUE /\ results' = results
      BY <1>3 DEF StartSearch
    <2>2. [id |-> latest', request |-> q] \in [id : Nat, request : Searches]
      BY <1>1, <1>3 DEF Views
    <2>3. SearchTyped'
      BY <1>1, <2>1, <2>2 DEF SearchTyped
    <2>4. NewestIsCommitted'
      <3>1. \A a \in asked : a.id \in Nat
        BY DEF SearchTyped
      <3> QED
        BY <1>1, <2>1, <3>1 DEF NewestIsCommitted
    <2>5. RestingPageAnswers'
      BY <2>1 DEF RestingPageAnswers
    <2> QED
      BY <2>3, <2>4, <2>5 DEF SearchInv
  <1> QED
    BY <1>2, <1>3

LEMMA SearchStep ==
  ASSUME SearchInv, SearchNext
  PROVE  SearchInv'
  <1>0. SearchTyped /\ NewestIsCommitted /\ RestingPageAnswers
    BY DEF SearchInv
  <1>a. \A a \in asked : a.id <= latest
    BY <1>0 DEF NewestIsCommitted
  <1>1. ASSUME NEW q \in Views, Type(q)
        PROVE  SearchInv'
    BY <1>0, <1>1 DEF Type, SearchInv, SearchTyped, NewestIsCommitted, RestingPageAnswers
  <1>2. ASSUME NEW q \in Views, MoveTo(q)
        PROVE  SearchInv'
    BY <1>0, <1>a, <1>2, StartKeeps DEF MoveTo
  <1>3. CASE CommitInput
    <2>1. input \in Views /\ committed' = input /\ StartSearch(input) /\ input' = input
      BY <1>0, <1>3 DEF CommitInput, SearchTyped
    <2> QED
      BY <1>0, <1>a, <1>3, <2>1, StartKeeps DEF CommitInput
  <1>4. CASE RetrySearch
    <2>1. committed \in Views /\ committed' = committed /\ StartSearch(committed)
          /\ input' \in Views
      BY <1>0, <1>4 DEF RetrySearch, SearchTyped
    <2> QED
      BY <1>0, <1>a, <1>4, <2>1, StartKeeps DEF RetrySearch
  <1>5. CASE ShowMore
    <2>1. furtherPage' \in FurtherPages
      BY <1>0, <1>5 DEF ShowMore, FurtherPages, SearchTyped, ResultLists
    <2> QED
      BY <1>0, <1>5, <2>1
      DEF ShowMore, SearchInv, SearchTyped, NewestIsCommitted, RestingPageAnswers
  <1>6. CASE LandFurther
    <2>1. results' = results \/ (/\ results \in ResultLists /\ results' \in ResultLists
                                 /\ results'.request = results.request)
      <3>1. furtherPage # NoMore /\ furtherPage \in FurtherPages
        BY <1>0, <1>6 DEF LandFurther, SearchTyped
      <3> DEFINE turn == furtherPage.cursor + 1
                 found == PageOf(furtherPage.request, turn)
                 next == NextCursor(furtherPage.request, turn)
      <3>2. found \in [of : Searches, at : Nat] /\ next \in Nat
        BY <3>1, CursorTypes DEF FurtherPages, PageOf
      <3>3. CASE /\ results # NoResults
                 /\ results' = [results EXCEPT !.pages = Append(@, found), !.cursor = next]
        <4>1. results \in ResultLists
          BY <1>0, <3>3 DEF SearchTyped
        <4>2. Append(results.pages, found) \in Seq([of : Searches, at : Nat])
          BY <3>2, <4>1 DEF ResultLists
        <4> HIDE DEF found, next
        <4> QED
          BY <3>2, <3>3, <4>1, <4>2 DEF ResultLists
      <3> QED
        BY <1>6, <3>3 DEF LandFurther
    <2>2. /\ furtherPage' = NoMore
          /\ UNCHANGED <<input, committed, latest, asked, searchLoading, failed>>
      BY <1>6 DEF LandFurther
    <2>3. SearchTyped' /\ NewestIsCommitted'
      BY <1>0, <2>1, <2>2 DEF SearchTyped, NewestIsCommitted
    <2>4. RestingPageAnswers'
      BY <1>0, <2>1, <2>2, ListIsNoNothing DEF RestingPageAnswers
    <2> QED
      BY <2>3, <2>4 DEF SearchInv
  <1>7. ASSUME NEW a \in asked, LandSearch(a)
        PROVE  SearchInv'
    <2>1. /\ asked' = asked \ {a} /\ UNCHANGED <<input, committed, latest, furtherPage>>
      BY <1>7 DEF LandSearch
    <2>2. a \in [id : Nat, request : Searches]
      BY <1>0, <1>7 DEF SearchTyped
    <2>3. NewestIsCommitted'
      BY <1>0, <2>1 DEF NewestIsCommitted
    <2>4. CASE /\ Latest(a) /\ searchLoading' = FALSE /\ UNCHANGED failed
               /\ results' = [request |-> a.request, pages |-> <<PageOf(a.request, 1)>>,
                              cursor |-> NextCursor(a.request, 1)]
      <3>1. results' \in ResultLists /\ results'.request = a.request
        <4>1. <<PageOf(a.request, 1)>> \in Seq([of : Searches, at : Nat])
          BY <2>2 DEF PageOf
        <4>2. NextCursor(a.request, 1) \in Nat
          BY <2>2, CursorTypes
        <4> QED
          BY <2>2, <2>4, <4>1, <4>2 DEF ResultLists
      <3>2. a.request = committed /\ committed # Nowhere
        BY <1>0, <2>2, <2>4, SearchAssumption DEF Latest, NewestIsCommitted
      <3>3. SearchTyped'
        BY <1>0, <2>1, <2>4, <3>1 DEF SearchTyped
      <3>4. RestingPageAnswers'
        BY <2>1, <3>1, <3>2, ListIsNoNothing DEF RestingPageAnswers
      <3> QED
        BY <2>3, <3>3, <3>4 DEF SearchInv
    <2>5. CASE /\ failed' = TRUE /\ searchLoading' = FALSE /\ UNCHANGED results
      BY <1>0, <2>1, <2>3, <2>5 DEF SearchInv, SearchTyped, RestingPageAnswers
    <2>6. CASE UNCHANGED <<results, searchLoading, failed>>
      BY <1>0, <2>1, <2>3, <2>6 DEF SearchInv, SearchTyped, RestingPageAnswers
    <2> QED
      BY <1>7, <2>4, <2>5, <2>6 DEF LandSearch
  <1>8. CASE ClearSelection \/ \E page \in Hits : Toggle(page)
    BY <1>0, <1>8
    DEF ClearSelection, Toggle, SearchInv, SearchTyped, NewestIsCommitted, RestingPageAnswers
  <1> QED
    BY <1>1, <1>2, <1>3, <1>4, <1>5, <1>6, <1>7, <1>8 DEF SearchNext

\* A search page at rest answers its URL, for any number of searches asked and answered in
\* any order, further pages and failures included.
THEOREM PageAnswersItsUrl == SearchSpec => []RestingPageAnswers
  <1>1. SearchInv /\ UNCHANGED searchVars => SearchInv'
    BY DEF SearchInv, searchVars, SearchTyped, NewestIsCommitted, RestingPageAnswers
  <1>2. SearchInv /\ [SearchNext]_searchVars => SearchInv'
    BY <1>1, SearchStep
  <1>3. SearchInv => RestingPageAnswers
    BY DEF SearchInv
  <1> QED
    BY InitSearch, <1>2, <1>3, PTL DEF SearchSpec

-----------------------------------------------------------------------------
(***************************************************************************)
(* The map.                                                                *)
(***************************************************************************)

\* What the debounce holds is the viewport on show; with nothing held, the box asked for last
\* holds it; and the claim is of that box, or given up with a failed read.
CameraIsCovered ==
    /\ boundsTimer \in {NoView, onShow}
    /\ (boundsTimer = NoView /\ bbox # NoBox) => onShow \in Inside[bbox]
    /\ claimed \in {bbox, NoBox}

\* The read in flight, if any, is the one the effect asked last; once it has ended, its pins
\* are on the map, or its error is.
PointsFollow ==
    /\ pointReads \subseteq {pointsFor}
    /\ (pointsFor.box # NoBox /\ pointReads = {}) => pointsError \/ points = pointsFor

\* The sites on the map are those the effect asked last, once they have answered.
SitesFollow ==
    /\ siteReads \subseteq {[box |-> sitesFor.box, day |-> sitesFor.day]}
    /\ sitesStage = "answered" => sites = [box |-> sitesFor.box, day |-> sitesFor.day]

\* The inductive invariant.
MapInv == MapTypeOK /\ CameraIsCovered /\ PointsFollow /\ SitesFollow

LEMMA InitMap == MapInit => MapInv
  <1>1. ASSUME MapInit
        PROVE  MapTypeOK
    <2>1. pointsFor \in [box : Boxes \cup {NoBox}, filters : PointFilters]
      BY <1>1 DEF MapInit
    <2>2. sitesFor \in [shown : BOOLEAN, box : Boxes \cup {NoBox}, day : Days]
      BY <1>1 DEF MapInit
    <2> QED
      BY <1>1, <2>1, <2>2 DEF MapInit, MapTypeOK
  <1>2. MapInit => CameraIsCovered
    BY DEF MapInit, CameraIsCovered
  <1>3. MapInit => PointsFollow
    BY DEF MapInit, PointsFollow
  <1>4. MapInit => SitesFollow
    BY DEF MapInit, SitesFollow
  <1> QED
    BY <1>1, <1>2, <1>3, <1>4 DEF MapInv

\* No step of the map takes its state out of its types.
LEMMA CameraTypes ==
  ASSUME MapInv, MapNext
  PROVE  MapTypeOK'
  <1>0. MapTypeOK
    BY DEF MapInv
  <1>a. \A v \in Viewports : BoxOf[v] \in Boxes
    BY DEF Boxes
  <1> USE DEF MapTypeOK, cameraVars, pointVars, siteVars
  <1>1. ASSUME NEW v \in Viewports, MoveEnd(v)
        PROVE  MapTypeOK'
    BY <1>0, <1>a, <1>1 DEF MoveEnd, Cover
  <1>2. CASE BoundsSettle
    BY <1>0, <1>a, <1>2 DEF BoundsSettle, Cover
  <1>3. CASE FetchPoints
    BY <1>0, <1>3 DEF FetchPoints, PointReads
  <1>4. ASSUME NEW f \in PointFilters, ChangeFilters(f)
        PROVE  MapTypeOK'
    BY <1>0, <1>4 DEF ChangeFilters
  <1>5. ASSUME NEW r \in PointReads, LandPoints(r)
        PROVE  MapTypeOK'
    BY <1>0, <1>5 DEF LandPoints
  <1>6. CASE PickSites
    BY <1>0, <1>6 DEF PickSites
  <1>7. ASSUME NEW d \in Days, MoveWindow(d)
        PROVE  MapTypeOK'
    BY <1>0, <1>7 DEF MoveWindow
  <1>8. CASE SitesEffect
    BY <1>0, <1>8 DEF SitesEffect, SitesWanted
  <1>9. CASE SitesSettle
    <2>1. sitesFor.box # NoBox => [box |-> sitesFor.box, day |-> sitesFor.day] \in SiteReads
      BY <1>0 DEF SiteReads
    <2> QED
      BY <1>0, <1>9, <2>1 DEF SitesSettle
  <1>10. ASSUME NEW r \in SiteReads, LandSites(r)
         PROVE  MapTypeOK'
    BY <1>0, <1>10 DEF LandSites
  <1> QED
    BY <1>1, <1>2, <1>3, <1>4, <1>5, <1>6, <1>7, <1>8, <1>9, <1>10
    DEF MapNext, CameraNext, PointsNext, SitesNext, PointsEffect, RetryPoints

LEMMA MapStep ==
  ASSUME MapInv, MapNext
  PROVE  CameraIsCovered' /\ PointsFollow' /\ SitesFollow'
  <1>0. MapTypeOK /\ CameraIsCovered /\ PointsFollow /\ SitesFollow
    BY DEF MapInv
  <1> DEFINE Goal == CameraIsCovered' /\ PointsFollow' /\ SitesFollow'
  <1>a. UNCHANGED cameraVars => CameraIsCovered'
    BY <1>0 DEF cameraVars, CameraIsCovered
  <1>b. UNCHANGED pointVars => PointsFollow'
    BY <1>0 DEF pointVars, PointsFollow
  <1>c. UNCHANGED siteVars => SitesFollow'
    BY <1>0 DEF siteVars, SitesFollow
  <1>1. ASSUME NEW v \in Viewports, MoveEnd(v)
        PROVE  Goal
    <2>1. CameraIsCovered'
      BY <1>0, <1>1, MapAssumption DEF MoveEnd, Cover, CameraIsCovered
    <2> QED
      BY <1>b, <1>c, <1>1, <2>1 DEF MoveEnd
  <1>2. CASE BoundsSettle
    <2>1. boundsTimer = onShow /\ onShow \in Viewports
      BY <1>0, <1>2 DEF BoundsSettle, CameraIsCovered, MapTypeOK
    <2>2. CameraIsCovered'
      BY <1>0, <1>2, <2>1, MapAssumption DEF BoundsSettle, Cover, CameraIsCovered
    <2> QED
      BY <1>b, <1>c, <1>2, <2>2 DEF BoundsSettle
  <1>3. CASE FetchPoints
    <2>1. PointsFollow'
      BY <1>3 DEF FetchPoints, PointsFollow
    <2> QED
      BY <1>a, <1>c, <1>3, <2>1 DEF FetchPoints
  <1>4. ASSUME NEW f \in PointFilters, ChangeFilters(f)
        PROVE  Goal
    <2>1. PointsFollow'
      BY <1>0, <1>4 DEF ChangeFilters, PointsFollow
    <2> QED
      BY <1>a, <1>c, <1>4, <2>1 DEF ChangeFilters
  <1>5. ASSUME NEW r \in PointReads, LandPoints(r)
        PROVE  Goal
    <2>1. r = pointsFor
      BY <1>0, <1>5 DEF LandPoints, PointsFollow
    <2>2. CameraIsCovered' /\ PointsFollow'
      BY <1>0, <1>5, <2>1 DEF LandPoints, CameraIsCovered, PointsFollow
    <2> QED
      BY <1>c, <1>5, <2>2 DEF LandPoints
  <1>6. CASE PickSites \/ \E d \in Days : MoveWindow(d)
    <2>1. SitesFollow'
      BY <1>0, <1>6 DEF PickSites, MoveWindow, SitesFollow
    <2> QED
      BY <1>a, <1>b, <1>6, <2>1 DEF PickSites, MoveWindow
  <1>7. CASE SitesEffect
    <2>1. SitesFollow'
      BY <1>7 DEF SitesEffect, SitesFollow
    <2> QED
      BY <1>a, <1>b, <1>7, <2>1 DEF SitesEffect
  <1>8. CASE SitesSettle
    <2>1. SitesFollow'
      BY <1>0, <1>8 DEF SitesSettle, SitesFollow
    <2> QED
      BY <1>a, <1>b, <1>8, <2>1 DEF SitesSettle
  <1>9. ASSUME NEW r \in SiteReads, LandSites(r)
        PROVE  Goal
    <2>1. SitesFollow'
      BY <1>0, <1>9 DEF LandSites, SitesFollow
    <2> QED
      BY <1>a, <1>b, <1>9, <2>1 DEF LandSites
  <1> QED
    BY <1>1, <1>2, <1>3, <1>4, <1>5, <1>6, <1>7, <1>8, <1>9
    DEF MapNext, CameraNext, PointsNext, SitesNext, PointsEffect, RetryPoints

\* Every reachable state is well typed, and keeps the promises above.
LEMMA MapInvariance == MapSpec => []MapInv
  <1>1. MapInv /\ UNCHANGED mapVars => MapInv'
    BY DEF MapInv, mapVars, cameraVars, pointVars, siteVars, MapTypeOK, CameraIsCovered,
           PointsFollow, SitesFollow
  <1>2. MapInv /\ [MapNext]_mapVars => MapInv'
    BY <1>1, CameraTypes, MapStep DEF MapInv
  <1> QED
    BY InitMap, <1>2, PTL DEF MapSpec

\* At rest the map shows the view of its camera, whatever the moves, the changes of filters
\* and the failures that came before.
THEOREM MapIsItsView == MapSpec => []MapShowsItsView
  <1>1. MapInv => MapShowsItsView
    BY DEF MapInv, CameraIsCovered, PointsFollow, SitesFollow, MapShowsItsView, PointsRest,
           SitesRest, SitesWanted
  <1> QED
    BY <1>1, MapInvariance, PTL

-----------------------------------------------------------------------------
(***************************************************************************)
(* The filters and their URL.                                              *)
(***************************************************************************)

\* A view that keeps none of the values its Show pick hides.
Fits(state) ==
    /\ state \in States
    /\ state.on \subseteq Offered(state.show)
    /\ ~ShowsEvents(state.show) => state.guess = {} /\ ~state.dated

Visits == [to : Urls, as : {"push", "replace", "traverse"}]

VisitTyped == visit # NoVisit => visit \in Visits

\* The page wrote, or took, the URL of its snapshot; and while nothing outran a write, the URL it
\* is on names it: at rest, and when the visit on its way brings it that URL again.
WrittenIsSnapshot == written = Write(snapshot)
QueryNames == Write(Read(query)) = written
NothingMissed ==
    ~outrun /\ (visit = NoVisit \/ (visit # NoVisit /\ visit.to = query)) => QueryNames

\* The inductive invariant.
FilterInv ==
    /\ Fits(filters) /\ Fits(snapshot)
    /\ query \in Urls /\ entries \in Seq(Urls) /\ at \in DOMAIN entries
    /\ VisitTyped
    /\ WrittenIsSnapshot
    /\ NothingMissed
-----------------------------------------------------------------------------
\* What a Show pick hides goes: the view that is left fits.
LEMMA ScopedFits ==
  ASSUME NEW state \in States
  PROVE  Fits(Scoped(state)) /\ Scoped(state).show = state.show
  <1>1. /\ state.show \subseteq Statuses \cup Kinds /\ state.on \subseteq Dims
        /\ state.guess \subseteq Guesses /\ state.dated \in BOOLEAN
    BY DEF States
  <1>2. CASE ShowsEvents(state.show)
    BY <1>1, <1>2 DEF Scoped, Fits, Offered
  <1>3. CASE ~ShowsEvents(state.show)
    <2> DEFINE scoped == [state EXCEPT !.on = @ \cap Offered(state.show), !.guess = {},
                                       !.dated = FALSE]
    <2>1. Scoped(state) = scoped
      BY <1>3 DEF Scoped
    <2>2. /\ scoped \in States /\ scoped.show = state.show
          /\ scoped.on = state.on \cap Offered(state.show) /\ scoped.guess = {}
          /\ scoped.dated = FALSE
      BY <1>1 DEF States
    <2> HIDE DEF scoped
    <2> QED
      BY <1>3, <2>1, <2>2 DEF Fits
  <1> QED
    BY <1>2, <1>3

\* A view that fits is left as it is.
LEMMA FitsIsScoped ==
  ASSUME NEW state, Fits(state)
  PROVE  Scoped(state) = state
  <1>1. CASE ShowsEvents(state.show)
    BY <1>1 DEF Scoped
  <1>2. CASE ~ShowsEvents(state.show)
    <2>1. state \in States /\ state.dated = FALSE /\ state.guess = {}
          /\ state.on \cap Offered(state.show) = state.on
      BY <1>2 DEF Fits, States
    <2>2. [state EXCEPT !.on = @ \cap Offered(state.show), !.guess = {}, !.dated = FALSE] = state
      BY <2>1 DEF States
    <2> QED
      BY <1>2, <2>2 DEF Scoped
  <1> QED
    BY <1>1, <1>2

\* Writing both guesses, or neither, and reading them back says the same.
LEMMA CoordsTwice == \A guess : HasCoords(HasCoords(guess)) = HasCoords(guess)
  BY FS_EmptySet DEF HasCoords

\* What a view writes is a URL of the page.
LEMMA WriteIsUrl ==
  ASSUME NEW state \in States
  PROVE  Write(state) \in Urls
  <1>1. /\ state.show \subseteq Statuses \cup Kinds /\ state.on \subseteq Dims
        /\ state.guess \subseteq Guesses /\ state.dated \in BOOLEAN
    BY DEF States
  <1>2. Types(state.show) \subseteq {"event"} \cup Kinds
    BY DEF Types
  <1>3. HasCoords(state.guess) \in {{}} \cup {{g} : g \in Guesses}
    <2>1. CASE Cardinality(state.guess) = 1
      <3>1. IsFiniteSet(Guesses)
        <4>1. IsFiniteSet({"guessed"})
          BY FS_Singleton
        <4>2. IsFiniteSet({"guessed"} \cup {"blind"})
          BY <4>1, FS_AddElement
        <4>3. Guesses = {"guessed"} \cup {"blind"}
          BY DEF Guesses
        <4> QED
          BY <4>2, <4>3
      <3>2. IsFiniteSet(state.guess)
        BY <1>1, <3>1, FS_Subset
      <3>3. \E g : state.guess = {g}
        BY <2>1, <3>2, FS_Singleton
      <3> QED
        BY <1>1, <2>1, <3>3 DEF HasCoords
    <2>2. CASE Cardinality(state.guess) # 1
      BY <2>2 DEF HasCoords
    <2> QED
      BY <2>1, <2>2
  <1> QED
    BY <1>1, <1>2, <1>3 DEF Write, Urls

\* The Show pick comes back from the URL it was written to.
LEMMA ShowComesBack ==
  ASSUME NEW state \in States
  PROVE  ReadShow(Write(state)) = state.show
  <1> DEFINE show == state.show
  <1>1. show \subseteq Statuses \cup Kinds
    BY DEF States
  <1>2. /\ Write(state).types = Types(show)
        /\ Write(state).status = IF Types(show) = {"event"} /\ Statuses \subseteq show
                                 THEN {} ELSE show \cap Statuses
    BY DEF Write
  <1>3. ReadShow(Write(state)) =
           (IF Write(state).status = {} /\ "event" \in Write(state).types
            THEN Statuses ELSE Write(state).status)
           \cup (Write(state).types \cap Kinds)
    BY DEF ReadShow
  <1> HIDE DEF show
  <1>4. CASE show = {}
    <2>1. Types(show) = {}
      BY <1>4 DEF Types, ShowsEvents, ShowsOthers
    <2> QED
      BY <1>2, <1>3, <1>4, <2>1 DEF show
  <1>5. CASE show \cap Statuses # {} /\ show \cap Kinds # {}
    <2>1. Types(show) = {"event"} \cup (show \cap Kinds)
      BY <1>5 DEF Types, ShowsEvents, ShowsOthers
    <2>2. Types(show) # {"event"}
      BY <1>5, <2>1, FilterAssumption
    <2>3. Types(show) \cap Kinds = show \cap Kinds
      BY <2>1, FilterAssumption
    <2> QED
      BY <1>1, <1>2, <1>3, <1>5, <2>2, <2>3 DEF show
  <1>6. CASE show \cap Statuses # {} /\ show \cap Kinds = {}
    <2>1. Types(show) = {"event"}
      BY <1>6 DEF Types, ShowsEvents, ShowsOthers
    <2>2. Types(show) \cap Kinds = {}
      BY <2>1, FilterAssumption
    <2> QED
      BY <1>1, <1>2, <1>3, <1>6, <2>1, <2>2 DEF show
  <1>7. CASE show # {} /\ show \cap Statuses = {}
    <2>1. Types(show) = show \cap Kinds
      BY <1>1, <1>7 DEF Types, ShowsEvents, ShowsOthers
    <2>2. "event" \notin Types(show)
      BY <2>1, FilterAssumption
    <2> QED
      BY <1>1, <1>2, <1>3, <1>7, <2>1, <2>2 DEF show
  <1> QED
    BY <1>4, <1>5, <1>6, <1>7

\* What is read of a URL fits.
LEMMA ReadFits ==
  ASSUME NEW url \in Urls
  PROVE  Fits(Read(url))
  <1> DEFINE raw == [show |-> ReadShow(url), on |-> url.on, guess |-> url.coords,
                     dated |-> url.dated]
  <1>1. /\ url.types \subseteq {"event"} \cup Kinds /\ url.status \subseteq Statuses
        /\ url.on \subseteq Dims /\ url.coords \subseteq Guesses /\ url.dated \in BOOLEAN
    BY DEF Urls
  <1>2. ReadShow(url) \subseteq Statuses \cup Kinds
    BY <1>1 DEF ReadShow
  <1>3. raw \in States
    BY <1>1, <1>2 DEF States
  <1> QED
    BY <1>3, ScopedFits DEF Read

\* The URL of a view that fits reads back to a view with that URL.
LEMMA WriteReadWrite ==
  ASSUME NEW state, Fits(state)
  PROVE  Write(Read(Write(state))) = Write(state)
  <1> DEFINE seen == [state EXCEPT !.guess = HasCoords(@)]
             url == Write(state)
  <1>1. state \in States
    BY DEF Fits
  <1>2. seen = [show |-> state.show, on |-> state.on, guess |-> HasCoords(state.guess),
                dated |-> state.dated]
    BY <1>1 DEF States
  <1>3. Fits(seen)
    <2>1. HasCoords(state.guess) \subseteq state.guess
      BY DEF HasCoords
    <2> QED
      BY <1>1, <1>2, <2>1 DEF Fits, States
  <1>4. url.on = state.on /\ url.coords = HasCoords(state.guess) /\ url.dated = state.dated
    BY DEF Write
  <1>5. ReadShow(url) = state.show
    BY <1>1, ShowComesBack
  <1>6. Read(url) = seen
    <2>1. Read(url) = Scoped(seen)
      BY <1>2, <1>4, <1>5 DEF Read
    <2> QED
      BY <1>3, <2>1, FitsIsScoped
  <1>7. /\ seen.show = state.show /\ seen.on = state.on /\ seen.dated = state.dated
        /\ HasCoords(seen.guess) = HasCoords(state.guess)
    BY <1>2, CoordsTwice
  <1> HIDE DEF seen, url
  <1>8. Write(seen) = Write(state)
    BY <1>7 DEF Write
  <1> QED
    BY <1>6, <1>8 DEF url

-----------------------------------------------------------------------------
\* A visit asked for is one.
LEMMA VisitIsOne ==
  ASSUME NEW url \in Urls, NEW as \in {"push", "replace", "traverse"}
  PROVE  /\ [to |-> url, as |-> as] \in Visits
         /\ [to |-> url, as |-> as] # NoVisit
         /\ [to |-> url, as |-> as].to = url
  <1>1. [to |-> url, as |-> as] \in Visits
    BY DEF Visits
  <1>2. NoVisit \notin Visits
    BY LinksAssumption, Zenon DEF Visits
  <1> QED
    BY <1>1, <1>2

LEMMA InitFilter == FilterInit => FilterInv
  <1> SUFFICES ASSUME FilterInit
               PROVE  FilterInv
    OBVIOUS
  <1>1. /\ query \in Urls /\ filters = Read(query) /\ snapshot = filters
        /\ written = Write(filters) /\ entries = <<query>> /\ at = 1 /\ visit = NoVisit
    BY LinksAssumption DEF FilterInit
  <1>2. Fits(filters) /\ Fits(snapshot)
    BY <1>1, ReadFits
  <1>3. entries \in Seq(Urls) /\ at \in DOMAIN entries
    BY <1>1
  <1> QED
    BY <1>1, <1>2, <1>3 DEF FilterInv, VisitTyped, WrittenIsSnapshot, NothingMissed, QueryNames

\* What the invariant says of the filters and the history, piece by piece.
LEMMA FilterPieces ==
  ASSUME FilterInv
  PROVE  /\ Fits(filters) /\ Fits(snapshot) /\ filters \in States /\ snapshot \in States
         /\ query \in Urls /\ written \in Urls
         /\ entries \in Seq(Urls) /\ at \in DOMAIN entries
         /\ Len(entries) \in Nat /\ DOMAIN entries = 1 .. Len(entries)
         /\ \A i \in DOMAIN entries : entries[i] \in Urls
         /\ visit # NoVisit => visit \in Visits
         /\ written = Write(snapshot)
  BY WriteIsUrl DEF FilterInv, Fits, VisitTyped, WrittenIsSnapshot

\* A control changes the panel, and nothing of what the page wrote.
LEMMA PanelKeeps ==
  ASSUME FilterInv, Fits(filters'),
         UNCHANGED <<snapshot, written, query, entries, at, visit, outrun>>
  PROVE  FilterInv'
  BY DEF FilterInv, VisitTyped, WrittenIsSnapshot, NothingMissed, QueryNames

LEMMA PatchKeeps ==
  ASSUME FilterInv, Clear \/ \E change \in Changes : Patch(change)
  PROVE  FilterInv'
  <1>1. NoFilters \in States /\ Fits(NoFilters)
    BY DEF NoFilters, States, Fits, ShowsEvents, Offered
  <1>2. Changes \subseteq States
    <2> SUFFICES ASSUME NEW change \in Changes
                 PROVE  change \in States
      OBVIOUS
    <2>1. /\ filters \in States /\ filters.show \subseteq Statuses \cup Kinds
          /\ filters.on \subseteq Dims /\ filters.guess \subseteq Guesses
          /\ filters.dated \in BOOLEAN
      BY FilterPieces DEF States
    <2>2. Offered(filters.show) \subseteq Dims
      BY <2>1, FilterPieces, FilterAssumption DEF Offered, ShowsEvents
    <2>3. CASE \E s \in Statuses \cup Kinds : change = [filters EXCEPT !.show = Flip(@, s)]
      BY <2>1, <2>3 DEF Flip, States
    <2>4. CASE \E d \in Offered(filters.show) : change = [filters EXCEPT !.on = Flip(@, d)]
      BY <2>1, <2>2, <2>4 DEF Flip, States
    <2>5. CASE \E g \in Guesses : change = [filters EXCEPT !.guess = Flip(@, g)]
      BY <2>1, <2>5 DEF Flip, States
    <2>6. CASE change = [filters EXCEPT !.dated = ~@]
      BY <2>1, <2>6 DEF States
    <2> QED
      BY <2>3, <2>4, <2>5, <2>6 DEF Changes
  <1> QED
    BY <1>1, <1>2, ScopedFits, PanelKeeps DEF Clear, Patch

\* The page writes the URL of its view, or had written it: either way the visit on its way, and
\* the URL it is on, are judged against the URL of the view.
LEMMA CommitKeeps ==
  ASSUME FilterInv, Commit
  PROVE  FilterInv'
  <1> DEFINE url == Write(filters)
  <1>1. /\ snapshot' = filters /\ filters' = filters
        /\ UNCHANGED <<query, entries, at, outrun>>
    BY DEF Commit
  <1>2. url \in Urls /\ Write(Read(url)) = url
    BY FilterPieces, WriteIsUrl, WriteReadWrite
  <1>3. CASE url = written /\ UNCHANGED <<written, visit>>
    BY <1>1, <1>3, FilterPieces
       DEF FilterInv, VisitTyped, WrittenIsSnapshot, NothingMissed, QueryNames
  <1>4. CASE url # written /\ written' = url
             /\ \E as \in {"push", "replace"} : visit' = [to |-> url, as |-> as]
    <2>1. visit' \in Visits /\ visit'.to = url /\ visit' # NoVisit
      <3>1. PICK as \in {"push", "replace"} : visit' = [to |-> url, as |-> as]
        BY <1>4
      <3> HIDE DEF url
      <3> QED
        BY <1>2, <3>1, VisitIsOne
    <2>2. NothingMissed'
      BY <1>1, <1>2, <1>4, <2>1 DEF NothingMissed, QueryNames
    <2> QED
      BY <1>1, <1>4, <2>1, <2>2, FilterPieces DEF FilterInv, VisitTyped, WrittenIsSnapshot
  <1> QED
    BY <1>3, <1>4 DEF Commit

\* A visit asked for while another is on its way outruns it when it is of the URL the page is on.
LEMMA VisitKeeps ==
  ASSUME FilterInv, NEW url \in Urls, NEW as \in {"push", "traverse"}, Visit(url, as),
         UNCHANGED <<filters, snapshot, written, query, entries>>, at' \in DOMAIN entries
  PROVE  FilterInv'
  <1>1. /\ visit' \in Visits /\ visit'.to = url /\ visit' # NoVisit
    BY VisitIsOne DEF Visit
  <1>2. ~outrun' => ~outrun /\ (visit = NoVisit \/ url # query)
    BY Zenon DEF Visit
  <1>3. NothingMissed'
    BY <1>1, <1>2 DEF FilterInv, NothingMissed, QueryNames
  <1> QED
    BY <1>1, <1>3 DEF FilterInv, VisitTyped, WrittenIsSnapshot

LEMMA NavigateKeeps ==
  ASSUME FilterInv,
         \/ \E url \in LinksIn : Follow(url)
         \/ \E type \in {"event"} \cup Kinds : SeeAll(type)
         \/ \E i \in DOMAIN entries : Traverse(i)
  PROVE  FilterInv'
  <1>1. ASSUME NEW url \in Urls, Follow(url)
        PROVE  FilterInv'
    BY <1>1, VisitKeeps, FilterPieces DEF Follow
  <1>2. ASSUME NEW type \in {"event"} \cup Kinds, SeeAll(type)
        PROVE  FilterInv'
    <2>1. ASSUME NEW show \in SUBSET (Statuses \cup Kinds)
          PROVE  [snapshot EXCEPT !.show = show] \in States
      BY FilterPieces DEF States
    <2>2. PICK state \in States : Follow(Write(state))
      <3> DEFINE statuses == snapshot.show \cap Statuses
      <3>1. CASE type = "event"
        <4>1. Follow(Write([snapshot EXCEPT !.show = IF statuses = {} THEN Statuses
                                                                    ELSE statuses]))
          BY <1>2, <3>1 DEF SeeAll
        <4>2. (IF statuses = {} THEN Statuses ELSE statuses) \in SUBSET (Statuses \cup Kinds)
          OBVIOUS
        <4> HIDE DEF statuses
        <4> QED
          BY <2>1, <4>1, <4>2
      <3>2. CASE type # "event"
        <4>1. Follow(Write(Scoped([snapshot EXCEPT !.show = {type}])))
          BY <1>2, <3>2 DEF SeeAll
        <4>2. [snapshot EXCEPT !.show = {type}] \in States
          BY <2>1, <3>2
        <4>3. Scoped([snapshot EXCEPT !.show = {type}]) \in States
          BY <4>2, ScopedFits DEF Fits
        <4> QED
          BY <4>1, <4>3
      <3> QED
        BY <3>1, <3>2
    <2> QED
      BY <1>1, <2>2, WriteIsUrl
  <1>3. ASSUME NEW i \in DOMAIN entries, Traverse(i)
        PROVE  FilterInv'
    <2>1. /\ at' = i /\ Visit(entries[i], "traverse") /\ entries[i] \in Urls
          /\ UNCHANGED <<filters, snapshot, written, query, entries>>
      BY <1>3, FilterPieces DEF Traverse
    <2> QED
      BY <2>1, VisitKeeps
  <1> QED
    BY <1>1, <1>2, <1>3, LinksAssumption

\* The visit lands: its URL is read as a view, or is the page's own write coming back.
LEMMA LandKeeps ==
  ASSUME FilterInv, Land
  PROVE  FilterInv'
  <1>1. /\ visit # NoVisit /\ visit' = NoVisit /\ query' = visit.to /\ outrun' = outrun
        /\ visit.to \in Urls
    BY FilterPieces DEF Land, Visits
  <1>2. entries' \in Seq(Urls) /\ at' \in DOMAIN entries'
    <2>1. CASE visit.as = "push"
      <3> DEFINE kept == SubSeq(entries, 1, at)
      <3>1. at \in 1 .. Len(entries) /\ Len(entries) \in Nat
        BY FilterPieces
      <3>2. kept \in Seq(Urls) /\ Len(kept) = at
        BY <3>1, FilterPieces, SubSeqProperties
      <3> HIDE DEF kept
      <3>3. entries' = Append(kept, visit.to) /\ at' = at + 1
        BY <2>1 DEF Land, kept
      <3> QED
        BY <1>1, <3>1, <3>2, <3>3
    <2>2. CASE visit.as = "replace"
      <3>1. entries' = [entries EXCEPT ![at] = visit.to] /\ at' = at
        BY <2>2 DEF Land
      <3> QED
        BY <1>1, <3>1, FilterPieces
    <2>3. CASE visit.as = "traverse"
      BY <2>3, FilterPieces DEF Land
    <2> QED
      BY <1>1, <2>1, <2>2, <2>3, FilterPieces DEF Visits
  <1>3. CASE Taken(visit.to)
    <2>1. /\ written' = Write(Read(visit.to)) /\ filters' = Read(visit.to)
          /\ snapshot' = Read(visit.to)
      BY <1>3 DEF Land
    <2>2. Fits(filters') /\ Fits(snapshot')
      BY <1>1, <2>1, ReadFits
    <2> QED
      BY <1>1, <1>2, <2>1, <2>2
         DEF FilterInv, VisitTyped, WrittenIsSnapshot, NothingMissed, QueryNames
  <1>4. CASE ~Taken(visit.to)
    <2>1. UNCHANGED <<written, filters, snapshot>>
      BY <1>4 DEF Land
    <2>2. visit.to = query \/ Write(Read(visit.to)) = written
      BY <1>4 DEF Taken
    <2>3. NothingMissed'
      BY <1>1, <2>1, <2>2 DEF FilterInv, NothingMissed, QueryNames
    <2> QED
      BY <1>1, <1>2, <2>1, <2>3 DEF FilterInv, VisitTyped, WrittenIsSnapshot
  <1> QED
    BY <1>3, <1>4

LEMMA FilterKept == FilterInv /\ [FilterNext]_filterVars => FilterInv'
  <1> SUFFICES ASSUME FilterInv, [FilterNext]_filterVars
               PROVE  FilterInv'
    OBVIOUS
  <1>1. CASE FilterNext
    BY <1>1, PatchKeeps, CommitKeeps, LandKeeps, NavigateKeeps DEF FilterNext
  <1>2. CASE UNCHANGED filterVars
    BY <1>2 DEF filterVars, FilterInv, VisitTyped, WrittenIsSnapshot, NothingMissed, QueryNames
  <1> QED
    BY <1>1, <1>2

\* At rest, and unless a visit outran a write, the URL of the page names the view on show; and
\* no filter the panel hides narrows the list.  The URL of a view reads back to that view, so a
\* page that takes its own write for a move would lose nothing either.
THEOREM ViewIsNamed == FilterSpec => []ViewIsItsUrl
  <1>1. FilterInv => ViewIsItsUrl
    BY DEF FilterInv, Fits, WrittenIsSnapshot, NothingMissed, QueryNames, ViewIsItsUrl
  <1> QED
    BY <1>1, InitFilter, FilterKept, PTL DEF FilterSpec

-----------------------------------------------------------------------------
\* A page of rows is numbered from one, and so is a search: what SearchTyped leaves open.
LEMMA SearchTypesKept ==
  ASSUME SearchInv, SearchTypeOK, [SearchNext]_searchVars
  PROVE  SearchTypeOK'
  <1> DEFINE Found == [of : Searches, at : Nat \ {0}]
             Lists == results # NoResults => /\ results.request \in Searches
                                             /\ results.pages \in Seq(Found)
  <1>0. /\ SearchTyped /\ Lists /\ MaxAsks \in Nat
        /\ latest \in 0 .. MaxAsks /\ asked \subseteq [id : 1 .. MaxAsks, request : Searches]
        /\ selection.key \in Views /\ selection.picked \subseteq Found
    BY SearchAssumption DEF SearchInv, SearchTypeOK
  <1>1. SearchTyped'
    BY SearchStep DEF SearchInv, searchVars, SearchTyped
  <1>2. latest' \in 0 .. MaxAsks /\ asked' \subseteq [id : 1 .. MaxAsks, request : Searches]
    <2>1. ASSUME NEW q \in Views, StartSearch(q)
          PROVE  /\ latest' \in 0 .. MaxAsks
                 /\ asked' \subseteq [id : 1 .. MaxAsks, request : Searches]
      <3>1. latest' = latest + 1 /\ latest' \in 1 .. MaxAsks
        BY <1>0, <2>1 DEF StartSearch
      <3>2. q # Nowhere => q \in Searches
        BY DEF Views
      <3>3. asked' = asked \/ (q # Nowhere /\ asked' = asked \cup {[id |-> latest', request |-> q]})
        BY <2>1 DEF StartSearch
      <3> QED
        BY <1>0, <3>1, <3>2, <3>3
    <2>2. CASE CommitInput \/ RetrySearch \/ \E q \in Views : MoveTo(q)
      <3>1. \E q \in Views : StartSearch(q)
        BY <1>0, <2>2 DEF CommitInput, RetrySearch, MoveTo, SearchTyped
      <3> QED
        BY <2>1, <3>1
    <2>3. CASE \/ ShowMore \/ LandFurther \/ ClearSelection \/ UNCHANGED searchVars
               \/ (\E q \in Views : Type(q)) \/ \E page \in Hits : Toggle(page)
      BY <1>0, <2>3 DEF ShowMore, LandFurther, ClearSelection, searchVars, Type, Toggle
    <2>4. CASE \E a \in asked : LandSearch(a)
      BY <1>0, <2>4 DEF LandSearch
    <2> QED
      BY <2>2, <2>3, <2>4 DEF SearchNext
  <1>3. Lists'
    <2>1. ASSUME NEW q \in Views, StartSearch(q)
          PROVE  Lists'
      BY <1>0, <2>1 DEF StartSearch
    <2>2. CASE CommitInput \/ RetrySearch \/ \E q \in Views : MoveTo(q)
      <3>1. \E q \in Views : StartSearch(q)
        BY <1>0, <2>2 DEF CommitInput, RetrySearch, MoveTo, SearchTyped
      <3> QED
        BY <2>1, <3>1
    <2>3. CASE \/ ShowMore \/ ClearSelection \/ UNCHANGED searchVars
               \/ (\E q \in Views : Type(q)) \/ \E page \in Hits : Toggle(page)
      <3>1. results' = results
        BY <2>3 DEF ShowMore, ClearSelection, searchVars, Type, Toggle
      <3> QED
        BY <1>0, <3>1
    <2>4. ASSUME NEW a \in asked, LandSearch(a)
          PROVE  Lists'
      <3>1. a.request \in Searches
        BY <1>0
      <3>2. PageOf(a.request, 1) \in Found
        BY <3>1 DEF PageOf
      <3>3. <<PageOf(a.request, 1)>> \in Seq(Found)
        BY <3>2
      <3>4. \/ results' = results
            \/ results' = [request |-> a.request, pages |-> <<PageOf(a.request, 1)>>,
                           cursor |-> NextCursor(a.request, 1)]
        BY <2>4 DEF LandSearch
      <3> HIDE DEF Found
      <3>5. CASE results' = results
        BY <1>0, <3>5
      <3>6. CASE results' = [request |-> a.request, pages |-> <<PageOf(a.request, 1)>>,
                             cursor |-> NextCursor(a.request, 1)]
        <4>1. results'.request = a.request /\ results'.pages = <<PageOf(a.request, 1)>>
          BY <3>6
        <4> QED
          BY <3>1, <3>3, <4>1
      <3> QED
        BY <3>4, <3>5, <3>6
    <2>5. CASE LandFurther
      <3> DEFINE turn == furtherPage.cursor + 1
                 found == PageOf(furtherPage.request, turn)
                 next == NextCursor(furtherPage.request, turn)
      <3>1. furtherPage.request \in Searches /\ turn \in Nat \ {0}
        BY <1>0, <2>5 DEF LandFurther, SearchTyped, FurtherPages
      <3>2. found \in Found
        BY <3>1 DEF PageOf
      <3>3. results' = results \/ (/\ results # NoResults
                                   /\ results' = [results EXCEPT !.pages = Append(@, found),
                                                                 !.cursor = next])
        BY <2>5 DEF LandFurther
      <3> HIDE DEF turn, found, next, Found
      <3>4. CASE /\ results # NoResults
                 /\ results' = [results EXCEPT !.pages = Append(@, found), !.cursor = next]
        <4>1. results \in ResultLists
          BY <1>0, <3>4 DEF SearchTyped
        <4>2. results'.request = results.request /\ results'.pages = Append(results.pages, found)
          BY <3>4, <4>1 DEF ResultLists
        <4>3. Append(results.pages, found) \in Seq(Found)
          BY <1>0, <3>2, <3>4
        <4> QED
          BY <1>0, <3>4, <4>2, <4>3
      <3> QED
        BY <1>0, <3>3, <3>4
    <2> QED
      BY <2>2, <2>3, <2>4, <2>5 DEF SearchNext
  <1>4. selection'.key \in Views /\ selection'.picked \subseteq Found
    <2>1. Picked \subseteq Found
      BY <1>0 DEF Picked
    <2>2. Hits \subseteq Found
      <3> HIDE DEF Found
      <3>1. CASE results = NoResults \/ results.request \notin InList
        BY <3>1 DEF Hits
      <3>2. CASE results # NoResults /\ results.request \in InList
        <4>1. \A i \in DOMAIN results.pages : results.pages[i] \in Found
          BY <1>0, <3>2
        <4> QED
          BY <3>2, <4>1 DEF Hits
      <3> QED
        BY <3>1, <3>2
    <2>3. committed \in Views
      BY <1>0 DEF SearchTyped
    <2> HIDE DEF Found
    <2>4. ASSUME NEW page \in Hits, Toggle(page)
          PROVE  selection'.key \in Views /\ selection'.picked \subseteq Found
      BY <2>1, <2>2, <2>3, <2>4 DEF Toggle
    <2>5. CASE ClearSelection
      BY <2>3, <2>5 DEF ClearSelection
    <2>6. CASE selection' = selection
      BY <1>0, <2>6
    <2> QED
      BY <2>4, <2>5, <2>6
         DEF SearchNext, searchVars, Type, MoveTo, CommitInput, RetrySearch, ShowMore, LandFurther,
             LandSearch
  <1>5. /\ searchLoading' \in BOOLEAN /\ failed' \in BOOLEAN
        /\ input' \in Views /\ committed' \in Views
    BY <1>1 DEF SearchTyped
  <1> HIDE DEF Found
  <1>6. Lists' <=> (results' # NoResults => /\ results'.request \in Searches
                                            /\ results'.pages \in Seq(Found))
    OBVIOUS
  <1> QED
    BY <1>2, <1>3, <1>4, <1>5 DEF SearchTypeOK, Found

\* What a page that shows the archive holds, and what its requests carry, is what they are
\* declared to be.
THEOREM BrowseTypes ==
  /\ ListSpec => []ListTypeOK
  /\ SearchSpec => []SearchTypeOK
  /\ MapSpec => []MapTypeOK
  /\ FilterSpec => []FilterTypeOK
  <1>1. ListInv => ListTypeOK
    BY DEF ListInv
  <1>2. MapInv => MapTypeOK
    BY DEF MapInv
  <1>3. FilterInv => FilterTypeOK
    BY FilterPieces DEF Visits, FilterTypeOK
  <1>4. ASSUME SearchInit
        PROVE  SearchTypeOK
    <2>1. searchLoading \in BOOLEAN /\ failed \in BOOLEAN
      BY <1>4 DEF SearchInit
    <2>2. latest \in 0 .. MaxAsks
      BY <1>4, SearchAssumption DEF SearchInit
    <2>3. selection.key = Nowhere /\ selection.picked = {} /\ Nowhere \in Views
      BY <1>4 DEF SearchInit, Views
    <2> QED
      BY <1>4, <2>1, <2>2, <2>3 DEF SearchInit, SearchTypeOK
  <1>5. SearchInv /\ SearchTypeOK /\ [SearchNext]_searchVars => SearchTypeOK'
    BY SearchTypesKept
  <1>6. SearchInv /\ [SearchNext]_searchVars => SearchInv'
    BY SearchStep DEF SearchInv, searchVars, SearchTyped, NewestIsCommitted, RestingPageAnswers
  <1> QED
    BY <1>1, <1>2, <1>3, <1>4, <1>5, <1>6, InitList, ListKept, MapInvariance, InitFilter,
       FilterKept, InitSearch, PTL DEF ListSpec, FilterSpec, SearchSpec
=============================================================================
