------------------------------- MODULE Lists -------------------------------
(***************************************************************************)
(* The lists of the API, page by page: pagination.util.ts and the findAll  *)
(* of each service.  A client asks for one page after another until there  *)
(* is no next one; each request counts the rows and reads a page in two    *)
(* queries at once, while other calls insert, change and delete rows.      *)
(***************************************************************************)
EXTENDS Requests, SequencesExt

CONSTANTS
    RowIds,
    SeededRows,         \* the rows there at the start, in the order of the list
    PageSize            \* limit

VARIABLES
    rows,               \* the table, in the order of the list: [id, mine, fit]
    walk                \* what the client is doing, Null when it looks at no list

listVars == <<rows, walk>>

\* What a row is to a list: whether it belongs to the one who asks, and whether it
\* meets no condition, those of the query, or those applied after it too.
Fits == {"no", "query", "all"}
Row == [id : RowIds, mine : BOOLEAN, fit : Fits]

\* No two rows have one id, and Null is no answer of a query.
ASSUME ListsAssumption ==
    /\ PageSize \in Nat \ {0} /\ IsFiniteSet(RowIds)
    /\ SeededRows \in Seq(Row)
    /\ \A m, n \in DOMAIN SeededRows : SeededRows[m].id = SeededRows[n].id => m = n
    /\ Null \notin Nat /\ \A ids \in SUBSET RowIds : Null # ids

-----------------------------------------------------------------------------
(***************************************************************************)
(* What each list asks for.  own: rows of the one who asks; fit: rows that *)
(* meet the query's conditions; after: conditions applied to the rows of a *)
(* page; timer: the queries are given up after a time.                     *)
(***************************************************************************)
Everything == [own |-> FALSE, fit |-> FALSE, after |-> FALSE, timer |-> FALSE]

\* asked: the client names a condition.  staff: it is an administrator or manager.
Filtered(asked) == [Everything EXCEPT !.fit = asked]
OwnUnless(staff, asked) == [own |-> ~staff, fit |-> asked, after |-> FALSE, timer |-> FALSE]

UsersList == Everything
AdminLists == Everything
AdminAuditList == Everything
MessagesList(asked) == Filtered(asked)
ArticlesList(asked) == Filtered(asked)
ArticlesOfCategory == Filtered(TRUE)
EditionsList(asked) == Filtered(asked)
EditionsOfCategory == Filtered(TRUE)
InquiriesList(asked) == Filtered(asked)
ReviewsList == Filtered(TRUE)
PropertiesList == Filtered(TRUE)
ExternalBookingsList == Filtered(TRUE)
AuditList(asked) == Filtered(asked)
LogsList(asked) == Filtered(asked)
ContentList(asked) == Filtered(asked)
CleaningList(staff, asked) == OwnUnless(staff, asked)
MaintenanceList(staff, asked) == OwnUnless(staff, asked)
PaymentsList(staff, asked) == OwnUnless(staff, asked)
GroupsList(staff) == OwnUnless(staff, FALSE)
NotificationsList == OwnUnless(FALSE, FALSE)

\* Tags are compared when the page has been read, "since SQLite JSON filtering is
\* limited" (knowledge.service.ts:234).
ArticleSearch == [Everything EXCEPT !.fit = TRUE, !.after = TRUE]

BookingsList(asked) == [Filtered(asked) EXCEPT !.timer = TRUE]

ListQueries ==
    UNION {{UsersList, AdminLists, AdminAuditList, MessagesList(asked), ArticlesList(asked),
            ArticlesOfCategory, EditionsList(asked), EditionsOfCategory, InquiriesList(asked),
            ReviewsList, PropertiesList, ExternalBookingsList, AuditList(asked), LogsList(asked),
            ContentList(asked), CleaningList(staff, asked), MaintenanceList(staff, asked),
            PaymentsList(staff, asked), GroupsList(staff), NotificationsList, ArticleSearch, BookingsList(asked)} :
           staff \in BOOLEAN, asked \in BOOLEAN}

\* where, and what is left of a page.
Selects(q, x) == (q.own => x.mine) /\ (q.fit => x.fit # "no")
Keeps(q, x) == q.after => x.fit = "all"

Displays(q, x) == Selects(q, x) /\ Keeps(q, x)

\* The rows that the query selects, those of them before position n, and the rows
\* that are shown.
Ids(list) == {list[n].id : n \in DOMAIN list}
Selected(q, list) == {list[n].id : n \in {m \in DOMAIN list : Selects(q, list[m])}}
Ahead(q, list, n) == {list[m].id : m \in {k \in 1 .. n - 1 : Selects(q, list[k])}}
Displayed(q, list) == {list[n].id : n \in {m \in DOMAIN list : Displays(q, list[m])}}

-----------------------------------------------------------------------------
(***************************************************************************)
(* Pages                                                                   *)
(***************************************************************************)
\* Variant: pages are counted from zero, though clients count from one.
FromZero(page) == page * PageSize

Skip(page) == (page - 1) * PageSize

\* The positions of a page, by how many rows of the list are ahead of them.
PageOf(q, list, page) ==
    {n \in DOMAIN list : /\ Selects(q, list[n])
                         /\ Cardinality(Ahead(q, list, n)) \in Skip(page) .. Skip(page) + PageSize - 1}

TotalPages(total) == (total + PageSize - 1) \div PageSize
HasNextPage(page, total) == page < TotalPages(total)

-----------------------------------------------------------------------------
(***************************************************************************)
(* A client that reads a list                                              *)
(***************************************************************************)
\* stayed: rows to be shown, there from the beginning; left, came: some row left
\* the list or came to it; shifted: one came between the two queries of this page,
\* the count being the first; cut: the queries were given up.
OpenList ==
    /\ AtOnce("walk")
    /\ walk = Null
    /\ \E q \in ListQueries :
        walk' = [q |-> q, page |-> 1, got |-> Null, total |-> Null, ended |-> FALSE, seen |-> {},
                 stayed |-> Displayed(q, rows),
                 left |-> FALSE, came |-> FALSE, shifted |-> FALSE, cut |-> FALSE, twice |-> FALSE]
    /\ UNCHANGED rows

Walking == walk # Null /\ ~walk.ended

\* findMany, with the filter in memory.
ReadPage ==
    LET shown == {rows[n].id : n \in {m \in PageOf(walk.q, rows, walk.page) : Keeps(walk.q, rows[m])}}
    IN  /\ Walking /\ walk.got = Null
        /\ walk' = [walk EXCEPT !.got = shown, !.seen = @ \cup shown,
                                !.twice = @ \/ shown \cap walk.seen # {}]
        /\ UNCHANGED <<rows, requests>>

CountRows ==
    /\ Walking /\ walk.total = Null
    /\ walk' = [walk EXCEPT !.total = Cardinality(Selected(walk.q, rows))]
    /\ UNCHANGED <<rows, requests>>

\* Both are there: the client asks for the next page, or is done.
TurnPage ==
    /\ Walking /\ walk.got # Null /\ walk.total # Null
    /\ walk' = IF HasNextPage(walk.page, walk.total)
               THEN [walk EXCEPT !.page = @ + 1, !.got = Null, !.total = Null, !.shifted = FALSE]
               ELSE [walk EXCEPT !.ended = TRUE]
    /\ UNCHANGED <<rows, requests>>

\* "If timeout occurs, return empty results instead of crashing" (bookings.service.ts:127).
GiveUp ==
    /\ Walking /\ walk.q.timer
    /\ walk.got = Null \/ walk.total = Null
    /\ walk' = [walk EXCEPT !.ended = TRUE, !.cut = TRUE]
    /\ UNCHANGED <<rows, requests>>

CloseList ==
    /\ walk # Null /\ walk.ended
    /\ walk' = Null
    /\ UNCHANGED <<rows, requests>>

-----------------------------------------------------------------------------
(***************************************************************************)
(* Other calls                                                             *)
(***************************************************************************)
\* The table becomes list; the rest is history.
Becomes(list) ==
    /\ rows' = list
    /\ walk' = IF ~Walking THEN walk
               ELSE LET before == Selected(walk.q, rows)
                        after == Selected(walk.q, list)
                    IN  [walk EXCEPT
                            !.stayed = @ \cap Displayed(walk.q, list),
                            !.left = @ \/ ~(before \subseteq after),
                            !.came = @ \/ ~(after \subseteq before),
                            !.shifted = @ \/ (~(after \subseteq before) /\
                                              walk.total # Null /\ walk.got = Null)]

\* A row is new at the top of most lists, anywhere in one sorted otherwise.
InsertRow ==
    /\ AtOnce("insertRow")
    /\ \E i \in RowIds \ Ids(rows), mine \in BOOLEAN, fit \in Fits, at \in 1 .. Len(rows) + 1 :
        Becomes(InsertAt(rows, at, [id |-> i, mine |-> mine, fit |-> fit]))

DropRow ==
    /\ AtOnce("removeRow")
    /\ \E n \in DOMAIN rows : Becomes(RemoveAt(rows, n))

\* An edit that leaves the row where it is; one of the column the list is sorted by
\* moves it, which is DropRow and InsertRow.
EditRow ==
    /\ AtOnce("editRow")
    /\ \E n \in DOMAIN rows, fit \in Fits :
        fit # rows[n].fit /\ Becomes([rows EXCEPT ![n].fit = fit])

ListSteps ==
    \/ OpenList \/ ReadPage \/ CountRows \/ TurnPage \/ GiveUp \/ CloseList
    \/ InsertRow \/ DropRow \/ EditRow

ListsInit == rows = SeededRows /\ walk = Null

-----------------------------------------------------------------------------
\* A client that has turned every page has been shown each row that was in the list
\* all the time, though pages are counted anew with each request and rows come in
\* between: unless a row left the list or an edit moved one, one came between the
\* count and the reading of the last page, or the queries were given up.  And it has
\* been shown a row twice only if another came.
WalksMissNothing ==
    walk # Null =>
        /\ walk.ended /\ ~walk.left /\ ~walk.shifted /\ ~walk.cut => walk.stayed \subseteq walk.seen
        /\ walk.twice => walk.came
=============================================================================
