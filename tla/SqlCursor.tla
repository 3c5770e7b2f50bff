----------------------------- MODULE SqlCursor -----------------------------
(***************************************************************************)
(* Query results and server cursors on one connection: the database/sql    *)
(* driver (sql/v1: conn, rows) and the paging calls of the binary client   *)
(* (QuerySQL, QuerySQLCursorGetPage, ResourceClose).  database/sql uses a  *)
(* connection from one goroutine at a time, so an operation is one step.   *)
(*                                                                         *)
(* A statement's rows are reduced to their number.  The server keeps a     *)
(* cursor while it has rows the client has not fetched, drops it with the  *)
(* last page, and drops all of them with the connection (external).        *)
(***************************************************************************)
EXTENDS Integers

CONSTANTS MaxQueries,   \* bound: statements executed
          MaxRows,      \* bound: rows of a result
          PageSize,     \* conn.info.PageSize, QuerySQLData.PageSize
          ExecPageSize  \* the constant page size of ExecContext

ASSUME SizesAssumption == /\ MaxQueries \in Nat /\ MaxRows \in Nat
                          /\ PageSize \in Nat \ {0} /\ ExecPageSize \in Nat \ {0}

VARIABLES conn,     \* "open", or "closed" once conn.Close has run
          link,     \* the TCP connection: "up" or "down"
          used,     \* whether a request has been sent: the first one has id 0
          q,        \* statements executed so far; a cursor has its statement's number
          left,     \* for each statement, the rows its server cursor still holds
          h         \* for each statement, the client's result

vars == <<conn, link, used, q, left, h>>

Stmts == 1..MaxQueries

\* api: who asked; id: the id the client would use for the cursor; rowsLeft
\* and hasMore as in rows, or as in QuerySQLResult; got: rows handed out; lost:
\* rows of pages whose reading failed; total: rows of the result.  Of the
\* states, "failed" and "undecoded" are errors the caller is given; "broken" is
\* a panic over a value of a row, "panicked" one at the end of a page.
NoResult == [api |-> "none", state |-> "none", id |-> 0, rowsLeft |-> 0,
             hasMore |-> FALSE, got |-> 0, lost |-> 0, total |-> 0]

Init == /\ conn = "open"
        /\ link = "up"
        /\ used = FALSE
        /\ q = 0
        /\ left = [s \in Stmts |-> 0]
        /\ h = [s \in Stmts |-> NoResult]

MinOf(a, b) == IF a <= b THEN a ELSE b

isConnected == conn = "open"     \* it does not notice that the link is down
Live == conn = "open" /\ link = "up"

-----------------------------------------------------------------------------
(* The server (external)                                                   *)

FirstPage(total, size) == MinOf(total, size)

\* Executing a statement opens a cursor if the result exceeds its first page.
ServerExecutes(total, size) ==
    /\ Live
    /\ q < MaxQueries
    /\ q' = q + 1
    /\ used' = TRUE
    /\ left' = [left EXCEPT ![q + 1] = total - FirstPage(total, size)]

-----------------------------------------------------------------------------
(* The database/sql driver                                                 *)

\* QueryContext and newRows.  The rows object takes its id from
\* result.ResponseId, which ReadQuerySQLResponseHeader does not set.
QueryContext(total) ==
    /\ isConnected
    /\ ServerExecutes(total, PageSize)
    /\ h' = [h EXCEPT ![q + 1] =
               [api |-> "rows", state |-> "open", id |-> 0,
                rowsLeft |-> FirstPage(total, PageSize), hasMore |-> total > PageSize,
                got |-> 0, lost |-> 0, total |-> total]]
    /\ UNCHANGED <<conn, link>>

\* The header, the metadata, the row count or (but for QueryContext, which
\* leaves them to Next) a row cannot be read: the response is dropped with an
\* error, or with a panic when a row's column has no origin
\* (GetColumnOriginNameById) or its NULL or cut short value is one that the
\* conversion by GoKind or the decoder cannot take.
Undecodable(api, total) ==
    /\ isConnected
    /\ ServerExecutes(total, IF api = "exec" THEN ExecPageSize ELSE PageSize)
    /\ \E state \in {"undecoded"} \cup (IF api # "rows" /\ total > 0 THEN {"broken"} ELSE {}) :
           h' = [h EXCEPT ![q + 1] =
                   [api |-> api, state |-> state, id |-> 0, rowsLeft |-> 0,
                    hasMore |-> FALSE, got |-> 0, lost |-> 0, total |-> total]]
    /\ UNCHANGED <<conn, link>>

\* Fault: no check that a row is left.
NextRowUnchecked(s) ==
    /\ h[s].api = "rows" /\ h[s].state = "open"
    /\ h' = [h EXCEPT ![s].rowsLeft = @ - 1, ![s].got = @ + 1]
    /\ UNCHANGED <<conn, link, used, q, left>>

NextRow(s) ==
    /\ h[s].api = "rows" /\ h[s].state = "open"
    /\ h[s].rowsLeft > 0
    /\ h' = [h EXCEPT ![s].rowsLeft = @ - 1, ![s].got = @ + 1]
    /\ UNCHANGED <<conn, link, used, q, left>>

\* A row that cannot be read ends Next before rowsLeft--: with an error, or
\* with a panic (a NULL in a type assertion, a value cut short in a decoder).
NextUndecodable(s) ==
    /\ h[s].api = "rows" /\ h[s].state = "open"
    /\ h[s].rowsLeft > 0
    /\ \E state \in {"failed", "broken"} : h' = [h EXCEPT ![s].state = state]
    /\ UNCHANGED <<conn, link, used, q, left>>

\* Fault: io.EOF at the end of a page.
NextEofEarly(s) ==
    /\ h[s].api = "rows" /\ h[s].state = "open"
    /\ h[s].rowsLeft = 0
    /\ h' = [h EXCEPT ![s].state = "eof"]
    /\ UNCHANGED <<conn, link, used, q, left>>

NextEof(s) ==
    /\ h[s].api = "rows" /\ h[s].state = "open"
    /\ h[s].rowsLeft = 0 /\ ~h[s].hasMore
    /\ h' = [h EXCEPT ![s].state = "eof"]
    /\ UNCHANGED <<conn, link, used, q, left>>

\* Fault: a next page is asked for though there is none.
NextPageAlways(s) ==
    /\ h[s].api = "rows" /\ h[s].state = "open"
    /\ h[s].rowsLeft = 0
    /\ h' = [h EXCEPT ![s].state = IF isConnected THEN "panicked" ELSE "failed"]
    /\ UNCHANGED <<conn, link, used, q, left>>

\* The next page: QueryNexPageContext returns ErrBadConn on a closed
\* connection; otherwise it calls QuerySQLFieldsCursorGetPageRaw, which
\* client does not implement: the call goes to the nil embedded interface.
NextPage(s) ==
    /\ h[s].api = "rows" /\ h[s].state = "open"
    /\ h[s].rowsLeft = 0 /\ h[s].hasMore
    /\ h' = [h EXCEPT ![s].state = IF isConnected THEN "panicked" ELSE "failed"]
    /\ UNCHANGED <<conn, link, used, q, left>>

\* ResourceClose: nothing for id 0.  Otherwise it sends the operation without
\* the cursor's id, which the server answers with an error.
ResourceCloseFails(id) == id # 0

\* rows.Close: resourceClose(r.id) when rows are left, which is for id 0 a
\* no-op, or ErrBadConn on a closed connection.  A deferred Close runs after a
\* panic too.
RowsClose(s) ==
    /\ h[s].api = "rows" /\ h[s].state \in {"open", "eof", "failed", "broken", "panicked"}
    /\ h' = [h EXCEPT ![s].state = "closed", ![s].rowsLeft = 0]
    /\ used' = (used \/ (h[s].rowsLeft > 0 /\ isConnected /\ ResourceCloseFails(h[s].id)))
    /\ UNCHANGED <<conn, link, q, left>>

\* Fault: the request to close a cursor carries the id it is given.
ExecContextCloses(total) ==
    /\ isConnected /\ Live /\ q < MaxQueries
    /\ q' = q + 1
    /\ used' = TRUE
    /\ left' = [s \in Stmts |-> IF s = q + 1 \/ (s = 1 /\ total > ExecPageSize) THEN 0 ELSE left[s]]
    /\ h' = [h EXCEPT ![q + 1] = [NoResult EXCEPT !.api = "exec", !.state = "closed", !.total = total]]
    /\ UNCHANGED <<conn, link>>

\* ExecContext: when more pages follow it closes res.ResponseId, the id of
\* the request: 0 for the first request of a connection.
ExecContext(total) ==
    /\ isConnected
    /\ ServerExecutes(total, ExecPageSize)
    /\ LET hasMore == total > ExecPageSize
           responseId == IF used THEN 1 ELSE 0
       IN  h' = [h EXCEPT ![q + 1] =
                   [api |-> "exec",
                    state |-> IF hasMore /\ ResourceCloseFails(responseId)
                              THEN "failed" ELSE "closed",
                    id |-> 0, rowsLeft |-> 0, hasMore |-> hasMore, got |-> 0, lost |-> 0,
                    total |-> total]]
    /\ UNCHANGED <<conn, link>>

\* Ping: SELECT 1 and one Next; its one-row result needs no cursor, and the
\* rows object it leaves open has no row left.
Ping == /\ Live
        /\ used' = TRUE
        /\ UNCHANGED <<conn, link, q, left, h>>

\* conn.Close closes the client; the server drops the connection's cursors.
ConnClose ==
    /\ conn = "open"
    /\ conn' = "closed"
    /\ left' = [s \in Stmts |-> 0]
    /\ UNCHANGED <<link, used, q, h>>

-----------------------------------------------------------------------------
(* The binary client's own paging                                          *)

QuerySQL(total) ==
    /\ ServerExecutes(total, PageSize)
    /\ h' = [h EXCEPT ![q + 1] =
               [api |-> "pages", state |-> "open",
                id |-> IF total > PageSize THEN q + 1 ELSE 0,
                rowsLeft |-> 0, hasMore |-> total > PageSize,
                got |-> FirstPage(total, PageSize), lost |-> 0, total |-> total]]
    /\ UNCHANGED <<conn, link>>

\* The server gives the next page of the cursor with the id the client holds.
ServerGivesPage(id) ==
    /\ Live
    /\ left[id] > 0
    /\ left' = [left EXCEPT ![id] = @ - FirstPage(@, PageSize)]
    /\ UNCHANGED <<conn, link, used, q>>

\* The page's rows, then whether there are more.
ReadPage(s) ==
    LET page == FirstPage(left[h[s].id], PageSize)
    IN  h' = [h EXCEPT ![s].state = "open", ![s].got = @ + page,
                       ![s].hasMore = left[h[s].id] > page]

\* Fault: the error over a row of the page is swallowed.
LosePageUnnoticed(s) ==
    h' = [h EXCEPT ![s].state = "open", ![s].hasMore = left[h[s].id] > PageSize]

\* A row of the page cannot be read: an error, with which the page counts as
\* lost, or a panic, as in Undecodable.  The server has moved on all the same.
LosePage(s) ==
    \E state \in {"failed", "broken"} :
       h' = [h EXCEPT ![s].state = state, ![s].lost = @ + FirstPage(left[h[s].id], PageSize)]

\* QuerySQLCursorGetPage(ResourceId).
QuerySQLCursorGetPage(s) ==
    /\ h[s].api = "pages" /\ h[s].state = "open" /\ h[s].hasMore
    /\ ServerGivesPage(h[s].id)
    /\ ReadPage(s)

GetPageUndecodable(s) ==
    /\ h[s].api = "pages" /\ h[s].state = "open" /\ h[s].hasMore
    /\ ServerGivesPage(h[s].id)
    /\ LosePage(s)

\* The caller of a call that failed asks again.  It is given the page after the
\* lost one; if that was the last, the server refuses and nothing changes.
RetryPage(s) ==
    /\ h[s].api = "pages" /\ h[s].state \in {"failed", "broken"} /\ h[s].hasMore
    /\ ServerGivesPage(h[s].id)
    /\ ReadPage(s) \/ LosePage(s)

\* Fault: the error is dropped, and with it the page: HasMore stays true.
GetPageFailsUnnoticed(s) ==
    /\ h[s].api = "pages" /\ h[s].state = "open" /\ h[s].hasMore
    /\ ~Live
    /\ UNCHANGED vars

\* The request cannot be sent or answered, or the server has no such cursor.
GetPageFails(s) ==
    /\ h[s].api = "pages" /\ h[s].state = "open" /\ h[s].hasMore
    /\ ~Live \/ left[h[s].id] = 0
    /\ h' = [h EXCEPT ![s].state = "failed"]
    /\ UNCHANGED <<conn, link, used, q, left>>

\* The caller has seen HasMore = false.
LastPage(s) ==
    /\ h[s].api = "pages" /\ h[s].state = "open" /\ ~h[s].hasMore
    /\ h' = [h EXCEPT ![s].state = "eof"]
    /\ UNCHANGED <<conn, link, used, q, left>>

\* The caller gives up and closes the cursor.
ResourceClose(s) ==
    /\ h[s].api = "pages" /\ h[s].state \in {"open", "failed"}
    /\ Live
    /\ h' = [h EXCEPT ![s].state = IF ResourceCloseFails(h[s].id) THEN "unclosed" ELSE "closed"]
    /\ UNCHANGED <<conn, link, used, q, left>>

-----------------------------------------------------------------------------

LinkDown ==
    /\ link = "up"
    /\ link' = "down"
    /\ left' = [s \in Stmts |-> 0]
    /\ UNCHANGED <<conn, used, q, h>>

Progress(s) == \/ NextRow(s) \/ NextEof(s) \/ NextPage(s)
               \/ QuerySQLCursorGetPage(s) \/ GetPageFails(s) \/ LastPage(s)

Iterate(s) == Progress(s) \/ NextUndecodable(s) \/ GetPageUndecodable(s) \/ RetryPage(s)

Next ==
    \/ \E total \in 0..MaxRows : \/ QueryContext(total)
                                 \/ \E api \in {"rows", "exec", "pages"} : Undecodable(api, total)
                                 \/ ExecContext(total)
                                 \/ QuerySQL(total)
    \/ \E s \in Stmts : Iterate(s) \/ RowsClose(s) \/ ResourceClose(s)
    \/ Ping
    \/ ConnClose
    \/ LinkDown

Spec == Init /\ [][Next]_vars

\* The user of a result goes on reading it until it ends or is closed.  A row
\* that cannot be read would end it too, but need not come, and nobody has to
\* retry.
FairSpec == Spec /\ \A s \in Stmts : WF_vars(Progress(s))

-----------------------------------------------------------------------------
(* Properties                                                              *)

Results == [api : {"none", "rows", "exec", "pages"},
            state : {"none", "open", "eof", "failed", "undecoded", "broken", "closed",
                     "unclosed", "panicked"},
            id : {0} \cup Stmts, rowsLeft : 0..MaxRows, hasMore : BOOLEAN,
            got : 0..MaxRows, lost : 0..MaxRows, total : 0..MaxRows]

\* The results and cursors have their types; rows are numbers up to MaxRows.
TypeOK == /\ conn \in {"open", "closed"}
          /\ link \in {"up", "down"}
          /\ used \in BOOLEAN
          /\ q \in 0..MaxQueries
          /\ left \in [Stmts -> 0..MaxRows]
          /\ h \in [Stmts -> Results]

\* What has left the server for the client: rows handed out, rows buffered and
\* rows of pages the client could not read.
Fetched(s) == h[s].got + h[s].rowsLeft + h[s].lost

\* More of the result is to come.
Unfinished(s) == \/ h[s].state = "open"
                 \/ h[s].api = "pages" /\ h[s].state \in {"failed", "broken"}

\* Between the server's cursor, the client's buffer and the caller no row is
\* repeated, and none is lost but those of a page whose call failed, also when
\* the caller asks again after that (rows.go:73-133, QuerySQLCursorGetPage,
\* which gives back the page after the one it could not read).
NoRowLostOrRepeated ==
    \A s \in Stmts : Unfinished(s) =>
        /\ h[s].state = "open" /\ ~h[s].hasMore => Fetched(s) = h[s].total
        /\ h[s].hasMore /\ Live => Fetched(s) + left[s] = h[s].total

\* rows.Next returns io.EOF only when every row of the result has been handed
\* out (rows.go:74-77); pages end only when every row has been handed out or
\* was on a page whose call failed.
EofMeansComplete ==
    \A s \in Stmts : h[s].state = "eof" =>
        /\ h[s].got + h[s].lost = h[s].total
        /\ h[s].api = "rows" => h[s].lost = 0

\* A result that fits in one page needs no cursor: none stays on the server,
\* Next does not reach for a next page at its end (rows.go:75, 78), and
\* ExecContext has none to close and fail over (conn.go:113-117).  It may still
\* end with an error or a panic over one of its values.
OnePageNeedsNoCursor ==
    \A s \in Stmts :
        h[s].total <= (IF h[s].api = "exec" THEN ExecPageSize ELSE PageSize) =>
            /\ left[s] = 0
            /\ h[s].state # "panicked"
            /\ h[s].api = "exec" => h[s].state # "failed"

KeepsApart ==
    \A s \in Stmts : Live' /\ left'[s] # left[s] =>
        \/ s = q' /\ q' = q + 1
        \/ h[s].api = "pages" /\ h'[s] # h[s] /\ left'[s] < left[s]

\* On a live connection a cursor changes only in a step of its own result: no
\* other statement, and no close by whatever id (conn.go:114 closes the id of
\* the request, rows.go:58 the id 0, client-sql-and-scan-queries.go:618 sends
\* none), takes rows from it.
CursorsKeepApart == [][KeepsApart]_vars

\* Reading a result to its end comes to an end.
IterationEnds == \A s \in Stmts : h[s].state = "open" ~> h[s].state # "open"

\* "Next should return io.EOF when there are no more rows" and populates the
\* next row otherwise (rows.go:63-67): it does not panic at the end of a page.
EndOfPageNeverPanics == \A s \in Stmts : h[s].state # "panicked"

-----------------------------------------------------------------------------
(* The inductive invariant                                                 *)

ResultOK(s) ==
    /\ s > q => h[s] = NoResult /\ left[s] = 0
    /\ h[s].api = "pages" /\ Unfinished(s) => h[s].rowsLeft = 0 /\ (h[s].hasMore => h[s].id = s)
    /\ h[s].api = "rows" => h[s].lost = 0
    /\ Unfinished(s) => /\ Fetched(s) <= h[s].total
                        /\ h[s].hasMore => h[s].total > PageSize
                        /\ h[s].api # "exec"

CursorInv ==
    /\ TypeOK
    /\ \A s \in Stmts : ResultOK(s)
    /\ NoRowLostOrRepeated
    /\ EofMeansComplete
    /\ OnePageNeedsNoCursor
=============================================================================
