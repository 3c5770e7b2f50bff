-------------------------- MODULE SqlCursorProofs --------------------------
(***************************************************************************)
(* Proofs about SqlCursor, for any page size, result size and number of    *)
(* statements.                                                             *)
(***************************************************************************)
EXTENDS SqlCursor, TLAPS

\* A first page is a part of the result, and all of it if the result fits.
LEMMA FirstPageBounds ==
    ASSUME NEW total \in Nat, NEW size \in Nat \ {0}
    PROVE  /\ FirstPage(total, size) \in 0..total
           /\ total <= size => FirstPage(total, size) = total
           /\ total > size => FirstPage(total, size) = size
  BY DEF FirstPage, MinOf

\* The parts of the invariant that concern one statement.
StmtOK(s) ==
    /\ ResultOK(s)
    /\ Unfinished(s) =>
          /\ h[s].state = "open" /\ ~h[s].hasMore => Fetched(s) = h[s].total
          /\ h[s].hasMore /\ Live => Fetched(s) + left[s] = h[s].total
    /\ h[s].state = "eof" => /\ h[s].got + h[s].lost = h[s].total
                             /\ h[s].api = "rows" => h[s].lost = 0
    /\ h[s].total <= (IF h[s].api = "exec" THEN ExecPageSize ELSE PageSize) =>
          /\ left[s] = 0
          /\ h[s].state # "panicked"
          /\ h[s].api = "exec" => h[s].state # "failed"

\* The cursor invariant, one statement at a time.
LEMMA PerStatement == CursorInv <=> TypeOK /\ \A s \in Stmts : StmtOK(s)
  BY DEF CursorInv, NoRowLostOrRepeated, EofMeansComplete, OnePageNeedsNoCursor, StmtOK

\* The same for the next state.
LEMMA PerStatementNext == CursorInv' <=> TypeOK' /\ \A s \in Stmts : StmtOK(s)'
  BY DEF CursorInv, NoRowLostOrRepeated, EofMeansComplete, OnePageNeedsNoCursor, StmtOK

\* A statement no step touches stays in order, whether or not its cursor is
\* dropped with the connection.
LEMMA OthersKeep ==
    ASSUME TypeOK, NEW s \in Stmts, StmtOK(s), h'[s] = h[s], q' \in Nat, q <= q',
           \/ left'[s] = left[s] /\ (Live' => Live)
           \/ left'[s] = 0 /\ ~Live'
    PROVE  StmtOK(s)'
<1>1. s \in Nat /\ q \in Nat /\ left[s] \in Nat
  BY SizesAssumption DEF TypeOK, Stmts
<1> QED
  BY <1>1 DEF StmtOK, ResultOK, NoResult, Live, Unfinished, Fetched

\* The fields of a result that are numbers are natural numbers.
LEMMA ResultTypes ==
    ASSUME TypeOK, NEW s \in Stmts
    PROVE  /\ h[s] \in Results
           /\ h[s].rowsLeft \in 0..MaxRows /\ h[s].got \in 0..MaxRows /\ h[s].total \in 0..MaxRows
           /\ h[s].lost \in 0..MaxRows
           /\ left[s] \in 0..MaxRows /\ h[s].hasMore \in BOOLEAN
  BY DEF TypeOK, Results

\* The cursor invariant holds on a new connection.
LEMMA InitCursor == Init => CursorInv
<1> SUFFICES ASSUME Init PROVE TypeOK /\ \A s \in Stmts : StmtOK(s)
  BY PerStatement
<1>1. TypeOK
  <2>1. 0 \in 0..MaxRows /\ 0 \in 0..MaxQueries
    BY SizesAssumption
  <2>2. NoResult \in Results
    BY <2>1 DEF NoResult, Results
  <2> QED
    BY <2>1, <2>2 DEF Init, TypeOK
<1>2. ASSUME NEW s \in Stmts PROVE StmtOK(s)
  BY SizesAssumption DEF Init, StmtOK, ResultOK, NoResult, Unfinished, Fetched
<1> QED
  BY <1>1, <1>2

\* A statement is executed: a new result r, with the rest of the rows in a
\* cursor; the other statements are not concerned.
LEMMA NewResult ==
    ASSUME CursorInv, NEW total \in 0..MaxRows, NEW size \in Nat \ {0},
           ServerExecutes(total, size), NEW r \in Results,
           NEW k, k = q + 1,
           h' = [h EXCEPT ![k] = r], UNCHANGED <<conn, link>>,
           r.total = total, r.lost = 0, r.state \notin {"eof", "panicked"},
           size = IF r.api = "exec" THEN ExecPageSize ELSE PageSize,
           r.api = "exec" => r.state # "open" /\ (total <= size => r.state # "failed"),
           r.api = "pages" /\ r.state \in {"failed", "broken"} =>
              r.got = 0 /\ r.rowsLeft = 0 /\ ~r.hasMore,
           r.state = "open" => /\ r.got + r.rowsLeft = FirstPage(total, size)
                               /\ r.hasMore = (total > size)
                               /\ r.api = "pages" => r.rowsLeft = 0 /\ (r.hasMore => r.id = k)
    PROVE  CursorInv'
<1>1. TypeOK /\ \A s \in Stmts : StmtOK(s)
  BY PerStatement
<1>2. q \in Nat /\ k \in Stmts /\ q' = q + 1
  BY <1>1, SizesAssumption DEF ServerExecutes, TypeOK, Stmts
<1>3. total - FirstPage(total, size) \in 0..MaxRows
  BY FirstPageBounds, SizesAssumption
<1>4. TypeOK'
  <2>1. left' \in [Stmts -> 0..MaxRows] /\ h' \in [Stmts -> Results]
    BY <1>1, <1>2, <1>3 DEF ServerExecutes, TypeOK
  <2>2. q' \in 0..MaxQueries
    BY <1>2 DEF Stmts
  <2> QED
    BY <1>1, <2>1, <2>2 DEF ServerExecutes, TypeOK
<1>5. StmtOK(k)'
  <2>1. h'[k] = r /\ left'[k] = total - FirstPage(total, size)
    BY <1>1, <1>2 DEF TypeOK, ServerExecutes
  <2>2. r.got \in Nat /\ r.rowsLeft \in Nat /\ r.hasMore \in BOOLEAN
    BY SizesAssumption DEF Results
  <2>f. Fetched(k)' = r.got + r.rowsLeft
    BY <2>1, <2>2 DEF Fetched
  <2>u. Unfinished(k)' => r.state = "open" \/ (r.got = 0 /\ r.rowsLeft = 0 /\ ~r.hasMore)
    BY <2>1 DEF Unfinished
  <2>3. total \in Nat /\ FirstPage(total, size) \in Nat /\ FirstPage(total, size) <= total
    BY FirstPageBounds
  <2>4. /\ total <= size => FirstPage(total, size) = total
        /\ ~(total <= size) => total > size
    BY <2>3, FirstPageBounds
  <2>5. ResultOK(k)'
    <3>1. ~(k > q')
      BY <1>2
    <3>2. Unfinished(k)' => r.got + r.rowsLeft <= r.total
      BY <2>3, <2>u
    <3>3. Unfinished(k)' => (r.hasMore => r.total > PageSize) /\ r.api # "exec"
      BY <2>1, <2>3, <2>4, <2>u DEF Unfinished
    <3>4. r.api = "pages" /\ Unfinished(k)' => r.rowsLeft = 0 /\ (r.hasMore => r.id = k)
      BY <2>u
    <3> QED
      BY <2>1, <2>f, <3>1, <3>2, <3>3, <3>4 DEF ResultOK
  <2>6. total <= size => left'[k] = 0
    BY <2>1, <2>3, <2>4
  <2>7. r.state = "open" =>
          /\ ~r.hasMore => r.got + r.rowsLeft = r.total
          /\ r.got + r.rowsLeft + left'[k] = r.total
    BY <2>1, <2>2, <2>3, <2>4
  <2> QED
    BY <2>1, <2>f, <2>u, <2>5, <2>6, <2>7 DEF StmtOK
<1>6. ASSUME NEW s \in Stmts \ {k} PROVE StmtOK(s)'
  <2>1. h'[s] = h[s] /\ left'[s] = left[s]
    BY <1>1, <1>2 DEF ServerExecutes, TypeOK
  <2> QED
    BY <1>1, <1>2, <2>1, OthersKeep DEF Live, ServerExecutes
<1> QED
  BY <1>2, <1>4, <1>5, <1>6, PerStatementNext

\* Executing a statement by each of the four ways keeps the invariant.
LEMMA QueryContextInv ==
    ASSUME CursorInv, NEW total \in 0..MaxRows, QueryContext(total)
    PROVE  CursorInv'
<1>k. PICK k : k = q + 1
  OBVIOUS
<1>1. /\ total \in Nat /\ FirstPage(total, PageSize) \in Nat
      /\ FirstPage(total, PageSize) \in 0..MaxRows /\ 0 \in 0..MaxRows
  BY FirstPageBounds, SizesAssumption
<1>r. PICK r : r = [api |-> "rows", state |-> "open", id |-> 0,
                    rowsLeft |-> FirstPage(total, PageSize), hasMore |-> total > PageSize,
                    got |-> 0, lost |-> 0, total |-> total]
  OBVIOUS
<1>2. r \in Results
  BY <1>1, <1>r DEF Results
<1>3. /\ r.api = "rows" /\ r.state = "open" /\ r.total = total /\ r.lost = 0
      /\ r.got + r.rowsLeft = FirstPage(total, PageSize) /\ r.hasMore = (total > PageSize)
  BY <1>1, <1>r
<1>4. h' = [h EXCEPT ![k] = r] /\ ServerExecutes(total, PageSize) /\ UNCHANGED <<conn, link>>
  BY <1>k, <1>r DEF QueryContext
<1> QED
  BY <1>k, <1>2, <1>3, <1>4, NewResult, SizesAssumption

\* A response that cannot be decoded preserves the cursor invariant.
LEMMA UndecodableInv ==
    ASSUME CursorInv, NEW total \in 0..MaxRows, NEW api \in {"rows", "exec", "pages"},
           Undecodable(api, total)
    PROVE  CursorInv'
<1>k. PICK k : k = q + 1
  OBVIOUS
<1>s. PICK size : size = IF api = "exec" THEN ExecPageSize ELSE PageSize
  OBVIOUS
<1>t. PICK state \in {"undecoded", "broken"} :
           h' = [h EXCEPT ![k] = [api |-> api, state |-> state, id |-> 0, rowsLeft |-> 0,
                                  hasMore |-> FALSE, got |-> 0, lost |-> 0, total |-> total]]
  BY <1>k DEF Undecodable
<1>r. PICK r : r = [api |-> api, state |-> state, id |-> 0, rowsLeft |-> 0,
                    hasMore |-> FALSE, got |-> 0, lost |-> 0, total |-> total]
  OBVIOUS
<1>1. 0 \in 0..MaxRows /\ size \in Nat \ {0}
  BY <1>s, SizesAssumption
<1>2. r \in Results
  BY <1>1, <1>r DEF Results
<1>3. /\ r.api = api /\ r.state \in {"undecoded", "broken"} /\ r.total = total /\ r.lost = 0
      /\ r.got = 0 /\ r.rowsLeft = 0 /\ ~r.hasMore
  BY <1>r
<1>4. h' = [h EXCEPT ![k] = r] /\ ServerExecutes(total, size) /\ UNCHANGED <<conn, link>>
  BY <1>r, <1>s, <1>t DEF Undecodable
<1> QED
  BY <1>k, <1>s, <1>1, <1>2, <1>3, <1>4, NewResult

\* ExecContext preserves the cursor invariant.
LEMMA ExecContextInv ==
    ASSUME CursorInv, NEW total \in 0..MaxRows, ExecContext(total)
    PROVE  CursorInv'
<1>k. PICK k : k = q + 1
  OBVIOUS
<1>s. PICK st : st = IF total > ExecPageSize /\ ResourceCloseFails(IF used THEN 1 ELSE 0)
                     THEN "failed" ELSE "closed"
  OBVIOUS
<1>r. PICK r : r = [api |-> "exec", state |-> st, id |-> 0, rowsLeft |-> 0,
                    hasMore |-> total > ExecPageSize, got |-> 0, lost |-> 0, total |-> total]
  OBVIOUS
<1>1. 0 \in 0..MaxRows /\ total \in Nat /\ st \in {"failed", "closed"}
  BY <1>s, SizesAssumption
<1>2. r \in Results
  BY <1>1, <1>r DEF Results
<1>3. r.api = "exec" /\ r.state = st /\ r.total = total /\ r.lost = 0
  BY <1>r
<1>4. total <= ExecPageSize => st # "failed"
  BY <1>1, <1>s, SizesAssumption
<1>5. h' = [h EXCEPT ![k] = r] /\ ServerExecutes(total, ExecPageSize) /\ UNCHANGED <<conn, link>>
  BY <1>k, <1>r, <1>s DEF ExecContext
<1> QED
  BY <1>k, <1>1, <1>2, <1>3, <1>4, <1>5, NewResult, SizesAssumption

\* QuerySQL preserves the cursor invariant.
LEMMA QuerySQLInv ==
    ASSUME CursorInv, NEW total \in 0..MaxRows, QuerySQL(total)
    PROVE  CursorInv'
<1>k. PICK k : k = q + 1
  OBVIOUS
<1>1. /\ total \in Nat /\ k \in Stmts /\ FirstPage(total, PageSize) \in Nat
      /\ FirstPage(total, PageSize) \in 0..MaxRows /\ 0 \in 0..MaxRows
  BY <1>k, FirstPageBounds, SizesAssumption
     DEF CursorInv, TypeOK, QuerySQL, ServerExecutes, Stmts
<1>r. PICK r : r = [api |-> "pages", state |-> "open",
                    id |-> IF total > PageSize THEN k ELSE 0,
                    rowsLeft |-> 0, hasMore |-> total > PageSize,
                    got |-> FirstPage(total, PageSize), lost |-> 0, total |-> total]
  OBVIOUS
<1>2. r \in Results
  BY <1>1, <1>r DEF Results
<1>3. /\ r.api = "pages" /\ r.state = "open" /\ r.total = total /\ r.rowsLeft = 0 /\ r.lost = 0
      /\ r.got + r.rowsLeft = FirstPage(total, PageSize) /\ r.hasMore = (total > PageSize)
  BY <1>1, <1>r
<1>5. r.hasMore => r.id = k
  BY <1>r, <1>3
<1>4. h' = [h EXCEPT ![k] = r] /\ ServerExecutes(total, PageSize) /\ UNCHANGED <<conn, link>>
  BY <1>k, <1>r DEF QuerySQL
<1> QED
  BY <1>k, <1>2, <1>3, <1>4, <1>5, NewResult, SizesAssumption

\* A step of one result, s: it may take rows from its cursor.
LEMMA OneChanges ==
    ASSUME CursorInv, NEW s \in Stmts, h' = [h EXCEPT ![s] = h'[s]],
           h'[s] \in Results, left' = [left EXCEPT ![s] = left'[s]], left'[s] \in 0..MaxRows,
           UNCHANGED <<conn, link, q>>, used' \in BOOLEAN, StmtOK(s)'
    PROVE  CursorInv'
<1>1. TypeOK /\ \A k \in Stmts : StmtOK(k)
  BY PerStatement
<1>2. TypeOK'
  BY <1>1 DEF TypeOK
<1>3. ASSUME NEW k \in Stmts \ {s} PROVE StmtOK(k)'
  <2>1. h'[k] = h[k] /\ left'[k] = left[k] /\ q' = q /\ q \in Nat
    BY <1>1, SizesAssumption DEF TypeOK
  <2>2. Live' = Live
    BY DEF Live
  <2> QED
    BY <1>1, <2>1, <2>2, OthersKeep
<1> QED
  BY <1>2, <1>3, PerStatementNext

\* A result that leaves "open" for a state other than "eof" needs no more
\* than to keep its fields; its rows do not matter any more.
LEMMA Leaves ==
    ASSUME CursorInv, NEW s \in Stmts, h[s].state # "none",
           NEW st \in {"failed", "broken", "closed", "unclosed", "panicked", "eof"},
           NEW rl \in 0..MaxRows,
           h' = [h EXCEPT ![s] = [h[s] EXCEPT !.state = st, !.rowsLeft = rl]],
           UNCHANGED <<conn, link, q, left>>, used' \in BOOLEAN,
           st = "eof" => h[s].got + h[s].lost = h[s].total,
           st \in {"failed", "broken"} => h[s].state = "open" /\ rl = h[s].rowsLeft,
           st = "panicked" => h[s].total > PageSize /\ h[s].api # "exec",
           st = "failed" => h[s].api # "exec"
    PROVE  CursorInv'
<1>1. TypeOK /\ StmtOK(s) /\ h[s] \in Results /\ left[s] \in 0..MaxRows /\ q \in Nat
  BY PerStatement, ResultTypes, SizesAssumption DEF TypeOK
<1>2. PICK r : r = [h[s] EXCEPT !.state = st, !.rowsLeft = rl]
  OBVIOUS
<1>3. /\ r \in Results /\ r.state = st /\ r.api = h[s].api /\ r.total = h[s].total
      /\ r.got = h[s].got /\ r.lost = h[s].lost /\ r.hasMore = h[s].hasMore /\ r.id = h[s].id
      /\ r.rowsLeft = rl
  BY <1>1, <1>2 DEF Results
<1>4. h'[s] = r /\ h' = [h EXCEPT ![s] = h'[s]] /\ left' = [left EXCEPT ![s] = left'[s]]
  BY <1>1, <1>2 DEF TypeOK
<1>5. StmtOK(s)'
  <2>1. ~(s > q)
    BY <1>1 DEF StmtOK, ResultOK, NoResult
  <2>2. h[s].total \in Nat
    BY <1>1, SizesAssumption DEF Results
  <2>3. st = "panicked" => ~(h[s].total <= PageSize)
    BY <2>2, SizesAssumption
  <2>4. Unfinished(s)' => st \in {"failed", "broken"} /\ h[s].state = "open" /\ r.api = "pages"
    BY <1>3, <1>4 DEF Unfinished
  <2>5. Unfinished(s)' => Fetched(s)' = Fetched(s) /\ Unfinished(s)
    BY <1>3, <1>4, <2>4 DEF Unfinished, Fetched
  <2>6. Live' = Live /\ left'[s] = left[s] /\ q' = q
    BY DEF Live
  <2>7. ResultOK(s)'
    BY <1>1, <1>3, <1>4, <2>1, <2>4, <2>5, <2>6 DEF StmtOK, ResultOK
  <2> QED
    BY <1>1, <1>3, <1>4, <2>3, <2>4, <2>5, <2>6, <2>7 DEF StmtOK, ResultOK
<1> QED
  BY <1>1, <1>3, <1>4, <1>5, OneChanges

\* A row is handed out: one row moves from the buffer to the caller.
LEMMA NextRowInv == ASSUME CursorInv, NEW s \in Stmts, NextRow(s) PROVE CursorInv'
<1>1. TypeOK /\ StmtOK(s) /\ h[s] \in Results /\ left[s] \in 0..MaxRows /\ q \in Nat
  BY PerStatement, ResultTypes, SizesAssumption DEF TypeOK
<1>2. PICK r : r = [h[s] EXCEPT !.rowsLeft = h[s].rowsLeft - 1, !.got = h[s].got + 1]
  OBVIOUS
<1>3. /\ h[s].got \in Nat /\ h[s].rowsLeft \in Nat /\ h[s].total \in Nat /\ h[s].lost = 0
      /\ h[s].total <= MaxRows /\ h[s].rowsLeft > 0 /\ left[s] \in Nat
      /\ h[s].api = "rows" /\ h[s].state = "open" /\ Unfinished(s)
      /\ h[s].got + h[s].rowsLeft <= h[s].total
  BY <1>1, SizesAssumption DEF Results, NextRow, StmtOK, ResultOK, Unfinished, Fetched
<1>4. h[s].rowsLeft - 1 \in 0..MaxRows /\ h[s].got + 1 \in 0..MaxRows
  BY <1>1, <1>3, SizesAssumption DEF Results
<1>5. /\ r \in Results /\ r.state = "open" /\ r.api = "rows" /\ r.total = h[s].total
      /\ r.hasMore = h[s].hasMore /\ r.lost = h[s].lost
      /\ r.got = h[s].got + 1 /\ r.rowsLeft = h[s].rowsLeft - 1
  BY <1>1, <1>2, <1>3, <1>4 DEF Results
<1>7. /\ h'[s] = r /\ h' = [h EXCEPT ![s] = h'[s]] /\ left' = [left EXCEPT ![s] = left'[s]]
      /\ UNCHANGED <<conn, link, q, left, used>>
  BY <1>1, <1>2 DEF TypeOK, NextRow
<1>6. Fetched(s)' = Fetched(s)
  BY <1>3, <1>5, <1>7 DEF Fetched
<1>8. StmtOK(s)'
  <2>1. ~(s > q)
    BY <1>1, <1>3 DEF StmtOK, ResultOK, NoResult
  <2>2. Live' = Live
    BY <1>7 DEF Live
  <2> QED
    BY <1>1, <1>3, <1>5, <1>6, <1>7, <2>1, <2>2 DEF StmtOK, ResultOK
<1> QED
  BY <1>1, <1>5, <1>7, <1>8, OneChanges DEF TypeOK

\* A result whose next page may be asked for, by its first or by a later call:
\* the page is a part of what its own cursor holds.
LEMMA PageOfOwnCursor ==
    ASSUME CursorInv, NEW s \in Stmts, h[s].api = "pages", Unfinished(s), h[s].hasMore,
           ServerGivesPage(h[s].id)
    PROVE  /\ TypeOK /\ StmtOK(s) /\ h[s] \in Results /\ q \in Nat /\ s <= q
           /\ h[s].id = s /\ h[s].rowsLeft = 0 /\ h[s].total > PageSize
           /\ h[s].got \in Nat /\ h[s].lost \in Nat /\ h[s].total \in Nat /\ left[s] \in Nat
           /\ h[s].total <= MaxRows
           /\ h[s].got + h[s].lost + left[s] = h[s].total
           /\ FirstPage(left[s], PageSize) \in 1..left[s]
           /\ left' = [left EXCEPT ![s] = left[s] - FirstPage(left[s], PageSize)]
           /\ UNCHANGED <<conn, link, used, q>>
<1>1. TypeOK /\ StmtOK(s) /\ h[s] \in Results /\ left[s] \in 0..MaxRows /\ q \in Nat
  BY PerStatement, ResultTypes, SizesAssumption DEF TypeOK
<1>2. h[s].id = s /\ h[s].rowsLeft = 0 /\ h[s].total > PageSize
  BY <1>1 DEF StmtOK, ResultOK
<1>3. s <= q
  BY <1>1, SizesAssumption DEF StmtOK, ResultOK, NoResult, Stmts
<1>4. /\ h[s].got \in Nat /\ h[s].lost \in Nat /\ h[s].total \in Nat /\ left[s] \in Nat
      /\ h[s].total <= MaxRows
  BY <1>1, ResultTypes, SizesAssumption DEF Results
<1>5. Fetched(s) + left[s] = h[s].total
  BY <1>1 DEF StmtOK, ServerGivesPage
<1>6. h[s].got + h[s].lost + left[s] = h[s].total
  BY <1>2, <1>4, <1>5 DEF Fetched
<1>7. left[s] > 0 /\ left' = [left EXCEPT ![s] = left[s] - FirstPage(left[s], PageSize)]
  BY <1>2 DEF ServerGivesPage
<1>8. FirstPage(left[s], PageSize) \in 1..left[s]
  BY <1>4, <1>7, SizesAssumption DEF FirstPage, MinOf
<1> QED
  BY <1>1, <1>2, <1>3, <1>4, <1>6, <1>7, <1>8 DEF ServerGivesPage

\* A page is read: its rows move from the cursor to the caller.
LEMMA PageRead ==
    ASSUME CursorInv, NEW s \in Stmts, h[s].api = "pages", Unfinished(s), h[s].hasMore,
           ServerGivesPage(h[s].id), ReadPage(s)
    PROVE  CursorInv'
<1>1. PICK page : page = FirstPage(left[s], PageSize)
  OBVIOUS
<1>2. PICK more : more = (left[s] > page)
  OBVIOUS
<1>b. more \in BOOLEAN
  BY <1>2
<1>o. /\ h[s] \in Results /\ h[s].id = s /\ h[s].rowsLeft = 0 /\ h \in [Stmts -> Results]
      /\ left \in [Stmts -> 0..MaxRows]
      /\ left' = [left EXCEPT ![s] = left[s] - page]
  BY <1>1, PageOfOwnCursor DEF TypeOK
<1>3. PICK r : r = [h[s] EXCEPT !.state = "open", !.got = h[s].got + page, !.hasMore = more]
  OBVIOUS
<1>4. /\ page \in 1..left[s] /\ left[s] \in Nat /\ h[s].total \in 0..MaxRows
      /\ h[s].got + page \in 0..MaxRows /\ left[s] - page \in 0..MaxRows
  BY <1>1, PageOfOwnCursor, SizesAssumption
<1>5. /\ r \in Results /\ r.state = "open" /\ r.api = "pages" /\ r.total = h[s].total
      /\ r.hasMore = more /\ r.id = s /\ r.got = h[s].got + page /\ r.rowsLeft = 0
      /\ r.lost = h[s].lost
  BY <1>o, <1>b, <1>3, <1>4 DEF Results
<1>6. /\ h'[s] = r /\ h' = [h EXCEPT ![s] = h'[s]]
      /\ left' = [left EXCEPT ![s] = left'[s]] /\ left'[s] = left[s] - page
  BY <1>o, <1>1, <1>2, <1>3 DEF ReadPage
<1>7. Fetched(s)' = h[s].got + page + h[s].lost
  BY <1>4, <1>5, <1>6, PageOfOwnCursor DEF Fetched
<1>8. Fetched(s)' + left'[s] = r.total /\ Fetched(s)' <= r.total
  BY <1>4, <1>5, <1>6, <1>7, PageOfOwnCursor
<1>9. ~more => Fetched(s)' = r.total
  <2>1. ~(left[s] > page) => left[s] = page
    BY <1>4
  <2>3. ~more => left[s] = page
    BY <1>2, <2>1
  <2>2. ~more => left'[s] = 0
    BY <1>4, <1>6, <2>3
  <2> QED
    BY <1>4, <1>5, <1>7, <1>8, <2>2, PageOfOwnCursor
<1>10. ~(s > q') /\ ~(r.total <= PageSize)
  BY <1>5, PageOfOwnCursor, SizesAssumption DEF Stmts
<1>11. StmtOK(s)'
  <2>1. r.total > PageSize
    BY <1>5, PageOfOwnCursor
  <2>2. ResultOK(s)'
    BY <1>5, <1>6, <1>8, <1>10, <2>1 DEF ResultOK
  <2> QED
    BY <1>5, <1>6, <1>8, <1>9, <1>10, <2>2 DEF StmtOK
<1> QED
  BY <1>4, <1>5, <1>6, <1>11, PageOfOwnCursor, OneChanges DEF TypeOK

\* A page is lost: its rows leave the cursor and count as lost.
LEMMA PageLost ==
    ASSUME CursorInv, NEW s \in Stmts, h[s].api = "pages", Unfinished(s), h[s].hasMore,
           ServerGivesPage(h[s].id), LosePage(s)
    PROVE  CursorInv'
<1>1. PICK page : page = FirstPage(left[s], PageSize)
  OBVIOUS
<1>2. PICK state \in {"failed", "broken"} :
           h' = [h EXCEPT ![s].state = state, ![s].lost = @ + FirstPage(left[h[s].id], PageSize)]
  BY DEF LosePage
<1>o. /\ h[s] \in Results /\ h[s].id = s /\ h[s].rowsLeft = 0 /\ h \in [Stmts -> Results]
      /\ left \in [Stmts -> 0..MaxRows]
      /\ left' = [left EXCEPT ![s] = left[s] - page]
  BY <1>1, PageOfOwnCursor DEF TypeOK
<1>3. PICK r : r = [h[s] EXCEPT !.state = state, !.lost = h[s].lost + page]
  OBVIOUS
<1>4. /\ page \in 1..left[s] /\ left[s] \in Nat /\ h[s].total \in 0..MaxRows
      /\ h[s].lost + page \in 0..MaxRows /\ left[s] - page \in 0..MaxRows
  BY <1>1, PageOfOwnCursor, SizesAssumption
<1>5. /\ r \in Results /\ r.state = state /\ r.api = "pages" /\ r.total = h[s].total
      /\ r.hasMore /\ r.id = s /\ r.got = h[s].got /\ r.rowsLeft = 0
      /\ r.lost = h[s].lost + page
  BY <1>o, <1>3, <1>4 DEF Results
<1>6. /\ h'[s] = r /\ h' = [h EXCEPT ![s] = h'[s]]
      /\ left' = [left EXCEPT ![s] = left'[s]] /\ left'[s] = left[s] - page
  BY <1>o, <1>1, <1>2, <1>3
<1>7. Fetched(s)' = h[s].got + h[s].lost + page
  BY <1>4, <1>5, <1>6, PageOfOwnCursor DEF Fetched
<1>8. Fetched(s)' + left'[s] = r.total /\ Fetched(s)' <= r.total
  BY <1>4, <1>5, <1>6, <1>7, PageOfOwnCursor
<1>9. ~(s > q') /\ ~(r.total <= PageSize)
  BY <1>5, PageOfOwnCursor, SizesAssumption DEF Stmts
<1>10. StmtOK(s)'
  <2>1. r.total > PageSize
    BY <1>5, PageOfOwnCursor
  <2>2. ResultOK(s)'
    BY <1>5, <1>6, <1>8, <1>9, <2>1 DEF ResultOK
  <2> QED
    BY <1>5, <1>6, <1>8, <1>9, <2>2 DEF StmtOK
<1> QED
  BY <1>4, <1>5, <1>6, <1>10, PageOfOwnCursor, OneChanges DEF TypeOK

\* Asking for a page, for the first time or again, preserves the invariant.
LEMMA PagesInv ==
    ASSUME CursorInv, NEW s \in Stmts,
           QuerySQLCursorGetPage(s) \/ GetPageUndecodable(s) \/ RetryPage(s)
    PROVE  CursorInv'
<1>1. /\ h[s].api = "pages" /\ Unfinished(s) /\ h[s].hasMore /\ ServerGivesPage(h[s].id)
      /\ ReadPage(s) \/ LosePage(s)
  BY DEF QuerySQLCursorGetPage, GetPageUndecodable, RetryPage, Unfinished
<1> QED
  BY <1>1, PageRead, PageLost

\* The steps that end a result.
LEMMA EndingInv ==
    ASSUME CursorInv, NEW s \in Stmts,
           \/ NextUndecodable(s) \/ NextEof(s) \/ NextPage(s) \/ GetPageFails(s)
           \/ LastPage(s) \/ ResourceClose(s) \/ RowsClose(s)
    PROVE  CursorInv'
<1>1. TypeOK /\ StmtOK(s) /\ h[s] \in Results /\ q \in Nat /\ used \in BOOLEAN
  BY PerStatement, ResultTypes, SizesAssumption DEF TypeOK
<1>2. PICK rl : rl = h[s].rowsLeft
  OBVIOUS
<1>3. /\ rl \in 0..MaxRows /\ h[s].got \in Nat /\ h[s].total \in Nat /\ 0 \in 0..MaxRows
      /\ h[s].lost \in Nat
  BY <1>1, <1>2, SizesAssumption DEF Results
<1>4. ASSUME NEW st PROVE [h EXCEPT ![s].state = st]
                             = [h EXCEPT ![s] = [h[s] EXCEPT !.state = st, !.rowsLeft = rl]]
  BY <1>1, <1>2 DEF TypeOK, Results
<1>5. CASE NextUndecodable(s) \/ GetPageFails(s)
  <2>1. PICK st \in {"failed", "broken"} : h' = [h EXCEPT ![s].state = st]
    BY <1>5 DEF NextUndecodable, GetPageFails
  <2>2. /\ h[s].state = "open" /\ h[s].api # "exec"
        /\ UNCHANGED <<conn, link, used, q, left>>
    BY <1>5 DEF NextUndecodable, GetPageFails
  <2>3. h' = [h EXCEPT ![s] = [h[s] EXCEPT !.state = st, !.rowsLeft = rl]]
    BY <1>4, <2>1
  <2> QED
    BY <1>1, <1>2, <1>3, <2>1, <2>2, <2>3, Leaves
<1>6. CASE NextEof(s) \/ LastPage(s)
  <2>1. Fetched(s) = h[s].total /\ h[s].rowsLeft = 0
    BY <1>1, <1>6 DEF StmtOK, ResultOK, NextEof, LastPage, Unfinished
  <2>2. h[s].got + h[s].lost = h[s].total
    BY <1>3, <2>1 DEF Fetched
  <2> QED
    BY <1>1, <1>3, <1>4, <1>6, <2>2, Leaves DEF NextEof, LastPage
<1>7. CASE NextPage(s)
  <2>1. h[s].total > PageSize /\ h[s].api = "rows" /\ h[s].state = "open"
    BY <1>1, <1>7 DEF StmtOK, ResultOK, NextPage, Unfinished
  <2>2. PICK st \in {"panicked", "failed"} : h' = [h EXCEPT ![s].state = st]
    BY <1>7 DEF NextPage
  <2> QED
    BY <1>1, <1>2, <1>3, <1>4, <1>7, <2>1, <2>2, Leaves DEF NextPage
<1>8. CASE ResourceClose(s)
  <2>1. PICK st \in {"unclosed", "closed"} : h' = [h EXCEPT ![s].state = st]
    BY <1>8 DEF ResourceClose
  <2> QED
    BY <1>1, <1>3, <1>4, <1>8, <2>1, Leaves DEF ResourceClose
<1>9. CASE RowsClose(s)
  <2>1. h' = [h EXCEPT ![s] = [h[s] EXCEPT !.state = "closed", !.rowsLeft = 0]]
    BY <1>9 DEF RowsClose
  <2>2. used' \in BOOLEAN
    BY <1>1, <1>9 DEF RowsClose
  <2> QED
    BY <1>1, <1>3, <1>9, <2>1, <2>2, Leaves DEF RowsClose
<1> QED
  BY <1>5, <1>6, <1>7, <1>8, <1>9

\* The connection ends: its cursors are dropped; or it is only pinged.
LEMMA ConnectionInv == ASSUME CursorInv, ConnClose \/ LinkDown \/ Ping PROVE CursorInv'
<1>1. TypeOK /\ (\A s \in Stmts : StmtOK(s)) /\ 0 \in 0..MaxRows /\ q \in Nat
  BY PerStatement, SizesAssumption DEF TypeOK
<1>2. TypeOK'
  BY <1>1 DEF TypeOK, ConnClose, LinkDown, Ping
<1>3. ASSUME NEW s \in Stmts PROVE StmtOK(s)'
  <2>1. h'[s] = h[s] /\ q' = q
    BY DEF ConnClose, LinkDown, Ping
  <2>2. \/ left'[s] = left[s] /\ (Live' => Live)
        \/ left'[s] = 0 /\ ~Live'
    BY DEF ConnClose, LinkDown, Ping, Live
  <2> QED
    BY <1>1, <2>1, <2>2, OthersKeep
<1> QED
  BY <1>2, <1>3, PerStatementNext

\* The invariant is inductive.
LEMMA CursorStep == CursorInv /\ [Next]_vars => CursorInv'
<1> SUFFICES ASSUME CursorInv, [Next]_vars PROVE CursorInv'
  OBVIOUS
<1>1. CASE \E total \in 0..MaxRows : \/ QueryContext(total) \/ ExecContext(total) \/ QuerySQL(total)
                                     \/ \E api \in {"rows", "exec", "pages"} : Undecodable(api, total)
  BY <1>1, QueryContextInv, ExecContextInv, QuerySQLInv, UndecodableInv
<1>2. CASE \E s \in Stmts : Iterate(s) \/ RowsClose(s) \/ ResourceClose(s)
  BY <1>2, NextRowInv, PagesInv, EndingInv DEF Iterate, Progress
<1>3. CASE Ping \/ ConnClose \/ LinkDown
  BY <1>3, ConnectionInv
<1>4. CASE UNCHANGED vars
  BY <1>4 DEF vars, CursorInv, TypeOK, ResultOK, NoRowLostOrRepeated, EofMeansComplete,
              OnePageNeedsNoCursor, Live, Unfinished, Fetched
<1> QED
  BY <1>1, <1>2, <1>3, <1>4 DEF Next

\* The invariant of the results and their cursors, always.
THEOREM CursorInvariance == Spec => []CursorInv
<1>1. Init => CursorInv
  BY InitCursor
<1>2. CursorInv /\ [Next]_vars => CursorInv'
  BY CursorStep
<1> QED
  BY <1>1, <1>2, PTL DEF Spec

\* Results and cursors have their types.
THEOREM CursorTypes == Spec => []TypeOK
<1>1. CursorInv => TypeOK
  BY DEF CursorInv
<1> QED
  BY <1>1, CursorInvariance, PTL

\* No row is lost or repeated between cursor, buffer and caller, for any page
\* size and any result.
THEOREM RowsConserved == Spec => []NoRowLostOrRepeated
<1>1. CursorInv => NoRowLostOrRepeated
  BY DEF CursorInv
<1> QED
  BY <1>1, CursorInvariance, PTL

\* A result that comes to its end has been handed out but for the pages the
\* caller was told could not be read.
THEOREM CompleteAtEof == Spec => []EofMeansComplete
<1>1. CursorInv => EofMeansComplete
  BY DEF CursorInv
<1> QED
  BY <1>1, CursorInvariance, PTL

\* Results of one page meet neither the panic at the end of a page nor the
\* failing cursor close, and leave nothing on the server.
THEOREM OnePageWithoutCursor == Spec => []OnePageNeedsNoCursor
<1>1. CursorInv => OnePageNeedsNoCursor
  BY DEF CursorInv
<1> QED
  BY <1>1, CursorInvariance, PTL

\* A page is taken from the cursor of the result that asks for it.
LEMMA PagesApart ==
    ASSUME CursorInv, NEW s \in Stmts,
           QuerySQLCursorGetPage(s) \/ GetPageUndecodable(s) \/ RetryPage(s)
    PROVE  KeepsApart
<1>1. /\ h[s].api = "pages" /\ Unfinished(s) /\ h[s].hasMore /\ ServerGivesPage(h[s].id)
      /\ ReadPage(s) \/ LosePage(s)
  BY DEF QuerySQLCursorGetPage, GetPageUndecodable, RetryPage, Unfinished
<1>2. PICK page : page = FirstPage(left[s], PageSize)
  OBVIOUS
<1>3. /\ page \in 1..left[s] /\ left[s] \in Nat
      /\ left'[s] = left[s] - page /\ \A t \in Stmts \ {s} : left'[t] = left[t]
  BY <1>1, <1>2, PageOfOwnCursor DEF TypeOK
<1>4. h'[s] # h[s]
  <2>1. /\ h[s].id = s /\ h[s] \in Results /\ h[s].got \in Nat /\ h[s].lost \in Nat
        /\ h \in [Stmts -> Results]
    BY <1>1, PageOfOwnCursor DEF TypeOK
  <2>2. ReadPage(s) => h'[s].got = h[s].got + page
    BY <1>2, <2>1 DEF ReadPage, Results
  <2>3. LosePage(s) => h'[s].lost = h[s].lost + page
    BY <1>2, <2>1 DEF LosePage, Results
  <2> QED
    BY <1>1, <1>3, <2>1, <2>2, <2>3
<1> QED
  BY <1>1, <1>3, <1>4 DEF KeepsApart

\* No step changes another result's cursor while the connection lives.
LEMMA ApartStep == CursorInv /\ [Next]_vars => [KeepsApart]_vars
<1> SUFFICES ASSUME CursorInv, Next PROVE KeepsApart
  OBVIOUS
<1>1. CASE \E total \in 0..MaxRows : \/ QueryContext(total) \/ ExecContext(total) \/ QuerySQL(total)
                                     \/ \E api \in {"rows", "exec", "pages"} : Undecodable(api, total)
  <2>1. q' = q + 1 /\ \E n : left' = [left EXCEPT ![q + 1] = n]
    BY <1>1 DEF QueryContext, ExecContext, QuerySQL, Undecodable, ServerExecutes
  <2>2. left \in [Stmts -> 0..MaxRows]
    BY DEF CursorInv, TypeOK
  <2> QED
    BY <2>1, <2>2 DEF KeepsApart
<1>2. ASSUME NEW s \in Stmts, Iterate(s) \/ RowsClose(s) \/ ResourceClose(s) PROVE KeepsApart
  <2>1. CASE QuerySQLCursorGetPage(s) \/ GetPageUndecodable(s) \/ RetryPage(s)
    BY <2>1, PagesApart
  <2>2. CASE \/ NextRow(s) \/ NextEof(s) \/ NextPage(s) \/ GetPageFails(s) \/ LastPage(s)
             \/ NextUndecodable(s) \/ RowsClose(s) \/ ResourceClose(s)
    <3>1. left' = left
      BY <2>2 DEF NextRow, NextEof, NextPage, GetPageFails, LastPage, NextUndecodable,
                  RowsClose, ResourceClose
    <3> QED
      BY <3>1 DEF KeepsApart
  <2> QED
    BY <1>2, <2>1, <2>2 DEF Iterate, Progress
<1>3. CASE Ping
  BY <1>3 DEF Ping, KeepsApart
<1>4. CASE ConnClose \/ LinkDown
  BY <1>4 DEF ConnClose, LinkDown, KeepsApart, Live
<1> QED
  BY <1>1, <1>2, <1>3, <1>4 DEF Next

\* On a live connection no result takes rows from another's cursor, for any
\* number of statements and any page size.
THEOREM CursorsApart == Spec => CursorsKeepApart
<1>1. CursorInv /\ [Next]_vars => [KeepsApart]_vars
  BY ApartStep
<1> QED
  BY <1>1, CursorInvariance, PTL DEF Spec, CursorsKeepApart
=============================================================================
