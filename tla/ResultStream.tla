---------------------------- MODULE ResultStream ----------------------------
(***************************************************************************)
(* Reading the response of SQL_EXECUTE and SQL_CURSOR_NEXT_PAGE: header,   *)
(* result set metadata, rows.  The payload has no field names or lengths,  *)
(* so a reader that takes one token too many or too few misreads whatever  *)
(* follows.  A message is a sequence of msgpack tokens, each with the code *)
(* that tells its type; the bytes of a row are BinaryTuple's.              *)
(***************************************************************************)
EXTENDS Integers, Sequences, SequencesExt, FiniteSetsExt

CONSTANTS Columns,   \* the columns a statement may select
          MaxCols,   \* bound: columns of a result
          MaxRows,   \* bound: rows of a page
          MaxPages,  \* bound: pages asked for after the first
          FixMax,    \* the largest integer whose code is a fixnum (127)
          NoOrigin   \* the origin of a computed column: nil

\* A column: its name, type id, scale, precision, whether it is nullable, and
\* the schema, table and column it comes from.
ASSUME ColumnsAssumption ==
    Columns \subseteq [Name : STRING, Nullable : BOOLEAN, Type : Nat, Scale : Int, Precision : Int,
                       Origin : {NoOrigin} \cup [Schema : STRING, Table : STRING, Column : STRING]]
ASSUME BoundsAssumption == /\ MaxCols \in Nat /\ MaxRows \in Nat /\ MaxPages \in Nat
                           /\ FixMax \in Nat

VARIABLES api,      \* who reads: "QuerySQL", "QuerySQLFields", "newRows" (the driver),
                    \* SchemaStream's "GetTableSchema", OpenConnection's "Open"
          cols,     \* the columns the server describes
          sent,     \* the number of rows in the message
          message,  \* the tokens that have not been read
          phase,    \* what is read next, or how the reading has ended
          result,   \* QuerySQLResult without rows and metadata
          meta,     \* ResultSetMetadata.Columns
          left,     \* columns, then rows, still to be read
          cells,    \* what the last row holds in each column
          row,      \* the last row, as it is handed to the caller
          pages     \* pages asked for

vars == <<api, cols, sent, message, phase, result, meta, left, cells, row, pages>>

\* Type ids: 14 is not in use, the ones after 16 have been added since.
ColTypes == (0..13) \cup {15, 16}
Structs == {8, 11, 12, 13}      \* GoKind Struct: DECIMAL, DATETIME, TIMESTAMP, UUID

-----------------------------------------------------------------------------
(* The server's encoding (external)                                        *)

Token(code, val) == [code |-> code, val |-> val]
PackNil == Token("nil", 0)
PackInt(n) == Token(IF n < 0 THEN "int" ELSE IF n <= FixMax THEN "fixnum" ELSE "uint", n)

\* The column that named the schema or the table first, which the server
\* refers to by its index.
Namesakes(cs, i, f) == {j \in 1..(i - 1) : cs[j].Origin # NoOrigin /\ cs[j].Origin[f] = cs[i].Origin[f]}

PackName(cs, i, f) == IF Namesakes(cs, i, f) = {} THEN Token("str", cs[i].Origin[f])
                                                 ELSE PackInt(Min(Namesakes(cs, i, f)) - 1)

PackColumn(cs, i) ==
    LET c == cs[i]
        has == c.Origin # NoOrigin
    IN  <<PackInt(IF has THEN 9 ELSE 6), Token("str", c.Name), Token("bool", c.Nullable),
          PackInt(c.Type), PackInt(c.Scale), PackInt(c.Precision), Token("bool", has)>>
        \o IF has THEN <<IF c.Origin.Column = c.Name THEN PackNil ELSE Token("str", c.Origin.Column),
                         PackName(cs, i, "Schema"), PackName(cs, i, "Table")>>
                  ELSE <<>>

PackRows(n) == <<PackInt(n)>> \o [k \in 1..n |-> Token("bin", k)]

PackResult(cs, n, more) ==
    <<IF more THEN PackInt(1) ELSE PackNil, Token("bool", TRUE), Token("bool", more),
      Token("bool", FALSE), PackInt(-1), PackInt(Len(cs))>>
    \o FlattenSeq([i \in 1..Len(cs) |-> PackColumn(cs, i)])
    \o PackRows(n)

\* A statement that changes data has neither columns nor rows.
PackUpdate(affected) ==
    <<PackNil, Token("bool", FALSE), Token("bool", FALSE), Token("bool", TRUE),
      PackInt(affected), PackInt(0)>>

-----------------------------------------------------------------------------

NoHeader == [ResourceId |-> 0, HasRowSet |-> FALSE, HasMore |-> FALSE,
             wasApplied |-> FALSE, AffectedRows |-> 0]

Init == /\ api \in {"QuerySQL", "QuerySQLFields", "newRows"}
        /\ \/ /\ cols \in BoundedSeq(Columns, MaxCols) \ {<<>>}
              /\ sent \in 0..MaxRows
              /\ \E more \in {FALSE, sent > 0} : message = PackResult(cols, sent, more)
           \/ /\ cols = <<>> /\ sent = 0
              /\ \E affected \in 0..2 : message = PackUpdate(affected)
        /\ phase = "header"
        /\ result = NoHeader
        /\ meta = <<>> /\ cells = <<>> /\ row = <<>>
        /\ left = 0 /\ pages = 0

IntCodes == {"fixnum", "int", "uint"}

\* The typed reads of a sequence of values succeed.
Reads(m, codes) == /\ Len(m) >= Len(codes)
                   /\ \A k \in 1..Len(codes) : m[k].code \in codes[k]

Drop(m, k) == SubSeq(m, k + 1, Len(m))

\* An error is returned, or the goroutine panics.
Stop(how) == /\ phase' = how
             /\ UNCHANGED <<api, cols, sent, message, result, meta, left, cells, row, pages>>

\* TryReadPackedNil
IsNil(m) == m # <<>> /\ m[1].code = "nil"

HeaderForm == <<IF IsNil(message) THEN {"nil"} ELSE IntCodes, {"bool"}, {"bool"}, {"bool"}, IntCodes>>

\* ReadQuerySQLResponseHeader, and the number of columns.
ReadHeader ==
    /\ phase = "header"
    /\ IF Reads(message, HeaderForm \o <<IntCodes>>)
       THEN /\ result' = [ResourceId |-> message[1].val, HasRowSet |-> message[2].val,
                          HasMore |-> message[3].val, wasApplied |-> message[4].val,
                          AffectedRows |-> message[5].val]
            /\ left' = message[6].val
            /\ message' = Drop(message, 6)
            /\ phase' = "columns"
            /\ UNCHANGED <<api, cols, sent, meta, cells, row, pages>>
       ELSE Stop("failed")

\* Fault: only the codes Int8 to Int64.
TryReadPackedIntNoFix(t) == t.code = "int"

\* TryReadPackedIntWithDefault: fixnums and signed codes are integers; all the
\* rest, unsigned codes included, is left in the message.
TryReadPackedInt(t) == t.code \in {"fixnum", "int"}

\* A schema or table name, or the index of an earlier column that has it: the
\* server refers to columns that have an origin.
NameReads(t) == IF TryReadPackedInt(t) THEN t.val \in 0..(Len(meta) - 1) ELSE t.code = "str"

\* Fault: the index is taken to count from one.
NameFromOne(t, f) == IF TryReadPackedInt(t) /\ t.val > 0 THEN meta[t.val].Origin[f]
                     ELSE IF TryReadPackedInt(t) THEN meta[1].Origin[f] ELSE t.val

Name(t, f) == IF TryReadPackedInt(t) THEN meta[t.val + 1].Origin[f] ELSE t.val

\* NewColumnOriginFromReaderWithDefault
OriginReads(m) == /\ Len(m) >= 3
                  /\ m[1].code \in {"nil", "str"}
                  /\ NameReads(m[2]) /\ NameReads(m[3])

ColumnOrigin(m, name) == [Column |-> IF IsNil(m) THEN name ELSE m[1].val,
                          Schema |-> Name(m[2], "Schema"), Table |-> Name(m[3], "Table")]

ColumnForm == <<IntCodes, {"str"}, {"bool"}, IntCodes, IntCodes, IntCodes, {"bool"}>>

\* Fault: a type that is not in the table is let through.
ColumnReadsAnyType ==
    /\ Reads(message, ColumnForm)
    /\ message[7].val => message[1].val >= 9 /\ OriginReads(Drop(message, 7))

\* The tokens of the next column, a type of the table, and enough properties
\* where there is an origin.
ColumnReads ==
    /\ Reads(message, ColumnForm)
    /\ message[4].val \in ColTypes
    /\ message[7].val => message[1].val >= 9 /\ OriginReads(Drop(message, 7))

\* One iteration of NewResultSetMetadataFromReader: NewColumnMetadataFromReader.
ReadColumn ==
    /\ phase = "columns" /\ left > 0
    /\ IF ColumnReads
       THEN LET name == message[2].val
                has == message[7].val
            IN  /\ meta' = Append(meta, [Name |-> name, Nullable |-> message[3].val,
                             Type |-> message[4].val, Scale |-> message[5].val,
                             Precision |-> message[6].val,
                             Origin |-> IF has THEN ColumnOrigin(Drop(message, 7), name) ELSE NoOrigin])
                /\ message' = Drop(message, IF has THEN 10 ELSE 7)
                /\ left' = left - 1
                /\ UNCHANGED <<api, cols, sent, phase, result, cells, row, pages>>
       ELSE Stop("failed")

\* ReadPartitionAwareness reads nothing: no caller asks for it.  Then the
\* number of rows, if there is a row set.
ReadRowCount ==
    /\ left = 0 /\ phase \in {"columns", "count"}
    /\ IF ~result.HasRowSet
       THEN Stop("done")
       ELSE IF Reads(message, <<IntCodes>>)
            THEN /\ left' = message[1].val
                 /\ message' = Drop(message, 1)
                 /\ phase' = "rows"
                 /\ UNCHANGED <<api, cols, sent, result, meta, cells, row, pages>>
            ELSE Stop("failed")

\* A row of the server: values, NULLs, a TIME or DATETIME of a precision that
\* decodeTime refuses, a TIMESTAMP of a whole second, which has no nanoseconds.
Cell(c) == {"value", "null"} \cup IF c.Type \in {10, 11} THEN {"refused"}
                                 ELSE IF c.Type = 12 THEN {"short"} ELSE {}
Rows == {r \in [1..Len(cols) -> {"value", "null", "refused", "short"}] :
           \A j \in 1..Len(cols) : r[j] \in Cell(cols[j])}

\* How a column ends the reading of a row.  The binary client asks for the
\* name of the column's origin; a short TIMESTAMP is sliced beyond its end; a
\* NULL is nil, and no Decimal, time or Uuid.
Ends(r, j) ==
    IF api # "newRows" /\ meta[j].Origin = NoOrigin THEN "panicked"
    ELSE IF r[j] = "refused" THEN "failed"
    ELSE IF r[j] = "short" THEN "panicked"
    ELSE IF r[j] = "null" /\ meta[j].Type \in Structs THEN "panicked"
    ELSE "no"

\* Fault: the rows of the binary client have the names of the result's columns.
KeyOfName(j) == IF api = "newRows" THEN j ELSE meta[j].Name

\* The driver's rows are slices, the binary client's are maps from the name of
\* the column in its table.
Key(j) == IF api = "newRows" THEN j ELSE meta[j].Origin.Column

\* What the caller gets: for each key the last column written to it.
RowOf(r) == LET J == 1..Len(meta)
            IN  [k \in {Key(j) : j \in J} |-> Max({j \in J : Key(j) = k})]

\* One iteration over the rows: QuerySQL, QuerySQLFields, the pages after the
\* first, and rows.Next.
ReadRow(r) ==
    /\ phase = "rows" /\ left > 0
    /\ LET ending == {j \in 1..Len(meta) : Ends(r, j) # "no"}
       IN  IF Reads(message, <<{"bin"}>>)
           THEN /\ cells' = r
                /\ message' = Tail(message)
                /\ IF ending = {}
                   THEN /\ row' = RowOf(r)
                        /\ left' = left - 1
                        /\ UNCHANGED phase
                   ELSE /\ phase' = Ends(r, Min(ending))
                        /\ UNCHANGED <<row, left>>
                /\ UNCHANGED <<api, cols, sent, result, meta, pages>>
           ELSE Stop("failed")

\* Fault: the page's own flag is not read.
EndOfRowsUnread ==
    /\ phase = "rows" /\ left = 0
    /\ Stop("done")

\* A page after the first ends with whether more pages follow.
EndOfRows ==
    /\ phase = "rows" /\ left = 0
    /\ IF pages = 0
       THEN Stop("done")
       ELSE IF Reads(message, <<{"bool"}>>)
            THEN /\ result' = [result EXCEPT !.HasMore = message[1].val]
                 /\ message' = Tail(message)
                 /\ phase' = "done"
                 /\ UNCHANGED <<api, cols, sent, meta, left, cells, row, pages>>
            ELSE Stop("failed")

\* QuerySQLCursorGetPage with the metadata of the first page.
QuerySQLCursorGetPage(n, more) ==
    /\ phase = "done" /\ api = "QuerySQL" /\ result.HasMore
    /\ pages < MaxPages
    /\ pages' = pages + 1
    /\ sent' = n
    /\ message' = PackRows(n) \o <<Token("bool", more)>>
    /\ phase' = "count"
    /\ cells' = <<>> /\ row' = <<>>
    /\ UNCHANGED <<api, cols, result, meta, left>>

Next == \/ ReadHeader \/ ReadColumn \/ ReadRowCount \/ EndOfRows
        \/ \E r \in Rows : ReadRow(r)
        \/ \E n \in 1..MaxRows, more \in BOOLEAN : QuerySQLCursorGetPage(n, more)

Spec == Init /\ [][Next]_vars

-----------------------------------------------------------------------------
(* Properties                                                              *)

\* The reader's state has its type; a column of a result that has been read
\* has a type of the client's table.
TypeOK ==
    /\ api \in {"QuerySQL", "QuerySQLFields", "newRows", "GetTableSchema", "Open"}
    /\ sent \in 0..MaxRows
    /\ phase \in {"header", "columns", "count", "rows", "schemas", "schema", "properties", "built",
                  "url", "open", "handshake", "node", "badUrl", "refused", "connected", "done", "failed", "panicked"}
    /\ result \in [ResourceId : Nat, HasRowSet : BOOLEAN, HasMore : BOOLEAN,
                   wasApplied : BOOLEAN, AffectedRows : Int]
    /\ left \in 0..(MaxCols + MaxRows)
    /\ pages \in 0..MaxPages
    /\ Len(meta) <= Len(cols)
    /\ api # "GetTableSchema" => \A i \in 1..Len(meta) : meta[i].Type \in ColTypes

\* The metadata are the columns the server has described: names left out, and
\* schemas and tables given by the index of an earlier column, are found
\* again (client-result-set.go:363-417).
MetadataIsTrue == \A i \in 1..Len(meta) : meta[i] = cols[i]

\* A response that is read without an error has been read to its end, row by
\* row: no token is left, and none is missing, whoever reads it.
MessageIsConsumed ==
    phase = "done" => /\ message = <<>>
                      /\ Len(meta) = Len(cols)
                      /\ left = 0
                      /\ sent > 0 => Len(cells) = Len(cols)

\* A column that cannot be described to this client: a type it does not have,
\* or a name that the server gives as an index beyond the fixnums.
Unreadable(i) ==
    \/ cols[i].Type \notin ColTypes
    \/ cols[i].Origin # NoOrigin /\ \E f \in {"Schema", "Table"} :
           Namesakes(cols, i, f) # {} /\ Min(Namesakes(cols, i, f)) - 1 > FixMax

\* What exactly makes a response unusable.  An error: an unreadable column, a
\* time the client refuses, a table that has been dropped.  A panic: a row with
\* a TIMESTAMP of a whole second, or, in the binary client and in Exec, with a
\* computed column (client-result-set.go:302-309).  How a row with a NULL in a
\* DECIMAL, DATETIME, TIMESTAMP or UUID column ends is not claimed here: the
\* code panics there (rows.go:122-126) where src/README.md:259 has it read as NULL,
\* and BinaryTuple's NullsReadBack is about that sentence.
FailuresHaveTheirCause ==
    LET J == 1..Len(cells)
        unreadable == api # "GetTableSchema" /\ \E i \in 1..Len(cols) : Unreadable(i)
        dropped == api = "GetTableSchema" /\ cols = <<>>
        computed == api # "newRows" /\ \E j \in J : cols[j].Origin = NoOrigin
        nullStruct == \E j \in J : cells[j] = "null" /\ cols[j].Type \in Structs
        short == \E j \in J : cells[j] = "short"
        refused == \E j \in J : cells[j] = "refused"
    IN  /\ phase = "failed" => unreadable \/ refused \/ dropped
        /\ phase = "panicked" /\ ~nullStruct => ~unreadable /\ (computed \/ short)
        /\ phase = "done" => ~unreadable /\ ~refused /\ ~dropped /\ ~computed /\ ~short

\* A row handed to the caller holds the value of every column, except in the
\* binary client's maps when two columns come from columns of the same name
\* (a join of two tables that both have an ID): then, and only then, the later
\* one replaces the earlier.
ValuesAreKept ==
    phase = "done" /\ Len(cells) > 0 =>
        ({row[k] : k \in DOMAIN row} = 1..Len(cols)
           <=> \/ api = "newRows"
               \/ \A i, j \in 1..Len(cols) : i # j => cols[i].Origin.Column # cols[j].Origin.Column)
=============================================================================
