---------------------------- MODULE SchemaStream ----------------------------
(***************************************************************************)
(* The schema of a table, and what the key-value calls make of it           *)
(* (client-schemas.go, client-tuple-operations.go): GetTableSchema reads    *)
(* the response of SCHEMAS_GET, a stream of tokens as in ResultStream;      *)
(* buildTuple puts the values of a user's row, a Go map, in the order of    *)
(* the columns, or of the key.  Nothing else names the values on the wire:  *)
(* in another order they reach other columns.                               *)
(***************************************************************************)
EXTENDS ResultStream

CONSTANTS Tables,    \* tables, each a sequence of columns
          GoNames,   \* the names that the user's rows may use
          Upper      \* strings.ToUpper of those and of the columns' names

VARIABLE schemas     \* the schemas of a response still to be read

\* A column: as in ResultStream, with its place in the key instead of an
\* origin, -1 for none.  The places of a key are 0, 1, ... in any order.
KeyIndexes(t) == {t[i].KeyIndex : i \in DOMAIN t} \ {-1}
KeySize(t) == Cardinality({i \in DOMAIN t : t[i].KeyIndex >= 0})

ASSUME TablesAssumption ==
    \A t \in Tables : /\ t \in Seq([Name : STRING, Nullable : BOOLEAN, Type : Nat, Scale : Int,
                                    Precision : Int, KeyIndex : Nat \cup {-1}])
                      /\ KeyIndexes(t) = 0..(KeySize(t) - 1)
                      /\ Len(t) \in 1..MaxCols

Nil == "nil"
ASSUME NilAssumption == Nil \notin GoNames

-----------------------------------------------------------------------------
(* The server's encoding (external)                                        *)

\* Seven properties, and those a newer server adds.
PackTableColumn(c, extra) ==
    <<PackInt(7 + extra), Token("str", c.Name), PackInt(c.Type), PackInt(c.KeyIndex),
      Token("bool", c.Nullable), PackInt(c.KeyIndex), PackInt(c.Scale), PackInt(c.Precision)>>
    \o [k \in 1..extra |-> PackNil]

PackSchema(version, t, extra) ==
    <<PackInt(version), PackInt(Len(t))>>
    \o FlattenSeq([i \in 1..Len(t) |-> PackTableColumn(t[i], extra)])

\* The latest schema is the last; before it, one without the newest column.
PackSchemas(t, n, extra) ==
    <<PackInt(n)>> \o (IF n > 1 THEN PackSchema(1, Front(t), extra) ELSE <<>>)
                  \o PackSchema(n, t, extra)

\* The table has been dropped since its id was found.
PackNoSchema == <<PackInt(0)>>

-----------------------------------------------------------------------------
(* GetTableSchema                                                          *)

SchemaInit ==
    /\ api = "GetTableSchema"
    /\ \/ cols \in Tables /\ \E n \in 1..2, extra \in 0..1 : message = PackSchemas(cols, n, extra)
       \/ cols = <<>> /\ message = PackNoSchema
    /\ phase = "schemas"
    /\ result = NoHeader
    /\ meta = <<>> /\ cells = <<>> /\ row = <<>>
    /\ sent = 0 /\ left = 0 /\ pages = 0 /\ schemas = 0

\* The number of schemas; without one it is an error.
ReadSchemas ==
    /\ phase = "schemas"
    /\ IF Reads(message, <<IntCodes>>) /\ message[1].val > 0
       THEN /\ schemas' = message[1].val
            /\ message' = Tail(message)
            /\ phase' = "schema"
            /\ UNCHANGED <<api, cols, sent, result, meta, left, cells, row, pages>>
       ELSE Stop("failed") /\ UNCHANGED schemas

\* The version (which is TableKv's) and the number of columns of the next.
ReadSchema ==
    /\ phase = "schema" /\ schemas > 0
    /\ IF Reads(message, <<IntCodes, IntCodes>>)
       THEN /\ left' = message[2].val
            /\ meta' = <<>>
            /\ message' = Drop(message, 2)
            /\ schemas' = schemas - 1
            /\ phase' = "properties"
            /\ UNCHANGED <<api, cols, sent, result, cells, row, pages>>
       ELSE Stop("failed") /\ UNCHANGED schemas

\* skipPackedValue for the properties after the seventh.
Skipped(count) == IF count > 7 THEN count - 7 ELSE 0

TableColumnForm == <<IntCodes, {"str"}, IntCodes, IntCodes, {"bool"}, IntCodes, IntCodes, IntCodes>>

\* The next column; any type is let through.
ReadTableColumn ==
    /\ phase = "properties" /\ left > 0
    /\ IF Reads(message, TableColumnForm) /\ Len(message) >= 8 + Skipped(message[1].val)
       THEN /\ meta' = Append(meta, [Name |-> message[2].val, Type |-> message[3].val,
                                     KeyIndex |-> message[4].val, Nullable |-> message[5].val,
                                     Scale |-> message[7].val, Precision |-> message[8].val])
            /\ message' = Drop(message, 8 + Skipped(message[1].val))
            /\ left' = left - 1
            /\ UNCHANGED <<api, cols, sent, phase, result, cells, row, pages, schemas>>
       ELSE Stop("failed") /\ UNCHANGED schemas

\* The last schema is the one that is returned.
EndOfSchema ==
    /\ phase = "properties" /\ left = 0
    /\ Stop(IF schemas > 0 THEN "schema" ELSE "done")
    /\ UNCHANGED schemas

-----------------------------------------------------------------------------
(* Table.buildTuple, for UpsertAll and DeleteAll                           *)

IsKey(c) == c.KeyIndex >= 0

\* Fault: the key is in the order of the columns.
KeyColumnsUnsorted == SelectSeq(meta, IsKey)

\* The key's columns by their place in it.
KeyColumns ==
    LET keys == {i \in DOMAIN meta : IsKey(meta[i])}
        sorted == CHOOSE p \in [1..Cardinality(keys) -> keys] :
                     \A i, j \in DOMAIN p :
                        i < j => p[i] # p[j] /\ meta[p[i]].KeyIndex <= meta[p[j]].KeyIndex
    IN  [i \in DOMAIN sorted |-> meta[sorted[i]]]

\* columnKindForTypeId: a type without a kind is BtNull, which encodes nothing.
HasKind(c) == c.Type \in ColTypes \ {0}

\* The look-up by upper-case names is filled in the order of a Go map: of
\* names that differ in case only, any one may be the last.
Lookups(names) == {f \in [{Upper[k] : k \in names} -> names] : \A u \in DOMAIN f : Upper[f[u]] = u}

\* What the tuple holds for each column, a value being the name it was given
\* by.
Values(columns, lookup) ==
    [i \in DOMAIN columns |->
        IF HasKind(columns[i]) /\ Upper[columns[i].Name] \in DOMAIN lookup
        THEN lookup[Upper[columns[i].Name]] ELSE Nil]

buildTuple(names, keyOnly) ==
    /\ phase = "done" /\ api = "GetTableSchema"
    /\ \E lookup \in Lookups(names) :
          row' = [given |-> names, keyOnly |-> keyOnly,
                  vals |-> Values(IF keyOnly THEN KeyColumns ELSE meta, lookup)]
    /\ phase' = "built"
    /\ UNCHANGED <<api, cols, sent, message, result, meta, left, cells, pages, schemas>>

-----------------------------------------------------------------------------

SchemaNext == \/ ReadSchemas \/ ReadSchema \/ ReadTableColumn \/ EndOfSchema
              \/ \E names \in SUBSET GoNames, keyOnly \in BOOLEAN : buildTuple(names, keyOnly)

\* A response is a result or a schema.
ReplyInit == (Init /\ schemas = 0) \/ SchemaInit
ReplyNext == (Next /\ UNCHANGED schemas) \/ SchemaNext

ReplySpec == ReplyInit /\ [][ReplyNext]_<<vars, schemas>>

-----------------------------------------------------------------------------
(* Properties                                                              *)

\* The columns the server expects in a tuple: those of the table, or those of
\* the key by their place in it.
Expected(keyOnly) ==
    IF keyOnly THEN [i \in 1..KeySize(cols) |->
                        cols[CHOOSE j \in DOMAIN cols : cols[j].KeyIndex = i - 1]]
    ELSE cols

\* A value in the tuple is where the server looks for the column it was given
\* for: in DeleteAll too, where a key in another order would delete another
\* row.  Every given value is there once, exactly if for each the tuple has one
\* column of its name, of a type with a kind, and no other name was given that
\* differs in case only; else values are left out or doubled, without an error
\* (client-tuple-operations.go:146-166).
ValuesReachTheirColumns ==
    phase = "built" =>
        LET columns == Expected(row.keyOnly)
            Places(k) == {i \in DOMAIN columns : Upper[columns[i].Name] = Upper[k]}
        IN  /\ Len(row.vals) = Len(columns)
            /\ \A i \in DOMAIN columns : row.vals[i] = Nil \/ i \in Places(row.vals[i])
            /\ (\A k \in row.given : Cardinality({i \in DOMAIN columns : row.vals[i] = k}) = 1)
                 <=> \A k \in row.given :
                       /\ Cardinality({i \in Places(k) : HasKind(columns[i])}) = 1
                       /\ \A n \in row.given \ {k} : Upper[n] # Upper[k]
=============================================================================
