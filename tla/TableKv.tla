------------------------------ MODULE TableKv ------------------------------
(***************************************************************************)
(* The key-value API (binary/v1: client-schemas.go, client-tuple-           *)
(* operations.go, client-tables-operations.go): a user resolves a table by  *)
(* name, which takes up to three requests, keeps the handle, and writes     *)
(* batches through it.  Others run DDL at any time, and the connection may  *)
(* be lost.  The user delivers at least once: it repeats a batch until the  *)
(* batch succeeds, and skips one that cannot be encoded.                    *)
(*                                                                         *)
(* A name is a sequence of parts; a row is a key and a value; the encoding  *)
(* of a tuple is the business of BinaryTuple.  The server is external.      *)
(***************************************************************************)
EXTENDS Naturals, Sequences

CONSTANTS Names,         \* the table names others create, as sequences of parts
          Wanted,        \* the name the user asks for
          Lower,         \* parts to lower case
          Listed,        \* the names OP_TABLES_GET lists
          Keys,          \* primary keys
          Batches,       \* the user's batches: [op, bad, rows : Keys -> Nat], 0 for no row
          MaxTables,     \* bound: tables ever created
          MaxVersion     \* bound: schema versions of a table

ASSUME NamesAssumption == Wanted \in Names /\ Listed \subseteq Names
ASSUME BoundsAssumption == MaxTables \in Nat \ {0} /\ MaxVersion \in Nat \ {0}
ASSUME BatchesAssumption ==
    Batches \in Seq([op : {"upsert", "delete"}, bad : BOOLEAN, rows : [Keys -> Nat]])

VARIABLES tables,   \* all tables ever created; the index is the table id
          link,     \* the user's connection: "up" or "down"
          pc,       \* where the user is
          target,   \* the id GetTableByName has found, before its schema is loaded
          handle,   \* the Table: [id, version], id 0 for none
          next,     \* the batch the user is delivering
          wire,     \* the write request in flight: [id, version, batch], batch 0 for none
          reply,    \* its answer: "none", "ok" or "error"
          late,     \* a request the server has received over a lost connection
          applied,  \* the batches the server has executed at least once
          overtaken \* whether it has executed one after a later one

userVars == <<pc, target, handle, next>>
wireVars == <<wire, reply, late>>
serverVars == <<tables, applied, overtaken>>
vars == <<serverVars, link, userVars, wireVars>>

NoTable   == [id |-> 0, version |-> 0]
NoRequest == [id |-> 0, version |-> 0, batch |-> 0]
NewTable(name) == [name |-> name, live |-> TRUE, version |-> 1, rows |-> [k \in Keys |-> 0]]

Init == /\ tables = <<NewTable(Wanted)>>
        /\ link = "up"
        /\ pc = "idle"
        /\ target = 0
        /\ handle = NoTable
        /\ next = 1
        /\ wire = NoRequest
        /\ reply = "none"
        /\ late = NoRequest
        /\ applied = {}
        /\ overtaken = FALSE

-----------------------------------------------------------------------------
(* Names                                                                   *)

\* normalizeTableName: quotes are gone already, case is dropped.
normalizeTableName(name) == [i \in DOMAIN name |-> Lower[name[i]]]

\* strings.HasSuffix(long, "." + short)
HasSuffix(long, short) ==
    /\ Len(short) < Len(long)
    /\ short = SubSeq(long, Len(long) - Len(short) + 1, Len(long))

Same(a, b) == normalizeTableName(a) = normalizeTableName(b)

Similar(a, b) == LET x == normalizeTableName(a)  y == normalizeTableName(b)
                 IN  HasSuffix(x, y) \/ HasSuffix(y, x)

-----------------------------------------------------------------------------
(* Resolving: GetTableByName                                               *)

Ids(name) == {i \in DOMAIN tables : tables[i].live /\ tables[i].name = name}

\* tableIdByName: OP_TABLE_GET.  The server answers nil for an unknown name.
TableGet ==
    /\ pc = "idle" /\ link = "up"
    /\ IF Ids(Wanted) = {} THEN pc' = "list" /\ UNCHANGED target
       ELSE target' \in Ids(Wanted) /\ pc' = "schema"
    /\ UNCHANGED <<link, handle, next, wireVars, serverVars>>

\* Fault: without an equal name, one with the same last part is taken.
CandidatesByLastPart ==
    LET listed == {i \in DOMAIN tables : tables[i].live /\ tables[i].name \in Listed}
        equal == {i \in listed : Same(tables[i].name, Wanted)}
    IN  IF equal # {} THEN equal
        ELSE {i \in listed : LET name == tables[i].name
                              IN  Lower[name[Len(name)]] = Lower[Wanted[Len(Wanted)]]}

\* findTableInList: OP_TABLES_GET, iterated in the order of a Go map, that is
\* in any order.  An equal name wins, then the first similar one; else an error.
Candidates ==
    LET listed == {i \in DOMAIN tables : tables[i].live /\ tables[i].name \in Listed}
        equal == {i \in listed : Same(tables[i].name, Wanted)}
    IN  IF equal # {} THEN equal ELSE {i \in listed : Similar(tables[i].name, Wanted)}

FindTableInList ==
    /\ pc = "list" /\ link = "up"
    /\ IF Candidates = {} THEN pc' = "idle" /\ UNCHANGED target
       ELSE target' \in Candidates /\ pc' = "schema"
    /\ UNCHANGED <<link, handle, next, wireVars, serverVars>>

\* Fault: the handle takes the version before the latest.
GetTableSchemaPrevious ==
    /\ pc = "schema" /\ link = "up"
    /\ pc' = "idle" /\ target' = 0
    /\ handle' = IF tables[target].live
                 THEN [id |-> target, version |-> tables[target].version - 1] ELSE handle
    /\ UNCHANGED <<link, next, wireVars, serverVars>>

\* GetTableSchema: OP_SCHEMAS_GET for the latest version; the table may have
\* been dropped since its id was found, which is an error.
GetTableSchema ==
    /\ pc = "schema" /\ link = "up"
    /\ pc' = "idle" /\ target' = 0
    /\ handle' = IF tables[target].live
                 THEN [id |-> target, version |-> tables[target].version] ELSE handle
    /\ UNCHANGED <<link, next, wireVars, serverVars>>

-----------------------------------------------------------------------------
(* Writing: UpsertAll, DeleteAll                                           *)

Batch == Batches[next]
IsEmpty(batch) == \A k \in Keys : batch.rows[k] = 0

\* Every tuple is built before anything is sent: a value that cannot be
\* converted fails the batch, which the user skips.  An empty batch succeeds.
NotSent ==
    /\ pc = "idle" /\ handle.id # 0 /\ next <= Len(Batches)
    /\ Batch.bad \/ IsEmpty(Batch)
    /\ next' = next + 1
    /\ UNCHANGED <<link, pc, target, handle, wireVars, serverVars>>

\* Fault: a batch is sent although a tuple of it could not be built.
SendUnchecked ==
    /\ pc = "idle" /\ handle.id # 0 /\ next <= Len(Batches) /\ link = "up"
    /\ ~IsEmpty(Batch)
    /\ wire' = [id |-> handle.id, version |-> handle.version, batch |-> next]
    /\ pc' = "sent"
    /\ UNCHANGED <<link, target, handle, next, reply, late, serverVars>>

\* tupleWriteAll sends the id and the schema version of the handle.
Send ==
    /\ pc = "idle" /\ handle.id # 0 /\ next <= Len(Batches) /\ link = "up"
    /\ ~Batch.bad /\ ~IsEmpty(Batch)
    /\ wire' = [id |-> handle.id, version |-> handle.version, batch |-> next]
    /\ pc' = "sent"
    /\ UNCHANGED <<link, target, handle, next, reply, late, serverVars>>

\* Fault: the status of the answer is not checked.
AnsweredUnchecked ==
    /\ pc = "sent" /\ reply # "none"
    /\ next' = next + 1
    /\ reply' = "none"
    /\ pc' = "idle"
    /\ UNCHANGED <<link, target, handle, wire, late, serverVars>>

\* CheckStatus on the answer: after an error the user tries again, with the
\* handle it has or with a new one.
Answered ==
    /\ pc = "sent" /\ reply # "none"
    /\ next' = IF reply = "ok" THEN next + 1 ELSE next
    /\ reply' = "none"
    /\ pc' = "idle"
    /\ UNCHANGED <<link, target, handle, wire, late, serverVars>>

\* A request on a lost connection fails, whatever has become of it.
RequestFails ==
    /\ pc # "idle" /\ link = "down" /\ reply = "none"
    /\ pc' = "idle" /\ target' = 0
    /\ UNCHANGED <<link, handle, next, wireVars, serverVars>>

\* The handle belongs to the lost client: a new one has to be resolved.
Reconnect ==
    /\ pc = "idle" /\ link = "down"
    /\ link' = "up"
    /\ handle' = NoTable
    /\ UNCHANGED <<pc, target, next, wireVars, serverVars>>

-----------------------------------------------------------------------------
(* The server, other users and the network (external)                      *)

Write(rows, batch) ==
    [k \in Keys |-> IF batch.rows[k] = 0 THEN rows[k]
                    ELSE IF batch.op = "delete" THEN 0 ELSE batch.rows[k]]

Apply(r) ==
    /\ tables' = [tables EXCEPT ![r.id].rows = Write(@, Batches[r.batch])]
    /\ applied' = applied \cup {r.batch}
    /\ overtaken' = (overtaken \/ \E i \in applied : i > r.batch)

\* A dropped table's id is unknown; an outdated version may be refused.
Refusable(r) == ~tables[r.id].live \/ r.version < tables[r.id].version

Execute ==
    /\ wire # NoRequest
    /\ \/ tables[wire.id].live /\ Apply(wire) /\ reply' = "ok"
       \/ Refusable(wire) /\ reply' = "error" /\ UNCHANGED serverVars
    /\ wire' = NoRequest
    /\ UNCHANGED <<link, userVars, late>>

ExecuteLate ==
    /\ late # NoRequest
    /\ \/ tables[late.id].live /\ Apply(late)
       \/ Refusable(late) /\ UNCHANGED serverVars
    /\ late' = NoRequest
    /\ UNCHANGED <<link, userVars, wire, reply>>

\* A request in flight is lost, or has reached the server, which executes it
\* whenever it gets to it.
LinkDown ==
    /\ link = "up"
    /\ link' = "down"
    /\ wire' = NoRequest
    /\ late' \in IF wire # NoRequest THEN {late, wire} ELSE {late}
    /\ reply' \in {reply, "none"}
    /\ UNCHANGED <<userVars, serverVars>>

CreateTable(name) ==
    /\ Ids(name) = {} /\ Len(tables) < MaxTables
    /\ tables' = Append(tables, NewTable(name))
    /\ UNCHANGED <<link, userVars, wireVars, applied, overtaken>>

DropTable(i) ==
    /\ tables[i].live
    /\ tables' = [tables EXCEPT ![i].live = FALSE]
    /\ UNCHANGED <<link, userVars, wireVars, applied, overtaken>>

AlterTable(i) ==
    /\ tables[i].live /\ tables[i].version < MaxVersion
    /\ tables' = [tables EXCEPT ![i].version = @ + 1]
    /\ UNCHANGED <<link, userVars, wireVars, applied, overtaken>>

-----------------------------------------------------------------------------

Next ==
    \/ TableGet \/ FindTableInList \/ GetTableSchema
    \/ NotSent \/ Send \/ Answered \/ RequestFails \/ Reconnect
    \/ Execute \/ ExecuteLate \/ LinkDown
    \/ \E name \in Names : CreateTable(name)
    \/ \E i \in DOMAIN tables : DropTable(i) \/ AlterTable(i)

Spec == Init /\ [][Next]_vars

-----------------------------------------------------------------------------
(* Properties                                                              *)

BatchIds == 1..Len(Batches)
Requests == [id : 1..MaxTables, version : 1..MaxVersion, batch : BatchIds] \cup {NoRequest}

\* Tables, handle and requests have their types.
TypeOK ==
    /\ tables \in Seq([name : Names, live : BOOLEAN, version : 1..MaxVersion, rows : [Keys -> Nat]])
    /\ Len(tables) \in 1..MaxTables
    /\ link \in {"up", "down"}
    /\ pc \in {"idle", "list", "schema", "sent"}
    /\ target \in 0..MaxTables
    /\ handle \in [id : 1..MaxTables, version : 1..MaxVersion] \cup {NoTable}
    /\ next \in 1..(Len(Batches) + 1)
    /\ wire \in Requests /\ late \in Requests
    /\ reply \in {"none", "ok", "error"}
    /\ applied \subseteq BatchIds
    /\ overtaken \in BOOLEAN

\* The rows after the first i batches, each delivered once and a batch that
\* cannot be encoded not at all.
Delivered[i \in 0..Len(Batches)] ==
    IF i = 0 THEN [k \in Keys |-> 0]
    ELSE IF Batches[i].bad THEN Delivered[i - 1] ELSE Write(Delivered[i - 1], Batches[i])

\* The batches delivered so far, each as if written once and whole, and at
\* most the next one.
HoldsDelivered(rows) == \/ rows = Delivered[next - 1]
                        \/ next <= Len(Batches) /\ rows = Delivered[next]

\* "replaying a batch after a retry produces the same result" and "a batch is
\* never partially written" (README, section 5): whatever fails and is retried,
\* over however many handles and connections, a table that is not dropped
\* holds what was delivered, as long as the server executes no request after
\* one of a later batch.  A request executed late but in order does no harm.
ReplayIsIdempotent == tables[1].live /\ ~overtaken => HoldsDelivered(tables[1].rows)

\* The user goes on to the next batch only if the server has executed this
\* one, or there was nothing to send: a write through an outdated handle is
\* not lost silently (tupleWriteAll's CheckStatus).
AcknowledgedWasApplied ==
    \A i \in 1..(next - 1) : Batches[i].bad \/ IsEmpty(Batches[i]) \/ i \in applied

\* The tables the user may mean: of the wanted name up to case, or of a name
\* that differs from it by a prefix (findTableInList, client-schemas.go:290).
Meant(i) == Same(tables[i].name, Wanted) \/ Similar(tables[i].name, Wanted)

\* No step changes the rows of a table the user cannot have meant: neither
\* resolving the name over two requests with DDL in between, nor a handle that
\* has gone stale, nor a request executed late leads to one.  Among the tables
\* of similar names any may be written (the list is a Go map).
WritesOnlyMeant ==
    [][\A i \in DOMAIN tables : ~Meant(i) => tables'[i].rows = tables[i].rows]_vars
=============================================================================
