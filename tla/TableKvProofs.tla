--------------------------- MODULE TableKvProofs ---------------------------
(***************************************************************************)
(* Proofs about TableKv, for any names, keys and batches and any number of  *)
(* tables and schema versions.                                              *)
(***************************************************************************)
EXTENDS TableKv, NumeralProofs

-----------------------------------------------------------------------------
(* The inductive invariant                                                 *)

\* Nothing of this batch is ever sent.
NothingToSend(i) == Batches[i].bad \/ IsEmpty(Batches[i])

\* The ids the user and the network hold are ids of tables.
RefersToTables ==
    /\ target \in 0..Len(tables)
    /\ handle.id \in 0..Len(tables)
    /\ wire.id \in 0..Len(tables)
    /\ late.id \in 0..Len(tables)
    /\ pc = "schema" => target # 0

\* The request in flight is the next batch's, over the connection that is up,
\* and not answered yet; an answer is awaited; a late request is of a batch
\* up to the next one.
OneRequest ==
    /\ wire # NoRequest => pc = "sent" /\ wire.batch = next /\ reply = "none" /\ link = "up"
    /\ reply # "none" => pc = "sent"
    /\ reply = "ok" => next \in applied
    /\ pc = "sent" => next <= Len(Batches) /\ ~NothingToSend(next)
    /\ late # NoRequest => late.batch <= next /\ ~NothingToSend(late.batch)
    /\ \A i \in applied : i <= next /\ ~NothingToSend(i)

\* While the first table lives, the user finds no other under its name.
OneTable ==
    /\ tables[1].name = Wanted
    /\ tables[1].live =>
          /\ \A i \in DOMAIN tables : tables[i].live /\ tables[i].name = Wanted => i = 1
          /\ pc # "list"
          /\ target \in {0, 1} /\ handle.id \in {0, 1}
          /\ wire.id \in {0, 1} /\ late.id \in {0, 1}

\* The rows are those of the batches delivered, with the next one exactly if
\* the server has executed it.
ExactRows ==
    tables[1].live /\ ~overtaken =>
        tables[1].rows = IF next \in applied THEN Delivered[next] ELSE Delivered[next - 1]

KvInv ==
    /\ TypeOK
    /\ RefersToTables
    /\ OneRequest
    /\ AcknowledgedWasApplied
    /\ OneTable
    /\ ExactRows

-----------------------------------------------------------------------------
(* What a batch does to the rows                                           *)

RowMaps == [Keys -> Nat]
BatchSet == [op : {"upsert", "delete"}, bad : BOOLEAN, rows : [Keys -> Nat]]

\* A batch leaves a value for every key.
LEMMA WriteType ==
    ASSUME NEW r \in RowMaps, NEW b \in BatchSet
    PROVE  Write(r, b) \in RowMaps
BY DEF Write, RowMaps, BatchSet

\* Executed again at once, a batch changes nothing.
LEMMA WriteIsIdempotent ==
    ASSUME NEW r \in RowMaps, NEW b \in BatchSet
    PROVE  Write(Write(r, b), b) = Write(r, b)
BY DEF Write, RowMaps, BatchSet

\* An empty batch changes nothing.
LEMMA EmptyWritesNothing ==
    ASSUME NEW r \in RowMaps, NEW b \in BatchSet, IsEmpty(b)
    PROVE  Write(r, b) = r
BY DEF Write, RowMaps, BatchSet, IsEmpty

\* A batch is a batch.
LEMMA BatchType ==
    /\ Len(Batches) \in Nat
    /\ \A i \in 1..Len(Batches) : Batches[i] \in BatchSet /\ Batches[i].bad \in BOOLEAN
<1>1. Batches \in Seq(BatchSet)
  BY BatchesAssumption DEF BatchSet
<1>2. Len(Batches) \in Nat /\ \A i \in 1..Len(Batches) : Batches[i] \in BatchSet
  BY <1>1
<1> QED
  BY <1>2 DEF BatchSet

\* The recursion of Delivered defines a function.
LEMMA DeliveredUnfolds ==
    /\ Delivered \in [0..Len(Batches) -> RowMaps]
    /\ \A i \in 0..Len(Batches) :
          Delivered[i] = IF i = 0 THEN [k \in Keys |-> 0]
                         ELSE IF Batches[i].bad THEN Delivered[i - 1]
                              ELSE Write(Delivered[i - 1], Batches[i])
<1> DEFINE n == Len(Batches)
           c == [k \in Keys |-> 0]
           Step(i, r) == IF Batches[i].bad THEN r ELSE Write(r, Batches[i])
           F == [i \in 1..n |-> [r \in RowMaps |-> Step(i, r)]]
<1>1. n \in Nat /\ c \in RowMaps
  BY BatchType DEF RowMaps
<1>2. \A i \in 1..n, r \in RowMaps : Step(i, r) \in RowMaps
  BY BatchType, WriteType
<1>3. F \in [1..n -> [RowMaps -> RowMaps]]
  BY <1>2
<1>4. PICK g \in [0..n -> RowMaps] :
         g[0] = c /\ \A i \in 1..n : g[i] = F[i][g[i - 1]]
  <2> HIDE DEF F, c, n
  <2> QED
    BY <1>1, <1>3, RecursionExists
<1>5. ASSUME NEW h, h = [i \in 0..n |-> IF i = 0 THEN c ELSE Step(i, h[i - 1])]
      PROVE  h = g
  <2> DEFINE S == {m \in Nat : m <= n => h[m] = g[m]}
  <2>1. 0 \in S
    <3>1. 0 \in 0..n
      BY <1>1
    <3> QED
      BY <3>1, <1>4, <1>5
  <2>2. ASSUME NEW m \in Nat, m \in S PROVE m + 1 \in S
    <3> SUFFICES ASSUME m + 1 <= n PROVE h[m + 1] = g[m + 1]
      OBVIOUS
    <3>1. m + 1 \in 0..n /\ m + 1 # 0 /\ (m + 1) - 1 = m /\ m \in 0..n /\ m + 1 \in 1..n
      BY <1>1
    <3>2. h[m + 1] = Step(m + 1, h[m]) /\ g[m + 1] = F[m + 1][g[m]]
      BY <1>4, <1>5, <3>1
    <3>3. h[m] = g[m] /\ g[m] \in RowMaps
      <4> HIDE DEF n
      <4> QED
        BY <1>1, <2>2, <3>1, <1>4
    <3> QED
      BY <3>1, <3>2, <3>3
  <2>3. \A m \in Nat : m \in S
    <3> HIDE DEF S
    <3> QED
      BY <2>1, <2>2, Induct
  <2>4. \A i \in 0..n : h[i] = g[i]
    BY <2>3, <1>1
  <2> QED
    BY <2>4, <1>4, <1>5
<1>6. g = [i \in 0..n |-> IF i = 0 THEN c ELSE Step(i, g[i - 1])]
  <2>1. \A i \in 1..n : g[i - 1] \in RowMaps
    <3>1. \A i \in 1..n : i - 1 \in 0..n
      BY <1>1
    <3> HIDE DEF n
    <3> QED
      BY <3>1, <1>4
  <2>2. \A i \in 0..n : i # 0 => F[i][g[i - 1]] = Step(i, g[i - 1])
    BY <1>1, <2>1
  <2> HIDE DEF F, c, Step, n
  <2> QED
    BY <1>4, <2>2
<1>7. Delivered = [i \in 0..n |-> IF i = 0 THEN c ELSE Step(i, Delivered[i - 1])]
  BY <1>6 DEF Delivered
<1> QED
  BY <1>4, <1>5, <1>7

\* Batches of which nothing is sent change nothing.
LEMMA NothingDelivered ==
    ASSUME NEW b \in 0..Len(Batches)
    PROVE  \A m \in Nat : b <= m /\ m <= Len(Batches) /\ (\A j \in (b + 1)..m : NothingToSend(j))
                             => Delivered[m] = Delivered[b]
<1> DEFINE S == {m \in Nat : b <= m /\ m <= Len(Batches) /\ (\A j \in (b + 1)..m : NothingToSend(j))
                                => Delivered[m] = Delivered[b]}
<1>1. b \in Nat /\ Len(Batches) \in Nat
  BY BatchType
<1>2. 0 \in S
  BY <1>1
<1>3. ASSUME NEW m \in Nat, m \in S PROVE m + 1 \in S
  <2> SUFFICES ASSUME b <= m + 1, m + 1 <= Len(Batches),
                      \A j \in (b + 1)..(m + 1) : NothingToSend(j)
               PROVE  Delivered[m + 1] = Delivered[b]
    OBVIOUS
  <2>1. CASE b = m + 1
    BY <2>1
  <2>2. CASE b # m + 1
    <3>1. /\ b <= m /\ m <= Len(Batches) /\ m \in 0..Len(Batches)
          /\ m + 1 \in (b + 1)..(m + 1) /\ m + 1 \in 0..Len(Batches) /\ m + 1 # 0
          /\ (m + 1) - 1 = m /\ m + 1 \in 1..Len(Batches)
      BY <1>1, <2>2
    <3>2. \A j \in (b + 1)..m : NothingToSend(j)
      BY <1>1, <2>2
    <3>3. Delivered[m] = Delivered[b] /\ NothingToSend(m + 1)
      BY <1>3, <3>1, <3>2
    <3>4. Delivered[m + 1] = IF Batches[m + 1].bad THEN Delivered[m]
                             ELSE Write(Delivered[m], Batches[m + 1])
      BY <3>1, DeliveredUnfolds
    <3>5. Delivered[m] \in RowMaps /\ Batches[m + 1] \in BatchSet
      BY <3>1, DeliveredUnfolds, BatchType
    <3> QED
      BY <3>3, <3>4, <3>5, EmptyWritesNothing DEF NothingToSend
  <2> QED
    BY <2>1, <2>2
<1>4. \A m \in Nat : m \in S
  <2> HIDE DEF S
  <2> QED
    BY <1>2, <1>3, Induct
<1> QED
  BY <1>4

-----------------------------------------------------------------------------
(* What a step does to the tables                                          *)

TableSet == [name : Names, live : BOOLEAN, version : 1..MaxVersion, rows : [Keys -> Nat]]

\* The tables are a sequence of tables, and there is one.
LEMMA TableFacts ==
    ASSUME TypeOK
    PROVE  /\ tables \in Seq(TableSet)
           /\ Len(tables) \in Nat /\ Len(tables) # 0 /\ DOMAIN tables = 1..Len(tables)
           /\ 1 \in DOMAIN tables
           /\ \A i \in DOMAIN tables : tables[i] \in TableSet
<1>1. tables \in Seq(TableSet) /\ Len(tables) \in 1..MaxTables
  BY DEF TypeOK, TableSet
<1>2. Len(tables) \in Nat /\ Len(tables) # 0 /\ DOMAIN tables = 1..Len(tables)
  BY <1>1
<1> QED
  BY <1>1, <1>2

\* Executing a request writes its batch to its table, and does nothing else.
LEMMA ApplyEffect ==
    ASSUME TypeOK, NEW r \in Requests, r # NoRequest, r.id \in 0..Len(tables), Apply(r)
    PROVE  /\ tables' \in Seq(TableSet) /\ Len(tables') = Len(tables)
           /\ r.id \in DOMAIN tables /\ r.batch \in BatchIds
           /\ \A i \in DOMAIN tables :
                 /\ tables'[i].name = tables[i].name /\ tables'[i].live = tables[i].live
                 /\ tables'[i].version = tables[i].version
                 /\ tables'[i].rows = IF i = r.id THEN Write(tables[i].rows, Batches[r.batch])
                                                  ELSE tables[i].rows
<1>1. r.id \in Nat \ {0} /\ r.batch \in BatchIds
  BY BoundsAssumption DEF Requests, NoRequest
<1>2. r.id \in DOMAIN tables
  BY <1>1, TableFacts
<1> DEFINE t == [tables[r.id] EXCEPT !.rows = Write(@, Batches[r.batch])]
<1>3. tables' = [tables EXCEPT ![r.id] = t]
  BY DEF Apply
<1>4. tables[r.id] \in TableSet /\ Batches[r.batch] \in BatchSet
  BY <1>1, <1>2, TableFacts, BatchType DEF BatchIds
<1>5. Write(tables[r.id].rows, Batches[r.batch]) \in RowMaps
  BY <1>4, WriteType DEF TableSet, RowMaps
<1>6. /\ t \in TableSet /\ t.name = tables[r.id].name /\ t.live = tables[r.id].live
      /\ t.version = tables[r.id].version
      /\ t.rows = Write(tables[r.id].rows, Batches[r.batch])
  BY <1>4, <1>5 DEF TableSet, RowMaps
<1> HIDE DEF t
<1>7. tables' \in Seq(TableSet) /\ Len(tables') = Len(tables)
  BY <1>2, <1>3, <1>6, TableFacts
<1>8. \A i \in DOMAIN tables : tables'[i] = IF i = r.id THEN t ELSE tables[i]
  BY <1>2, <1>3, TableFacts
<1> QED
  BY <1>1, <1>2, <1>6, <1>7, <1>8

\* Dropping a table ends its life, and does nothing else.
LEMMA DropEffect ==
    ASSUME TypeOK, NEW d \in DOMAIN tables, DropTable(d)
    PROVE  /\ tables' \in Seq(TableSet) /\ Len(tables') = Len(tables)
           /\ \A i \in DOMAIN tables :
                 /\ tables'[i].name = tables[i].name /\ tables'[i].rows = tables[i].rows
                 /\ tables'[i].live => tables[i].live
<1> DEFINE t == [tables[d] EXCEPT !.live = FALSE]
<1>1. tables' = [tables EXCEPT ![d] = t]
  BY DEF DropTable
<1>2. tables[d] \in TableSet
  BY TableFacts
<1>3. t \in TableSet /\ t.name = tables[d].name /\ t.live = FALSE /\ t.rows = tables[d].rows
  BY <1>2 DEF TableSet
<1> HIDE DEF t
<1>4. tables' \in Seq(TableSet) /\ Len(tables') = Len(tables)
  BY <1>1, <1>3, TableFacts
<1>5. \A i \in DOMAIN tables : tables'[i] = IF i = d THEN t ELSE tables[i]
  BY <1>1, TableFacts
<1> QED
  BY <1>3, <1>4, <1>5

\* Altering a table gives it a new version, and does nothing else.
LEMMA AlterEffect ==
    ASSUME TypeOK, NEW d \in DOMAIN tables, AlterTable(d)
    PROVE  /\ tables' \in Seq(TableSet) /\ Len(tables') = Len(tables)
           /\ \A i \in DOMAIN tables :
                 /\ tables'[i].name = tables[i].name /\ tables'[i].rows = tables[i].rows
                 /\ tables'[i].live = tables[i].live
<1> DEFINE t == [tables[d] EXCEPT !.version = @ + 1]
<1>1. tables' = [tables EXCEPT ![d] = t] /\ tables[d].version < MaxVersion
  BY DEF AlterTable
<1>2. tables[d] \in TableSet
  BY TableFacts
<1>3. tables[d].version + 1 \in 1..MaxVersion
  BY <1>1, <1>2, BoundsAssumption DEF TableSet
<1>4. t \in TableSet /\ t.name = tables[d].name /\ t.live = tables[d].live /\ t.rows = tables[d].rows
  BY <1>2, <1>3 DEF TableSet
<1> HIDE DEF t
<1>5. tables' \in Seq(TableSet) /\ Len(tables') = Len(tables)
  BY <1>1, <1>4, TableFacts
<1>6. \A i \in DOMAIN tables : tables'[i] = IF i = d THEN t ELSE tables[i]
  BY <1>1, TableFacts
<1> QED
  BY <1>4, <1>5, <1>6

\* A table that is created gets an id of its own and the others stay as they
\* are.
LEMMA CreateEffect ==
    ASSUME TypeOK, NEW name \in Names, CreateTable(name)
    PROVE  /\ tables' \in Seq(TableSet) /\ Len(tables') = Len(tables) + 1 /\ Len(tables') <= MaxTables
           /\ \A i \in DOMAIN tables : tables'[i] = tables[i]
           /\ tables'[Len(tables')].name = name
           /\ \A i \in DOMAIN tables : tables[i].live => tables[i].name # name
<1>1. /\ tables' = Append(tables, NewTable(name)) /\ Len(tables) < MaxTables
      /\ \A i \in DOMAIN tables : tables[i].live => tables[i].name # name
  BY DEF CreateTable, Ids
<1>2. NewTable(name) \in TableSet /\ NewTable(name).name = name
  BY BoundsAssumption DEF NewTable, TableSet
<1>3. tables' \in Seq(TableSet) /\ Len(tables') = Len(tables) + 1 /\ tables'[Len(tables')] = NewTable(name)
  BY <1>1, <1>2, TableFacts
<1>4. \A i \in DOMAIN tables : tables'[i] = tables[i]
  BY <1>1, TableFacts
<1> QED
  BY <1>1, <1>2, <1>3, <1>4, TableFacts, BoundsAssumption

\* The request a step of the server executes, if it executes one.
Writes(r) == tables[r.id].live /\ Apply(r)

\* A step of anyone leaves the tables there are, with their names; a table
\* that lives has lived, and no table of the same name is created beside it;
\* rows change only by a request that is executed.
TablesStep ==
    /\ tables' \in Seq(TableSet)
    /\ Len(tables) <= Len(tables') /\ Len(tables') <= MaxTables
    /\ \A i \in DOMAIN tables :
          /\ tables'[i].name = tables[i].name
          /\ tables'[i].live => tables[i].live
          /\ \/ tables'[i].rows = tables[i].rows
             \/ wire # NoRequest /\ Writes(wire) /\ i = wire.id
             \/ late # NoRequest /\ Writes(late) /\ i = late.id
    /\ \A i \in 1..Len(tables') : i \notin DOMAIN tables =>
          \A j \in DOMAIN tables : tables[j].live => tables[j].name # tables'[i].name

\* That is all that happens to the tables in a step.
LEMMA TablesChange ==
    ASSUME TypeOK, RefersToTables, Next \/ UNCHANGED vars
    PROVE  TablesStep
<1> USE TableFacts
<1>1. /\ wire \in Requests /\ late \in Requests /\ Len(tables) <= MaxTables
      /\ wire.id \in 0..Len(tables) /\ late.id \in 0..Len(tables)
  BY BoundsAssumption DEF TypeOK, RefersToTables
<1>2. CASE UNCHANGED tables
  BY <1>1, <1>2 DEF TablesStep
<1>3. CASE wire # NoRequest /\ Writes(wire)
  BY <1>1, <1>3, ApplyEffect DEF TablesStep, Writes
<1>4. CASE late # NoRequest /\ Writes(late)
  BY <1>1, <1>4, ApplyEffect DEF TablesStep, Writes
<1>5. ASSUME NEW d \in DOMAIN tables, DropTable(d) PROVE TablesStep
  BY <1>1, <1>5, DropEffect DEF TablesStep
<1>6. ASSUME NEW d \in DOMAIN tables, AlterTable(d) PROVE TablesStep
  BY <1>1, <1>6, AlterEffect DEF TablesStep
<1>7. ASSUME NEW name \in Names, CreateTable(name) PROVE TablesStep
  BY <1>1, <1>7, CreateEffect DEF TablesStep
<1>8. CASE Execute
  BY <1>2, <1>3, <1>8 DEF Execute, Writes, serverVars
<1>9. CASE ExecuteLate
  BY <1>2, <1>4, <1>9 DEF ExecuteLate, Writes, serverVars
<1>10. CASE \/ TableGet \/ FindTableInList \/ GetTableSchema \/ NotSent \/ Send \/ Answered
            \/ RequestFails \/ Reconnect \/ LinkDown \/ UNCHANGED vars
  BY <1>2, <1>10 DEF TableGet, FindTableInList, GetTableSchema, NotSent, Send, Answered,
                    RequestFails, Reconnect, LinkDown, serverVars, vars
<1> QED
  BY <1>5, <1>6, <1>7, <1>8, <1>9, <1>10 DEF Next
-----------------------------------------------------------------------------
(* The invariant is inductive                                              *)

\* The program starts in the invariant.
LEMMA KvInit == Init => KvInv
<1> SUFFICES ASSUME Init PROVE KvInv
  OBVIOUS
<1> DEFINE t == NewTable(Wanted)
<1>1. t \in TableSet /\ t.name = Wanted /\ t.rows = [k \in Keys |-> 0]
  BY BoundsAssumption, NamesAssumption DEF NewTable, TableSet
<1> HIDE DEF t
<1>2. tables = <<t>>
  BY DEF Init, t
<1>3. /\ tables \in Seq(TableSet) /\ Len(tables) = 1 /\ tables[1] = t
      /\ DOMAIN tables = {1}
  BY <1>1, <1>2
<1>4. Len(Batches) \in Nat
  BY BatchType
<1>5. TypeOK
  <2>1. /\ tables \in Seq(TableSet) /\ Len(tables) \in 1..MaxTables
        /\ target \in 0..MaxTables /\ next \in 1..(Len(Batches) + 1)
    BY <1>3, <1>4, BoundsAssumption DEF Init
  <2>2. /\ handle \in [id : 1..MaxTables, version : 1..MaxVersion] \cup {NoTable}
        /\ wire \in Requests /\ late \in Requests /\ applied \subseteq BatchIds
    BY DEF Init, Requests
  <2> QED
    BY <2>1, <2>2 DEF Init, TypeOK, TableSet
<1>6. RefersToTables
  BY <1>3 DEF Init, RefersToTables, NoTable, NoRequest
<1>7. OneRequest /\ AcknowledgedWasApplied
  BY DEF Init, OneRequest, AcknowledgedWasApplied
<1>8. OneTable
  BY <1>1, <1>3 DEF Init, OneTable, NoTable, NoRequest
<1>9. Delivered[0] = [k \in Keys |-> 0]
  BY <1>4, DeliveredUnfolds
<1>10. ExactRows
  BY <1>1, <1>3, <1>9 DEF Init, ExactRows
<1> QED
  BY <1>5, <1>6, <1>7, <1>8, <1>10 DEF KvInv

\* A step keeps the types, and the ids ids of tables.
LEMMA TypeStep ==
    ASSUME TypeOK, RefersToTables, OneRequest, Next \/ UNCHANGED vars
    PROVE  TypeOK' /\ RefersToTables'
<1> USE BoundsAssumption, BatchType
<1>1. /\ tables' \in Seq(TableSet) /\ Len(tables) \in Nat /\ Len(tables') \in Nat
      /\ Len(tables) <= Len(tables') /\ Len(tables') <= MaxTables /\ Len(tables) # 0
  BY TablesChange, TableFacts DEF TablesStep
<1>2. tables' \in Seq(TableSet) /\ Len(tables') \in 1..MaxTables
  BY <1>1
<1>3. ASSUME /\ link' \in {"up", "down"}
             /\ pc' \in {"idle", "list", "schema", "sent"}
             /\ target' \in 0..Len(tables) /\ (pc' = "schema" => target' # 0)
             /\ handle' \in [id : 1..MaxTables, version : 1..MaxVersion] \cup {NoTable}
             /\ handle'.id \in 0..Len(tables)
             /\ next' \in 1..(Len(Batches) + 1)
             /\ wire' \in Requests /\ wire'.id \in 0..Len(tables)
             /\ late' \in Requests /\ late'.id \in 0..Len(tables)
             /\ reply' \in {"none", "ok", "error"}
             /\ applied' \subseteq BatchIds
             /\ overtaken' \in BOOLEAN
      PROVE  TypeOK' /\ RefersToTables'
  <2>1. TypeOK'
    BY <1>1, <1>2, <1>3 DEF TypeOK, TableSet
  <2>2. RefersToTables'
    BY <1>1, <1>3 DEF RefersToTables
  <2> QED
    BY <2>1, <2>2
<1>4. /\ link \in {"up", "down"}
      /\ pc \in {"idle", "list", "schema", "sent"}
      /\ target \in 0..Len(tables) /\ (pc = "schema" => target # 0)
      /\ handle \in [id : 1..MaxTables, version : 1..MaxVersion] \cup {NoTable}
      /\ handle.id \in 0..Len(tables)
      /\ next \in 1..(Len(Batches) + 1)
      /\ wire \in Requests /\ wire.id \in 0..Len(tables)
      /\ late \in Requests /\ late.id \in 0..Len(tables)
      /\ reply \in {"none", "ok", "error"}
      /\ applied \subseteq BatchIds
      /\ overtaken \in BOOLEAN
  BY DEF TypeOK, RefersToTables
<1>5. NoRequest \in Requests /\ NoRequest.id = 0 /\ NoTable.id = 0
  BY DEF Requests, NoRequest, NoTable
<1>6. \A r \in Requests : r # NoRequest => r.batch \in BatchIds
  BY DEF Requests, NoRequest
<1>7. DOMAIN tables = 1..Len(tables) /\ \A i \in DOMAIN tables : tables[i] \in TableSet
  BY TableFacts
<1>8. CASE TableGet
  BY <1>1, <1>3, <1>4, <1>7, <1>8 DEF TableGet, Ids, wireVars, serverVars
<1>9. CASE FindTableInList
  <2>1. Candidates \subseteq DOMAIN tables
    BY DEF Candidates
  <2> QED
    BY <2>1, <1>1, <1>3, <1>4, <1>7, <1>9 DEF FindTableInList, wireVars, serverVars
<1>10. CASE GetTableSchema
  <2>1. target \in 1..Len(tables) /\ target \in 1..MaxTables
    BY <1>1, <1>4, <1>10 DEF GetTableSchema
  <2>2. tables[target].version \in 1..MaxVersion
    BY <2>1, <1>7 DEF TableSet
  <2>3. handle' = handle \/ handle' = [id |-> target, version |-> tables[target].version]
    BY <1>10 DEF GetTableSchema
  <2>4. /\ handle' \in [id : 1..MaxTables, version : 1..MaxVersion] \cup {NoTable}
        /\ handle'.id \in 0..Len(tables)
    BY <2>1, <2>2, <2>3, <1>1, <1>4
  <2> QED
    BY <2>4, <1>1, <1>3, <1>4, <1>10 DEF GetTableSchema, wireVars, serverVars
<1>11. CASE NotSent
  BY <1>3, <1>4, <1>11 DEF NotSent, wireVars, serverVars
<1>12. CASE Send
  <2>1. handle \in [id : 1..MaxTables, version : 1..MaxVersion] /\ next \in BatchIds
    BY <1>4, <1>5, <1>12 DEF Send, BatchIds
  <2>2. wire' \in Requests /\ wire'.id = handle.id
    BY <2>1, <1>12 DEF Send, Requests
  <2> QED
    BY <2>2, <1>3, <1>4, <1>12 DEF Send, serverVars
<1>13. CASE Answered
  <2>1. pc = "sent" => next <= Len(Batches)
    BY DEF OneRequest
  <2> QED
    BY <2>1, <1>3, <1>4, <1>13 DEF Answered, serverVars
<1>14. CASE RequestFails
  BY <1>1, <1>3, <1>4, <1>14 DEF RequestFails, wireVars, serverVars
<1>15. CASE Reconnect
  BY <1>1, <1>3, <1>4, <1>5, <1>15 DEF Reconnect, wireVars, serverVars
<1>16. CASE Execute
  <2>1. applied' \subseteq BatchIds /\ overtaken' \in BOOLEAN
    BY <1>4, <1>6, <1>16 DEF Execute, Apply, serverVars
  <2> QED
    BY <2>1, <1>1, <1>3, <1>4, <1>5, <1>16 DEF Execute, userVars
<1>17. CASE ExecuteLate
  <2>1. applied' \subseteq BatchIds /\ overtaken' \in BOOLEAN
    BY <1>4, <1>6, <1>17 DEF ExecuteLate, Apply, serverVars
  <2> QED
    BY <2>1, <1>1, <1>3, <1>4, <1>5, <1>17 DEF ExecuteLate, userVars
<1>18. CASE LinkDown
  BY <1>1, <1>3, <1>4, <1>5, <1>18 DEF LinkDown, userVars, serverVars
<1>19. CASE \/ \E name \in Names : CreateTable(name)
            \/ \E i \in DOMAIN tables : DropTable(i) \/ AlterTable(i)
  <2>1. UNCHANGED <<link, userVars, wireVars, applied, overtaken>>
    BY <1>19 DEF CreateTable, DropTable, AlterTable
  <2> QED
    BY <2>1, <1>3, <1>4 DEF userVars, wireVars
<1>20. CASE UNCHANGED vars
  BY <1>3, <1>4, <1>20 DEF vars, userVars, wireVars, serverVars
<1> QED
  BY <1>8, <1>9, <1>10, <1>11, <1>12, <1>13, <1>14, <1>15, <1>16, <1>17, <1>18, <1>19, <1>20 DEF Next

\* A step keeps at most one request, of the next batch, and no batch is left
\* behind that was sent and not executed.
LEMMA RequestStep ==
    ASSUME TypeOK, OneRequest, AcknowledgedWasApplied, Next \/ UNCHANGED vars
    PROVE  OneRequest' /\ AcknowledgedWasApplied'
<1> USE BatchType
<1>1. /\ next \in Nat /\ next # 0 /\ applied \subseteq Nat
      /\ wire \in Requests /\ late \in Requests /\ reply \in {"none", "ok", "error"}
  BY DEF TypeOK, BatchIds
<1>2. \A r \in Requests : r # NoRequest => r.batch \in Nat
  BY DEF Requests, NoRequest, BatchIds
<1>3. ASSUME next' = next, applied \subseteq applied'
      PROVE  AcknowledgedWasApplied'
  BY <1>3 DEF AcknowledgedWasApplied
<1>4. CASE TableGet \/ FindTableInList \/ GetTableSchema \/ RequestFails \/ Reconnect
  <2>1. /\ UNCHANGED <<next, wire, reply, late, applied>>
        /\ pc' # "sent" /\ (wire # NoRequest => FALSE) /\ reply = "none"
    BY <1>1, <1>4 DEF TableGet, FindTableInList, GetTableSchema, RequestFails, Reconnect,
                      wireVars, serverVars, OneRequest
  <2>2. OneRequest'
    BY <2>1 DEF OneRequest
  <2> QED
    BY <1>3, <2>1, <2>2
<1>5. CASE NotSent
  <2>1. /\ UNCHANGED <<pc, wire, reply, late, applied>> /\ next' = next + 1 /\ pc = "idle"
        /\ NothingToSend(next)
    BY <1>5 DEF NotSent, wireVars, serverVars, NothingToSend, Batch
  <2>2. OneRequest'
    BY <1>1, <1>2, <2>1 DEF OneRequest
  <2>3. AcknowledgedWasApplied'
    BY <1>1, <2>1 DEF AcknowledgedWasApplied, NothingToSend
  <2> QED
    BY <2>2, <2>3
<1>6. CASE Send
  <2>1. /\ UNCHANGED <<next, reply, late, applied, link>> /\ pc = "idle" /\ pc' = "sent" /\ link = "up"
        /\ wire'.batch = next /\ next <= Len(Batches) /\ ~NothingToSend(next)
    BY <1>6 DEF Send, serverVars, NothingToSend, Batch
  <2>2. OneRequest'
    BY <1>1, <2>1 DEF OneRequest
  <2> QED
    BY <1>3, <2>1, <2>2
<1>7. CASE Answered
  <2>1. /\ UNCHANGED <<wire, late, applied>> /\ reply' = "none" /\ pc' = "idle" /\ reply # "none"
        /\ next' = IF reply = "ok" THEN next + 1 ELSE next
    BY <1>7 DEF Answered, serverVars
  <2>2. wire = NoRequest
    BY <2>1 DEF OneRequest
  <2>3. OneRequest'
    BY <1>1, <1>2, <2>1, <2>2 DEF OneRequest
  <2>4. AcknowledgedWasApplied'
    <3>1. CASE reply = "ok"
      BY <3>1, <1>1, <2>1 DEF AcknowledgedWasApplied, OneRequest
    <3>2. CASE reply # "ok"
      BY <3>2, <1>3, <2>1
    <3> QED
      BY <3>1, <3>2
  <2> QED
    BY <2>3, <2>4
<1>8. CASE Execute
  <2>1. /\ UNCHANGED <<link, pc, next, late>> /\ wire # NoRequest /\ wire' = NoRequest
        /\ \/ applied' = applied \cup {wire.batch}
           \/ applied' = applied /\ reply' # "ok"
    BY <1>8 DEF Execute, userVars, serverVars, Apply
  <2>2. /\ pc = "sent" /\ wire.batch = next /\ ~NothingToSend(next)
        /\ \A i \in applied : i <= next /\ ~NothingToSend(i)
    BY <2>1 DEF OneRequest
  <2>3. \A i \in applied' : i <= next /\ ~NothingToSend(i)
    <3>1. \A i \in applied' : i \in applied \/ i = next
      BY <2>1, <2>2
    <3>2. next <= next
      BY <1>1
    <3> QED
      BY <3>1, <3>2, <2>2, Zenon
  <2>4. OneRequest'
    BY <1>1, <2>1, <2>2, <2>3 DEF OneRequest
  <2> QED
    BY <1>3, <2>1, <2>4
<1>9. CASE ExecuteLate
  <2>1. /\ UNCHANGED <<link, pc, next, wire, reply>> /\ late # NoRequest /\ late' = NoRequest
        /\ applied' = applied \cup {late.batch} \/ applied' = applied
    BY <1>9 DEF ExecuteLate, userVars, serverVars, Apply
  <2>2. OneRequest'
    BY <1>1, <2>1 DEF OneRequest
  <2> QED
    BY <1>3, <2>1, <2>2
<1>10. CASE LinkDown
  <2>1. /\ UNCHANGED <<pc, next, applied>> /\ wire' = NoRequest
        /\ late' = late \/ (late' = wire /\ wire # NoRequest)
        /\ reply' = reply \/ reply' = "none"
    BY <1>10 DEF LinkDown, userVars, serverVars
  <2>2. OneRequest'
    BY <1>1, <2>1 DEF OneRequest
  <2> QED
    BY <1>3, <2>1, <2>2
<1>11. CASE \/ \E name \in Names : CreateTable(name)
            \/ \E i \in DOMAIN tables : DropTable(i) \/ AlterTable(i)
            \/ UNCHANGED vars
  <2>1. UNCHANGED <<link, pc, next, wire, reply, late, applied>>
    BY <1>11 DEF CreateTable, DropTable, AlterTable, vars, userVars, wireVars, serverVars
  <2>2. OneRequest'
    BY <2>1 DEF OneRequest
  <2> QED
    BY <1>3, <2>1, <2>2
<1> QED
  BY <1>4, <1>5, <1>6, <1>7, <1>8, <1>9, <1>10, <1>11 DEF Next

\* A step leads the user to no second table while the first lives.
LEMMA TableStep ==
    ASSUME TypeOK, RefersToTables, OneTable, Next \/ UNCHANGED vars
    PROVE  OneTable'
<1>1. TablesStep /\ 1 \in DOMAIN tables /\ DOMAIN tables = 1..Len(tables)
  BY TablesChange, TableFacts
<1>2. tables'[1].name = Wanted /\ (tables'[1].live => tables[1].live)
  BY <1>1 DEF TablesStep, OneTable
<1>3. SUFFICES ASSUME tables[1].live, tables'[1].live
               PROVE  /\ \A i \in DOMAIN tables' :
                            tables'[i].live /\ tables'[i].name = Wanted => i = 1
                      /\ pc' # "list"
                      /\ target' \in {0, 1} /\ handle'.id \in {0, 1}
                      /\ wire'.id \in {0, 1} /\ late'.id \in {0, 1}
  BY <1>2 DEF OneTable
<1>4. ASSUME NEW i \in DOMAIN tables', tables'[i].live, tables'[i].name = Wanted
      PROVE  i = 1
  <2>1. i \in 1..Len(tables')
    BY <1>1, <1>4 DEF TablesStep
  <2>2. CASE i \in DOMAIN tables
    BY <2>2, <1>1, <1>3, <1>4 DEF TablesStep, OneTable
  <2>3. CASE i \notin DOMAIN tables
    BY <2>1, <2>3, <1>1, <1>2, <1>3, <1>4 DEF TablesStep, OneTable
  <2> QED
    BY <2>2, <2>3
<1>5. Ids(Wanted) = {1}
  BY <1>1, <1>3 DEF OneTable, Ids
<1>6. /\ pc # "list" /\ target \in {0, 1} /\ handle.id \in {0, 1}
      /\ wire.id \in {0, 1} /\ late.id \in {0, 1}
  BY <1>3 DEF OneTable
<1>7. NoTable.id = 0 /\ NoRequest.id = 0
  BY DEF NoTable, NoRequest
<1> SUFFICES /\ pc' # "list"
             /\ target' \in {0, 1} /\ handle'.id \in {0, 1}
             /\ wire'.id \in {0, 1} /\ late'.id \in {0, 1}
  BY <1>4
<1>8. CASE TableGet
  BY <1>5, <1>6, <1>8 DEF TableGet, wireVars
<1>9. CASE FindTableInList
  BY <1>6, <1>9 DEF FindTableInList
<1>10. CASE GetTableSchema
  BY <1>6, <1>10 DEF GetTableSchema, wireVars
<1>11. CASE Send
  BY <1>6, <1>11 DEF Send
<1>12. CASE NotSent \/ Answered \/ RequestFails \/ Reconnect
  BY <1>6, <1>7, <1>12 DEF NotSent, Answered, RequestFails, Reconnect, wireVars
<1>13. CASE Execute \/ ExecuteLate \/ LinkDown
  BY <1>6, <1>7, <1>13 DEF Execute, ExecuteLate, LinkDown, userVars
<1>14. CASE \/ \E name \in Names : CreateTable(name)
            \/ \E i \in DOMAIN tables : DropTable(i) \/ AlterTable(i)
            \/ UNCHANGED vars
  <2>1. UNCHANGED <<userVars, wireVars>>
    BY <1>14 DEF CreateTable, DropTable, AlterTable, vars
  <2> QED
    BY <2>1, <1>6 DEF userVars, wireVars
<1> QED
  BY <1>8, <1>9, <1>10, <1>11, <1>12, <1>13, <1>14 DEF Next

\* The rows a batch up to the next one leaves, when it is executed and none
\* after it has been.
LEMMA RowsAfter ==
    ASSUME KvInv, tables[1].live, ~overtaken,
           NEW b \in BatchIds, b <= next, ~NothingToSend(b), \A i \in applied : i <= b
    PROVE  Write(tables[1].rows, Batches[b])
              = IF next \in applied \cup {b} THEN Delivered[next] ELSE Delivered[next - 1]
<1> USE BatchType DEF BatchIds
<1>1. /\ next \in 1..(Len(Batches) + 1) /\ applied \subseteq 1..Len(Batches)
      /\ tables[1].rows = IF next \in applied THEN Delivered[next] ELSE Delivered[next - 1]
  BY DEF KvInv, ExactRows, TypeOK
<1>2. /\ Delivered[b] = Write(Delivered[b - 1], Batches[b])
      /\ Delivered[b - 1] \in RowMaps /\ Batches[b] \in BatchSet
  <2>1. b \in 0..Len(Batches) /\ b - 1 \in 0..Len(Batches) /\ b # 0
    OBVIOUS
  <2> QED
    BY <2>1, DeliveredUnfolds DEF NothingToSend
<1>3. Write(Delivered[b], Batches[b]) = Delivered[b]
  BY <1>2, WriteIsIdempotent
<1>4. CASE b = next
  BY <1>1, <1>2, <1>3, <1>4
<1>5. CASE b < next
  <2>1. next \notin applied \cup {b}
    BY <1>1, <1>5
  <2>2. \A j \in (b + 1)..(next - 1) : NothingToSend(j)
    <3> SUFFICES ASSUME NEW j \in (b + 1)..(next - 1) PROVE NothingToSend(j)
      OBVIOUS
    <3>1. j \in 1..(next - 1) /\ j \notin applied
      BY <1>1
    <3> QED
      BY <3>1 DEF KvInv, AcknowledgedWasApplied, NothingToSend
  <2>3. /\ next - 1 \in Nat /\ b <= next - 1 /\ next - 1 <= Len(Batches) /\ b \in 0..Len(Batches)
    BY <1>1, <1>5
  <2>4. Delivered[next - 1] = Delivered[b]
    BY <2>2, <2>3, NothingDelivered
  <2> QED
    BY <1>1, <1>3, <2>1, <2>4
<1> QED
  BY <1>1, <1>4, <1>5

\* A step keeps the rows those of the batches delivered.
LEMMA RowsStep ==
    ASSUME KvInv, Next \/ UNCHANGED vars
    PROVE  ExactRows'
<1> USE BatchType
<1>1. /\ TypeOK /\ RefersToTables /\ OneRequest /\ AcknowledgedWasApplied /\ OneTable
      /\ TablesStep /\ 1 \in DOMAIN tables
      /\ next \in 1..(Len(Batches) + 1) /\ applied \subseteq BatchIds
      /\ wire \in Requests /\ late \in Requests
  BY TablesChange, TableFacts DEF KvInv, TypeOK
<1>2. SUFFICES ASSUME tables'[1].live, ~overtaken'
               PROVE  tables'[1].rows = IF next' \in applied' THEN Delivered[next'] ELSE Delivered[next' - 1]
  BY DEF ExactRows
<1>3. tables[1].live
  BY <1>1, <1>2 DEF TablesStep
<1>4. ASSUME NEW r \in Requests, r # NoRequest, r.id \in {0, 1} /\ r.id \in 0..Len(tables),
             r.batch <= next, ~NothingToSend(r.batch), Apply(r), next' = next
      PROVE  tables'[1].rows = IF next' \in applied' THEN Delivered[next'] ELSE Delivered[next' - 1]
  <2>1. ~overtaken /\ (\A i \in applied : ~(i > r.batch)) /\ applied' = applied \cup {r.batch}
    BY <1>2, <1>4 DEF Apply
  <2>2. r.batch \in BatchIds /\ r.id \in 1..MaxTables
    BY <1>4 DEF Requests, NoRequest
  <2>3. r.id = 1
    BY <1>4, <2>2, BoundsAssumption
  <2>4. \A i \in applied : i <= r.batch
    BY <1>1, <2>1, <2>2 DEF BatchIds
  <2>5. tables'[1].rows = Write(tables[1].rows, Batches[r.batch])
    BY <1>1, <1>4, <2>3, ApplyEffect
  <2>6. Write(tables[1].rows, Batches[r.batch])
            = IF next \in applied \cup {r.batch} THEN Delivered[next] ELSE Delivered[next - 1]
    BY <1>3, <1>4, <2>1, <2>2, <2>4, RowsAfter
  <2> QED
    BY <1>4, <2>1, <2>5, <2>6
<1>5. ASSUME tables'[1].rows = tables[1].rows, UNCHANGED <<applied, overtaken>>,
             \/ next' = next
             \/ next' = next + 1 /\ next <= Len(Batches) /\ (next \in applied \/ NothingToSend(next))
      PROVE  tables'[1].rows = IF next' \in applied' THEN Delivered[next'] ELSE Delivered[next' - 1]
  <2>1. tables[1].rows = IF next \in applied THEN Delivered[next] ELSE Delivered[next - 1]
    BY <1>2, <1>3, <1>5 DEF KvInv, ExactRows
  <2>2. CASE next' = next
    BY <1>5, <2>1, <2>2
  <2>3. CASE next' = next + 1 /\ next <= Len(Batches) /\ (next \in applied \/ NothingToSend(next))
    <3>1. next' \notin applied' /\ next' - 1 = next
      BY <1>1, <1>5, <2>3 DEF OneRequest
    <3>2. CASE next \in applied
      BY <1>5, <2>1, <3>1, <3>2
    <3>3. CASE next \notin applied
      <4>1. /\ next \in Nat /\ next - 1 \in 0..Len(Batches) /\ next - 1 <= next
            /\ \A j \in ((next - 1) + 1)..next : j = next
        BY <1>1, <2>3
      <4>2. \A j \in ((next - 1) + 1)..next : NothingToSend(j)
        BY <2>3, <3>3, <4>1
      <4>3. Delivered[next] = Delivered[next - 1]
        BY <2>3, <4>1, <4>2, NothingDelivered
      <4> QED
        BY <1>5, <2>1, <3>1, <3>3, <4>3
    <3> QED
      BY <3>2, <3>3
  <2> QED
    BY <1>5, <2>2, <2>3
<1>6. CASE Execute
  <2>1. CASE wire # NoRequest /\ tables[wire.id].live /\ Apply(wire)
    BY <1>1, <1>3, <1>4, <1>6, <2>1, BatchType DEF Execute, userVars, OneRequest, OneTable, RefersToTables
  <2>2. CASE UNCHANGED serverVars
    BY <1>5, <1>6, <2>2 DEF Execute, userVars, serverVars
  <2> QED
    BY <1>6, <2>1, <2>2 DEF Execute
<1>7. CASE ExecuteLate
  <2>1. CASE late # NoRequest /\ tables[late.id].live /\ Apply(late)
    BY <1>1, <1>3, <1>4, <1>7, <2>1 DEF ExecuteLate, userVars, OneRequest, OneTable, RefersToTables
  <2>2. CASE UNCHANGED serverVars
    BY <1>5, <1>7, <2>2 DEF ExecuteLate, userVars, serverVars
  <2> QED
    BY <1>7, <2>1, <2>2 DEF ExecuteLate
<1>8. CASE NotSent
  BY <1>5, <1>8 DEF NotSent, serverVars, NothingToSend, Batch
<1>9. CASE Answered
  BY <1>1, <1>5, <1>9 DEF Answered, serverVars, OneRequest
<1>10. CASE \/ TableGet \/ FindTableInList \/ GetTableSchema \/ Send \/ RequestFails \/ Reconnect
            \/ LinkDown \/ UNCHANGED vars
  <2>1. UNCHANGED <<serverVars, next>>
    BY <1>10 DEF TableGet, FindTableInList, GetTableSchema, Send, RequestFails, Reconnect, LinkDown,
                 vars, userVars
  <2> QED
    BY <1>5, <2>1 DEF serverVars
<1>11. ASSUME NEW d \in DOMAIN tables, DropTable(d) \/ AlterTable(d)
       PROVE  tables'[1].rows = IF next' \in applied' THEN Delivered[next'] ELSE Delivered[next' - 1]
  <2>1. tables'[1].rows = tables[1].rows
    BY <1>1, <1>11, DropEffect, AlterEffect
  <2>2. UNCHANGED <<applied, overtaken, next>>
    BY <1>11 DEF DropTable, AlterTable, userVars
  <2> QED
    BY <1>5, <2>1, <2>2
<1>12. ASSUME NEW name \in Names, CreateTable(name)
       PROVE  tables'[1].rows = IF next' \in applied' THEN Delivered[next'] ELSE Delivered[next' - 1]
  <2>1. tables'[1].rows = tables[1].rows
    BY <1>1, <1>12, CreateEffect
  <2>2. UNCHANGED <<applied, overtaken, next>>
    BY <1>12 DEF CreateTable, userVars
  <2> QED
    BY <1>5, <2>1, <2>2
<1> QED
  BY <1>6, <1>7, <1>8, <1>9, <1>10, <1>11, <1>12 DEF Next

\* The invariant holds in every state.
THEOREM KvInvariant == Spec => []KvInv
<1>1. KvInv /\ [Next]_vars => KvInv'
  <2> SUFFICES ASSUME KvInv, Next \/ UNCHANGED vars PROVE KvInv'
    OBVIOUS
  <2>1. TypeOK /\ RefersToTables /\ OneRequest /\ AcknowledgedWasApplied /\ OneTable
    BY DEF KvInv
  <2>2. TypeOK' /\ RefersToTables' /\ OneRequest' /\ AcknowledgedWasApplied' /\ OneTable' /\ ExactRows'
    BY <2>1, TypeStep, RequestStep, TableStep, RowsStep
  <2> QED
    BY <2>2 DEF KvInv
<1> QED
  BY KvInit, <1>1, PTL DEF Spec

\* Tables, handle and requests have their types.
THEOREM KvTypes == Spec => []TypeOK
<1>1. KvInv => TypeOK
  BY DEF KvInv
<1> QED
  BY KvInvariant, <1>1, PTL

\* However often and over however many handles and connections a batch is
\* repeated, a table that is not dropped holds what was delivered, each batch
\* once and whole, as long as no request is executed after one of a later
\* batch.
THEOREM KvReplayIsIdempotent == Spec => []ReplayIsIdempotent
<1>1. ASSUME KvInv PROVE ReplayIsIdempotent
  <2>1. \A i \in applied : i <= Len(Batches)
    BY <1>1, BatchType DEF KvInv, TypeOK, BatchIds
  <2> QED
    BY <1>1, <2>1 DEF KvInv, ExactRows, ReplayIsIdempotent, HoldsDelivered
<1> QED
  BY KvInvariant, <1>1, PTL

\* The user goes on from a batch only when the server has executed it, or
\* there was nothing to send.
THEOREM KvAcknowledgedWasApplied == Spec => []AcknowledgedWasApplied
<1>1. KvInv => AcknowledgedWasApplied
  BY DEF KvInv
<1> QED
  BY KvInvariant, <1>1, PTL

-----------------------------------------------------------------------------
(* Whose rows are written                                                  *)

\* Every id the user and the network hold is of a table that may be meant.
HoldsMeant ==
    /\ target # 0 => Meant(target)
    /\ handle.id # 0 => Meant(handle.id)
    /\ wire.id # 0 => Meant(wire.id)
    /\ late.id # 0 => Meant(late.id)

\* A step takes an id only from a table that may be meant.
LEMMA MeantStep ==
    ASSUME TypeOK, RefersToTables, HoldsMeant, Next \/ UNCHANGED vars
    PROVE  HoldsMeant'
<1> DEFINE M == {i \in DOMAIN tables : Meant(i)}
           Held == M \cup {0}
<1>1. TablesStep /\ DOMAIN tables = 1..Len(tables) /\ Len(tables) \in Nat
  BY TablesChange, TableFacts
<1>2. \A i \in Held : i # 0 => Meant(i)'
  <2>1. \A i \in DOMAIN tables : tables'[i].name = tables[i].name
    BY <1>1 DEF TablesStep
  <2> QED
    BY <2>1 DEF Meant
<1>3. target \in Held /\ handle.id \in Held /\ wire.id \in Held /\ late.id \in Held
  BY <1>1 DEF HoldsMeant, RefersToTables
<1>4. \A i \in DOMAIN tables : tables[i].name = Wanted => i \in Held
  BY DEF Meant, Same
<1>5. \A i \in DOMAIN tables :
         Same(tables[i].name, Wanted) \/ Similar(tables[i].name, Wanted) => i \in Held
  BY DEF Meant
<1>6. NoTable.id = 0 /\ NoRequest.id = 0
  BY DEF NoTable, NoRequest
<1> HIDE DEF M
<1>7. SUFFICES target' \in Held /\ handle'.id \in Held /\ wire'.id \in Held /\ late'.id \in Held
  BY <1>2 DEF HoldsMeant
<1>8. CASE TableGet
  BY <1>3, <1>4, <1>8 DEF TableGet, Ids, wireVars
<1>9. CASE FindTableInList
  <2>1. Candidates \subseteq Held
    BY <1>5 DEF Candidates
  <2> QED
    BY <2>1, <1>3, <1>9 DEF FindTableInList, wireVars
<1>10. CASE GetTableSchema
  BY <1>3, <1>10 DEF GetTableSchema, wireVars
<1>11. CASE Send
  BY <1>3, <1>11 DEF Send
<1>12. CASE NotSent \/ Answered \/ RequestFails \/ Reconnect
  BY <1>3, <1>6, <1>12 DEF NotSent, Answered, RequestFails, Reconnect, wireVars
<1>13. CASE Execute \/ ExecuteLate \/ LinkDown
  BY <1>3, <1>6, <1>13 DEF Execute, ExecuteLate, LinkDown, userVars
<1>14. CASE \/ \E name \in Names : CreateTable(name)
            \/ \E i \in DOMAIN tables : DropTable(i) \/ AlterTable(i)
            \/ UNCHANGED vars
  <2>1. UNCHANGED <<userVars, wireVars>>
    BY <1>14 DEF CreateTable, DropTable, AlterTable, vars
  <2> QED
    BY <2>1, <1>3 DEF userVars, wireVars
<1> QED
  BY <1>8, <1>9, <1>10, <1>11, <1>12, <1>13, <1>14 DEF Next

\* No step changes the rows of a table whose name is neither the wanted one
\* up to case nor differs from it by a prefix, for any set of names.
THEOREM KvWritesOnlyMeant == Spec => WritesOnlyMeant
<1> DEFINE Step == \A i \in DOMAIN tables : ~Meant(i) => tables'[i].rows = tables[i].rows
<1>1. Init => HoldsMeant
  BY DEF Init, HoldsMeant, NoTable, NoRequest
<1>2. KvInv /\ HoldsMeant /\ [Next]_vars => HoldsMeant'
  BY MeantStep DEF KvInv
<1>3. ASSUME KvInv, HoldsMeant, [Next]_vars
      PROVE  [Step]_vars
  <2>1. TablesStep /\ DOMAIN tables = 1..Len(tables)
    BY <1>3, TablesChange, TableFacts DEF KvInv
  <2> QED
    BY <1>3, <2>1 DEF TablesStep, HoldsMeant
<1> HIDE DEF Step
<1>4. Spec => []HoldsMeant
  BY KvInvariant, <1>1, <1>2, PTL DEF Spec
<1>5. Spec => [][Step]_vars
  BY KvInvariant, <1>3, <1>4, PTL DEF Spec
<1> QED
  BY <1>5 DEF WritesOnlyMeant, Step
=============================================================================
