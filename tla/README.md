# A verification project for ignite3-go-client

TLA+ models of the Ignite 3 thin client in `src/`, the TLC runs that check them
on small instances, and TLAPS proofs of all their safety and action properties
for every instance. `PROJECT.json` lists the components, the runs, the hazards, the
findings, and for every definition the source lines it stands for.

    tlc -workers 2 -config ClientShared.cfg MCIgniteClient     # any run
    tlapm IgniteClientProofs.tla                               # any proof module

## 1. The system

| component | state | operations | shares with |
|---|---|---|---|
| client connection (`binary/v1/client.go`, `request*.go`, `response*.go`) | `conn`, `mutex`, `RequestId`; the request and response of each call | `Connect`, `Do`, `SendHeartbeat`, `Close`, `Connected` | one TCP connection, used by all goroutines that hold the `Client` |
| SQL driver, results (`sql/v1/rows.go`, `conn.go`) | per result `rowsLeft`, `hasMore`, `id` | `QueryContext`, `ExecContext`, `rows.Next`, `rows.Close`, `Ping`, `Close` | calls the client; cursors live on the server |
| SQL driver under `database/sql` (`sql/v1/conn.go`, `stmt.go`, `sql/connector.go`) | `conn.client`; the pool's connections | `Connect`, `Prepare`, `Exec`, `Query`, `Ping`, `Begin`, `Close`, returning or hiding `driver.ErrBadConn` | the pool of `database/sql` (external), shared by all goroutines |
| paging calls (`client-sql-and-scan-queries.go`) | `QuerySQLResult` | `QuerySQL`, `QuerySQLCursorGetPage`, `QuerySQLFields(Raw)`, `ResourceClose` | cursors on the server |
| result set and its metadata (`client-result-set.go`, the readers of `types.go`) | columns read so far, each of which may name an earlier one | `ReadQuerySQLResponseHeader`, `NewResultSetMetadataFromReader`, the row loops | read by the paging calls and by the driver |
| key-value tables (`client-schemas.go`, `client-tuple-operations.go`, `client-tables-operations.go`) | `Table`: id, name, schema with its version | `GetTableByName`, `GetTableSchema`, `GetTables`, `UpsertAll`, `DeleteAll` | tables on the server, changed by anyone's DDL |
| binary tuple of a row (`binary-tuple.go`, reader in `tuple.go`) | none (an algorithm) | `BuildBinaryTuple`; `NewTupleFromByteArrayWithMetadata`, `GetValue` | the encoding of UpsertAll, the decoding of `rows.Next` |
| argument tuple of a statement (`tuple.go`) | `Tuple.values` | `AddValue`, `Bytes` | the arguments of the SQL calls |
| connection names and the handshake (`sql/driver.go`, `connector.go`, `request-handshake.go`, `response-handshake.go`) | `ConnInfo`, `ResponseHandshake` | `Open`, `OpenConnector`, `parseURL`, the handshake of `Connect` | leads to a client connection |
| partition awareness, the other msgpack helpers, error texts, logging | none | parsers and tables | not modelled, see section 8 |

What is hard about it:

* **Concurrency.** A `Client` is shared by goroutines. Only the body of `Do` is
  under the mutex; the request id is read before it, `SendHeartbeat` increments
  it outside, and `Close` takes no lock at all. An `sql.DB` is shared too, and
  its pool hands connections from one goroutine to the next.
* **Read-ahead.** `Do` makes a new buffered reader for each response and drops
  it. Whatever the reader took beyond its own frame is lost, so correctness
  depends on there never being a second frame.
* **Lost connections and retries.** A call whose connection breaks does not know
  what the server did, and nothing marks the connection as broken.
  `database/sql` repeats a call that fails with `ErrBadConn`, so the driver may
  return that error only while nothing has been sent.
* **Untagged streams.** A response has neither field names nor lengths: one
  token too many or too few misreads everything after it.
* **Paths that small tests never take.** A second page, the 65th heartbeat, the
  256th byte of a value area, the 129th column, a decimal on a sign boundary, a
  year before 0, a table dropped between two of the three requests of
  `GetTableByName`.

## 2. Modules

| module | models | role |
|---|---|---|
| `CallSpec` | what a connection promises: a call is executed at most once and answered truthfully | abstract specification |
| `IgniteClient` | `Connect`, `Do`, `SendHeartbeat`, `Close`, the wire and a server | implements `CallSpec`; the inductive invariant |
| `IgniteClientProofs` | | proofs about `IgniteClient` |
| `SqlCursor` | the driver's results, the paging calls and the server's cursors | component, inductive invariant |
| `SqlCursorProofs` | | proofs about `SqlCursor` |
| `SqlPool` | the driver's connections in the pool of `database/sql`, a server that crashes, contexts that are cancelled | composition of driver, pool, network and server; inductive invariant |
| `SqlPoolProofs` | | proofs about `SqlPool` |
| `ResultStream` | reading a result set, token by token | component |
| `SchemaStream` | reading a table's schema, and putting the values of a row in its order | component, extends `ResultStream` |
| `OpenConnection` | parsing a connection name, dialling, the handshake's request and answer | component, extends `SchemaStream` |
| `TableKv` | resolving a table and writing batches to it, at least once | component |
| `Numeral` | numbers and their digits in any base, as functions defined by recursion; bit fields, packed into groups | operators |
| `ByteString` | little- and big-endian numbers over bytes of `ByteBits` bits, `Uuid.Flip` | operators, extends `Numeral` |
| `Temporal` | the bit fields of DATE, TIME and DATETIME, packed and unpacked | operators, used by both tuples |
| `BinaryTuple` | encoding a row and reading it back | algorithm, with its loop as actions |
| `ArgumentTuple` | encoding the arguments of a statement, and the server's reading | algorithm |
| `TableKvProofs` | | proofs about `TableKv` |
| `StreamProofs` | | proofs about `OpenConnection`, `ResultStream` and `SchemaStream` |
| `BinaryTupleProofs` | | proofs about `BinaryTuple` |
| `ArgumentTupleProofs` | | proofs about `ArgumentTuple` |
| `NumeralProofs` | | induction, recursive functions, and the lemmas about `Numeral` and `Temporal` that the other proof modules cite |
| `MC...` | values for the constants | instances for TLC |

Definitions whose comment begins with *Fault* are not part of a specification:
each is a plausible bug of the definition after it, and `PROJECT.json`
("mutants") names the property that would notice it.

### IgniteClient

Variables are the fields of `client` (`conn`, `RequestId`, `mutex`), the locals
of each goroutine (`reqId`: the id in the request it has built, `resId`: the id
its response expects, `tmp`: the value an increment has loaded), and the wire.
Each goroutine has a program counter:

    idle -> [expect -> bumpLoad -> bumpStore ->] lock -> write -> load -> store -> bind -> read -> idle
    idle -> closeConn -> closeNil -> idle

The bracketed steps are those of `SendHeartbeat`. Every access to `RequestId`
and to `c.conn` outside the mutex is a step of its own, because the code makes
no such access atomic; `RequestId++` is a load and a store. A frame is reduced
to the call it belongs to, its id, its flags and whether its declared length is
its real one. A call's identity travels with the frame, so that "this answer
belongs to that call" can be stated without relying on the ids, which
goroutines may share. `Read` may take any number of the frames in flight and
drops all but the first: the buffered reader. `Finish` is the rest of a call
after `Do`, for the opener the rest of `Connect`.

The server is external. It answers the requests of a connection in order, may
refuse (flag 4), may announce a changed partition assignment (flag 1), and
drops a connection on which a frame has a wrong length. `LinkDown` loses the
connection at any moment; a request already received may still be executed.

### SqlCursor

`database/sql` uses a connection from one goroutine at a time, so an operation
is one step. A result's rows are counted: `got` handed out, `rowsLeft` in the
client's buffer, `left` in the server's cursor. The model follows the code
where it does something other than intended: `rows.id` stays 0 because
`newRows` copies a `ResponseId` that nobody has set; the next page goes to a
method that `client` inherits from a nil interface; `ResourceClose` sends no
id; `ExecContext` closes the id of its request, which is 0 for the first
request of a connection (`used`).

Three kinds of end are told apart. An *error* (`failed`, or `undecoded` before
there is a result); a *panic over a value* (`broken`: the type assertion on a
NULL in `rows.go:122-126`, the missing origin of a computed column in
`client-result-set.go:302-309`, a time that is cut short), which a result of any
size can meet; and the *panic at the end of a page* (`panicked`). A page that
`QuerySQLCursorGetPage` cannot decode is gone (`lost`): the server's cursor has
moved on, and `RetryPage`, the same call again after the error or the panic,
returns the page after it.

### SqlPool

One level above `IgniteClient`: a call is a request and its answer, and what
matters is which connection it uses and which error it returns. Per connection
there is the pool's view (`slot`), the driver's (`client`, what `isConnected`
tests), the TCP connection (`link`), its age and what is under way on it; per
goroutine a program counter:

    idle -> take -> handshake -> [prepare ->] send -> await -> [rows ->] idle
              ^---- ErrBadConn ------|----------|

`Connect`, `DialFails`, `Connected`, `HandshakeFails` and `HandshakeRefused` are
`connector.Connect` and `v1.Connect`; `Prepare`, `NotConnected`, `Send`,
`WriteFails`, `Read`, `ReadFails`, `RowsClose`, `Begin` are `conn` and `stmt`, with
the difference that decides everything: an error before anything is sent is
`ErrBadConn`, one after it is wrapped and hidden. `Return` and `ErrBadConn` are
what the pool does with either. `database/sql` is external and modelled from its
documented behaviour: two tries with any connection and one with a new one, at
most `MaxIdle` idle connections, `ConnMaxLifetime` (`Age`, `Clean`,
`TakeExpired`), the context looked at before each try and while waiting for a
connection. `RawClose` is an application that closes the driver's connection
through `sql.Conn.Raw`, the way `conn.client` becomes nil under the pool. The
network loses a connection (`LinkDown`), the server crashes and restarts.

### ResultStream

A message is a sequence of msgpack tokens, each a code and a value. The server's
encoder (external) is written from what the reader expects: an origin that has
the column's own name is nil, a schema or table that an earlier column has
named is the index of that column, small integers are fixnums. The reader is the
code's: header, columns, row count, rows, and for later pages the flag at the
end. `QuerySQL`, `QuerySQLFields` and the driver's `newRows` differ in what they
make of a row: maps keyed by the *origin* column's name, or slices. What a cell
holds is reduced to what the reader distinguishes: a value, NULL, a time of a
precision it refuses, a timestamp without nanoseconds.

`SchemaStream` adds the other stream of this kind, the reply to `GetTableSchema`,
with one schema or two and with properties that a newer server adds; then
`buildTuple`, which looks the values of a Go map up by upper-case names
(`Lookups`: any order of the map) and puts them in the order of the columns or,
for `DeleteAll`, of `KeyColumns`. A value is represented by the name it was given
by, so that a tuple shows which value went where.

`OpenConnection` is the way to a connection: `parseParameter` visits the
parameters of the URL in any order, as `range` does over a Go map (`Lower`,
`Semver`, `Decimal` and `Literal` are the library's conversions, as constants),
`endOfURL` and `Connect` go on to the handshake, and `ReadVerdict` and `ReadNode`
read its answer, which is a stream of the same tokens. `ci` keeps the text of
each parameter until it is converted. What happens when the connection breaks
meanwhile is in `IgniteClient` and `SqlPool`. The three stream modules share the
message and its reader, and one run checks them.

### TableKv

The user resolves `Wanted` with `TableGet`, `FindTableInList` and
`GetTableSchema`, three requests with DDL in between, keeps the handle for as
long as it likes, and delivers `Batches` in order: again after an error, on to
the next after success or after a batch that cannot be encoded. A batch is
encoded completely before anything is sent (`NotSent` or `Send`). The server
refuses a write to a dropped table and may refuse one with an outdated version.
A request that was in flight when its connection was lost may be executed at any
later time (`late`); `overtaken` records that the server has executed a request
after one of a later batch.

### BinaryTuple, ArgumentTuple, Temporal, ByteString

The encoders are operators named as in the code; the loop over the columns or
arguments, the final assembly and the reading are actions. Every column kind and
every argument type is modelled, and values of Go types that a column or
`AddValue` does not take. `UserValues` says which values a user of
`BuildBinaryTuple` can pass at all; `Format` stands for `fmt.Sprintf("%v")`, with
which a string column takes what is not a string, and about which only that its
text is not empty and does not begin with 0x80 is assumed. A float beyond the
integers becomes the least int64, as on amd64 (Go leaves it to the
implementation). `IsArgument` does the same for the arguments of a statement. A
byte has `ByteBits` bits. All boundaries of the code (sign bit, one more byte,
widths 1, 2, 4, 8, offset widths, the 0x80 marker) are boundaries of the model
too, and with 2 bits a BIGINT has 16 bits and can be enumerated. `ArgumentTuple`
uses 6 bits, which hold its type ids. The fields of dates and times keep the
code's own bits whatever a byte has. A float is a number of tenths; which of them
a float64 and a float32 can be, and the bits of each, are constants (`Float64s`,
`Float32s`, `Float64bits`, `Float32bits`), about which only that a float32 is a
float64 and that no two floats have the same bits is assumed, and a conversion
takes the nearest. For an argument, which is never converted, a float is the
integer of its bits. The server returns an element as it is, but encodes a time
anew for the precision of its column (`Temporal!Returned`, external, after
`README.md:282` of the repository).

## 3. Runs that pass

| run | checks | instance |
|---|---|---|
| `ClientShared` | `TypeOK`, `OneFrameInFlight`, `ReaderIsServed`, `AnswersAreTrue`, `OperationsNeverMismatch`, `PanicOnlyAfterClose`, `ImplementsCallSpec`, `EveryCallReturns`, under `FairSpec` | two callers, one call each, operations and heartbeats, Close, lost link, all flags; 38 thousand states |
| `ClientLongLived` | `HeartbeatsSucceedBelow128` | one caller, 66 heartbeats |
| `CursorSafe` | `TypeOK`, `NoRowLostOrRepeated`, `EofMeansComplete`, `OnePageNeedsNoCursor`, `CursorsKeepApart`, `IterationEnds`, under `FairSpec` | two statements of 0 to 5 rows, pages of 2, `ExecContext` pages of 3, undecodable rows and pages, retries; 76 thousand states |
| `PoolLosses` | `TypeOK`, `ExecutedAtMostOnce`, `ResultsAreTrue`, `NoConnectionLeaks`, `EveryCallReturns`, `RepeatedCallsSucceed`, under `FairSpec` | two goroutines that between them make every call, two connections of which one may stay idle, one loss; 218 thousand states |
| `ResultStream` | `TypeOK`, `MetadataIsTrue`, `MessageIsConsumed`, `FailuresHaveTheirCause`, `ValuesAreKept`, `ValuesReachTheirColumns`, `UrlIsUnderstood`, `ConnectedAsAgreed` | up to four of six columns (renamed, computed, two schemas and tables, an unknown type), two rows, a second page; tables of up to three columns in any order with any key, rows with missing, misspelt and ambiguous names; connection names of up to three of twelve parameters, among them three given in two cases and an unknown one, to six servers; 562 thousand states |
| `KvDelivery` | `TypeOK`, `ReplayIsIdempotent`, `AcknowledgedWasApplied`, `WritesOnlyMeant` | three tables over time, of five names: the wanted one, the same in another case, in another schema, and two without a schema that differ in case; two versions, four batches; 6.4 million states |
| `TupleRoundTrip` | `TypeOK`, `OffsetsDelimitElements`, `ReadsBackTheSame`, `DecimalsAreMinimal`, `OnlyNullIsEmpty`, `NoIntegerIsTruncated` | one column of every kind with its values exhaustively or at every boundary, misfits, NULL; rows of two and three columns through every offset width and one that is too big; 312 thousand states |
| `ArgumentsMixed` | `ArgumentsArrive` | up to three arguments of every type, numbers on both sides of every width, values refused, offsets of one, two and four bytes; 243 thousand states |

`ReadsBackTheSame`, `ArgumentsArrive`, `ValuesAreKept` and
`ValuesReachTheirColumns` are equivalences: a value arrives unchanged if and only
if it is not one that `Exceptional` lists. `FailuresHaveTheirCause` says the same
of a reading: it ends in an error or a panic if and only if a named cause is
there. So the runs show both that everything else survives and that each listed
deviation is one the code really makes.

Some values take part in these runs without anything being claimed of them.
Where the code contradicts a sentence of the repository, no passing property
counts the deviation among its exceptions; section 4 lists these sentences. They
are `BinaryTuple!LeftOut` (NULLs on which `rows.Next` panics, values that the
encoder drops), a panic over a NULL in `FailuresHaveTheirCause`, and
`ArgumentTuple!Miswritten` (negative decimals that lose a byte). `ArgumentsArrive`
also says nothing about the second value after a NULL and those that follow
(`Astray`): their offsets lead to bytes of other arguments, which may by accident
be the right ones. And `OnePageNeedsNoCursor` is about cursors: a result of one
page may still end in an error or a panic over one of its values.

**Bounds and why they are enough.** Two callers are the fewest that race, and
the second one's call meets the late effects of the first one's; the opener's
handshake is a third call. The theorems remove both bounds for every safety
property; `EveryCallReturns` is checked for these calls only. 66 heartbeats cross id
128, where the encoding changes. Five rows with pages of two give an empty
result, a partial, a full, a second and a third page. In the pool, two
goroutines with two connections wait for each other when one connection is
lost or expired; `MaxLosses` = 1 counts lost and closed connections, crashes
and refused handshakes, and the safety theorems hold for any number. Each
goroutine calls as often as it likes. In `ResultStream`, `FixMax` = 1 stands for
127, so that the third namesake of a name, not the 129th column, crosses the
boundary; four columns are the fewest with an index beyond it that is still
referred to. Three parameters are the fewest that select TLS, its verification
and a version, or give one parameter twice beside another. Three tables allow a
drop, a re-creation and a foreign table, or a drop and two tables of similar
names between which `findTableInList` has to choose; four batches write two rows
and delete one of them, with an unencodable and an empty batch in between, so
that a replay out of order has a different result.
In the tuples, two-bit bytes make all integers of 16 bits and all short byte
strings a complete enumeration; `Precisions` 0, 3, 6, 9 and 12 are those
`decodeTime` distinguishes and one it refuses. Three arguments are the fewest with
one before a NULL and one after it; a long one before it brings the NULL's offsets
to the limit of their width.

Deadlock is checked for the client, the pool and the tables. For the client
`Terminated` marks the states in which every goroutine has made its calls and
returned. The cursor, stream and tuple models end by design, with a closed
connection, a finished reading or a finished tuple, and say
`CHECK_DEADLOCK FALSE`.

**Fairness.** `IgniteClient.FairSpec`: a goroutine that can move does (weak
fairness per goroutine, the Go scheduler), a goroutine waiting for the mutex
gets it eventually (strong fairness on `Acquire`; Go's mutex hands over to a
starving waiter), and the server reads and answers what it has received. The
last is an assumption about the server: `Do` has no deadline, so without it a
call waits forever. Nobody has to start a call, close the client or lose the
connection. `SqlCursor.FairSpec`: whoever reads a result goes on reading it.
`SqlPool.ClientSpec`: goroutines run, close their rows and repeat what has failed
(weak fairness of `Driver` and `Retry`), and strong fairness of `Take`, because
`database/sql` hands a connection that is given back to the goroutine that has
waited longest. `FairSpec` adds a server that answers and restarts, and that
`ConnMaxLifetime` passes. That last one is a setting: it is 0 (never) by default,
and without it a lost connection stays in the pool and `RepeatedCallsSucceed` is
false, since the driver never reports it (the mutant `AgeNever` shows it).

## 4. Where code and documentation disagree

Four runs check one sentence of a comment or of the repository's README each and
find it violated; `PROJECT.json` ("findings") quotes the sentence.

| run | property | shows |
|---|---|---|
| `ClientClosePanics` | `ClientIsThreadSafe` | Close during an operation, or two Closes, panic on the nil connection |
| `CursorNextPage` | `EndOfPageNeverPanics` | reading beyond the first page panics |
| `PoolContext` | `ContextIsHonored`, under `ClientSpec` | a call whose context is cancelled goes on waiting for the server |
| `TupleNulls` | `NullsReadBack` | `rows.Next` panics on a NULL DECIMAL, DATETIME, TIMESTAMP or UUID, which the repository's README (line 259) has read back as NULL |

The passing runs say how far the code can be relied on around these: results
of one page need no cursor and no next page (`OnePageNeedsNoCursor`), values that
are not NULL are read back (`ReadsBackTheSame`), nothing panics before Close
(`PanicOnlyAfterClose`), a cancelled call still returns when the server answers
(`SqlPool!EveryCallReturns`).

Three more sentences are contradicted by the code without a run of their own. The
values concerned are in the models and excluded from what is claimed, not listed
as exceptions of a property that passes:

* "A value that cannot be converted to the column kind is not silently dropped:
  the encoder returns an error" (`README.md:242` of the repository): a value for a
  column of an unknown type, text for a DECIMAL (0) or a BOOLEAN (false), the
  fraction of a float for an integer column, an unsigned value beyond the signed
  range, a float beyond it and a scale beyond 16 bits are accepted, and bytes for
  a string column are formatted as a list of numbers (`binary-tuple.go:416-442`,
  `462-494`; `BinaryTuple!Dropped`). What does hold for numbers in integer columns
  is `NoIntegerIsTruncated`.
* "A signed minimal-length sequence the server interprets correctly"
  (`tuple.go:716-717`): negative decimals such as -65535, whose two's complement
  begins with a zero byte, lose it (`tuple.go:736`, `ArgumentTuple!Miswritten`).
* "Replaying a batch after a retry produces the same result" (`README.md:245`): a
  request executed late, after a later batch, undoes that batch (`~overtaken` in
  `ReplayIsIdempotent`).

Other deviations the models follow. In the client and the driver:

* `SendHeartbeat` reads `RequestId` twice without the mutex and may reject its
  own answer when another goroutine increments the id in between
  (`client.go:339-341`; the comment of `OperationsNeverMismatch`). From id 128
  on its declared length is wrong (`HeartbeatsSucceedBelow128`).
* `Connected` stays true after the connection is lost (`client.go:246`), so the
  driver's `ErrBadConn` is returned only for a connection that was closed, and
  `Ping` hides even that one (`conn.go:140`).
* `rows.Close` of a result longer than a page leaves its cursor on the server,
  `rows.id` being always 0 (`rows.go:55`), and `ResourceClose` sends no id
  (`client-sql-and-scan-queries.go:618`); hence the premise of `OnePageNeedsNoCursor`.
* A result with a computed column makes `QuerySQL`, `QuerySQLFields` and `Exec`
  panic if it has a row, and two columns from columns of the same name are one
  entry of the map (`FailuresHaveTheirCause`, `ValuesAreKept`). An index of 128
  or more for a schema or table name is taken for a string, and the result is an
  error (`types.go:213`).

* A URL version is sent as bytes: `3.256.0` is presented, and accepted, as
  `3.0.0` (`request-handshake.go:33`). An idle timeout above 127 ms is misread
  (`response-handshake.go:168`), but nothing uses it yet (`ConnectedAsAgreed`). The
  example of `parseURL`'s comment, `version=v1.0.0` (`driver.go:61`), is refused
  by `Open`. `tls=no&TLS=yes` means either, by the order of a map
  (`UrlIsUnderstood`).

In the tables and the tuples:

* `findTableInList` takes a table whose name differs from the wanted one by a
  prefix, when the wanted one is not listed (`client-schemas.go:290`): a write for
  `S.T` goes to a table `T`, and to which of `T` and `t` depends on the order of a
  map. `WritesOnlyMeant` says that it goes nowhere else.
* The rows of `UpsertAll` and `DeleteAll` are looked up by upper-case names: a
  misspelt name is ignored and its column written as NULL, of two names that
  differ in case only either one may be taken, and two such columns get one
  value (`ValuesReachTheirColumns`).
* `rows.Next` panics on a TIMESTAMP of a whole second, too. An empty string is
  read as NULL, an integer written to a DECIMAL is taken for the unscaled value, a
  year before 0 loses its sign, a UUID is written in the order in which it is not
  read (`binary-tuple.go:263`), a number that is none of the column's floats
  becomes the nearest, nanoseconds are read as microseconds, and precisions other
  than 0, 6, 9 and 12 are errors (`BinaryTuple!Exceptional`).
* A NULL argument is written with its type and scale but not counted by the
  offsets: the argument after it is read with NULL's type, and a NULL whose second
  offset is the first its width cannot hold (256 in one byte) is not read as NULL
  itself. An empty string arrives as NULL, and one that begins with 0x80 loses
  this byte; a Go byte from 128 on is a negative TINYINT; a scale of 255 or more
  takes two bytes of which the offsets count one (`ArgumentTuple!Exceptional`).

## 5. Proofs

`IgniteClientProofs` proves, for every set of callers and every number of calls,
`ClientTypes`, `LockStep` (`OneFrameInFlight`), `NoHopelessReader`
(`ReaderIsServed`), `TrueAnswers` (`AnswersAreTrue`), `NoOperationMismatch`,
`NoPanicBeforeClose`, `HeartbeatsSucceed` (`HeartbeatsSucceedBelow128`) and
`Refinement` (`ImplementsCallSpec`). The assumptions
are those declared in `IgniteClient`: the opener is no caller, `MaxCalls` is a
positive number, calls are operations or heartbeats, flags are 0, 1 or 4.

The inductive invariant `IInv` says why it works:

* `MutexInv`: being between Lock and Unlock is holding the mutex;
* `CallInv`: a call in progress has no outcome yet, and one that is not yet
  written has had no effect;
* `WireInv`: at most one frame is in flight; a request the server can still
  answer, and an answer that can still be read, belong to the goroutine that is
  past its write in `Do`, which always has its frame on a live wire;
* `IdInv`: an operation expects the id its request carries;
* `PhaseInv`, `ConnInv`: nothing is called before `Connect` returns, and the
  connection is nil only after it has been closed.

`OneFrameInFlight` alone is not inductive: that a new request finds an empty
wire needs `WireInv`'s ownership together with `MutexInv`. `CloseInv`, proved
on top of `IInv`, adds who may have given the connection up. The refinement
maps a started call to `Invoke`, the server's answer to `Execute`, `Finish` to
`Return` and everything else to stuttering; `CallInv` supplies the guards.

`HeartbeatsSucceedBelow128` needs `HeartbeatInv` on top of `IInv` and `CloseInv`:
with a single caller `RequestId` is ahead of the id of the call by exactly the
increments that call has made (`CountInv`), so the second read in
`SendHeartbeat` sees what the first one saw; and only a heartbeat whose id takes
two bytes is framed wrongly, which is the only thing that costs the connection
(`LinkInv`). Its hypothesis `OneHealthyCaller` leaves the kinds of calls and
their number open; the run `ClientLongLived` is one instance of it.

`SqlCursorProofs` proves `TypeOK`, `NoRowLostOrRepeated`, `EofMeansComplete`,
`OnePageNeedsNoCursor` (`OnePageWithoutCursor`) and the action property
`CursorsKeepApart` for all page sizes, statements and rows from `CursorInv`, which
adds to them that a result being paged, or asked for again after a failed page,
uses its own statement's cursor, that more pages are only announced for a result
longer than a page, that the driver's results lose no page, and that statements
not yet executed have left nothing behind.

`SqlPoolProofs` proves, for any goroutines, connections, calls, idle limit and
number of losses, `PoolTypes` (`TypeOK`), `AtMostOnce` (`ExecutedAtMostOnce`),
`TrueResults` (`ResultsAreTrue`) and `NoLeaks` (`NoConnectionLeaks`). The
assumptions are that `NoSlot` is no connection, that calls are of the six kinds,
and that the limits are natural numbers. `ExecutedAtMostOnce` is not inductive:
that a retried call has executed nothing depends on where `ErrBadConn` is
returned. `PoolInv` adds `CallOK` (for each point of a call, how often its
statement has been executed, and what an answer under way says about it) and
`WireInv` (something is under way only on a connection whose holder waits for
it, so that nobody inherits an answer with a connection). Most steps end the use
of a connection; `GiveBack` proves once that this preserves the invariant, and
`TakeStep`, `HolderStep` and `ApartStep` do the same for the other three shapes
of a step.

`TableKvProofs` proves, for any tables, names, rows and batches, `KvTypes`
(`TypeOK`), `KvReplayIsIdempotent` (`ReplayIsIdempotent`),
`KvAcknowledgedWasApplied` (`AcknowledgedWasApplied`), and the action property
`KvWritesOnlyMeant` (`WritesOnlyMeant`): a step changes the rows only of tables
whose name is the wanted one up to case, or differs from it by a prefix, whatever
the names are. `KvInv` joins `TypeOK`,
`RefersToTables` (every id held is of a table), `OneRequest` (the request in
flight is the next batch's and unanswered, a late one is of a batch up to the
next), `AcknowledgedWasApplied`, `OneTable` (while the first table lives, the user
finds no other under its name) and `ExactRows` (while nothing is overtaken, its
rows are those of the batches delivered, with the next one exactly if the server
has executed it), which is what makes `ReplayIsIdempotent` inductive. That
replaying a batch changes nothing is a lemma about `Delivered`, by induction over
the batches.

`StreamProofs` proves about `OpenConnection`'s specification, which contains all
steps of the three stream modules, `StreamTypes` (`TypeOK`),
`StreamUrlIsUnderstood`, `StreamConnectedAsAgreed`, `StreamMetadataIsTrue`,
`StreamMessageIsConsumed`, `StreamFailuresHaveTheirCause`, `StreamValuesAreKept`
and `StreamValuesReachTheirColumns`, for any columns, tables, parameters and
servers. The inductive invariant has two halves. `OpenInv` is about the
connection: which variables each phase uses (`PhasesApart`), which parameters
`parseParameter` has visited and what they became (`UrlLoop`), what is known to
both sides after each message (`Handshake`). `ReplyInv` is about replies: in each
phase it says exactly which tokens the reader still has before it, as the encoding
of the part of the result or schema it has not read (`ResultInv`, `SchemaInv`),
and that both are silent while a connection is opened (`OpenQuiet`). A step then
takes the first tokens of a concatenation away; that the encoder's `FlattenSeq`
has its first element in front is proved by induction over the length.
`StreamValuesReachTheirColumns` adds that the places of a key and its columns
correspond one to one (as many columns as places, and every place taken), so that
there is only one ascending order of them, the server's. The assumptions are those
declared beside the constants: columns and tables are records of the fields the
reader looks at, versions are numbers, servers have nodes.

`BinaryTupleProofs` proves, for rows of any number of columns and all values of
`UserValues`, `TupleTypes` (`TypeOK`), `TupleOffsets` (`OffsetsDelimitElements`),
`TupleNulls` (`OnlyNullIsEmpty`), `TupleDecimals` (`DecimalsAreMinimal`),
`TupleIntegersKept` (`NoIntegerIsTruncated`) and `TupleReadsBack`
(`ReadsBackTheSame`). `ByteBitsAssumption` and `WholeBytesAssumption` admit bytes
of 2, 4 and 8 bits (dates have 24, and times come back in whole bytes), so the
code's 8 too, where TLC has to do with 2; `ColsAssumption` asks for a scale that
is positive and fits its two bytes. The inductive invariant `TupleInv` says that
the offsets cut the value area into consecutive parts, that part *i* is what
`appendBinaryTupleValue` makes of value *i* (`AreaInv`), and that a finished tuple
is header, table and area of a complete row (`OutInv`). `Layout` then shows that
the reader, which knows only the bytes, finds the same parts; it needs that a
number is recovered from its digits (`DigitsRoundTrip`), which is proved, as all
facts about `Power`, `Digits`, `Width` and `Value`, by induction.
`TwosComplementFacts` shows that the loop that drops leading bytes and the byte
put back for the sign leave the shortest form. `EncodedBytes`
goes through the kinds of columns, `IntegerKept` through the widths of an integer. The proof needed the set of all values, and so
found values the model had left out: byte slices, a float in a BOOLEAN column,
floats beyond an int64.

`TupleReadsBack` needs in addition that each decoder inverts its encoder, in both
directions: that a value which is not exceptional comes back, and that an
exceptional one does not. The lemmas show the same of the values left out of the
property, which all come back changed (`Differs`). `ValueReadsBack` joins the lemmas of the kinds
(`IntColumnReadsBack`, `DecimalReadsBack`, `DateTimeReadsBack` and so on). Integers
and unscaled decimals rest on `SignedDigits`, floats on the fact that different
floats have different bits, dates and times on `DateFields` and `TimeFields`,
which find every field in the packed bits whatever the width of a byte, and on
`ReturnedParts`, the server's shorter form for the column's precision.

`ArgumentTupleProofs` proves `ArgumentsArriveAlways` (`ArgumentsArrive`) for any
number of arguments and all values of Go's types (`IsArgument`).
`ArgumentsAssumption` adds that a statement's bytes can be counted with an `int`.
The inductive invariant `ArgsInv` says that the values kept are the entries of the
arguments added, that these can be encoded, and that what has been written is
`TupleBytes` of them, unless one was refused. The theorem then follows from the
bytes alone: `OffsetsRead` recovers each offset from the table (the one its width
cannot hold as 0), `ElementsWritten` and `FoundInPlace` show that without a NULL
before it an argument's three elements lie where its offsets say, and
`ValueArrives` that its type's decoding returns it, the values `Changed` or
`Miswritten` (together `Altered`) excepted and no others; `NullRead` and `AfterNull` show what becomes of a NULL and of the
value behind it. The proof found what an earlier instance of the run had
missed: which NULLs are misread, and that nothing definite can be said further
behind one.

`NumeralProofs` holds what these proofs share. Induction is a lemma with a *set* as
its parameter (`Induct`), from the existence of a least number, in place of the
library's theorems, whose parameter is an operator and which the provers
cannot instantiate. `RecursionExists` gives the defining equation of a recursive
function on `0..n`. From these follow the laws of `Power`, `Digits`, `Width`,
`Value` and `SignedValue`: a number is recovered from its digits and digits from
their number (`DigitsRoundTrip`, `DigitsOfValue`, `SignedDigits`), and packing bits
into bytes is undone by unpacking them (`PackFacts`).

Only model-checked: the liveness properties `EveryCallReturns`, `IterationEnds` and
`RepeatedCallsSucceed` (fairness and ENABLED are beyond the prover), and the four
violations of section 4. Every invariant and every action property of a passing
run, and the refinement, is a theorem, of the same modules TLC runs.

## 6. Hazards

`PROJECT.json` ("hazards") lists what is hard to test in this code, where it
bites, and which properties watch it. Each has at least one.

## 7. Plan

Done: the client with its proofs and refinement; cursors, the pool, tables and
the streams (results, schemas, connection names, the handshake) with proofs;
both tuples with every type, with proofs about what is written and what is read
back. The safety of every model is proved; what a change of the code would add is
partition awareness, once a caller asks for it, and the next page of a result,
once `rows.Next` can read it.

## 8. Not modelled

* *Partition awareness*: never reached, all callers pass `false`.
* *Most msgpack primitives* (`types.go`): wrappers over a library. Those whose
  code or width matters are in `ResultStream` (`TryReadPackedInt`, `IsNil`),
  `IgniteClient` (`PackedLen`, `Int8`), `OpenConnection` (`Int8`, `Uint8`, `TextOf`)
  and `ByteString` (`Flip`).
* *Of a connection name* (`sql/driver.go`): scheme, host, port and cache, which
  are copied or given a default, a parameter repeated in the same case (the first
  counts), and the registration of the driver.
* *`GetTable`* (`client-tables-operations.go:43`): reads a reply, prints a debugging
  line and discards the rest; it has no caller.
* *Error texts and logging*; that wrapping hides `ErrBadConn` is in `SqlPool`.
* Of the modelled components: the finalizers (a Close by another goroutine after
  the last use), responses that are well framed
  but cannot be parsed by the client's header code (they end a call like any
  other failure), transactions (the driver has none), and the limitations of
  the SQL engine itself that the repository's README lists.
