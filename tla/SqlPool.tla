------------------------------ MODULE SqlPool ------------------------------
(***************************************************************************)
(* The driver under database/sql: goroutines run statements through a pool *)
(* of driver connections (sql/v1: conn, stmt; connector), each with its own *)
(* client and its own TCP connection, while connections are lost, the      *)
(* server crashes and restarts, and contexts are cancelled.                *)
(*                                                                         *)
(* The pool is database/sql's own (external): it reuses idle connections,   *)
(* tries a call again when the driver returns ErrBadConn, and closes what   *)
(* is surplus or older than ConnMaxLifetime.  The protocol under a call is  *)
(* IgniteClient's, reduced to a request and its answer; results of more     *)
(* than a page are SqlCursor's.                                             *)
(***************************************************************************)
EXTENDS Integers, FiniteSets

CONSTANTS Users,       \* the goroutines that use the sql.DB
          Slots,       \* the connections the pool may have open (MaxOpenConns)
          NoSlot,
          MaxIdle,     \* MaxIdleConns
          Kinds,       \* the calls each goroutine makes
          MaxLosses    \* bound: lost and closed connections, refused handshakes, crashes

\* What a goroutine may call: Exec, Query, Ping, a prepared statement's Exec,
\* Begin, and Raw with a function that closes the driver's connection.
AllKinds == {"exec", "query", "ping", "stmt", "begin", "raw"}

ASSUME SlotsAssumption == NoSlot \notin Slots
ASSUME KindsAssumption == Kinds \in [Users -> SUBSET AllKinds]
ASSUME BoundsAssumption == MaxIdle \in Nat /\ MaxLosses \in Nat

VARIABLES server,     \* "up" or "down"
          losses,     \* losses so far
          slot,       \* the pool's view of a connection: "free", "idle", "held"
          client,     \* conn.client: "set", or "nil" before Connect returns and after Close
          link,       \* its TCP connection: "none", "up", "down"
          old,        \* it has exceeded ConnMaxLifetime
          wire,       \* what is under way on it: "empty", "request", "reply", "refusal"
          pc,         \* where each goroutine is
          kind,       \* its call
          at,         \* the connection it holds
          tries,      \* how often the pool has tried the call
          ran,        \* how often the server has executed its statement
          result,     \* how its last call has ended
          cancelled   \* its context is cancelled

connVars == <<slot, client, link, old, wire>>
callVars == <<pc, kind, at, tries, ran, result, cancelled>>
vars == <<server, losses, connVars, callVars>>

MaxTries == 3    \* database/sql: two with any connection, one with a new one

Init == /\ server = "up"
        /\ losses = 0
        /\ slot = [c \in Slots |-> "free"]
        /\ client = [c \in Slots |-> "nil"]
        /\ link = [c \in Slots |-> "none"]
        /\ old = [c \in Slots |-> FALSE]
        /\ wire = [c \in Slots |-> "empty"]
        /\ pc = [u \in Users |-> "idle"]
        /\ kind = [u \in Users |-> "none"]
        /\ at = [u \in Users |-> NoSlot]
        /\ tries = [u \in Users |-> 0]
        /\ ran = [u \in Users |-> 0]
        /\ result = [u \in Users |-> "none"]
        /\ cancelled = [u \in Users |-> FALSE]

\* It does not notice that the connection has been lost.
isConnected(c) == client[c] = "set"

-----------------------------------------------------------------------------
(* Giving a connection back                                                *)

\* Fault: the client is forgotten, its TCP connection is not closed.
CloseLeaks(c) == /\ client' = [client EXCEPT ![c] = "nil"]
                 /\ UNCHANGED link

\* conn.Close: closes the client, if there is one, and forgets it.
Close(c) == /\ client' = [client EXCEPT ![c] = "nil"]
            /\ link' = [link EXCEPT ![c] = "none"]

\* The pool closes a connection and forgets it.
Discard(c) == /\ Close(c)
              /\ slot' = [slot EXCEPT ![c] = "free"]
              /\ old' = [old EXCEPT ![c] = FALSE]
              /\ wire' = [wire EXCEPT ![c] = "empty"]

Idle == {c \in Slots : slot[c] = "idle"}

\* putConn: a connection that did not fail with ErrBadConn stays, unless
\* there are MaxIdle idle ones and nobody waits.
PutConn(u, c) ==
    \/ /\ Cardinality(Idle) < MaxIdle \/ \E v \in Users \ {u} : pc[v] = "take"
       /\ slot' = [slot EXCEPT ![c] = "idle"]
       /\ wire' = [wire EXCEPT ![c] = "empty"]
       /\ UNCHANGED <<client, link, old>>
    \/ /\ Cardinality(Idle) >= MaxIdle
       /\ Discard(c)

\* The call of u ends.
Finish(u, r) ==
    /\ pc' = [pc EXCEPT ![u] = "idle"]
    /\ at' = [at EXCEPT ![u] = NoSlot]
    /\ result' = [result EXCEPT ![u] = r]
    /\ kind' = [kind EXCEPT ![u] = IF r = "error" THEN @ ELSE "none"]
    /\ tries' = [tries EXCEPT ![u] = 0]
    /\ cancelled' = [cancelled EXCEPT ![u] = FALSE]
    /\ UNCHANGED ran

\* It ends without ErrBadConn.
Return(u, r) ==
    /\ PutConn(u, at[u])
    /\ Finish(u, r)
    /\ UNCHANGED <<server, losses>>

\* Fault: the connection that failed is not let go.
TryAgainKeeps(u) ==
    /\ pc' = [pc EXCEPT ![u] = "take"]
    /\ tries' = [tries EXCEPT ![u] = @ + 1]
    /\ UNCHANGED <<server, losses, at, kind, ran, result, cancelled>>

\* The pool tries again, or gives up after the last try.
TryAgain(u) ==
    /\ IF tries[u] < MaxTries
       THEN /\ pc' = [pc EXCEPT ![u] = "take"]
            /\ at' = [at EXCEPT ![u] = NoSlot]
            /\ tries' = [tries EXCEPT ![u] = @ + 1]
            /\ UNCHANGED <<kind, ran, result, cancelled>>
       ELSE Finish(u, "error")
    /\ UNCHANGED <<server, losses>>

\* The driver returns ErrBadConn: the pool discards the connection.
ErrBadConn(u) == Discard(at[u]) /\ TryAgain(u)

-----------------------------------------------------------------------------
(* A goroutine calls the sql.DB                                            *)

Start(u, k) ==
    /\ pc[u] = "idle"
    /\ pc' = [pc EXCEPT ![u] = "take"]
    /\ kind' = [kind EXCEPT ![u] = k]
    /\ tries' = [tries EXCEPT ![u] = 1]
    /\ ran' = [ran EXCEPT ![u] = 0]
    /\ result' = [result EXCEPT ![u] = "none"]
    /\ UNCHANGED <<server, losses, connVars, at, cancelled>>

Call(u, k) == result[u] # "error" /\ Start(u, k)

\* The application repeats a call that has failed.
Retry(u) == result[u] = "error" /\ Start(u, kind[u])

Cancel(u) ==
    /\ pc[u] # "idle" /\ ~cancelled[u]
    /\ cancelled' = [cancelled EXCEPT ![u] = TRUE]
    /\ UNCHANGED <<server, losses, connVars, pc, kind, at, tries, ran, result>>

\* database/sql looks at the context before each try, and while it waits.
TakeCancelled(u) ==
    /\ pc[u] = "take" /\ cancelled[u]
    /\ Finish(u, "cancelled")
    /\ UNCHANGED <<server, losses, connVars>>

Ready(u) == IF kind[u] = "stmt" THEN "prepare" ELSE "send"

\* An idle connection: not for the last try, unless no other may be opened.
TakeIdle(u, c) ==
    /\ pc[u] = "take" /\ ~cancelled[u]
    /\ slot[c] = "idle"
    /\ tries[u] < MaxTries \/ \A d \in Slots : slot[d] # "free"
    /\ ~old[c] \/ tries[u] = MaxTries
    /\ slot' = [slot EXCEPT ![c] = "held"]
    /\ at' = [at EXCEPT ![u] = c]
    /\ pc' = [pc EXCEPT ![u] = Ready(u)]
    /\ UNCHANGED <<server, losses, client, link, old, wire, kind, tries, ran, result, cancelled>>

\* One that has become too old counts as a failed try.
TakeExpired(u, c) ==
    /\ pc[u] = "take" /\ ~cancelled[u]
    /\ slot[c] = "idle"
    /\ old[c] /\ tries[u] < MaxTries
    /\ Discard(c)
    /\ TryAgain(u)

\* connector.Connect, v1.Connect: the connection is dialled and the handshake
\* sent.  The context is not passed on, and nothing limits the wait.
Connect(u, c) ==
    /\ pc[u] = "take" /\ ~cancelled[u]
    /\ slot[c] = "free" /\ (Idle = {} \/ tries[u] = MaxTries)
    /\ server = "up"
    /\ slot' = [slot EXCEPT ![c] = "held"]
    /\ link' = [link EXCEPT ![c] = "up"]
    /\ at' = [at EXCEPT ![u] = c]
    /\ pc' = [pc EXCEPT ![u] = "handshake"]
    /\ UNCHANGED <<server, losses, client, old, wire, kind, tries, ran, result, cancelled>>

DialFails(u, c) ==
    /\ pc[u] = "take" /\ ~cancelled[u]
    /\ slot[c] = "free" /\ (Idle = {} \/ tries[u] = MaxTries)
    /\ server = "down"
    /\ Finish(u, "error")
    /\ UNCHANGED <<server, losses, connVars>>

\* The server accepts the handshake; Connect returns the connection.
Connected(u) ==
    /\ pc[u] = "handshake" /\ link[at[u]] = "up"
    /\ client' = [client EXCEPT ![at[u]] = "set"]
    /\ pc' = [pc EXCEPT ![u] = Ready(u)]
    /\ UNCHANGED <<server, losses, slot, link, old, wire, kind, at, tries, ran, result, cancelled>>

\* Fault: what has been dialled is not closed.
ConnectLeaks(u) ==
    /\ slot' = [slot EXCEPT ![at[u]] = "free"]
    /\ Finish(u, "error")
    /\ UNCHANGED <<server, client, link, old, wire>>

\* Connect closes what it has dialled and returns the error.
ConnectFails(u) ==
    /\ Discard(at[u])
    /\ Finish(u, "error")
    /\ UNCHANGED server

\* The connection is lost before the handshake is answered.
HandshakeFails(u) ==
    /\ pc[u] = "handshake" /\ link[at[u]] = "down"
    /\ ConnectFails(u)
    /\ UNCHANGED losses

\* The server refuses the handshake.
HandshakeRefused(u) ==
    /\ pc[u] = "handshake" /\ link[at[u]] = "up"
    /\ losses < MaxLosses
    /\ losses' = losses + 1
    /\ ConnectFails(u)

-----------------------------------------------------------------------------
(* The driver: conn and stmt                                               *)

\* conn.Prepare sends nothing.
Prepare(u) ==
    /\ pc[u] = "prepare"
    /\ IF isConnected(at[u])
       THEN /\ pc' = [pc EXCEPT ![u] = "send"]
            /\ UNCHANGED <<server, losses, connVars, kind, at, tries, ran, result, cancelled>>
       ELSE ErrBadConn(u)

Sends(u) == pc[u] = "send" /\ kind[u] \in {"exec", "query", "ping", "stmt"}

\* ExecContext and QueryContext return ErrBadConn before they send anything.
\* Ping wraps the error, which is then no ErrBadConn to the pool.
NotConnected(u) ==
    /\ Sends(u) /\ ~isConnected(at[u])
    /\ IF kind[u] = "ping" THEN Return(u, "error") ELSE ErrBadConn(u)

Send(u) ==
    /\ Sends(u) /\ isConnected(at[u])
    /\ wire' = [wire EXCEPT ![at[u]] = IF link[at[u]] = "up" THEN "request" ELSE @]
    /\ pc' = [pc EXCEPT ![u] = "await"]
    /\ UNCHANGED <<server, losses, slot, client, link, old, kind, at, tries, ran, result, cancelled>>

\* The write fails on a lost connection; the error is wrapped.
WriteFails(u) ==
    /\ Sends(u) /\ isConnected(at[u])
    /\ link[at[u]] = "down"
    /\ Return(u, "error")

\* The response; a query's rows keep the connection.
Read(u) ==
    /\ pc[u] = "await"
    /\ \/ wire[at[u]] = "refusal" /\ Return(u, "refused")
       \/ wire[at[u]] = "reply" /\ kind[u] # "query" /\ Return(u, "ok")
       \/ /\ wire[at[u]] = "reply" /\ kind[u] = "query"
          /\ wire' = [wire EXCEPT ![at[u]] = "empty"]
          /\ pc' = [pc EXCEPT ![u] = "rows"]
          /\ UNCHANGED <<server, losses, slot, client, link, old,
                         kind, at, tries, ran, result, cancelled>>

\* Fault: ErrBadConn also when the statement has been sent.
ReadFailsBadConn(u) ==
    /\ pc[u] = "await"
    /\ link[at[u]] = "down"
    /\ ErrBadConn(u)

\* Fault: a lost connection is not noticed while waiting for the response.
ReadFailsNever(u) ==
    /\ pc[u] = "await"
    /\ link[at[u]] = "none"
    /\ Return(u, "error")

\* Fault: the read gives up when the context is cancelled.
ReadFailsCancelled(u) ==
    /\ pc[u] = "await"
    /\ link[at[u]] = "down" \/ cancelled[u]
    /\ Return(u, IF cancelled[u] THEN "cancelled" ELSE "error")

\* The read fails on a lost connection; the error is wrapped, so the pool
\* keeps the connection.
ReadFails(u) ==
    /\ pc[u] = "await"
    /\ link[at[u]] = "down"
    /\ Return(u, "error")

\* rows.Close, by the goroutine or by database/sql when the context ends.
RowsClose(u) == pc[u] = "rows" /\ Return(u, "ok")

\* conn.Begin: transactions are not supported.
Begin(u) == pc[u] = "send" /\ kind[u] = "begin" /\ Return(u, "local")

\* sql.Conn.Raw with a function that calls conn.Close, or does nothing.
RawClose(u) ==
    /\ pc[u] = "send" /\ kind[u] = "raw" /\ losses < MaxLosses
    /\ losses' = losses + 1
    /\ Close(at[u])
    /\ pc' = [pc EXCEPT ![u] = "closed"]
    /\ UNCHANGED <<server, slot, old, wire, kind, at, tries, ran, result, cancelled>>

RawReturns(u) == /\ pc[u] = "closed" \/ (pc[u] = "send" /\ kind[u] = "raw")
                 /\ Return(u, "local")

-----------------------------------------------------------------------------
(* The server, the network and time (external)                             *)

Serve(u) ==
    /\ pc[u] = "await" /\ wire[at[u]] = "request"
    /\ \/ /\ ran' = [ran EXCEPT ![u] = @ + 1]
          /\ wire' = [wire EXCEPT ![at[u]] = "reply"]
       \/ /\ wire' = [wire EXCEPT ![at[u]] = "refusal"]
          /\ UNCHANGED ran
    /\ UNCHANGED <<server, losses, slot, client, link, old, pc, kind, at, tries, result, cancelled>>

\* What has not arrived is lost with the connections in C.
Lose(C) ==
    /\ losses < MaxLosses
    /\ losses' = losses + 1
    /\ link' = [c \in Slots |-> IF c \in C /\ link[c] = "up" THEN "down" ELSE link[c]]
    /\ wire' = [c \in Slots |-> IF c \in C THEN "empty" ELSE wire[c]]
    /\ UNCHANGED <<slot, client, old, callVars>>

LinkDown(c) == link[c] = "up" /\ Lose({c}) /\ UNCHANGED server
Crash == server = "up" /\ Lose(Slots) /\ server' = "down"

Restart == /\ server = "down"
           /\ server' = "up"
           /\ UNCHANGED <<losses, connVars, callVars>>

\* Fault: ConnMaxLifetime is not set.
AgeNever(c) == FALSE /\ UNCHANGED vars

\* ConnMaxLifetime passes; the pool's cleaner closes what is idle and too old.
Age(c) == /\ slot[c] # "free" /\ ~old[c]
          /\ \A u \in Users : ~(at[u] = c /\ pc[u] = "handshake")
          /\ old' = [old EXCEPT ![c] = TRUE]
          /\ UNCHANGED <<server, losses, slot, client, link, wire, callVars>>

Clean(c) == /\ slot[c] = "idle" /\ old[c]
            /\ Discard(c)
            /\ UNCHANGED <<server, losses, callVars>>

-----------------------------------------------------------------------------

Take(u) == TakeCancelled(u) \/ \E c \in Slots : \/ TakeIdle(u, c) \/ TakeExpired(u, c)
                                                \/ Connect(u, c) \/ DialFails(u, c)

Driver(u) == \/ HandshakeFails(u) \/ Prepare(u) \/ NotConnected(u) \/ Send(u) \/ WriteFails(u)
             \/ Read(u) \/ ReadFails(u) \/ RowsClose(u) \/ Begin(u) \/ RawClose(u)
             \/ RawReturns(u)

Next == \/ \E u \in Users : \/ \E k \in Kinds[u] : Call(u, k)
                            \/ Retry(u) \/ Cancel(u) \/ Take(u) \/ Driver(u)
                            \/ Connected(u) \/ HandshakeRefused(u) \/ Serve(u)
        \/ \E c \in Slots : LinkDown(c) \/ Age(c) \/ Clean(c)
        \/ Crash
        \/ Restart

Spec == Init /\ [][Next]_vars

\* The goroutines run, repeat what has failed and close their rows; the pool
\* hands a connection that is given back to whoever waits.
ClientSpec == /\ Spec
              /\ \A u \in Users : WF_vars(Retry(u)) /\ SF_vars(Take(u)) /\ WF_vars(Driver(u))

\* A server that answers, restarts after a crash, and a ConnMaxLifetime.
FairSpec == /\ ClientSpec
            /\ \A u \in Users : WF_vars(Connected(u) \/ Serve(u))
            /\ \A c \in Slots : WF_vars(Age(c))
            /\ WF_vars(Restart)

-----------------------------------------------------------------------------
(* Properties                                                              *)

Sending == {"send", "await", "rows"}
PcValues == {"idle", "take", "handshake", "prepare", "closed"} \cup Sending
Results == {"none", "ok", "refused", "error", "local", "cancelled"}

\* The pool, the connections and the goroutines have their types, and a
\* goroutine has a connection exactly while it uses one.
TypeOK ==
    /\ server \in {"up", "down"}
    /\ losses \in 0..MaxLosses
    /\ slot \in [Slots -> {"free", "idle", "held"}]
    /\ client \in [Slots -> {"nil", "set"}]
    /\ link \in [Slots -> {"none", "up", "down"}]
    /\ old \in [Slots -> BOOLEAN]
    /\ wire \in [Slots -> {"empty", "request", "reply", "refusal"}]
    /\ pc \in [Users -> PcValues]
    /\ kind \in [Users -> AllKinds \cup {"none"}]
    /\ at \in [Users -> Slots \cup {NoSlot}]
    /\ tries \in [Users -> 0..MaxTries]
    /\ ran \in [Users -> 0..MaxTries]
    /\ result \in [Users -> Results]
    /\ cancelled \in [Users -> BOOLEAN]
    /\ \A u \in Users : at[u] = NoSlot <=> pc[u] \in {"idle", "take"}

\* Retried as it may be by the pool, a statement is executed at most once for
\* each call: the driver returns ErrBadConn only as long as nothing has been
\* sent (conn.go:83, 159), and hides it afterwards (conn.go:111, 188).
ExecutedAtMostOnce == \A u \in Users : ran[u] <= 1

\* What a call returns is what happened to its statement: without an error it
\* was executed; a refusal, and the error of a cancelled context, mean that
\* it was not.  Only after any other error it may have been.
ResultsAreTrue ==
    \A u \in Users : /\ result[u] = "ok" => ran[u] = 1
                     /\ result[u] \in {"refused", "local", "cancelled"} => ran[u] = 0

\* A connection is open exactly as long as the pool or a goroutine has it: a
\* failed handshake (client.go:308-317) and conn.Close leave none behind, and
\* a goroutine that waits for a response is the only one that uses its
\* connection.
NoConnectionLeaks ==
    /\ \A c \in Slots : link[c] # "none" => slot[c] # "free"
    /\ \A c \in Slots : slot[c] = "held" <=> \E u \in Users : at[u] = c
    /\ \A u, v \in Users : at[u] = at[v] /\ at[u] # NoSlot => u = v

\* Every call of the sql.DB returns when the server answers, whatever is lost,
\* closed or cancelled: no goroutine waits for a connection or a response for
\* ever, and no connection is kept from the ones that wait.
EveryCallReturns == \A u \in Users : pc[u] # "idle" ~> pc[u] = "idle"

\* The pool never learns that a connection is lost (client.go:246, conn.go:32),
\* and hands it out again; but ConnMaxLifetime removes it in the end, and a
\* call that is repeated after an error succeeds.
RepeatedCallsSucceed ==
    \A u \in Users : result[u] = "error" ~> result[u] \in {"ok", "refused", "local", "cancelled"}

\* "ExecContext must honor the context timeout and return when it is
\* canceled" (stmt.go:68), and so must QueryContext (stmt.go:80).
ContextIsHonored ==
    \A u \in Users : cancelled[u] /\ pc[u] # "idle" ~> pc[u] = "idle"

-----------------------------------------------------------------------------
(* The inductive invariant                                                 *)

\* Something is under way only on a connection whose holder waits for it.
WireInv ==
    /\ \A c \in Slots : slot[c] # "held" => wire[c] = "empty"
    /\ \A u \in Users : at[u] # NoSlot /\ pc[u] # "await" => wire[at[u]] = "empty"

\* What has happened to a goroutine's statement when it is at a certain point.
CallOK(u) ==
    /\ ran[u] \in {0, 1}
    /\ pc[u] # "idle" => result[u] = "none"
    /\ pc[u] \in {"take", "handshake", "prepare", "send", "closed"} => ran[u] = 0
    /\ pc[u] = "rows" => ran[u] = 1
    /\ pc[u] = "await" => /\ wire[at[u]] \in {"request", "refusal"} => ran[u] = 0
                          /\ wire[at[u]] = "reply" => ran[u] = 1

PoolInv == /\ TypeOK
           /\ NoConnectionLeaks
           /\ WireInv
           /\ \A u \in Users : CallOK(u)
           /\ ResultsAreTrue
=============================================================================
