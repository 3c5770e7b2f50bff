---------------------------- MODULE IgniteClient ----------------------------
(***************************************************************************)
(* One client connection (binary/v1/client.go) shared by goroutines: the   *)
(* opener runs Connect, the callers run operations, heartbeats and Close.  *)
(*                                                                         *)
(* Every operation reads client.RequestId without the mutex, builds a       *)
(* request and the response that expects its id, and calls Do, which holds  *)
(* the mutex while it writes the request, increments RequestId and reads    *)
(* one response through a buffered reader of its own.  Close takes no       *)
(* mutex.  An increment is a load and a store: the code has no atomics.     *)
(*                                                                         *)
(* The server and the TCP connection are external.  Payloads are reduced to *)
(* the call a frame belongs to, its id, its flags and whether the length    *)
(* written in front of it is the length of what follows.                    *)
(***************************************************************************)
EXTENDS Integers, Sequences, FiniteSets

CONSTANTS Callers,     \* goroutines that share the client
          Opener,      \* the goroutine that runs Connect
          MaxCalls,    \* bound: calls one goroutine makes
          Ops,         \* the kinds of call they make
          MayClose,    \* whether callers close the client
          LinkFails,   \* whether the connection can be lost
          ServerFlags  \* the response flags the server uses

ASSUME CallersAssumption == Opener \notin Callers
ASSUME MaxCallsAssumption == MaxCalls \in Nat \ {0}
ASSUME OpsAssumption == Ops \subseteq {"operation", "heartbeat"}
ASSUME SwitchAssumption == MayClose \in BOOLEAN /\ LinkFails \in BOOLEAN

VARIABLES phase,      \* progress of Connect
          conn,       \* client.conn: "open" or "nil"
          RequestId,  \* client.RequestId
          mutex,      \* the holder of client.mutex, or NoOne
          pc,         \* where each goroutine is
          n,          \* the number of calls each goroutine has made
          op,         \* the kind of each call
          reqId,      \* the id in the request a goroutine has built
          resId,      \* the id its response object expects
          tmp,        \* RequestId as loaded by an increment in progress
          outcome,    \* what each call returned
          link,       \* the TCP connection: "up", "down" (lost) or "closed"
          toServer,   \* frames in flight to the server
          toClient,   \* frames in flight to the client
          served      \* what the server did for each call

callerVars == <<n, op, reqId, resId, tmp>>
wireVars   == <<link, toServer, toClient, served>>
vars == <<phase, conn, RequestId, mutex, pc, callerVars, outcome, wireVars>>

Threads == Callers \cup {Opener}
Calls   == Threads \X (1..MaxCalls)
NoOne   == "no one"
Cur(t)  == <<t, n[t]>>

ASSUME NoOneAssumption == NoOne \notin Threads

FlagPartitionAssignmentChanged == 1
FlagError == 4
Flags == {0, FlagPartitionAssignmentChanged, FlagError}

ASSUME FlagsAssumption == ServerFlags \subseteq Flags

Outcomes == {"ok", "refused", "mismatch", "failed", "panic"}
InDo     == {"write", "load", "store", "bind", "read"}   \* the mutex is held
Building == {"expect", "bumpLoad", "bumpStore", "lock"}  \* a call before Do
PcValues == {"idle", "closeConn", "closeNil", "dead"} \cup Building \cup InDo

Init ==
    /\ phase = "none"
    /\ conn = "nil"
    /\ RequestId = 0
    /\ mutex = NoOne
    /\ pc = [t \in Threads |-> "idle"]
    /\ n = [t \in Threads |-> 0]
    /\ op = [k \in Calls |-> "none"]
    /\ reqId = [t \in Threads |-> 0]
    /\ resId = [t \in Threads |-> 0]
    /\ tmp = [t \in Threads |-> 0]
    /\ outcome = [k \in Calls |-> "none"]
    /\ link = "closed"
    /\ toServer = <<>>
    /\ toClient = <<>>
    /\ served = [k \in Calls |-> "none"]

-----------------------------------------------------------------------------
(* Frames                                                                  *)

\* Bytes of WritePackedInt64(id): the shortest msgpack form.
PackedLen(id) == CASE id <= 127                 -> 1
                   [] 127 < id /\ id <= 255   -> 2
                   [] 255 < id /\ id <= 65535 -> 3
                   [] OTHER                     -> 5

\* ReadPackedInt8 keeps the low eight bits, signed.
Int8(id) == ((id + 128) % 256) - 128

\* Fault: the declared length leaves the packed id out.
DeclaredLenWithoutId(kind, id) == IF kind = "heartbeat" THEN 1 ELSE 1 + PackedLen(id)

\* RequestHeartbeat.WriteTo declares two bytes; RequestOperation.WriteTo
\* measures what it has written, and the handshake does as well.
DeclaredLen(kind, id) == IF kind = "heartbeat" THEN 2 ELSE 1 + PackedLen(id)
ActualLen(id) == 1 + PackedLen(id)

Request(t) == [call |-> Cur(t), id |-> reqId[t],
               framed |-> DeclaredLen(op[Cur(t)], reqId[t]) = ActualLen(reqId[t])]
Reply(f, flags) == [call |-> f.call, id |-> f.id, flags |-> flags]

\* What a goroutine makes of the frame it has read.
HandshakeVerdict(f) == IF f.flags = FlagError THEN "failed" ELSE "ok"

\* Fault: no CheckStatus after ReadFrom.
OperationUnchecked(expected, f) == IF f.id # expected THEN "mismatch" ELSE "ok"

OperationVerdict(expected, f) ==
    IF f.id # expected THEN "mismatch"
    ELSE IF f.flags = FlagError THEN "refused" ELSE "ok"

HeartbeatVerdict(expected, f) ==
    IF f.flags # 0 THEN "failed"
    ELSE IF Int8(f.id) # expected THEN "mismatch" ELSE "ok"

Verdict(kind, expected, f) ==
    CASE kind = "handshake" -> HandshakeVerdict(f)
      [] kind = "operation" -> OperationVerdict(expected, f)
      [] kind = "heartbeat" -> HeartbeatVerdict(expected, f)

-----------------------------------------------------------------------------
(* Building a call                                                         *)

\* Fault: Connect does not keep the connection it has dialled.
DialForgetsConn ==
    /\ phase = "none"
    /\ phase' = "connecting"
    /\ link' = "up"
    /\ n' = [n EXCEPT ![Opener] = 1]
    /\ op' = [op EXCEPT ![<<Opener, 1>>] = "handshake"]
    /\ pc' = [pc EXCEPT ![Opener] = "lock"]
    /\ UNCHANGED <<conn, RequestId, mutex, reqId, resId, tmp, outcome,
                   toServer, toClient, served>>

\* The opener has dialled and builds the handshake; it carries no id.
Dial ==
    /\ phase = "none"
    /\ phase' = "connecting"
    /\ conn' = "open"
    /\ link' = "up"
    /\ n' = [n EXCEPT ![Opener] = 1]
    /\ op' = [op EXCEPT ![<<Opener, 1>>] = "handshake"]
    /\ pc' = [pc EXCEPT ![Opener] = "lock"]
    /\ UNCHANGED <<RequestId, mutex, reqId, resId, tmp, outcome,
                   toServer, toClient, served>>

\* The dialler returns an error: there is no client.
DialFails ==
    /\ phase = "none"
    /\ phase' = "failed"
    /\ UNCHANGED <<conn, RequestId, mutex, pc, callerVars, outcome, wireVars>>

\* Fault: an operation reads client.RequestId twice, as a heartbeat does.
BeginRereading(t, kind) ==
    /\ phase = "ready"
    /\ pc[t] = "idle"
    /\ n[t] < MaxCalls
    /\ n' = [n EXCEPT ![t] = @ + 1]
    /\ op' = [op EXCEPT ![<<t, n[t] + 1>>] = kind]
    /\ reqId' = [reqId EXCEPT ![t] = RequestId]
    /\ pc' = [pc EXCEPT ![t] = "expect"]
    /\ UNCHANGED <<phase, conn, RequestId, mutex, resId, tmp, outcome, wireVars>>

\* A caller starts a call: the request takes the current id.  An operation's
\* response expects req.RequestId; a heartbeat reads client.RequestId again.
Begin(t, kind) ==
    /\ phase = "ready"
    /\ pc[t] = "idle"
    /\ n[t] < MaxCalls
    /\ n' = [n EXCEPT ![t] = @ + 1]
    /\ op' = [op EXCEPT ![<<t, n[t] + 1>>] = kind]
    /\ reqId' = [reqId EXCEPT ![t] = RequestId]
    /\ resId' = [resId EXCEPT ![t] = RequestId]
    /\ pc' = [pc EXCEPT ![t] = IF kind = "heartbeat" THEN "expect" ELSE "lock"]
    /\ UNCHANGED <<phase, conn, RequestId, mutex, tmp, outcome, wireVars>>

\* NewResponseHeartbeat(c.RequestId): the second read.
Expect(t) ==
    /\ pc[t] = "expect"
    /\ resId' = [resId EXCEPT ![t] = RequestId]
    /\ pc' = [pc EXCEPT ![t] = "bumpLoad"]
    /\ UNCHANGED <<phase, conn, RequestId, mutex, n, op, reqId, tmp, outcome, wireVars>>

\* c.RequestId++ as a load and a store; SendHeartbeat does it without the
\* mutex, Do under it.
Load(t, from, to) ==
    /\ pc[t] = from
    /\ tmp' = [tmp EXCEPT ![t] = RequestId]
    /\ pc' = [pc EXCEPT ![t] = to]
    /\ UNCHANGED <<phase, conn, RequestId, mutex, n, op, reqId, resId, outcome, wireVars>>

\* Fault: a decrement.
StoreBack(t, from, to) ==
    /\ pc[t] = from
    /\ RequestId' = tmp[t] - 1
    /\ pc' = [pc EXCEPT ![t] = to]
    /\ UNCHANGED <<phase, conn, mutex, callerVars, outcome, wireVars>>

Store(t, from, to) ==
    /\ pc[t] = from
    /\ RequestId' = tmp[t] + 1
    /\ pc' = [pc EXCEPT ![t] = to]
    /\ UNCHANGED <<phase, conn, mutex, callerVars, outcome, wireVars>>

-----------------------------------------------------------------------------
(* Do                                                                      *)

\* Fault: Do does not lock.
AcquireNothing(t) ==
    /\ pc[t] = "lock"
    /\ mutex' = t
    /\ pc' = [pc EXCEPT ![t] = "write"]
    /\ UNCHANGED <<phase, conn, RequestId, callerVars, outcome, wireVars>>

Acquire(t) ==
    /\ pc[t] = "lock"
    /\ mutex = NoOne
    /\ mutex' = t
    /\ pc' = [pc EXCEPT ![t] = "write"]
    /\ UNCHANGED <<phase, conn, RequestId, callerVars, outcome, wireVars>>

\* Do returns or panics; the deferred Unlock runs and the operation hands the
\* outcome to its caller; its locals are gone (0).  The opener goes on with the rest of Connect: the
\* id starts again from 0, or the connection is closed.
Finish(t, verdict) ==
    /\ outcome' = [outcome EXCEPT ![Cur(t)] = verdict]
    /\ mutex' = NoOne
    /\ pc' = [pc EXCEPT ![t] = IF verdict = "panic" THEN "dead" ELSE "idle"]
    /\ \/ /\ t # Opener
          /\ UNCHANGED <<phase, conn, RequestId, link>>
       \/ /\ t = Opener /\ verdict = "ok"
          /\ phase' = "ready"
          /\ RequestId' = 0
          /\ UNCHANGED <<conn, link>>
       \/ /\ t = Opener /\ verdict # "ok"
          /\ phase' = "failed"
          /\ conn' = "nil"
          /\ link' = "closed"
          /\ UNCHANGED RequestId
    /\ reqId' = [reqId EXCEPT ![t] = 0]
    /\ resId' = [resId EXCEPT ![t] = 0]
    /\ tmp' = [tmp EXCEPT ![t] = 0]
    /\ UNCHANGED <<n, op, toServer, served>>

\* Fault: the request stays in a buffer that is not flushed.
WriteUnflushed(t) ==
    /\ pc[t] = "write"
    /\ conn = "open" /\ link = "up"
    /\ pc' = [pc EXCEPT ![t] = "load"]
    /\ UNCHANGED <<phase, conn, RequestId, mutex, callerVars, outcome, wireVars>>

\* Fault: the request is sent a second time.
WriteTwice(t) ==
    /\ pc[t] = "write"
    /\ conn = "open" /\ link = "up"
    /\ toServer' = toServer \o <<Request(t), Request(t)>>
    /\ pc' = [pc EXCEPT ![t] = "load"]
    /\ UNCHANGED <<phase, conn, RequestId, mutex, callerVars, outcome, link, toClient, served>>

Write(t) ==
    /\ pc[t] = "write"
    /\ conn = "open" /\ link = "up"
    /\ toServer' = Append(toServer, Request(t))
    /\ pc' = [pc EXCEPT ![t] = "load"]
    /\ UNCHANGED <<phase, conn, RequestId, mutex, callerVars, outcome, link, toClient, served>>

\* The socket still takes bytes for a peer that is gone.
WriteLost(t) ==
    /\ pc[t] = "write"
    /\ conn = "open" /\ link = "down"
    /\ pc' = [pc EXCEPT ![t] = "load"]
    /\ UNCHANGED <<phase, conn, RequestId, mutex, callerVars, outcome, wireVars>>

WriteFails(t) ==
    /\ pc[t] = "write"
    /\ conn = "open" /\ link # "up"
    /\ Finish(t, "failed")
    /\ UNCHANGED toClient

\* c.conn is nil: the method call on the nil interface panics, in the write
\* or in the reader that Do makes from c.conn.
UseOfNil(t) ==
    /\ pc[t] \in {"write", "bind"}
    /\ conn = "nil"
    /\ Finish(t, "panic")
    /\ UNCHANGED toClient

\* bufio.NewReader(c.conn)
BindReader(t) ==
    /\ pc[t] = "bind"
    /\ conn = "open"
    /\ pc' = [pc EXCEPT ![t] = "read"]
    /\ UNCHANGED <<phase, conn, RequestId, mutex, callerVars, outcome, wireVars>>

\* The reader takes the first frame and may have buffered any number of the
\* frames behind it, which are dropped with it.
Read(t) ==
    /\ pc[t] = "read"
    /\ link # "closed"
    /\ toClient # <<>>
    /\ \E taken \in 1..Len(toClient) :
          toClient' = SubSeq(toClient, taken + 1, Len(toClient))
    /\ Finish(t, Verdict(op[Cur(t)], resId[t], Head(toClient)))

\* Fault: the end of a lost connection is taken for a read to be retried.
ReadFailsClosed(t) ==
    /\ pc[t] = "read"
    /\ link = "closed"
    /\ Finish(t, "failed")
    /\ UNCHANGED toClient

ReadFails(t) ==
    /\ pc[t] = "read"
    /\ link = "closed" \/ (link = "down" /\ toClient = <<>>)
    /\ Finish(t, "failed")
    /\ UNCHANGED toClient

-----------------------------------------------------------------------------
(* Close                                                                   *)

CloseBegin(t) ==
    /\ MayClose
    /\ phase = "ready"
    /\ pc[t] = "idle"
    /\ conn = "open"
    /\ pc' = [pc EXCEPT ![t] = "closeConn"]
    /\ UNCHANGED <<phase, conn, RequestId, mutex, callerVars, outcome, wireVars>>

\* c.conn.Close(): a second Close may have set c.conn to nil by now.
CloseConn(t) ==
    /\ pc[t] = "closeConn"
    /\ IF conn = "open"
       THEN /\ link' = "closed"
            /\ pc' = [pc EXCEPT ![t] = "closeNil"]
       ELSE /\ pc' = [pc EXCEPT ![t] = "dead"]
            /\ UNCHANGED link
    /\ UNCHANGED <<phase, conn, RequestId, mutex, callerVars, outcome,
                   toServer, toClient, served>>

CloseNil(t) ==
    /\ pc[t] = "closeNil"
    /\ conn' = "nil"
    /\ pc' = [pc EXCEPT ![t] = "idle"]
    /\ UNCHANGED <<phase, RequestId, mutex, callerVars, outcome, wireVars>>

-----------------------------------------------------------------------------
(* The server and the network (external)                                   *)

\* The server executes the next request and answers, if it still can.
ServerReply ==
    /\ toServer # <<>>
    /\ Head(toServer).framed
    /\ \E flags \in ServerFlags :
          /\ served' = [served EXCEPT ![Head(toServer).call] =
                           IF flags = FlagError THEN "refused" ELSE "done"]
          /\ toClient' = IF link = "up"
                         THEN Append(toClient, Reply(Head(toServer), flags))
                         ELSE toClient
    /\ toServer' = Tail(toServer)
    /\ UNCHANGED <<phase, conn, RequestId, mutex, pc, callerVars, outcome, link>>

\* A frame whose length is wrong makes the server drop the connection.
ServerRejects ==
    /\ toServer # <<>>
    /\ ~Head(toServer).framed
    /\ toServer' = Tail(toServer)
    /\ link' = IF link = "up" THEN "down" ELSE link
    /\ UNCHANGED <<phase, conn, RequestId, mutex, pc, callerVars, outcome, toClient, served>>

\* The connection is lost: answers under way may be lost with it, while the
\* server may still execute what it has received.
LinkDown ==
    /\ LinkFails
    /\ link = "up"
    /\ link' = "down"
    /\ toClient' \in {toClient, <<>>}
    /\ UNCHANGED <<phase, conn, RequestId, mutex, pc, callerVars, outcome, toServer, served>>

-----------------------------------------------------------------------------

DoStep(t) ==
    \/ Load(t, "load", "store")
    \/ Store(t, "store", "bind")
    \/ Write(t)
    \/ WriteLost(t)
    \/ WriteFails(t)
    \/ UseOfNil(t)
    \/ BindReader(t)
    \/ Read(t)
    \/ ReadFails(t)

HeartbeatStep(t) ==
    \/ Expect(t)
    \/ Load(t, "bumpLoad", "bumpStore")
    \/ Store(t, "bumpStore", "lock")

CloseStep(t) == CloseConn(t) \/ CloseNil(t)

Server == ServerReply \/ ServerRejects

\* Every goroutine has made its calls, or can make none, and has returned.
Terminated ==
    /\ phase \in {"ready", "failed"}
    /\ \A t \in Threads : pc[t] \in {"idle", "dead"}
    /\ phase = "ready" => \A t \in Callers : pc[t] = "dead" \/ n[t] = MaxCalls
    /\ UNCHANGED vars

Next ==
    \/ Dial
    \/ DialFails
    \/ \E t \in Threads : Acquire(t) \/ DoStep(t)
    \/ \E t \in Callers : \/ \E kind \in Ops : Begin(t, kind)
                          \/ HeartbeatStep(t)
                          \/ CloseBegin(t)
                          \/ CloseStep(t)
    \/ Server
    \/ LinkDown
    \/ Terminated

Spec == Init /\ [][Next]_vars

\* Goroutines run, Go's mutex does not starve a waiter, and the server reads
\* and answers what it receives.  Nobody has to start a call or a Close.
Fairness ==
    /\ \A t \in Threads : WF_vars(DoStep(t)) /\ SF_vars(Acquire(t))
    /\ \A t \in Callers : WF_vars(HeartbeatStep(t)) /\ WF_vars(CloseStep(t))
    /\ WF_vars(Server)

FairSpec == Spec /\ Fairness

-----------------------------------------------------------------------------
(* Properties                                                              *)

Frames == [call : Calls, id : Nat, framed : BOOLEAN]
Replies == [call : Calls, id : Nat, flags : Flags]

\* Every variable has its type: the fields of client, the goroutines' local
\* state and the frames on the wire.
TypeOK ==
    /\ phase \in {"none", "connecting", "ready", "failed"}
    /\ conn \in {"open", "nil"}
    /\ RequestId \in Nat
    /\ mutex \in Threads \cup {NoOne}
    /\ pc \in [Threads -> PcValues]
    /\ n \in [Threads -> 0..MaxCalls]
    /\ op \in [Calls -> {"none", "handshake", "operation", "heartbeat"}]
    /\ reqId \in [Threads -> Nat]
    /\ resId \in [Threads -> Nat]
    /\ tmp \in [Threads -> Nat]
    /\ outcome \in [Calls -> Outcomes \cup {"none"}]
    /\ link \in {"up", "down", "closed"}
    /\ toServer \in Seq(Frames)
    /\ toClient \in Seq(Replies)
    /\ served \in [Calls -> {"none", "done", "refused"}]

\* The reader Do makes may buffer more than one frame and drops what it has
\* buffered (client.go:262).  That is harmless because never more than one
\* frame is in flight, and on a live connection it belongs to the call that
\* holds the mutex.
OneFrameInFlight ==
    /\ Len(toServer) + Len(toClient) <= 1
    /\ link = "up" =>
          /\ \A i \in DOMAIN toServer : mutex # NoOne /\ toServer[i].call = Cur(mutex)
          /\ \A i \in DOMAIN toClient : mutex # NoOne /\ toClient[i].call = Cur(mutex)

\* A goroutine blocked in the read of Do (client.go:262) on a live connection
\* has its request or its response on the wire: nobody waits for nothing.
ReaderIsServed ==
    \A t \in Threads :
        pc[t] = "read" /\ link = "up" =>
            \/ \E i \in DOMAIN toServer : toServer[i].call = Cur(t)
            \/ \E i \in DOMAIN toClient : toClient[i].call = Cur(t)

\* Concurrent callers may send the same id, since they read RequestId without
\* the mutex, and still: a call that returns without error was executed by
\* the server, one that returns a server error was refused by it.
AnswersAreTrue ==
    \A k \in Calls : /\ outcome[k] = "ok" => served[k] = "done"
                     /\ outcome[k] = "refused" => served[k] = "refused"

\* ResponseOperation.ReadFrom's "invalid request ID" never happens to an
\* operation, whatever the other goroutines do: only a heartbeat, which reads
\* RequestId twice (client.go:339-340), can meet it.
OperationsNeverMismatch ==
    \A k \in Calls : outcome[k] = "mismatch" => op[k] = "heartbeat"

\* Connect never panics, and neither does any call on a client that nobody
\* closes, a lost connection or a refused handshake notwithstanding: c.conn is
\* nil (client.go:255, 262, 276) only once a Close has run.
PanicOnlyAfterClose ==
    (\E t \in Threads : pc[t] = "dead") => MayClose /\ phase = "ready" /\ conn = "nil"

\* One goroutine uses the client, the server refuses nothing, the connection is
\* neither lost nor closed.
OneHealthyCaller == /\ \A s, t \in Callers : s = t
                    /\ ServerFlags = {0} /\ ~LinkFails /\ ~MayClose

\* A heartbeat declares two bytes (request-heartbeat.go:20) and its answer's
\* id is read as a signed byte: on a healthy connection heartbeats succeed as
\* long as the id fits, that is up to id 127, and not one step less.
HeartbeatsSucceedBelow128 ==
    OneHealthyCaller /\ RequestId <= 129 => \A k \in Calls : outcome[k] \in {"none", "ok"}

\* Every call returns (or panics): no goroutine stays in Do, nor in its queue.
EveryCallReturns ==
    \A k \in Calls : op[k] # "none" ~> outcome[k] # "none"

\* The connection implements the abstract one: a call is executed at most
\* once, and its answer is what the server did for it.
Answered(o) == IF o \in {"none", "ok", "refused"} THEN o ELSE "failed"

Abstract == INSTANCE CallSpec
    WITH invoked <- {k \in Calls : k[2] <= n[k[1]]},
         effect  <- served,
         answer  <- [k \in Calls |-> Answered(outcome[k])]

ImplementsCallSpec == Abstract!CallSpec

\* "Client is thread safe" (client.go:32): no goroutine panics whatever the
\* others call.
ClientIsThreadSafe == \A t \in Threads : pc[t] # "dead"

-----------------------------------------------------------------------------
(* The inductive invariant: the reason for the properties above            *)

InCall     == Building \cup InDo
Outside    == {"idle", "closeConn", "closeNil"}
AfterWrite == InDo \ {"write"}
Unsent     == Building \cup {"write"}

\* Being between Lock and Unlock and holding the mutex are the same thing.
MutexInv == \A t \in Threads : mutex = t <=> pc[t] \in InDo

\* A goroutine's current call is open exactly while it is in it; later calls
\* have left no trace; nothing is executed before it is written.
CallOK(t) ==
    /\ pc[t] \in InCall => n[t] > 0 /\ outcome[Cur(t)] = "none" /\ op[Cur(t)] # "none"
    /\ pc[t] \in Outside /\ n[t] > 0 => outcome[Cur(t)] # "none"
    /\ pc[t] \in Unsent => served[Cur(t)] = "none"
    /\ \A i \in 1..MaxCalls :
          i > n[t] => outcome[<<t, i>>] = "none" /\ served[<<t, i>>] = "none"

CallInv == \A t \in Threads : CallOK(t)

\* Nothing happens before Dial; the opener is in its call, and the callers in
\* none, until Connect returns.
PhaseInv ==
    /\ phase = "none" => /\ toServer = <<>> /\ toClient = <<>>
                         /\ \A t \in Threads : pc[t] = "idle" /\ n[t] = 0
    /\ pc[Opener] \in InCall => phase = "connecting" /\ n[Opener] = 1
    /\ phase = "ready" => outcome[<<Opener, 1>>] = "ok"

\* client.conn is set to nil only after the connection has been closed.
ConnInv ==
    /\ conn = "nil" => link = "closed"
    /\ \A t \in Threads : pc[t] = "closeNil" => link = "closed"
    /\ \A t \in Threads : pc[t] = "dead" => conn = "nil"

\* The callers wait for Connect, which keeps the connection it has dialled;
\* afterwards only Close gives it up.
CloseInv ==
    /\ phase = "connecting" => conn = "open"
    /\ \A t \in Callers : pc[t] # "idle" => phase = "ready"
    /\ pc[Opener] # "idle" => phase = "connecting"
    /\ phase = "ready" /\ conn = "nil" => MayClose
    /\ \A t \in Callers : pc[t] \in {"closeConn", "closeNil"} => MayClose

\* At most one frame is in flight.  While the server can answer it is the
\* request of the goroutine in Do; an answer that can be read is its answer.
OwnedBy(f, t) == pc[t] \in AfterWrite /\ f.call = Cur(t) /\ f.id = reqId[t]

RequestOK(f) ==
    /\ f.call[2] <= n[f.call[1]]
    /\ served[f.call] = "none"
    /\ \A t \in Threads : f.call = Cur(t) => pc[t] \notin Unsent
    /\ link = "up" => \E t \in Threads : OwnedBy(f, t)

ReplyOK(r) ==
    /\ served[r.call] = IF r.flags = FlagError THEN "refused" ELSE "done"
    /\ \E t \in Threads : OwnedBy(r, t)

HasFrame(t) == \/ toServer # <<>> /\ Head(toServer).call = Cur(t)
               \/ toClient # <<>> /\ Head(toClient).call = Cur(t)

WireInv ==
    /\ Len(toServer) + Len(toClient) <= 1
    /\ toServer # <<>> => RequestOK(Head(toServer))
    /\ toClient # <<>> /\ link # "closed" => ReplyOK(Head(toClient))
    /\ link = "up" => \A t \in Threads : pc[t] \in AfterWrite => HasFrame(t)

\* An operation's response expects the id its request carries.
IdInv ==
    \A t \in Threads :
        /\ pc[t] \in InCall /\ op[Cur(t)] = "operation" => resId[t] = reqId[t]
        /\ pc[t] = "expect" => op[Cur(t)] = "heartbeat"

\* Why the safety properties of the shared client hold: mutual exclusion in
\* Do (client.go:251) makes the wire lock-step, so a reader only ever finds
\* the answer to its own request.
IInv ==
    /\ TypeOK
    /\ MutexInv
    /\ CallInv
    /\ PhaseInv
    /\ ConnInv
    /\ WireInv
    /\ IdInv
    /\ AnswersAreTrue
    /\ OperationsNeverMismatch

\* With one caller nothing disturbs an increment, so that RequestId is ahead of
\* the id of the call by the increments it has made.
Bumps(t) ==
    IF pc[t] \in {"expect", "bumpLoad", "bumpStore"} THEN 0
    ELSE (IF op[Cur(t)] = "heartbeat" THEN 1 ELSE 0) + (IF pc[t] \in {"bind", "read"} THEN 1 ELSE 0)

CountInv ==
    /\ \A t \in Threads : pc[t] \in {"bumpStore", "store"} => tmp[t] = RequestId
    /\ pc[Opener] \in InCall => op[Cur(Opener)] = "handshake"
    /\ \A t \in Callers : pc[t] \in InCall =>
          /\ RequestId = reqId[t] + Bumps(t) /\ resId[t] = reqId[t]
          /\ op[Cur(t)] \in {"operation", "heartbeat"}
          /\ pc[t] \in {"expect", "bumpLoad", "bumpStore"} => op[Cur(t)] = "heartbeat"

\* Only a heartbeat with an id above 127 has the wrong length, and only that
\* costs the connection.
Oversized(t) == pc[t] \in AfterWrite /\ op[Cur(t)] = "heartbeat" /\ reqId[t] > 127

LinkInv ==
    /\ phase = "connecting" => link = "up" /\ \A k \in Calls : outcome[k] = "none"
    /\ phase = "ready" /\ RequestId <= 129 /\ (\A t \in Callers : ~Oversized(t)) => link = "up"
    /\ toClient # <<>> => Head(toClient).flags = 0
    /\ toServer # <<>> /\ link = "up" /\ ~Head(toServer).framed =>
          op[Head(toServer).call] = "heartbeat" /\ Head(toServer).id > 127

HeartbeatInv == OneHealthyCaller => CountInv /\ LinkInv /\ HeartbeatsSucceedBelow128
=============================================================================
