------------------------- MODULE IgniteClientProofs -------------------------
(***************************************************************************)
(* Proofs about IgniteClient, for any number of goroutines and of calls.   *)
(***************************************************************************)
EXTENDS IgniteClient, SequenceTheorems, TLAPS

-----------------------------------------------------------------------------
(* Facts about values                                                      *)

\* Sequences of at most one frame.
LEMMA ShortSeq ==
    ASSUME NEW S, NEW s \in Seq(S), Len(s) <= 1, s # <<>>
    PROVE  /\ Len(s) = 1
           /\ Tail(s) = <<>>
           /\ Head(s) \in S
           /\ \A k \in 1..Len(s) : SubSeq(s, k + 1, Len(s)) = <<>>
<1>1. Len(s) \in Nat \ {0}
  BY EmptySeq
<1>2. Len(s) = 1
  BY <1>1, SMT
<1>3. Head(s) \in S
  BY HeadTailProperties
<1>4. \A k \in 1..Len(s) : SubSeq(s, k + 1, Len(s)) = <<>>
  BY <1>2, SubSeqEmpty
<1>5. Tail(s) = <<>>
  <2>1. SubSeq(s, 2, Len(s)) = <<>>
    BY <1>2, SubSeqEmpty
  <2>2. Tail(s) = SubSeq(s, 2, Len(s))
    BY TailIsSubSeq
  <2> QED
    BY <2>1, <2>2, Zenon
<1> QED
  BY <1>2, <1>3, <1>4, <1>5

\* Appending to the empty sequence makes a sequence of one element.
LEMMA AppendEmpty ==
    ASSUME NEW S, NEW e \in S
    PROVE  /\ Append(<<>>, e) \in Seq(S)
           /\ Len(Append(<<>>, e)) = 1
           /\ Append(<<>>, e) # <<>>
           /\ Head(Append(<<>>, e)) = e
  OBVIOUS

\* Calls are pairs.
LEMMA CallPairs ==
    /\ \A t \in Threads, i \in 1..MaxCalls : <<t, i>> \in Calls
    /\ \A k \in Calls : /\ k[1] \in Threads
                        /\ k[2] \in 1..MaxCalls
                        /\ k = <<k[1], k[2]>>
  BY DEF Calls

\* A goroutine that has read a frame returns one of four outcomes.
LEMMA VerdictType ==
    ASSUME NEW kind \in {"handshake", "operation", "heartbeat"},
           NEW id \in Nat, NEW f \in Replies
    PROVE  Verdict(kind, id, f) \in {"ok", "refused", "mismatch", "failed"}
  BY DEF Verdict, HandshakeVerdict, OperationVerdict, HeartbeatVerdict

-----------------------------------------------------------------------------
(* Every step preserves the invariant                                      *)

\* The invariant holds before Connect.
LEMMA InitInv == Init => IInv
<1> SUFFICES ASSUME Init PROVE IInv
  OBVIOUS
<1> USE DEF Init
<1>1. TypeOK
  BY MaxCallsAssumption DEF TypeOK, PcValues, Outcomes
<1>2. MutexInv
  BY NoOneAssumption DEF MutexInv, InDo
<1>3. CallInv
  BY CallPairs DEF CallInv, CallOK, InCall, Outside, Unsent, Building, InDo, Cur
<1>4. PhaseInv
  BY DEF PhaseInv, InCall, Building, InDo, Threads
<1>5. ConnInv
  BY DEF ConnInv
<1>6. WireInv
  BY DEF WireInv, HasFrame, AfterWrite, InDo
<1>7. IdInv
  BY DEF IdInv, InCall, Building, InDo
<1>8. AnswersAreTrue /\ OperationsNeverMismatch
  BY DEF AnswersAreTrue, OperationsNeverMismatch
<1> QED
  BY <1>1, <1>2, <1>3, <1>4, <1>5, <1>6, <1>7, <1>8 DEF IInv

\* WireInv only depends on the wire and on the goroutines past their write.
LEMMA WireStable ==
    ASSUME TypeOK, WireInv, UNCHANGED wireVars, n' \in [Threads -> 0..MaxCalls],
           \A u \in Threads :
               /\ n[u] <= n'[u]
               /\ pc[u] \in AfterWrite <=> pc'[u] \in AfterWrite
               /\ n'[u] = n[u] => (pc'[u] \in Unsent => pc[u] \in Unsent)
               /\ pc[u] \in AfterWrite => n'[u] = n[u] /\ reqId'[u] = reqId[u]
    PROVE  WireInv'
<1>1. (Len(toServer) + Len(toClient) <= 1)'
  BY DEF WireInv, wireVars
<1>2. ASSUME toServer' # <<>>
      PROVE  RequestOK(Head(toServer))'
  <2> DEFINE f == Head(toServer)
  <2>1. f \in Frames /\ RequestOK(f)
    BY <1>2, HeadTailProperties DEF TypeOK, wireVars, WireInv
  <2>2. f.call \in Calls
    BY <2>1 DEF Frames
  <2>3. f.call[1] \in Threads /\ f.call[2] \in Nat
    BY <2>2, CallPairs, MaxCallsAssumption
  <2>4. n[f.call[1]] \in Nat /\ n'[f.call[1]] \in Nat
    BY <2>3, MaxCallsAssumption DEF TypeOK
  <2>5. f.call[2] <= n'[f.call[1]]
    <3> HIDE DEF f
    <3> QED BY <2>1, <2>3, <2>4 DEF RequestOK
  <2>6. served[f.call] = "none"
    BY <2>1 DEF RequestOK
  <2>8. ASSUME NEW u \in Threads, f.call = <<u, n'[u]>>, pc'[u] \in Unsent
        PROVE  FALSE
    <3>1. f.call[1] = u /\ f.call[2] = n'[u]
      BY <2>8
    <3>2. n[u] \in Nat /\ n'[u] \in Nat /\ n[u] <= n'[u] /\ n'[u] <= n[u]
      BY <2>1, <2>8, <3>1, MaxCallsAssumption DEF TypeOK, RequestOK
    <3>3. n'[u] = n[u]
      BY <3>2
    <3> QED
      BY <2>1, <2>8, <3>3 DEF RequestOK, Cur
  <2>7. link = "up" => \E t \in Threads : OwnedBy(f, t)'
    BY <2>1 DEF RequestOK, OwnedBy, Cur, AfterWrite, InDo, wireVars
  <2> QED
    BY <2>5, <2>6, <2>7, <2>8 DEF wireVars, RequestOK, Cur, Unsent, Building
<1>3. ASSUME toClient' # <<>>, link' # "closed"
      PROVE  ReplyOK(Head(toClient))'
  BY <1>3 DEF WireInv, ReplyOK, OwnedBy, wireVars, Cur, AfterWrite, InDo, FlagError
<1>4. ASSUME NEW t \in Threads, pc'[t] \in AfterWrite, link' = "up"
      PROVE  HasFrame(t)'
  BY <1>4 DEF WireInv, HasFrame, wireVars, Cur
<1> QED
  BY <1>1, <1>2, <1>3, <1>4 DEF WireInv, AfterWrite, InDo

\* Starting an operation or a heartbeat preserves the invariant.
LEMMA BeginInv ==
    ASSUME IInv, NEW t \in Callers, NEW kind \in Ops, Begin(t, kind)
    PROVE  IInv'
<1> DEFINE k == <<t, n[t] + 1>>
<1>0. /\ t \in Threads /\ t # Opener /\ k \in Calls /\ n[t] \in Nat
      /\ kind \in {"operation", "heartbeat"}
  <2>1. t \in Threads /\ t # Opener
    BY CallersAssumption DEF Threads
  <2>2. n[t] \in 0..MaxCalls /\ n[t] < MaxCalls
    BY <2>1 DEF IInv, TypeOK, Begin
  <2>3. n[t] \in Nat /\ n[t] + 1 \in 1..MaxCalls
    BY <2>2, MaxCallsAssumption
  <2>4. k \in Calls
    BY <2>1, <2>3, CallPairs
  <2>5. kind \in {"operation", "heartbeat"}
    BY OpsAssumption
  <2> QED
    BY <2>1, <2>3, <2>4, <2>5
<1>1. TypeOK'
  <2>1. pc' \in [Threads -> PcValues]
    <3>1. {"expect", "lock"} \subseteq PcValues
      BY DEF PcValues, Building
    <3> QED
      BY <3>1 DEF IInv, TypeOK, Begin
  <2>2. n' \in [Threads -> 0..MaxCalls]
    <3>1. n[t] + 1 \in 0..MaxCalls
      BY <1>0, MaxCallsAssumption DEF Begin
    <3> QED
      BY <3>1 DEF IInv, TypeOK, Begin
  <2>3. op' \in [Calls -> {"none", "handshake", "operation", "heartbeat"}]
    BY <1>0 DEF IInv, TypeOK, Begin
  <2>4. reqId' \in [Threads -> Nat] /\ resId' \in [Threads -> Nat]
    BY DEF IInv, TypeOK, Begin
  <2> QED
    BY <2>1, <2>2, <2>3, <2>4 DEF IInv, TypeOK, Begin, wireVars
<1> USE MaxCallsAssumption DEF IInv, Begin
<1>2. MutexInv'
  BY <1>0 DEF TypeOK, MutexInv, InDo
<1>3. CallInv'
  <2>1. CallOK(t)'
    <3>1. outcome[k] = "none" /\ served[k] = "none"
      BY <1>0 DEF CallInv, CallOK
    <3>2. n'[t] = n[t] + 1 /\ Cur(t)' = k
      BY <1>0 DEF Cur, TypeOK
    <3>3. op'[k] # "none"
      BY <1>0 DEF TypeOK
    <3>4. pc'[t] \in InCall
      BY <1>0 DEF TypeOK, InCall, Building
    <3>5. ASSUME NEW i \in 1..MaxCalls, i > n'[t]
          PROVE  outcome[<<t, i>>] = "none" /\ served[<<t, i>>] = "none"
      <4>1. i > n[t]
        BY <1>0, <3>2, <3>5
      <4> QED
        BY <1>0, <4>1 DEF CallInv, CallOK
    <3> QED
      BY <1>0, <3>1, <3>2, <3>3, <3>4, <3>5 DEF CallOK, wireVars, InCall, Outside, Unsent, Building, InDo
  <2>2. ASSUME NEW u \in Threads \ {t} PROVE CallOK(u)'
    <3>1. pc'[u] = pc[u] /\ n'[u] = n[u] /\ Cur(u)' = Cur(u)
      BY <1>0, <2>2 DEF TypeOK, Cur
    <3>2. op'[Cur(u)] = op[Cur(u)]
      <4>1. Cur(u) # k
        BY <2>2 DEF Cur
      <4> QED
        BY <1>0, <4>1 DEF TypeOK
    <3>3. CallOK(u)
      BY <2>2 DEF CallInv
    <3> QED
      BY <3>1, <3>2, <3>3 DEF CallOK, wireVars
  <2> QED
    BY <2>1, <2>2 DEF CallInv
<1>4. PhaseInv'
  BY <1>0 DEF TypeOK, PhaseInv, InCall, Building, InDo, wireVars
<1>5. ConnInv'
  BY <1>0 DEF TypeOK, ConnInv, wireVars
<1>6. WireInv'
  <2>1. /\ n[t] <= n'[t] /\ n'[t] # n[t]
        /\ pc[t] \notin AfterWrite /\ pc'[t] \notin AfterWrite
    BY <1>0 DEF TypeOK, AfterWrite, InDo
  <2>2. \A u \in Threads \ {t} : n[u] <= n'[u] /\ n'[u] = n[u] /\ pc'[u] = pc[u] /\ reqId'[u] = reqId[u]
    BY <1>0 DEF TypeOK
  <2>3. n' \in [Threads -> 0..MaxCalls] /\ UNCHANGED wireVars
    BY <1>1 DEF TypeOK
  <2> QED
    BY <2>1, <2>2, <2>3, WireStable
<1>7. IdInv'
  <2>1. /\ reqId'[t] = RequestId /\ resId'[t] = RequestId
        /\ pc'[t] = "expect" => kind = "heartbeat"
    BY <1>0 DEF TypeOK
  <2>2. op'[Cur(t)'] = kind
    BY <1>0 DEF TypeOK, Cur
  <2>3. ASSUME NEW u \in Threads \ {t}
        PROVE  /\ pc'[u] = pc[u] /\ reqId'[u] = reqId[u] /\ resId'[u] = resId[u]
               /\ Cur(u)' = Cur(u) /\ op'[Cur(u)] = op[Cur(u)]
    <3>1. Cur(u) # k
      BY <2>3 DEF Cur
    <3> QED
      BY <1>0, <2>3, <3>1 DEF TypeOK, Cur
  <2> QED
    BY <2>1, <2>2, <2>3 DEF IdInv
<1>8. AnswersAreTrue'
  BY DEF AnswersAreTrue, wireVars
<1>9. OperationsNeverMismatch'
  <2>1. outcome[k] = "none"
    BY <1>0 DEF CallInv, CallOK
  <2> QED
    BY <1>0, <2>1 DEF TypeOK, OperationsNeverMismatch
<1> QED
  BY <1>1, <1>2, <1>3, <1>4, <1>5, <1>6, <1>7, <1>8, <1>9

\* A goroutine moves on inside the same part of its call, or outside of any,
\* and touches nothing but its own locals and RequestId.
LEMMA LocalInv ==
    ASSUME IInv, TypeOK', IdInv', NEW t \in Threads, NEW to \in PcValues,
           pc' = [pc EXCEPT ![t] = to], phase # "none",
           UNCHANGED <<phase, conn, mutex, n, op, reqId, outcome, wireVars>>,
           pc[t] \in AfterWrite <=> to \in AfterWrite,
           pc[t] \in Unsent <=> to \in Unsent,
           pc[t] = "write" <=> to = "write",
           pc[t] \in Outside <=> to \in Outside,
           to \notin {"closeNil", "dead"}
    PROVE  IInv'
<1> USE DEF IInv
<1>0. pc \in [Threads -> PcValues]
  BY DEF TypeOK
<1>1. MutexInv'
  BY <1>0 DEF MutexInv, InDo, AfterWrite
<1>2. CallInv'
  BY <1>0 DEF CallInv, CallOK, InCall, Unsent, AfterWrite, Building, InDo, Cur, wireVars
<1>3. PhaseInv'
  BY <1>0 DEF PhaseInv, InCall, Unsent, AfterWrite, Building, InDo, wireVars, Threads
<1>4. ConnInv'
  BY <1>0 DEF ConnInv, wireVars
<1>5. WireInv'
  <2>1. \A u \in Threads : n[u] <= n'[u]
    BY MaxCallsAssumption DEF TypeOK
  <2> QED
    BY <1>0, <2>1, WireStable DEF TypeOK
<1>6. AnswersAreTrue' /\ OperationsNeverMismatch'
  BY DEF AnswersAreTrue, OperationsNeverMismatch, wireVars
<1> QED
  BY <1>1, <1>2, <1>3, <1>4, <1>5, <1>6

\* A heartbeat's second read of RequestId preserves the invariant.
LEMMA ExpectInv ==
    ASSUME IInv, NEW t \in Callers, Expect(t)
    PROVE  IInv'
<1> USE DEF IInv, Expect
<1>0. t \in Threads /\ phase # "none"
  BY DEF Threads, PhaseInv
<1>1. TypeOK'
  BY <1>0 DEF TypeOK, PcValues, Building, wireVars
<1>2. IdInv'
  BY <1>0 DEF TypeOK, IdInv, InCall, Building, InDo, Cur
<1> QED
  BY <1>0, <1>1, <1>2, LocalInv DEF PcValues, Outside, Unsent, AfterWrite, Building, InDo

\* The load of an increment, in Do or in SendHeartbeat, preserves it.
LEMMA LoadInv ==
    ASSUME IInv, NEW t \in Threads,
           Load(t, "load", "store") \/ Load(t, "bumpLoad", "bumpStore")
    PROVE  IInv'
<1> USE DEF IInv, Load
<1>0. phase # "none"
  BY DEF PhaseInv
<1>1. TypeOK'
  BY DEF TypeOK, PcValues, Building, InDo, wireVars
<1>2. IdInv'
  BY DEF TypeOK, IdInv, InCall, Building, InDo, Cur
<1> QED
  BY <1>0, <1>1, <1>2, LocalInv DEF PcValues, Outside, Unsent, AfterWrite, Building, InDo

\* So does its store, whatever has been stored since the load.
LEMMA StoreInv ==
    ASSUME IInv, NEW t \in Threads,
           Store(t, "store", "bind") \/ Store(t, "bumpStore", "lock")
    PROVE  IInv'
<1> USE DEF IInv, Store
<1>0. phase # "none"
  BY DEF PhaseInv
<1>1. TypeOK'
  <2>1. RequestId' = tmp[t] + 1 /\ tmp[t] \in Nat
    BY DEF TypeOK
  <2>2. RequestId' \in Nat
    BY <2>1
  <2>3. pc' \in [Threads -> PcValues]
    <3>1. {"bind", "lock"} \subseteq PcValues
      BY DEF PcValues, Building, InDo
    <3> QED
      BY <3>1 DEF TypeOK
  <2> QED
    BY <2>2, <2>3 DEF TypeOK, wireVars, callerVars
<1>2. IdInv'
  BY DEF TypeOK, IdInv, InCall, Building, InDo, Cur, callerVars
<1> QED
  BY <1>0, <1>1, <1>2, LocalInv
     DEF PcValues, Outside, Unsent, AfterWrite, Building, InDo, callerVars

\* Making the buffered reader preserves the invariant.
LEMMA BindReaderInv ==
    ASSUME IInv, NEW t \in Threads, BindReader(t)
    PROVE  IInv'
<1> USE DEF IInv, BindReader
<1>0. phase # "none"
  BY DEF PhaseInv
<1>1. TypeOK'
  BY DEF TypeOK, PcValues, InDo, wireVars, callerVars
<1>2. IdInv'
  BY DEF TypeOK, IdInv, InCall, Building, InDo, Cur, callerVars
<1> QED
  BY <1>0, <1>1, <1>2, LocalInv
     DEF PcValues, Outside, Unsent, AfterWrite, Building, InDo, callerVars

\* Entering Close preserves the invariant.
LEMMA CloseBeginInv ==
    ASSUME IInv, NEW t \in Callers, CloseBegin(t)
    PROVE  IInv'
<1> USE DEF IInv, CloseBegin
<1>0. t \in Threads
  BY DEF Threads
<1>1. TypeOK'
  BY <1>0 DEF TypeOK, PcValues, wireVars, callerVars
<1>2. IdInv'
  BY <1>0 DEF TypeOK, IdInv, InCall, Building, InDo, Cur, callerVars
<1> QED
  BY <1>0, <1>1, <1>2, LocalInv
     DEF PcValues, Outside, Unsent, AfterWrite, Building, InDo, callerVars

\* Locking the mutex preserves the invariant.
LEMMA AcquireInv ==
    ASSUME IInv, NEW t \in Threads, Acquire(t)
    PROVE  IInv'
<1> USE DEF IInv, Acquire
<1>0. phase # "none"
  BY DEF PhaseInv
<1>1. TypeOK'
  BY DEF TypeOK, PcValues, InDo, wireVars, callerVars
<1>2. MutexInv'
  BY NoOneAssumption DEF TypeOK, MutexInv, InDo
<1>3. CallInv'
  BY DEF TypeOK, CallInv, CallOK, InCall, Outside, Unsent, Building, InDo, Cur, wireVars, callerVars
<1>4. PhaseInv'
  BY <1>0 DEF TypeOK, PhaseInv, InCall, Building, InDo, wireVars, callerVars
<1>5. ConnInv'
  BY DEF TypeOK, ConnInv, wireVars
<1>6. WireInv'
  <2>1. \A u \in Threads : n[u] <= n'[u]
    BY MaxCallsAssumption DEF TypeOK, callerVars
  <2> QED
    BY <2>1, WireStable DEF TypeOK, AfterWrite, Unsent, Building, InDo, callerVars
<1>7. IdInv'
  BY DEF TypeOK, IdInv, InCall, Building, InDo, Cur, callerVars
<1>8. AnswersAreTrue' /\ OperationsNeverMismatch'
  BY DEF AnswersAreTrue, OperationsNeverMismatch, wireVars, callerVars
<1> QED
  BY <1>1, <1>2, <1>3, <1>4, <1>5, <1>6, <1>7, <1>8

\* The goroutine that holds the mutex is the only one in Do.
LEMMA OnlyOneInDo ==
    ASSUME MutexInv, NEW t \in Threads, NEW u \in Threads, pc[t] \in InDo, pc[u] \in InDo
    PROVE  t = u
  BY DEF MutexInv

\* Whoever is about to write finds the wire empty, unless the connection is
\* gone; then there is at least nothing left to read.
LEMMA WireFreeAtWrite ==
    ASSUME IInv, NEW t \in Threads, pc[t] = "write"
    PROVE  /\ link = "up" => toServer = <<>>
           /\ link # "closed" => toClient = <<>>
<1>1. \A u \in Threads : pc[u] \notin AfterWrite
  BY OnlyOneInDo DEF IInv, AfterWrite, InDo
<1> QED
  BY <1>1 DEF IInv, WireInv, RequestOK, ReplyOK, OwnedBy

\* Writing a request to an empty wire preserves the invariant.
LEMMA WriteInv ==
    ASSUME IInv, NEW t \in Threads, Write(t)
    PROVE  IInv'
<1> USE DEF IInv, Write
<1>f. PICK f : f = Request(t)
  OBVIOUS
<1>0. phase # "none" /\ n[t] \in 1..MaxCalls /\ Cur(t) \in Calls
  BY CallPairs, MaxCallsAssumption DEF TypeOK, PhaseInv, CallInv, CallOK, InCall, InDo, Cur
<1>1. f \in Frames /\ f.call = Cur(t) /\ f.id = reqId[t]
  BY <1>0, <1>f DEF TypeOK, Request, Frames
<1>2. toServer = <<>> /\ toClient = <<>>
  BY WireFreeAtWrite
<1>3. /\ toServer' \in Seq(Frames)
      /\ toServer' # <<>>
      /\ Len(toServer') = 1
      /\ Head(toServer') = f
  <2>1. toServer' = Append(<<>>, f)
    BY <1>2, <1>f
  <2> QED
    BY <1>1, <2>1, AppendEmpty
<1>4. TypeOK'
  BY <1>3 DEF TypeOK, PcValues, InDo, callerVars
<1>5. MutexInv'
  BY DEF TypeOK, MutexInv, InDo
<1>6. CallInv'
  BY DEF TypeOK, CallInv, CallOK, InCall, Outside, Unsent, Building, InDo, Cur, callerVars
<1>7. PhaseInv'
  BY <1>0 DEF TypeOK, PhaseInv, InCall, Building, InDo, callerVars
<1>8. ConnInv'
  BY DEF TypeOK, ConnInv
<1>9. WireInv'
  <2>1. (Len(toServer) + Len(toClient) <= 1)'
    BY <1>2, <1>3, EmptySeq
  <2>2. RequestOK(Head(toServer))'
    <3>1. f.call[1] = t /\ f.call[2] = n[t]
      BY <1>1 DEF Cur
    <3>2. served[f.call] = "none"
      BY <1>1 DEF CallInv, CallOK, Unsent
    <3>3. OwnedBy(f, t)'
      BY <1>1 DEF OwnedBy, TypeOK, AfterWrite, InDo, Cur, callerVars
    <3>4. ASSUME NEW u \in Threads, f.call = Cur(u)'
          PROVE  (pc[u] \notin Unsent)'
      BY <1>1, <3>4 DEF Cur, callerVars, TypeOK, Unsent, Building
    <3>5. f.call[2] <= n'[f.call[1]]
      BY <1>0, <3>1 DEF callerVars
    <3> QED
      BY <1>3, <3>2, <3>3, <3>4, <3>5 DEF RequestOK
  <2>3. ASSUME NEW u \in Threads, pc'[u] \in AfterWrite
        PROVE  HasFrame(u)'
    <3>1. u = t
      BY <1>5, <2>3, OnlyOneInDo DEF MutexInv, AfterWrite, TypeOK, InDo
    <3> QED
      BY <1>1, <1>3, <3>1 DEF HasFrame, Cur, callerVars
  <2> QED
    BY <1>2, <1>3, <2>1, <2>2, <2>3 DEF WireInv, AfterWrite, InDo
<1>10. IdInv'
  BY DEF TypeOK, IdInv, InCall, Building, InDo, Cur, callerVars
<1>11. AnswersAreTrue' /\ OperationsNeverMismatch'
  BY DEF AnswersAreTrue, OperationsNeverMismatch, callerVars
<1> QED
  BY <1>4, <1>5, <1>6, <1>7, <1>8, <1>9, <1>10, <1>11

\* A write that the lost connection swallows preserves the invariant.
LEMMA WriteLostInv ==
    ASSUME IInv, NEW t \in Threads, WriteLost(t)
    PROVE  IInv'
<1> USE DEF IInv, WriteLost
<1>0. phase # "none"
  BY DEF PhaseInv
<1>1. TypeOK'
  BY DEF TypeOK, PcValues, InDo, wireVars, callerVars
<1>2. MutexInv'
  BY DEF TypeOK, MutexInv, InDo
<1>3. CallInv'
  BY DEF TypeOK, CallInv, CallOK, InCall, Outside, Unsent, Building, InDo, Cur, wireVars, callerVars
<1>4. PhaseInv'
  BY <1>0 DEF TypeOK, PhaseInv, InCall, Building, InDo, wireVars, callerVars
<1>5. ConnInv'
  BY DEF TypeOK, ConnInv, wireVars
<1>6. WireInv'
  <2>1. toClient = <<>>
    BY WireFreeAtWrite
  <2>2. ASSUME toServer # <<>>
        PROVE  RequestOK(Head(toServer))'
    BY <2>2 DEF WireInv, RequestOK, Cur, Unsent, Building, TypeOK, wireVars, callerVars
  <2> QED
    BY <2>1, <2>2 DEF WireInv, wireVars
<1>7. IdInv'
  BY DEF TypeOK, IdInv, InCall, Building, InDo, Cur, callerVars
<1>8. AnswersAreTrue' /\ OperationsNeverMismatch'
  BY DEF AnswersAreTrue, OperationsNeverMismatch, wireVars, callerVars
<1> QED
  BY <1>1, <1>2, <1>3, <1>4, <1>5, <1>6, <1>7, <1>8

\* Do comes to its end with a verdict that is true of what the server did.
LEMMA FinishInv ==
    ASSUME IInv, NEW t \in Threads, NEW v \in Outcomes, pc[t] \in InDo, Finish(t, v),
           v = "ok" => served[Cur(t)] = "done",
           v = "refused" => served[Cur(t)] = "refused",
           v = "mismatch" => op[Cur(t)] = "heartbeat",
           v = "panic" => conn = "nil",
           toClient' = toClient \/ toClient' = <<>>,
           link # "closed" => toClient' = <<>>,
           link = "up" => toServer = <<>>
    PROVE  IInv'
<1> USE DEF IInv, Finish
<1>0. phase # "none" /\ n[t] \in 1..MaxCalls /\ Cur(t) \in Calls /\ pc[t] # "idle"
  BY CallPairs, MaxCallsAssumption DEF TypeOK, PhaseInv, CallInv, CallOK, InCall, InDo, Cur
<1>1. TypeOK'
  <2>1. toClient' \in Seq(Replies)
    BY EmptySeq DEF TypeOK
  <2>2. outcome' \in [Calls -> Outcomes \cup {"none"}]
    BY <1>0 DEF TypeOK
  <2>3. pc' \in [Threads -> PcValues]
    BY DEF TypeOK, PcValues
  <2>4. RequestId' \in Nat /\ reqId' \in [Threads -> Nat] /\ resId' \in [Threads -> Nat]
        /\ tmp' \in [Threads -> Nat]
    BY DEF TypeOK
  <2> QED
    BY <2>1, <2>2, <2>3, <2>4 DEF TypeOK
<1>2. MutexInv'
  <2>1. \A u \in Threads \ {t} : pc[u] \notin InDo
    BY OnlyOneInDo
  <2> QED
    BY <2>1, NoOneAssumption DEF TypeOK, MutexInv, InDo
<1>3. CallInv'
  <2>1. CallOK(t)'
    BY <1>0 DEF TypeOK, CallInv, CallOK, InCall, Outside, Unsent, Building, InDo, Cur, Outcomes
  <2>2. ASSUME NEW u \in Threads \ {t} PROVE CallOK(u)'
    <3>1. \A i \in 1..MaxCalls : outcome'[<<u, i>>] = outcome[<<u, i>>]
      BY <1>0, CallPairs DEF TypeOK, Cur
    <3>2. pc'[u] = pc[u] /\ n'[u] = n[u] /\ n[u] \in 0..MaxCalls
      BY DEF TypeOK
    <3>3. n[u] > 0 => n[u] \in 1..MaxCalls
      BY <3>2, MaxCallsAssumption
    <3> QED
      BY <3>1, <3>2, <3>3 DEF CallInv, CallOK, Cur
  <2> QED
    BY <2>1, <2>2 DEF CallInv
<1>4. PhaseInv'
  <2>1. CASE t = Opener
    <3>1. n[Opener] = 1
      BY <2>1 DEF PhaseInv, InCall
    <3> QED
      BY <1>0, <2>1, <3>1 DEF TypeOK, PhaseInv, InCall, Building, InDo, Cur
  <2>2. CASE t # Opener
    <3>1. outcome'[<<Opener, 1>>] = outcome[<<Opener, 1>>]
      BY <1>0, <2>2 DEF TypeOK, Cur
    <3>2. pc'[Opener] = pc[Opener] /\ Opener \in Threads
      BY <2>2 DEF TypeOK, Threads
    <3> QED
      BY <1>0, <2>2, <3>1, <3>2 DEF PhaseInv
  <2> QED
    BY <2>1, <2>2
<1>5. ConnInv'
  BY DEF TypeOK, ConnInv
<1>6. WireInv'
  <2>1. (Len(toServer) + Len(toClient) <= 1)'
    BY EmptySeq, LenProperties DEF WireInv, TypeOK
  <2>2. link' # "closed" => toClient' = <<>>
    OBVIOUS
  <2>3. link' = "up" => toServer' = <<>>
    OBVIOUS
  <2>4. ASSUME NEW u \in Threads PROVE (pc[u] \notin AfterWrite)'
    BY <1>2, NoOneAssumption DEF MutexInv, AfterWrite, InDo
  <2>5. ASSUME toServer' # <<>> PROVE RequestOK(Head(toServer))'
    <3>1. RequestOK(Head(toServer))
      BY <2>5 DEF WireInv
    <3>2. \A u \in Threads : pc'[u] \in Unsent => pc[u] \in Unsent
      BY DEF TypeOK, Unsent, Building
    <3> QED
      BY <2>3, <2>5, <3>1, <3>2 DEF RequestOK, Cur, Unsent, Building
  <2> QED
    BY <2>1, <2>2, <2>4, <2>5 DEF WireInv
<1>7. IdInv'
  BY DEF TypeOK, IdInv, InCall, Building, InDo, Cur
<1>8. AnswersAreTrue' /\ OperationsNeverMismatch'
  BY <1>0 DEF TypeOK, AnswersAreTrue, OperationsNeverMismatch
<1> QED
  BY <1>1, <1>2, <1>3, <1>4, <1>5, <1>6, <1>7, <1>8

\* A failed write ends the call and preserves the invariant.
LEMMA WriteFailsInv ==
    ASSUME IInv, NEW t \in Threads, WriteFails(t)
    PROVE  IInv'
<1>1. link # "closed" => toClient' = <<>>
  BY WireFreeAtWrite DEF WriteFails
<1> QED
  BY <1>1, FinishInv DEF WriteFails, Outcomes, InDo

\* A panic on a nil connection unlocks and preserves the invariant.
LEMMA UseOfNilInv ==
    ASSUME IInv, NEW t \in Threads, UseOfNil(t)
    PROVE  IInv'
<1>1. link = "closed"
  BY DEF UseOfNil, IInv, ConnInv
<1> QED
  BY <1>1, FinishInv DEF UseOfNil, Outcomes, InDo

\* A frame that can be read is the answer to the reader's own request.
LEMMA OwnReply ==
    ASSUME IInv, NEW t \in Threads, pc[t] = "read", link # "closed", toClient # <<>>
    PROVE  /\ ReplyOK(Head(toClient))
           /\ OwnedBy(Head(toClient), t)
           /\ Head(toClient) \in Replies
           /\ toServer = <<>>
           /\ \A k \in 1..Len(toClient) : SubSeq(toClient, k + 1, Len(toClient)) = <<>>
<1>1. ReplyOK(Head(toClient))
  BY DEF IInv, WireInv
<1>2. PICK u \in Threads : OwnedBy(Head(toClient), u)
  BY <1>1 DEF ReplyOK
<1>3. u = t
  BY <1>2, OnlyOneInDo DEF IInv, OwnedBy, AfterWrite, InDo
<1>4. /\ Len(toServer) \in Nat /\ Len(toClient) \in Nat /\ Len(toClient) # 0
      /\ toServer # <<>> => Len(toServer) # 0
  BY EmptySeq, LenProperties DEF IInv, TypeOK
<1>5. toServer = <<>> /\ Len(toClient) <= 1
  BY <1>4 DEF IInv, WireInv
<1>6. toClient \in Seq(Replies)
  BY DEF IInv, TypeOK
<1> QED
  BY <1>1, <1>2, <1>3, <1>5, <1>6, ShortSeq

\* Reading the answer ends the call and preserves the invariant.
LEMMA ReadInv ==
    ASSUME IInv, NEW t \in Threads, Read(t)
    PROVE  IInv'
<1> DEFINE r == Head(toClient)
           v == Verdict(op[Cur(t)], resId[t], r)
<1>0. /\ pc[t] = "read" /\ link # "closed" /\ toClient # <<>>
      /\ Finish(t, v)
      /\ \E k \in 1..Len(toClient) : toClient' = SubSeq(toClient, k + 1, Len(toClient))
  BY DEF Read
<1>1. ReplyOK(r) /\ OwnedBy(r, t) /\ r \in Replies /\ toServer = <<>> /\ toClient' = <<>>
  BY <1>0, OwnReply
<1>2. op[Cur(t)] \in {"handshake", "operation", "heartbeat"} /\ resId[t] \in Nat
  <2>1. Cur(t) \in Calls /\ op[Cur(t)] # "none"
    BY <1>0, CallPairs, MaxCallsAssumption
       DEF IInv, TypeOK, CallInv, CallOK, InCall, InDo, Cur
  <2> QED
    BY <2>1 DEF IInv, TypeOK
<1>3. v \in {"ok", "refused", "mismatch", "failed"}
  BY <1>1, <1>2, VerdictType
<1>4. served[Cur(t)] = IF r.flags = FlagError THEN "refused" ELSE "done"
  BY <1>1 DEF ReplyOK, OwnedBy
<1>5. v = "ok" => served[Cur(t)] = "done"
  BY <1>2, <1>4 DEF Verdict, HandshakeVerdict, OperationVerdict, HeartbeatVerdict, FlagError
<1>6. v = "refused" => served[Cur(t)] = "refused"
  BY <1>2, <1>4 DEF Verdict, HandshakeVerdict, OperationVerdict, HeartbeatVerdict
<1>7. v = "mismatch" => op[Cur(t)] = "heartbeat"
  <2>1. op[Cur(t)] = "operation" => r.id = resId[t]
    BY <1>0, <1>1 DEF IInv, IdInv, OwnedBy, InCall, InDo
  <2> QED
    BY <1>2, <2>1 DEF Verdict, HandshakeVerdict, OperationVerdict, HeartbeatVerdict
<1> HIDE DEF v, r
<1> QED
  BY <1>0, <1>1, <1>3, <1>5, <1>6, <1>7, FinishInv DEF Outcomes, InDo

\* A failed read ends the call and preserves the invariant.
LEMMA ReadFailsInv ==
    ASSUME IInv, NEW t \in Threads, ReadFails(t)
    PROVE  IInv'
  BY FinishInv DEF ReadFails, Outcomes, InDo

\* Closing the connection under a running call preserves the invariant.
LEMMA CloseConnInv ==
    ASSUME IInv, NEW t \in Callers, CloseConn(t)
    PROVE  IInv'
<1> USE DEF IInv, CloseConn
<1>0. t \in Threads /\ phase # "none" /\ (pc' = [pc EXCEPT ![t] = "closeNil"] \/ pc' = [pc EXCEPT ![t] = "dead"])
  BY DEF Threads, PhaseInv
<1>1. TypeOK'
  BY <1>0 DEF TypeOK, PcValues, callerVars
<1>2. MutexInv'
  BY <1>0 DEF TypeOK, MutexInv, InDo
<1>3. CallInv'
  <2>1. ASSUME NEW u \in Threads PROVE CallOK(u)'
    <3>1. CallOK(u) /\ CallOK(t)
      BY <1>0 DEF CallInv
    <3>2. u # t => pc'[u] = pc[u]
      BY <1>0 DEF TypeOK
    <3>3. pc[t] \in Outside /\ (pc'[t] \in Outside \/ pc'[t] = "dead")
      BY <1>0 DEF TypeOK, Outside
    <3>4. \A v : v \in Outside \/ v = "dead" => v \notin InCall /\ v \notin Unsent
      BY DEF InCall, Outside, Unsent, Building, InDo
    <3>5. pc'[u] \in InCall => pc[u] \in InCall
      BY <3>2, <3>3, <3>4
    <3>6. pc'[u] \in Outside => pc[u] \in Outside
      BY <3>2, <3>3
    <3>7. pc'[u] \in Unsent => pc[u] \in Unsent
      BY <3>2, <3>3, <3>4
    <3> QED
      BY <3>1, <3>5, <3>6, <3>7 DEF CallOK, Cur, callerVars
  <2> QED
    BY <2>1 DEF CallInv
<1>4. PhaseInv'
  <2>1. pc'[Opener] \in InCall => pc[Opener] \in InCall
    BY <1>0 DEF TypeOK, InCall, Building, InDo, Threads
  <2> QED
    BY <1>0, <2>1 DEF PhaseInv, callerVars, InCall, Building, InDo
<1>5. ConnInv'
  BY <1>0 DEF TypeOK, ConnInv
<1>6. WireInv'
  <2>1. link' = "closed"
    BY DEF ConnInv, TypeOK
  <2>2. ASSUME toServer # <<>> PROVE RequestOK(Head(toServer))'
    BY <1>0, <2>1, <2>2 DEF WireInv, RequestOK, Cur, Unsent, Building, TypeOK, callerVars
  <2> QED
    BY <2>1, <2>2 DEF WireInv
<1>7. IdInv'
  BY <1>0 DEF TypeOK, IdInv, InCall, Building, InDo, Cur, callerVars
<1>8. AnswersAreTrue' /\ OperationsNeverMismatch'
  BY DEF AnswersAreTrue, OperationsNeverMismatch, callerVars
<1> QED
  BY <1>1, <1>2, <1>3, <1>4, <1>5, <1>6, <1>7, <1>8

\* Setting c.conn to nil preserves the invariant.
LEMMA CloseNilInv ==
    ASSUME IInv, NEW t \in Callers, CloseNil(t)
    PROVE  IInv'
<1> USE DEF IInv, CloseNil
<1>0. t \in Threads /\ phase # "none"
  BY DEF Threads, PhaseInv
<1>1. TypeOK'
  BY <1>0 DEF TypeOK, PcValues, callerVars, wireVars
<1>2. MutexInv'
  BY <1>0 DEF TypeOK, MutexInv, InDo
<1>3. CallInv'
  BY <1>0 DEF TypeOK, CallInv, CallOK, InCall, Outside, Unsent, Building, InDo, Cur, callerVars, wireVars
<1>4. PhaseInv'
  BY <1>0 DEF TypeOK, PhaseInv, InCall, Building, InDo, callerVars, wireVars
<1>5. ConnInv'
  BY <1>0 DEF TypeOK, ConnInv, wireVars
<1>6. WireInv'
  <2>1. \A u \in Threads : n[u] <= n'[u]
    BY MaxCallsAssumption DEF TypeOK, callerVars
  <2> QED
    BY <1>0, <2>1, WireStable DEF TypeOK, AfterWrite, Unsent, Building, InDo, callerVars
<1>7. IdInv'
  BY <1>0 DEF TypeOK, IdInv, InCall, Building, InDo, Cur, callerVars
<1>8. AnswersAreTrue' /\ OperationsNeverMismatch'
  BY DEF AnswersAreTrue, OperationsNeverMismatch, callerVars, wireVars
<1> QED
  BY <1>1, <1>2, <1>3, <1>4, <1>5, <1>6, <1>7, <1>8

\* A successful dial preserves the invariant.
LEMMA DialInv ==
    ASSUME IInv, Dial
    PROVE  IInv'
<1> USE DEF IInv, Dial
<1>0. /\ Opener \in Threads /\ <<Opener, 1>> \in Calls /\ 1 \in 1..MaxCalls
      /\ \A t \in Threads : pc[t] = "idle" /\ n[t] = 0
      /\ toServer = <<>> /\ toClient = <<>>
  BY CallPairs, MaxCallsAssumption DEF Threads, PhaseInv
<1>1. TypeOK'
  BY <1>0 DEF TypeOK, PcValues, Building
<1>2. MutexInv'
  BY <1>0 DEF TypeOK, MutexInv, InDo
<1>3. CallInv'
  <2>1. \A t \in Threads, i \in 1..MaxCalls : outcome[<<t, i>>] = "none" /\ served[<<t, i>>] = "none"
    <3> SUFFICES ASSUME NEW t \in Threads, NEW i \in 1..MaxCalls
                 PROVE  outcome[<<t, i>>] = "none" /\ served[<<t, i>>] = "none"
      OBVIOUS
    <3>1. i > n[t]
      BY <1>0, MaxCallsAssumption
    <3> QED
      BY <3>1 DEF CallInv, CallOK
  <2>2. CallOK(Opener)'
    BY <1>0, <2>1 DEF TypeOK, CallOK, InCall, Outside, Unsent, Building, InDo, Cur
  <2>3. ASSUME NEW u \in Threads \ {Opener} PROVE CallOK(u)'
    BY <1>0, <2>1 DEF TypeOK, CallOK, InCall, Outside, Unsent, Building, InDo, Cur
  <2> QED
    BY <2>2, <2>3 DEF CallInv
<1>4. PhaseInv'
  BY <1>0 DEF TypeOK, PhaseInv
<1>5. ConnInv'
  BY <1>0 DEF TypeOK, ConnInv
<1>6. WireInv'
  BY <1>0 DEF TypeOK, WireInv, AfterWrite, InDo
<1>7. IdInv'
  <2>1. pc'[Opener] = "lock" /\ op'[Cur(Opener)'] = "handshake"
    BY <1>0 DEF TypeOK, Cur
  <2>2. \A u \in Threads \ {Opener} : pc'[u] = "idle"
    BY <1>0 DEF TypeOK
  <2>3. "idle" \notin InCall
    BY DEF InCall, Building, InDo
  <2> QED
    BY <2>1, <2>2, <2>3 DEF IdInv
<1>8. AnswersAreTrue' /\ OperationsNeverMismatch'
  <2>1. outcome[<<Opener, 1>>] = "none"
    BY <1>0 DEF CallInv, CallOK
  <2> QED
    BY <1>0, <2>1 DEF TypeOK, AnswersAreTrue, OperationsNeverMismatch
<1> QED
  BY <1>1, <1>2, <1>3, <1>4, <1>5, <1>6, <1>7, <1>8

\* A failed dial preserves the invariant.
LEMMA DialFailsInv ==
    ASSUME IInv, DialFails
    PROVE  IInv'
<1> USE DEF IInv, DialFails
<1>0. \A t \in Threads : pc[t] = "idle"
  BY DEF PhaseInv
<1>1. TypeOK'
  BY DEF TypeOK, callerVars, wireVars
<1>2. MutexInv' /\ CallInv' /\ ConnInv'
  BY DEF MutexInv, CallInv, CallOK, ConnInv, Cur, callerVars, wireVars
<1>3. PhaseInv'
  BY <1>0 DEF PhaseInv, InCall, Building, InDo, Threads
<1>4. WireInv'
  <2>1. \A u \in Threads : n[u] <= n'[u]
    BY MaxCallsAssumption DEF TypeOK, callerVars
  <2> QED
    BY <2>1, WireStable DEF TypeOK, callerVars
<1>5. IdInv' /\ AnswersAreTrue' /\ OperationsNeverMismatch'
  BY DEF IdInv, Cur, AnswersAreTrue, OperationsNeverMismatch, callerVars, wireVars
<1> QED
  BY <1>1, <1>2, <1>3, <1>4, <1>5

\* The wire when the server takes a request: it is the only frame.
LEMMA ServerTakes ==
    ASSUME IInv, toServer # <<>>
    PROVE  /\ RequestOK(Head(toServer))
           /\ Head(toServer) \in Frames
           /\ Head(toServer).call \in Calls
           /\ Tail(toServer) = <<>>
           /\ toClient = <<>>
<1>1. /\ Len(toServer) \in Nat /\ Len(toClient) \in Nat /\ Len(toServer) # 0
      /\ toClient # <<>> => Len(toClient) # 0
  BY EmptySeq, LenProperties DEF IInv, TypeOK
<1>2. toClient = <<>> /\ Len(toServer) <= 1
  BY <1>1 DEF IInv, WireInv
<1>3. Tail(toServer) = <<>> /\ Head(toServer) \in Frames
  BY <1>2, ShortSeq DEF IInv, TypeOK
<1> QED
  BY <1>2, <1>3 DEF IInv, WireInv, Frames

\* The server's answer preserves the invariant.
LEMMA ServerReplyInv ==
    ASSUME IInv, ServerReply
    PROVE  IInv'
<1> USE DEF IInv
<1>f. PICK f : f = Head(toServer)
  OBVIOUS
<1>0. PICK flags \in ServerFlags :
          /\ served' = [served EXCEPT ![f.call] = IF flags = FlagError THEN "refused" ELSE "done"]
          /\ toClient' = IF link = "up" THEN Append(toClient, Reply(f, flags)) ELSE toClient
  BY <1>f DEF ServerReply
<1>1. /\ RequestOK(f) /\ f \in Frames /\ f.call \in Calls
      /\ toServer' = <<>> /\ toClient = <<>> /\ toServer # <<>>
  BY <1>f, ServerTakes DEF ServerReply
<1>2. UNCHANGED <<phase, conn, RequestId, mutex, pc, n, op, reqId, resId, tmp, outcome, link>>
  BY DEF ServerReply, callerVars
<1>3. /\ Reply(f, flags) \in Replies
      /\ Reply(f, flags).call = f.call
      /\ Reply(f, flags).id = f.id
      /\ Reply(f, flags).flags = flags
  BY <1>1, FlagsAssumption DEF Reply, Replies, Frames
<1>r. PICK r : r = Reply(f, flags)
  OBVIOUS
<1>4. link = "up" => /\ toClient' \in Seq(Replies) /\ Len(toClient') = 1
                     /\ toClient' # <<>> /\ Head(toClient') = r
  BY <1>0, <1>1, <1>3, <1>r, AppendEmpty
<1>5. link # "up" => toClient' = <<>>
  BY <1>0, <1>1
<1>6. TypeOK'
  <2>1. toServer' \in Seq(Frames) /\ toClient' \in Seq(Replies)
    BY <1>1, <1>4, <1>5, EmptySeq
  <2>2. served' \in [Calls -> {"none", "done", "refused"}]
    BY <1>0 DEF TypeOK
  <2> QED
    BY <1>2, <2>1, <2>2 DEF TypeOK
<1>7. MutexInv' /\ ConnInv' /\ IdInv'
  BY <1>2 DEF MutexInv, ConnInv, IdInv, Cur
<1>8. CallInv'
  <2> SUFFICES ASSUME NEW u \in Threads PROVE CallOK(u)'
    BY DEF CallInv
  <2>1. CallOK(u)
    BY DEF CallInv
  <2>2. pc[u] \in Unsent => served'[Cur(u)] = "none"
    <3>1. pc[u] \in Unsent => f.call # Cur(u)
      BY <1>1 DEF RequestOK
    <3>2. pc[u] \in Unsent => Cur(u) \in Calls
      BY <2>1, CallPairs, MaxCallsAssumption DEF CallOK, TypeOK, InCall, Unsent, InDo, Cur
    <3> QED
      BY <1>0, <2>1, <3>1, <3>2 DEF CallOK, TypeOK
  <2>3. ASSUME NEW i \in 1..MaxCalls, i > n[u]
        PROVE  served'[<<u, i>>] = "none"
    <3>1. f.call # <<u, i>>
      <4> SUFFICES ASSUME f.call = <<u, i>> PROVE FALSE
        OBVIOUS
      <4>1. f.call[1] = u /\ f.call[2] = i
        OBVIOUS
      <4>2. i <= n[u] /\ n[u] \in Nat
        BY <1>1, <4>1, MaxCallsAssumption DEF RequestOK, TypeOK
      <4> QED
        BY <2>3, <4>2, MaxCallsAssumption
    <3> QED
      BY <1>0, <2>1, <2>3, <3>1, CallPairs DEF CallOK, TypeOK
  <2> QED
    BY <1>2, <2>1, <2>2, <2>3 DEF CallOK, Cur, InCall, Outside, Unsent, Building, InDo
<1>9. PhaseInv'
  BY <1>1, <1>2 DEF PhaseInv, InCall, Building, InDo
<1>10. WireInv'
  <2>1. (Len(toServer) + Len(toClient) <= 1)'
    <3>1. Len(toServer') = 0
      BY <1>1, EmptySeq
    <3>2. Len(toClient') \in Nat /\ Len(toClient') <= 1
      BY <1>4, <1>5, EmptySeq
    <3> QED
      BY <3>1, <3>2
  <2>2. ASSUME link = "up"
        PROVE  ReplyOK(Head(toClient))' /\ \A t \in Threads : pc[t] \in AfterWrite => HasFrame(t)'
    <3>1. PICK t \in Threads : OwnedBy(f, t)
      BY <1>1, <2>2 DEF RequestOK
    <3>2. OwnedBy(r, t)'
      BY <1>2, <1>3, <1>r, <3>1 DEF OwnedBy, Cur, AfterWrite, InDo
    <3>3. served'[r.call] = IF r.flags = FlagError THEN "refused" ELSE "done"
      BY <1>0, <1>1, <1>3, <1>r DEF TypeOK
    <3>4. ReplyOK(Head(toClient))'
      BY <1>4, <2>2, <3>2, <3>3 DEF ReplyOK, FlagError
    <3>5. ASSUME NEW u \in Threads, pc[u] \in AfterWrite PROVE HasFrame(u)'
      <4>1. u = t
        BY <3>1, <3>5, OnlyOneInDo DEF OwnedBy, AfterWrite
      <4> QED
        BY <1>2, <1>3, <1>4, <1>r, <2>2, <3>1, <4>1 DEF HasFrame, OwnedBy, Cur
    <3> QED
      BY <3>4, <3>5
  <2> QED
    BY <1>1, <1>2, <1>5, <2>1, <2>2 DEF WireInv, AfterWrite, InDo
<1>11. AnswersAreTrue' /\ OperationsNeverMismatch'
  <2>1. served[f.call] = "none"
    BY <1>1 DEF RequestOK
  <2> QED
    BY <1>0, <1>1, <1>2, <2>1 DEF TypeOK, AnswersAreTrue, OperationsNeverMismatch
<1> QED
  BY <1>6, <1>7, <1>8, <1>9, <1>10, <1>11

\* Dropping the connection over a bad frame preserves the invariant.
LEMMA ServerRejectsInv ==
    ASSUME IInv, ServerRejects
    PROVE  IInv'
<1> USE DEF IInv, ServerRejects
<1>1. toServer' = <<>> /\ toClient = <<>> /\ link' # "up" /\ (link = "closed" => link' = "closed")
      /\ link' \in {"down", "closed"} /\ phase # "none"
  BY ServerTakes DEF TypeOK, PhaseInv
<1>2. TypeOK'
  BY <1>1, EmptySeq DEF TypeOK, callerVars
<1>3. MutexInv' /\ ConnInv' /\ IdInv'
  BY <1>1 DEF MutexInv, ConnInv, IdInv, Cur, callerVars
<1>4. CallInv' /\ PhaseInv'
  BY <1>1 DEF CallInv, CallOK, PhaseInv, Cur, callerVars
<1>5. WireInv'
  BY <1>1, EmptySeq DEF WireInv
<1>6. AnswersAreTrue' /\ OperationsNeverMismatch'
  BY DEF AnswersAreTrue, OperationsNeverMismatch, callerVars
<1> QED
  BY <1>2, <1>3, <1>4, <1>5, <1>6

\* Losing the connection preserves the invariant.
LEMMA LinkDownInv ==
    ASSUME IInv, LinkDown
    PROVE  IInv'
<1> USE DEF IInv, LinkDown
<1>1. TypeOK'
  BY EmptySeq DEF TypeOK, callerVars
<1>2. MutexInv' /\ ConnInv' /\ IdInv'
  BY DEF MutexInv, ConnInv, IdInv, Cur, callerVars
<1>3. CallInv' /\ PhaseInv'
  BY DEF CallInv, CallOK, PhaseInv, Cur, callerVars
<1>4. WireInv'
  <2>1. (Len(toServer) + Len(toClient) <= 1)'
    BY EmptySeq, LenProperties DEF WireInv, TypeOK
  <2>2. toServer # <<>> => RequestOK(Head(toServer))'
    BY DEF WireInv, RequestOK, Cur, Unsent, callerVars
  <2>3. toClient' # <<>> => ReplyOK(Head(toClient))'
    BY DEF WireInv, ReplyOK, OwnedBy, Cur, callerVars, FlagError
  <2> QED
    BY <2>1, <2>2, <2>3 DEF WireInv
<1>5. AnswersAreTrue' /\ OperationsNeverMismatch'
  BY DEF AnswersAreTrue, OperationsNeverMismatch, callerVars
<1> QED
  BY <1>1, <1>2, <1>3, <1>4, <1>5

\* A stuttering step preserves the invariant.
LEMMA StutterInv ==
    ASSUME IInv, UNCHANGED vars
    PROVE  IInv'
<1> USE DEF IInv, vars, callerVars, wireVars
<1>1. TypeOK' /\ MutexInv' /\ ConnInv' /\ IdInv'
  BY DEF TypeOK, MutexInv, ConnInv, IdInv, Cur
<1>2. CallInv' /\ PhaseInv'
  BY DEF CallInv, CallOK, PhaseInv, Cur
<1>3. WireInv'
  BY DEF WireInv, RequestOK, ReplyOK, OwnedBy, HasFrame, Cur
<1>4. AnswersAreTrue' /\ OperationsNeverMismatch'
  BY DEF AnswersAreTrue, OperationsNeverMismatch
<1> QED
  BY <1>1, <1>2, <1>3, <1>4

-----------------------------------------------------------------------------
(* Theorems                                                                *)

\* Every step of the client, the server and the network preserves IInv.
LEMMA NextInv == IInv /\ [Next]_vars => IInv'
<1> SUFFICES ASSUME IInv, [Next]_vars PROVE IInv'
  OBVIOUS
<1>1. CASE Dial \/ DialFails
  BY <1>1, DialInv, DialFailsInv
<1>2. ASSUME NEW t \in Threads, Acquire(t) \/ DoStep(t) PROVE IInv'
  BY <1>2, AcquireInv, LoadInv, StoreInv, WriteInv, WriteLostInv, WriteFailsInv,
     UseOfNilInv, BindReaderInv, ReadInv, ReadFailsInv DEF DoStep
<1>3. ASSUME NEW t \in Callers, NEW kind \in Ops, Begin(t, kind) PROVE IInv'
  BY <1>3, BeginInv
<1>4. ASSUME NEW t \in Callers, HeartbeatStep(t) PROVE IInv'
  <2>1. t \in Threads
    BY DEF Threads
  <2> QED
    BY <1>4, <2>1, ExpectInv, LoadInv, StoreInv DEF HeartbeatStep
<1>5. ASSUME NEW t \in Callers, CloseBegin(t) \/ CloseStep(t) PROVE IInv'
  BY <1>5, CloseBeginInv, CloseConnInv, CloseNilInv DEF CloseStep
<1>6. CASE Server \/ LinkDown
  BY <1>6, ServerReplyInv, ServerRejectsInv, LinkDownInv DEF Server
<1>7. CASE Terminated \/ UNCHANGED vars
  BY <1>7, StutterInv DEF Terminated
<1> QED
  BY <1>1, <1>2, <1>3, <1>4, <1>5, <1>6, <1>7 DEF Next

\* The inductive invariant holds in every behaviour of the client.
THEOREM Invariance == Spec => []IInv
  BY InitInv, NextInv, PTL DEF Spec

\* The types of client.go's state are kept.
THEOREM ClientTypes == Spec => []TypeOK
  BY Invariance, PTL DEF IInv

\* The wire is lock-step, so the readers Do throws away (client.go:262) never
\* hold another frame.
THEOREM LockStep == Spec => []OneFrameInFlight
<1>1. IInv => OneFrameInFlight
  <2> SUFFICES ASSUME IInv PROVE OneFrameInFlight
    OBVIOUS
  <2>1. \A t \in Threads : pc[t] \in AfterWrite => mutex = t /\ mutex # NoOne
    BY NoOneAssumption DEF IInv, MutexInv, AfterWrite
  <2>2. /\ DOMAIN toServer = 1..Len(toServer) /\ Len(toServer) \in Nat
        /\ DOMAIN toClient = 1..Len(toClient) /\ Len(toClient) \in Nat
        /\ Len(<<>>) = 0
    BY LenProperties, EmptySeq DEF IInv, TypeOK
  <2>3. ASSUME link = "up", NEW i \in DOMAIN toServer
        PROVE  mutex # NoOne /\ toServer[i].call = Cur(mutex)
    <3>1. i = 1 /\ toServer # <<>>
      BY <2>2, <2>3 DEF IInv, WireInv
    <3>2. toServer[i] = Head(toServer)
      BY <3>1
    <3> QED
      BY <2>1, <2>3, <3>1, <3>2 DEF IInv, WireInv, RequestOK, OwnedBy
  <2>4. ASSUME link = "up", NEW i \in DOMAIN toClient
        PROVE  mutex # NoOne /\ toClient[i].call = Cur(mutex)
    <3>1. i = 1 /\ toClient # <<>>
      BY <2>2, <2>4 DEF IInv, WireInv
    <3>2. toClient[i] = Head(toClient)
      BY <3>1
    <3> QED
      BY <2>1, <2>4, <3>1, <3>2 DEF IInv, WireInv, ReplyOK, OwnedBy
  <2> QED
    BY <2>3, <2>4 DEF OneFrameInFlight, IInv, WireInv
<1> QED
  BY <1>1, Invariance, PTL

\* Nobody reads from a live connection on which no answer can come.
THEOREM NoHopelessReader == Spec => []ReaderIsServed
<1>1. IInv => ReaderIsServed
  <2> SUFFICES ASSUME IInv, NEW t \in Threads, pc[t] = "read", link = "up"
               PROVE  \/ \E i \in DOMAIN toServer : toServer[i].call = Cur(t)
                      \/ \E i \in DOMAIN toClient : toClient[i].call = Cur(t)
    BY DEF ReaderIsServed
  <2>1. HasFrame(t)
    BY DEF IInv, WireInv, AfterWrite, InDo
  <2>2. toServer # <<>> => 1 \in DOMAIN toServer /\ toServer[1] = Head(toServer)
    BY LenProperties, EmptySeq DEF IInv, TypeOK
  <2>3. toClient # <<>> => 1 \in DOMAIN toClient /\ toClient[1] = Head(toClient)
    BY LenProperties, EmptySeq DEF IInv, TypeOK
  <2> QED
    BY <2>1, <2>2, <2>3 DEF HasFrame
<1> QED
  BY <1>1, Invariance, PTL

\* What a call returns is what the server did, for any number of goroutines
\* and whatever ids they happen to share.
THEOREM TrueAnswers == Spec => []AnswersAreTrue
  BY Invariance, PTL DEF IInv

\* No interleaving makes an operation see a foreign request id.
THEOREM NoOperationMismatch == Spec => []OperationsNeverMismatch
  BY Invariance, PTL DEF IInv

\* Callers wait for Connect, and only Close gives a connection up: preserved by
\* every step.
LEMMA NextClose == IInv /\ CloseInv /\ [Next]_vars => CloseInv'
<1> SUFFICES ASSUME IInv, CloseInv, [Next]_vars PROVE CloseInv'
  OBVIOUS
<1>0. /\ pc \in [Threads -> PcValues] /\ Opener \in Threads /\ Callers \subseteq Threads
      /\ Opener \notin Callers /\ n[Opener] \in Nat /\ conn \in {"open", "nil"}
  BY CallersAssumption, MaxCallsAssumption DEF IInv, TypeOK, Threads
<1> USE DEF CloseInv
<1>1. CASE Dial
  BY <1>0, <1>1 DEF Dial
<1>2. CASE DialFails
  BY <1>0, <1>2 DEF DialFails, IInv, PhaseInv
<1>3. ASSUME NEW t \in Threads, Acquire(t) \/ DoStep(t) PROVE CloseInv'
  <2>1. pc[t] # "idle" /\ t \in Callers \cup {Opener}
    BY <1>3 DEF Acquire, DoStep, Load, Store, Write, WriteLost, WriteFails, UseOfNil,
                BindReader, Read, ReadFails, Threads
  <2>2. ASSUME NEW v, Finish(t, v), v = "panic" => conn = "nil" PROVE CloseInv'
    <3>1. v = "panic" => t # Opener
      BY <2>1, <2>2
    <3>2. CASE t # Opener
      BY <1>0, <2>1, <2>2, <3>2 DEF Finish
    <3>3. CASE t = Opener
      BY <1>0, <2>1, <2>2, <3>1, <3>3 DEF Finish
    <3> QED
      BY <3>2, <3>3
  <2>3. CASE Acquire(t) \/ Load(t, "load", "store") \/ Store(t, "store", "bind")
             \/ Write(t) \/ WriteLost(t) \/ BindReader(t)
    BY <1>0, <2>1, <2>3 DEF Acquire, Load, Store, Write, WriteLost, BindReader
  <2>4. CASE WriteFails(t) \/ ReadFails(t)
    BY <2>2, <2>4 DEF WriteFails, ReadFails
  <2>5. CASE UseOfNil(t)
    BY <2>2, <2>5 DEF UseOfNil
  <2>6. CASE Read(t)
    <3> DEFINE v == Verdict(op[Cur(t)], resId[t], Head(toClient))
    <3>1. v # "panic"
      <4>1. /\ op[Cur(t)] \in {"handshake", "operation", "heartbeat"}
            /\ resId[t] \in Nat /\ Head(toClient) \in Replies
        <5>1. n[t] \in 1..MaxCalls /\ op[Cur(t)] # "none"
          BY <2>6, MaxCallsAssumption DEF Read, IInv, TypeOK, CallInv, CallOK, InCall, InDo
        <5> QED
          BY <2>6, <5>1, CallPairs, HeadTailProperties DEF Read, IInv, TypeOK, Cur
      <4> QED
        BY <4>1, VerdictType
    <3> HIDE DEF v
    <3> QED
      BY <2>2, <2>6, <3>1 DEF Read, v
  <2> QED
    BY <1>3, <2>3, <2>4, <2>5, <2>6 DEF DoStep
<1>4. ASSUME NEW t \in Callers, NEW kind \in Ops, Begin(t, kind) PROVE CloseInv'
  BY <1>0, <1>4 DEF Begin
<1>5. ASSUME NEW t \in Callers, HeartbeatStep(t) PROVE CloseInv'
  BY <1>0, <1>5 DEF HeartbeatStep, Expect, Load, Store
<1>6. ASSUME NEW t \in Callers, CloseBegin(t) \/ CloseStep(t) PROVE CloseInv'
  BY <1>0, <1>6 DEF CloseBegin, CloseStep, CloseConn, CloseNil
<1>7. CASE Server \/ LinkDown
  BY <1>7 DEF Server, ServerReply, ServerRejects, LinkDown
<1>8. CASE Terminated \/ UNCHANGED vars
  BY <1>8 DEF Terminated, vars
<1> QED
  BY <1>1, <1>2, <1>3, <1>4, <1>5, <1>6, <1>7, <1>8 DEF Next

\* A nil connection, and so a panic, is met only on a client that has been
\* closed: never in Connect, never because a connection was lost.
THEOREM NoPanicBeforeClose == Spec => []PanicOnlyAfterClose
<1>1. Init => CloseInv
  BY DEF Init, CloseInv, Threads
<1>2. Spec => []CloseInv
  BY <1>1, NextClose, Invariance, PTL DEF Spec
<1>3. IInv /\ CloseInv => PanicOnlyAfterClose
  BY DEF IInv, ConnInv, CloseInv, PanicOnlyAfterClose, Threads
<1> QED
  BY <1>2, <1>3, Invariance, PTL

-----------------------------------------------------------------------------
(* Heartbeats of a single caller                                           *)

\* One caller and the opener, which has returned before the caller begins: at
\* most one goroutine is doing anything.
LEMMA OneAtATime ==
    ASSUME OneHealthyCaller, CloseInv, NEW s \in Threads, NEW t \in Threads, pc[s] # "idle", pc[t] # "idle"
    PROVE  s = t
  BY DEF OneHealthyCaller, CloseInv, Threads

\* CountInv is about whoever is doing something.
LEMMA CountOfOne ==
    ASSUME NEW t \in Threads, \A u \in Threads : u # t => pc'[u] = "idle",
           pc'[t] \in {"bumpStore", "store"} => tmp'[t] = RequestId',
           t = Opener /\ pc'[t] \in InCall => op'[Cur(t)'] = "handshake",
           t \in Callers /\ pc'[t] \in InCall =>
              /\ RequestId' = reqId'[t] + Bumps(t)' /\ resId'[t] = reqId'[t]
              /\ op'[Cur(t)'] \in {"operation", "heartbeat"}
              /\ pc'[t] \in {"expect", "bumpLoad", "bumpStore"} => op'[Cur(t)'] = "heartbeat"
    PROVE  CountInv'
<1>1. "idle" \notin InCall /\ "idle" \notin {"bumpStore", "store"}
  BY DEF InCall, Building, InDo
<1>2. \A u \in Threads : pc'[u] \in {"bumpStore", "store"} => tmp'[u] = RequestId'
  BY <1>1
<1>3. pc'[Opener] \in InCall => op'[Cur(Opener)'] = "handshake"
  BY <1>1 DEF Threads
<1>4. ASSUME NEW u \in Callers, pc'[u] \in InCall
      PROVE  /\ RequestId' = reqId'[u] + Bumps(u)' /\ resId'[u] = reqId'[u]
             /\ op'[Cur(u)'] \in {"operation", "heartbeat"}
             /\ pc'[u] \in {"expect", "bumpLoad", "bumpStore"} => op'[Cur(u)'] = "heartbeat"
  <2>1. u = t
    BY <1>1, <1>4 DEF Threads
  <2> QED
    BY <1>4, <2>1
<1> QED
  BY <1>2, <1>3, <1>4 DEF CountInv

\* Only a heartbeat can declare a length it does not send, and only once its id
\* takes more than a byte (request-heartbeat.go:20).
LEMMA WrongLength ==
    ASSUME NEW id \in Nat, NEW kind, ~(DeclaredLen(kind, id) = ActualLen(id))
    PROVE  kind = "heartbeat" /\ id > 127
<1>1. kind = "heartbeat"
  BY DEF DeclaredLen, ActualLen
<1>2. CASE id <= 127
  <2>1. PackedLen(id) = 1
    BY <1>2 DEF PackedLen
  <2> QED
    BY <1>1, <2>1 DEF DeclaredLen, ActualLen
<1> QED
  BY <1>1, <1>2

\* A healthy connection keeps its heartbeats in step with RequestId.
LEMMA NextBeat == OneHealthyCaller /\ IInv /\ CloseInv /\ HeartbeatInv /\ [Next]_vars => HeartbeatInv'
<1> SUFFICES ASSUME OneHealthyCaller, IInv, CloseInv, HeartbeatInv, [Next]_vars PROVE HeartbeatInv'
  OBVIOUS
<1> DEFINE Fine == HeartbeatsSucceedBelow128
<1>0. /\ pc \in [Threads -> PcValues] /\ Opener \in Threads /\ Callers \subseteq Threads
      /\ Opener \notin Callers /\ tmp \in [Threads -> Nat] /\ RequestId \in Nat
      /\ reqId \in [Threads -> Nat] /\ resId \in [Threads -> Nat]
      /\ n \in [Threads -> 0..MaxCalls]
  BY CallersAssumption DEF IInv, TypeOK, Threads
<1>1. CountInv /\ LinkInv /\ Fine
  BY DEF HeartbeatInv
<1>2. ASSUME CountInv', LinkInv', Fine' PROVE HeartbeatInv'
  BY <1>2 DEF HeartbeatInv
<1>3. ASSUME NEW t \in Threads, pc[t] # "idle", NEW u \in Threads, u # t PROVE pc[u] = "idle"
  BY <1>3, OneAtATime
<1>4. CASE Dial
  <2>1. /\ phase = "none" /\ phase' = "connecting" /\ link' = "up"
        /\ n' = [n EXCEPT ![Opener] = 1] /\ op' = [op EXCEPT ![<<Opener, 1>>] = "handshake"]
        /\ pc' = [pc EXCEPT ![Opener] = "lock"]
        /\ UNCHANGED <<RequestId, outcome, toServer, toClient>>
    BY <1>4 DEF Dial
  <2>2. toServer = <<>> /\ toClient = <<>> /\ \A u \in Threads : pc[u] = "idle"
    BY <2>1 DEF IInv, PhaseInv
  <2>3. op'[Cur(Opener)'] = "handshake"
    <3>1. Cur(Opener)' = <<Opener, 1>> /\ <<Opener, 1>> \in Calls
      BY <1>0, <2>1, CallPairs, MaxCallsAssumption DEF Cur
    <3> QED
      BY <2>1, <3>1 DEF IInv, TypeOK
  <2>4. CountInv'
    BY <1>0, <2>1, <2>2, <2>3, CountOfOne
  <2>5. LinkInv'
    <3>1. \A k \in Calls : outcome[k] = "none"
      <4> SUFFICES ASSUME NEW k \in Calls PROVE outcome[k] = "none"
        OBVIOUS
      <4>1. k[1] \in Threads /\ k[2] \in 1..MaxCalls /\ k = <<k[1], k[2]>>
        BY CallPairs
      <4>2. n[k[1]] = 0 /\ k[2] > 0
        BY <2>1, <4>1, MaxCallsAssumption DEF IInv, PhaseInv
      <4> QED
        BY <4>1, <4>2 DEF IInv, CallInv, CallOK
    <3> QED
      BY <2>1, <2>2, <3>1 DEF LinkInv
  <2>6. Fine'
    BY <1>1, <2>1 DEF HeartbeatsSucceedBelow128
  <2> QED
    BY <1>2, <2>4, <2>5, <2>6
<1>5. CASE DialFails \/ Terminated \/ UNCHANGED vars
  <2>1. /\ phase' = "failed" \/ phase' = phase
        /\ UNCHANGED <<RequestId, pc, n, op, reqId, resId, tmp, outcome, link, toServer, toClient>>
    BY <1>5 DEF DialFails, Terminated, vars, callerVars, wireVars
  <2>2. CountInv'
    BY <1>1, <2>1 DEF CountInv, Cur, Bumps
  <2>3. LinkInv'
    BY <1>1, <2>1 DEF LinkInv, Oversized, Cur
  <2>4. Fine'
    BY <1>1, <2>1 DEF HeartbeatsSucceedBelow128
  <2> QED
    BY <1>2, <2>2, <2>3, <2>4
<1>6. ASSUME NEW t \in Callers, NEW kind \in Ops, Begin(t, kind) PROVE HeartbeatInv'
  <2>1. /\ phase = "ready" /\ pc[t] = "idle" /\ n[t] < MaxCalls
        /\ n' = [n EXCEPT ![t] = @ + 1]
        /\ op' = [op EXCEPT ![<<t, n[t] + 1>>] = kind]
        /\ reqId' = [reqId EXCEPT ![t] = RequestId]
        /\ resId' = [resId EXCEPT ![t] = RequestId]
        /\ pc' = [pc EXCEPT ![t] = IF kind = "heartbeat" THEN "expect" ELSE "lock"]
        /\ UNCHANGED <<phase, RequestId, tmp, outcome, link, toServer, toClient>>
    BY <1>6 DEF Begin, wireVars
  <2>2. \A u \in Threads : pc[u] = "idle"
    BY <1>0, <2>1 DEF CloseInv, OneHealthyCaller, Threads
  <2>3. op'[Cur(t)'] = kind /\ kind \in {"operation", "heartbeat"}
    <3>1. Cur(t)' = <<t, n[t] + 1>> /\ <<t, n[t] + 1>> \in Calls
      BY <1>0, <2>1, CallPairs, MaxCallsAssumption DEF Cur
    <3> QED
      BY <2>1, <3>1, OpsAssumption DEF IInv, TypeOK
  <2>4. CountInv'
    <3>1. reqId'[t] = RequestId /\ resId'[t] = RequestId /\ t \in Threads /\ t # Opener
      BY <1>0, <2>1
    <3>2. Bumps(t)' = 0
      BY <1>0, <2>1, <2>3 DEF Bumps
    <3>3. pc'[t] = IF kind = "heartbeat" THEN "expect" ELSE "lock"
      BY <1>0, <2>1
    <3>4. \A u \in Threads : u # t => pc'[u] = "idle"
      BY <1>0, <2>1, <2>2
    <3> QED
      BY <1>0, <2>1, <2>3, <3>1, <3>2, <3>3, <3>4, CountOfOne
  <2>5. LinkInv'
    <3>1. \A u \in Threads : pc[u] \notin AfterWrite
      BY <2>2 DEF AfterWrite, InDo
    <3>2. link = "up" => toServer = <<>>
      BY <3>1 DEF IInv, WireInv, RequestOK, OwnedBy
    <3>3. \A u \in Callers : ~Oversized(u)
      BY <1>0, <3>1 DEF Oversized
    <3> QED
      BY <1>1, <2>1, <3>2, <3>3 DEF LinkInv
  <2>6. Fine'
    BY <1>1, <2>1 DEF HeartbeatsSucceedBelow128
  <2> QED
    BY <1>2, <2>4, <2>5, <2>6
<1>7. ASSUME NEW t \in Threads, pc[t] \in InCall, NEW q \in InCall, pc' = [pc EXCEPT ![t] = q],
             UNCHANGED <<phase, n, op, reqId, outcome, link, toServer, toClient>>,
             q \in AfterWrite <=> pc[t] \in AfterWrite,
             RequestId' \in Nat, RequestId <= RequestId', CountInv'
      PROVE  HeartbeatInv'
  <2>1. RequestId' <= 129 => RequestId <= 129
    BY <1>0, <1>7
  <2>2. \A u \in Callers : Oversized(u)' <=> Oversized(u)
    BY <1>0, <1>7 DEF Oversized, Cur
  <2>3. LinkInv'
    BY <1>1, <1>7, <2>1, <2>2 DEF LinkInv
  <2>4. Fine'
    BY <1>1, <1>7, <2>1 DEF HeartbeatsSucceedBelow128
  <2> QED
    BY <1>2, <1>7, <2>3, <2>4
<1>8. ASSUME NEW t \in Threads, pc[t] \in InCall, NEW q, pc' = [pc EXCEPT ![t] = q], UNCHANGED <<n, op>>
      PROVE  /\ \A u \in Threads : u # t => pc'[u] = "idle"
             /\ pc'[t] = q /\ Cur(t)' = Cur(t) /\ op'[Cur(t)'] = op[Cur(t)]
  <2>1. pc[t] # "idle"
    BY <1>8 DEF InCall, Building, InDo
  <2> QED
    BY <1>0, <1>3, <1>8, <2>1 DEF Cur
<1>9. ASSUME NEW t \in Threads, Acquire(t) \/ BindReader(t) PROVE HeartbeatInv'
  <2>1. PICK q \in {"write", "read"} : /\ pc' = [pc EXCEPT ![t] = q]
                                       /\ pc[t] = IF q = "write" THEN "lock" ELSE "bind"
    BY <1>9 DEF Acquire, BindReader
  <2>2. UNCHANGED <<phase, n, op, reqId, resId, tmp, outcome, link, toServer, toClient, RequestId>>
    BY <1>9 DEF Acquire, BindReader, callerVars, wireVars
  <2>3. pc[t] \in InCall /\ q \in InCall /\ (q \in AfterWrite <=> pc[t] \in AfterWrite)
    BY <2>1 DEF InCall, Building, InDo, AfterWrite
  <2>4. /\ \A u \in Threads : u # t => pc'[u] = "idle"
        /\ pc'[t] = q /\ Cur(t)' = Cur(t) /\ op'[Cur(t)'] = op[Cur(t)]
    BY <1>8, <2>1, <2>2, <2>3
  <2>5. Bumps(t)' = Bumps(t)
    BY <2>1, <2>4 DEF Bumps
  <2>6. CountInv'
    BY <1>1, <2>1, <2>2, <2>3, <2>4, <2>5, CountOfOne DEF CountInv
  <2> QED
    <3>1. RequestId' \in Nat /\ RequestId <= RequestId'
      BY <1>0, <2>2
    <3> QED
      BY <1>7, <2>1, <2>2, <2>3, <2>6, <3>1
<1>10. ASSUME NEW t \in Threads, Expect(t) \/ Load(t, "bumpLoad", "bumpStore") \/ Load(t, "load", "store")
       PROVE  HeartbeatInv'
  <2>1. PICK q \in {"bumpLoad", "bumpStore", "store"} :
          /\ pc' = [pc EXCEPT ![t] = q]
          /\ pc[t] = CASE q = "bumpLoad" -> "expect" [] q = "bumpStore" -> "bumpLoad" [] q = "store" -> "load"
          /\ q = "bumpLoad" => resId' = [resId EXCEPT ![t] = RequestId] /\ UNCHANGED tmp
          /\ q # "bumpLoad" => tmp' = [tmp EXCEPT ![t] = RequestId] /\ UNCHANGED resId
    BY <1>10 DEF Expect, Load
  <2>2. UNCHANGED <<phase, n, op, reqId, outcome, link, toServer, toClient, RequestId>>
    BY <1>10 DEF Expect, Load, wireVars
  <2>3. pc[t] \in InCall /\ q \in InCall /\ (q \in AfterWrite <=> pc[t] \in AfterWrite)
    BY <2>1 DEF InCall, Building, InDo, AfterWrite
  <2>4. /\ \A u \in Threads : u # t => pc'[u] = "idle"
        /\ pc'[t] = q /\ Cur(t)' = Cur(t) /\ op'[Cur(t)'] = op[Cur(t)]
    BY <1>8, <2>1, <2>2, <2>3
  <2>5. Bumps(t)' = Bumps(t)
    BY <2>1, <2>4 DEF Bumps
  <2>6. pc[t] = "expect" /\ t \in Callers => RequestId = reqId[t]
    BY <1>0, <1>1, <2>3 DEF CountInv, Bumps
  <2>7. t \in Callers => resId'[t] = reqId[t]
    BY <1>0, <1>1, <2>1, <2>3, <2>6 DEF CountInv
  <2>8. q \in {"bumpStore", "store"} => tmp'[t] = RequestId
    BY <1>0, <2>1
  <2>9. CountInv'
    BY <1>1, <2>1, <2>2, <2>3, <2>4, <2>5, <2>7, <2>8, CountOfOne DEF CountInv
  <2> QED
    <3>1. RequestId' \in Nat /\ RequestId <= RequestId'
      BY <1>0, <2>2
    <3> QED
      BY <1>7, <2>1, <2>2, <2>3, <2>9, <3>1
<1>11. ASSUME NEW t \in Threads, Store(t, "bumpStore", "lock") \/ Store(t, "store", "bind")
       PROVE  HeartbeatInv'
  <2>1. PICK q \in {"lock", "bind"} : /\ pc' = [pc EXCEPT ![t] = q]
                                      /\ pc[t] = IF q = "lock" THEN "bumpStore" ELSE "store"
    BY <1>11 DEF Store
  <2>2. /\ UNCHANGED <<phase, n, op, reqId, resId, outcome, link, toServer, toClient>>
        /\ RequestId' = tmp[t] + 1
    BY <1>11 DEF Store, wireVars, callerVars
  <2>3. pc[t] \in InCall /\ q \in InCall /\ (q \in AfterWrite <=> pc[t] \in AfterWrite)
    BY <2>1 DEF InCall, Building, InDo, AfterWrite
  <2>4. /\ \A u \in Threads : u # t => pc'[u] = "idle"
        /\ pc'[t] = q /\ Cur(t)' = Cur(t) /\ op'[Cur(t)'] = op[Cur(t)]
    BY <1>8, <2>1, <2>2, <2>3
  <2>5. RequestId' = RequestId + 1
    BY <1>1, <2>1, <2>2 DEF CountInv
  <2>6. t \in Callers => Bumps(t)' = Bumps(t) + 1 /\ Bumps(t) \in Nat
    BY <1>1, <2>1, <2>3, <2>4 DEF Bumps, CountInv
  <2>7. t \in Callers => RequestId' = reqId[t] + Bumps(t)'
    BY <1>0, <1>1, <2>3, <2>5, <2>6 DEF CountInv
  <2>8. CountInv'
    BY <1>1, <2>1, <2>2, <2>3, <2>4, <2>7, CountOfOne DEF CountInv
  <2>9. RequestId' \in Nat /\ RequestId <= RequestId'
    BY <1>0, <2>5
  <2> QED
    BY <1>7, <2>1, <2>2, <2>3, <2>8, <2>9
<1>12. ASSUME NEW t \in Threads, pc[t] = "write"
       PROVE  /\ phase = "ready" /\ RequestId <= 129 => link = "up"
              /\ \A u \in Callers : ~Oversized(u)
  <2>1. \A u \in Threads : pc[u] \notin AfterWrite
    BY <1>3, <1>12 DEF AfterWrite, InDo
  <2>2. \A u \in Callers : ~Oversized(u)
    BY <1>0, <2>1 DEF Oversized
  <2> QED
    BY <1>1, <2>2 DEF LinkInv
<1>13. ASSUME NEW t \in Threads, Write(t) \/ WriteLost(t) PROVE HeartbeatInv'
  <2>1. /\ pc[t] = "write" /\ pc' = [pc EXCEPT ![t] = "load"] /\ pc[t] \in InCall
        /\ UNCHANGED <<phase, n, op, reqId, resId, tmp, outcome, link, toClient, RequestId>>
    BY <1>13 DEF Write, WriteLost, callerVars, wireVars, InCall, InDo
  <2>2. /\ \A u \in Threads : u # t => pc'[u] = "idle"
        /\ pc'[t] = "load" /\ Cur(t)' = Cur(t) /\ op'[Cur(t)'] = op[Cur(t)]
    BY <1>8, <2>1
  <2>3. CountInv'
    <3>1. Bumps(t)' = Bumps(t)
      BY <2>1, <2>2 DEF Bumps
    <3> QED
      BY <1>1, <2>1, <2>2, <3>1, CountOfOne DEF CountInv
  <2>4. phase = "ready" /\ RequestId <= 129 => link = "up"
    BY <1>12, <2>1
  <2>5. toServer' # <<>> /\ link = "up" /\ ~Head(toServer').framed =>
          op[Head(toServer').call] = "heartbeat" /\ Head(toServer').id > 127
    <3>1. CASE Write(t)
      <4>1. toServer = <<>> /\ toServer' = Append(toServer, Request(t))
        BY <3>1, WireFreeAtWrite DEF Write
      <4>2. Head(toServer') = Request(t)
        BY <4>1, AppendEmpty
      <4>3. reqId[t] \in Nat
        BY <1>0
      <4>4. /\ Request(t).call = Cur(t) /\ Request(t).id = reqId[t]
            /\ Request(t).framed <=> DeclaredLen(op[Cur(t)], reqId[t]) = ActualLen(reqId[t])
        BY DEF Request
      <4>5. ~Request(t).framed => op[Cur(t)] = "heartbeat" /\ reqId[t] > 127
        BY <4>3, <4>4, WrongLength
      <4> QED
        BY <4>2, <4>4, <4>5
    <3>2. CASE WriteLost(t)
      BY <3>2 DEF WriteLost
    <3> QED
      BY <1>13, <3>1, <3>2
  <2>6. LinkInv'
    BY <1>1, <2>1, <2>4, <2>5 DEF LinkInv
  <2>7. Fine'
    BY <1>1, <2>1 DEF HeartbeatsSucceedBelow128
  <2> QED
    BY <1>2, <2>3, <2>6, <2>7
<1>14. ASSUME NEW t \in Threads, pc[t] \in InDo, NEW v, Finish(t, v),
              toClient' = toClient \/ toClient' = <<>>,
              t = Opener => v = "ok",
              t # Opener /\ RequestId <= 129 => v = "ok" /\ link = "up"
       PROVE  HeartbeatInv'
  <2>1. /\ outcome' = [outcome EXCEPT ![Cur(t)] = v]
        /\ pc' = [pc EXCEPT ![t] = IF v = "panic" THEN "dead" ELSE "idle"]
        /\ UNCHANGED <<n, op, toServer>>
    BY <1>14 DEF Finish
  <2>2. t # Opener => UNCHANGED <<phase, RequestId, link>>
    BY <1>14 DEF Finish
  <2>3. t = Opener => phase' = "ready" /\ RequestId' = 0 /\ link' = link
    BY <1>14 DEF Finish
  <2>4. pc[t] \in InCall /\ pc[t] # "idle"
    BY <1>14 DEF InCall, InDo
  <2>5. t = Opener => phase = "connecting"
    BY <2>4 DEF CloseInv
  <2>6. CountInv'
    <3>1. \A u \in Threads : u # t => pc'[u] = "idle"
      BY <1>8, <2>1, <2>4
    <3>2. pc'[t] \notin InCall /\ pc'[t] \notin {"bumpStore", "store"}
      BY <1>0, <2>1 DEF InCall, Building, InDo
    <3> QED
      BY <3>1, <3>2, CountOfOne
  <2>7. LinkInv'
    <3>1. CASE t = Opener
      BY <1>1, <1>14, <2>1, <2>3, <2>5, <3>1 DEF LinkInv
    <3>2. CASE t # Opener
      <4>1. t \in Callers /\ phase = "ready"
        BY <2>4, <3>2 DEF CloseInv, Threads
      <4> QED
        BY <1>1, <1>14, <2>1, <2>2, <3>2, <4>1 DEF LinkInv
    <3> QED
      BY <3>1, <3>2
  <2>8. Fine'
    <3> SUFFICES ASSUME RequestId' <= 129, NEW k \in Calls PROVE outcome'[k] \in {"none", "ok"}
      BY DEF HeartbeatsSucceedBelow128
    <3>1. v = "ok"
      BY <1>14, <2>2
    <3>2. outcome[k] \in {"none", "ok"}
      BY <1>1, <2>2, <2>5 DEF HeartbeatsSucceedBelow128, LinkInv
    <3> QED
      BY <2>1, <3>1, <3>2 DEF IInv, TypeOK
  <2> QED
    BY <1>2, <2>6, <2>7, <2>8
<1>15. ASSUME NEW t \in Threads, pc[t] # "idle" PROVE conn = "open" /\ (t = Opener => link = "up")
  <2>1. t = Opener => phase = "connecting"
    BY <1>15 DEF CloseInv
  <2>2. t # Opener => phase = "ready"
    BY <1>15 DEF CloseInv, Threads
  <2>3. ~MayClose /\ conn \in {"open", "nil"}
    BY DEF OneHealthyCaller, IInv, TypeOK
  <2> QED
    BY <1>1, <2>1, <2>2, <2>3 DEF CloseInv, LinkInv
<1>16. ASSUME NEW t \in Callers, pc[t] = "read", RequestId <= 129
       PROVE  link = "up" /\ (op[Cur(t)] = "heartbeat" => reqId[t] <= 127)
  <2>1. t \in Threads /\ pc[t] \in InCall /\ pc[t] # "idle"
    BY <1>0, <1>16 DEF InCall, InDo
  <2>2. RequestId = reqId[t] + Bumps(t)
    BY <1>1, <2>1 DEF CountInv
  <2>3. op[Cur(t)] = "heartbeat" => Bumps(t) = 2
    BY <1>16 DEF Bumps
  <2>4. op[Cur(t)] = "heartbeat" => reqId[t] <= 127
    BY <1>0, <1>16, <2>1, <2>2, <2>3
  <2>5. ~Oversized(t)
    BY <1>0, <2>1, <2>4 DEF Oversized
  <2>6. \A u \in Callers : ~Oversized(u)
    BY <2>5 DEF OneHealthyCaller
  <2>7. phase = "ready"
    BY <2>1, <1>16 DEF CloseInv
  <2> QED
    BY <1>1, <1>16, <2>4, <2>6, <2>7 DEF LinkInv
<1>17. ASSUME NEW t \in Threads, WriteFails(t) \/ ReadFails(t) \/ UseOfNil(t) PROVE HeartbeatInv'
  <2>1. pc[t] \in {"write", "bind", "read"} /\ pc[t] # "idle" /\ pc[t] \in InDo /\ toClient' = toClient
    BY <1>17 DEF WriteFails, ReadFails, UseOfNil, InDo
  <2>2. conn = "open" /\ (t = Opener => link = "up")
    BY <1>15, <2>1
  <2>3. ~UseOfNil(t) /\ link # "up" /\ t # Opener /\ Finish(t, "failed") /\ pc[t] \in {"write", "read"}
    BY <1>17, <2>2 DEF WriteFails, ReadFails, UseOfNil
  <2>4. t \in Callers /\ phase = "ready"
    BY <2>1, <2>3 DEF CloseInv, Threads
  <2>5. ~(RequestId <= 129)
    BY <1>12, <1>16, <2>3, <2>4
  <2> QED
    BY <1>14, <2>1, <2>3, <2>5
<1>18. ASSUME NEW t \in Threads, Read(t) PROVE HeartbeatInv'
  <2> DEFINE r == Head(toClient)
             v == Verdict(op[Cur(t)], resId[t], r)
  <2>1. /\ pc[t] = "read" /\ link # "closed" /\ toClient # <<>> /\ Finish(t, v)
        /\ \E k \in 1..Len(toClient) : toClient' = SubSeq(toClient, k + 1, Len(toClient))
    BY <1>18 DEF Read
  <2>2. OwnedBy(r, t) /\ toClient' = <<>> /\ r.flags = 0
    BY <1>1, <2>1, OwnReply DEF LinkInv
  <2>3. pc[t] \in InDo /\ pc[t] \in InCall
    BY <2>1 DEF InDo, InCall
  <2>4. r.id = reqId[t] /\ reqId[t] \in Nat
    BY <1>0, <2>2 DEF OwnedBy
  <2>5. t = Opener => v = "ok"
    BY <1>1, <2>2, <2>3 DEF CountInv, Verdict, HandshakeVerdict, FlagError
  <2>6. ASSUME t # Opener, RequestId <= 129 PROVE v = "ok" /\ link = "up"
    <3>1. t \in Callers
      BY <2>6 DEF Threads
    <3>2. link = "up" /\ (op[Cur(t)] = "heartbeat" => reqId[t] <= 127)
      BY <1>16, <2>1, <2>6, <3>1
    <3>3. op[Cur(t)] \in {"operation", "heartbeat"} /\ resId[t] = reqId[t]
      BY <1>1, <2>3, <3>1 DEF CountInv
    <3>4. ASSUME NEW i \in Nat, i <= 127 PROVE Int8(i) = i
      BY <3>4 DEF Int8
    <3>5. op[Cur(t)] = "heartbeat" => Int8(r.id) = resId[t]
      BY <2>4, <3>2, <3>3, <3>4
    <3>6. v = "ok"
      BY <2>2, <2>4, <3>3, <3>5 DEF Verdict, OperationVerdict, HeartbeatVerdict, FlagError
    <3> QED
      BY <3>2, <3>6
  <2> HIDE DEF v, r
  <2> QED
    BY <1>14, <2>1, <2>2, <2>3, <2>5, <2>6
<1>19. CASE ServerReply
  <2>1. /\ toServer # <<>> /\ toServer' = Tail(toServer)
        /\ \E flags \in ServerFlags : toClient' = IF link = "up"
                                                 THEN Append(toClient, Reply(Head(toServer), flags))
                                                 ELSE toClient
        /\ UNCHANGED <<phase, RequestId, pc, n, op, reqId, resId, tmp, outcome, link>>
    BY <1>19 DEF ServerReply, callerVars
  <2>2. toServer' = <<>> /\ toClient = <<>>
    BY <2>1, ServerTakes
  <2>3. toClient' # <<>> => Head(toClient').flags = 0
    <3>1. ServerFlags = {0}
      BY DEF OneHealthyCaller
    <3>2. Reply(Head(toServer), 0).flags = 0
      BY DEF Reply
    <3> QED
      BY <2>1, <2>2, <3>1, <3>2, AppendEmpty
  <2>4. CountInv'
    BY <1>1, <2>1 DEF CountInv, Cur, Bumps
  <2>5. LinkInv'
    BY <1>1, <2>1, <2>2, <2>3 DEF LinkInv, Oversized, Cur
  <2>6. Fine'
    BY <1>1, <2>1 DEF HeartbeatsSucceedBelow128
  <2> QED
    BY <1>2, <2>4, <2>5, <2>6
<1>20. CASE ServerRejects
  <2> DEFINE f == Head(toServer)
  <2>1. /\ toServer # <<>> /\ ~f.framed /\ toServer' = Tail(toServer)
        /\ link' = IF link = "up" THEN "down" ELSE link
        /\ UNCHANGED <<phase, RequestId, pc, n, op, reqId, resId, tmp, outcome, toClient>>
    BY <1>20 DEF ServerRejects, callerVars
  <2>2. toServer' = <<>> /\ RequestOK(f)
    BY <2>1, ServerTakes
  <2>3. link = "up" => /\ phase = "ready"
                       /\ \E u \in Callers : Oversized(u)
    <3> SUFFICES ASSUME link = "up" PROVE phase = "ready" /\ \E u \in Callers : Oversized(u)
      OBVIOUS
    <3>1. PICK u \in Threads : OwnedBy(f, u)
      BY <2>2 DEF RequestOK
    <3>2. op[Cur(u)] = "heartbeat" /\ reqId[u] > 127 /\ pc[u] \in AfterWrite
      BY <1>1, <2>1, <3>1 DEF LinkInv, OwnedBy
    <3>3. pc[u] \in InCall /\ pc[u] # "idle"
      BY <3>2 DEF AfterWrite, InCall, InDo
    <3>4. u \in Callers
      BY <1>1, <3>2, <3>3 DEF CountInv, Threads
    <3> QED
      BY <3>2, <3>3, <3>4 DEF Oversized, CloseInv
  <2>4. \A u \in Callers : Oversized(u)' <=> Oversized(u)
    BY <2>1 DEF Oversized, Cur
  <2>5. CountInv'
    BY <1>1, <2>1 DEF CountInv, Cur, Bumps
  <2>6. LinkInv'
    BY <1>1, <2>1, <2>2, <2>3, <2>4 DEF LinkInv
  <2>7. Fine'
    BY <1>1, <2>1 DEF HeartbeatsSucceedBelow128
  <2> QED
    BY <1>2, <2>5, <2>6, <2>7
<1>21. ASSUME NEW t \in Callers, CloseBegin(t) \/ CloseStep(t) PROVE FALSE
  BY <1>21 DEF CloseBegin, CloseStep, CloseConn, CloseNil, CloseInv, OneHealthyCaller
<1>22. ~LinkDown
  BY DEF LinkDown, OneHealthyCaller
<1>23. ASSUME NEW t \in Threads, DoStep(t) PROVE HeartbeatInv'
  BY <1>9, <1>10, <1>11, <1>13, <1>17, <1>18, <1>23 DEF DoStep
<1>24. ASSUME NEW t \in Callers, HeartbeatStep(t) PROVE HeartbeatInv'
  BY <1>0, <1>10, <1>11, <1>24 DEF HeartbeatStep
<1> QED
  BY <1>4, <1>5, <1>6, <1>9, <1>19, <1>20, <1>21, <1>22, <1>23, <1>24 DEF Next, Server

\* One caller on a connection that stays up: heartbeats and operations in any
\* order succeed for as long as the ids are at most 127 (SendHeartbeat,
\* request-heartbeat.go, response-heartbeat.go).
THEOREM HeartbeatsSucceed == Spec => []HeartbeatsSucceedBelow128
<1>1. Init => HeartbeatInv /\ CloseInv
  <2> SUFFICES ASSUME Init PROVE HeartbeatInv /\ CloseInv
    OBVIOUS
  <2>1. CloseInv
    BY DEF Init, CloseInv, Threads
  <2>2. \A t \in Threads : pc[t] = "idle"
    BY DEF Init
  <2>3. CountInv
    BY <2>2 DEF CountInv, InCall, Building, InDo, Threads
  <2>4. LinkInv
    BY DEF Init, LinkInv
  <2>5. HeartbeatsSucceedBelow128
    BY DEF Init, HeartbeatsSucceedBelow128
  <2> QED
    BY <2>1, <2>3, <2>4, <2>5 DEF HeartbeatInv
<1>2. IInv /\ CloseInv /\ HeartbeatInv /\ [Next]_vars => HeartbeatInv'
  BY NextBeat DEF HeartbeatInv
<1>3. HeartbeatInv => HeartbeatsSucceedBelow128
  BY DEF HeartbeatInv, HeartbeatsSucceedBelow128
<1> QED
  BY <1>1, <1>2, <1>3, NextClose, Invariance, PTL DEF Spec

-----------------------------------------------------------------------------
(* Refinement                                                              *)

\* The abstract specification has the same calls.
LEMMA AbstractCalls == Abstract!Calls = Calls /\ Abstract!Threads = Threads
  BY DEF Abstract!Calls, Abstract!Threads, Calls, Threads

\* A step that starts, executes and ends no call is an abstract stutter.
LEMMA StutterRefines ==
    ASSUME UNCHANGED <<n, outcome, served>>
    PROVE  UNCHANGED Abstract!callVars
  BY DEF Abstract!callVars, Answered

\* Starting a call is an abstract Invoke.
LEMMA InvokeRefines ==
    ASSUME IInv, NEW t \in Threads, n[t] < MaxCalls, n' = [n EXCEPT ![t] = n[t] + 1],
           n[t] > 0 => outcome[Cur(t)] # "none",
           t # Opener => outcome[<<Opener, 1>>] = "ok",
           UNCHANGED <<outcome, served>>
    PROVE  Abstract!CallNext
<1>i. PICK i : i = n[t] + 1
  OBVIOUS
<1> DEFINE k == <<t, i>>
           invoked == {c \in Calls : c[2] <= n[c[1]]}
<1>1. n[t] \in Nat /\ i = n[t] + 1 /\ i \in 1..MaxCalls /\ k \in Calls
  <2>1. n[t] \in 0..MaxCalls
    BY DEF IInv, TypeOK
  <2>2. i \in 1..MaxCalls
    BY <1>i, <2>1, MaxCallsAssumption
  <2> QED
    BY <1>i, <2>1, <2>2, CallPairs, MaxCallsAssumption
<1>2. k \notin invoked
  BY <1>1
<1>3. invoked' = invoked \cup {k}
  <2>1. ASSUME NEW c \in Calls
        PROVE  c \in invoked' <=> c \in invoked \cup {k}
    <3>1. c[1] \in Threads /\ c[2] \in 1..MaxCalls /\ c = <<c[1], c[2]>>
      BY CallPairs
    <3>2. CASE c[1] = t
      <4>1. n'[c[1]] = i
        BY <1>1, <3>2 DEF IInv, TypeOK
      <4>2. c = k <=> c[2] = i
        BY <3>1, <3>2
      <4> QED
        BY <1>1, <3>1, <3>2, <4>1, <4>2, MaxCallsAssumption
    <3>3. CASE c[1] # t
      <4>1. n'[c[1]] = n[c[1]] /\ c # k
        BY <3>1, <3>3 DEF IInv, TypeOK
      <4> QED
        BY <4>1
    <3> QED
      BY <3>2, <3>3
  <2>2. k \in Calls
    BY <1>1
  <2> QED
    BY <2>1, <2>2
<1>4. i > 1 => Answered(outcome[<<t, i - 1>>]) # "none" /\ <<t, i - 1>> \in Calls
  <2> SUFFICES ASSUME i > 1
               PROVE  Answered(outcome[<<t, i - 1>>]) # "none"
                      /\ <<t, i - 1>> \in Calls
    OBVIOUS
  <2>1. i - 1 = n[t] /\ n[t] > 0 /\ n[t] \in 1..MaxCalls
    BY <1>1, MaxCallsAssumption
  <2> QED
    BY <2>1, CallPairs DEF Answered, Cur
<1>5. <<Opener, 1>> \in Calls
  <2>1. Opener \in Threads /\ 1 \in 1..MaxCalls
    BY MaxCallsAssumption DEF Threads
  <2> QED
    BY <2>1, CallPairs
<1>6. t # Opener => Answered(outcome[<<Opener, 1>>]) = "ok"
  BY DEF Answered
<1>7. Abstract!Invoke(t, i)
  <2> HIDE DEF k
  <2>1. k \in Calls \ invoked
    BY <1>1, <1>2
  <2>2. [c \in Calls |-> Answered(outcome[c])]' = [c \in Calls |-> Answered(outcome[c])]
    BY DEF Answered
  <2> QED
    BY <1>3, <1>4, <1>5, <1>6, <2>1, <2>2, AbstractCalls DEF Abstract!Invoke, k
<1> QED
  BY <1>1, <1>7, AbstractCalls DEF Abstract!CallNext

\* Ending a call is an abstract Return of what the server did.
LEMMA ReturnRefines ==
    ASSUME IInv, IInv', NEW t \in Threads, NEW v \in Outcomes, pc[t] \in InDo,
           outcome' = [outcome EXCEPT ![Cur(t)] = v], UNCHANGED <<n, served>>
    PROVE  Abstract!CallNext
<1> DEFINE k == Cur(t)
           answer == [c \in Calls |-> Answered(outcome[c])]
<1>1. k \in Calls /\ outcome[k] = "none" /\ k[2] <= n[k[1]]
  BY CallPairs, MaxCallsAssumption DEF IInv, TypeOK, CallInv, CallOK, InCall, Cur
<1>2. outcome'[k] = v
  BY <1>1 DEF IInv, TypeOK
<1>3. answer[k] = "none" /\ answer' = [answer EXCEPT ![k] = Answered(v)]
  BY <1>1 DEF Answered, IInv, TypeOK
<1>4. Answered(v) \in {"ok", "refused", "failed"}
  BY DEF Answered, Outcomes
<1>5. Abstract!Consistent(Answered(v), served[k])
  <2>1. /\ v = "ok" => served'[k] = "done"
        /\ v = "refused" => served'[k] = "refused"
    BY <1>1, <1>2 DEF IInv, AnswersAreTrue
  <2> QED
    BY <2>1 DEF Abstract!Consistent, Answered
<1>6. {c \in Calls : c[2] <= n[c[1]]}' = {c \in Calls : c[2] <= n[c[1]]}
  OBVIOUS
<1>7. Abstract!Return(k)
  <2> HIDE DEF k
  <2> QED
    BY <1>1, <1>3, <1>4, <1>5, <1>6 DEF Abstract!Return, Abstract!Answers
<1> QED
  BY <1>1, <1>7, AbstractCalls DEF Abstract!CallNext

\* The server's answer is an abstract Execute.
LEMMA ReplyRefines ==
    ASSUME IInv, ServerReply
    PROVE  Abstract!CallNext
<1> DEFINE f == Head(toServer)
<1>1. RequestOK(f) /\ f.call \in Calls
  BY ServerTakes DEF ServerReply
<1>2. /\ \E e \in {"done", "refused"} : served' = [served EXCEPT ![f.call] = e]
      /\ UNCHANGED <<n, outcome>>
  BY DEF ServerReply, callerVars
<1>3. f.call \in {c \in Calls : c[2] <= n[c[1]]} /\ served[f.call] = "none"
  BY <1>1 DEF RequestOK
<1>4. /\ {c \in Calls : c[2] <= n[c[1]]}' = {c \in Calls : c[2] <= n[c[1]]}
      /\ [c \in Calls |-> Answered(outcome[c])]' = [c \in Calls |-> Answered(outcome[c])]
  BY <1>2 DEF Answered
<1>5. Abstract!Execute(f.call)
  <2> HIDE DEF f
  <2> QED
    BY <1>2, <1>3, <1>4 DEF Abstract!Execute
<1> QED
  BY <1>1, <1>5, AbstractCalls DEF Abstract!CallNext

\* Every step of the client is an abstract step or a stutter.
LEMMA NextRefines ==
    ASSUME IInv, IInv', [Next]_vars
    PROVE  [Abstract!CallNext]_(Abstract!callVars)
<1>1. CASE Dial
  <2>1. Opener \in Threads /\ n[Opener] = 0 /\ n[Opener] < MaxCalls
    BY <1>1, MaxCallsAssumption DEF Dial, IInv, PhaseInv, Threads
  <2>2. n' = [n EXCEPT ![Opener] = n[Opener] + 1]
    BY <1>1, <2>1 DEF Dial
  <2> QED
    <3>1. n[Opener] > 0 => outcome[Cur(Opener)] # "none"
      BY <2>1
    <3> QED
      BY <1>1, <2>1, <2>2, <3>1, InvokeRefines DEF Dial
<1>2. ASSUME NEW t \in Callers, NEW kind \in Ops, Begin(t, kind) PROVE Abstract!CallNext
  <2>1. t \in Threads /\ (n[t] > 0 => outcome[Cur(t)] # "none")
    BY <1>2 DEF Begin, Threads, IInv, CallInv, CallOK, Outside
  <2>2. outcome[<<Opener, 1>>] = "ok"
    BY <1>2 DEF Begin, IInv, PhaseInv
  <2> QED
    BY <1>2, <2>1, <2>2, InvokeRefines DEF Begin, wireVars
<1>3. ASSUME NEW t \in Threads, WriteFails(t) \/ UseOfNil(t) \/ Read(t) \/ ReadFails(t)
      PROVE  Abstract!CallNext
  <2>1. PICK v : Finish(t, v)
    BY <1>3 DEF WriteFails, UseOfNil, Read, ReadFails
  <2>2. pc[t] \in InDo
    BY <1>3 DEF WriteFails, UseOfNil, Read, ReadFails, InDo
  <2>3. Cur(t) \in Calls
    BY <2>2, CallPairs, MaxCallsAssumption DEF IInv, TypeOK, CallInv, CallOK, InCall, Cur
  <2>4. v \in Outcomes
    <3>1. outcome'[Cur(t)] = v
      BY <2>1, <2>3 DEF Finish, IInv, TypeOK
    <3>2. outcome'[Cur(t)] # "none"
      <4>1. pc'[t] = "dead" \/ pc'[t] = "idle"
        BY <2>1 DEF Finish, IInv, TypeOK
      <4>2. n'[t] = n[t] /\ n[t] > 0
        BY <2>1, <2>2 DEF Finish, IInv, CallInv, CallOK, InCall
      <4>3. CASE pc'[t] = "idle"
        BY <4>2, <4>3 DEF IInv, CallInv, CallOK, Outside, Cur
      <4>4. CASE pc'[t] = "dead"
        BY <2>1, <2>3, <3>1, <4>4 DEF Finish, IInv, TypeOK
      <4> QED
        BY <4>1, <4>3, <4>4
    <3>3. outcome'[Cur(t)] \in Outcomes \cup {"none"}
      BY <2>3 DEF IInv, TypeOK
    <3> QED
      BY <3>1, <3>2, <3>3
  <2> QED
    BY <2>1, <2>2, <2>4, ReturnRefines DEF Finish
<1>4. CASE ServerReply
  BY <1>4, ReplyRefines
<1>5. ASSUME UNCHANGED <<n, outcome, served>>
      PROVE  UNCHANGED Abstract!callVars
  BY <1>5, StutterRefines
<1>6. ASSUME NEW t \in Threads, DoStep(t) \/ Acquire(t)
      PROVE  [Abstract!CallNext]_(Abstract!callVars)
  BY <1>3, <1>5, <1>6
     DEF DoStep, Acquire, Load, Store, Write, WriteLost, BindReader, callerVars, wireVars
<1>7. ASSUME NEW t \in Callers, HeartbeatStep(t) \/ CloseBegin(t) \/ CloseStep(t)
      PROVE  UNCHANGED Abstract!callVars
  BY <1>5, <1>7
     DEF HeartbeatStep, Expect, Load, Store, CloseBegin, CloseStep, CloseConn, CloseNil,
         callerVars, wireVars
<1>8. CASE DialFails \/ ServerRejects \/ LinkDown \/ Terminated \/ UNCHANGED vars
  BY <1>5, <1>8 DEF DialFails, ServerRejects, LinkDown, Terminated, vars, callerVars, wireVars
<1> QED
  BY <1>1, <1>2, <1>4, <1>6, <1>7, <1>8 DEF Next, Server

\* The client with its mutex, its racing goroutines and its failing connection
\* implements the abstract connection: at-most-once execution, true answers.
THEOREM Refinement == Spec => ImplementsCallSpec
<1>1. Init => Abstract!CallInit
  <2> SUFFICES ASSUME Init PROVE Abstract!CallInit
    OBVIOUS
  <2>1. {c \in Calls : c[2] <= n[c[1]]} = {}
    BY CallPairs, MaxCallsAssumption DEF Init
  <2>2. [c \in Calls |-> Answered(outcome[c])] = [c \in Calls |-> "none"]
    BY DEF Init, Answered
  <2> QED
    BY <2>1, <2>2, AbstractCalls DEF Init, Abstract!CallInit
<1>2. IInv /\ IInv' /\ [Next]_vars => [Abstract!CallNext]_(Abstract!callVars)
  BY NextRefines
<1> QED
  BY <1>1, <1>2, Invariance, PTL DEF Spec, ImplementsCallSpec, Abstract!CallSpec
=============================================================================
