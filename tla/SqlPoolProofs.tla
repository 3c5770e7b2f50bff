--------------------------- MODULE SqlPoolProofs ---------------------------
(***************************************************************************)
(* Proofs about SqlPool, for any goroutines, connections, calls and losses: *)
(* PoolInv is inductive and implies the safety properties.                  *)
(*                                                                         *)
(* Most steps end the use of a connection.  What they have in common is     *)
(* Gives (the connection leaves its holder) and Leaves (the goroutine is    *)
(* without one, its call over or to be tried again); GiveBack proves that   *)
(* together they preserve the invariant, whatever step they are part of.    *)
(***************************************************************************)
EXTENDS SqlPool, TLAPS

SlotStates == {"free", "idle", "held"}
LinkStates == {"none", "up", "down"}

Gives(c) ==
    /\ slot' \in [Slots -> SlotStates]
    /\ slot'[c] # "held"
    /\ \A d \in Slots : d # c => slot'[d] = slot[d]
    /\ client' \in [Slots -> {"nil", "set"}]
    /\ link' \in [Slots -> LinkStates]
    /\ slot'[c] = "free" => link'[c] = "none"
    /\ \A d \in Slots : d # c => link'[d] = link[d]
    /\ old' \in [Slots -> BOOLEAN]
    /\ wire' = [wire EXCEPT ![c] = "empty"]

\* r: the result; p: where the goroutine goes.
Leaves(u, p, r) ==
    /\ pc' = [pc EXCEPT ![u] = p]
    /\ at' = [at EXCEPT ![u] = NoSlot]
    /\ result' = [result EXCEPT ![u] = r]
    /\ kind' \in [Users -> AllKinds \cup {"none"}]
    /\ tries' \in [Users -> 0..MaxTries]
    /\ cancelled' \in [Users -> BOOLEAN]
    /\ ran' = ran

\* A result is true of what has happened to the statement.
TrueOf(u, r) == /\ r \in Results
                /\ r = "ok" => ran[u] = 1
                /\ r \in {"refused", "local", "cancelled"} => ran[u] = 0

-----------------------------------------------------------------------------
(* The parts of a step                                                     *)

\* conn.Close and the pool's bookkeeping leave nothing of a connection.
LEMMA DiscardGives ==
    ASSUME TypeOK, NEW c \in Slots, Discard(c)
    PROVE  Gives(c)
BY DEF TypeOK, Discard, Close, Gives, SlotStates, LinkStates

\* A connection that is given back is idle, or closed.
LEMMA PutConnGives ==
    ASSUME TypeOK, NoConnectionLeaks, NEW u \in Users, NEW c \in Slots, PutConn(u, c)
    PROVE  Gives(c)
<1>1. CASE Discard(c)
  BY <1>1, DiscardGives
<1>2. CASE /\ slot' = [slot EXCEPT ![c] = "idle"]
           /\ wire' = [wire EXCEPT ![c] = "empty"]
           /\ UNCHANGED <<client, link, old>>
  BY <1>2 DEF TypeOK, Gives, SlotStates, LinkStates
<1> QED  BY <1>1, <1>2 DEF PutConn

\* A call ends.
LEMMA FinishLeaves ==
    ASSUME TypeOK, NEW u \in Users, NEW r \in Results, Finish(u, r)
    PROVE  Leaves(u, "idle", r)
<1>1. kind' \in [Users -> AllKinds \cup {"none"}]
  BY DEF TypeOK, Finish
<1>2. tries' \in [Users -> 0..MaxTries]
  BY DEF TypeOK, Finish, MaxTries
<1>3. cancelled' \in [Users -> BOOLEAN]
  BY DEF TypeOK, Finish
<1> QED  BY <1>1, <1>2, <1>3 DEF Finish, Leaves

\* A call is tried again, or ends with an error.
LEMMA TryAgainLeaves ==
    ASSUME TypeOK, NEW u \in Users, result[u] = "none", TryAgain(u)
    PROVE  Leaves(u, "take", "none") \/ Leaves(u, "idle", "error")
<1>1. CASE tries[u] < MaxTries
  <2>1. tries' \in [Users -> 0..MaxTries]
    BY <1>1 DEF TypeOK, TryAgain, MaxTries
  <2>2. result' = [result EXCEPT ![u] = "none"]
    BY <1>1 DEF TypeOK, TryAgain
  <2> QED  BY <1>1, <2>1, <2>2 DEF TypeOK, TryAgain, Leaves
<1>2. CASE ~(tries[u] < MaxTries)
  BY <1>2, FinishLeaves DEF TryAgain, Results
<1> QED  BY <1>1, <1>2

\* Giving a connection back, by its holder or from among the idle ones,
\* preserves the invariant if the goroutine's new state is true.
LEMMA GiveBack ==
    ASSUME PoolInv,
           NEW u \in Users, NEW c \in Slots,
           c = at[u] \/ (slot[c] = "idle" /\ at[u] = NoSlot),
           NEW p \in {"idle", "take"}, NEW r, TrueOf(u, r),
           p = "take" => r = "none" /\ ran[u] = 0,
           Gives(c), Leaves(u, p, r),
           server' \in {"up", "down"}, losses' \in 0..MaxLosses
    PROVE  PoolInv'
<1> USE SlotsAssumption
<1>0. at \in [Users -> Slots \cup {NoSlot}] /\ pc \in [Users -> PcValues]
      /\ wire \in [Slots -> {"empty", "request", "reply", "refusal"}]
      /\ result \in [Users -> Results] /\ ran \in [Users -> 0..MaxTries]
      /\ slot \in [Slots -> SlotStates] /\ c # NoSlot
  BY DEF PoolInv, TypeOK, SlotStates
<1>1. \A v \in Users : v # u => at'[v] = at[v] /\ pc'[v] = pc[v] /\ result'[v] = result[v] /\ at[v] # c
  BY <1>0 DEF Leaves, PoolInv, NoConnectionLeaks
<1>2. at'[u] = NoSlot /\ pc'[u] = p /\ result'[u] = r
  BY <1>0 DEF Leaves
<1>3. TypeOK'
  <2>1. wire' \in [Slots -> {"empty", "request", "reply", "refusal"}]
    BY <1>0 DEF Gives
  <2>2. pc' \in [Users -> PcValues] /\ at' \in [Users -> Slots \cup {NoSlot}]
        /\ result' \in [Users -> Results] /\ ran' \in [Users -> 0..MaxTries]
    BY <1>0 DEF Leaves, PcValues, TrueOf
  <2>3. \A v \in Users : at'[v] = NoSlot <=> pc'[v] \in {"idle", "take"}
    BY <1>1, <1>2 DEF PoolInv, TypeOK
  <2> QED  BY <2>1, <2>2, <2>3 DEF TypeOK, Gives, Leaves, SlotStates, LinkStates
<1>4. NoConnectionLeaks'
  <2>1. \A d \in Slots : link'[d] # "none" => slot'[d] # "free"
    BY DEF Gives, PoolInv, NoConnectionLeaks
  <2>2. ASSUME NEW d \in Slots
        PROVE  slot'[d] = "held" <=> \E v \in Users : at'[v] = d
    <3>1. CASE d = c
      BY <3>1, <1>0, <1>1, <1>2 DEF Gives
    <3>2. CASE d # c
      <4>1. slot[d] = "held" <=> \E v \in Users : at[v] = d
        BY DEF PoolInv, NoConnectionLeaks
      <4>2. \A v \in Users : at'[v] = d <=> at[v] = d
        BY <3>2, <1>0, <1>1, <1>2
      <4> QED  BY <3>2, <4>1, <4>2 DEF Gives
    <3> QED  BY <3>1, <3>2
  <2>3. \A v, w \in Users : at'[v] = at'[w] /\ at'[v] # NoSlot => v = w
    BY <1>1, <1>2 DEF PoolInv, NoConnectionLeaks
  <2> QED  BY <2>1, <2>2, <2>3 DEF NoConnectionLeaks
<1>5. WireInv'
  <2>1. \A d \in Slots : slot'[d] # "held" => wire'[d] = "empty"
    BY <1>0 DEF Gives, PoolInv, WireInv
  <2>2. ASSUME NEW v \in Users, at'[v] # NoSlot, pc'[v] # "await"
        PROVE  wire'[at'[v]] = "empty"
    BY <2>2, <1>0, <1>1, <1>2 DEF Gives, PoolInv, WireInv
  <2> QED  BY <2>1, <2>2 DEF WireInv
<1>6. ASSUME NEW v \in Users
      PROVE  CallOK(v)'
  <2>1. CASE v = u
    BY <2>1, <1>0, <1>2 DEF Leaves, PoolInv, CallOK
  <2>2. CASE v # u
    <3>1. CallOK(v) /\ (pc[v] = "await" => at[v] \in Slots)
      BY <1>0 DEF PoolInv, TypeOK
    <3>2. pc[v] = "await" => wire'[at[v]] = wire[at[v]]
      BY <2>2, <3>1, <1>0, <1>1 DEF Gives
    <3> QED  BY <2>2, <3>1, <3>2, <1>1 DEF Leaves, CallOK
  <2> QED  BY <2>1, <2>2
<1>7. ResultsAreTrue'
  BY <1>0, <1>1, <1>2 DEF Leaves, PoolInv, ResultsAreTrue, TrueOf
<1> QED  BY <1>3, <1>4, <1>5, <1>6, <1>7 DEF PoolInv

\* The facts about one goroutine and its connection that the steps below use.
LEMMA HolderFacts ==
    ASSUME PoolInv, NEW u \in Users, pc[u] \notin {"idle", "take"}
    PROVE  /\ at[u] \in Slots /\ at[u] # NoSlot
           /\ slot[at[u]] = "held"
           /\ \A v \in Users : v # u => at[v] # at[u]
           /\ result[u] = "none"
           /\ ran[u] \in {0, 1}
<1>1. at[u] \in Slots /\ at[u] # NoSlot
  BY DEF PoolInv, TypeOK
<1> QED  BY <1>1 DEF PoolInv, NoConnectionLeaks, CallOK

-----------------------------------------------------------------------------
(* Steps that end the use of a connection                                  *)

\* A call ends without ErrBadConn.
LEMMA ReturnStep ==
    ASSUME PoolInv, NEW u \in Users, pc[u] \notin {"idle", "take"},
           NEW r \in Results, TrueOf(u, r), Return(u, r)
    PROVE  PoolInv'
<1>1. at[u] \in Slots
  BY HolderFacts
<1>2. TypeOK /\ NoConnectionLeaks
  BY DEF PoolInv
<1>3. Gives(at[u])
  BY <1>1, <1>2, PutConnGives DEF Return
<1>4. Leaves(u, "idle", r)
  BY <1>2, FinishLeaves DEF Return
<1>5. server' \in {"up", "down"} /\ losses' \in 0..MaxLosses
  BY <1>2 DEF Return, TypeOK
<1> QED  BY <1>1, <1>3, <1>4, <1>5, GiveBack

\* A connection is discarded, the holder's or an idle one, and the call, of
\* which nothing has been sent, is tried again or fails.
LEMMA TryAgainStep ==
    ASSUME PoolInv, NEW u \in Users, NEW c \in Slots,
           c = at[u] \/ (slot[c] = "idle" /\ at[u] = NoSlot),
           result[u] = "none", ran[u] = 0, Discard(c), TryAgain(u)
    PROVE  PoolInv'
<1>1. TypeOK
  BY DEF PoolInv
<1>2. Gives(c)
  BY <1>1, DiscardGives
<1>3. Leaves(u, "take", "none") \/ Leaves(u, "idle", "error")
  BY <1>1, TryAgainLeaves
<1>4. server' \in {"up", "down"} /\ losses' \in 0..MaxLosses
  BY <1>1 DEF TryAgain, TypeOK
<1>5. TrueOf(u, "none") /\ TrueOf(u, "error")
  BY DEF TrueOf, Results
<1>6. CASE Leaves(u, "take", "none")
  BY <1>2, <1>4, <1>5, <1>6, GiveBack
<1>7. CASE Leaves(u, "idle", "error")
  BY <1>2, <1>4, <1>5, <1>7, GiveBack
<1> QED  BY <1>3, <1>6, <1>7

\* The driver returns ErrBadConn, which it does before it has sent anything.
LEMMA ErrBadConnStep ==
    ASSUME PoolInv, NEW u \in Users, pc[u] \in {"prepare", "send"}, ErrBadConn(u)
    PROVE  PoolInv'
<1>1. at[u] \in Slots /\ result[u] = "none"
  BY HolderFacts
<1>2. ran[u] = 0
  BY DEF PoolInv, CallOK
<1> QED  BY <1>1, <1>2, TryAgainStep DEF ErrBadConn

\* A failed handshake.
LEMMA ConnectFailsStep ==
    ASSUME PoolInv, NEW u \in Users, pc[u] = "handshake", ConnectFails(u),
           losses' \in 0..MaxLosses
    PROVE  PoolInv'
<1>1. at[u] \in Slots
  BY HolderFacts
<1>2. TypeOK
  BY DEF PoolInv
<1>3. Gives(at[u])
  BY <1>1, <1>2, DiscardGives DEF ConnectFails
<1>4. Leaves(u, "idle", "error")
  BY <1>2, FinishLeaves DEF ConnectFails, Results
<1>5. server' \in {"up", "down"}
  BY <1>2 DEF ConnectFails, TypeOK
<1>6. TrueOf(u, "error")
  BY DEF TrueOf, Results
<1> QED  BY <1>1, <1>3, <1>4, <1>5, <1>6, GiveBack

-----------------------------------------------------------------------------
(* Steps of a goroutine without a connection                               *)

\* It moves between "idle" and "take"; no connection changes.
LEMMA ApartStep ==
    ASSUME PoolInv, NEW u \in Users, pc[u] \in {"idle", "take"},
           NEW p \in {"idle", "take"}, pc' = [pc EXCEPT ![u] = p],
           NEW r \in Results, result' = [result EXCEPT ![u] = r],
           NEW n \in {0, 1}, ran' = [ran EXCEPT ![u] = n],
           p = "take" => r = "none" /\ n = 0,
           r = "ok" => n = 1,
           r \in {"refused", "local", "cancelled"} => n = 0,
           at' = at,
           kind' \in [Users -> AllKinds \cup {"none"}],
           tries' \in [Users -> 0..MaxTries],
           cancelled' \in [Users -> BOOLEAN],
           UNCHANGED <<server, losses, connVars>>
    PROVE  PoolInv'
<1>0. pc \in [Users -> PcValues] /\ result \in [Users -> Results] /\ ran \in [Users -> 0..MaxTries]
      /\ at[u] = NoSlot
  BY DEF PoolInv, TypeOK
<1>1. \A v \in Users : v # u => pc'[v] = pc[v] /\ result'[v] = result[v] /\ ran'[v] = ran[v]
  BY <1>0
<1>2. pc'[u] = p /\ result'[u] = r /\ ran'[u] = n
  BY <1>0
<1>3. TypeOK'
  <2>1. pc' \in [Users -> PcValues] /\ result' \in [Users -> Results] /\ ran' \in [Users -> 0..MaxTries]
    BY <1>0 DEF PcValues, MaxTries
  <2>2. \A v \in Users : at'[v] = NoSlot <=> pc'[v] \in {"idle", "take"}
    BY <1>0, <1>1, <1>2 DEF PoolInv, TypeOK
  <2> QED  BY <2>1, <2>2 DEF PoolInv, TypeOK, connVars
<1>4. NoConnectionLeaks'
  BY DEF PoolInv, NoConnectionLeaks, connVars
<1>5. WireInv'
  BY <1>0, <1>1 DEF PoolInv, WireInv, connVars
<1>6. ASSUME NEW v \in Users
      PROVE  CallOK(v)'
  BY <1>1, <1>2 DEF PoolInv, CallOK, connVars
<1>7. ResultsAreTrue'
  BY <1>1, <1>2 DEF PoolInv, ResultsAreTrue
<1> QED  BY <1>3, <1>4, <1>5, <1>6, <1>7 DEF PoolInv

-----------------------------------------------------------------------------
(* Steps of a goroutine with its connection                                *)

\* A goroutine is given a connection that nobody holds.
LEMMA TakeStep ==
    ASSUME PoolInv, NEW u \in Users, pc[u] = "take",
           NEW c \in Slots, slot[c] # "held",
           NEW p \in {"handshake", "prepare", "send"},
           slot' = [slot EXCEPT ![c] = "held"],
           link' \in [Slots -> LinkStates],
           \A d \in Slots : d # c => link'[d] = link[d],
           at' = [at EXCEPT ![u] = c],
           pc' = [pc EXCEPT ![u] = p],
           UNCHANGED <<server, losses, client, old, wire, kind, tries, ran, result, cancelled>>
    PROVE  PoolInv'
<1> USE SlotsAssumption
<1>0. pc \in [Users -> PcValues] /\ at \in [Users -> Slots \cup {NoSlot}]
      /\ slot \in [Slots -> SlotStates] /\ at[u] = NoSlot /\ c # NoSlot
  BY DEF PoolInv, TypeOK, SlotStates
<1>1. \A v \in Users : v # u => pc'[v] = pc[v] /\ at'[v] = at[v] /\ at[v] # c
  BY <1>0 DEF PoolInv, NoConnectionLeaks
<1>2. pc'[u] = p /\ at'[u] = c
  BY <1>0
<1>3. TypeOK'
  <2>1. pc' \in [Users -> PcValues] /\ at' \in [Users -> Slots \cup {NoSlot}]
        /\ slot' \in [Slots -> SlotStates]
    BY <1>0 DEF PcValues, Sending, SlotStates
  <2>2. \A v \in Users : at'[v] = NoSlot <=> pc'[v] \in {"idle", "take"}
    BY <1>0, <1>1, <1>2 DEF PoolInv, TypeOK
  <2> QED  BY <2>1, <2>2 DEF PoolInv, TypeOK, SlotStates, LinkStates
<1>4. NoConnectionLeaks'
  <2>1. \A d \in Slots : link'[d] # "none" => slot'[d] # "free"
    BY <1>0 DEF PoolInv, NoConnectionLeaks
  <2>2. ASSUME NEW d \in Slots
        PROVE  slot'[d] = "held" <=> \E v \in Users : at'[v] = d
    <3>1. CASE d = c
      BY <3>1, <1>0, <1>2
    <3>2. CASE d # c
      <4>1. slot[d] = "held" <=> \E v \in Users : at[v] = d
        BY DEF PoolInv, NoConnectionLeaks
      <4>2. \A v \in Users : at'[v] = d <=> at[v] = d
        BY <3>2, <1>0, <1>1, <1>2
      <4> QED  BY <3>2, <4>1, <4>2, <1>0
    <3> QED  BY <3>1, <3>2
  <2>3. \A v, w \in Users : at'[v] = at'[w] /\ at'[v] # NoSlot => v = w
    BY <1>1, <1>2 DEF PoolInv, NoConnectionLeaks
  <2> QED  BY <2>1, <2>2, <2>3 DEF NoConnectionLeaks
<1>5. WireInv'
  BY <1>0, <1>1, <1>2 DEF PoolInv, WireInv
<1>6. ASSUME NEW v \in Users
      PROVE  CallOK(v)'
  BY <1>1, <1>2 DEF PoolInv, CallOK
<1>7. ResultsAreTrue'
  BY DEF PoolInv, ResultsAreTrue
<1> QED  BY <1>3, <1>4, <1>5, <1>6, <1>7 DEF PoolInv

\* The holder of a connection goes on: p is where it goes, w what is then
\* under way on its connection, n how often its statement has been executed.
LEMMA HolderStep ==
    ASSUME PoolInv, NEW u \in Users, pc[u] \notin {"idle", "take"},
           NEW p \in PcValues \ {"idle", "take"}, pc' = [pc EXCEPT ![u] = p],
           NEW w \in {"empty", "request", "reply", "refusal"},
           wire' = [wire EXCEPT ![at[u]] = w],
           NEW n \in {0, 1}, ran' = [ran EXCEPT ![u] = n],
           p # "await" => w = "empty",
           p \in {"handshake", "prepare", "send", "closed"} => n = 0,
           p = "rows" => n = 1,
           w \in {"request", "refusal"} => n = 0,
           w = "reply" => n = 1,
           client' \in [Slots -> {"nil", "set"}],
           link' \in [Slots -> LinkStates],
           \A d \in Slots : d # at[u] => link'[d] = link[d],
           losses' \in 0..MaxLosses,
           UNCHANGED <<server, slot, old, kind, at, tries, result, cancelled>>
    PROVE  PoolInv'
<1> USE SlotsAssumption
<1>0. /\ pc \in [Users -> PcValues] /\ ran \in [Users -> 0..MaxTries]
      /\ wire \in [Slots -> {"empty", "request", "reply", "refusal"}]
      /\ at \in [Users -> Slots \cup {NoSlot}]
  BY DEF PoolInv, TypeOK
<1>1. /\ at[u] \in Slots /\ at[u] # NoSlot /\ slot[at[u]] = "held" /\ result[u] = "none"
      /\ \A v \in Users : v # u => at[v] # at[u]
  BY HolderFacts
<1>2. \A v \in Users : v # u => /\ pc'[v] = pc[v] /\ ran'[v] = ran[v]
                                /\ at[v] \in Slots => wire'[at[v]] = wire[at[v]]
  BY <1>0, <1>1
<1>3. pc'[u] = p /\ ran'[u] = n /\ wire'[at[u]] = w
  BY <1>0, <1>1
<1>4. TypeOK'
  <2>1. pc' \in [Users -> PcValues]
    BY <1>0
  <2>2. ran' \in [Users -> 0..MaxTries]
    BY <1>0 DEF MaxTries
  <2>3. wire' \in [Slots -> {"empty", "request", "reply", "refusal"}]
    BY <1>0
  <2>4. \A v \in Users : at'[v] = NoSlot <=> pc'[v] \in {"idle", "take"}
    BY <1>1, <1>2, <1>3 DEF PoolInv, TypeOK
  <2> QED  BY <2>1, <2>2, <2>3, <2>4 DEF PoolInv, TypeOK, LinkStates
<1>5. NoConnectionLeaks'
  BY <1>1 DEF PoolInv, NoConnectionLeaks
<1>6. WireInv'
  <2>1. \A d \in Slots : slot'[d] # "held" => wire'[d] = "empty"
    BY <1>0, <1>1 DEF PoolInv, WireInv
  <2>2. ASSUME NEW v \in Users, at'[v] # NoSlot, pc'[v] # "await"
        PROVE  wire'[at'[v]] = "empty"
    BY <2>2, <1>0, <1>1, <1>2, <1>3 DEF PoolInv, WireInv
  <2> QED  BY <2>1, <2>2 DEF WireInv
<1>7. ASSUME NEW v \in Users
      PROVE  CallOK(v)'
  <2>1. CASE v = u
    BY <2>1, <1>1, <1>3 DEF CallOK, PcValues, Sending
  <2>2. CASE v # u
    <3>1. CallOK(v) /\ (pc[v] = "await" => at[v] \in Slots)
      BY <1>0 DEF PoolInv, TypeOK
    <3> QED  BY <2>2, <3>1, <1>2 DEF CallOK
  <2> QED  BY <2>1, <2>2
<1>8. ResultsAreTrue'
  BY <1>1, <1>2 DEF PoolInv, ResultsAreTrue
<1> QED  BY <1>4, <1>5, <1>6, <1>7, <1>8 DEF PoolInv

-----------------------------------------------------------------------------
(* The steps of Next                                                       *)

\* At first nobody holds a connection and nothing is under way.
LEMMA Initially == Init => PoolInv
<1> SUFFICES ASSUME Init PROVE PoolInv
  OBVIOUS
<1> USE SlotsAssumption, BoundsAssumption
<1>1. TypeOK
  BY DEF Init, TypeOK, PcValues, Results, MaxTries
<1>2. NoConnectionLeaks /\ WireInv /\ ResultsAreTrue
  BY DEF Init, NoConnectionLeaks, WireInv, ResultsAreTrue
<1>3. \A u \in Users : CallOK(u)
  BY DEF Init, CallOK
<1> QED  BY <1>1, <1>2, <1>3 DEF PoolInv

\* What a step leaves alone is what it writes back.
LEMMA Unwritten ==
    ASSUME PoolInv, NEW u \in Users
    PROVE  /\ pc = [pc EXCEPT ![u] = pc[u]]
           /\ ran = [ran EXCEPT ![u] = ran[u]]
           /\ result = [result EXCEPT ![u] = result[u]]
           /\ wire = [wire EXCEPT ![at[u]] = wire[at[u]]]
BY DEF PoolInv, TypeOK

\* A call starts without a connection.
LEMMA StartStep ==
    ASSUME PoolInv, NEW u \in Users, NEW k \in AllKinds \cup {"none"}, Start(u, k)
    PROVE  PoolInv'
<1>1. kind' \in [Users -> AllKinds \cup {"none"}]
  BY DEF Start, PoolInv, TypeOK
<1>2. tries' \in [Users -> 0..MaxTries]
  BY DEF Start, PoolInv, TypeOK, MaxTries
<1>3. cancelled' \in [Users -> BOOLEAN]
  BY DEF Start, PoolInv, TypeOK
<1>4. "none" \in Results
  BY DEF Results
<1> QED  BY <1>1, <1>2, <1>3, <1>4, ApartStep DEF Start

\* A cancelled context changes nothing but itself.
LEMMA CancelStep ==
    ASSUME PoolInv, NEW u \in Users, Cancel(u)
    PROVE  PoolInv'
<1>1. TypeOK'
  <2>1. cancelled' \in [Users -> BOOLEAN]
    BY DEF Cancel, PoolInv, TypeOK
  <2> QED  BY <2>1 DEF Cancel, PoolInv, TypeOK, connVars
<1>2. NoConnectionLeaks' /\ WireInv' /\ ResultsAreTrue' /\ \A v \in Users : CallOK(v)'
  BY DEF Cancel, connVars, PoolInv, NoConnectionLeaks, WireInv, ResultsAreTrue, CallOK
<1> QED  BY <1>1, <1>2 DEF PoolInv

\* A call that ends while it has no connection: none has been opened, or the
\* context was cancelled before.
LEMMA FinishApart ==
    ASSUME PoolInv, NEW u \in Users, pc[u] = "take",
           NEW r \in {"cancelled", "error"}, Finish(u, r), UNCHANGED <<server, losses, connVars>>
    PROVE  PoolInv'
<1>1. r \in Results /\ TypeOK
  BY DEF Results, PoolInv
<1>2. Leaves(u, "idle", r)
  BY <1>1, FinishLeaves
<1>3. at' = at
  BY <1>1, <1>2 DEF Leaves, TypeOK
<1>4. ran[u] = 0 /\ ran' = [ran EXCEPT ![u] = 0]
  BY <1>2, Unwritten DEF Leaves, PoolInv, CallOK
<1> QED  BY <1>1, <1>2, <1>3, <1>4, ApartStep DEF Leaves

\* A connection is taken from the pool, or opened.
LEMMA TakeSteps ==
    ASSUME PoolInv, NEW u \in Users, Take(u)
    PROVE  PoolInv'
<1>0. pc[u] = "take" /\ at[u] = NoSlot /\ result[u] = "none" /\ ran[u] = 0
  <2>1. pc[u] = "take"
    BY DEF Take, TakeCancelled, TakeIdle, TakeExpired, Connect, DialFails
  <2> QED  BY <2>1 DEF PoolInv, TypeOK, CallOK
<1>1. CASE TakeCancelled(u)
  BY <1>0, <1>1, FinishApart DEF TakeCancelled
<1>2. ASSUME NEW c \in Slots, TakeIdle(u, c)
      PROVE  PoolInv'
  <2>1. Ready(u) \in {"handshake", "prepare", "send"}
    BY DEF Ready
  <2>2. link' \in [Slots -> LinkStates] /\ \A d \in Slots : d # c => link'[d] = link[d]
    BY <1>2 DEF TakeIdle, PoolInv, TypeOK, LinkStates
  <2> QED  BY <1>0, <1>2, <2>1, <2>2, TakeStep DEF TakeIdle
<1>3. ASSUME NEW c \in Slots, TakeExpired(u, c)
      PROVE  PoolInv'
  BY <1>0, <1>3, TryAgainStep DEF TakeExpired
<1>4. ASSUME NEW c \in Slots, Connect(u, c)
      PROVE  PoolInv'
  <2>1. link' \in [Slots -> LinkStates] /\ \A d \in Slots : d # c => link'[d] = link[d]
    BY <1>4 DEF Connect, PoolInv, TypeOK, LinkStates
  <2> QED  BY <1>0, <1>4, <2>1, TakeStep DEF Connect
<1>5. ASSUME NEW c \in Slots, DialFails(u, c)
      PROVE  PoolInv'
  BY <1>0, <1>5, FinishApart DEF DialFails
<1> QED  BY <1>1, <1>2, <1>3, <1>4, <1>5 DEF Take

\* The steps of a holder that leave the link as it is.
LEMMA Going ==
    ASSUME PoolInv, NEW u \in Users, pc[u] \notin {"idle", "take"},
           UNCHANGED <<server, losses, slot, link, old, kind, at, tries, result, cancelled>>
    PROVE  /\ link' \in [Slots -> LinkStates]
           /\ \A d \in Slots : d # at[u] => link'[d] = link[d]
           /\ losses' \in 0..MaxLosses
BY DEF PoolInv, TypeOK, LinkStates

\* The handshake succeeds on a connection that its goroutine holds.
LEMMA ConnectedStep ==
    ASSUME PoolInv, NEW u \in Users, Connected(u)
    PROVE  PoolInv'
<1>0. pc[u] = "handshake" /\ at[u] \in Slots /\ ran[u] = 0 /\ wire[at[u]] = "empty"
  <2>1. pc[u] = "handshake"
    BY DEF Connected
  <2> QED  BY <2>1, HolderFacts DEF PoolInv, CallOK, WireInv
<1>1. client' \in [Slots -> {"nil", "set"}]
  BY DEF Connected, PoolInv, TypeOK
<1>2. Ready(u) \in {"prepare", "send"} /\ Ready(u) \in PcValues \ {"idle", "take"}
  BY DEF Ready, PcValues, Sending
<1>3. wire' = [wire EXCEPT ![at[u]] = "empty"] /\ ran' = [ran EXCEPT ![u] = 0]
  BY <1>0, Unwritten DEF Connected
<1>4. pc' = [pc EXCEPT ![u] = Ready(u)]
      /\ UNCHANGED <<server, losses, slot, link, old, kind, at, tries, result, cancelled>>
  BY DEF Connected
<1> QED  BY <1>0, <1>1, <1>2, <1>3, <1>4, Going, HolderStep

\* Prepare sends nothing.
LEMMA PrepareStep ==
    ASSUME PoolInv, NEW u \in Users, Prepare(u)
    PROVE  PoolInv'
<1>0. pc[u] = "prepare" /\ at[u] \in Slots /\ ran[u] = 0 /\ wire[at[u]] = "empty"
  <2>1. pc[u] = "prepare"
    BY DEF Prepare
  <2> QED  BY <2>1, HolderFacts DEF PoolInv, CallOK, WireInv
<1>1. CASE isConnected(at[u])
  <2>1. client' \in [Slots -> {"nil", "set"}]
    BY <1>1 DEF Prepare, PoolInv, TypeOK, connVars
  <2>2. wire' = [wire EXCEPT ![at[u]] = "empty"] /\ ran' = [ran EXCEPT ![u] = 0]
    BY <1>0, <1>1, Unwritten DEF Prepare, connVars
  <2>3. pc' = [pc EXCEPT ![u] = "send"]
        /\ UNCHANGED <<server, losses, slot, link, old, kind, at, tries, result, cancelled>>
    BY <1>1 DEF Prepare, connVars
  <2>4. "send" \in PcValues \ {"idle", "take"}
    BY DEF PcValues, Sending
  <2> QED  BY <1>0, <2>1, <2>2, <2>3, <2>4, Going, HolderStep
<1>2. CASE ~isConnected(at[u])
  BY <1>0, <1>2, ErrBadConnStep DEF Prepare
<1> QED  BY <1>1, <1>2

\* A request is the only thing under way on its connection.
LEMMA SendStep ==
    ASSUME PoolInv, NEW u \in Users, Send(u)
    PROVE  PoolInv'
<1>0. pc[u] = "send" /\ at[u] \in Slots /\ ran[u] = 0 /\ wire[at[u]] = "empty"
  <2>1. pc[u] = "send"
    BY DEF Send, Sends
  <2> QED  BY <2>1, HolderFacts DEF PoolInv, CallOK, WireInv
<1>1. client' \in [Slots -> {"nil", "set"}]
  BY DEF Send, PoolInv, TypeOK
<1>2. PICK w \in {"empty", "request"} : wire' = [wire EXCEPT ![at[u]] = w]
  BY <1>0 DEF Send, PoolInv, TypeOK
<1>3. ran' = [ran EXCEPT ![u] = 0]
  BY <1>0, Unwritten DEF Send
<1>4. pc' = [pc EXCEPT ![u] = "await"]
      /\ UNCHANGED <<server, losses, slot, link, old, kind, at, tries, result, cancelled>>
  BY DEF Send
<1>5. "await" \in PcValues \ {"idle", "take"}
  BY DEF PcValues, Sending
<1> QED  BY <1>0, <1>1, <1>2, <1>3, <1>4, <1>5, Going, HolderStep

\* An answer is read by the goroutine that has asked.
LEMMA ReadStep ==
    ASSUME PoolInv, NEW u \in Users, Read(u)
    PROVE  PoolInv'
<1>0. pc[u] = "await" /\ at[u] \in Slots
  <2>1. pc[u] = "await"
    BY DEF Read
  <2> QED  BY <2>1, HolderFacts
<1>1. CASE wire[at[u]] = "refusal" /\ Return(u, "refused")
  <2>1. TrueOf(u, "refused")
    BY <1>0, <1>1 DEF PoolInv, CallOK, TrueOf, Results
  <2> QED  BY <1>0, <1>1, <2>1, ReturnStep DEF Results
<1>2. CASE wire[at[u]] = "reply" /\ Return(u, "ok")
  <2>1. TrueOf(u, "ok")
    BY <1>0, <1>2 DEF PoolInv, CallOK, TrueOf, Results
  <2> QED  BY <1>0, <1>2, <2>1, ReturnStep DEF Results
<1>3. CASE /\ wire[at[u]] = "reply"
           /\ wire' = [wire EXCEPT ![at[u]] = "empty"]
           /\ pc' = [pc EXCEPT ![u] = "rows"]
           /\ UNCHANGED <<server, losses, slot, client, link, old,
                          kind, at, tries, ran, result, cancelled>>
  <2>1. client' \in [Slots -> {"nil", "set"}]
    BY <1>3 DEF PoolInv, TypeOK
  <2>2. ran[u] = 1
    BY <1>0, <1>3 DEF PoolInv, CallOK
  <2>3. ran' = [ran EXCEPT ![u] = 1]
    BY <1>3, <2>2, Unwritten
  <2>4. "rows" \in PcValues \ {"idle", "take"}
    BY DEF PcValues, Sending
  <2>5. /\ link' \in [Slots -> LinkStates]
        /\ \A d \in Slots : d # at[u] => link'[d] = link[d]
        /\ losses' \in 0..MaxLosses
    BY <1>0, <1>3, Going
  <2>6. /\ wire' = [wire EXCEPT ![at[u]] = "empty"] /\ pc' = [pc EXCEPT ![u] = "rows"]
        /\ UNCHANGED <<server, slot, old, kind, at, tries, result, cancelled>>
    BY <1>3
  <2> QED  BY <1>0, <2>1, <2>3, <2>4, <2>5, <2>6, HolderStep
<1> QED  BY <1>1, <1>2, <1>3 DEF Read

\* The server executes a statement once, while its caller waits.
LEMMA ServeStep ==
    ASSUME PoolInv, NEW u \in Users, Serve(u)
    PROVE  PoolInv'
<1>0. pc[u] = "await" /\ at[u] \in Slots /\ ran[u] = 0
  <2>1. pc[u] = "await" /\ wire[at[u]] = "request"
    BY DEF Serve
  <2> QED  BY <2>1, HolderFacts DEF PoolInv, CallOK
<1>1. client' \in [Slots -> {"nil", "set"}]
  BY DEF Serve, PoolInv, TypeOK
<1>2. \/ wire' = [wire EXCEPT ![at[u]] = "reply"] /\ ran' = [ran EXCEPT ![u] = 1]
      \/ wire' = [wire EXCEPT ![at[u]] = "refusal"] /\ ran' = [ran EXCEPT ![u] = 0]
  BY <1>0, Unwritten DEF Serve, PoolInv, TypeOK
<1>3. pc' = [pc EXCEPT ![u] = "await"]
  BY <1>0, Unwritten DEF Serve
<1>4. UNCHANGED <<server, losses, slot, link, old, kind, at, tries, result, cancelled>>
  BY DEF Serve
<1>5. "await" \in PcValues \ {"idle", "take"}
  BY DEF PcValues, Sending
<1>6. /\ link' \in [Slots -> LinkStates]
      /\ \A d \in Slots : d # at[u] => link'[d] = link[d]
      /\ losses' \in 0..MaxLosses
  BY <1>0, <1>4, Going
<1>7. CASE wire' = [wire EXCEPT ![at[u]] = "reply"] /\ ran' = [ran EXCEPT ![u] = 1]
  BY <1>0, <1>1, <1>3, <1>4, <1>5, <1>6, <1>7, HolderStep
<1>8. CASE wire' = [wire EXCEPT ![at[u]] = "refusal"] /\ ran' = [ran EXCEPT ![u] = 0]
  BY <1>0, <1>1, <1>3, <1>4, <1>5, <1>6, <1>8, HolderStep
<1> QED  BY <1>2, <1>7, <1>8

\* A connection that is closed in use has nothing under way.
LEMMA RawCloseStep ==
    ASSUME PoolInv, NEW u \in Users, RawClose(u)
    PROVE  PoolInv'
<1>0. pc[u] = "send" /\ at[u] \in Slots /\ ran[u] = 0 /\ wire[at[u]] = "empty"
  <2>1. pc[u] = "send"
    BY DEF RawClose
  <2> QED  BY <2>1, HolderFacts DEF PoolInv, CallOK, WireInv
<1>1. client' \in [Slots -> {"nil", "set"}] /\ link' \in [Slots -> LinkStates]
      /\ \A d \in Slots : d # at[u] => link'[d] = link[d]
  BY DEF RawClose, Close, PoolInv, TypeOK, LinkStates
<1>2. losses' \in 0..MaxLosses
  BY BoundsAssumption DEF RawClose, PoolInv, TypeOK
<1>3. wire' = [wire EXCEPT ![at[u]] = "empty"] /\ ran' = [ran EXCEPT ![u] = 0]
  BY <1>0, Unwritten DEF RawClose
<1>4. "closed" \in PcValues \ {"idle", "take"}
  BY DEF PcValues, Sending
<1>5. /\ pc' = [pc EXCEPT ![u] = "closed"]
      /\ UNCHANGED <<server, slot, old, kind, at, tries, result, cancelled>>
  BY DEF RawClose
<1> QED  BY <1>0, <1>1, <1>2, <1>3, <1>4, <1>5, HolderStep

\* Every step of a goroutine preserves the invariant.
LEMMA DriverSteps ==
    ASSUME PoolInv, NEW u \in Users, Driver(u)
    PROVE  PoolInv'
<1>0. TrueOf(u, "error") /\ {"ok", "error", "local"} \subseteq Results
  BY DEF TrueOf, Results
<1>1. CASE HandshakeFails(u)
  BY <1>1, ConnectFailsStep DEF HandshakeFails, PoolInv, TypeOK
<1>2. CASE Prepare(u)
  BY <1>2, PrepareStep
<1>3. CASE NotConnected(u)
  BY <1>0, <1>3, ReturnStep, ErrBadConnStep DEF NotConnected, Sends
<1>4. CASE Send(u)
  BY <1>4, SendStep
<1>5. CASE WriteFails(u)
  BY <1>0, <1>5, ReturnStep DEF WriteFails, Sends
<1>6. CASE Read(u)
  BY <1>6, ReadStep
<1>7. CASE ReadFails(u)
  BY <1>0, <1>7, ReturnStep DEF ReadFails
<1>8. CASE RowsClose(u)
  <2>1. TrueOf(u, "ok")
    BY <1>8 DEF RowsClose, PoolInv, CallOK, TrueOf, Results
  <2> QED  BY <1>0, <1>8, <2>1, ReturnStep DEF RowsClose
<1>9. CASE Begin(u) \/ RawReturns(u)
  <2>1. pc[u] \in {"send", "closed"} /\ Return(u, "local")
    BY <1>9 DEF Begin, RawReturns
  <2>2. TrueOf(u, "local")
    BY <2>1 DEF PoolInv, CallOK, TrueOf, Results
  <2> QED  BY <1>0, <2>1, <2>2, ReturnStep
<1>10. CASE RawClose(u)
  BY <1>10, RawCloseStep
<1> QED  BY <1>1, <1>2, <1>3, <1>4, <1>5, <1>6, <1>7, <1>8, <1>9, <1>10 DEF Driver

\* What is under way is lost: a goroutine that waited for it waits in vain.
LEMMA LoseStep ==
    ASSUME PoolInv, NEW C \in SUBSET Slots, Lose(C), server' \in {"up", "down"}
    PROVE  PoolInv'
<1>1. TypeOK'
  <2>1. losses' \in 0..MaxLosses
    BY BoundsAssumption DEF Lose, PoolInv, TypeOK
  <2>2. link' \in [Slots -> {"none", "up", "down"}]
    BY DEF Lose, PoolInv, TypeOK
  <2>3. wire' \in [Slots -> {"empty", "request", "reply", "refusal"}]
    BY DEF Lose, PoolInv, TypeOK
  <2> QED  BY <2>1, <2>2, <2>3 DEF Lose, PoolInv, TypeOK, callVars
<1>2. \A c \in Slots : /\ wire'[c] \in {"empty", wire[c]}
                       /\ link'[c] # "none" => link[c] # "none"
  BY DEF Lose
<1>3. NoConnectionLeaks'
  BY <1>2 DEF Lose, PoolInv, NoConnectionLeaks, callVars
<1>4. at \in [Users -> Slots \cup {NoSlot}] /\ \A u \in Users : at[u] = NoSlot <=> pc[u] \in {"idle", "take"}
  BY DEF PoolInv, TypeOK
<1>5. WireInv'
  BY <1>2, <1>4 DEF Lose, PoolInv, WireInv, callVars
<1>6. ASSUME NEW u \in Users
      PROVE  CallOK(u)'
  BY <1>2, <1>4 DEF Lose, PoolInv, CallOK, callVars
<1>7. ResultsAreTrue'
  BY DEF Lose, PoolInv, ResultsAreTrue, callVars
<1> QED  BY <1>1, <1>3, <1>5, <1>6, <1>7 DEF PoolInv

\* The pool's cleaner closes an idle connection.
LEMMA CleanStep ==
    ASSUME PoolInv, NEW c \in Slots, Clean(c)
    PROVE  PoolInv'
<1> USE SlotsAssumption
<1>0. /\ slot \in [Slots -> SlotStates] /\ slot[c] = "idle" /\ wire[c] = "empty"
      /\ wire \in [Slots -> {"empty", "request", "reply", "refusal"}]
      /\ UNCHANGED callVars
  BY DEF Clean, PoolInv, TypeOK, WireInv, SlotStates
<1>1. Gives(c)
  BY DiscardGives DEF Clean, PoolInv
<1>2. slot'[c] = "free" /\ link'[c] = "none" /\ wire' = wire
  BY <1>0 DEF Clean, Discard, Close, PoolInv, TypeOK
<1>3. TypeOK'
  BY <1>0, <1>1, <1>2 DEF Clean, Gives, PoolInv, TypeOK, callVars, SlotStates, LinkStates
<1>4. NoConnectionLeaks'
  <2>1. \A d \in Slots : slot'[d] = "held" <=> slot[d] = "held"
    BY <1>0, <1>1, <1>2 DEF Gives
  <2> QED  BY <1>0, <1>1, <1>2, <2>1 DEF Gives, PoolInv, NoConnectionLeaks, callVars
<1>5. WireInv'
  BY <1>0, <1>1, <1>2 DEF Gives, PoolInv, WireInv, callVars
<1>6. ResultsAreTrue' /\ \A u \in Users : CallOK(u)'
  BY <1>0, <1>2 DEF PoolInv, ResultsAreTrue, CallOK, callVars
<1> QED  BY <1>3, <1>4, <1>5, <1>6 DEF PoolInv

\* Restart, Age and a stuttering step change nothing that the invariant is about.
LEMMA IdleStep ==
    ASSUME PoolInv, server' \in {"up", "down"}, old' \in [Slots -> BOOLEAN],
           UNCHANGED <<losses, slot, client, link, wire, callVars>>
    PROVE  PoolInv'
<1>1. TypeOK'
  BY DEF PoolInv, TypeOK, callVars
<1>2. NoConnectionLeaks' /\ WireInv' /\ ResultsAreTrue' /\ \A u \in Users : CallOK(u)'
  BY DEF PoolInv, NoConnectionLeaks, WireInv, ResultsAreTrue, CallOK, callVars
<1> QED  BY <1>1, <1>2 DEF PoolInv

\* So does every step.
LEMMA NextStep ==
    ASSUME PoolInv, [Next]_vars
    PROVE  PoolInv'
<1>0. server \in {"up", "down"} /\ old \in [Slots -> BOOLEAN] /\ losses \in 0..MaxLosses
      /\ kind \in [Users -> AllKinds \cup {"none"}]
  BY DEF PoolInv, TypeOK
<1>1. ASSUME NEW u \in Users, NEW k \in Kinds[u], Call(u, k)
      PROVE  PoolInv'
  <2>1. k \in AllKinds \cup {"none"}
    BY KindsAssumption
  <2> QED  BY <1>1, <2>1, StartStep DEF Call
<1>2. ASSUME NEW u \in Users, Retry(u)
      PROVE  PoolInv'
  BY <1>0, <1>2, StartStep DEF Retry
<1>3. ASSUME NEW u \in Users, HandshakeRefused(u)
      PROVE  PoolInv'
  <2>1. losses' \in 0..MaxLosses
    BY <1>0, <1>3, BoundsAssumption DEF HandshakeRefused
  <2> QED  BY <1>3, <2>1, ConnectFailsStep DEF HandshakeRefused
<1>4. ASSUME NEW u \in Users, Cancel(u) \/ Take(u) \/ Driver(u) \/ Connected(u) \/ Serve(u)
      PROVE  PoolInv'
  BY <1>4, CancelStep, TakeSteps, DriverSteps, ConnectedStep, ServeStep
<1>5. ASSUME NEW c \in Slots, LinkDown(c)
      PROVE  PoolInv'
  BY <1>0, <1>5, LoseStep DEF LinkDown
<1>6. ASSUME NEW c \in Slots, Age(c)
      PROVE  PoolInv'
  <2>1. old' \in [Slots -> BOOLEAN]
    BY <1>0, <1>6 DEF Age
  <2> QED  BY <1>0, <1>6, <2>1, IdleStep DEF Age
<1>7. CASE Crash
  BY <1>7, LoseStep DEF Crash
<1>8. CASE Restart
  BY <1>0, <1>8, IdleStep DEF Restart, connVars
<1>9. CASE UNCHANGED vars
  BY <1>0, <1>9, IdleStep DEF vars, connVars
<1> QED  BY <1>1, <1>2, <1>3, <1>4, <1>5, <1>6, <1>7, <1>8, <1>9, CleanStep DEF Next

-----------------------------------------------------------------------------
(* The theorems                                                            *)

\* PoolInv is an invariant of the driver under database/sql.
THEOREM PoolInvariance == Spec => []PoolInv
<1>1. Init => PoolInv
  BY Initially
<1>2. PoolInv /\ [Next]_vars => PoolInv'
  BY NextStep
<1> QED  BY <1>1, <1>2, PTL DEF Spec

\* The state keeps its types, and a goroutine has a connection exactly while
\* it uses one.
THEOREM PoolTypes == Spec => []TypeOK
<1>1. PoolInv => TypeOK
  BY DEF PoolInv
<1> QED  BY <1>1, PoolInvariance, PTL

\* For any number of tries, losses and goroutines, a statement is executed at
\* most once for each call of the sql.DB: ErrBadConn (conn.go:83, 159) is
\* returned only before the statement has been sent.
THEOREM AtMostOnce == Spec => []ExecutedAtMostOnce
<1>1. PoolInv => ExecutedAtMostOnce
  BY DEF PoolInv, CallOK, ExecutedAtMostOnce
<1> QED  BY <1>1, PoolInvariance, PTL

\* A call without an error has executed its statement once; one that was
\* refused, or whose context ended, has not.
THEOREM TrueResults == Spec => []ResultsAreTrue
<1>1. PoolInv => ResultsAreTrue
  BY DEF PoolInv
<1> QED  BY <1>1, PoolInvariance, PTL

\* No TCP connection is left open that the pool does not know (client.go:308,
\* conn.Close), and no two goroutines have the same one.
THEOREM NoLeaks == Spec => []NoConnectionLeaks
<1>1. PoolInv => NoConnectionLeaks
  BY DEF PoolInv
<1> QED  BY <1>1, PoolInvariance, PTL
=============================================================================
