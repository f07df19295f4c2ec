--------------------------- MODULE ListenerProofs ---------------------------
(***************************************************************************)
(* The receive loop and its tasks, for any number of datagrams, any sizes  *)
(* of pool and batch and any configurations: buffers and clients are       *)
(* accounted for, every request is settled, and no task panics while the   *)
(* configured window is in the range of the option.                        *)
(***************************************************************************)
EXTENDS Listener, RequestsProofs

Holding == {"handling", "transferring", "releasing"}
Unfinished == TaskPhases \ {"none", "gone"}

---------------------------------------------------------------------------
(* Counting tasks. *)

\* The datagrams that arrived are finitely many.
LEMMA IdsFinite ==
  ASSUME TypeOK PROVE Ids = 1..Len(req) /\ IsFiniteSet(Ids) /\ Len(req) \in Nat /\ Ids \subseteq 1..MaxDatagrams
<1>1. Ids = 1..Len(req) /\ Len(req) \in Nat /\ Len(req) <= MaxDatagrams
  BY LenProperties DEF TypeOK, Ids
<1>2. QED
  BY <1>1, FS_Interval, ListenerAssumption

\* What becomes of the counts when the task of datagram i goes on.
LEMMA PhaseCounts ==
  ASSUME TypeOK, NEW i \in Ids, req' = req,
         \A j \in Ids \ {i} : phase'[j] = phase[j], NEW S
  PROVE  /\ InPhase(S) \in Nat
         /\ phase[i] \in S => InPhase(S) > 0
         /\ InPhase(S)' = InPhase(S) + (IF phase'[i] \in S THEN 1 ELSE 0)
                                     - (IF phase[i] \in S THEN 1 ELSE 0)
<1>1. IsFiniteSet(Ids) /\ Ids' = Ids
  BY IdsFinite DEF Ids
<1> DEFINE F == {j \in Ids : phase[j] \in S}
           G == {j \in Ids : phase'[j] \in S}
<1>2. /\ F \subseteq Ids /\ G \subseteq Ids /\ F \ {i} = G \ {i}
      /\ i \in F <=> phase[i] \in S
      /\ i \in G <=> phase'[i] \in S
  OBVIOUS
<1>3. InPhase(S) = Cardinality(F) /\ InPhase(S)' = Cardinality(G)
  BY <1>1 DEF InPhase
<1> HIDE DEF F, G
<1>4. QED
  BY <1>1, <1>2, <1>3, CountMoves

\* A count is a number.
LEMMA InPhaseNat ==
  ASSUME TypeOK, NEW S PROVE InPhase(S) \in Nat
<1>1. IsFiniteSet(Ids) /\ {j \in Ids : phase[j] \in S} \in SUBSET Ids
  BY IdsFinite
<1>2. QED
  BY <1>1, FS_Subset, FS_CardinalityType DEF InPhase

---------------------------------------------------------------------------
(* The inductive invariant. *)

\* The queues in numbers.
LEMMA QueueFacts ==
  ASSUME TypeOK
  PROVE  /\ Len(req) \in Nat /\ Len(socket) \in Nat /\ Len(batch) \in Nat
         /\ Ids = 1..Len(req) /\ Len(req) <= MaxDatagrams /\ MaxDatagrams \in Nat
         /\ socket \in Seq(Ids) /\ batch \in Seq(Ids)
         /\ DOMAIN socket = 1..Len(socket) /\ DOMAIN batch = 1..Len(batch)
         /\ batch = <<>> <=> Len(batch) = 0
         /\ socket = <<>> <=> Len(socket) = 0
<1>1. socket \in Seq(Ids) /\ batch \in Seq(Ids) /\ Len(req) <= MaxDatagrams
  BY DEF TypeOK
<1>2. Ids = 1..Len(req) /\ Len(req) \in Nat
  BY IdsFinite
<1>3. QED
  BY <1>1, <1>2, LenProperties, EmptySeq, ListenerAssumption

\* The initial state.
LEMMA ListenerInit == Init => ListenerInv
<1>1. SUFFICES ASSUME Init PROVE ListenerInv
  OBVIOUS
<1>2. MaxDatagrams \in Nat /\ MaxErrors \in Nat /\ POOL_SIZE \in Nat \ {0}
  BY ListenerAssumption
<1>3. Ids = {} /\ Len(req) = 0 /\ Len(socket) = 0 /\ Len(batch) = 0
  BY <1>1 DEF Init, Ids
<1>4. POOL_SIZE \div 2 \in 0..POOL_SIZE
  BY <1>2
<1>5. TypeOK
  BY <1>1, <1>2, <1>3, <1>4 DEF Init, TypeOK, TaskPhases
<1>6. InOrder /\ LoopOk
  BY <1>1, <1>2, <1>3 DEF Init, InOrder, LoopOk, Taken
<1>7. \A S : InPhase(S) = 0
  BY <1>3, FS_EmptySet DEF InPhase
<1>8. ResourcesAccounted
  BY <1>1, <1>2, <1>4, <1>7 DEF Init, ResourcesAccounted, Holders
<1>9. QED
  BY <1>1, <1>3, <1>5, <1>6, <1>8 DEF Init, ListenerInv, NoPanic

\* A datagram arrives.
LEMMA ArriveInv ==
  ASSUME ListenerInv, NEW d \in Datagrams, Arrive(d) PROVE ListenerInv'
<1>1. TypeOK /\ InOrder /\ LoopOk /\ ResourcesAccounted /\ NoPanic
  BY DEF ListenerInv
<1>2. /\ Len(req) \in Nat /\ Len(socket) \in Nat /\ Len(batch) \in Nat
      /\ Ids = 1..Len(req) /\ Len(req) <= MaxDatagrams /\ MaxDatagrams \in Nat
      /\ socket \in Seq(Ids) /\ batch \in Seq(Ids)
      /\ DOMAIN socket = 1..Len(socket) /\ DOMAIN batch = 1..Len(batch)
  BY <1>1, QueueFacts
<1>3. /\ Len(req) < MaxDatagrams /\ req' = Append(req, d) /\ socket' = Append(socket, Len(req'))
      /\ UNCHANGED <<cfg, pc, batch, pool, active_clients, phase, answer, errors>>
  BY DEF Arrive
<1>4. /\ req' \in Seq(Datagrams) /\ Len(req') = Len(req) + 1
      /\ \A i \in 1..Len(req) : req'[i] = req[i]
      /\ Ids' = 1..(Len(req) + 1)
  BY <1>1, <1>3, AppendProperties DEF TypeOK, Ids
<1>5. /\ socket' \in Seq(Ids') /\ Len(socket') = Len(socket) + 1
      /\ \A k \in 1..Len(socket) : socket'[k] = socket[k]
      /\ socket'[Len(socket) + 1] = Len(req) + 1
      /\ DOMAIN socket' = 1..(Len(socket) + 1)
  <2>1. socket \in Seq(Ids') /\ Len(req') \in Ids'
    BY <1>2, <1>4
  <2>2. QED
    BY <1>2, <1>3, <1>4, <2>1, AppendProperties
<1>6. batch' \in Seq(Ids')
  BY <1>2, <1>3, <1>4
<1>7. TypeOK'
  BY <1>1, <1>2, <1>3, <1>4, <1>5, <1>6 DEF TypeOK
<1>8. Taken' = Taken /\ Taken \in Nat
  BY <1>1, <1>2, <1>3, <1>4, <1>5 DEF Taken, InOrder
<1>9. InOrder'
  <2>1. \A k \in DOMAIN socket' : socket'[k] = Taken + Len(batch) + k
    <3>1. Len(req) + 1 = Taken + Len(batch) + (Len(socket) + 1)
      BY <1>2 DEF Taken
    <3>2. \A k \in 1..Len(socket) : socket'[k] = Taken + Len(batch) + k
      BY <1>1, <1>2, <1>5 DEF InOrder
    <3>3. SUFFICES ASSUME NEW k \in 1..(Len(socket) + 1)
                   PROVE  socket'[k] = Taken + Len(batch) + k
      BY <1>5
    <3>4. CASE k = Len(socket) + 1
      BY <1>5, <3>1, <3>4
    <3>5. CASE k # Len(socket) + 1
      BY <1>2, <3>2, <3>5
    <3>6. QED
      BY <3>4, <3>5
  <2>2. QED
    BY <1>1, <1>3, <1>8, <2>1 DEF InOrder
<1>10. phase[Len(req) + 1] = "none"
  BY <1>1, <1>2, <1>3, <1>8 DEF InOrder, Taken
<1>11. ASSUME NEW S, "none" \notin S PROVE InPhase(S)' = InPhase(S)
  <2>1. {i \in Ids' : phase'[i] \in S} = {i \in Ids : phase[i] \in S}
    BY <1>2, <1>3, <1>4, <1>10, <1>11
  <2>2. QED
    BY <2>1 DEF InPhase
<1>12. ResourcesAccounted'
  <2>1. "none" \notin Holding /\ "none" \notin {"panicked"} /\ "none" \notin Unfinished
    BY DEF Holding, Unfinished
  <2>2. QED
    BY <1>1, <1>3, <1>11, <2>1 DEF ResourcesAccounted, Holders, Holding, Unfinished
<1>13. ASSUME NEW i \in Ids' PROVE AnswerOk(i)'
  <2>1. CASE i \in Ids
    BY <1>2, <1>3, <1>4, <2>1 DEF AnswerOk, ListenerInv
  <2>2. CASE i = Len(req) + 1
    BY <1>2, <1>3, <1>10, <2>2 DEF AnswerOk, ListenerInv
  <2>3. QED
    BY <1>2, <1>4, <2>1, <2>2
<1>14. QED
  BY <1>1, <1>3, <1>7, <1>9, <1>12, <1>13 DEF ListenerInv, LoopOk, NoPanic

\* The loop decides, acquires a buffer, or meets an error.
LEMMA LoopInv ==
  ASSUME ListenerInv, Decide \/ Acquire \/ BatchRecvError \/ RecvError PROVE ListenerInv'
<1>1. TypeOK /\ InOrder /\ LoopOk /\ ResourcesAccounted /\ NoPanic
  BY DEF ListenerInv
<1>2. /\ UNCHANGED <<cfg, req, socket, batch, active_clients, phase, answer>>
      /\ pc # "batch" /\ pc' \in {"decide", "batch_recv", "acquire", "recv_from"}
  BY DEF Decide, Acquire, BatchRecvError, RecvError
<1>3. /\ errors \in 0..MaxErrors /\ MaxErrors \in Nat /\ pool \in 0..POOL_SIZE
      /\ POOL_SIZE \in Nat \ {0} /\ Ids' = Ids
  BY <1>1, <1>2, ListenerAssumption DEF TypeOK, Ids
<1>4. errors' \in 0..MaxErrors
  BY <1>3 DEF Decide, Acquire, BatchRecvError, RecvError
<1> DEFINE receiving == IF pc = "recv_from" THEN 1 ELSE 0
<1>5. \/ pool' = pool /\ pc # "recv_from" /\ pc' # "recv_from"
      \/ pool' = (IF pool > 0 THEN pool - 1 ELSE 0) /\ pc # "recv_from" /\ pc' = "recv_from"
      \/ pool' = (IF pool < POOL_SIZE THEN pool + 1 ELSE pool) /\ pc = "recv_from" /\ pc' # "recv_from"
  BY DEF Decide, Acquire, BatchRecvError, RecvError, acquire, release
<1>6. pool' \in 0..POOL_SIZE
  BY <1>3, <1>5
<1>7. TypeOK'
  BY <1>1, <1>2, <1>3, <1>4, <1>6 DEF TypeOK
<1>8. \A S : InPhase(S)' = InPhase(S)
  BY <1>2, <1>3 DEF InPhase
<1>9. ResourcesAccounted'
  <2>1. InPhase(Holding) \in Nat /\ InPhase({"panicked"}) \in Nat
    BY <1>1, InPhaseNat
  <2>2. pool + (InPhase(Holding) + (IF pc = "recv_from" THEN 1 ELSE 0)) + InPhase({"panicked"})
          >= POOL_SIZE \div 2
    BY <1>1 DEF ResourcesAccounted, Holders, Holding
  <2>3. POOL_SIZE \div 2 \in Nat /\ POOL_SIZE \div 2 <= POOL_SIZE
    BY <1>3
  <2>4. pool' + (InPhase(Holding) + (IF pc' = "recv_from" THEN 1 ELSE 0)) + InPhase({"panicked"})
          >= POOL_SIZE \div 2
    BY <1>3, <1>5, <2>1, <2>2, <2>3
  <2>5. QED
    BY <1>1, <1>2, <1>8, <2>4 DEF ResourcesAccounted, Holders, Holding
<1>10. InOrder' /\ LoopOk' /\ NoPanic'
  BY <1>1, <1>2 DEF InOrder, Taken, LoopOk, NoPanic
<1>11. ASSUME NEW i \in Ids PROVE AnswerOk(i)'
  BY <1>2 DEF AnswerOk, ListenerInv
<1>12. QED
  BY <1>2, <1>3, <1>7, <1>9, <1>10, <1>11 DEF ListenerInv

\* A batch is received.
LEMMA BatchRecvInv ==
  ASSUME ListenerInv, BatchRecv PROVE ListenerInv'
<1>1. TypeOK /\ InOrder /\ LoopOk /\ ResourcesAccounted /\ NoPanic
  BY DEF ListenerInv
<1>2. /\ Len(req) \in Nat /\ Len(socket) \in Nat /\ Len(batch) \in Nat
      /\ socket \in Seq(Ids) /\ DOMAIN socket = 1..Len(socket)
      /\ batch = <<>> <=> Len(batch) = 0
  BY <1>1, QueueFacts
<1> DEFINE n == IF Len(socket) < BatchSize THEN Len(socket) ELSE BatchSize
<1>3. /\ pc = "batch_recv" /\ batch' = SubSeq(socket, 1, n)
      /\ socket' = SubSeq(socket, n + 1, Len(socket))
      /\ pc' = IF n = 0 THEN "decide" ELSE "batch"
      /\ UNCHANGED <<cfg, req, pool, active_clients, phase, answer, errors>>
  BY DEF BatchRecv
<1>4. n \in Nat /\ n <= Len(socket) /\ batch = <<>> /\ Len(batch) = 0 /\ Ids' = Ids
  BY <1>1, <1>2, <1>3, ListenerAssumption DEF LoopOk, Ids
<1> HIDE DEF n
<1>5. /\ batch' \in Seq(Ids) /\ Len(batch') = n /\ DOMAIN batch' = 1..n
      /\ \A k \in 1..n : batch'[k] = socket[k]
  <2>1. 1 \in 1..(Len(socket) + 1) /\ n \in 0..Len(socket)
    BY <1>2, <1>4
  <2>2. QED
    BY <1>2, <1>3, <1>4, <2>1, SubSeqProperties
<1>6. /\ socket' \in Seq(Ids) /\ Len(socket') = Len(socket) - n
      /\ DOMAIN socket' = 1..(Len(socket) - n)
      /\ \A k \in 1..(Len(socket) - n) : socket'[k] = socket[n + k]
  <2>1. n + 1 \in 1..(Len(socket) + 1) /\ Len(socket) \in n..Len(socket)
    BY <1>2, <1>4
  <2>2. QED
    BY <1>2, <1>3, <1>4, <2>1, SubSeqProperties
<1>7. TypeOK'
  BY <1>1, <1>3, <1>4, <1>5, <1>6 DEF TypeOK
<1>8. batch' = <<>> <=> n = 0
  BY <1>4, <1>5, EmptySeq
<1>9. LoopOk'
  BY <1>3, <1>8 DEF LoopOk
<1>10. Taken' = Taken /\ Taken \in Nat /\ Taken = Len(req) - Len(socket)
  <2>1. Taken \in Nat /\ Taken = Len(req) - Len(socket)
    BY <1>1, <1>2, <1>4 DEF Taken, InOrder
  <2>2. Taken' = Len(req) - (Len(socket) - n) - n
    BY <1>3, <1>5, <1>6 DEF Taken
  <2>3. QED
    BY <1>2, <1>4, <2>1, <2>2
<1>11. InOrder'
  <2>1. \A k \in 1..Len(socket) : socket[k] = Taken + k
    BY <1>1, <1>2, <1>4, <1>10 DEF InOrder
  <2>2. \A k \in 1..n : batch'[k] = Taken + k
    BY <1>2, <1>4, <1>5, <2>1
  <2>3. \A k \in 1..(Len(socket) - n) : socket'[k] = Taken + n + k
    <3>1. SUFFICES ASSUME NEW k \in 1..(Len(socket) - n) PROVE socket'[k] = Taken + n + k
      OBVIOUS
    <3>2. n + k \in 1..Len(socket)
      BY <1>2, <1>4
    <3>3. QED
      BY <1>4, <1>6, <1>10, <2>1, <3>2
  <2>4. QED
    BY <1>1, <1>3, <1>5, <1>6, <1>10, <2>2, <2>3 DEF InOrder
<1>12. \A S : InPhase(S)' = InPhase(S)
  BY <1>3, <1>4 DEF InPhase
<1>13. ResourcesAccounted'
  BY <1>1, <1>3, <1>12 DEF ResourcesAccounted, Holders
<1>14. ASSUME NEW i \in Ids PROVE AnswerOk(i)'
  BY <1>3 DEF AnswerOk, ListenerInv
<1>15. QED
  BY <1>1, <1>3, <1>4, <1>7, <1>9, <1>11, <1>13, <1>14 DEF ListenerInv, NoPanic

\* A datagram gets its task, which takes the buffer and counts as a client.
LEMMA SpawnInv ==
  ASSUME ListenerInv, SpawnNext \/ Recv PROVE ListenerInv'
<1>1. TypeOK /\ InOrder /\ LoopOk /\ ResourcesAccounted /\ NoPanic
  BY DEF ListenerInv
<1>2. /\ Len(req) \in Nat /\ Len(socket) \in Nat /\ Len(batch) \in Nat
      /\ Ids = 1..Len(req) /\ Len(req) <= MaxDatagrams /\ MaxDatagrams \in Nat
      /\ socket \in Seq(Ids) /\ batch \in Seq(Ids)
      /\ DOMAIN socket = 1..Len(socket) /\ DOMAIN batch = 1..Len(batch)
      /\ batch = <<>> <=> Len(batch) = 0
      /\ socket = <<>> <=> Len(socket) = 0
  BY <1>1, QueueFacts
<1>3. UNCHANGED <<cfg, req, answer, errors>> /\ Ids' = Ids
  BY DEF SpawnNext, Recv, Ids
<1> DEFINE i == Taken + 1
<1>4. /\ Taken' = Taken + 1 /\ Taken \in Nat /\ i \in Ids /\ i \in 1..MaxDatagrams
      /\ Spawn(i)
      /\ socket' \in Seq(Ids) /\ batch' \in Seq(Ids)
      /\ \A k \in DOMAIN batch' : batch'[k] = i + k
      /\ \A k \in DOMAIN socket' : socket'[k] = i + Len(batch') + k
      /\ LoopOk' /\ pc' \in {"decide", "batch"}
  <2>1. Taken \in Nat /\ Taken = Len(req) - Len(socket) - Len(batch)
    BY <1>1 DEF InOrder, Taken
  <2>2. /\ \A k \in 1..Len(batch) : batch[k] = Taken + k
        /\ \A k \in 1..Len(socket) : socket[k] = Taken + Len(batch) + k
    BY <1>1, <1>2 DEF InOrder
  <2>3. CASE SpawnNext
    <3>1. /\ pc = "batch" /\ Spawn(Head(batch)) /\ batch' = Tail(batch) /\ socket' = socket
          /\ pc' = IF Len(batch) = 1 THEN "decide" ELSE "batch"
      BY <2>3 DEF SpawnNext
    <3>2. batch # <<>> /\ Len(batch) > 0
      BY <1>1, <1>2, <3>1 DEF LoopOk
    <3>3. /\ batch' \in Seq(Ids) /\ Len(batch') = Len(batch) - 1
          /\ DOMAIN batch' = 1..(Len(batch) - 1)
          /\ \A k \in 1..(Len(batch) - 1) : batch'[k] = batch[k + 1]
          /\ Head(batch) = batch[1]
      BY <1>2, <3>1, <3>2, HeadTailProperties
    <3>4. Head(batch) = i
      <4>1. 1 \in 1..Len(batch)
        BY <1>2, <3>2
      <4>2. QED
        BY <2>2, <3>3, <4>1
    <3>5. Taken' = Len(req) - Len(socket) - (Len(batch) - 1)
      BY <1>3, <3>1, <3>3 DEF Taken
    <3>6. Taken' = Taken + 1 /\ i \in 1..Len(req)
      BY <1>2, <2>1, <3>2, <3>5
    <3>7. \A k \in 1..(Len(batch) - 1) : batch'[k] = i + k
      <4>1. SUFFICES ASSUME NEW k \in 1..(Len(batch) - 1) PROVE batch[k + 1] = i + k
        BY <3>3
      <4>2. k + 1 \in 1..Len(batch)
        BY <1>2
      <4>3. QED
        BY <2>1, <2>2, <4>2
    <3>8. \A k \in DOMAIN socket' : socket'[k] = i + Len(batch') + k
      <4>1. SUFFICES ASSUME NEW k \in 1..Len(socket) PROVE socket[k] = i + Len(batch') + k
        BY <1>2, <3>1
      <4>2. socket[k] = Taken + Len(batch) + k
        BY <2>2
      <4>3. QED
        BY <1>2, <2>1, <3>3, <4>2
    <3>9. LoopOk'
      <4>1. batch' = <<>> <=> Len(batch') = 0
        BY <3>3, EmptySeq
      <4>2. Len(batch') = 0 <=> Len(batch) = 1
        BY <1>2, <3>3
      <4>3. QED
        BY <3>1, <4>1, <4>2 DEF LoopOk
    <3>10. i \in Ids /\ i \in 1..MaxDatagrams
      BY <1>2, <3>6
    <3>11. Spawn(i) /\ socket' \in Seq(Ids) /\ pc' \in {"decide", "batch"}
      BY <1>2, <3>1, <3>4
    <3>12. \A k \in DOMAIN batch' : batch'[k] = i + k
      BY <3>3, <3>7
    <3> HIDE DEF i
    <3>13. QED
      BY <2>1, <3>3, <3>6, <3>8, <3>9, <3>10, <3>11, <3>12
  <2>4. CASE Recv
    <3>1. /\ pc = "recv_from" /\ socket # <<>> /\ Spawn(Head(socket)) /\ socket' = Tail(socket)
          /\ batch' = batch /\ pc' = "decide"
      BY <2>4 DEF Recv
    <3>2. Len(socket) > 0 /\ batch = <<>> /\ Len(batch) = 0
      BY <1>1, <1>2, <3>1 DEF LoopOk
    <3>3. /\ socket' \in Seq(Ids) /\ Len(socket') = Len(socket) - 1
          /\ DOMAIN socket' = 1..(Len(socket) - 1)
          /\ \A k \in 1..(Len(socket) - 1) : socket'[k] = socket[k + 1]
          /\ Head(socket) = socket[1]
      BY <1>2, <3>1, <3>2, HeadTailProperties
    <3>4. \A k \in 1..Len(socket) : socket[k] = Taken + k
      BY <1>1, <1>2, <2>1, <3>2 DEF InOrder
    <3>5. Head(socket) = i
      BY <1>2, <3>2, <3>3, <3>4
    <3>6. Taken' = Len(req) - (Len(socket) - 1) - Len(batch)
      BY <1>3, <3>1, <3>3 DEF Taken
    <3>7. Taken' = Taken + 1 /\ i \in 1..Len(req)
      BY <1>2, <2>1, <3>2, <3>6
    <3>8. \A k \in 1..(Len(socket) - 1) : socket'[k] = i + k
      BY <1>2, <2>1, <3>3, <3>4
    <3>9. LoopOk'
      BY <3>1, <3>2 DEF LoopOk
    <3>10. DOMAIN batch' = {} /\ Len(batch') = 0
      BY <1>2, <3>1, <3>2
    <3>11. \A k \in DOMAIN socket' : socket'[k] = i + Len(batch') + k
      BY <1>2, <2>1, <3>3, <3>8, <3>10
    <3>12. QED
      BY <1>2, <2>1, <3>1, <3>3, <3>5, <3>7, <3>9, <3>10, <3>11
  <2>5. QED
    BY <2>3, <2>4
<1>5. /\ active_clients' = active_clients + 1 /\ phase'[i] = "handling"
      /\ \A j \in 1..MaxDatagrams : j # i => phase'[j] = phase[j]
      /\ phase' \in [1..MaxDatagrams -> TaskPhases]
  BY <1>1, <1>4 DEF Spawn, TypeOK, TaskPhases
<1>6. /\ pool \in 0..POOL_SIZE /\ POOL_SIZE \in Nat \ {0} /\ active_clients \in Nat
      /\ phase[i] = "none"
  BY <1>1, <1>4, ListenerAssumption DEF TypeOK, InOrder
<1>7. \/ pool' = pool /\ pc = "recv_from" /\ pc' # "recv_from"
      \/ pool' = (IF pool > 0 THEN pool - 1 ELSE 0) /\ pc # "recv_from" /\ pc' # "recv_from"
  BY <1>4 DEF SpawnNext, Recv, acquire
<1>8. TypeOK'
  <2>1. pool' \in 0..POOL_SIZE
    BY <1>6, <1>7
  <2>2. QED
    BY <1>1, <1>3, <1>4, <1>5, <1>6, <2>1 DEF TypeOK
<1> HIDE DEF i
<1>9. InOrder'
  <2>1. \A j \in 1..MaxDatagrams : phase'[j] = "none" <=> j > i
    <3>1. SUFFICES ASSUME NEW j \in 1..MaxDatagrams PROVE phase'[j] = "none" <=> j > i
      OBVIOUS
    <3>2. phase[j] = "none" <=> j > Taken
      BY <1>1 DEF InOrder
    <3>3. CASE j = i
      BY <1>4, <1>5, <3>3 DEF i
    <3>4. CASE j # i
      <4>1. j > Taken <=> j > Taken + 1
        BY <1>2, <1>4, <3>4 DEF i
      <4>2. QED
        BY <1>5, <3>2, <3>4, <4>1 DEF i
    <3>5. QED
      BY <3>3, <3>4
  <2>2. Taken' = i /\ i \in Nat
    BY <1>4 DEF i
  <2>3. QED
    BY <1>4, <2>1, <2>2 DEF InOrder
<1>10. /\ InPhase(Holding) \in Nat /\ InPhase({"panicked"}) \in Nat
       /\ InPhase(Holding)' = InPhase(Holding) + 1
       /\ InPhase({"panicked"})' = InPhase({"panicked"})
       /\ InPhase(Unfinished)' = InPhase(Unfinished) + 1 /\ InPhase(Unfinished) \in Nat
  <2>1. /\ "handling" \in Holding /\ "none" \notin Holding
        /\ "handling" \in Unfinished /\ "none" \notin Unfinished
        /\ "handling" \notin {"panicked"} /\ "none" \notin {"panicked"}
    BY DEF Holding, Unfinished, TaskPhases
  <2>2. \A j \in Ids \ {i} : phase'[j] = phase[j]
    BY <1>2, <1>5
  <2>3. /\ InPhase(Holding) \in Nat /\ InPhase(Holding)' = InPhase(Holding) + 1
    <3>1. phase'[i] \in Holding /\ phase[i] \notin Holding
      BY <1>5, <1>6, <2>1
    <3>2. InPhase(Holding) \in Nat /\ InPhase(Holding)' = InPhase(Holding) + 1 - 0
      BY <1>1, <1>3, <1>4, <2>2, <3>1, PhaseCounts
    <3>3. QED
      BY <3>2
  <2>4. /\ InPhase({"panicked"}) \in Nat /\ InPhase({"panicked"})' = InPhase({"panicked"})
    <3> DEFINE P == {"panicked"}
    <3>1. phase'[i] \notin P /\ phase[i] \notin P
      BY <1>5, <1>6
    <3> HIDE DEF P
    <3>2. InPhase(P) \in Nat /\ InPhase(P)' = InPhase(P) + 0 - 0
      BY <1>1, <1>3, <1>4, <2>2, <3>1, PhaseCounts
    <3>3. QED
      BY <3>2 DEF P
  <2>5. /\ InPhase(Unfinished) \in Nat /\ InPhase(Unfinished)' = InPhase(Unfinished) + 1
    <3>1. phase'[i] \in Unfinished /\ phase[i] \notin Unfinished
      BY <1>5, <1>6, <2>1
    <3>2. InPhase(Unfinished) \in Nat /\ InPhase(Unfinished)' = InPhase(Unfinished) + 1 - 0
      BY <1>1, <1>3, <1>4, <2>2, <3>1, PhaseCounts
    <3>3. QED
      BY <3>2
  <2>6. QED
    BY <2>3, <2>4, <2>5
<1>11. ResourcesAccounted'
  <2>1. /\ pool + (InPhase(Holding) + (IF pc = "recv_from" THEN 1 ELSE 0))
             + InPhase({"panicked"}) >= POOL_SIZE \div 2
        /\ active_clients = InPhase(Unfinished)
    BY <1>1 DEF ResourcesAccounted, Holders, Holding, Unfinished
  <2>2. POOL_SIZE \div 2 \in Nat
    BY <1>6
  <2>3. /\ pool' + (InPhase(Holding)' + (IF pc' = "recv_from" THEN 1 ELSE 0))
             + InPhase({"panicked"})' >= POOL_SIZE \div 2
        /\ active_clients' = InPhase(Unfinished)'
    BY <1>5, <1>6, <1>7, <1>10, <2>1, <2>2
  <2>4. QED
    BY <2>3 DEF ResourcesAccounted, Holders, Holding, Unfinished
<1>12. ASSUME NEW j \in Ids PROVE AnswerOk(j)'
  <2>1. AnswerOk(j) /\ j \in 1..MaxDatagrams /\ (phase[j] = "none" => answer[j] = Pending)
    BY <1>2 DEF ListenerInv
  <2>2. QED
    BY <1>3, <1>4, <1>5, <1>6, <2>1 DEF AnswerOk
<1>13. NoPanic'
  BY <1>1, <1>3, <1>4, <1>5 DEF NoPanic
<1>14. \A j \in 1..MaxDatagrams : phase'[j] = "none" => answer'[j] = Pending
  BY <1>3, <1>4, <1>5 DEF ListenerInv
<1>15. QED
  BY <1>3, <1>4, <1>8, <1>9, <1>11, <1>12, <1>13, <1>14 DEF ListenerInv

\* A task goes on.
LEMMA TaskInv ==
  ASSUME ListenerInv, NEW i \in Ids,
         Handle(i) \/ EndTransfer(i) \/ Panic(i) \/ Release(i) \/ Leave(i)
  PROVE  ListenerInv'
<1>1. TypeOK /\ InOrder /\ LoopOk /\ ResourcesAccounted /\ NoPanic /\ AnswerOk(i)
  BY DEF ListenerInv
<1>2. /\ Ids = 1..Len(req) /\ Len(req) \in Nat /\ IsFiniteSet(Ids)
      /\ Ids \subseteq 1..MaxDatagrams /\ i \in 1..MaxDatagrams
  BY <1>1, IdsFinite
<1>3. UNCHANGED <<cfg, req, socket, pc, batch, errors>> /\ Ids' = Ids
  BY DEF Handle, EndTransfer, Panic, Release, Leave, Ids
<1>4. /\ phase \in [1..MaxDatagrams -> TaskPhases] /\ DOMAIN answer = 1..MaxDatagrams
      /\ pool \in 0..POOL_SIZE /\ POOL_SIZE \in Nat \ {0} /\ active_clients \in Nat
  BY <1>1, ListenerAssumption DEF TypeOK, ListenerInv
<1>5. /\ phase' \in [1..MaxDatagrams -> TaskPhases] /\ DOMAIN answer' = 1..MaxDatagrams
      /\ \A j \in 1..MaxDatagrams : j # i => phase'[j] = phase[j] /\ answer'[j] = answer[j]
      /\ phase[i] # "none" /\ phase'[i] \notin {"none", "handling"}
      /\ \/ answer'[i] = handle_client(req[i], cfg.base)
         \/ answer'[i] = answer[i] /\ phase'[i] # "transferring"
  <2>1. PICK q \in {"transferring", "releasing", "panicked", "leaving", "gone"} :
          /\ phase' = [phase EXCEPT ![i] = q]
          /\ phase[i] # "none"
          /\ \/ answer' = [answer EXCEPT ![i] = handle_client(req[i], cfg.base)]
             \/ answer' = answer /\ q # "transferring"
    <3>1. CASE Handle(i)
      BY <3>1 DEF Handle
    <3>2. CASE EndTransfer(i) \/ Panic(i) \/ Release(i) \/ Leave(i)
      BY <3>2 DEF EndTransfer, Panic, Release, Leave
    <3>3. QED
      BY <3>1, <3>2
  <2>2. q \in TaskPhases
    BY DEF TaskPhases
  <2>3. QED
    BY <1>2, <1>4, <2>1, <2>2
<1>6. AnswerOk(i)'
  BY <1>1, <1>3, <1>5 DEF AnswerOk
<1>7. ASSUME NEW j \in Ids PROVE AnswerOk(j)'
  <2>1. CASE j = i
    BY <1>6, <2>1
  <2>2. CASE j # i
    BY <1>2, <1>3, <1>5, <2>2 DEF AnswerOk, ListenerInv
  <2>3. QED
    BY <2>1, <2>2
<1>8. InOrder' /\ LoopOk'
  BY <1>1, <1>2, <1>3, <1>5 DEF InOrder, Taken, LoopOk
<1>9. ASSUME NEW S
      PROVE  /\ InPhase(S) \in Nat
             /\ phase[i] \in S => InPhase(S) > 0
             /\ InPhase(S)' = InPhase(S) + (IF phase'[i] \in S THEN 1 ELSE 0)
                                         - (IF phase[i] \in S THEN 1 ELSE 0)
  <2>1. \A j \in Ids \ {i} : phase'[j] = phase[j]
    BY <1>2, <1>5
  <2>2. QED
    BY <1>1, <1>3, <2>1, PhaseCounts
<1> DEFINE h == InPhase(Holding)
           p == InPhase({"panicked"})
           u == InPhase(Unfinished)
<1>10. /\ h \in Nat /\ p \in Nat /\ u \in Nat
       /\ \/ h' = h /\ p' = p /\ u' = u /\ pool' = pool /\ active_clients' = active_clients
          \/ h' = h - 1 /\ p' = p + 1 /\ u' = u /\ pool' = pool /\ active_clients' = active_clients
          \/ /\ h' = h - 1 /\ p' = p /\ u' = u /\ active_clients' = active_clients
             /\ pool' = IF pool < POOL_SIZE THEN pool + 1 ELSE pool
          \/ /\ h' = h /\ p' = p /\ u' = u - 1 /\ u > 0 /\ pool' = pool
             /\ active_clients' = active_clients - 1
  <2>1. h \in Nat /\ p \in Nat /\ u \in Nat
    BY <1>9
  <2>2. CASE Handle(i) \/ EndTransfer(i)
    <3>1. /\ phase[i] \in Holding /\ phase'[i] \in Holding
          /\ phase[i] \in Unfinished /\ phase'[i] \in Unfinished
          /\ phase[i] \notin {"panicked"} /\ phase'[i] \notin {"panicked"}
          /\ pool' = pool /\ active_clients' = active_clients
      BY <1>2, <1>4, <2>2 DEF Handle, EndTransfer, Holding, Unfinished, TaskPhases
    <3>2. h' = h + 1 - 1 /\ p' = p + 0 - 0 /\ u' = u + 1 - 1
      BY <1>9, <3>1
    <3>3. QED
      BY <2>1, <3>1, <3>2
  <2>3. CASE Panic(i)
    <3>1. /\ phase[i] \in Holding /\ phase'[i] \notin Holding
          /\ phase[i] \in Unfinished /\ phase'[i] \in Unfinished
          /\ phase[i] \notin {"panicked"} /\ phase'[i] \in {"panicked"}
          /\ pool' = pool /\ active_clients' = active_clients
      BY <1>2, <1>4, <2>3 DEF Panic, Holding, Unfinished, TaskPhases
    <3>2. h' = h + 0 - 1 /\ p' = p + 1 - 0 /\ u' = u + 1 - 1
      BY <1>9, <3>1
    <3>3. QED
      BY <2>1, <3>1, <3>2
  <2>4. CASE Release(i)
    <3>1. /\ phase[i] \in Holding /\ phase'[i] \notin Holding
          /\ phase[i] \in Unfinished /\ phase'[i] \in Unfinished
          /\ phase[i] \notin {"panicked"} /\ phase'[i] \notin {"panicked"}
          /\ pool' = (IF pool < POOL_SIZE THEN pool + 1 ELSE pool)
          /\ active_clients' = active_clients
      BY <1>2, <1>4, <2>4 DEF Release, release, Holding, Unfinished, TaskPhases
    <3>2. h' = h + 0 - 1 /\ p' = p + 0 - 0 /\ u' = u + 1 - 1
      BY <1>9, <3>1
    <3>3. QED
      BY <2>1, <3>1, <3>2
  <2>5. CASE Leave(i)
    <3>1. /\ phase[i] \notin Holding /\ phase'[i] \notin Holding
          /\ phase[i] \in Unfinished /\ phase'[i] \notin Unfinished
          /\ phase[i] \notin {"panicked"} /\ phase'[i] \notin {"panicked"}
          /\ pool' = pool /\ active_clients' = active_clients - 1
      BY <1>2, <1>4, <2>5 DEF Leave, Holding, Unfinished, TaskPhases
    <3>2. h' = h + 0 - 0 /\ p' = p + 0 - 0 /\ u' = u + 0 - 1 /\ u > 0
      BY <1>9, <3>1
    <3>3. QED
      BY <2>1, <3>1, <3>2
  <2>6. QED
    BY <2>2, <2>3, <2>4, <2>5
<1>11. /\ pool + (h + (IF pc = "recv_from" THEN 1 ELSE 0)) + p >= POOL_SIZE \div 2
       /\ active_clients = u /\ POOL_SIZE \div 2 \in Nat /\ POOL_SIZE \div 2 <= POOL_SIZE
  BY <1>1, <1>4 DEF ResourcesAccounted, Holders, Holding, Unfinished
<1> HIDE DEF h, p, u
<1>12. /\ pool' \in 0..POOL_SIZE /\ active_clients' \in Nat
       /\ pool' + (h' + (IF pc' = "recv_from" THEN 1 ELSE 0)) + p' >= POOL_SIZE \div 2
       /\ active_clients' = u'
  BY <1>3, <1>4, <1>10, <1>11
<1>13. ResourcesAccounted'
  BY <1>12 DEF ResourcesAccounted, Holders, Holding, Unfinished, h, p, u
<1>14. TypeOK'
  BY <1>1, <1>3, <1>5, <1>12 DEF TypeOK
<1>15. NoPanic'
  <2>1. SUFFICES ASSUME cfg.base.windowsize >= 1, cfg.base.windowsize <= 65535, Panic(i)
                 PROVE  FALSE
    <3>1. ~Panic(i) => phase'[i] # "panicked"
      <4>1. CASE Handle(i)
        <5> DEFINE kind == handle_client(req[i], cfg.base).kind
                   q == IF kind \in Transfers \cup {"multicast"}
                        THEN "transferring" ELSE "releasing"
        <5>1. phase' = [phase EXCEPT ![i] = q]
          BY <4>1 DEF Handle
        <5>2. q # "panicked"
          OBVIOUS
        <5> HIDE DEF q
        <5>3. QED
          BY <1>2, <1>4, <5>1, <5>2
      <4>2. CASE EndTransfer(i) \/ Release(i) \/ Leave(i)
        <5>1. PICK q \in {"releasing", "leaving", "gone"} : phase' = [phase EXCEPT ![i] = q]
          BY <4>2 DEF EndTransfer, Release, Leave
        <5>2. QED
          BY <1>2, <1>4, <5>1
      <4>3. QED
        BY <4>1, <4>2
    <3>2. QED
      BY <1>1, <1>3, <1>5, <3>1 DEF NoPanic
  <2> DEFINE d == req[i]
  <2>2. d \in Datagram /\ cfg.base \in Config
    BY <1>1, <1>2, ElementOfSeq, ListenerAssumption DEF TypeOK
  <2>3. /\ answer[i] = handle_client(d, cfg.base) /\ answer[i].kind = "write"
        /\ answer[i].options.windowsize % 65536 = 0
    BY <1>1, <2>1 DEF Panic, AnswerOk
  <2>4. answer[i].options = options(d, cfg.base)
    BY <2>2, <2>3, WriteOptions
  <2>5. /\ options(d, cfg.base).windowsize \in Int
        /\ options(d, cfg.base).windowsize >= 1 /\ options(d, cfg.base).windowsize <= 65535
    BY <2>1, <2>2, WindowInRange
  <2>6. \A n \in Int : n >= 1 /\ n <= 65535 => n % 65536 # 0
    OBVIOUS
  <2>7. QED
    BY <2>3, <2>4, <2>5, <2>6
<1>16. \A j \in 1..MaxDatagrams : phase'[j] = "none" => answer'[j] = Pending
  BY <1>5 DEF ListenerInv
<1>17. QED
  BY <1>3, <1>5, <1>7, <1>8, <1>13, <1>14, <1>15, <1>16 DEF ListenerInv

\* Every step of the loop, of a task or of the network.
LEMMA ListenerStep ==
  ASSUME ListenerInv, [Next]_vars PROVE ListenerInv'
<1>1. CASE UNCHANGED vars
  <2>1. UNCHANGED <<cfg, req, socket, pc, batch, pool, active_clients, phase, answer, errors>>
    BY <1>1 DEF vars
  <2>2. Ids' = Ids /\ Taken' = Taken /\ \A S : InPhase(S)' = InPhase(S)
    BY <2>1 DEF Ids, Taken, InPhase
  <2>3. TypeOK' /\ InOrder' /\ LoopOk' /\ NoPanic'
    BY <2>1, <2>2 DEF ListenerInv, TypeOK, InOrder, LoopOk, NoPanic
  <2>4. ResourcesAccounted'
    BY <2>1, <2>2 DEF ListenerInv, ResourcesAccounted, Holders
  <2>5. ASSUME NEW i \in Ids PROVE AnswerOk(i)'
    BY <2>1 DEF ListenerInv, AnswerOk
  <2>6. QED
    BY <2>1, <2>2, <2>3, <2>4, <2>5 DEF ListenerInv
<1>2. QED
  BY <1>1, ArriveInv, LoopInv, BatchRecvInv, SpawnInv, TaskInv DEF Next

\* The invariant holds throughout.
LEMMA ListenerInvariant == Spec => []ListenerInv
<1>1. ListenerInv /\ [Next]_vars => ListenerInv'
  BY ListenerStep
<1>2. QED
  BY <1>1, ListenerInit, PTL DEF Spec

---------------------------------------------------------------------------
(* Theorems. *)

\* The pool holds at most POOL_SIZE buffers, active_clients is never decremented below zero,
\* and every other variable of the loop stays in its range, for any number of datagrams.
THEOREM TypeCorrect == Spec => []TypeOK
<1>1. ListenerInv => TypeOK
  BY DEF ListenerInv
<1>2. QED
  BY <1>1, ListenerInvariant, PTL

\* Whatever the loop, the tasks and the socket do, no buffer is lost but those of tasks that
\* panicked, and active_clients counts exactly the tasks that have not left.
THEOREM ResourcesAreAccounted == Spec => []ResourcesAccounted
<1>1. ListenerInv => ResourcesAccounted
  BY DEF ListenerInv
<1>2. QED
  BY <1>1, ListenerInvariant, PTL

\* Every answer the tasks of the loop make settles its own datagram, for every set of
\* datagrams and configurations, with any number of options in any order: both ends use the
\* same ones, but for the window of a client that asked for none while default_windowsize is
\* not 1.
THEOREM RequestsAreSettled == Spec => []RequestsSettled
<1>1. ListenerInv => RequestsSettled
  <2>1. SUFFICES ASSUME ListenerInv, NEW i \in Ids, answer[i] # Pending
                 PROVE  Settled(req[i], cfg.base, TRUE, answer[i])
    BY DEF RequestsSettled
  <2>2. TypeOK /\ answer[i] = handle_client(req[i], cfg.base)
    BY <2>1 DEF ListenerInv, AnswerOk
  <2>3. req[i] \in Datagram /\ cfg.base \in Config
    BY <2>2, IdsFinite, ElementOfSeq, ListenerAssumption DEF TypeOK
  <2>4. QED
    BY <2>2, <2>3, ServerSettles
<1>2. QED
  BY <1>1, ListenerInvariant, PTL

\* While default_windowsize is in the range of the option, which validate_config does not
\* check, receive_file never divides by a window of 0: no task panics, whatever windows the
\* clients ask for.
THEOREM NoTaskPanics == Spec => []NoPanic
<1>1. ListenerInv => NoPanic
  BY DEF ListenerInv
<1>2. QED
  BY <1>1, ListenerInvariant, PTL

\* Datagrams get their tasks in the order of their arrival, however the loop changes between
\* recvmmsg and recv_from.
THEOREM TasksInOrder == Spec => []InOrder
<1>1. ListenerInv => InOrder
  BY DEF ListenerInv
<1>2. QED
  BY <1>1, ListenerInvariant, PTL

=============================================================================
