-------------------------- MODULE WorkerPoolProofs --------------------------
(***************************************************************************)
(* The worker pool, for any number of workers and datagrams, any sizes of  *)
(* channels and batches and any configurations: no channel overflows, the  *)
(* counters account for every datagram and every ERROR, requests are       *)
(* settled, and ClientHash keeps the order of each client's requests.      *)
(***************************************************************************)
EXTENDS WorkerPool, RequestsProofs

---------------------------------------------------------------------------
(* Queues. *)

\* The sizes are positive.
LEMMA Sizes ==
  /\ worker_count \in Nat \ {0} /\ worker_channel_size \in Nat \ {0}
  /\ sender_channel_size \in Nat \ {0} /\ max_batch_size \in Nat \ {0}
  /\ MaxDatagrams \in Nat /\ MaxErrors \in Nat
  BY WorkerPoolAssumption

\* How many are taken from queue s in a batch of up to n.
Size(s, n) == IF Len(s) < n THEN Len(s) ELSE n

\* A batch taken from a queue, and what is left of it.
LEMMA FirstAndRest ==
  ASSUME NEW S, NEW s \in Seq(S), NEW n \in Nat \ {0}
  PROVE  /\ Size(s, n) \in 0..Len(s) /\ Size(s, n) <= n
         /\ FirstOf(s, n) \in Seq(S) /\ Len(FirstOf(s, n)) = Size(s, n)
         /\ DOMAIN FirstOf(s, n) = 1..Size(s, n)
         /\ \A k \in 1..Size(s, n) : FirstOf(s, n)[k] = s[k]
         /\ AfterFirst(s, n) \in Seq(S) /\ Len(AfterFirst(s, n)) = Len(s) - Size(s, n)
         /\ DOMAIN AfterFirst(s, n) = 1..(Len(s) - Size(s, n))
         /\ \A k \in 1..(Len(s) - Size(s, n)) : AfterFirst(s, n)[k] = s[Size(s, n) + k]
<1> DEFINE m == IF Len(s) < n THEN Len(s) ELSE n
           f == SubSeq(s, 1, m)
           a == SubSeq(s, n + 1, Len(s))
<1>1. Len(s) \in Nat /\ m \in 0..Len(s) /\ m <= n
  BY LenProperties
<1>2. FirstOf(s, n) = f /\ AfterFirst(s, n) = a /\ Size(s, n) = m
  BY DEF FirstOf, AfterFirst, Size
<1>3. /\ f \in Seq(S) /\ Len(f) = m /\ DOMAIN f = 1..m
      /\ \A k \in 1..m : f[k] = s[k]
  <2>1. 1 \in Int /\ m \in Int /\ \A k \in 1..m : s[k] \in S
    BY <1>1, ElementOfSeq
  <2> HIDE DEF m
  <2>2. /\ f \in Seq(S) /\ Len(f) = IF 1 <= m THEN m - 1 + 1 ELSE 0
        /\ \A k \in 1..(m - 1 + 1) : f[k] = s[1 + k - 1]
    BY <2>1, SubSeqProperties
  <2>3. QED
    BY <1>1, <2>2, LenProperties
<1>4. /\ a \in Seq(S) /\ Len(a) = Len(s) - m /\ DOMAIN a = 1..(Len(s) - m)
      /\ \A k \in 1..(Len(s) - m) : a[k] = s[m + k]
  <2>1. n + 1 \in Int /\ Len(s) \in Int /\ \A k \in (n + 1)..Len(s) : s[k] \in S
    BY <1>1, ElementOfSeq
  <2>2. /\ a \in Seq(S)
        /\ Len(a) = IF n + 1 <= Len(s) THEN Len(s) - (n + 1) + 1 ELSE 0
        /\ \A k \in 1..(Len(s) - (n + 1) + 1) : a[k] = s[n + 1 + k - 1]
    BY <2>1, SubSeqProperties
  <2>3. Len(a) = Len(s) - m
    <3>1. CASE Len(s) < n
      BY <1>1, <2>2, <3>1
    <3>2. CASE ~(Len(s) < n)
      BY <1>1, <2>2, <3>2
    <3>3. QED
      BY <3>1, <3>2
  <2>4. \A k \in 1..(Len(s) - m) : a[k] = s[m + k]
    <3>1. CASE Len(s) < n
      BY <1>1, <3>1
    <3>2. CASE ~(Len(s) < n)
      BY <1>1, <2>2, <3>2
    <3>3. QED
      BY <3>1, <3>2
  <2>5. QED
    BY <1>1, <2>2, <2>3, <2>4, LenProperties
<1> HIDE DEF m, f, a
<1>5. QED
  BY <1>1, <1>2, <1>3, <1>4

\* The state in numbers.
LEMMA PoolFacts ==
  ASSUME TypeOK
  PROVE  /\ Len(req) \in Nat /\ Ids = 1..Len(req) /\ Len(req) <= MaxDatagrams
         /\ IsFiniteSet(Ids) /\ Ids \subseteq 1..MaxDatagrams
         /\ socket \in Seq(Ids) /\ Len(socket) \in Nat /\ DOMAIN socket = 1..Len(socket)
         /\ batch \in Seq(Ids) /\ Len(batch) \in Nat /\ DOMAIN batch = 1..Len(batch)
         /\ outbox \in Seq(Ids) /\ Len(outbox) \in Nat
         /\ sending \in Seq(Ids) /\ Len(sending) \in Nat
<1>1. Len(req) \in Nat /\ Ids = 1..Len(req) /\ Len(req) <= MaxDatagrams
  BY LenProperties DEF TypeOK, Ids
<1>2. IsFiniteSet(Ids) /\ Ids \subseteq 1..MaxDatagrams
  BY <1>1, Sizes, FS_Interval
<1>3. socket \in Seq(Ids) /\ batch \in Seq(Ids) /\ outbox \in Seq(Ids) /\ sending \in Seq(Ids)
  BY DEF TypeOK
<1>4. QED
  BY <1>1, <1>2, <1>3, LenProperties

\* A worker's channel in numbers.
LEMMA InboxFacts ==
  ASSUME TypeOK, NEW w \in Workers
  PROVE  /\ inbox[w] \in Seq(Ids) /\ Len(inbox[w]) \in Nat
         /\ DOMAIN inbox[w] = 1..Len(inbox[w])
         /\ \A k \in DOMAIN inbox[w] : inbox[w][k] \in Ids
         /\ job[w] \in {0} \cup Ids /\ job[w] \in Nat
<1>1. inbox[w] \in Seq(Ids) /\ job[w] \in {0} \cup Ids
  BY DEF TypeOK
<1>2. Ids = 1..Len(req) /\ Len(req) \in Nat
  BY PoolFacts
<1>3. QED
  BY <1>1, <1>2, LenProperties, ElementOfSeq

---------------------------------------------------------------------------
(* Counting. *)

\* The counts are numbers.
LEMMA CountsNat ==
  ASSUME TypeOK
  PROVE  /\ IsFiniteSet(Ids) /\ IsFiniteSet(Workers)
         /\ Cardinality(Waiting) \in Nat /\ Replies \in Nat /\ InReply \in Nat
<1>1. IsFiniteSet(Ids)
  BY PoolFacts
<1>2. IsFiniteSet(Workers)
  BY Sizes, FS_Interval DEF Workers
<1>3. /\ Waiting \in SUBSET Ids /\ {i \in Ids : answer[i].kind = "error"} \in SUBSET Ids
      /\ {w \in Busy : answer[job[w]] # Pending} \in SUBSET Workers
  BY DEF Waiting, Busy
<1>4. QED
  BY <1>1, <1>2, <1>3, FS_Subset, FS_CardinalityType DEF Replies, InReply

\* The counters, one by one.
LEMMA StatsFacts ==
  ASSUME stats \in Stats
  PROVE  /\ stats.packets_received \in Nat /\ stats.packets_dropped \in Nat
         /\ stats.packets_processed \in Nat /\ stats.packets_sent \in Nat
         /\ stats.errors \in Nat /\ stats.send_errors \in Nat
  BY DEF Stats

\* The initial state.
LEMMA PoolInit == Init => PoolInv
<1>1. SUFFICES ASSUME Init PROVE PoolInv
  OBVIOUS
<1>2. /\ Ids = {} /\ Len(req) = 0 /\ Len(socket) = 0 /\ Len(batch) = 0
      /\ Len(outbox) = 0 /\ Len(sending) = 0
      /\ DOMAIN batch = {} /\ DOMAIN socket = {}
  BY <1>1 DEF Init, Ids
<1>3. \A w \in Workers : inbox[w] = <<>> /\ job[w] = 0 /\ Len(inbox[w]) = 0 /\ DOMAIN inbox[w] = {}
  BY <1>1 DEF Init
<1>4. TypeOK
  <2>1. {socket, batch, outbox, sending} \subseteq Seq(Ids)
    BY <1>1 DEF Init
  <2>2. inbox \in [Workers -> Seq(Ids)] /\ job \in [Workers -> {0} \cup Ids]
    BY <1>1 DEF Init
  <2>3. stats \in Stats
    BY <1>1 DEF Init, Stats
  <2>4. req \in Seq(Arrivals) /\ worker_index \in Nat /\ up \in BOOLEAN /\ cfg \in Configs
    BY <1>1 DEF Init
  <2>5. QED
    BY <1>2, <1>3, <2>1, <2>2, <2>3, <2>4, Sizes DEF TypeOK
<1>5. Taken = 0
  BY <1>2 DEF Taken
<1>6. InOrder /\ Apart /\ HashOrder
  BY <1>2, <1>5 DEF InOrder, Apart, HashOrder
<1>7. \A w \in Workers : WorkerOk(w)
  BY <1>3, <1>5 DEF WorkerOk
<1>8. AnswersOk
  BY <1>1 DEF Init, AnswersOk
<1>9. PacketsAccounted
  <2>1. Waiting = {} /\ {i \in Ids : answer[i].kind = "error"} = {}
    BY <1>2 DEF Waiting
  <2>2. {w \in Busy : answer[job[w]] # Pending} = {}
    BY <1>3 DEF Busy
  <2>3. Cardinality(Waiting) = 0 /\ Replies = 0 /\ InReply = 0
    BY <2>1, <2>2, FS_EmptySet DEF Replies, InReply
  <2>4. /\ stats.packets_received = 0 /\ stats.packets_dropped = 0
        /\ stats.packets_processed = 0 /\ stats.packets_sent = 0
    BY <1>1 DEF Init
  <2>5. QED
    BY <1>2, <2>3, <2>4 DEF PacketsAccounted
<1>10. QED
  BY <1>4, <1>6, <1>7, <1>8, <1>9 DEF PoolInv

\* What holds of datagrams and workers holds on while nothing happens to them.
LEMMA NothingMoves ==
  ASSUME PoolInv, UNCHANGED <<cfg, req, socket, batch, inbox, job, answer>>
  PROVE  /\ InOrder' /\ (\A w \in Workers : WorkerOk(w)') /\ Apart' /\ AnswersOk' /\ HashOrder'
         /\ Ids' = Ids /\ Waiting' = Waiting /\ Replies' = Replies /\ InReply' = InReply
<1>1. Ids' = Ids /\ Taken' = Taken /\ Waiting' = Waiting
  BY DEF Ids, Taken, Waiting, Queued, Holds
<1>2. InOrder' /\ AnswersOk'
  BY <1>1 DEF PoolInv, InOrder, AnswersOk
<1>3. \A w \in Workers : WorkerOk(w)'
  BY <1>1 DEF PoolInv, WorkerOk
<1>4. Apart'
  BY <1>1 DEF PoolInv, Apart, Holds
<1>5. HashOrder'
  BY <1>1 DEF PoolInv, HashOrder, Holds, Home
<1>6. Replies' = Replies /\ InReply' = InReply
  BY <1>1 DEF Replies, InReply, Busy
<1>7. QED
  BY <1>1, <1>2, <1>3, <1>4, <1>5, <1>6

\* Errors of the socket, the shutdown, and the sender.
LEMMA SenderInv ==
  ASSUME PoolInv,
         \/ MasterRecvError \/ SenderCollect \/ SenderSend \/ SenderError \/ Shutdown
  PROVE  PoolInv'
<1>1. TypeOK /\ PacketsAccounted
  BY DEF PoolInv
<1>2. UNCHANGED <<cfg, req, socket, batch, worker_index, inbox, job, answer>>
  BY DEF MasterRecvError, SenderCollect, SenderSend, SenderError, Shutdown, poolVars
<1>3. /\ InOrder' /\ (\A w \in Workers : WorkerOk(w)') /\ Apart' /\ AnswersOk' /\ HashOrder'
      /\ Ids' = Ids /\ Waiting' = Waiting /\ Replies' = Replies /\ InReply' = InReply
  BY <1>2, NothingMoves
<1>4. /\ outbox \in Seq(Ids) /\ Len(outbox) \in Nat /\ Len(outbox) <= sender_channel_size
      /\ sending \in Seq(Ids) /\ Len(sending) \in Nat /\ Len(sending) <= max_batch_size
      /\ Len(batch) \in Nat /\ stats \in Stats /\ up \in BOOLEAN
  BY <1>1, PoolFacts DEF TypeOK
<1>5. /\ Cardinality(Waiting) \in Nat /\ Replies \in Nat /\ InReply \in Nat
      /\ stats.packets_sent \in Nat
  BY <1>1, <1>4, CountsNat, StatsFacts
<1>6. /\ outbox' \in Seq(Ids) /\ Len(outbox') <= sender_channel_size
      /\ sending' \in Seq(Ids) /\ Len(sending') <= max_batch_size
      /\ stats' \in Stats /\ up' \in BOOLEAN
      /\ stats'.packets_received = stats.packets_received
      /\ stats'.packets_dropped = stats.packets_dropped
      /\ stats'.packets_processed = stats.packets_processed
      /\ stats'.packets_sent + Len(outbox') + Len(sending')
           <= stats.packets_sent + Len(outbox) + Len(sending)
      /\ stats'.packets_sent \in Nat /\ Len(outbox') \in Nat /\ Len(sending') \in Nat
  <2>1. CASE MasterRecvError
    <3>1. stats' = [stats EXCEPT !.errors = @ + 1] /\ UNCHANGED <<outbox, sending, up>>
      BY <2>1 DEF MasterRecvError
    <3>2. /\ stats' \in Stats /\ stats'.packets_sent = stats.packets_sent
          /\ stats'.packets_received = stats.packets_received
          /\ stats'.packets_dropped = stats.packets_dropped
          /\ stats'.packets_processed = stats.packets_processed
      BY <1>4, <3>1 DEF Stats
    <3>3. QED
      BY <1>4, <1>5, <3>1, <3>2
  <2>2. CASE SenderCollect
    <3>1. /\ sending = <<>> /\ sending' = FirstOf(outbox, max_batch_size)
          /\ outbox' = AfterFirst(outbox, max_batch_size) /\ UNCHANGED <<stats, up>>
      BY <2>2 DEF SenderCollect
    <3>2. max_batch_size \in Nat /\ sender_channel_size \in Nat /\ Len(sending) = 0
      BY <3>1, Sizes
    <3>3. LET m == Size(outbox, max_batch_size) IN
            /\ m \in 0..Len(outbox) /\ m <= max_batch_size
            /\ sending' \in Seq(Ids) /\ Len(sending') = m
            /\ outbox' \in Seq(Ids) /\ Len(outbox') = Len(outbox) - m
      BY <1>4, <3>1, Sizes, FirstAndRest
    <3>4. QED
      BY <1>4, <1>5, <3>1, <3>2, <3>3
  <2>3. CASE SenderSend
    <3>1. PICK sent \in 1..Len(sending) : stats' = [stats EXCEPT !.packets_sent = @ + sent]
      BY <2>3 DEF SenderSend
    <3>2. sending' = <<>> /\ Len(sending') = 0 /\ UNCHANGED <<outbox, up>>
      BY <2>3 DEF SenderSend
    <3>3. /\ stats' \in Stats /\ stats'.packets_sent = stats.packets_sent + sent
          /\ stats'.packets_received = stats.packets_received
          /\ stats'.packets_dropped = stats.packets_dropped
          /\ stats'.packets_processed = stats.packets_processed
      <4>1. sent \in Nat
        BY <1>4
      <4>2. QED
        BY <1>4, <3>1, <4>1 DEF Stats
    <3>4. /\ stats'.packets_sent + Len(outbox') + Len(sending')
               <= stats.packets_sent + Len(outbox) + Len(sending)
          /\ stats'.packets_sent \in Nat
      BY <1>4, <1>5, <3>2, <3>3
    <3>5. QED
      BY <1>4, <3>2, <3>3, <3>4, Sizes
  <2>4. CASE SenderError
    <3>1. /\ stats' = [stats EXCEPT !.send_errors = @ + 1] /\ UNCHANGED <<outbox, up>>
          /\ sending' = <<>> /\ Len(sending') = 0
      BY <2>4 DEF SenderError
    <3>2. /\ stats' \in Stats /\ stats'.packets_sent = stats.packets_sent
          /\ stats'.packets_received = stats.packets_received
          /\ stats'.packets_dropped = stats.packets_dropped
          /\ stats'.packets_processed = stats.packets_processed
      BY <1>4, <3>1 DEF Stats
    <3>3. /\ stats'.packets_sent + Len(outbox') + Len(sending')
               <= stats.packets_sent + Len(outbox) + Len(sending)
          /\ stats'.packets_sent \in Nat
      BY <1>4, <1>5, <3>1, <3>2
    <3>4. QED
      BY <1>4, <3>1, <3>2, <3>3, Sizes
  <2>5. CASE Shutdown
    <3>1. UNCHANGED <<outbox, sending, stats>> /\ up' \in BOOLEAN
      BY <2>5 DEF Shutdown
    <3>2. QED
      BY <1>4, <1>5, <3>1
  <2>6. QED
    BY <2>1, <2>2, <2>3, <2>4, <2>5
<1>7. TypeOK'
  BY <1>1, <1>2, <1>3, <1>6 DEF TypeOK
<1>8. PacketsAccounted'
  <2>1. stats.packets_sent + Len(outbox) + Len(sending) + InReply <= Replies
    BY <1>1 DEF PacketsAccounted
  <2>2. stats'.packets_sent + Len(outbox') + Len(sending') + InReply' <= Replies'
    <3>1. InReply' = InReply /\ Replies' = Replies
      BY <1>3
    <3>2. PICK a, b, n, m \in Nat :
            /\ a = stats'.packets_sent + Len(outbox') + Len(sending')
            /\ b = stats.packets_sent + Len(outbox) + Len(sending)
            /\ n = InReply /\ m = Replies
      BY <1>4, <1>5, <1>6
    <3>3. a <= b /\ b + n <= m
      BY <1>6, <2>1, <3>2
    <3>4. a + n <= m
      BY <3>3
    <3>5. QED
      BY <3>1, <3>2, <3>4
  <2>3. QED
    BY <1>1, <1>2, <1>3, <1>6, <2>2 DEF PacketsAccounted
<1>9. QED
  BY <1>3, <1>7, <1>8 DEF PoolInv

\* A datagram arrives; no worker has it.
LEMMA ArriveInv ==
  ASSUME PoolInv, NEW a \in Arrivals, Arrive(a) PROVE PoolInv'
<1>1. TypeOK /\ InOrder /\ Apart /\ AnswersOk /\ HashOrder /\ PacketsAccounted
  BY DEF PoolInv
<1>2. /\ Len(req) \in Nat /\ Ids = 1..Len(req) /\ Ids \subseteq 1..MaxDatagrams
      /\ socket \in Seq(Ids) /\ Len(socket) \in Nat /\ DOMAIN socket = 1..Len(socket)
      /\ batch \in Seq(Ids) /\ Len(batch) \in Nat /\ DOMAIN batch = 1..Len(batch)
      /\ outbox \in Seq(Ids) /\ sending \in Seq(Ids)
      /\ MaxDatagrams \in Nat
  BY <1>1, PoolFacts, Sizes
<1> DEFINE n == Len(req) + 1
<1>3. /\ Len(req) < MaxDatagrams /\ req' = Append(req, a) /\ socket' = Append(socket, Len(req'))
      /\ UNCHANGED <<cfg, up, batch, worker_index, inbox, job, answer, outbox, sending, stats>>
  BY DEF Arrive, poolVars
<1>4. /\ req' \in Seq(Arrivals) /\ Len(req') = n /\ \A i \in Ids : req'[i] = req[i]
      /\ Ids' = 1..n /\ n \in 1..MaxDatagrams /\ n \in Nat
  BY <1>1, <1>2, <1>3, AppendProperties DEF TypeOK, Ids
<1>5. Ids \subseteq Ids' /\ Ids' = Ids \cup {n} /\ n \notin Ids /\ n \in Ids'
  BY <1>2, <1>4
<1>6. \A s \in Seq(Ids) : s \in Seq(Ids')
  BY <1>5
<1>7. /\ socket' \in Seq(Ids') /\ Len(socket') = Len(socket) + 1
      /\ \A k \in 1..Len(socket) : socket'[k] = socket[k]
      /\ socket'[Len(socket) + 1] = n /\ DOMAIN socket' = 1..(Len(socket) + 1)
  <2>1. socket \in Seq(Ids') /\ n \in Ids'
    BY <1>2, <1>5, <1>6
  <2>2. QED
    BY <1>2, <1>3, <1>4, <2>1, AppendProperties
<1>8. TypeOK'
  <2>1. batch' \in Seq(Ids') /\ outbox' \in Seq(Ids') /\ sending' \in Seq(Ids')
    BY <1>2, <1>3, <1>6
  <2>2. inbox' \in [Workers -> Seq(Ids')] /\ job' \in [Workers -> {0} \cup Ids']
    <3>1. inbox \in [Workers -> Seq(Ids)] /\ job \in [Workers -> {0} \cup Ids]
      BY <1>1 DEF TypeOK
    <3>2. QED
      BY <1>3, <1>5, <1>6, <3>1
  <2>3. {socket', batch', outbox', sending'} \subseteq Seq(Ids')
    BY <1>7, <2>1
  <2>4. Len(req') <= MaxDatagrams
    BY <1>2, <1>4
  <2>5. QED
    BY <1>1, <1>3, <1>4, <2>2, <2>3, <2>4 DEF TypeOK
<1>9. Taken' = Taken /\ Taken \in Nat /\ Taken <= Len(req) /\ Taken = Len(req) - Len(socket) - Len(batch)
  <2>1. Taken \in Nat /\ Taken = Len(req) - Len(socket) - Len(batch)
    BY <1>1 DEF InOrder, Taken
  <2>2. Taken' = n - (Len(socket) + 1) - Len(batch)
    BY <1>3, <1>4, <1>7 DEF Taken
  <2>3. QED
    BY <1>2, <2>1, <2>2
<1>10. InOrder'
  <2>1. ASSUME NEW k \in 1..(Len(socket) + 1) PROVE socket'[k] = Taken + Len(batch) + k
    <3>1. CASE k = Len(socket) + 1
      BY <1>2, <1>7, <1>9, <3>1
    <3>2. CASE k # Len(socket) + 1
      <4>1. k \in 1..Len(socket)
        BY <1>2, <3>2
      <4>2. QED
        BY <1>1, <1>2, <1>7, <4>1 DEF InOrder
    <3>3. QED
      BY <3>1, <3>2
  <2>2. QED
    BY <1>1, <1>3, <1>7, <1>9, <2>1 DEF InOrder
<1> HIDE DEF n
<1>11. \A w \in Workers : WorkerOk(w)'
  BY <1>3, <1>9 DEF PoolInv, WorkerOk
<1>12. \A w \in Workers : ~Holds(w, n) /\ \A i : Holds(w, i)' <=> Holds(w, i)
  <2>1. ASSUME NEW w \in Workers PROVE ~Holds(w, n)
    <3>1. /\ job[w] \in Nat /\ job[w] <= Taken
          /\ \A k \in DOMAIN inbox[w] : inbox[w][k] \in Ids
      BY <1>1, InboxFacts DEF PoolInv, WorkerOk
    <3>2. n \notin Range(inbox[w])
      BY <1>5, <3>1 DEF Range
    <3>3. job[w] # n
      BY <1>2, <1>9, <3>1 DEF n
    <3>4. QED
      BY <3>2, <3>3 DEF Holds
  <2>2. QED
    BY <1>3, <2>1 DEF Holds
<1>13. answer[n] = Pending
  BY <1>1, <1>2, <1>4, <1>9 DEF AnswersOk, n
<1>14. Apart'
  BY <1>1, <1>5, <1>12 DEF Apart
<1>15. AnswersOk'
  <2>1. ASSUME NEW i \in 1..MaxDatagrams, answer[i] # Pending
        PROVE  i <= Taken' /\ answer[i] = process_tftp_packet(req'[i].datagram, cfg.base)
    <3>1. i <= Taken /\ answer[i] = process_tftp_packet(req[i].datagram, cfg.base)
      BY <1>1, <2>1 DEF AnswersOk
    <3>2. i \in Ids
      BY <1>2, <1>9, <3>1
    <3>3. QED
      BY <1>4, <1>9, <3>1, <3>2
  <2>2. QED
    BY <1>1, <1>3, <2>1 DEF AnswersOk
<1>16. HashOrder'
  <2>1. \A i \in Ids : Home(i)' = Home(i)
    BY <1>4 DEF Home
  <2>2. QED
    BY <1>1, <1>3, <1>5, <1>12, <1>13, <2>1 DEF HashOrder
<1>17. Waiting' = Waiting /\ Replies' = Replies /\ InReply' = InReply
  <2>1. Waiting' = Waiting
    BY <1>5, <1>12 DEF Waiting, Queued
  <2>2. answer[n].kind # "error"
    BY <1>13 DEF Pending
  <2>3. {i \in Ids' : answer'[i].kind = "error"} = {i \in Ids : answer[i].kind = "error"}
    BY <1>3, <1>5, <2>2
  <2>4. Replies' = Replies
    BY <2>3 DEF Replies
  <2>5. InReply' = InReply
    BY <1>3 DEF InReply, Busy
  <2>6. QED
    BY <2>1, <2>4, <2>5
<1>18. PacketsAccounted'
  BY <1>1, <1>3, <1>17 DEF PacketsAccounted
<1>19. QED
  BY <1>8, <1>10, <1>11, <1>14, <1>15, <1>16, <1>18 DEF PoolInv

\* The master receives a batch.
LEMMA MasterRecvInv ==
  ASSUME PoolInv, MasterRecv PROVE PoolInv'
<1>1. TypeOK /\ InOrder /\ Apart /\ AnswersOk /\ HashOrder /\ PacketsAccounted
  BY DEF PoolInv
<1>2. /\ Len(req) \in Nat /\ Ids' = Ids
      /\ socket \in Seq(Ids) /\ Len(socket) \in Nat /\ DOMAIN socket = 1..Len(socket)
      /\ outbox \in Seq(Ids) /\ sending \in Seq(Ids)
  BY <1>1, PoolFacts DEF MasterRecv, Ids
<1>3. /\ batch = <<>> /\ batch' = FirstOf(socket, max_batch_size)
      /\ socket' = AfterFirst(socket, max_batch_size)
      /\ stats' = [stats EXCEPT !.packets_received = @ + Len(batch')]
      /\ UNCHANGED <<cfg, up, req, worker_index, inbox, job, answer, outbox, sending>>
  BY DEF MasterRecv, poolVars
<1> DEFINE m == Size(socket, max_batch_size)
<1>4. /\ m \in 0..Len(socket) /\ m <= max_batch_size
      /\ batch' \in Seq(Ids) /\ Len(batch') = m /\ DOMAIN batch' = 1..m
      /\ \A k \in 1..m : batch'[k] = socket[k]
      /\ socket' \in Seq(Ids) /\ Len(socket') = Len(socket) - m
      /\ DOMAIN socket' = 1..(Len(socket) - m)
      /\ \A k \in 1..(Len(socket) - m) : socket'[k] = socket[m + k]
  BY <1>2, <1>3, Sizes, FirstAndRest
<1> HIDE DEF m
<1>5. /\ Len(batch) = 0 /\ Taken \in Nat /\ Taken = Len(req) - Len(socket) /\ Taken' = Taken
      /\ \A k \in 1..Len(socket) : socket[k] = Taken + k
  <2>1. Len(batch) = 0
    BY <1>3
  <2>2. Taken \in Nat /\ Taken = Len(req) - Len(socket)
    BY <1>1, <1>2, <2>1 DEF InOrder, Taken
  <2>3. Taken' = Len(req) - (Len(socket) - m) - m
    BY <1>3, <1>4 DEF Taken
  <2>4. Taken' = Taken
    BY <1>2, <1>4, <2>2, <2>3
  <2>5. \A k \in 1..Len(socket) : socket[k] = Taken + Len(batch) + k
    BY <1>1, <1>2 DEF InOrder
  <2>6. QED
    BY <2>1, <2>2, <2>4, <2>5
<1>6. InOrder'
  <2>1. \A k \in 1..m : batch'[k] = Taken + k
    BY <1>2, <1>4, <1>5
  <2>2. ASSUME NEW k \in 1..(Len(socket) - m) PROVE socket'[k] = Taken + m + k
    <3>1. m + k \in 1..Len(socket)
      BY <1>2, <1>4
    <3>2. QED
      BY <1>4, <1>5, <3>1
  <2>3. QED
    BY <1>4, <1>5, <2>1, <2>2 DEF InOrder
<1>7. /\ stats' \in Stats /\ stats'.packets_received = stats.packets_received + m
      /\ stats'.packets_dropped = stats.packets_dropped
      /\ stats'.packets_processed = stats.packets_processed
      /\ stats'.packets_sent = stats.packets_sent
  <2>1. stats \in Stats /\ m \in Nat
    BY <1>1, <1>2, <1>4 DEF TypeOK
  <2>2. stats' = [stats EXCEPT !.packets_received = @ + m]
    BY <1>3, <1>4
  <2>3. QED
    BY <2>1, <2>2 DEF Stats
<1>8. TypeOK'
  <2>1. {socket', batch', outbox', sending'} \subseteq Seq(Ids')
    BY <1>2, <1>3, <1>4
  <2>2. QED
    BY <1>1, <1>2, <1>3, <1>4, <1>7, <2>1 DEF TypeOK
<1>9. \A w \in Workers : WorkerOk(w)'
  BY <1>3, <1>5 DEF PoolInv, WorkerOk
<1>10. Apart' /\ HashOrder' /\ Waiting' = Waiting
  BY <1>1, <1>2, <1>3 DEF Apart, HashOrder, Home, Holds, Waiting, Queued
<1>11. AnswersOk'
  BY <1>1, <1>3, <1>5 DEF AnswersOk
<1>12. Replies' = Replies /\ InReply' = InReply
  BY <1>2, <1>3 DEF Replies, InReply, Busy
<1>13. PacketsAccounted'
  <2>1. /\ stats.packets_dropped \in Nat /\ stats.packets_processed \in Nat
        /\ Cardinality(Waiting) \in Nat /\ m \in Nat
    BY <1>1, <1>2, <1>4, CountsNat, StatsFacts DEF TypeOK
  <2>2. /\ stats.packets_received =
             stats.packets_dropped + stats.packets_processed + Len(batch) + Cardinality(Waiting)
        /\ stats.packets_sent + Len(outbox) + Len(sending) + InReply <= Replies
    BY <1>1 DEF PacketsAccounted
  <2>3. stats'.packets_received =
          stats'.packets_dropped + stats'.packets_processed + Len(batch') + Cardinality(Waiting)'
    BY <1>4, <1>5, <1>7, <1>10, <2>1, <2>2
  <2>4. QED
    BY <1>3, <1>7, <1>12, <2>2, <2>3 DEF PacketsAccounted
<1>14. QED
  BY <1>6, <1>8, <1>9, <1>10, <1>11, <1>13 DEF PoolInv

\* Nobody has a datagram that was not distributed.
LEMMA HeldAreTaken ==
  ASSUME PoolInv, NEW w \in Workers, NEW i \in Nat, i > Taken PROVE ~Holds(w, i)
<1>1. TypeOK /\ WorkerOk(w) /\ Taken \in Nat
  BY DEF PoolInv, InOrder
<1>2. job[w] \in Nat /\ \A k \in DOMAIN inbox[w] : inbox[w][k] \in Nat
  BY <1>1, InboxFacts, PoolFacts
<1>3. job[w] <= Taken /\ \A k \in DOMAIN inbox[w] : inbox[w][k] <= Taken
  BY <1>1 DEF WorkerOk
<1>4. i \notin Range(inbox[w])
  BY <1>1, <1>2, <1>3 DEF Range
<1>5. QED
  BY <1>1, <1>2, <1>3, <1>4 DEF Holds

\* select_worker finds a worker, under ClientHash the client's own.
LEMMA SelectsWorker ==
  ASSUME TypeOK, NEW i \in Ids
  PROVE  /\ select_worker(i).idx \in Workers /\ select_worker(i).next \in Nat
         /\ cfg.strategy = "ClientHash" => select_worker(i).idx = Home(i)
<1>1. Hash[req[i].client] \in Nat
  <2>1. req[i] \in Arrivals
    BY ElementOfSeq, PoolFacts DEF TypeOK
  <2>2. QED
    BY <2>1, WorkerPoolAssumption
<1>2. worker_index \in Nat /\ worker_count \in Nat \ {0}
  BY Sizes DEF TypeOK
<1>3. \A n \in Nat : (n % worker_count) \in Workers
  BY <1>2 DEF Workers
<1>4. QED
  BY <1>1, <1>2, <1>3 DEF select_worker, TakeTurns, Home

\* The master gives a datagram to a worker, or drops it.
LEMMA DispatchInv ==
  ASSUME PoolInv, MasterDispatch PROVE PoolInv'
<1>1. TypeOK /\ InOrder /\ Apart /\ AnswersOk /\ HashOrder /\ PacketsAccounted
  BY DEF PoolInv
<1>2. /\ Len(req) \in Nat /\ Ids = 1..Len(req) /\ Ids' = Ids /\ IsFiniteSet(Ids)
      /\ socket \in Seq(Ids) /\ Len(socket) \in Nat /\ DOMAIN socket = 1..Len(socket)
      /\ batch \in Seq(Ids) /\ Len(batch) \in Nat /\ DOMAIN batch = 1..Len(batch)
      /\ outbox \in Seq(Ids) /\ sending \in Seq(Ids) /\ max_batch_size \in Nat
  BY <1>1, PoolFacts, Sizes DEF MasterDispatch, Ids
<1>3. PICK i : i = Head(batch)
  OBVIOUS
<1>4. PICK w : w = select_worker(i).idx
  OBVIOUS
<1>5. /\ batch # <<>> /\ Dispatch(i, w) /\ worker_index' = select_worker(i).next
      /\ batch' = Tail(batch)
      /\ UNCHANGED <<cfg, up, req, socket, job, answer, outbox, sending>>
  BY <1>3, <1>4 DEF MasterDispatch
<1>6. /\ batch' \in Seq(Ids) /\ Len(batch') = Len(batch) - 1 /\ Len(batch) > 0
      /\ DOMAIN batch' = 1..(Len(batch) - 1)
      /\ \A k \in 1..(Len(batch) - 1) : batch'[k] = batch[k + 1]
      /\ i = batch[1]
  <2>1. Len(batch) > 0
    BY <1>2, <1>5, EmptySeq
  <2>2. QED
    BY <1>2, <1>5, <1>3, <2>1, HeadTailProperties
<1>7. /\ Taken \in Nat /\ Taken = Len(req) - Len(socket) - Len(batch)
      /\ \A k \in 1..Len(batch) : batch[k] = Taken + k
      /\ \A k \in 1..Len(socket) : socket[k] = Taken + Len(batch) + k
  BY <1>1, <1>2 DEF InOrder, Taken
<1>8. i = Taken + 1 /\ Taken' = i /\ i \in Ids /\ i \in Nat
  <2>1. i = Taken + 1
    <3>1. 1 \in 1..Len(batch)
      BY <1>2, <1>6
    <3>2. QED
      BY <1>6, <1>7, <3>1
  <2>2. Taken' = Len(req) - Len(socket) - (Len(batch) - 1)
    BY <1>5, <1>6 DEF Taken
  <2>3. QED
    BY <1>2, <1>6, <1>7, <2>1, <2>2
<1>9. /\ w \in Workers /\ worker_index' \in Nat
      /\ cfg.strategy = "ClientHash" => w = Home(i)
  BY <1>1, <1>5, <1>8, <1>4, SelectsWorker
<1>10. InOrder'
  <2>1. ASSUME NEW k \in 1..(Len(batch) - 1) PROVE batch'[k] = i + k
    <3>1. k + 1 \in 1..Len(batch)
      BY <1>2
    <3>2. QED
      BY <1>6, <1>7, <1>8, <3>1
  <2>2. ASSUME NEW k \in 1..Len(socket) PROVE socket[k] = i + (Len(batch) - 1) + k
    <3>1. socket[k] = Taken + Len(batch) + k
      BY <1>7
    <3>2. QED
      BY <1>2, <1>7, <1>8, <3>1
  <2>3. QED
    BY <1>2, <1>5, <1>6, <1>8, <2>1, <2>2 DEF InOrder
<1>11. AnswersOk'
  <2>1. ASSUME NEW j \in 1..MaxDatagrams, answer[j] # Pending
        PROVE  j <= Taken' /\ answer[j] = process_tftp_packet(req[j].datagram, cfg.base)
    <3>1. j <= Taken /\ answer[j] = process_tftp_packet(req[j].datagram, cfg.base)
      BY <1>1, <2>1 DEF AnswersOk
    <3>2. QED
      BY <1>7, <1>8, <3>1, Sizes
  <2>2. QED
    BY <1>1, <1>5, <2>1 DEF AnswersOk
<1>12. \A v \in Workers : ~Holds(v, i)
  BY <1>7, <1>8, HeldAreTaken
<1>13. i \notin Waiting /\ answer[i] = Pending
  <2>1. i \in 1..MaxDatagrams
    BY <1>1, <1>8, PoolFacts
  <2>2. ~(i <= Taken)
    BY <1>7, <1>8
  <2>3. QED
    BY <1>1, <1>12, <2>1, <2>2 DEF Waiting, Queued, AnswersOk
<1>14. Replies' = Replies /\ InReply' = InReply
  BY <1>2, <1>5 DEF Replies, InReply, Busy
<1>15. ASSUME NEW v \in Workers, inbox'[v] = inbox[v] PROVE WorkerOk(v)'
  <2>1. WorkerOk(v) /\ job[v] \in Nat /\ \A k \in DOMAIN inbox[v] : inbox[v][k] \in Nat
    BY <1>1, <1>2, InboxFacts DEF PoolInv
  <2>2. QED
    BY <1>5, <1>7, <1>8, <1>15, <2>1 DEF WorkerOk
<1>16. /\ stats \in Stats /\ stats.packets_dropped \in Nat /\ stats.packets_processed \in Nat
       /\ stats.packets_received \in Nat /\ Cardinality(Waiting) \in Nat
  BY <1>1, CountsNat, StatsFacts DEF TypeOK
<1>17. /\ stats.packets_received =
            stats.packets_dropped + stats.packets_processed + Len(batch) + Cardinality(Waiting)
       /\ stats.packets_sent + Len(outbox) + Len(sending) + InReply <= Replies
  BY <1>1 DEF PacketsAccounted
<1>18. {socket', batch', outbox', sending'} \subseteq Seq(Ids') /\ Len(batch') <= max_batch_size
  <2>1. Len(batch) <= max_batch_size
    BY <1>1 DEF TypeOK
  <2>2. QED
    BY <1>2, <1>5, <1>6, <2>1
<1>19. CASE Len(inbox[w]) < worker_channel_size
  <2>1. inbox' = [inbox EXCEPT ![w] = Append(@, i)] /\ stats' = stats
    BY <1>5, <1>19 DEF Dispatch
  <2>2. /\ inbox[w] \in Seq(Ids) /\ Len(inbox[w]) \in Nat /\ DOMAIN inbox[w] = 1..Len(inbox[w])
        /\ job[w] \in Nat /\ \A k \in DOMAIN inbox[w] : inbox[w][k] \in Ids
    BY <1>1, <1>9, InboxFacts
  <2> DEFINE n == Len(inbox[w]) + 1
  <2>3. /\ inbox'[w] \in Seq(Ids) /\ Len(inbox'[w]) = n /\ DOMAIN inbox'[w] = 1..n
        /\ \A k \in 1..Len(inbox[w]) : inbox'[w][k] = inbox[w][k]
        /\ inbox'[w][n] = i
    <3>1. inbox'[w] = Append(inbox[w], i)
      BY <1>1, <1>9, <2>1 DEF TypeOK
    <3>2. QED
      BY <1>8, <2>2, <3>1, AppendProperties
  <2>4. \A v \in Workers : v # w => inbox'[v] = inbox[v]
    BY <1>1, <1>9, <2>1 DEF TypeOK
  <2>5. TypeOK'
    <3>1. inbox' \in [Workers -> Seq(Ids)]
      BY <1>1, <1>9, <2>1, <2>3 DEF TypeOK
    <3>2. Len(inbox'[w]) <= worker_channel_size
      BY <1>19, <2>2, <2>3, Sizes
    <3>3. \A v \in Workers : Len(inbox'[v]) <= worker_channel_size
      BY <1>1, <2>4, <3>2 DEF TypeOK
    <3>4. QED
      BY <1>1, <1>2, <1>5, <1>9, <1>18, <2>1, <3>1, <3>3 DEF TypeOK
  <2>6. WorkerOk(w)'
    <3>1. WorkerOk(w)
      BY <1>9 DEF PoolInv
    <3>2. job[w] <= i
      BY <1>7, <1>8, <2>2, <3>1 DEF WorkerOk
    <3>3. ASSUME NEW k \in 1..n
          PROVE  /\ job[w] < inbox'[w][k] /\ inbox'[w][k] <= i
                 /\ answer[inbox'[w][k]] = Pending
                 /\ \A l \in 1..n : k < l => inbox'[w][k] < inbox'[w][l]
      <4>1. CASE k = n
        BY <1>7, <1>8, <1>13, <2>2, <2>3, <3>1, <4>1 DEF WorkerOk
      <4>2. CASE k # n
        <5>1. k \in 1..Len(inbox[w]) /\ inbox'[w][k] = inbox[w][k] /\ inbox[w][k] \in Nat
          <6>1. k \in 1..Len(inbox[w])
            BY <2>2, <4>2
          <6>2. inbox[w][k] \in Ids
            BY <2>2, <6>1
          <6>3. inbox'[w][k] = inbox[w][k]
            BY <2>3, <6>1
          <6>4. QED
            BY <1>2, <6>1, <6>2, <6>3
        <5>2. /\ job[w] < inbox[w][k] /\ inbox[w][k] <= Taken
              /\ answer[inbox[w][k]] = Pending
              /\ \A l \in 1..Len(inbox[w]) : k < l => inbox[w][k] < inbox[w][l]
          BY <2>2, <3>1, <5>1 DEF WorkerOk
        <5>3. ASSUME NEW l \in 1..n, k < l PROVE inbox[w][k] < inbox'[w][l]
          <6>1. CASE l = n
            BY <1>7, <1>8, <2>3, <5>1, <5>2, <6>1
          <6>2. CASE l # n
            <7>1. l \in 1..Len(inbox[w])
              BY <2>2, <6>2
            <7>2. QED
              BY <2>3, <5>2, <5>3, <7>1
          <6>3. QED
            BY <6>1, <6>2
        <5>4. inbox[w][k] <= i
          BY <1>7, <1>8, <5>1, <5>2
        <5>5. QED
          BY <5>1, <5>2, <5>3, <5>4
      <4>3. QED
        BY <4>1, <4>2
    <3>4. job[w] # 0 => answer[job[w]].kind \in {"pending", "error"}
      BY <3>1 DEF WorkerOk
    <3>5. QED
      BY <1>5, <1>8, <2>3, <3>2, <3>3, <3>4 DEF WorkerOk
  <2>7. \A v \in Workers : WorkerOk(v)'
    BY <1>15, <2>4, <2>6
  <2>8. \A v \in Workers, j \in Ids : Holds(v, j)' <=> Holds(v, j) \/ (v = w /\ j = i)
    <3>1. Range(inbox'[w]) = Range(inbox[w]) \cup {i}
      <4>1. 1..n = 1..Len(inbox[w]) \cup {n}
        BY <2>2
      <4> HIDE DEF n
      <4>2. QED
        BY <2>2, <2>3, <4>1 DEF Range
    <3>2. QED
      BY <1>5, <2>4, <3>1 DEF Holds
  <2>9. Apart'
    BY <1>1, <1>2, <1>12, <2>8 DEF Apart
  <2>10. HashOrder'
    <3>1. \A j \in Ids : Home(j)' = Home(j)
      BY <1>5 DEF Home
    <3>2. \A j \in Ids : answer[j] # Pending => j < i
      <4>1. SUFFICES ASSUME NEW j \in Ids, answer[j] # Pending PROVE j < i
        OBVIOUS
      <4>2. j <= Taken
        BY <1>1, <4>1, PoolFacts DEF AnswersOk
      <4>3. QED
        BY <1>2, <1>7, <1>8, <4>2
    <3>3. QED
      BY <1>1, <1>2, <1>5, <1>9, <2>8, <3>1, <3>2 DEF HashOrder
  <2>11. Cardinality(Waiting') = Cardinality(Waiting) + 1
    <3>1. Waiting' = Waiting \cup {i}
      BY <1>2, <1>8, <1>9, <2>8 DEF Waiting, Queued
    <3>2. IsFiniteSet(Waiting)
      <4>1. Waiting \in SUBSET Ids
        BY DEF Waiting
      <4>2. QED
        BY <1>2, <4>1, FS_Subset
    <3>3. QED
      BY <1>13, <3>1, <3>2, FS_AddElement
  <2>12. PacketsAccounted'
    <3>1. stats.packets_received = stats.packets_dropped + stats.packets_processed
                                     + (Len(batch) - 1) + (Cardinality(Waiting) + 1)
      BY <1>2, <1>16, <1>17
    <3>2. QED
      BY <1>5, <1>6, <1>14, <1>17, <2>1, <2>11, <3>1 DEF PacketsAccounted
  <2>13. QED
    BY <1>10, <1>11, <2>5, <2>7, <2>9, <2>10, <2>12 DEF PoolInv
<1>20. CASE ~(Len(inbox[w]) < worker_channel_size)
  <2>1. inbox' = inbox /\ stats' = [stats EXCEPT !.packets_dropped = @ + 1]
    BY <1>5, <1>20 DEF Dispatch
  <2>2. /\ stats' \in Stats /\ stats'.packets_received = stats.packets_received
        /\ stats'.packets_dropped = stats.packets_dropped + 1
        /\ stats'.packets_processed = stats.packets_processed
        /\ stats'.packets_sent = stats.packets_sent
    BY <1>16, <2>1 DEF Stats
  <2>3. TypeOK'
    BY <1>1, <1>2, <1>5, <1>9, <1>18, <2>1, <2>2 DEF TypeOK
  <2>4. Apart' /\ HashOrder' /\ Waiting' = Waiting
    BY <1>1, <1>2, <1>5, <2>1 DEF Apart, HashOrder, Home, Holds, Waiting, Queued
  <2>5. PacketsAccounted'
    <3>1. stats'.packets_received = stats'.packets_dropped + stats'.packets_processed
                                      + (Len(batch) - 1) + Cardinality(Waiting)
      BY <1>2, <1>16, <1>17, <2>2
    <3>2. QED
      BY <1>5, <1>6, <1>14, <1>17, <2>2, <2>4, <3>1 DEF PacketsAccounted
  <2>6. \A v \in Workers : WorkerOk(v)'
    BY <1>15, <2>1
  <2>7. QED
    BY <1>10, <1>11, <2>3, <2>4, <2>5, <2>6 DEF PoolInv
<1>21. QED
  BY <1>19, <1>20

\* A worker takes the next datagram from its channel.
LEMMA TakeInv ==
  ASSUME PoolInv, NEW w \in Workers, WorkerTake(w) PROVE PoolInv'
<1>1. TypeOK /\ InOrder /\ Apart /\ AnswersOk /\ HashOrder /\ PacketsAccounted /\ WorkerOk(w)
  BY DEF PoolInv
<1>2. /\ inbox[w] \in Seq(Ids) /\ Len(inbox[w]) \in Nat /\ DOMAIN inbox[w] = 1..Len(inbox[w])
      /\ \A k \in DOMAIN inbox[w] : inbox[w][k] \in Ids
  BY <1>1, InboxFacts
<1>3. /\ job[w] = 0 /\ inbox[w] # <<>>
      /\ job' = [job EXCEPT ![w] = Head(inbox[w])] /\ inbox' = [inbox EXCEPT ![w] = Tail(@)]
      /\ UNCHANGED <<cfg, up, req, socket, batch, worker_index, answer, outbox, sending, stats>>
  BY DEF WorkerTake
<1>4. Ids' = Ids /\ Taken' = Taken /\ Ids = 1..Len(req) /\ Len(req) \in Nat
  BY <1>1, <1>3, PoolFacts DEF Ids, Taken
<1>5. PICK i : i = Head(inbox[w])
  OBVIOUS
<1>6. /\ job'[w] = i /\ inbox'[w] = Tail(inbox[w])
      /\ \A v \in Workers : v # w => job'[v] = job[v] /\ inbox'[v] = inbox[v]
  BY <1>1, <1>3, <1>5 DEF TypeOK
<1>7. /\ inbox'[w] \in Seq(Ids) /\ Len(inbox'[w]) = Len(inbox[w]) - 1
      /\ DOMAIN inbox'[w] = 1..(Len(inbox[w]) - 1)
      /\ \A k \in 1..(Len(inbox[w]) - 1) : inbox'[w][k] = inbox[w][k + 1]
      /\ i = inbox[w][1] /\ i \in Ids /\ Len(inbox[w]) > 0
  <2>1. Len(inbox[w]) > 0
    BY <1>2, <1>3, EmptySeq
  <2>2. 1 \in DOMAIN inbox[w]
    BY <1>2, <2>1
  <2>3. PICK s : s = inbox[w]
    OBVIOUS
  <2>4. s \in Seq(Ids) /\ s # <<>> /\ Len(s) \in Nat
    BY <1>2, <1>3, <2>3
  <2>5. /\ Tail(s) \in Seq(Ids) /\ Len(Tail(s)) = Len(s) - 1 /\ Head(s) = s[1]
        /\ DOMAIN Tail(s) = 1..(Len(s) - 1)
        /\ \A k \in 1..(Len(s) - 1) : Tail(s)[k] = s[k + 1]
    BY <2>4, HeadTailProperties, LenProperties
  <2>6. i = s[1] /\ s[1] \in Ids
    BY <1>2, <1>5, <2>2, <2>3, <2>5
  <2>7. QED
    BY <1>6, <2>1, <2>3, <2>5, <2>6
<1>8. TypeOK'
  <2>1. inbox' \in [Workers -> Seq(Ids)] /\ job' \in [Workers -> {0} \cup Ids]
    BY <1>1, <1>3, <1>5, <1>6, <1>7 DEF TypeOK
  <2>2. \A v \in Workers : Len(inbox'[v]) <= worker_channel_size
    <3>1. Len(inbox[w]) <= worker_channel_size
      BY <1>1 DEF TypeOK
    <3>2. Len(inbox'[w]) <= worker_channel_size
      BY <1>2, <1>7, <3>1, Sizes
    <3>3. QED
      BY <1>1, <1>6, <3>2 DEF TypeOK
  <2>3. QED
    BY <1>1, <1>3, <1>4, <2>1, <2>2 DEF TypeOK
<1>9. WorkerOk(w)'
  <2>1. \A k \in 1..Len(inbox[w]) :
          /\ inbox[w][k] <= Taken /\ answer[inbox[w][k]] = Pending
          /\ \A l \in 1..Len(inbox[w]) : k < l => inbox[w][k] < inbox[w][l]
    BY <1>1, <1>2 DEF WorkerOk
  <2>2. 1 \in 1..Len(inbox[w])
    BY <1>2, <1>7
  <2>3. i <= Taken /\ answer[i] = Pending
    BY <1>7, <2>1, <2>2
  <2>4. ASSUME NEW k \in 1..(Len(inbox[w]) - 1)
        PROVE  /\ i < inbox'[w][k] /\ inbox'[w][k] <= Taken /\ answer[inbox'[w][k]] = Pending
               /\ \A l \in 1..(Len(inbox[w]) - 1) : k < l => inbox'[w][k] < inbox'[w][l]
    <3>1. k + 1 \in 1..Len(inbox[w]) /\ 1 < k + 1
      BY <1>2
    <3>2. i < inbox[w][k + 1]
      BY <1>7, <2>1, <2>2, <3>1
    <3>3. ASSUME NEW l \in 1..(Len(inbox[w]) - 1), k < l PROVE inbox[w][k + 1] < inbox[w][l + 1]
      <4>1. l + 1 \in 1..Len(inbox[w]) /\ k + 1 < l + 1
        BY <1>2, <3>3
      <4>2. QED
        BY <2>1, <3>1, <4>1
    <3>4. QED
      BY <1>7, <2>1, <3>1, <3>2, <3>3
  <2>5. answer[i].kind = "pending"
    BY <2>3 DEF Pending
  <2>6. QED
    BY <1>3, <1>4, <1>6, <1>7, <2>3, <2>4, <2>5 DEF WorkerOk
<1>10. ASSUME NEW v \in Workers PROVE WorkerOk(v)'
  <2>1. CASE v = w
    BY <1>9, <2>1
  <2>2. CASE v # w
    BY <1>3, <1>4, <1>6, <2>2 DEF PoolInv, WorkerOk
  <2>3. QED
    BY <2>1, <2>2
<1>11. \A v \in Workers, j \in Ids : Holds(v, j)' <=> Holds(v, j)
  <2>1. Range(inbox[w]) = Range(inbox'[w]) \cup {i}
    <3>1. ASSUME NEW k \in 1..Len(inbox[w]) PROVE inbox[w][k] \in Range(inbox'[w]) \cup {i}
      <4>1. CASE k = 1
        BY <1>7, <4>1
      <4>2. CASE k # 1
        <5>1. k - 1 \in 1..(Len(inbox[w]) - 1) /\ (k - 1) + 1 = k
          BY <1>2, <4>2
        <5>2. inbox'[w][k - 1] = inbox[w][k]
          BY <1>7, <5>1
        <5>3. QED
          BY <1>7, <5>1, <5>2 DEF Range
      <4>3. QED
        BY <4>1, <4>2
    <3>2. ASSUME NEW k \in 1..(Len(inbox[w]) - 1) PROVE inbox'[w][k] \in Range(inbox[w])
      <4>1. k + 1 \in DOMAIN inbox[w]
        BY <1>2
      <4>2. QED
        BY <1>7, <4>1 DEF Range
    <3>3. i \in Range(inbox[w])
      <4>1. 1 \in DOMAIN inbox[w]
        BY <1>2, <1>7
      <4>2. QED
        BY <1>7, <4>1 DEF Range
    <3>4. QED
      BY <1>2, <1>7, <3>1, <3>2, <3>3 DEF Range
  <2>2. \A j \in Ids : j # 0
    BY <1>4
  <2>3. QED
    BY <1>3, <1>6, <2>1, <2>2 DEF Holds
<1>12. InOrder' /\ AnswersOk'
  BY <1>1, <1>3, <1>4 DEF InOrder, AnswersOk
<1>13. Apart' /\ Waiting' = Waiting
  BY <1>1, <1>4, <1>11 DEF Apart, Waiting, Queued
<1>14. HashOrder'
  <2>1. \A j \in Ids : Home(j)' = Home(j)
    BY <1>3 DEF Home
  <2>2. QED
    BY <1>1, <1>3, <1>4, <1>11, <2>1 DEF HashOrder
<1>15. Replies' = Replies /\ InReply' = InReply
  <2>1. answer[i] = Pending
    <3>1. 1 \in DOMAIN inbox[w]
      BY <1>2, <1>7
    <3>2. QED
      BY <1>1, <1>7, <3>1 DEF WorkerOk
  <2>2. {v \in Busy' : answer'[job'[v]] # Pending} = {v \in Busy : answer[job[v]] # Pending}
    BY <1>3, <1>6, <2>1 DEF Busy
  <2>3. QED
    BY <1>3, <1>4, <2>2 DEF Replies, InReply
<1>16. PacketsAccounted'
  BY <1>1, <1>3, <1>13, <1>15 DEF PacketsAccounted
<1>17. QED
  BY <1>8, <1>10, <1>12, <1>13, <1>14, <1>16 DEF PoolInv

\* The datagram a worker is at, which nobody else has.
LEMMA JobFacts ==
  ASSUME PoolInv, NEW w \in Workers, job[w] # 0, NEW i, i = job[w]
  PROVE  /\ i \in Ids /\ i \in Nat /\ i <= Taken /\ Holds(w, i)
         /\ \A k \in DOMAIN inbox[w] : inbox[w][k] # i
         /\ \A v \in Workers : v # w => job[v] # i /\ \A k \in DOMAIN inbox[v] : inbox[v][k] # i
<1>1. TypeOK /\ Apart /\ WorkerOk(w)
  BY DEF PoolInv
<1>2. /\ i \in Ids /\ i \in Nat /\ \A k \in DOMAIN inbox[w] : inbox[w][k] \in Nat
  BY <1>1, InboxFacts, PoolFacts
<1>3. i <= Taken /\ \A k \in DOMAIN inbox[w] : i < inbox[w][k]
  BY <1>1 DEF WorkerOk
<1>4. Holds(w, i)
  BY DEF Holds
<1>5. ASSUME NEW v \in Workers, v # w PROVE ~Holds(v, i)
  BY <1>1, <1>2, <1>4, <1>5 DEF Apart
<1>6. \A v \in Workers : v # w => job[v] # i /\ \A k \in DOMAIN inbox[v] : inbox[v][k] # i
  BY <1>5 DEF Holds, Range
<1>7. QED
  BY <1>2, <1>3, <1>4, <1>6

\* A worker is done with its datagram.
LEMMA DoneMoves ==
  ASSUME PoolInv, NEW w \in Workers, job[w] # 0, NEW i, i = job[w],
         job' = [job EXCEPT ![w] = 0], UNCHANGED <<req, inbox>>
  PROVE  /\ Ids' = Ids
         /\ \A v \in Workers, j \in Ids : Holds(v, j)' <=> Holds(v, j) /\ j # i
         /\ job' \in [Workers -> {0} \cup Ids] /\ job'[w] = 0
         /\ \A v \in Workers : v # w => job'[v] = job[v]
         /\ Cardinality(Waiting) \in Nat /\ Cardinality(Waiting') = Cardinality(Waiting) - 1
<1>1. /\ i \in Ids /\ i \in Nat /\ Holds(w, i)
      /\ \A k \in DOMAIN inbox[w] : inbox[w][k] # i
      /\ \A v \in Workers : v # w => job[v] # i /\ \A k \in DOMAIN inbox[v] : inbox[v][k] # i
  BY JobFacts
<1>2. TypeOK /\ job \in [Workers -> {0} \cup Ids] /\ IsFiniteSet(Ids) /\ 0 \notin Ids
  BY PoolFacts DEF PoolInv, TypeOK
<1>3. /\ job' \in [Workers -> {0} \cup Ids] /\ job'[w] = 0 /\ Ids' = Ids
      /\ \A v \in Workers : v # w => job'[v] = job[v]
  BY <1>2 DEF Ids
<1>4. ASSUME NEW v \in Workers, NEW j \in Ids PROVE Holds(v, j)' <=> Holds(v, j) /\ j # i
  <2>1. i \notin Range(inbox[v])
    BY <1>1 DEF Range
  <2>2. CASE v = w
    BY <1>2, <1>3, <2>1, <2>2 DEF Holds
  <2>3. CASE v # w
    BY <1>1, <1>3, <2>1, <2>3 DEF Holds
  <2>4. QED
    BY <2>2, <2>3
<1>5. Waiting' = Waiting \ {i} /\ i \in Waiting
  BY <1>1, <1>3, <1>4 DEF Waiting, Queued
<1>6. IsFiniteSet(Waiting)
  <2>1. Waiting \in SUBSET Ids
    BY DEF Waiting
  <2>2. QED
    BY <1>2, <2>1, FS_Subset
<1>7. Cardinality(Waiting) \in Nat /\ Cardinality(Waiting') = Cardinality(Waiting) - 1
  BY <1>5, <1>6, FS_RemoveElement, FS_CardinalityType
<1>8. QED
  BY <1>3, <1>4, <1>7

\* A datagram that is processed moves from the waiting ones to the counter.
LEMMA OneProcessed ==
  ASSUME /\ stats.packets_dropped \in Nat /\ stats.packets_processed \in Nat
         /\ Len(batch) \in Nat /\ Cardinality(Waiting) \in Nat,
         stats.packets_received =
           stats.packets_dropped + stats.packets_processed + Len(batch) + Cardinality(Waiting)
  PROVE  stats.packets_received = stats.packets_dropped + (stats.packets_processed + 1)
                                    + Len(batch) + (Cardinality(Waiting) - 1)
<1>1. PICK d, p, n, c \in Nat :
        /\ d = stats.packets_dropped /\ p = stats.packets_processed
        /\ n = Len(batch) /\ c = Cardinality(Waiting)
  OBVIOUS
<1>2. stats.packets_received = d + p + n + c
  BY <1>1
<1>3. d + p + n + c = d + (p + 1) + n + (c - 1)
  OBVIOUS
<1>4. QED
  BY <1>1, <1>2, <1>3

\* A worker sends an ERROR to the sender.
LEMMA ReplyInv ==
  ASSUME PoolInv, NEW w \in Workers, WorkerReply(w) PROVE PoolInv'
<1>1. TypeOK /\ InOrder /\ Apart /\ AnswersOk /\ HashOrder /\ PacketsAccounted
  BY DEF PoolInv
<1>2. /\ job[w] # 0 /\ answer[job[w]] # Pending /\ Len(outbox) < sender_channel_size
      /\ outbox' = Append(outbox, job[w]) /\ job' = [job EXCEPT ![w] = 0]
      /\ stats' = [stats EXCEPT !.packets_processed = @ + 1]
      /\ UNCHANGED <<cfg, up, req, socket, batch, worker_index, inbox, answer, sending>>
  BY DEF WorkerReply, WorkerDone
<1>3. PICK i : i = job[w]
  OBVIOUS
<1>4. i \in Ids
  BY <1>2, <1>3, JobFacts
<1>5. /\ Ids' = Ids /\ Taken' = Taken
      /\ \A v \in Workers, j \in Ids : Holds(v, j)' <=> Holds(v, j) /\ j # i
      /\ job' \in [Workers -> {0} \cup Ids] /\ job'[w] = 0
      /\ \A v \in Workers : v # w => job'[v] = job[v]
      /\ Cardinality(Waiting) \in Nat /\ Cardinality(Waiting') = Cardinality(Waiting) - 1
  BY <1>2, <1>3, DoneMoves DEF Taken
<1>6. /\ outbox' \in Seq(Ids) /\ Len(outbox') = Len(outbox) + 1 /\ Len(outbox) \in Nat
      /\ Len(outbox') <= sender_channel_size
  <2>1. outbox \in Seq(Ids) /\ Len(outbox) \in Nat
    BY <1>1, PoolFacts
  <2>2. outbox' \in Seq(Ids) /\ Len(outbox') = Len(outbox) + 1
    BY <1>2, <1>3, <1>4, <2>1, AppendProperties
  <2>3. QED
    BY <1>2, <2>1, <2>2, Sizes
<1>7. /\ stats \in Stats /\ stats' \in Stats
      /\ stats'.packets_received = stats.packets_received
      /\ stats'.packets_dropped = stats.packets_dropped
      /\ stats'.packets_processed = stats.packets_processed + 1
      /\ stats'.packets_sent = stats.packets_sent
  <2>1. stats \in Stats
    BY <1>1 DEF TypeOK
  <2>2. QED
    BY <1>2, <2>1 DEF Stats
<1>8. TypeOK'
  <2>1. {socket', batch', outbox', sending'} \subseteq Seq(Ids')
    BY <1>1, <1>2, <1>5, <1>6, PoolFacts
  <2>2. QED
    BY <1>1, <1>2, <1>5, <1>6, <1>7, <2>1 DEF TypeOK
<1>9. ASSUME NEW v \in Workers PROVE WorkerOk(v)'
  <2>1. WorkerOk(v) /\ Taken \in Nat /\ \A k \in DOMAIN inbox[v] : inbox[v][k] \in Nat \ {0}
    BY <1>1, InboxFacts, PoolFacts DEF PoolInv, InOrder
  <2>2. CASE v = w
    BY <1>2, <1>5, <2>1, <2>2 DEF WorkerOk
  <2>3. CASE v # w
    BY <1>2, <1>5, <2>1, <2>3 DEF WorkerOk
  <2>4. QED
    BY <2>2, <2>3
<1>10. InOrder' /\ AnswersOk'
  BY <1>1, <1>2, <1>5 DEF InOrder, AnswersOk
<1>11. Apart'
  BY <1>1, <1>5 DEF Apart
<1>12. HashOrder'
  <2>1. \A j \in Ids : Home(j)' = Home(j)
    BY <1>2 DEF Home
  <2>2. QED
    BY <1>1, <1>2, <1>5, <2>1 DEF HashOrder
<1>13. Replies' = Replies /\ InReply \in Nat /\ InReply' = InReply - 1
  <2> DEFINE F == {v \in Busy : answer[job[v]] # Pending}
             G == {v \in Busy' : answer'[job'[v]] # Pending}
  <2>1. /\ F \subseteq Workers /\ G \subseteq Workers /\ w \in F /\ w \notin G
        /\ F \ {w} = G \ {w}
    BY <1>2, <1>5 DEF Busy
  <2>2. InReply = Cardinality(F) /\ InReply' = Cardinality(G)
    BY DEF InReply
  <2>3. IsFiniteSet(Workers)
    BY <1>1, CountsNat
  <2> HIDE DEF F, G
  <2>4. InReply \in Nat /\ InReply' = InReply + 0 - 1
    BY <2>1, <2>2, <2>3, CountMoves
  <2>5. Replies' = Replies
    BY <1>2, <1>5 DEF Replies
  <2>6. QED
    BY <2>4, <2>5
<1>14. PacketsAccounted'
  <2>1. /\ stats.packets_received \in Nat /\ stats.packets_dropped \in Nat
        /\ stats.packets_processed \in Nat /\ stats.packets_sent \in Nat
        /\ Len(batch) \in Nat /\ Len(sending) \in Nat /\ Replies \in Nat
    BY <1>1, <1>7, StatsFacts, CountsNat, PoolFacts
  <2>2. /\ stats.packets_received =
             stats.packets_dropped + stats.packets_processed + Len(batch) + Cardinality(Waiting)
        /\ stats.packets_sent + Len(outbox) + Len(sending) + InReply <= Replies
    BY <1>1 DEF PacketsAccounted
  <2>3. /\ stats'.packets_received = stats'.packets_dropped + stats'.packets_processed
                                       + Len(batch') + Cardinality(Waiting')
    <3>1. Len(batch') = Len(batch)
      BY <1>2
    <3>2. Cardinality(Waiting) \in Nat /\ Cardinality(Waiting') = Cardinality(Waiting) - 1
      BY <1>5
    <3>3. stats.packets_received = stats.packets_dropped + (stats.packets_processed + 1)
                                     + Len(batch) + (Cardinality(Waiting) - 1)
      BY <2>1, <2>2, <3>2, OneProcessed
    <3>4. /\ stats'.packets_received = stats.packets_received
          /\ stats'.packets_dropped = stats.packets_dropped
          /\ stats'.packets_processed = stats.packets_processed + 1
      BY <1>7
    <3>5. QED
      BY <3>1, <3>2, <3>3, <3>4
  <2>4. stats'.packets_sent + Len(outbox') + Len(sending') + InReply' <= Replies'
    BY <1>2, <1>6, <1>7, <1>13, <2>1, <2>2
  <2>5. QED
    BY <2>3, <2>4 DEF PacketsAccounted
<1>15. QED
  BY <1>8, <1>9, <1>10, <1>11, <1>12, <1>14 DEF PoolInv

\* A worker answers its datagram; with an ERROR it keeps it until the sender has room.
LEMMA ProcessInv ==
  ASSUME PoolInv, NEW w \in Workers, WorkerProcess(w) PROVE PoolInv'
<1>1. TypeOK /\ InOrder /\ Apart /\ AnswersOk /\ HashOrder /\ PacketsAccounted
  BY DEF PoolInv
<1>2. PICK i : i = job[w]
  OBVIOUS
<1>3. PICK a : a = process_tftp_packet(req[i].datagram, cfg.base)
  OBVIOUS
<1>4. /\ i # 0 /\ answer[i] = Pending /\ answer' = [answer EXCEPT ![i] = a]
      /\ IF a.kind = "error" THEN UNCHANGED <<job, stats>> ELSE WorkerDone(w)
      /\ UNCHANGED <<cfg, up, req, socket, batch, worker_index, inbox, outbox, sending>>
  BY <1>2, <1>3 DEF WorkerProcess
<1>5. /\ i \in Ids /\ i \in Nat /\ i <= Taken /\ Holds(w, i)
      /\ \A k \in DOMAIN inbox[w] : inbox[w][k] # i
      /\ \A v \in Workers : v # w => job[v] # i /\ \A k \in DOMAIN inbox[v] : inbox[v][k] # i
  BY <1>2, <1>4, JobFacts
<1>6. /\ i \in 1..MaxDatagrams /\ Ids' = Ids /\ Taken' = Taken /\ Ids \subseteq 1..MaxDatagrams
      /\ DOMAIN answer = 1..MaxDatagrams
  BY <1>1, <1>4, <1>5, PoolFacts DEF Ids, Taken, AnswersOk
<1>7. /\ DOMAIN answer' = 1..MaxDatagrams /\ answer'[i] = a
      /\ \A j \in 1..MaxDatagrams : j # i => answer'[j] = answer[j]
  BY <1>4, <1>6
<1>8. InOrder'
  BY <1>1, <1>4, <1>6 DEF InOrder
<1>9. AnswersOk'
  BY <1>1, <1>3, <1>4, <1>5, <1>6, <1>7 DEF AnswersOk
<1>10. /\ \A v \in Workers, j \in Ids : Holds(v, j)' => Holds(v, j)
       /\ job' \in [Workers -> {0} \cup Ids] /\ job'[w] \in {0, i}
       /\ \A v \in Workers : v # w => job'[v] = job[v]
       /\ job'[w] = i => a.kind = "error"
  <2>1. CASE a.kind = "error"
    BY <1>1, <1>2, <1>4, <2>1 DEF Holds, TypeOK
  <2>2. CASE a.kind # "error"
    <3>1. job' = [job EXCEPT ![w] = 0]
      BY <1>4, <2>2 DEF WorkerDone
    <3>2. QED
      BY <1>2, <1>4, <3>1, DoneMoves
  <2>3. QED
    BY <2>1, <2>2
<1>11. ASSUME NEW v \in Workers PROVE WorkerOk(v)'
  <2>1. /\ WorkerOk(v) /\ Taken \in Nat
        /\ \A k \in DOMAIN inbox[v] : inbox[v][k] \in Ids /\ inbox[v][k] \in Nat \ {0}
        /\ job[v] \in {0} \cup Ids /\ job[v] \in Nat
    BY <1>1, InboxFacts, PoolFacts DEF PoolInv, InOrder
  <2>2. \A k \in DOMAIN inbox[v] : answer'[inbox[v][k]] = answer[inbox[v][k]]
    <3>1. \A k \in DOMAIN inbox[v] : inbox[v][k] # i /\ inbox[v][k] \in 1..MaxDatagrams
      BY <1>5, <1>6, <2>1
    <3>2. QED
      BY <1>7, <3>1
  <2>3. job'[v] \in {0, job[v]}
    BY <1>2, <1>10
  <2>4. job'[v] # 0 => answer'[job'[v]].kind \in {"pending", "error"}
    <3>1. CASE v = w
      BY <1>7, <1>10, <3>1
    <3>2. CASE v # w
      <4>1. SUFFICES ASSUME job[v] # 0 PROVE answer'[job[v]].kind \in {"pending", "error"}
        BY <1>10, <3>2
      <4>2. job[v] # i /\ job[v] \in 1..MaxDatagrams
        BY <1>5, <1>6, <2>1, <3>2, <4>1
      <4>3. QED
        BY <1>7, <2>1, <4>1, <4>2 DEF WorkerOk
    <3>3. QED
      BY <3>1, <3>2
  <2>5. QED
    BY <1>4, <1>6, <2>1, <2>2, <2>3, <2>4 DEF WorkerOk
<1>12. Apart'
  BY <1>1, <1>6, <1>10 DEF Apart
<1>13. HashOrder'
  <2>1. \A j \in Ids : Home(j)' = Home(j)
    BY <1>4 DEF Home
  <2>2. SUFFICES ASSUME cfg.strategy = "ClientHash", NEW v \in Workers, NEW j \in Ids,
                        Holds(v, j)'
                 PROVE  /\ v = Home(j)
                        /\ answer'[j] = Pending =>
                             \A k \in Ids : Home(k) = v /\ answer'[k] # Pending => k < j
    BY <1>4, <1>6, <2>1 DEF HashOrder
  <2>3. /\ Holds(v, j) /\ v = Home(j)
        /\ answer[j] = Pending => \A k \in Ids : Home(k) = v /\ answer[k] # Pending => k < j
    BY <1>1, <1>10, <2>2 DEF HashOrder
  <2>4. ASSUME answer'[j] = Pending, NEW k \in Ids, Home(k) = v, answer'[k] # Pending
        PROVE  k < j
    <3>1. CASE k = i
      <4>1. w = Home(i) /\ v = w
        BY <1>1, <1>5, <2>2, <2>4, <3>1 DEF HashOrder
      <4>2. j # i
        BY <2>4, <3>1
      <4>3. \E m \in DOMAIN inbox[w] : inbox[w][m] = j
        BY <1>2, <2>3, <4>1, <4>2 DEF Holds, Range
      <4>4. QED
        BY <1>2, <3>1, <4>3 DEF PoolInv, WorkerOk
    <3>2. CASE k # i
      <4>1. answer'[k] = answer[k]
        BY <1>6, <1>7, <3>2
      <4>2. answer[j] = Pending
        BY <1>4, <1>6, <1>7, <2>4
      <4>3. QED
        BY <2>3, <2>4, <4>1, <4>2
    <3>3. QED
      BY <3>1, <3>2
  <2>5. QED
    BY <2>3, <2>4
<1>14. /\ stats \in Stats /\ stats.packets_received \in Nat /\ stats.packets_dropped \in Nat
       /\ stats.packets_processed \in Nat /\ stats.packets_sent \in Nat
       /\ Len(batch) \in Nat /\ Len(sending) \in Nat /\ Len(outbox) \in Nat
       /\ Replies \in Nat /\ InReply \in Nat
       /\ IsFiniteSet(Ids) /\ IsFiniteSet(Workers)
  BY <1>1, StatsFacts, CountsNat, PoolFacts DEF TypeOK
<1>15. /\ stats.packets_received =
             stats.packets_dropped + stats.packets_processed + Len(batch) + Cardinality(Waiting)
        /\ stats.packets_sent + Len(outbox) + Len(sending) + InReply <= Replies
  BY <1>1 DEF PacketsAccounted
<1> DEFINE E == {j \in Ids : answer[j].kind = "error"}
           E1 == {j \in Ids : answer'[j].kind = "error"}
           F == {v \in Busy : answer[job[v]] # Pending}
           F1 == {v \in Busy' : answer'[job'[v]] # Pending}
<1>16. /\ Replies = Cardinality(E) /\ Replies' = Cardinality(E1)
       /\ InReply = Cardinality(F) /\ InReply' = Cardinality(F1)
  BY <1>6 DEF Replies, InReply
<1>17. /\ E \subseteq Ids /\ E1 \subseteq Ids /\ E \ {i} = E1 \ {i} /\ i \notin E
       /\ i \in E1 <=> a.kind = "error"
  <2>1. answer[i].kind # "error"
    BY <1>4 DEF Pending
  <2>2. \A j \in Ids : j # i => answer'[j] = answer[j]
    BY <1>6, <1>7
  <2>3. QED
    BY <1>5, <1>7, <2>1, <2>2
<1>18. /\ F \subseteq Workers /\ F1 \subseteq Workers /\ F \ {w} = F1 \ {w} /\ w \notin F
  <2>1. \A v \in Workers : v # w /\ job[v] # 0 => answer'[job[v]] = answer[job[v]]
    <3>1. SUFFICES ASSUME NEW v \in Workers, v # w, job[v] # 0
                   PROVE  answer'[job[v]] = answer[job[v]]
      OBVIOUS
    <3>2. job[v] # i /\ job[v] \in 1..MaxDatagrams
      BY <1>1, <1>5, <1>6, <3>1, InboxFacts
    <3>3. QED
      BY <1>7, <3>2
  <2>2. Busy \subseteq Workers /\ Busy' \subseteq Workers
    BY DEF Busy
  <2>3. ASSUME NEW v \in Workers, v # w PROVE v \in F <=> v \in F1
    BY <1>10, <2>1, <2>3 DEF Busy
  <2>4. w \notin F
    BY <1>2, <1>4
  <2>5. F \subseteq Workers /\ F1 \subseteq Workers
    BY <2>2
  <2> HIDE DEF F, F1
  <2>6. QED
    BY <2>3, <2>4, <2>5
<1>19. CASE a.kind = "error"
  <2>1. job' = job /\ stats' = stats
    BY <1>4, <1>19
  <2>2. w \in F1
    <3>1. a # Pending
      BY <1>19 DEF Pending
    <3>2. QED
      BY <1>2, <1>4, <1>7, <2>1, <3>1 DEF Busy
  <2> HIDE DEF E, E1, F, F1
  <2>3. Replies' = Replies + 1 - 0
    BY <1>14, <1>16, <1>17, <1>19, CountMoves
  <2>4. InReply' = InReply + 1 - 0
    BY <1>14, <1>16, <1>18, <2>2, CountMoves
  <2>5. Waiting' = Waiting
    BY <1>4, <1>6, <2>1 DEF Waiting, Queued, Holds
  <2>6. PacketsAccounted'
    <3>1. stats.packets_sent + Len(outbox) + Len(sending) + InReply' <= Replies'
      BY <1>14, <1>15, <2>3, <2>4
    <3>2. QED
      BY <1>4, <1>15, <2>1, <2>5, <3>1 DEF PacketsAccounted
  <2>7. TypeOK'
    BY <1>1, <1>4, <1>6, <2>1 DEF TypeOK
  <2>8. QED
    BY <1>8, <1>9, <1>11, <1>12, <1>13, <2>6, <2>7 DEF PoolInv
<1>20. CASE a.kind # "error"
  <2>1. job' = [job EXCEPT ![w] = 0] /\ stats' = [stats EXCEPT !.packets_processed = @ + 1]
    BY <1>4, <1>20 DEF WorkerDone
  <2>2. /\ job'[w] = 0 /\ Cardinality(Waiting) \in Nat
        /\ Cardinality(Waiting') = Cardinality(Waiting) - 1
    BY <1>2, <1>4, <2>1, DoneMoves
  <2>3. w \notin F1
    BY <2>2 DEF Busy
  <2> HIDE DEF E, E1, F, F1
  <2>4. E1 = E /\ F1 = F
    BY <1>17, <1>18, <1>20, <2>3
  <2>5. /\ stats' \in Stats /\ stats'.packets_received = stats.packets_received
        /\ stats'.packets_dropped = stats.packets_dropped
        /\ stats'.packets_processed = stats.packets_processed + 1
        /\ stats'.packets_sent = stats.packets_sent
    BY <1>14, <2>1 DEF Stats
  <2>6. PacketsAccounted'
    <3>1. Replies' = Replies /\ InReply' = InReply
      BY <1>16, <2>4
    <3>2. stats'.packets_received = stats'.packets_dropped + stats'.packets_processed
                                       + Len(batch) + Cardinality(Waiting')
      <4>1. stats.packets_received = stats.packets_dropped + (stats.packets_processed + 1)
                                       + Len(batch) + (Cardinality(Waiting) - 1)
        BY <1>14, <1>15, <2>2, OneProcessed
      <4>2. QED
        BY <2>2, <2>5, <4>1
    <3>3. QED
      BY <1>4, <1>15, <2>5, <3>1, <3>2 DEF PacketsAccounted
  <2>7. TypeOK'
    BY <1>1, <1>4, <1>6, <1>10, <2>5 DEF TypeOK
  <2>8. QED
    BY <1>8, <1>9, <1>11, <1>12, <1>13, <2>6, <2>7 DEF PoolInv
<1>21. QED
  BY <1>19, <1>20

\* Every step keeps the invariant.
LEMMA PoolStep == PoolInv /\ [Next]_vars => PoolInv'
<1>1. SUFFICES ASSUME PoolInv, [Next]_vars PROVE PoolInv'
  OBVIOUS
<1>2. CASE UNCHANGED vars
  <2>1. /\ UNCHANGED <<cfg, req, socket, batch, inbox, job, answer>>
        /\ UNCHANGED <<up, worker_index, outbox, sending, stats>>
    BY <1>2 DEF vars
  <2>2. /\ InOrder' /\ (\A w \in Workers : WorkerOk(w)') /\ Apart' /\ AnswersOk' /\ HashOrder'
        /\ Ids' = Ids /\ Waiting' = Waiting /\ Replies' = Replies /\ InReply' = InReply
    BY <1>1, <2>1, NothingMoves
  <2>3. TypeOK /\ PacketsAccounted
    BY <1>1 DEF PoolInv
  <2>4. TypeOK'
    BY <2>1, <2>2, <2>3 DEF TypeOK
  <2>5. PacketsAccounted'
    BY <2>1, <2>2, <2>3 DEF PacketsAccounted
  <2>6. QED
    BY <2>2, <2>4, <2>5 DEF PoolInv
<1>3. CASE \E a \in Arrivals : Arrive(a)
  BY <1>1, <1>3, ArriveInv
<1>4. CASE MasterRecv \/ MasterDispatch
  BY <1>1, <1>4, MasterRecvInv, DispatchInv
<1>5. CASE \E w \in Workers : WorkerTake(w) \/ WorkerProcess(w) \/ WorkerReply(w)
  BY <1>1, <1>5, TakeInv, ProcessInv, ReplyInv
<1>6. CASE MasterRecvError \/ SenderCollect \/ SenderSend \/ SenderError \/ Shutdown
  BY <1>1, <1>6, SenderInv
<1>7. QED
  BY <1>1, <1>2, <1>3, <1>4, <1>5, <1>6 DEF Next

\* The invariant holds in every state.
LEMMA PoolInvariant == Spec => []PoolInv
<1>1. PoolInv /\ [Next]_vars => PoolInv'
  BY PoolStep
<1>2. QED
  BY <1>1, PoolInit, PTL DEF Spec

---------------------------------------------------------------------------
(* Theorems. *)

\* No channel and no batch ever holds more than its capacity, and the master chooses only
\* workers that exist, for any number of workers, any capacities and any hash.
THEOREM TypeCorrect == Spec => []TypeOK
<1>1. PoolInv => TypeOK
  BY DEF PoolInv
<1>2. QED
  BY <1>1, PoolInvariant, PTL

\* The counters that start prints never lose a datagram or an ERROR, whatever the channels
\* drop and however the master, the workers and the sender interleave.
THEOREM PacketsAreAccounted == Spec => []PacketsAccounted
<1>1. PoolInv => PacketsAccounted
  BY DEF PoolInv
<1>2. QED
  BY <1>1, PoolInvariant, PTL

\* Under ClientHash no client's datagrams overtake each other, for any number of workers and
\* any hash, also when several clients share a worker and channels overflow.
THEOREM ClientsInOrder == Spec => []ClientOrder
<1>1. PoolInv => ClientOrder
  <2>1. SUFFICES ASSUME PoolInv, cfg.strategy = "ClientHash", NEW i \in Ids, NEW j \in Ids,
                        i < j, req[i].client = req[j].client, answer[j] # Pending
                 PROVE  /\ i \notin Range(batch)
                        /\ ~(Queued(i) /\ answer[i] = Pending)
    BY DEF ClientOrder
  <2>2. TypeOK /\ InOrder /\ AnswersOk /\ HashOrder
    BY <2>1 DEF PoolInv
  <2>3. i \in Nat /\ j \in Nat /\ j \in 1..MaxDatagrams
    BY <2>2, PoolFacts
  <2>4. Taken \in Nat /\ j <= Taken
    BY <2>1, <2>2, <2>3 DEF InOrder, AnswersOk
  <2>5. i \notin Range(batch)
    <3>1. SUFFICES ASSUME NEW k \in DOMAIN batch, batch[k] = i PROVE FALSE
      BY DEF Range
    <3>2. k \in Nat /\ k >= 1
      BY <2>2, PoolFacts
    <3>3. i = Taken + k
      BY <2>2, <3>1 DEF InOrder
    <3>4. QED
      BY <2>1, <2>3, <2>4, <3>2, <3>3
  <2>6. ~(Queued(i) /\ answer[i] = Pending)
    <3>1. SUFFICES ASSUME NEW w \in Workers, Holds(w, i), answer[i] = Pending PROVE FALSE
      BY DEF Queued
    <3>2. w = Home(i) /\ \A l \in Ids : Home(l) = w /\ answer[l] # Pending => l < i
      BY <2>1, <2>2, <3>1 DEF HashOrder
    <3>3. Home(j) = Home(i)
      BY <2>1 DEF Home
    <3>4. j < i
      BY <2>1, <3>2, <3>3
    <3>5. QED
      BY <2>1, <2>3, <3>4
  <2>7. QED
    BY <2>5, <2>6
<1>2. QED
  BY <1>1, PoolInvariant, PTL

\* Every answer of a worker settles its own datagram, for every set of datagrams and
\* configurations, where allowed_patterns do not count.
THEOREM RequestsAreSettled == Spec => []RequestsSettled
<1>1. PoolInv => RequestsSettled
  <2>1. SUFFICES ASSUME PoolInv, NEW i \in Ids, answer[i] # Pending
                 PROVE  /\ req[i].datagram.op \in {"short", "unknown"} => answer[i].kind = "error"
                        /\ Settled(req[i].datagram, cfg.base, FALSE, answer[i])
    BY DEF RequestsSettled
  <2>2. TypeOK /\ AnswersOk
    BY <2>1 DEF PoolInv
  <2>3. i \in 1..MaxDatagrams
    BY <2>2, PoolFacts
  <2>4. answer[i] = process_tftp_packet(req[i].datagram, cfg.base)
    BY <2>1, <2>2, <2>3 DEF AnswersOk
  <2>5. req[i].datagram \in Datagram /\ cfg.base \in Config
    BY <2>2, PoolFacts, ElementOfSeq, WorkerPoolAssumption DEF TypeOK
  <2>6. QED
    BY <2>4, <2>5, WorkerSettles
<1>2. QED
  BY <1>1, PoolInvariant, PTL

=============================================================================
