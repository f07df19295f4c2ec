--------------------------- MODULE MulticastProofs ---------------------------
(***************************************************************************)
(* Proofs about Multicast for every set of clients, file size, capacity    *)
(* and number of rounds, joins, transfers and failures.                    *)
(*                                                                         *)
(* IInv falls into two parts that hardly touch each other: the session     *)
(* (who is a member, who is the master: SessionOk) and the transfers with  *)
(* the queue they share (TransferOk).  The argument for JoinersServed is   *)
(* in QueueOk and JoinerOk: while only one transfer runs, every block the  *)
(* first pass is past is in the queue, so that whoever joins then finds    *)
(* what it missed there, and the first round repeats all of the queue.     *)
(***************************************************************************)
EXTENDS Multicast, FiniteSetTheorems, TLAPS

Pcs == {"none", "sending", "waiting", "round", "repeating", "done", "failed", "panicked"}
TransferRecord == [pc : Pcs, block : 1..(blocks + 1), retry : 0..max_retries,
                   todo : SUBSET (0..(BlockMod - 1))]

SessionOk ==
  /\ clients \subseteq Clients /\ is_master \subseteq clients /\ fresh \subseteq clients
  /\ Cardinality(clients) <= max_clients
  /\ master_client \in Clients \cup {None}
  /\ IsFiniteSet(clients)
  /\ MasterIsMember

TransferOk ==
  /\ blocks \in FileBlocks /\ overflow_checks \in BOOLEAN
  /\ retransmit_queue \subseteq 0..(BlockMod - 1)
  /\ transfer \in [Transfers -> TransferRecord]
  /\ joined \in [Clients -> 0..MaxTransfers]
  /\ heard \in [Clients -> SUBSET Blocks]
  /\ overlap \in BOOLEAN /\ joins \in 0..MaxJoins /\ failures \in 0..MaxFailures
  /\ StartedInOrder
  /\ OneAtATime
  /\ Undisturbed => /\ QueueOk
                    /\ \A c \in Clients : joined[c] # 0 => JoinerOk(c, joined[c])

\* The two parts are the inductive invariant.
LEMMA Parts == IInv <=> SessionOk /\ TransferOk
  BY DEF IInv, TypeOK, SessionOk, TransferOk, TransferRecord, Pcs

---------------------------------------------------------------------------
(* The session. *)

\* A client that joins, or joins again, leaves the session with one master.
LEMMA AddClientSession ==
  ASSUME SessionOk, NEW c \in Clients, add_client(c)
  PROVE  SessionOk'
<1>1. /\ IsFiniteSet(clients \cup {c})
      /\ Cardinality(clients \cup {c}) \in {Cardinality(clients), Cardinality(clients) + 1}
  BY FS_AddElement DEF SessionOk
<1>2. Cardinality(clients) \in Nat
  BY FS_CardinalityType DEF SessionOk
<1>3. Cardinality(clients') <= max_clients
  BY <1>1, <1>2, MulticastAssumption DEF add_client
<1>4. MasterIsMember'
  BY MulticastAssumption DEF SessionOk, MasterIsMember, add_client, None
<1>5. QED
  BY <1>1, <1>3, <1>4 DEF SessionOk, add_client

\* A smaller session is finite and within max_clients.
LEMMA FewerClients ==
  ASSUME SessionOk, clients' \subseteq clients
  PROVE  IsFiniteSet(clients') /\ Cardinality(clients') <= max_clients
<1>1. IsFiniteSet(clients') /\ Cardinality(clients') <= Cardinality(clients)
  BY FS_Subset DEF SessionOk
<1>2. Cardinality(clients) \in Nat /\ Cardinality(clients') \in Nat
  BY <1>1, FS_CardinalityType DEF SessionOk
<1>3. QED
  BY <1>1, <1>2, MulticastAssumption DEF SessionOk

\* The removal of inactive clients elects a master among those that stay.
LEMMA RemoveSession ==
  ASSUME SessionOk, remove_inactive_clients
  PROVE  SessionOk'
<1>1. IsFiniteSet(clients') /\ Cardinality(clients') <= max_clients
  BY FewerClients DEF SessionOk, remove_inactive_clients
<1>2. MasterIsMember'
  BY MulticastAssumption DEF SessionOk, MasterIsMember, remove_inactive_clients, None
<1>3. QED
  BY <1>1, <1>2 DEF SessionOk, remove_inactive_clients

\* Time alone changes no membership.
LEMMA AgeSession ==
  ASSUME SessionOk, UNCHANGED <<clients, is_master, master_client>>, fresh' \subseteq fresh
  PROVE  SessionOk'
  BY DEF SessionOk, MasterIsMember

---------------------------------------------------------------------------
(* The transfers. *)

\* Steps that leave the transfers, the queue and what clients heard alone.
LEMMA UnchangedTransfers ==
  ASSUME TransferOk, UNCHANGED <<fixed, retransmit_queue, transfer, joined, heard, counts>>
  PROVE  TransferOk'
  BY DEF TransferOk, fixed, counts, StartedInOrder, OneAtATime, Undisturbed, QueueOk, JoinerOk,
         TransferRecord, Transfers, Blocks, Running, FirstPass

\* A step of a running transfer t, which becomes r, as far as t itself goes.
StepsTo(t, r) ==
  /\ Running(t)
  /\ UNCHANGED <<fixed, joined, overlap, joins>>
  /\ failures' \in 0..MaxFailures /\ failures' >= failures
  /\ r \in TransferRecord /\ r.pc # "none"
  /\ transfer' = [transfer EXCEPT ![t] = r]
  /\ retransmit_queue' \subseteq 0..(BlockMod - 1)
  /\ heard' \in [Clients -> SUBSET Blocks] /\ \A c \in Clients : heard[c] \subseteq heard'[c]
  /\ r.pc \in {"sending", "waiting"} => r.block \in Blocks /\ r.retry = 0
  /\ Undisturbed' =>
       /\ r.pc \in {"sending", "waiting"} => 1..(r.block - 1) \subseteq retransmit_queue'
       /\ r.pc = "round" => r.retry = 0 \/ retransmit_queue' = {}
       /\ r.pc = "repeating" => r.retry > 0 /\ retransmit_queue' = {}
       /\ \A c \in Clients : joined[c] = t =>
            /\ r.pc = "round" => Blocks \subseteq heard'[c] \cup retransmit_queue'
            /\ r.pc = "repeating" => Blocks \subseteq heard'[c] \cup r.todo
            /\ r.pc = "done" => Blocks \subseteq heard'[c]

\* Such a step preserves TransferOk: while no transfers overlap, no other one looks at the
\* queue.
LEMMA TransferStep ==
  ASSUME TransferOk, NEW t \in Transfers, NEW r, StepsTo(t, r)
  PROVE  TransferOk'
<1> USE DEF StepsTo
<1>1. /\ transfer' \in [Transfers -> TransferRecord]
      /\ transfer'[t] = r
      /\ \A u \in Transfers : u # t => transfer'[u] = transfer[u]
  BY DEF TransferOk
<1>2. MaxTransfers \in Nat /\ MaxFailures \in Nat
  BY MulticastAssumption
<1>3. \A u \in Transfers : transfer[u].pc # "none" => transfer'[u].pc # "none"
  BY <1>1
<1>4. StartedInOrder'
  <2>1. ASSUME NEW u \in Transfers, transfer'[u].pc # "none", NEW v \in 1..(u - 1)
        PROVE  transfer'[v].pc # "none"
    <3>1. v \in Transfers
      BY <1>2 DEF Transfers
    <3>2. transfer[u].pc # "none"
      BY <1>1, <2>1 DEF Running
    <3>3. transfer[v].pc # "none"
      BY <3>2 DEF TransferOk, StartedInOrder
    <3>4. QED
      BY <1>3, <3>1, <3>3
  <2>2. ASSUME NEW u \in Transfers, FirstPass(u)'
        PROVE  transfer'[u].block \in Blocks' /\ transfer'[u].retry = 0
    BY <1>1, <2>2 DEF TransferOk, StartedInOrder, FirstPass, Blocks, fixed
  <2>3. ASSUME NEW u \in Transfers, transfer'[u].pc = "none"
        PROVE  transfer'[u].block = 1 /\ transfer'[u].retry = 0
    BY <1>1, <2>3 DEF TransferOk, StartedInOrder
  <2>4. QED
    BY <2>1, <2>2, <2>3 DEF StartedInOrder, Transfers
<1>5. \A u \in Transfers : Running(u)' => Running(u)
  BY <1>1 DEF Running
<1>6. OneAtATime'
  BY <1>5 DEF TransferOk, OneAtATime, Transfers
<1>7. ASSUME Undisturbed'
      PROVE  /\ QueueOk'
             /\ \A c \in Clients : joined'[c] # 0 => JoinerOk(c, joined[c])'
  <2>1. Undisturbed
    BY <1>2, <1>7 DEF TransferOk, Undisturbed, fixed
  <2>2. ASSUME NEW u \in Transfers, u # t PROVE transfer'[u].pc \in {"none", "done", "failed", "panicked"}
    BY <1>1, <2>1, <2>2 DEF TransferOk, Undisturbed, OneAtATime, Running
  <2>3. QueueOk'
    BY <1>1, <1>7, <2>2 DEF QueueOk, FirstPass, Transfers
  <2>4. ASSUME NEW c \in Clients, joined'[c] # 0 PROVE JoinerOk(c, joined[c])'
    <3>1. joined'[c] = joined[c] /\ joined[c] \in Transfers /\ JoinerOk(c, joined[c])
      BY <1>2, <2>1, <2>4 DEF TransferOk, Transfers
    <3>2. CASE joined[c] = t
      BY <1>1, <1>7, <3>1, <3>2 DEF JoinerOk, Blocks, fixed
    <3>3. CASE joined[c] # t
      BY <1>1, <2>2, <3>1, <3>3 DEF JoinerOk, Blocks, fixed
    <3>4. QED
      BY <3>2, <3>3
  <2>5. QED
    BY <2>3, <2>4
<1>8. TransferRecord' = TransferRecord /\ Transfers' = Transfers /\ Blocks' = Blocks
  BY DEF TransferRecord, Transfers, Blocks, fixed
<1>9. QED
  BY <1>1, <1>4, <1>6, <1>7, <1>8 DEF TransferOk, fixed

\* What is known of a transfer that runs.
LEMMA RunningRecord ==
  ASSUME TransferOk, NEW t \in Transfers
  PROVE  /\ transfer[t] \in TransferRecord
         /\ FirstPass(t) => transfer[t].block \in Blocks /\ transfer[t].retry = 0
         /\ blocks \in Nat /\ BlockMod \in Nat \ {0} /\ max_retries \in Nat \ {0}
         /\ failures \in 0..MaxFailures /\ failures >= failures
         /\ \A c \in Clients : heard[c] \subseteq heard[c]
  BY MulticastAssumption DEF TransferOk, StartedInOrder

\* Replacing fields of a record by values of their types gives such a record.
LEMMA RecordPc ==
  ASSUME NEW x \in TransferRecord, NEW pc \in Pcs
  PROVE  [x EXCEPT !.pc = pc] \in TransferRecord
  BY DEF TransferRecord

\* A step to another block, as a record.
LEMMA RecordBlockPc ==
  ASSUME NEW x \in TransferRecord, NEW pc \in Pcs, NEW b \in 1..(blocks + 1)
  PROVE  [x EXCEPT !.block = b, !.pc = pc] \in TransferRecord
  BY DEF TransferRecord

\* A step that takes a block off the round's list, as a record.
LEMMA RecordTodoPc ==
  ASSUME NEW x \in TransferRecord, NEW pc \in Pcs, NEW q \in SUBSET (0..(BlockMod - 1))
  PROVE  [x EXCEPT !.todo = q, !.pc = pc] \in TransferRecord
  BY DEF TransferRecord

\* The start of a round, as a record.
LEMMA RecordRound ==
  ASSUME NEW x \in TransferRecord, NEW pc \in Pcs, NEW n \in 0..max_retries,
         NEW q \in SUBSET (0..(BlockMod - 1))
  PROVE  [x EXCEPT !.pc = pc, !.retry = n, !.todo = q] \in TransferRecord
  BY DEF TransferRecord

\* Sending the next block of the first pass.
LEMMA SendBlockInv ==
  ASSUME TransferOk, NEW t \in Transfers, SendBlock(t)
  PROVE  TransferOk'
<1> DEFINE r == [transfer[t] EXCEPT !.pc = "waiting"]
<1>1. /\ r \in TransferRecord /\ r.pc = "waiting"
      /\ r.block = transfer[t].block /\ r.retry = transfer[t].retry
  BY RunningRecord DEF TransferRecord, Pcs
<1>2. /\ transfer[t].pc = "sending" /\ Running(t) /\ FirstPass(t)
      /\ UNCHANGED <<fixed, retransmit_queue, joined, overlap, joins, failures>>
      /\ transfer' = [transfer EXCEPT ![t] = r]
  BY DEF SendBlock, Running, FirstPass, counts
<1>3. heard' \in [Clients -> SUBSET Blocks] /\ \A c \in Clients : heard[c] \subseteq heard'[c]
  BY <1>2, RunningRecord DEF TransferOk, SendBlock, Multicast
<1>4. Undisturbed' => 1..(r.block - 1) \subseteq retransmit_queue'
  BY <1>1, <1>2 DEF TransferOk, Undisturbed, QueueOk, fixed
<1>5. failures' \in 0..MaxFailures /\ failures' >= failures
  BY <1>2, RunningRecord
<1>6. r.block \in Blocks /\ r.retry = 0 /\ retransmit_queue' \subseteq 0..(BlockMod - 1)
  BY <1>1, <1>2, RunningRecord DEF TransferOk
<1> HIDE DEF r
<1>7. StepsTo(t, r)
  BY <1>1, <1>2, <1>3, <1>4, <1>5, <1>6 DEF StepsTo
<1>8. QED
  BY <1>7, TransferStep

\* A block below BlockMod is queued under its own number, and repeated as itself.
LEMMA NumbersTell ==
  ASSUME TransferOk, blocks < BlockMod, NEW b \in Blocks
  PROVE  BlockNum(b) = b /\ Repeated(b) = b
<1>1. blocks \in Nat /\ BlockMod \in Nat \ {0} /\ b \in 1..blocks
  BY MulticastAssumption DEF TransferOk, Blocks
<1>2. QED
  BY <1>1 DEF BlockNum, Repeated

\* The timeout of a block queues it, so that the queue holds all blocks the pass is past.
LEMMA AckTimeoutInv ==
  ASSUME TransferOk, NEW t \in Transfers, AckTimeout(t)
  PROVE  TransferOk'
<1> DEFINE b == transfer[t].block
           r == [transfer[t] EXCEPT !.block = b + 1, !.pc = PassFrom(b + 1)]
<1>1. /\ transfer[t].pc = "waiting" /\ Running(t) /\ FirstPass(t)
      /\ UNCHANGED <<fixed, heard, joined, overlap, joins, failures>>
      /\ retransmit_queue' = retransmit_queue \cup {BlockNum(b)}
      /\ transfer' = [transfer EXCEPT ![t] = r]
  BY DEF AckTimeout, Running, FirstPass, counts
<1>2. b \in 1..blocks /\ blocks \in Nat /\ transfer[t].retry = 0
  BY <1>1, RunningRecord DEF Blocks
<1>3. PassFrom(b + 1) = IF b + 1 > blocks THEN "round" ELSE "sending"
  BY DEF PassFrom
<1>4. /\ r \in TransferRecord /\ r.pc = PassFrom(b + 1)
      /\ r.block = b + 1 /\ r.retry = 0
  <2>1. b + 1 \in 1..(blocks + 1) /\ PassFrom(b + 1) \in Pcs
    BY <1>2, <1>3 DEF Pcs
  <2>2. transfer[t] \in TransferRecord
    BY RunningRecord
  <2>3. r \in TransferRecord
    BY <1>2, <2>1, <2>2, RecordBlockPc
  <2>4. QED
    BY <1>2, <2>2, <2>3 DEF TransferRecord
<1>5. BlockNum(b) \in 0..(BlockMod - 1)
  BY <1>2, MulticastAssumption DEF BlockNum
<1>6. retransmit_queue' \subseteq 0..(BlockMod - 1)
  BY <1>1, <1>5 DEF TransferOk
<1>7. ASSUME Undisturbed' PROVE 1..b \subseteq retransmit_queue'
  <2>1. Undisturbed
    BY <1>1, <1>7 DEF Undisturbed, fixed
  <2>2. 1..(b - 1) \subseteq retransmit_queue
    BY <1>1, <2>1 DEF TransferOk, QueueOk
  <2>3. BlockNum(b) = b
    BY <1>2, <2>1, NumbersTell DEF Undisturbed, Blocks
  <2>4. QED
    BY <1>1, <1>2, <2>2, <2>3
<1>8. failures' \in 0..MaxFailures /\ failures' >= failures
      /\ heard' \in [Clients -> SUBSET Blocks] /\ \A c \in Clients : heard[c] \subseteq heard'[c]
  BY <1>1, RunningRecord DEF TransferOk
<1>9. /\ r.pc # "none" /\ r.pc # "repeating" /\ r.pc # "done"
      /\ r.pc \in {"sending", "waiting"} => r.block \in Blocks
      /\ r.pc = "round" => Blocks = 1..b
      /\ 1..(r.block - 1) = 1..b
  BY <1>2, <1>3, <1>4 DEF Blocks
<1> HIDE DEF r, b
<1>10. StepsTo(t, r)
  BY <1>1, <1>4, <1>6, <1>7, <1>8, <1>9 DEF StepsTo
<1>11. QED
  BY <1>10, TransferStep

\* A round takes the whole queue.
LEMMA StartRoundInv ==
  ASSUME TransferOk, NEW t \in Transfers, StartRound(t)
  PROVE  TransferOk'
<1> DEFINE pc == IF retransmit_queue = {} THEN "done" ELSE "repeating"
           n == IF retransmit_queue = {} THEN transfer[t].retry ELSE transfer[t].retry + 1
           r == [transfer[t] EXCEPT !.pc = pc, !.retry = n, !.todo = retransmit_queue]
<1>1. /\ transfer[t].pc = "round" /\ Running(t) /\ transfer[t].retry < max_retries
      /\ UNCHANGED <<fixed, heard, joined, overlap, joins, failures>>
      /\ retransmit_queue' = {}
  BY DEF StartRound, Running, counts
<1>2. transfer' = [transfer EXCEPT ![t] = r]
  BY DEF StartRound
<1>3. /\ r \in TransferRecord
      /\ \/ r.pc = "done" /\ retransmit_queue = {}
         \/ r.pc = "repeating" /\ r.todo = retransmit_queue /\ r.retry > 0
  <2>1. transfer[t] \in TransferRecord /\ transfer[t].retry + 1 \in 1..max_retries
    BY <1>1, RunningRecord DEF TransferRecord
  <2>2. /\ pc \in Pcs /\ n \in 0..max_retries /\ retransmit_queue \in SUBSET (0..(BlockMod - 1))
        /\ pc = "repeating" => n > 0
    BY <2>1, RunningRecord DEF TransferOk, TransferRecord, Pcs
  <2>3. r.pc = pc /\ r.retry = n /\ r.todo = retransmit_queue
    BY <2>1 DEF TransferRecord
  <2> HIDE DEF n
  <2>4. r \in TransferRecord
    BY <2>1, <2>2, RecordRound
  <2>5. QED
    BY <2>2, <2>3, <2>4
<1>4. ASSUME Undisturbed', NEW c \in Clients, joined[c] = t
      PROVE  Blocks \subseteq heard[c] \cup retransmit_queue
  <2>1. Undisturbed /\ t # 0
    BY <1>1, <1>4, MulticastAssumption DEF Undisturbed, fixed, Transfers
  <2>2. QED
    BY <1>1, <1>4, <2>1 DEF TransferOk, JoinerOk
<1>5. failures' \in 0..MaxFailures /\ failures' >= failures
      /\ heard' \in [Clients -> SUBSET Blocks] /\ \A c \in Clients : heard[c] \subseteq heard'[c]
  BY <1>1, RunningRecord DEF TransferOk
<1> HIDE DEF r
<1>6. StepsTo(t, r)
  BY <1>1, <1>2, <1>3, <1>4, <1>5 DEF StepsTo
<1>7. QED
  BY <1>6, TransferStep

\* After the last round nothing is left to repeat.
LEMMA RoundsOverInv ==
  ASSUME TransferOk, NEW t \in Transfers, RoundsOver(t)
  PROVE  TransferOk'
<1> DEFINE r == [transfer[t] EXCEPT !.pc = "done"]
<1>1. /\ transfer[t].pc = "round" /\ Running(t) /\ transfer[t].retry = max_retries
      /\ UNCHANGED <<fixed, heard, retransmit_queue, joined, overlap, joins, failures>>
      /\ transfer' = [transfer EXCEPT ![t] = r]
  BY DEF RoundsOver, Running, counts
<1>2. r \in TransferRecord /\ r.pc = "done"
  BY RunningRecord DEF TransferRecord, Pcs
<1>3. ASSUME Undisturbed', NEW c \in Clients, joined[c] = t
      PROVE  Blocks \subseteq heard[c]
  <2>1. Undisturbed /\ t # 0
    BY <1>1, <1>3, MulticastAssumption DEF Undisturbed, fixed, Transfers
  <2>2. retransmit_queue = {}
    BY <1>1, <2>1, RunningRecord DEF TransferOk, QueueOk
  <2>3. QED
    BY <1>1, <1>3, <2>1, <2>2 DEF TransferOk, JoinerOk
<1>4. /\ failures' \in 0..MaxFailures /\ failures' >= failures
      /\ heard' \in [Clients -> SUBSET Blocks]
      /\ retransmit_queue' \subseteq 0..(BlockMod - 1)
      /\ \A c \in Clients : heard[c] \subseteq heard'[c]
  BY <1>1, RunningRecord DEF TransferOk
<1> HIDE DEF r
<1>5. StepsTo(t, r)
  BY <1>1, <1>2, <1>3, <1>4 DEF StepsTo
<1>6. QED
  BY <1>5, TransferStep

\* Repeating a block takes it from what is left to repeat, and everyone hears it.
LEMMA RepeatInv ==
  ASSUME TransferOk, NEW t \in Transfers, Repeat(t)
  PROVE  TransferOk'
<1>1. PICK n \in transfer[t].todo :
        /\ IF Repeated(n) \in Blocks THEN Multicast(Repeated(n)) ELSE UNCHANGED heard
        /\ LET rest == transfer[t].todo \ {n}
           IN  transfer' = [transfer EXCEPT ![t].todo = rest,
                                            ![t].pc = IF rest = {} THEN "round" ELSE @]
  BY DEF Repeat
<1> DEFINE rest == transfer[t].todo \ {n}
           pc == IF rest = {} THEN "round" ELSE "repeating"
           r == [transfer[t] EXCEPT !.todo = rest, !.pc = pc]
<1>2. /\ transfer[t].pc = "repeating" /\ Running(t)
      /\ UNCHANGED <<fixed, retransmit_queue, joined, overlap, joins, failures>>
  BY DEF Repeat, Running, counts
<1>3. transfer' = [transfer EXCEPT ![t] = r]
  BY <1>1, <1>2
<1>4. /\ r \in TransferRecord
      /\ r.pc = pc /\ r.todo = rest /\ r.retry = transfer[t].retry
  <2>1. /\ transfer[t] \in TransferRecord
        /\ rest \in SUBSET (0..(BlockMod - 1)) /\ pc \in Pcs
    BY RunningRecord DEF TransferRecord, Pcs
  <2>2. r.pc = pc /\ r.todo = rest /\ r.retry = transfer[t].retry
    BY <2>1 DEF TransferRecord
  <2> HIDE DEF rest, pc
  <2>3. QED
    BY <2>1, <2>2, RecordTodoPc
<1>5. heard' \in [Clients -> SUBSET Blocks] /\ \A c \in Clients : heard[c] \subseteq heard'[c]
  BY <1>1 DEF TransferOk, Multicast
<1>6. ASSUME Undisturbed'
      PROVE  /\ retransmit_queue' = {} /\ transfer[t].retry > 0
             /\ \A c \in Clients : joined[c] = t => Blocks \subseteq heard'[c] \cup rest
  <2>1. Undisturbed /\ t # 0
    BY <1>2, <1>6, MulticastAssumption DEF Undisturbed, fixed, Transfers
  <2>2. retransmit_queue' = {} /\ transfer[t].retry > 0
    BY <1>2, <2>1 DEF TransferOk, QueueOk
  <2>3. ASSUME NEW c \in Clients, joined[c] = t, NEW b \in Blocks
        PROVE  b \in heard'[c] \cup rest
    <3>1. b \in heard[c] \cup transfer[t].todo
      BY <1>2, <2>1, <2>3 DEF TransferOk, JoinerOk
    <3>2. n = b => b \in heard'[c]
      <4>1. Repeated(b) = b
        BY <2>1, NumbersTell DEF Undisturbed
      <4>2. QED
        BY <1>1, <4>1 DEF Multicast
    <3>3. QED
      BY <1>5, <3>1, <3>2
  <2>4. QED
    BY <2>2, <2>3
<1>7. /\ failures' \in 0..MaxFailures /\ failures' >= failures
      /\ retransmit_queue' \subseteq 0..(BlockMod - 1)
  BY <1>2, RunningRecord DEF TransferOk
<1>8. pc \in {"round", "repeating"} /\ (pc = "round" => rest = {})
  OBVIOUS
<1> HIDE DEF r, rest, pc
<1>9. StepsTo(t, r)
  BY <1>2, <1>3, <1>4, <1>5, <1>6, <1>7, <1>8 DEF StepsTo
<1>10. QED
  BY <1>9, TransferStep

\* A transfer that ends in a panic or an error owes nothing to anyone.
LEMMA StopInv ==
  ASSUME TransferOk, NEW t \in Transfers, Running(t), NEW pc \in {"failed", "panicked"},
         UNCHANGED <<fixed, heard, retransmit_queue, joined, overlap, joins>>,
         failures' \in 0..MaxFailures, failures' >= failures,
         transfer' = [transfer EXCEPT ![t].pc = pc]
  PROVE  TransferOk'
<1> DEFINE r == [transfer[t] EXCEPT !.pc = pc]
<1>1. r \in TransferRecord /\ r.pc = pc /\ pc \in Pcs
  BY RunningRecord DEF TransferRecord, Pcs
<1>2. /\ transfer' = [transfer EXCEPT ![t] = r]
      /\ retransmit_queue' \subseteq 0..(BlockMod - 1)
      /\ heard' \in [Clients -> SUBSET Blocks]
      /\ \A c \in Clients : heard[c] \subseteq heard'[c]
  BY RunningRecord DEF TransferOk
<1> HIDE DEF r
<1>3. StepsTo(t, r)
  BY <1>1, <1>2 DEF StepsTo
<1>4. QED
  BY <1>3, TransferStep

\* A panic stops its transfer and leaves the queue and what was heard.
LEMMA PanicInv ==
  ASSUME TransferOk, NEW t \in Transfers, Panic(t)
  PROVE  TransferOk'
<1>1. failures' \in 0..MaxFailures /\ failures' >= failures
  BY RunningRecord DEF Panic, counts
<1>2. QED
  BY <1>1, StopInv DEF Panic, Running, counts

\* An error of the socket or the file stops its transfer likewise.
LEMMA FailInv ==
  ASSUME TransferOk, NEW t \in Transfers, Fail(t)
  PROVE  TransferOk'
<1>1. failures' \in 0..MaxFailures /\ failures' >= failures
  BY RunningRecord, MulticastAssumption DEF Fail
<1>2. Running(t)
  BY DEF Fail, Running
<1>3. QED
  BY <1>1, <1>2, StopInv DEF Fail

---------------------------------------------------------------------------
(* Requests. *)

\* A transfer that starts is in the first pass, or in the rounds of an empty file, with
\* nothing queued for it yet; another one may run only if overlap says so.
LEMMA StartInv ==
  ASSUME TransferOk, NEW t \in Transfers, Start(t), UNCHANGED <<fixed, retransmit_queue, failures>>
  PROVE  /\ transfer' \in [Transfers -> TransferRecord]
         /\ overlap' \in BOOLEAN
         /\ StartedInOrder'
         /\ OneAtATime'
         /\ Undisturbed' => Undisturbed /\ QueueOk'
         /\ \A u \in Transfers : transfer[u].pc # "none" => transfer'[u] = transfer[u]
<1> DEFINE r == [transfer[t] EXCEPT !.pc = PassFrom(1)]
<1>1. blocks \in Nat /\ transfer[t] \in TransferRecord /\ MaxTransfers \in Nat
  BY RunningRecord, MulticastAssumption
<1>2. /\ transfer[t].pc = "none" /\ \A u \in 1..(t - 1) : transfer[u].pc # "none"
      /\ transfer[t].block = 1 /\ transfer[t].retry = 0
  BY DEF Start, TransferOk, StartedInOrder
<1>3. PassFrom(1) = IF blocks = 0 THEN "round" ELSE "sending"
  BY <1>1 DEF PassFrom
<1>4. /\ r \in TransferRecord
      /\ r.pc = PassFrom(1) /\ r.block = 1 /\ r.retry = 0
  <2>1. PassFrom(1) \in Pcs
    BY <1>3 DEF Pcs
  <2>2. QED
    BY <1>1, <1>2, <2>1, RecordPc DEF TransferRecord
<1>5. transfer' = [transfer EXCEPT ![t] = r]
  BY DEF Start
<1> HIDE DEF r
<1>6. /\ transfer' \in [Transfers -> TransferRecord]
      /\ transfer'[t] = r
      /\ \A u \in Transfers : u # t => transfer'[u] = transfer[u]
  BY <1>4, <1>5 DEF TransferOk
<1>7. \A u \in Transfers : transfer[u].pc # "none" => transfer'[u] = transfer[u]
  BY <1>2, <1>6
<1>8. r.pc # "none" /\ r.pc \in {"round", "sending"}
  BY <1>3, <1>4
<1>9. \A u \in Transfers : u > t => transfer[u].pc = "none"
  <2>1. ASSUME NEW u \in Transfers, u > t, transfer[u].pc # "none" PROVE FALSE
    <3>1. t \in 1..(u - 1)
      BY <1>1, <2>1 DEF Transfers
    <3>2. QED
      BY <1>2, <2>1, <3>1 DEF TransferOk, StartedInOrder
  <2>2. QED
    BY <2>1
<1>10. StartedInOrder'
  <2>1. ASSUME NEW u \in Transfers, transfer'[u].pc # "none", NEW v \in 1..(u - 1)
        PROVE  transfer'[v].pc # "none"
    <3>1. v \in Transfers /\ v # u
      BY <1>1 DEF Transfers
    <3>2. transfer[v].pc # "none"
      <4>1. CASE u = t
        BY <1>2, <4>1
      <4>2. CASE u # t
        BY <1>6, <2>1, <4>2 DEF TransferOk, StartedInOrder
      <4>3. QED
        BY <4>1, <4>2
    <3>3. QED
      BY <1>7, <3>1, <3>2
  <2>2. ASSUME NEW u \in Transfers, FirstPass(u)'
        PROVE  transfer'[u].block \in Blocks' /\ transfer'[u].retry = 0
    <3>1. CASE u = t
      BY <1>1, <1>3, <1>4, <1>6, <2>2, <3>1 DEF FirstPass, Blocks, fixed
    <3>2. CASE u # t
      BY <1>6, <2>2, <3>2 DEF TransferOk, StartedInOrder, FirstPass, Blocks, fixed
    <3>3. QED
      BY <3>1, <3>2
  <2>3. ASSUME NEW u \in Transfers, transfer'[u].pc = "none"
        PROVE  transfer'[u].block = 1 /\ transfer'[u].retry = 0
    BY <1>6, <1>8, <2>3 DEF TransferOk, StartedInOrder
  <2>4. QED
    BY <2>1, <2>2, <2>3 DEF StartedInOrder, Transfers
<1>11. overlap' = (overlap \/ \E u \in 1..(t - 1) : ~Ended(u)) /\ overlap \in BOOLEAN
  BY DEF Start, TransferOk
<1>12. ~overlap' => ~overlap /\ \A u \in Transfers : u # t => ~Running(u) /\ ~Running(u)'
  <2>1. ASSUME ~overlap', NEW u \in Transfers, u # t PROVE ~Running(u) /\ ~Running(u)'
    <3>1. u \in 1..(t - 1) \/ u > t
      BY <1>1, <2>1 DEF Transfers
    <3>2. ~Running(u)
      BY <1>9, <1>11, <2>1, <3>1 DEF Running, Ended
    <3>3. QED
      BY <1>6, <2>1, <3>2 DEF Running
  <2>2. QED
    BY <1>11, <2>1
<1>13. OneAtATime'
  BY <1>12 DEF OneAtATime, Transfers
<1>14. ASSUME Undisturbed' PROVE Undisturbed /\ QueueOk'
  <2>1. ~overlap' /\ Undisturbed
    BY <1>12, <1>14 DEF Undisturbed, fixed
  <2>2. \A u \in Transfers : u # t => transfer'[u].pc \in {"none", "done", "failed", "panicked"}
    BY <1>12, <2>1 DEF Running
  <2>3. 1..(r.block - 1) = {}
    BY <1>4
  <2>4. QED
    BY <1>4, <1>6, <1>8, <2>1, <2>2, <2>3 DEF QueueOk, FirstPass, Transfers
<1>15. overlap' \in BOOLEAN
  BY <1>11
<1>16. QED
  BY <1>6, <1>7, <1>10, <1>13, <1>14, <1>15

\* A client that joins is owed nothing by a transfer past its first pass, and finds in the
\* queue all that the first pass is past.
LEMMA JoinFrame ==
  ASSUME TransferOk, NEW c \in Clients,
         UNCHANGED <<fixed, retransmit_queue>>,
         transfer' \in [Transfers -> TransferRecord], overlap' \in BOOLEAN,
         joins' \in 0..MaxJoins, failures' \in 0..MaxFailures,
         StartedInOrder', OneAtATime',
         Undisturbed' => Undisturbed /\ QueueOk',
         \A u \in Transfers : transfer[u].pc # "none" => transfer'[u] = transfer[u],
         NEW k \in 0..MaxTransfers, k # 0 => transfer'[k].pc \in {"sending", "waiting"},
         joined' = [joined EXCEPT ![c] = k],
         heard' = [heard EXCEPT ![c] = {}]
  PROVE  TransferOk'
<1>1. /\ joined' \in [Clients -> 0..MaxTransfers]
      /\ heard' \in [Clients -> SUBSET Blocks]
      /\ joined'[c] = k
      /\ \A d \in Clients : d # c => joined'[d] = joined[d] /\ heard'[d] = heard[d]
  BY DEF TransferOk
<1>2. ASSUME Undisturbed', NEW d \in Clients, joined'[d] # 0 PROVE JoinerOk(d, joined[d])'
  <2>1. CASE d = c
    BY <1>1, <1>2, <2>1 DEF JoinerOk, FirstPass
  <2>2. CASE d # c
    <3>1. joined'[d] = joined[d] /\ joined[d] \in Transfers /\ JoinerOk(d, joined[d])
      BY <1>1, <1>2, <2>2, MulticastAssumption DEF TransferOk, Transfers
    <3>2. transfer'[joined[d]] = transfer[joined[d]]
      BY <3>1 DEF JoinerOk
    <3>3. QED
      BY <1>1, <2>2, <3>1, <3>2 DEF JoinerOk, Blocks, fixed
  <2>3. QED
    BY <2>1, <2>2
<1>3. TransferRecord' = TransferRecord /\ Transfers' = Transfers /\ Blocks' = Blocks
  BY DEF TransferRecord, Transfers, Blocks, fixed
<1>4. QED
  BY <1>1, <1>2, <1>3 DEF TransferOk, fixed

\* If nothing starts, the transfers are as they were.
LEMMA NoStart ==
  ASSUME TransferOk, UNCHANGED <<fixed, retransmit_queue, transfer, overlap>>, failures' >= failures,
         failures' \in 0..MaxFailures
  PROVE  /\ transfer' \in [Transfers -> TransferRecord]
         /\ overlap' \in BOOLEAN
         /\ StartedInOrder'
         /\ OneAtATime'
         /\ Undisturbed' => Undisturbed /\ QueueOk'
         /\ \A u \in Transfers : transfer[u].pc # "none" => transfer'[u] = transfer[u]
<1>1. Undisturbed' => Undisturbed
  BY MulticastAssumption DEF TransferOk, Undisturbed, fixed
<1>2. QED
  BY <1>1 DEF TransferOk, fixed, StartedInOrder, OneAtATime, QueueOk, TransferRecord, Transfers,
              Blocks, Running, FirstPass

\* Who joins and is answered starts a transfer and has heard nothing of it yet.
LEMMA JoinInv ==
  ASSUME TransferOk, NEW c \in Clients, Join(c)
  PROVE  TransferOk'
<1> DEFINE now == {t \in Transfers : transfer'[t].pc \in {"sending", "waiting"}}
           k == IF now = {} THEN 0 ELSE CHOOSE t \in now : TRUE
<1>1. k \in 0..MaxTransfers /\ (k # 0 => transfer'[k].pc \in {"sending", "waiting"})
  <2>1. CASE now = {}
    BY <2>1, MulticastAssumption
  <2>2. CASE now # {}
    <3>1. k \in now
      BY <2>2
    <3>2. QED
      BY <3>1, MulticastAssumption DEF Transfers
  <2>3. QED
    BY <2>1, <2>2
<1>2. joined' = [joined EXCEPT ![c] = k]
  BY DEF Join, Transfers, FirstPass
<1>3. /\ UNCHANGED <<fixed, retransmit_queue, failures>>
      /\ joins' \in 0..MaxJoins /\ failures' \in 0..MaxFailures /\ failures' >= failures
      /\ heard' = [heard EXCEPT ![c] = {}]
  BY MulticastAssumption DEF Join, TransferOk, FirstPass
<1> HIDE DEF k
<1>4. CASE clients = {}
  <2>1. PICK t \in Transfers : Start(t)
    BY <1>4 DEF Join, FirstPass
  <2>2. QED
    BY <1>1, <1>2, <1>3, <2>1, StartInv, JoinFrame
<1>5. CASE clients # {}
  <2>1. UNCHANGED <<transfer, overlap>>
    BY <1>5 DEF Join, FirstPass
  <2>2. QED
    BY <1>1, <1>2, <1>3, <2>1, NoStart, JoinFrame
<1>6. QED
  BY <1>4, <1>5

\* Who joins and cannot be answered is a member without a transfer.
LEMMA JoinUnansweredInv ==
  ASSUME TransferOk, NEW c \in Clients, JoinUnanswered(c)
  PROVE  TransferOk'
<1>1. /\ UNCHANGED <<fixed, retransmit_queue, transfer, overlap>>
      /\ joins' \in 0..MaxJoins /\ failures' \in 0..MaxFailures /\ failures' >= failures
      /\ joined' = [joined EXCEPT ![c] = 0]
      /\ heard' = [heard EXCEPT ![c] = {}]
  BY MulticastAssumption DEF JoinUnanswered, TransferOk
<1>2. 0 \in 0..MaxTransfers
  BY MulticastAssumption
<1>3. QED
  BY <1>1, <1>2, NoStart, JoinFrame

---------------------------------------------------------------------------
(* The theorems. *)

\* A new session is empty.
LEMMA InitInv == Init => IInv
<1> SUFFICES ASSUME Init PROVE IInv
  OBVIOUS
<1>1. SessionOk
  BY FS_EmptySet, MulticastAssumption DEF Init, SessionOk, MasterIsMember
<1>2. \A t \in Transfers : transfer[t] = [pc |-> "none", block |-> 1, retry |-> 0, todo |-> {}]
  BY DEF Init
<1>3. blocks \in Nat /\ max_retries \in Nat /\ MaxTransfers \in Nat
  BY MulticastAssumption DEF Init
<1>4. StartedInOrder /\ OneAtATime /\ QueueOk
  BY <1>2, <1>3 DEF StartedInOrder, OneAtATime, QueueOk, FirstPass, Running
<1>5. transfer \in [Transfers -> TransferRecord]
  BY <1>3 DEF Init, TransferRecord, Pcs
<1>6. /\ joined \in [Clients -> 0..MaxTransfers] /\ \A c \in Clients : joined[c] = 0
      /\ heard \in [Clients -> SUBSET Blocks]
      /\ joins \in 0..MaxJoins /\ failures \in 0..MaxFailures /\ overlap \in BOOLEAN
      /\ retransmit_queue \subseteq 0..(BlockMod - 1)
  <2>1. MaxTransfers \in Nat /\ MaxJoins \in Nat /\ MaxFailures \in Nat
    BY MulticastAssumption
  <2>2. joined \in [Clients -> 0..MaxTransfers] /\ \A c \in Clients : joined[c] = 0
    BY <2>1 DEF Init
  <2>3. heard \in [Clients -> SUBSET Blocks]
    BY DEF Init
  <2>4. joins \in 0..MaxJoins /\ failures \in 0..MaxFailures
    BY <2>1 DEF Init
  <2>5. overlap \in BOOLEAN /\ retransmit_queue \subseteq 0..(BlockMod - 1)
    BY DEF Init
  <2>6. QED
    BY <2>2, <2>3, <2>4, <2>5
<1>8. TransferOk
  BY <1>4, <1>5, <1>6 DEF Init, TransferOk
<1>7. QED
  BY <1>1, <1>8, Parts

\* Every step preserves the inductive invariant.
LEMMA NextInv == IInv /\ [Next]_vars => IInv'
<1>0. IInv' <=> SessionOk' /\ TransferOk'
  BY DEF IInv, TypeOK, SessionOk, TransferOk, TransferRecord, Pcs
<1> SUFFICES ASSUME SessionOk, TransferOk, [Next]_vars PROVE SessionOk' /\ TransferOk'
  BY <1>0, Parts
<1>1. ASSUME NEW c \in Clients, Join(c) PROVE SessionOk' /\ TransferOk'
  BY <1>1, AddClientSession, JoinInv DEF Join, FirstPass
<1>2. ASSUME NEW c \in Clients, JoinUnanswered(c) PROVE SessionOk' /\ TransferOk'
  BY <1>2, AddClientSession, JoinUnansweredInv DEF JoinUnanswered
<1>3. ASSUME NEW c \in Clients, Age(c) PROVE SessionOk' /\ TransferOk'
  BY <1>3, AgeSession, UnchangedTransfers DEF Age
<1>4. ASSUME NEW t \in Transfers, StartRound(t) PROVE SessionOk' /\ TransferOk'
  BY <1>4, RemoveSession, StartRoundInv DEF StartRound
<1>5. UNCHANGED session => SessionOk'
  BY AgeSession DEF session
<1>6. ASSUME NEW t \in Transfers, SendBlock(t) PROVE SessionOk' /\ TransferOk'
  BY <1>5, <1>6, SendBlockInv DEF SendBlock
<1>7. ASSUME NEW t \in Transfers, AckTimeout(t) PROVE SessionOk' /\ TransferOk'
  BY <1>5, <1>7, AckTimeoutInv DEF AckTimeout
<1>8. ASSUME NEW t \in Transfers, RoundsOver(t) PROVE SessionOk' /\ TransferOk'
  BY <1>5, <1>8, RoundsOverInv DEF RoundsOver
<1>9. ASSUME NEW t \in Transfers, Repeat(t) PROVE SessionOk' /\ TransferOk'
  BY <1>5, <1>9, RepeatInv DEF Repeat
<1>10. ASSUME NEW t \in Transfers, Panic(t) PROVE SessionOk' /\ TransferOk'
  BY <1>5, <1>10, PanicInv DEF Panic
<1>11. ASSUME NEW t \in Transfers, Fail(t) PROVE SessionOk' /\ TransferOk'
  BY <1>5, <1>11, FailInv DEF Fail
<1>12. CASE UNCHANGED vars
  BY <1>5, <1>12, UnchangedTransfers DEF vars
<1>13. QED
  BY <1>1, <1>2, <1>3, <1>4, <1>6, <1>7, <1>8, <1>9, <1>10, <1>11, <1>12 DEF Next

\* The inductive invariant holds in every behaviour.
THEOREM Invariant == Spec => []IInv
  BY InitInv, NextInv, PTL DEF Spec

\* A session never holds more than max_clients members, and every count, block number and
\* queue entry of multicast.rs stays in its range.
THEOREM TypeCorrect == Spec => []TypeOK
<1>1. IInv => TypeOK
  BY DEF IInv
<1>2. QED
  BY <1>1, Invariant, PTL

\* add_client, remove_inactive_clients and elect_new_master keep exactly one member as the
\* master of a session that has members, for any number of clients.
THEOREM MasterAlwaysMember == Spec => []MasterIsMember
<1>1. IInv => MasterIsMember
  BY DEF IInv
<1>2. QED
  BY <1>1, Invariant, PTL

\* A client that joins during the first pass of a transfer is sent the whole file by the
\* first round of handle_retransmissions, under the conditions that JoinersServed names.
THEOREM LateJoinersServed == Spec => []JoinersServed
<1>1. IInv => JoinersServed
  <2> SUFFICES ASSUME IInv, blocks < BlockMod, failures = 0, ~overlap, NEW c \in Clients,
                      joined[c] # 0, transfer[joined[c]].pc = "done"
               PROVE  heard[c] = Blocks
    BY DEF JoinersServed
  <2>1. JoinerOk(c, joined[c]) /\ heard[c] \subseteq Blocks
    BY DEF IInv, TypeOK, Undisturbed
  <2>2. QED
    BY <2>1 DEF JoinerOk
<1>2. QED
  BY <1>1, Invariant, PTL

=============================================================================
