----------------------------- MODULE WorkerPool -----------------------------
(***************************************************************************)
(* The worker pool (worker_pool.rs), the other way to serve the listening  *)
(* port: a master receives batches and gives each datagram to one of the   *)
(* workers through its bounded channel; the workers handle requests, spawn *)
(* the transfers they grant and hand ERRORs to a sender through one bounded*)
(* channel; the sender sends them in batches.  The master never waits for  *)
(* a worker, while a worker waits for the sender.                          *)
(***************************************************************************)
EXTENDS Requests

CONSTANTS
  Arrivals,        \* what may arrive: records with the datagram and its client
  Configs,         \* the configurations to choose from
  Hash,            \* DefaultHasher on the addresses of the clients
  worker_count,
  worker_channel_size,
  sender_channel_size,
  max_batch_size,
  MaxDatagrams,    \* bound: how many datagrams arrive
  MaxErrors        \* bound: errors of the socket

\* mpsc::channel panics on a capacity of 0, and select_worker divides by worker_count.
ASSUME WorkerPoolAssumption ==
  /\ \A a \in Arrivals : a.datagram \in Datagram /\ Hash[a.client] \in Nat
  /\ \A c \in Configs : /\ c.base \in Config
                        /\ c.strategy \in {"RoundRobin", "ClientHash", "LeastLoaded"}
  /\ {worker_count, worker_channel_size, sender_channel_size, max_batch_size} \subseteq Nat \ {0}
  /\ MaxDatagrams \in Nat /\ MaxErrors \in Nat

Workers == 0..(worker_count - 1)

VARIABLES
  cfg,             \* the configuration, fixed
  up,              \* does the process run?
  req,             \* what arrived, in order; a datagram is known by its place
  socket,          \* those in the socket's queue
  batch,           \* the master's packets still to distribute
  worker_index,    \* the master's round-robin counter
  inbox,           \* each worker's channel
  job,             \* the datagram each worker is at, or 0
  answer,          \* what a worker made of a datagram
  outbox,          \* the sender's channel
  sending,         \* the sender's batch
  stats            \* the counters of master, workers and sender

poolVars == <<inbox, job, answer>>
vars == <<cfg, up, req, socket, batch, worker_index, inbox, job, answer, outbox, sending, stats>>

Ids == DOMAIN req
Pending == [kind |-> "pending"]

Init ==
  /\ cfg \in Configs
  /\ up = TRUE
  /\ req = <<>> /\ socket = <<>> /\ batch = <<>> /\ outbox = <<>> /\ sending = <<>>
  /\ worker_index = 0
  /\ inbox = [w \in Workers |-> <<>>]
  /\ job = [w \in Workers |-> 0]
  /\ answer = [i \in 1..MaxDatagrams |-> Pending]
  /\ stats = [packets_received |-> 0, packets_dropped |-> 0, errors |-> 0,
              packets_processed |-> 0, packets_sent |-> 0, send_errors |-> 0]

\* The network puts a datagram into the socket's queue.
Arrive(a) ==
  /\ Len(req) < MaxDatagrams
  /\ req' = Append(req, a)
  /\ socket' = Append(socket, Len(req'))
  /\ UNCHANGED <<cfg, up, batch, worker_index, poolVars, outbox, sending, stats>>

FirstOf(s, n) == SubSeq(s, 1, IF Len(s) < n THEN Len(s) ELSE n)
AfterFirst(s, n) == SubSeq(s, n + 1, Len(s))

---------------------------------------------------------------------------
(* The master. *)

\* batch_recv_packets_internal; with nothing in the socket the loop just turns.
MasterRecv ==
  /\ batch = <<>> /\ socket # <<>>
  /\ batch' = FirstOf(socket, max_batch_size)
  /\ socket' = AfterFirst(socket, max_batch_size)
  /\ stats' = [stats EXCEPT !.packets_received = @ + Len(batch')]
  /\ UNCHANGED <<cfg, up, req, worker_index, poolVars, outbox, sending>>

MasterRecvError ==
  /\ batch = <<>>
  /\ stats.errors < MaxErrors
  /\ stats' = [stats EXCEPT !.errors = @ + 1]
  /\ UNCHANGED <<cfg, up, req, socket, batch, worker_index, poolVars, outbox, sending>>

TakeTurns == [idx |-> worker_index % worker_count, next |-> worker_index + 1]

\* Mutant of select_worker: every strategy takes turns.
SelectInTurn(i) == TakeTurns

\* The worker for datagram i and the counter afterwards; LeastLoaded takes turns as well.
select_worker(i) ==
  IF cfg.strategy = "ClientHash"
  THEN [idx |-> Hash[req[i].client] % worker_count, next |-> worker_index]
  ELSE TakeTurns

\* Mutant of Dispatch: a packet that finds its channel full is forgotten.
DispatchUncounted(i, w) ==
  IF Len(inbox[w]) < worker_channel_size
  THEN inbox' = [inbox EXCEPT ![w] = Append(@, i)] /\ stats' = stats
  ELSE UNCHANGED <<inbox, stats>>

\* Mutant of Dispatch: the channel has no bound.
DispatchUnbounded(i, w) ==
  inbox' = [inbox EXCEPT ![w] = Append(@, i)] /\ stats' = stats

\* try_send: a packet that finds its channel full is dropped and counted.
Dispatch(i, w) ==
  IF Len(inbox[w]) < worker_channel_size
  THEN inbox' = [inbox EXCEPT ![w] = Append(@, i)] /\ stats' = stats
  ELSE stats' = [stats EXCEPT !.packets_dropped = @ + 1] /\ inbox' = inbox

MasterDispatch ==
  /\ batch # <<>>
  /\ LET worker == select_worker(Head(batch))
     IN  Dispatch(Head(batch), worker.idx) /\ worker_index' = worker.next
  /\ batch' = Tail(batch)
  /\ UNCHANGED <<cfg, up, req, socket, job, answer, outbox, sending>>

---------------------------------------------------------------------------
(* Worker w. *)

WorkerTake(w) ==
  /\ job[w] = 0 /\ inbox[w] # <<>>
  /\ job' = [job EXCEPT ![w] = Head(inbox[w])]
  /\ inbox' = [inbox EXCEPT ![w] = Tail(@)]
  /\ UNCHANGED <<cfg, up, req, socket, batch, worker_index, answer, outbox, sending, stats>>

WorkerDone(w) ==
  /\ job' = [job EXCEPT ![w] = 0]
  /\ stats' = [stats EXCEPT !.packets_processed = @ + 1]

\* process_tftp_packet up to its answer.  A transfer is spawned and not waited for, so
\* that the worker is done; an ERROR goes to the sender first.
WorkerProcess(w) ==
  /\ job[w] # 0 /\ answer[job[w]] = Pending
  /\ LET a == process_tftp_packet(req[job[w]].datagram, cfg.base)
     IN  /\ answer' = [answer EXCEPT ![job[w]] = a]
         /\ IF a.kind = "error" THEN UNCHANGED <<job, stats>> ELSE WorkerDone(w)
  /\ UNCHANGED <<cfg, up, req, socket, batch, worker_index, inbox, outbox, sending>>

\* send_error_response: tx.send waits for room in the sender's channel.
WorkerReply(w) ==
  /\ job[w] # 0 /\ answer[job[w]] # Pending
  /\ Len(outbox) < sender_channel_size
  /\ outbox' = Append(outbox, job[w])
  /\ WorkerDone(w)
  /\ UNCHANGED <<cfg, up, req, socket, batch, worker_index, inbox, answer, sending>>

---------------------------------------------------------------------------
(* The sender. *)

\* Mutant of SenderCollect: nothing is sent before a batch is full.
SenderCollectFull ==
  /\ sending = <<>> /\ Len(outbox) >= max_batch_size
  /\ sending' = FirstOf(outbox, max_batch_size)
  /\ outbox' = AfterFirst(outbox, max_batch_size)
  /\ UNCHANGED <<cfg, up, req, socket, batch, worker_index, poolVars, stats>>

\* recv, then try_recv until the batch is full or the channel empty.
SenderCollect ==
  /\ sending = <<>> /\ outbox # <<>>
  /\ sending' = FirstOf(outbox, max_batch_size)
  /\ outbox' = AfterFirst(outbox, max_batch_size)
  /\ UNCHANGED <<cfg, up, req, socket, batch, worker_index, poolVars, stats>>

\* sendmmsg sends the first packets of the batch; the others are cleared with it.
SenderSend ==
  /\ \E sent \in 1..Len(sending) :
       stats' = [stats EXCEPT !.packets_sent = @ + sent]
  /\ sending' = <<>>
  /\ UNCHANGED <<cfg, up, req, socket, batch, worker_index, poolVars, outbox>>

\* sendmmsg fails: the whole batch is cleared.
SenderError ==
  /\ sending # <<>>
  /\ stats.send_errors < MaxErrors
  /\ stats' = [stats EXCEPT !.send_errors = @ + 1]
  /\ sending' = <<>>
  /\ UNCHANGED <<cfg, up, req, socket, batch, worker_index, poolVars, outbox>>

---------------------------------------------------------------------------
\* ctrl_c: start returns and the process ends with whatever is in its channels.
Shutdown ==
  /\ up' = FALSE
  /\ UNCHANGED <<cfg, req, socket, batch, worker_index, poolVars, outbox, sending, stats>>

Master == MasterRecv \/ MasterDispatch
Worker(w) == WorkerTake(w) \/ WorkerProcess(w) \/ WorkerReply(w)
Sender == SenderCollect \/ SenderSend

Next ==
  /\ up
  /\ \/ \E a \in Arrivals : Arrive(a)
     \/ MasterRecv \/ MasterRecvError \/ MasterDispatch
     \/ \E w \in Workers : WorkerTake(w) \/ WorkerProcess(w) \/ WorkerReply(w)
     \/ SenderCollect \/ SenderSend \/ SenderError
     \/ Shutdown

\* The runtime polls every task that can go on.  The master's loop has no point at which it
\* waits, so that this takes a runtime with more than one thread.
Fairness ==
  /\ WF_vars(up /\ Master)
  /\ \A w \in Workers : WF_vars(up /\ Worker(w))
  /\ WF_vars(up /\ Sender)

Spec == Init /\ [][Next]_vars /\ Fairness

---------------------------------------------------------------------------
(* Properties. *)

Stats ==
  [packets_received : Nat, packets_dropped : Nat, errors : Nat,
   packets_processed : Nat, packets_sent : Nat, send_errors : Nat]

\* The type of the state, with the capacities of the channels and of a batch.
TypeOK ==
  /\ cfg \in Configs /\ up \in BOOLEAN
  /\ req \in Seq(Arrivals) /\ Len(req) <= MaxDatagrams
  /\ {socket, batch, outbox, sending} \subseteq Seq(Ids)
  /\ inbox \in [Workers -> Seq(Ids)] /\ job \in [Workers -> {0} \cup Ids]
  /\ Len(batch) <= max_batch_size /\ Len(sending) <= max_batch_size
  /\ Len(outbox) <= sender_channel_size
  /\ \A w \in Workers : Len(inbox[w]) <= worker_channel_size
  /\ worker_index \in Nat
  /\ stats \in Stats

Holds(w, i) == i \in Range(inbox[w]) \/ job[w] = i
Queued(i) == \E w \in Workers : Holds(w, i)
Waiting == {i \in Ids : Queued(i)}
Busy == {w \in Workers : job[w] # 0}
Replies == Cardinality({i \in Ids : answer[i].kind = "error"})
InReply == Cardinality({w \in Busy : answer[job[w]] # Pending})

\* The counters that start prints at shutdown account for every datagram received: it was
\* dropped, is waiting in the master, a channel or a worker, or was processed; and no more
\* ERRORs were sent than answered, less those that wait in a worker, the channel or a batch.
PacketsAccounted ==
  /\ stats.packets_received =
       stats.packets_dropped + stats.packets_processed + Len(batch) + Cardinality(Waiting)
  /\ stats.packets_sent + Len(outbox) + Len(sending) + InReply <= Replies

\* Under ClientHash one worker handles all of a client's datagrams, in the order of their
\* arrival: none is handled while an earlier one of the same client still waits.
ClientOrder ==
  cfg.strategy = "ClientHash" =>
    \A i, j \in Ids :
      i < j /\ req[i].client = req[j].client /\ answer[j] # Pending =>
        ~(i \in Range(batch) \/ (Queued(i) /\ answer[i] = Pending))

\* A worker grants a request only with options that both ends use alike, but for the window
\* of a client that asked for none while default_windowsize is not 1, and within the switches
\* of the write configuration, and answers every datagram that is no request at all, or one
\* for a bad path, with an ERROR.  A write that it grants need not match allowed_patterns,
\* which the pool does not look at, although docs/write-operations.md:10 says that only
\* files matching them can be written.
RequestsSettled ==
  \A i \in Ids : answer[i] # Pending =>
    /\ req[i].datagram.op \in {"short", "unknown"} => answer[i].kind = "error"
    /\ Settled(req[i].datagram, cfg.base, FALSE, answer[i])

\* A datagram in a worker's channel is handled, unless the process ends: the workers and the
\* sender never wait for each other for good, and errors of sendmmsg do not stop the sender.
EveryPacketHandled ==
  \A i \in 1..MaxDatagrams :
    i \in Ids /\ Queued(i) ~> ~up \/ ~Queued(i)
---------------------------------------------------------------------------
(* The inductive invariant of WorkerPoolProofs. *)

\* The datagrams that the master has distributed.
Taken == Len(req) - Len(socket) - Len(batch)

\* The master distributes in the order of arrival; the next ones are in its batch, and the
\* last ones in the socket.
InOrder ==
  /\ Taken \in Nat
  /\ \A k \in DOMAIN batch : batch[k] = Taken + k
  /\ \A k \in DOMAIN socket : socket[k] = Taken + Len(batch) + k

\* A worker has distributed datagrams, in their order, and those in its channel unanswered;
\* it keeps the one it is at beyond the answer only if that is an ERROR.
WorkerOk(w) ==
  /\ job[w] <= Taken
  /\ job[w] # 0 => answer[job[w]].kind \in {"pending", "error"}
  /\ \A k \in DOMAIN inbox[w] :
       /\ job[w] < inbox[w][k] /\ inbox[w][k] <= Taken
       /\ answer[inbox[w][k]] = Pending
       /\ \A l \in DOMAIN inbox[w] : k < l => inbox[w][k] < inbox[w][l]

\* No datagram is with two workers.
Apart == \A i \in Ids, v, w \in Workers : Holds(v, i) /\ Holds(w, i) => v = w

\* An answer is the one to its own datagram, which has been distributed.
AnswersOk ==
  /\ DOMAIN answer = 1..MaxDatagrams
  /\ \A i \in 1..MaxDatagrams : answer[i] # Pending =>
       i <= Taken /\ answer[i] = process_tftp_packet(req[i].datagram, cfg.base)

Home(i) == Hash[req[i].client] % worker_count

\* Under ClientHash a datagram is with its client's worker, which has answered no later one.
HashOrder ==
  cfg.strategy = "ClientHash" =>
    \A w \in Workers, i \in Ids : Holds(w, i) =>
      /\ w = Home(i)
      /\ answer[i] = Pending =>
           \A j \in Ids : Home(j) = w /\ answer[j] # Pending => j < i

PoolInv ==
  /\ TypeOK /\ InOrder /\ (\A w \in Workers : WorkerOk(w)) /\ Apart
  /\ AnswersOk /\ HashOrder /\ PacketsAccounted

=============================================================================
