------------------------------ MODULE Listener ------------------------------
(***************************************************************************)
(* TftpServer::run without the worker pool (bin/server.rs): the loop that  *)
(* takes datagrams from the listening port, one at a time or in batches,   *)
(* the buffer pool, the count of active clients, and one task for every    *)
(* datagram, which handles the request and the whole transfer.             *)
(***************************************************************************)
EXTENDS Requests

CONSTANTS
  Datagrams,      \* the datagrams that may arrive
  Configs,        \* the configurations to choose from
  MaxDatagrams,   \* bound: how many arrive
  MaxErrors,      \* bound: how often the socket reports an error
  POOL_SIZE,      \* buffers that the pool holds at most
  BatchSize,      \* max_batch_size
  Threshold       \* adaptive_batch_threshold

ASSUME ListenerAssumption ==
  /\ Datagrams \subseteq Datagram
  /\ \A c \in Configs : /\ c.base \in Config
                        /\ c.adaptive \in BOOLEAN
                        /\ c.recvmmsg \in BOOLEAN
  /\ MaxDatagrams \in Nat /\ MaxErrors \in Nat /\ Threshold \in Nat
  /\ POOL_SIZE \in Nat \ {0} /\ BatchSize \in Nat \ {0}

VARIABLES
  cfg,            \* the configuration, fixed
  req,            \* the datagrams that arrived, in order; a datagram is known by its place
  socket,         \* those in the socket's queue
  pc,             \* where the loop is
  batch,          \* received, but not yet given to a task
  pool,           \* buffers in the pool
  active_clients,
  phase,          \* of the task of each datagram
  answer,         \* what a task made of its request
  errors          \* errors of the socket so far

vars == <<cfg, req, socket, pc, batch, pool, active_clients, phase, answer, errors>>

Ids == DOMAIN req
Pending == [kind |-> "pending"]

TaskPhases == {"none", "handling", "transferring", "releasing", "leaving", "gone", "panicked"}

---------------------------------------------------------------------------
Init ==
  /\ cfg \in Configs
  /\ req = <<>> /\ socket = <<>> /\ batch = <<>>
  /\ pc = "decide"
  /\ pool = POOL_SIZE \div 2
  /\ active_clients = 0
  /\ phase = [i \in 1..MaxDatagrams |-> "none"]
  /\ answer = [i \in 1..MaxDatagrams |-> Pending]
  /\ errors = 0

\* The network puts a datagram into the socket's queue.
Arrive(d) ==
  /\ Len(req) < MaxDatagrams
  /\ req' = Append(req, d)
  /\ socket' = Append(socket, Len(req'))
  /\ UNCHANGED <<cfg, pc, batch, pool, active_clients, phase, answer, errors>>

---------------------------------------------------------------------------
(* The buffer pool. *)

\* acquire: from an empty pool a buffer is allocated.
acquire == pool' = IF pool > 0 THEN pool - 1 ELSE 0

\* Mutant of release: the capacity is not looked at.
ReleaseAlways == pool' = pool + 1

\* release: a full pool drops the buffer.
release == pool' = IF pool < POOL_SIZE THEN pool + 1 ELSE pool

---------------------------------------------------------------------------
(* The loop. *)

use_batch_recv ==
  IF cfg.adaptive THEN active_clients >= Threshold /\ cfg.recvmmsg ELSE cfg.recvmmsg

Decide ==
  /\ pc = "decide"
  /\ pc' = IF use_batch_recv THEN "batch_recv" ELSE "acquire"
  /\ UNCHANGED <<cfg, req, socket, batch, pool, active_clients, phase, answer, errors>>

\* recvmmsg on a socket that does not block: what there is, up to a batch.
BatchRecv ==
  /\ pc = "batch_recv"
  /\ LET n == IF Len(socket) < BatchSize THEN Len(socket) ELSE BatchSize
     IN  /\ batch' = SubSeq(socket, 1, n)
         /\ socket' = SubSeq(socket, n + 1, Len(socket))
         /\ pc' = IF n = 0 THEN "decide" ELSE "batch"
  /\ UNCHANGED <<cfg, req, pool, active_clients, phase, answer, errors>>

\* A batch that fails falls back to one recv_from.
BatchRecvError ==
  /\ pc = "batch_recv"
  /\ errors < MaxErrors
  /\ errors' = errors + 1
  /\ pc' = "acquire"
  /\ UNCHANGED <<cfg, req, socket, batch, pool, active_clients, phase, answer>>

Spawn(i) ==
  /\ active_clients' = active_clients + 1
  /\ phase' = [phase EXCEPT ![i] = "handling"]

\* Mutant of SpawnNext: the rest of the batch is left to the next round.
SpawnFirst ==
  /\ pc = "batch"
  /\ acquire
  /\ Spawn(Head(batch))
  /\ batch' = <<>>
  /\ pc' = "decide"
  /\ UNCHANGED <<cfg, req, socket, answer, errors>>

\* One turn of the loop over a batch.
SpawnNext ==
  /\ pc = "batch"
  /\ acquire
  /\ Spawn(Head(batch))
  /\ batch' = Tail(batch)
  /\ pc' = IF Len(batch) = 1 THEN "decide" ELSE "batch"
  /\ UNCHANGED <<cfg, req, socket, answer, errors>>

Acquire ==
  /\ pc = "acquire"
  /\ acquire
  /\ pc' = "recv_from"
  /\ UNCHANGED <<cfg, req, socket, batch, active_clients, phase, answer, errors>>

Recv ==
  /\ pc = "recv_from"
  /\ socket # <<>>
  /\ Spawn(Head(socket))
  /\ socket' = Tail(socket)
  /\ pc' = "decide"
  /\ UNCHANGED <<cfg, req, batch, pool, answer, errors>>

\* Mutant of RecvError: the buffer is not returned.
RecvErrorKeeps ==
  /\ pc = "recv_from"
  /\ errors < MaxErrors
  /\ errors' = errors + 1
  /\ pc' = "decide"
  /\ UNCHANGED <<cfg, req, socket, batch, pool, active_clients, phase, answer>>

RecvError ==
  /\ pc = "recv_from"
  /\ errors < MaxErrors
  /\ errors' = errors + 1
  /\ release
  /\ pc' = "decide"
  /\ UNCHANGED <<cfg, req, socket, batch, active_clients, phase, answer>>

---------------------------------------------------------------------------
(* The task of datagram i. *)

\* handle_client up to its answer; a transfer goes on within the task.
Handle(i) ==
  /\ phase[i] = "handling"
  /\ LET a == handle_client(req[i], cfg.base)
     IN  /\ answer' = [answer EXCEPT ![i] = a]
         /\ phase' = [phase EXCEPT ![i] =
              IF a.kind \in Transfers \cup {"multicast"} THEN "transferring" ELSE "releasing"]
  /\ UNCHANGED <<cfg, req, socket, pc, batch, pool, active_clients, errors>>

\* The transfer ends, well or not (ReadTransfer, WriteTransfer, Multicast).
EndTransfer(i) ==
  /\ phase[i] = "transferring"
  /\ phase' = [phase EXCEPT ![i] = "releasing"]
  /\ UNCHANGED <<cfg, req, socket, pc, batch, pool, active_clients, answer, errors>>

\* receive_file computes block_num % (windowsize as u16) for each block; a window whose
\* u16 is 0 panics, which ends the task without the code after handle_client.
Panic(i) ==
  /\ phase[i] = "transferring"
  /\ answer[i].kind = "write"
  /\ answer[i].options.windowsize % 65536 = 0
  /\ phase' = [phase EXCEPT ![i] = "panicked"]
  /\ UNCHANGED <<cfg, req, socket, pc, batch, pool, active_clients, answer, errors>>

Release(i) ==
  /\ phase[i] = "releasing"
  /\ release
  /\ phase' = [phase EXCEPT ![i] = "leaving"]
  /\ UNCHANGED <<cfg, req, socket, pc, batch, active_clients, answer, errors>>

Leave(i) ==
  /\ phase[i] = "leaving"
  /\ active_clients' = active_clients - 1
  /\ phase' = [phase EXCEPT ![i] = "gone"]
  /\ UNCHANGED <<cfg, req, socket, pc, batch, pool, answer, errors>>

---------------------------------------------------------------------------
Loop == Decide \/ BatchRecv \/ SpawnNext \/ Acquire \/ Recv
Task(i) == Handle(i) \/ EndTransfer(i) \/ Release(i) \/ Leave(i)

Next ==
  \/ \E d \in Datagrams : Arrive(d)
  \/ Decide \/ BatchRecv \/ SpawnNext \/ Acquire \/ Recv
  \/ BatchRecvError \/ RecvError
  \/ \E i \in Ids : Handle(i) \/ EndTransfer(i) \/ Panic(i) \/ Release(i) \/ Leave(i)

\* run never returns and the runtime runs every task.
Fairness == WF_vars(Loop) /\ \A i \in 1..MaxDatagrams : WF_vars(i \in Ids /\ Task(i))

Spec == Init /\ [][Next]_vars /\ Fairness

---------------------------------------------------------------------------
(* Properties. *)

\* The type of the state.
TypeOK ==
  /\ cfg \in Configs
  /\ req \in Seq(Datagrams) /\ Len(req) <= MaxDatagrams
  /\ socket \in Seq(Ids) /\ batch \in Seq(Ids)
  /\ pc \in {"decide", "batch_recv", "batch", "acquire", "recv_from"}
  /\ pool \in 0..POOL_SIZE
  /\ active_clients \in Nat
  /\ phase \in [1..MaxDatagrams -> TaskPhases]
  /\ errors \in 0..MaxErrors

InPhase(ps) == Cardinality({i \in Ids : phase[i] \in ps})
Holders == InPhase({"handling", "transferring", "releasing"}) + (IF pc = "recv_from" THEN 1 ELSE 0)

\* Every path through the loop and a task gives its buffer back and counts its client off:
\* the pool together with the buffers in use never falls below what new() allocated, and
\* active_clients, on which adaptive batching decides, is the number of unfinished tasks,
\* where a task that panicked keeps both for good.
ResourcesAccounted ==
  /\ pool + Holders + InPhase({"panicked"}) >= POOL_SIZE \div 2
  /\ active_clients = InPhase(TaskPhases \ {"none", "gone"})

\* handle_client grants a request only with options that both ends use alike and within
\* the write configuration, its allowed_patterns included, and answers a well-formed request
\* for a bad path with an ERROR.  The one option on which the ends differ is the window of a
\* client that asked for none while default_windowsize is not 1: it acknowledges each block,
\* the server waits for the last of default_windowsize, and the OACK says nothing, although
\* docs/WINDOWSIZE_PERFORMANCE_ANALYSIS.md:200 says "legacy clients get windowsize=1".
RequestsSettled ==
  \A i \in Ids : answer[i] # Pending => Settled(req[i], cfg.base, TRUE, answer[i])

\* With a default_windowsize within the range of the option, which validate_config does not
\* check, the task of every datagram ends and leaves, so that none ever panics.
EveryClientLeaves ==
  \A i \in 1..MaxDatagrams :
    cfg.base.windowsize \in 1..65535 /\ phase[i] # "none" ~> phase[i] = "gone"

\* Every datagram in the socket's queue gets its task, in whichever mode the loop receives,
\* and whatever errors the socket reports on the way.
EveryDatagramTaken ==
  \A i \in 1..MaxDatagrams : i \in Ids ~> phase[i] # "none"
---------------------------------------------------------------------------
(* The inductive invariant of ListenerProofs. *)

\* The datagrams that have got their task.
Taken == Len(req) - Len(socket) - Len(batch)

\* Tasks are given to the datagrams in the order of their arrival; the next ones are in the
\* batch, and the last ones in the socket.
InOrder ==
  /\ Taken \in Nat
  /\ \A k \in DOMAIN batch : batch[k] = Taken + k
  /\ \A k \in DOMAIN socket : socket[k] = Taken + Len(batch) + k
  /\ \A i \in 1..MaxDatagrams : phase[i] = "none" <=> i > Taken

\* The loop is at a batch as long as there is one.
LoopOk == pc = "batch" <=> batch # <<>>

\* A task has the answer to its own request, and only after it has handled it.
AnswerOk(i) ==
  /\ answer[i] \in {Pending, handle_client(req[i], cfg.base)}
  /\ phase[i] = "handling" => answer[i] = Pending
  /\ phase[i] = "transferring" => answer[i] = handle_client(req[i], cfg.base)

\* With a window in the range of the option no task panics.
NoPanic ==
  cfg.base.windowsize >= 1 /\ cfg.base.windowsize <= 65535 =>
    \A i \in 1..MaxDatagrams : phase[i] # "panicked"

ListenerInv ==
  /\ TypeOK /\ InOrder /\ LoopOk /\ ResourcesAccounted
  /\ DOMAIN answer = 1..MaxDatagrams
  /\ \A i \in 1..MaxDatagrams : phase[i] = "none" => answer[i] = Pending
  /\ \A i \in Ids : AnswerOk(i)
  /\ NoPanic

=============================================================================
