----------------------------- MODULE Multicast ------------------------------
(***************************************************************************)
(* One multicast session (multicast.rs): clients that ask for the same     *)
(* file in the same mode share it.  The first to join an empty session     *)
(* becomes its master and starts a transfer, which sends the file to the   *)
(* group, waits after each block for ACKs until a timeout, and then repeats*)
(* blocks in at most three rounds.  Sessions are kept for good, so that    *)
(* later clients meet whatever state the earlier ones left, and a second   *)
(* transfer may run beside the end of the first.                           *)
(*                                                                         *)
(* Nothing calls record_ack: acked_blocks stays empty, all_clients_acked   *)
(* is false and each wait for ACKs ends in its timeout.                    *)
(***************************************************************************)
EXTENDS Integers, FiniteSets

CONSTANTS
  Clients,
  FileBlocks,      \* the sizes of the file to choose from, in blocks
  BlockMod,        \* block numbers run modulo 2^16
  max_clients,
  max_retries,     \* rounds of retransmission: 3
  MaxJoins,        \* bound: requests
  MaxTransfers,    \* bound: transfers
  MaxFailures      \* bound: failing calls

ASSUME MulticastAssumption ==
  /\ FileBlocks \subseteq Nat
  /\ {BlockMod, max_clients, max_retries} \subseteq Nat \ {0}
  /\ {MaxJoins, MaxTransfers, MaxFailures} \subseteq Nat
  /\ "none" \notin Clients

VARIABLES
  blocks,            \* the size of the file
  overflow_checks,   \* does the build check arithmetic, as the debug profile does?
  clients,           \* the members of the session
  is_master,         \* the members whose flag is set
  fresh,             \* the members seen within twice master_timeout
  master_client,
  retransmit_queue,  \* block numbers
  transfer,          \* each transfer: where it is, its block, its round and what it repeats
  joined,            \* the transfer whose first pass ran when a client joined last, or 0
  heard,             \* the blocks that were sent since then
  overlap,           \* has a transfer started while another one ran?
  joins, failures    \* counts for the bounds

session == <<clients, is_master, fresh, master_client>>
fixed == <<blocks, overflow_checks>>
counts == <<overlap, joins, failures>>
vars == <<fixed, session, retransmit_queue, transfer, joined, heard, counts>>

None == "none"
Transfers == 1..MaxTransfers
Blocks == 1..blocks

\* Mutant of BlockNum: numbers do not wrap.
BlockIndex(b) == b

\* block_num.wrapping_add(1), from 1 on.
BlockNum(b) == b % BlockMod

\* Past the last block the rounds begin; an empty file has no block at all.
PassFrom(b) == IF b > blocks THEN "round" ELSE "sending"

FirstPass(t) == transfer[t].pc \in {"sending", "waiting"}
Ended(t) == transfer[t].pc \in {"done", "failed", "panicked"}

Init ==
  /\ blocks \in FileBlocks
  /\ overflow_checks \in BOOLEAN
  /\ clients = {} /\ is_master = {} /\ fresh = {} /\ master_client = None
  /\ retransmit_queue = {}
  /\ transfer = [t \in Transfers |-> [pc |-> "none", block |-> 1, retry |-> 0, todo |-> {}]]
  /\ joined = [c \in Clients |-> 0]
  /\ heard = [c \in Clients |-> {}]
  /\ overlap = FALSE /\ joins = 0 /\ failures = 0

---------------------------------------------------------------------------
(* Requests. *)

\* A full session refuses even a member.  The state of a member that joins again is
\* replaced: the master stays the master, but loses its flag.
add_client(c) ==
  /\ Cardinality(clients) < max_clients
  /\ clients' = clients \cup {c}
  /\ fresh' = fresh \cup {c}
  /\ master_client' = IF clients = {} THEN c ELSE master_client
  /\ is_master' = IF clients = {} THEN {c} ELSE is_master \ {c}

\* A new transfer, on its way to its first block.
Start(t) ==
  /\ transfer[t].pc = "none" /\ \A u \in 1..(t - 1) : transfer[u].pc # "none"
  /\ transfer' = [transfer EXCEPT ![t].pc = PassFrom(1)]
  /\ overlap' = (overlap \/ \E u \in 1..(t - 1) : ~Ended(u))

\* handle_multicast_request of a client that gets in, with the OACK sent.
Join(c) ==
  /\ joins < MaxJoins
  /\ joins' = joins + 1
  /\ add_client(c)
  /\ IF clients = {} THEN \E t \in Transfers : Start(t) ELSE UNCHANGED <<transfer, overlap>>
  /\ LET now == {t \in Transfers : FirstPass(t)'}
     IN  joined' = [joined EXCEPT ![c] = IF now = {} THEN 0 ELSE CHOOSE t \in now : TRUE]
  /\ heard' = [heard EXCEPT ![c] = {}]
  /\ UNCHANGED <<fixed, retransmit_queue, failures>>

\* The OACK cannot be sent: the client stays a member, but starts no transfer.
JoinUnanswered(c) ==
  /\ joins < MaxJoins /\ failures < MaxFailures
  /\ joins' = joins + 1 /\ failures' = failures + 1
  /\ add_client(c)
  /\ joined' = [joined EXCEPT ![c] = 0]
  /\ heard' = [heard EXCEPT ![c] = {}]
  /\ UNCHANGED <<fixed, retransmit_queue, transfer, overlap>>

\* last_seen is set when a client joins, and never again.
Age(c) ==
  /\ c \in fresh
  /\ fresh' = fresh \ {c}
  /\ UNCHANGED <<fixed, clients, is_master, master_client,
                 retransmit_queue, transfer, joined, heard, counts>>

---------------------------------------------------------------------------
(* Transfer t. *)

\* send_multicast_data: everyone in the group hears block b.
Multicast(b) == heard' = [c \in Clients |-> heard[c] \cup {b}]

\* Sends a block of the first pass.
SendBlock(t) ==
  /\ transfer[t].pc = "sending"
  /\ Multicast(transfer[t].block)
  /\ transfer' = [transfer EXCEPT ![t].pc = "waiting"]
  /\ UNCHANGED <<fixed, session, retransmit_queue, joined, counts>>

\* Mutant of AckTimeout: the block is sent again until all clients acknowledge it.
AckTimeoutStays(t) ==
  /\ transfer[t].pc = "waiting"
  /\ transfer' = [transfer EXCEPT ![t].pc = "sending"]
  /\ UNCHANGED <<fixed, session, retransmit_queue, joined, heard, counts>>

\* Mutant of AckTimeout: the loop ends before the last block is queued.
AckTimeoutNotLast(t) ==
  /\ transfer[t].pc = "waiting"
  /\ LET b == transfer[t].block
     IN  /\ retransmit_queue' = IF b = blocks THEN retransmit_queue
                                              ELSE retransmit_queue \cup {BlockNum(b)}
         /\ transfer' = [transfer EXCEPT ![t].block = b + 1, ![t].pc = PassFrom(b + 1)]
  /\ UNCHANGED <<fixed, session, joined, heard, counts>>

\* The wait for ACKs times out: the block is queued and the next one follows.
AckTimeout(t) ==
  /\ transfer[t].pc = "waiting"
  /\ LET b == transfer[t].block
     IN  /\ retransmit_queue' = retransmit_queue \cup {BlockNum(b)}
         /\ transfer' = [transfer EXCEPT ![t].block = b + 1, ![t].pc = PassFrom(b + 1)]
  /\ UNCHANGED <<fixed, session, joined, heard, counts>>

\* Mutant of remove_inactive_clients: the master is not replaced.
RemoveWithoutElection ==
  /\ clients' = fresh
  /\ is_master' = is_master \cap fresh
  /\ UNCHANGED <<fresh, master_client>>

\* remove_inactive_clients with elect_new_master; which member is next is up to HashMap.
remove_inactive_clients ==
  /\ clients' = fresh
  /\ fresh' = fresh
  /\ IF master_client \in fresh \cup {None}
     THEN master_client' = master_client /\ is_master' = is_master \cap fresh
     ELSE IF fresh = {}
     THEN master_client' = None /\ is_master' = {}
     ELSE \E m \in fresh : master_client' = m /\ is_master' = {m}

\* A round of handle_retransmissions takes the whole queue; none is left, or none to take.
StartRound(t) ==
  /\ transfer[t].pc = "round"
  /\ transfer[t].retry < max_retries
  /\ remove_inactive_clients
  /\ retransmit_queue' = {}
  /\ transfer' = [transfer EXCEPT
       ![t].pc    = IF retransmit_queue = {} THEN "done" ELSE "repeating",
       ![t].retry = IF retransmit_queue = {} THEN @ ELSE @ + 1,
       ![t].todo  = retransmit_queue]
  /\ UNCHANGED <<fixed, joined, heard, counts>>

RoundsOver(t) ==
  /\ transfer[t].pc = "round"
  /\ transfer[t].retry = max_retries
  /\ transfer' = [transfer EXCEPT ![t].pc = "done"]
  /\ UNCHANGED <<fixed, session, retransmit_queue, joined, heard, counts>>

\* The block that number n stands for in a round: (block_num - 1) as u16, from the start
\* of the file; there may be none.
Repeated(n) == ((n - 1) % BlockMod) + 1

\* Repeats one block, in the order of a HashSet.
Repeat(t) ==
  /\ transfer[t].pc = "repeating"
  /\ \E n \in transfer[t].todo :
       /\ n = 0 => ~overflow_checks
       /\ IF Repeated(n) \in Blocks THEN Multicast(Repeated(n)) ELSE UNCHANGED heard
       /\ LET rest == transfer[t].todo \ {n}
          IN  transfer' = [transfer EXCEPT ![t].todo = rest,
                                           ![t].pc = IF rest = {} THEN "round" ELSE @]
  /\ UNCHANGED <<fixed, session, retransmit_queue, joined, counts>>

\* 0 - 1 panics where arithmetic is checked.
Panic(t) ==
  /\ transfer[t].pc = "repeating"
  /\ overflow_checks /\ 0 \in transfer[t].todo
  /\ transfer' = [transfer EXCEPT ![t].pc = "panicked"]
  /\ UNCHANGED <<fixed, session, retransmit_queue, joined, heard, counts>>

\* Opening the file, the socket or a send fails, which ends the transfer.
Fail(t) ==
  /\ failures < MaxFailures
  /\ failures' = failures + 1
  /\ \/ transfer[t].pc \in {"sending", "repeating"}
     \/ blocks = 0 /\ transfer[t].pc = "round"
  /\ transfer' = [transfer EXCEPT ![t].pc = "failed"]
  /\ UNCHANGED <<fixed, session, retransmit_queue, joined, heard, overlap, joins>>

---------------------------------------------------------------------------
Run(t) == SendBlock(t) \/ AckTimeout(t) \/ StartRound(t) \/ RoundsOver(t) \/ Repeat(t) \/ Panic(t)

Next ==
  \/ \E c \in Clients : Join(c) \/ JoinUnanswered(c) \/ Age(c)
  \/ \E t \in Transfers :
       \/ SendBlock(t) \/ AckTimeout(t) \/ StartRound(t) \/ RoundsOver(t)
       \/ Repeat(t) \/ Panic(t) \/ Fail(t)

\* The runtime runs a spawned transfer, whose waits all have timeouts.
Fairness == \A t \in Transfers : WF_vars(Run(t))

Spec == Init /\ [][Next]_vars /\ Fairness

---------------------------------------------------------------------------
(* Properties. *)

\* The type of the state.
TypeOK ==
  /\ blocks \in FileBlocks /\ overflow_checks \in BOOLEAN
  /\ clients \subseteq Clients /\ is_master \subseteq clients /\ fresh \subseteq clients
  /\ Cardinality(clients) <= max_clients
  /\ master_client \in Clients \cup {None}
  /\ retransmit_queue \subseteq 0..(BlockMod - 1)
  /\ transfer \in [Transfers ->
       [pc    : {"none", "sending", "waiting", "round", "repeating", "done", "failed", "panicked"},
        block : 1..(blocks + 1),
        retry : 0..max_retries,
        todo  : SUBSET (0..(BlockMod - 1))]]
  /\ joined \in [Clients -> 0..MaxTransfers]
  /\ heard \in [Clients -> SUBSET Blocks]
  /\ overlap \in BOOLEAN /\ joins \in 0..MaxJoins /\ failures \in 0..MaxFailures

\* Through joins, rejoins, timeouts and elections a session with members has exactly one of
\* them as its master, an empty one none, and no one else bears the flag.
MasterIsMember ==
  /\ clients = {} <=> master_client = None
  /\ master_client # None => master_client \in clients
  /\ is_master \subseteq {master_client}

\* A client that joined during the first pass of a transfer, however late, has been sent
\* every block once that transfer ends; given that no call failed, that the file has no
\* more blocks than numbers can tell apart, and that no second transfer, which takes from
\* the same queue, ran beside the first.
JoinersServed ==
  blocks < BlockMod /\ failures = 0 /\ ~overlap =>
    \A c \in Clients :
      joined[c] # 0 /\ transfer[joined[c]].pc = "done" => heard[c] = Blocks

\* Every transfer ends by itself, although no block is ever acknowledged; one of a file with
\* more blocks than numbers may instead panic in a round, where arithmetic is checked, at the
\* block number 0 (multicast.rs:778 takes the offset to be safe from overflow).
TransfersEnd ==
  \A t \in Transfers : transfer[t].pc # "none" ~>
    IF overflow_checks /\ blocks >= BlockMod
    THEN transfer[t].pc \in {"done", "failed", "panicked"}
    ELSE transfer[t].pc \in {"done", "failed"}

---------------------------------------------------------------------------
(* The inductive invariant of MulticastProofs. *)

Running(t) == transfer[t].pc \notin {"none", "done", "failed", "panicked"}

\* The conditions of JoinersServed.
Undisturbed == blocks < BlockMod /\ failures = 0 /\ ~overlap

\* Transfers start in order, and the first pass stays within the file.
StartedInOrder ==
  \A t \in Transfers :
    /\ transfer[t].pc # "none" => \A u \in 1..(t - 1) : transfer[u].pc # "none"
    /\ transfer[t].pc = "none" => transfer[t].block = 1 /\ transfer[t].retry = 0
    /\ FirstPass(t) => transfer[t].block \in Blocks /\ transfer[t].retry = 0

OneAtATime ==
  ~overlap => \A t, u \in Transfers : Running(t) /\ Running(u) => t = u

\* The first pass leaves every block it is past in the queue, for whoever joins late; the
\* first round takes them all, and nothing is queued after that.
QueueOk ==
  \A t \in Transfers :
    /\ FirstPass(t) => 1..(transfer[t].block - 1) \subseteq retransmit_queue
    /\ transfer[t].pc = "round" => transfer[t].retry = 0 \/ retransmit_queue = {}
    /\ transfer[t].pc = "repeating" => transfer[t].retry > 0 /\ retransmit_queue = {}

\* What a client that joined in the first pass has not heard is still to be repeated.
JoinerOk(c, t) ==
  /\ transfer[t].pc # "none"
  /\ transfer[t].pc = "round" => Blocks \subseteq heard[c] \cup retransmit_queue
  /\ transfer[t].pc = "repeating" => Blocks \subseteq heard[c] \cup transfer[t].todo
  /\ transfer[t].pc = "done" => Blocks \subseteq heard[c]

IInv ==
  /\ TypeOK
  /\ IsFiniteSet(clients)
  /\ MasterIsMember
  /\ StartedInOrder
  /\ OneAtATime
  /\ Undisturbed => /\ QueueOk
                    /\ \A c \in Clients : joined[c] # 0 => JoinerOk(c, joined[c])
=============================================================================
