---------------------------- MODULE ReadTransfer ----------------------------
(***************************************************************************)
(* One file fetched by `usg-tftp-client --get` from a server of this       *)
(* repository: the client's receive loop (bin/client.rs, get), the         *)
(* transfer task the server starts for each RRQ datagram it receives       *)
(* (handle_read_request, which calls send_file_data_streaming or           *)
(* send_file_data_buffered), and UDP between them, which may lose,         *)
(* duplicate and reorder datagrams.                                        *)
(*                                                                         *)
(* A file is its number of DATA blocks.  Block i carries content i; the    *)
(* block numbered lastBlock is the only one shorter than blksize.  A block *)
(* number travels modulo BlockMod (2^16 in the code).                      *)
(***************************************************************************)
EXTENDS Integers, SequencesExt

CONSTANTS
  Tids,          \* transfer tasks the server can start, one per RRQ datagram
  NoTid,
  Binaries,      \* the possible values of binary
  LastBlocks,    \* the possible values of lastBlock
  BlockMod,      \* the range of a block number
  MaxRetries,    \* MAX_RETRIES
  ClientWindows, \* the possible values of clientWindow
  DefaultWindows, \* the possible values of defaultWindow
  AsksBlksize,   \* does the client ask for a blksize other than 512?
  MaxLoss,       \* datagrams the network may lose
  MaxDup,        \* datagrams the network may duplicate
  Reorder,       \* may the network deliver datagrams out of order?
  LateTimers     \* may a timer fire while an answer is still on its way?

ASSUME ConstantAssumption ==
  /\ NoTid \notin Tids
  /\ Binaries \subseteq {"server", "main"}
  /\ LastBlocks \subseteq Nat
  /\ BlockMod \in Nat \ {0, 1}
  /\ MaxRetries \in Nat \ {0}
  /\ ClientWindows \subseteq Nat \ {0}
  /\ DefaultWindows \subseteq Nat \ {0}
  /\ MaxLoss \in Nat /\ MaxDup \in Nat
  /\ AsksBlksize \in BOOLEAN /\ Reorder \in BOOLEAN /\ LateTimers \in BOOLEAN

VARIABLES
  binary,     \* the server: "server" (bin/server.rs) or "main" (main.rs)
  defaultWindow, \* performance.default_windowsize of the server
  lastBlock,  \* the final block's index; 0: the server has no such file, or it is too large
  emptyTail,  \* is the final block empty (the size is a multiple of blksize)?
  clientWindow, \* --windowsize of the client
  rrqs,       \* RRQ datagrams on their way to the listening port
  sPc,        \* per transfer task, where its code is
  base,       \* per transfer task, index of the first block of the current window
  tries,      \* per transfer task, failed waits for the ACK it is waiting for
  toServer,   \* per transfer task, ACK block numbers on their way to its socket
  cPc,        \* the client: "receiving", "done" or "failed"
  tid,        \* the client's server_tid
  written,    \* contents written to the client's local file, in order
  buffer,     \* the client's block_buffer: block number -> content, 0 for no entry
  lastAck,    \* the client's last_ack_sent
  toClient,   \* datagrams on their way to the client
  lost, dups  \* datagrams lost and duplicated so far

serverVars == <<sPc, base, tries>>
clientVars == <<cPc, tid, written, buffer, lastAck>>
fileVars   == <<binary, defaultWindow, lastBlock, emptyTail, clientWindow>>
faultVars  == <<lost, dups>>
vars == <<fileVars, rrqs, serverVars, toServer, clientVars, toClient, faultVars>>

Stopped == {"refused", "completed", "closed", "aborted"}
Waiting == {"oack", "empty", "window", "tail"}

---------------------------------------------------------------------------
(* Block numbers and packets. *)

BlockNum(i) == i % BlockMod

Data(t, i) == [tid |-> t, kind |-> "data", blk |-> i]
Oack(t)    == [tid |-> t, kind |-> "oack", blk |-> 0]
Error(t)   == [tid |-> t, kind |-> "error", blk |-> 0]

Packet == [tid : Tids, kind : {"data"}, blk : Nat \ {0}]
          \cup [tid : Tids, kind : {"oack", "error"}, blk : {0}]

\* The windowsize the server works with: the client's, if the client sends the option.
windowsize == IF clientWindow > 1 THEN clientWindow ELSE defaultWindow

\* Does the RRQ carry an option the server accepts, so that it answers with an OACK?
OptionsNegotiated == AsksBlksize \/ clientWindow > 1

\* file_size == 0, which both binaries treat apart.
EmptyFile == lastBlock = 1 /\ emptyTail

\* The last block sent within a window.  main.rs sends the empty final block of a file
\* whose size is a multiple of blksize after the last window, by itself.
LastWindowed ==
  IF binary = "main" /\ emptyTail /\ lastBlock > 1 THEN lastBlock - 1 ELSE lastBlock

WindowEnd(b) == IF b + windowsize - 1 < LastWindowed THEN b + windowsize - 1 ELSE LastWindowed

Window(t, b) == [i \in 1..(WindowEnd(b) - b + 1) |-> Data(t, b + i - 1)]

\* Datagrams sent to a client that has closed its socket go nowhere.
Sending(ch, pkts) == IF cPc = "receiving" THEN ch \o pkts ELSE ch

\* ACK k sent by the client to server_tid; a task that has ended has closed its socket.
Acking(t, k) ==
  IF sPc[t] \in Stopped THEN toServer ELSE [toServer EXCEPT ![t] = Append(@, k)]

\* The datagrams a receiver may get next from a channel.
Arriving(ch) == IF Reorder THEN DOMAIN ch ELSE DOMAIN ch \cap {1}

---------------------------------------------------------------------------
(* The server's transfer tasks. *)

\* send_file_data_...: an empty file is one empty block, sent once; any other, windows.
StartData(t) ==
  /\ sPc' = [sPc EXCEPT ![t] = IF EmptyFile THEN "empty" ELSE "window"]
  /\ tries' = [tries EXCEPT ![t] = 0]
  /\ toClient' = Sending(toClient, Window(t, 1))

\* handle_read_request, from the RRQ to the first wait.  OACK and ERROR are sent once.
Accept(t) ==
  /\ rrqs > 0
  /\ sPc[t] = "idle"
  /\ rrqs' = rrqs - 1
  /\ \/ /\ lastBlock = 0
        /\ sPc' = [sPc EXCEPT ![t] = "refused"]
        /\ toClient' = Sending(toClient, <<Error(t)>>)
        /\ UNCHANGED tries
     \/ /\ lastBlock > 0 /\ OptionsNegotiated
        /\ sPc' = [sPc EXCEPT ![t] = "oack"]
        /\ toClient' = Sending(toClient, <<Oack(t)>>)
        /\ UNCHANGED tries
     \/ /\ lastBlock > 0 /\ ~OptionsNegotiated
        /\ StartData(t)
  /\ UNCHANGED <<fileVars, base, toServer, clientVars, faultVars>>

\* Mutant of WaitAgain: a duplicate ACK is ignored without using up an attempt.
WaitForever(t) ==
  /\ sPc[t] \in {"oack", "empty"}
  /\ UNCHANGED <<tries, sPc, base, toClient>>

\* A failed receive in wait_for_ack (OACK, empty file): only the wait is repeated.
WaitAgain(t) ==
  /\ sPc[t] \in {"oack", "empty"}
  /\ tries' = [tries EXCEPT ![t] = @ + 1]
  /\ sPc' = [sPc EXCEPT ![t] = IF tries[t] + 1 < MaxRetries THEN @ ELSE "aborted"]
  /\ UNCHANGED <<base, toClient>>

\* Mutant of ResendWindow: the retry limit is not checked.
ResendUnlimited(t) ==
  /\ sPc[t] = "window"
  /\ tries' = [tries EXCEPT ![t] = @ + 1]
  /\ toClient' = Sending(toClient, Window(t, base[t]))
  /\ UNCHANGED <<sPc, base>>

\* A failed receive in the window loop: the whole window is sent again, up to
\* MaxRetries times in all; then the task returns without a word.  It also ends when a
\* send fails because the client's port is closed.
ResendWindow(t) ==
  /\ sPc[t] = "window"
  /\ tries' = [tries EXCEPT ![t] = @ + 1]
  /\ \/ /\ tries[t] + 1 < MaxRetries
        /\ toClient' = Sending(toClient, Window(t, base[t]))
        /\ UNCHANGED sPc
     \/ /\ tries[t] + 1 >= MaxRetries \/ cPc # "receiving"
        /\ sPc' = [sPc EXCEPT ![t] = "aborted"]
        /\ UNCHANGED toClient
  /\ UNCHANGED base

\* A failed receive after main.rs's separate final block: the `?` ends the task.
TailFails(t) ==
  /\ sPc[t] = "tail"
  /\ sPc' = [sPc EXCEPT ![t] = "aborted"]
  /\ UNCHANGED <<base, tries, toClient>>

NoAck(t) == WaitAgain(t) \/ ResendWindow(t) \/ TailFails(t)

\* The ACK the task waits for.
Expected(t) ==
  CASE sPc[t] = "oack"   -> 0
    [] sPc[t] = "empty"  -> 1
    [] sPc[t] = "window" -> BlockNum(WindowEnd(base[t]))
    [] OTHER             -> BlockNum(lastBlock)

\* wait_for_ack_with_duplicate_handling: is k a duplicate of an earlier ACK?
IsDuplicateAck(t, k) ==
  LET behind == (Expected(t) - k) % BlockMod
  IN  0 < behind /\ behind < BlockMod \div 2

\* Mutant of IsExpectedAck: the Ok(false) of a duplicate is taken for Ok(true).
AnyOk(t, k) == k = Expected(t) \/ IsDuplicateAck(t, k)

IsExpectedAck(t, k) == k = Expected(t)

\* The ACK of the OACK.
OackAcked(t) ==
  /\ sPc[t] = "oack"
  /\ StartData(t)
  /\ UNCHANGED base

\* The ACK of the only block of an empty file: transfer_completed.
EmptyAcked(t) ==
  /\ sPc[t] = "empty"
  /\ sPc' = [sPc EXCEPT ![t] = "completed"]
  /\ UNCHANGED <<base, tries, toClient>>

\* The ACK of a window: the next window, main.rs's separate final block, or
\* transfer_completed.
WindowAcked(t) ==
  LET end == WindowEnd(base[t])
  IN /\ sPc[t] = "window"
     /\ \/ /\ end = lastBlock
           /\ sPc' = [sPc EXCEPT ![t] = "completed"]
           /\ UNCHANGED <<base, tries, toClient>>
        \/ /\ end = LastWindowed /\ end < lastBlock
           /\ sPc' = [sPc EXCEPT ![t] = "tail"]
           /\ toClient' = Sending(toClient, <<Data(t, lastBlock)>>)
           /\ UNCHANGED <<base, tries>>
        \/ /\ end < LastWindowed
           /\ base' = [base EXCEPT ![t] = end + 1]
           /\ tries' = [tries EXCEPT ![t] = 0]
           /\ toClient' = Sending(toClient, Window(t, end + 1))
           /\ UNCHANGED sPc

\* Any ACK that is not an error ends main.rs's wait for the final block's ACK.
TailAcked(t) ==
  /\ sPc[t] = "tail"
  /\ sPc' = [sPc EXCEPT ![t] = "closed"]
  /\ UNCHANGED <<base, tries, toClient>>

\* The task receives an ACK.
RecvAck(t) ==
  /\ sPc[t] \in Waiting
  /\ \E i \in Arriving(toServer[t]) :
       LET k == toServer[t][i] IN
       /\ \/ /\ IsExpectedAck(t, k)
             /\ OackAcked(t) \/ EmptyAcked(t) \/ WindowAcked(t) \/ TailAcked(t)
          \/ /\ ~IsExpectedAck(t, k)
             /\ IF sPc[t] = "tail" /\ IsDuplicateAck(t, k) THEN TailAcked(t) ELSE NoAck(t)
       /\ toServer' = [toServer EXCEPT ![t] =
                         IF sPc'[t] \in Stopped THEN <<>> ELSE RemoveAt(@, i)]
  /\ UNCHANGED <<fileVars, rrqs, clientVars, faultVars>>

\* The wait for an ACK times out, or fails because the client's port is closed.
AckTimeout(t) ==
  /\ sPc[t] \in Waiting
  /\ LateTimers \/ (toServer[t] = <<>> /\ toClient = <<>>)
  /\ NoAck(t)
  /\ toServer' = IF sPc'[t] \in Stopped THEN [toServer EXCEPT ![t] = <<>>] ELSE toServer
  /\ UNCHANGED <<fileVars, rrqs, clientVars, faultVars>>

Server(t) == Accept(t) \/ RecvAck(t) \/ AckTimeout(t)

---------------------------------------------------------------------------
(* The client. *)

Init ==
  /\ binary \in Binaries /\ defaultWindow \in DefaultWindows
  /\ lastBlock \in LastBlocks
  /\ emptyTail \in BOOLEAN
  /\ clientWindow \in ClientWindows
  /\ rrqs = 1
  /\ sPc = [t \in Tids |-> "idle"]
  /\ base = [t \in Tids |-> 1]
  /\ tries = [t \in Tids |-> 0]
  /\ toServer = [t \in Tids |-> <<>>]
  /\ cPc = "receiving"
  /\ tid = NoTid
  /\ written = <<>>
  /\ buffer = [k \in 0..(BlockMod - 1) |-> 0]
  /\ lastAck = 0
  /\ toClient = <<>>
  /\ lost = 0 /\ dups = 0

\* expected_block: one more than the blocks written, in 16 bits.
ExpectedBlock(n) == BlockNum(n + 1)

\* Mutant of OldBlock: a repeated block is ignored without an ACK.
OldBlockIgnored(p) ==
  /\ BlockNum(p.blk) < ExpectedBlock(Len(written))
  /\ UNCHANGED <<cPc, written, buffer, lastAck, toServer>>

\* A block that was expected earlier (compared as plain integers): repeat the last ACK.
OldBlock(p) ==
  /\ BlockNum(p.blk) < ExpectedBlock(Len(written))
  /\ toServer' = Acking(tid', lastAck)
  /\ UNCHANGED <<cPc, written, buffer, lastAck>>

\* A block expected later: keep it.
FutureBlock(p) ==
  /\ BlockNum(p.blk) > ExpectedBlock(Len(written))
  /\ buffer' = [buffer EXCEPT ![BlockNum(p.blk)] = p.blk]
  /\ UNCHANGED <<cPc, written, lastAck, toServer>>

\* Mutant of IsExpected: blocks are taken in the order they arrive.
IsNotOld(p) == BlockNum(p.blk) >= ExpectedBlock(Len(written))

IsExpected(p) == BlockNum(p.blk) = ExpectedBlock(Len(written))

\* Once n blocks are written, the buffer holds the k that follow and not the next.
InSequence(n, k) ==
  /\ \A j \in 0..(k - 1) : buffer[ExpectedBlock(n + j)] # 0
  /\ k < BlockMod => buffer[ExpectedBlock(n + k)] = 0

\* Mutant of IsFinal: `<=` for `<` in data_len < block_size.
IsFinalAny(p) == p.blk <= lastBlock

\* data_len < self.block_size
IsFinal(p) == p.blk = lastBlock

\* Mutant of AckDue: one block too late.
AckLate(p, ackNum) == (ackNum - lastAck) % BlockMod > clientWindow \/ IsFinal(p)

\* Is block ackNum to be acknowledged, after block p was received?
AckDue(p, ackNum) == (ackNum - lastAck) % BlockMod >= clientWindow \/ IsFinal(p)

\* The expected block: write it and the k buffered ones that follow, acknowledge at the
\* end of a window or at the final block, and finish if p itself was the final block.
NextBlock(p) ==
  LET n == Len(written) + 1
  IN /\ IsExpected(p)
     /\ \E k \in 0..BlockMod :
          LET ackNum == BlockNum(n + k) IN
          /\ InSequence(n, k)
          /\ written' = Append(written, p.blk)
                        \o [j \in 1..k |-> buffer[ExpectedBlock(n + j - 1)]]
          /\ buffer' = [w \in 0..(BlockMod - 1) |->
                          IF \E j \in 0..(k - 1) : w = ExpectedBlock(n + j) THEN 0 ELSE buffer[w]]
          /\ lastAck' = IF AckDue(p, ackNum) THEN ackNum ELSE lastAck
          /\ toServer' = IF AckDue(p, ackNum) THEN Acking(tid', ackNum) ELSE toServer
     /\ cPc' = IF IsFinal(p) THEN "done" ELSE cPc

\* An OACK, whenever it comes: ACK 0.
RecvOack ==
  /\ toServer' = Acking(tid', 0)
  /\ lastAck' = 0
  /\ UNCHANGED <<cPc, written, buffer>>

RecvError ==
  /\ cPc' = "failed"
  /\ UNCHANGED <<written, buffer, lastAck, toServer>>

\* Mutant of ServerTid: every datagram sets it.
LatestTid(p) == p.tid

\* The first datagram received sets it.
ServerTid(p) == IF tid = NoTid THEN p.tid ELSE tid

\* One turn of the receive loop.  The first datagram fixes server_tid; datagrams of any
\* other task are ignored.
ClientRecv ==
  /\ cPc = "receiving"
  /\ \E i \in Arriving(toClient) :
       LET p == toClient[i] IN
       /\ tid' = ServerTid(p)
       /\ \/ /\ p.tid # tid'
             /\ UNCHANGED <<cPc, written, buffer, lastAck, toServer>>
          \/ /\ p.tid = tid' /\ p.kind = "data"
             /\ OldBlock(p) \/ FutureBlock(p) \/ NextBlock(p)
          \/ /\ p.tid = tid' /\ p.kind = "oack"
             /\ RecvOack
          \/ /\ p.tid = tid' /\ p.kind = "error"
             /\ RecvError
       /\ toClient' = IF cPc' = "receiving" THEN RemoveAt(toClient, i) ELSE <<>>
  /\ UNCHANGED <<fileVars, rrqs, serverVars, faultVars>>

\* The receive times out: the get fails, whatever was received.
ClientTimeout ==
  /\ cPc = "receiving"
  /\ \/ LateTimers
     \/ toClient = <<>> /\ rrqs = 0 /\ \A t \in Tids : sPc[t] \notin Waiting
  /\ cPc' = "failed"
  /\ toClient' = <<>>
  /\ UNCHANGED <<fileVars, rrqs, serverVars, toServer, tid, written, buffer, lastAck, faultVars>>

Client == ClientRecv \/ ClientTimeout

---------------------------------------------------------------------------
(* UDP. *)

Lose ==
  /\ lost < MaxLoss
  /\ lost' = lost + 1
  /\ \/ /\ rrqs > 0
        /\ rrqs' = rrqs - 1
        /\ UNCHANGED <<toServer, toClient>>
     \/ /\ \E i \in DOMAIN toClient : toClient' = RemoveAt(toClient, i)
        /\ UNCHANGED <<rrqs, toServer>>
     \/ /\ \E t \in Tids : \E i \in DOMAIN toServer[t] :
             toServer' = [toServer EXCEPT ![t] = RemoveAt(@, i)]
        /\ UNCHANGED <<rrqs, toClient>>
  /\ UNCHANGED <<fileVars, serverVars, clientVars, dups>>

Duplicate ==
  /\ dups < MaxDup
  /\ dups' = dups + 1
  /\ \/ /\ rrqs > 0
        /\ rrqs < Cardinality({t \in Tids : sPc[t] = "idle"})
        /\ rrqs' = rrqs + 1
        /\ UNCHANGED <<toServer, toClient>>
     \/ /\ \E i \in DOMAIN toClient : toClient' = InsertAt(toClient, i, toClient[i])
        /\ UNCHANGED <<rrqs, toServer>>
     \/ /\ \E t \in Tids : \E i \in DOMAIN toServer[t] :
             toServer' = [toServer EXCEPT ![t] = InsertAt(@, i, @[i])]
        /\ UNCHANGED <<rrqs, toClient>>
  /\ UNCHANGED <<fileVars, serverVars, clientVars, lost>>

---------------------------------------------------------------------------
Next == Client \/ (\E t \in Tids : Server(t)) \/ Lose \/ Duplicate

Spec == Init /\ [][Next]_vars

\* The tokio runtime polls a ready task and fires a due timer; the network promises nothing.
Fairness == WF_vars(Client) /\ \A t \in Tids : WF_vars(Server(t))

FairSpec == Spec /\ Fairness

---------------------------------------------------------------------------
(* Properties. *)

\* No transfer has more blocks than there are block numbers after 0 (below 32 MiB at
\* the default blksize of 512).
NoWrap == \A n \in LastBlocks : n < BlockMod

\* Every variable stays in its range; in particular no wait is repeated more than
\* MAX_RETRIES times (server.rs, the `retries >= MAX_RETRIES` check of both send loops).
TypeOK ==
  /\ binary \in Binaries /\ defaultWindow \in DefaultWindows
  /\ lastBlock \in LastBlocks /\ emptyTail \in BOOLEAN /\ clientWindow \in ClientWindows
  /\ rrqs \in Nat
  /\ sPc \in [Tids -> {"idle"} \cup Waiting \cup Stopped]
  /\ base \in [Tids -> Nat \ {0}]
  /\ tries \in [Tids -> 0..MaxRetries]
  /\ toServer \in [Tids -> Seq(0..(BlockMod - 1))]
  /\ cPc \in {"receiving", "done", "failed"}
  /\ tid \in Tids \cup {NoTid}
  /\ written \in Seq(Nat)
  /\ buffer \in [0..(BlockMod - 1) -> Nat]
  /\ lastAck \in 0..(BlockMod - 1)
  /\ toClient \in Seq(Packet)
  /\ lost \in Nat /\ dups \in Nat

\* Whatever is lost, repeated or reordered, and however the buffered blocks are drained,
\* the client's local file is a prefix of the served file: no gap, no repetition.
Integrity ==
  /\ Len(written) <= lastBlock
  /\ \A i \in DOMAIN written : written[i] = i

\* The server logs transfer_completed only when the client has written every block: no
\* stale, repeated or reordered ACK can be taken for the last one.
CompletedMeansDelivered ==
  \A t \in Tids : sPc[t] = "completed" => Len(written) = lastBlock

\* When main.rs returns Ok after the single empty block that ends a file of a multiple of
\* blksize bytes, the client has at least every block before it, even if the "ACK" that
\* ended the wait was a duplicate.
ClosedMeansAllButTail ==
  \A t \in Tids : sPc[t] \in {"tail", "closed"} => Len(written) >= lastBlock - 1

\* A duplicated RRQ starts a second task, but the client feeds only the task it heard
\* first: every other task ends in its first exchange.
OneTaskServed ==
  \A t \in Tids : t # tid => base[t] = 1 /\ sPc[t] \notin {"completed", "closed", "tail"}

\* The transfer as FileDelivery promises it.
Delivered == INSTANCE FileDelivery WITH
  local <- written, outcome <- cPc, credited <- \E t \in Tids : sPc[t] = "completed"

\* The read transfer implements FileDelivery: get reports success only with the whole
\* file, and the server credits only a whole file.
ImplementsDelivery == Delivered!Spec

AllStopped == cPc # "receiving" /\ \A t \in Tids : sPc[t] \notin Waiting

\* Nobody waits for ever: every wait of the server is bounded by MAX_RETRIES and the
\* client's by its timeout, under any loss, duplication and reordering.
Termination == <>[]AllStopped

\* main.rs has the empty final block still to send after a last window that is shorter than
\* the others: the client, which sees neither a whole window nor a final block, does not
\* acknowledge it.
UnackedLastWindow == LastWindowed < lastBlock /\ LastWindowed % windowsize # 0

\* A transfer in which no datagram is lost or duplicated, between a client and a server that
\* use the same windowsize, delivers an existing file of any size, and the server knows,
\* unless main.rs has the empty final block to send after a short window.  Such a file is
\* never delivered (CHANGELOG.md:40 says that this is fixed): main.rs sends the last window
\* until its retries are used up, and not the empty block.
FaultFreeDelivery ==
  <>[](lost + dups = 0 /\ lastBlock > 0 /\ windowsize = clientWindow =>
         IF UnackedLastWindow
         THEN cPc = "failed" /\ \A t \in Tids : sPc[t] \in {"idle", "aborted"}
         ELSE cPc = "done" /\ \E t \in Tids : sPc[t] \in {"completed", "closed"})

\* Once the server has begun to send a file in lock step, the get succeeds although
\* datagrams are lost and duplicated; but the final block that main.rs sends once, after
\* the last window, may be lost.
LockStepGetSucceeds ==
  (windowsize = 1 /\ LastWindowed = lastBlock /\ \E t \in Tids : sPc[t] = "window")
    ~> (cPc = "done")

\* Once the server has begun to send windows of the file, the get succeeds.
StartedGetSucceeds == (\E t \in Tids : sPc[t] = "window") ~> (cPc = "done")

---------------------------------------------------------------------------
(* The inductive invariant of ReadTransferProofs, for transfers without a wrap of the  *)
(* block number.                                                                       *)

\* Only blocks of the file are on their way to the client.
PacketsOk == toClient \in Seq({p \in Packet : p.blk <= lastBlock})

\* Only blocks that are written have been acknowledged, and only to server_tid.
AcksOk ==
  /\ \A t \in Tids : toServer[t] \in Seq({k \in 0..Len(written) : t = tid})
  /\ lastAck <= Len(written)

\* A buffered block is stored under its own number.
BufferOk ==
  \A w \in 0..(BlockMod - 1) : buffer[w] = 0 \/ (buffer[w] = w /\ w <= lastBlock)

\* A window starts at most one block after what the client has written.
TaskOk(t) ==
  /\ sPc[t] \in Waiting => lastBlock > 0
  /\ sPc[t] \in {"idle", "oack", "empty", "window"} => tries[t] < MaxRetries
  /\ sPc[t] = "empty" => EmptyFile
  /\ sPc[t] \in {"idle", "oack"} => base[t] = 1
  /\ sPc[t] = "window" => base[t] <= LastWindowed
  /\ base[t] <= Len(written) + 1
  /\ sPc[t] \in {"tail", "closed"} => Len(written) >= lastBlock - 1
  /\ sPc[t] = "completed" => lastBlock > 0 /\ Len(written) = lastBlock
  /\ t # tid => base[t] = 1 /\ sPc[t] \notin {"completed", "closed", "tail"}

IInv ==
  /\ TypeOK
  /\ Integrity
  /\ PacketsOk
  /\ AcksOk
  /\ BufferOk
  /\ \A t \in Tids : TaskOk(t)
  /\ cPc = "done" => lastBlock > 0 /\ Len(written) = lastBlock

---------------------------------------------------------------------------
(* What holds of a file of any size, wraps of the block number included. *)

\* Only server_tid is sent ACKs.
AcksGoToServerTid == \A t \in Tids : t # tid => toServer[t] = <<>>

\* A task waits within its limits, and only server_tid's task gets past its first exchange.
TaskOkAnySize(t) ==
  /\ sPc[t] \in Waiting => lastBlock > 0
  /\ sPc[t] \in {"idle", "oack", "empty", "window"} => tries[t] < MaxRetries
  /\ sPc[t] \in {"idle", "oack"} => base[t] = 1
  /\ sPc[t] = "window" => base[t] <= LastWindowed
  /\ t # tid => base[t] = 1 /\ sPc[t] \notin {"completed", "closed", "tail"}

AnySizeInv ==
  /\ TypeOK
  /\ AcksGoToServerTid
  /\ \A t \in Tids : TaskOkAnySize(t)

---------------------------------------------------------------------------
(* What holds of a file of any size on a quiet network. *)

\* Nothing is lost, repeated or overtaken, and no timer fires while an answer is on its way.
QuietNetwork == ~Reorder /\ ~LateTimers /\ MaxLoss = 0 /\ MaxDup = 0

\* Client and server work with one window, smaller than the range of a block number, and the
\* client acknowledges the last one: a window that is cut short only if it ends with the
\* final block, which main.rs may send by itself.
SameWindow ==
  windowsize = clientWindow /\ clientWindow < BlockMod /\ ~UnackedLastWindow

\* The first and the last of the blocks that task t waits to see acknowledged.
First(t) == IF sPc[t] = "tail" THEN lastBlock ELSE base[t]

End(t) == IF sPc[t] = "tail" THEN lastBlock ELSE WindowEnd(base[t])

SendsData(t) == sPc[t] \in {"empty", "window", "tail"}

\* Blocks m + 1 to n of the file, as task t sends them.
Blocks(t, m, n) == [i \in 1..(n - m) |-> Data(t, m + i)]

NotAccepted ==
  /\ rrqs = 1 /\ tid = NoTid /\ cPc = "receiving" /\ toClient = <<>>
  /\ Len(written) = 0 /\ lastAck = 0
  /\ \A t \in Tids : sPc[t] = "idle"

Refused(t) ==
  /\ sPc[t] = "refused" /\ lastBlock = 0 /\ Len(written) = 0 /\ toServer[t] = <<>>
  /\ \/ cPc = "receiving" /\ toClient = <<Error(t)>>
     \/ cPc = "failed" /\ toClient = <<>>

Negotiating(t) ==
  /\ sPc[t] = "oack" /\ Len(written) = 0 /\ lastAck = 0 /\ cPc = "receiving"
  /\ \/ toClient = <<Oack(t)>> /\ toServer[t] = <<>>
     \/ toClient = <<>> /\ toServer[t] = <<0>>

Reading(t) ==
  /\ SendsData(t) /\ cPc = "receiving" /\ toServer[t] = <<>>
  /\ toClient = Blocks(t, Len(written), End(t))
  /\ First(t) <= Len(written) + 1 /\ Len(written) < End(t)
  /\ lastAck = BlockNum(First(t) - 1)

WindowRead(t) ==
  /\ SendsData(t) /\ toClient = <<>> /\ toServer[t] = <<lastAck>>
  /\ Len(written) = End(t) /\ lastAck = BlockNum(End(t))
  /\ cPc = IF End(t) = lastBlock THEN "done" ELSE "receiving"

Served(t) ==
  /\ sPc[t] \in {"completed", "closed"} /\ Len(written) = lastBlock /\ lastBlock > 0
  /\ cPc = "done" /\ toClient = <<>> /\ toServer[t] = <<>>

\* One task serves the client, and either datagrams of its window or the ACK of the whole of
\* it are on their way.
OnlyTask(t) ==
  /\ rrqs = 0 /\ tid \in {NoTid, t}
  /\ \A u \in Tids \ {t} : sPc[u] = "idle"
  /\ sPc[t] = "empty" => EmptyFile /\ base[t] = 1
  /\ Refused(t) \/ Negotiating(t) \/ Reading(t) \/ WindowRead(t) \/ Served(t)

\* A window that is not the last one is full.
WindowsFull(t) ==
  LastWindowed < lastBlock => \E n \in 0..lastBlock : LastWindowed = base[t] - 1 + n * clientWindow

WindowInv == SameWindow /\ \A t \in Tids : WindowsFull(t)

QuietInv ==
  /\ AnySizeInv
  /\ \A i \in DOMAIN written : written[i] = i
  /\ \A k \in 0..(BlockMod - 1) : buffer[k] = 0
  /\ NotAccepted \/ \E t \in Tids : OnlyTask(t)

\* On a quiet network no task gives up, and a get fails only if the server has no such file.
NobodyGivesUp ==
  /\ \A t \in Tids : sPc[t] # "aborted"
  /\ cPc = "failed" => lastBlock = 0
=============================================================================
