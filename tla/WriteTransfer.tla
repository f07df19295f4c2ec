---------------------------- MODULE WriteTransfer ----------------------------
(***************************************************************************)
(* One file uploaded to the server: the transfer task that each WRQ        *)
(* datagram starts (handle_client and handle_write_request, the same code  *)
(* in bin/server.rs and main.rs), the sender, and UDP between them.  The   *)
(* sender is either one that is not in this repository (an RFC 1350 / RFC  *)
(* 7440 client such as those of docs/integration-testing.md) or put of     *)
(* bin/client.rs, which never gets past its request with this server.      *)
(*                                                                         *)
(* Block i of the file has content i, and block lastBlock is the only one  *)
(* shorter than blksize.  Block numbers travel modulo BlockMod.            *)
(***************************************************************************)
EXTENDS Integers, SequencesExt

CONSTANTS
  Senders,       \* the kinds of sender to choose from: "rfc", "put"
  Tids,          \* transfer tasks the server can start, one per WRQ datagram
  NoTid,
  LastBlocks,    \* the possible values of lastBlock
  BlockMod,      \* the range of a block number
  SizeLimit,     \* blocks that max_file_size_bytes has room for; 0 for no limit
  MaxRetries,    \* times the sender sends a window
  ClientWindows, \* windowsizes of the sender to choose from
  DefaultWindow, \* performance.default_windowsize of the server
  DiskFails,     \* may write_file_safely fail?
  MaxLoss,       \* datagrams the network may lose
  MaxDup,        \* datagrams the network may duplicate
  Networks,      \* the kinds of network to choose from: "fifo", "reordering"
  LateTimers,    \* may a timer fire while an answer is still on its way?
  SenderFirst    \* is the sender's timeout shorter than the server's?

ASSUME ConstantAssumption ==
  /\ Senders \subseteq {"rfc", "put"} /\ Networks \subseteq {"fifo", "reordering"}
  /\ NoTid \notin Tids
  /\ LastBlocks \subseteq Nat \ {0}
  /\ BlockMod \in Nat \ {0, 1}
  /\ SizeLimit \in Nat
  /\ MaxRetries \in Nat \ {0}
  /\ ClientWindows \subseteq Nat \ {0} /\ DefaultWindow \in Nat \ {0}
  /\ MaxLoss \in Nat /\ MaxDup \in Nat
  /\ {DiskFails, LateTimers, SenderFirst} \subseteq BOOLEAN

VARIABLES
  sender,     \* what kind of sender this is
  clientWindow, \* windowsize of the sender
  network,    \* may datagrams overtake each other?
  lastBlock,  \* the final block's index
  allowed,    \* do the configuration, the path and the existing files allow the write?
  wrqs,       \* WRQ datagrams on their way to the listening port
  sPc,        \* per transfer task, where its code is
  received,   \* per transfer task, the contents in received_data
  toServer,   \* per transfer task, blocks on their way to its socket; 0 is an ERROR
  cPc,        \* the sender: "asking", "sending", "done" or "failed"
  tid,        \* the transfer task the sender talks to
  base,       \* index of the first block of the sender's window
  tries,      \* times the sender has waited in vain for an ACK of this window
  toSender,   \* datagrams on their way to the sender
  lost, dups  \* datagrams lost and duplicated so far

fileVars   == <<sender, clientWindow, network, lastBlock, allowed>>
taskVars   == <<sPc, received>>
senderVars == <<cPc, tid, base, tries>>
faultVars  == <<lost, dups>>
vars == <<fileVars, wrqs, taskVars, toServer, senderVars, toSender, faultVars>>

Stopped == {"refused", "aborted", "stored", "unwritten"}
Open    == {"asking", "sending"}

---------------------------------------------------------------------------
(* Block numbers and packets. *)

BlockNum(i) == i % BlockMod

Ready(t)  == [tid |-> t, kind |-> "ready", num |-> 0]   \* ACK 0, or the OACK
Ack(t, k) == [tid |-> t, kind |-> "ack", num |-> k]
Error(t)  == [tid |-> t, kind |-> "error", num |-> 0]

\* Like DATA, an ACK is modelled by the index of its block; who receives it sees BlockNum of
\* that only.
Packet == [tid : Tids, kind : {"ready", "ack", "error"}, num : Nat]

\* The windowsize of the server: the sender's, if it sends the option.
windowsize == IF clientWindow > 1 THEN clientWindow ELSE DefaultWindow

\* put connects its socket to the listening port: whatever a task sends from a port of its
\* own is not for that socket.
HearsTasks == sender = "rfc"

\* Datagrams sent to a sender that has closed its socket go nowhere.
Sending(ch, p) == IF cPc \in Open /\ HearsTasks THEN Append(ch, p) ELSE ch

\* The datagrams a receiver may get next from a channel.
Arriving(ch) == IF network = "reordering" THEN DOMAIN ch ELSE DOMAIN ch \cap {1}

---------------------------------------------------------------------------
(* The server's transfer tasks. *)

\* The checks of the WRQ, then ACK 0 or OACK.  Each reply is sent once.
Accept(t) ==
  /\ wrqs > 0
  /\ sPc[t] = "idle"
  /\ wrqs' = wrqs - 1
  /\ \/ /\ ~allowed
        /\ sPc' = [sPc EXCEPT ![t] = "refused"]
        /\ toSender' = Sending(toSender, Error(t))
     \/ /\ allowed
        /\ sPc' = [sPc EXCEPT ![t] = "receiving"]
        /\ toSender' = Sending(toSender, Ready(t))
  /\ UNCHANGED <<fileVars, received, toServer, senderVars, faultVars>>

\* expected_block
ExpectedBlock(t) == BlockNum(Len(received[t]) + 1)

\* Mutant of IsExpected: a block ahead of the expected one is taken as well.
IsNotBehind(t, n) == (BlockNum(n) - ExpectedBlock(t)) % BlockMod < BlockMod \div 2

IsExpected(t, n) == BlockNum(n) = ExpectedBlock(t)

\* behind > 0 && behind < 32768, in 16 bits.
IsDuplicate(t, n) ==
  LET behind == (ExpectedBlock(t) - BlockNum(n)) % BlockMod
  IN  0 < behind /\ behind < BlockMod \div 2

\* Mutant of IsFinalBlock: `<=` for `<` in data_len < block_size.
IsFinalAny(n) == n <= lastBlock

\* data_len < block_size
IsFinalBlock(n) == n = lastBlock

\* Mutant of TooLarge: the block at hand is not counted.
TooLargeAlready(t) == SizeLimit > 0 /\ Len(received[t]) > SizeLimit

\* received_data.len() + data_len > max_file_size_bytes
TooLarge(t) == SizeLimit > 0 /\ Len(received[t]) + 1 > SizeLimit

\* The last block of a window (counted from block 1, in 16 bits) or of the file.
should_ack(n) ==
  \/ (((BlockNum(n) - 1) % BlockMod) % windowsize) + 1 = windowsize
  \/ IsFinalBlock(n)

\* The expected block.  The final one is acknowledged before it is written to disk.
NextBlock(t, n) ==
  /\ IsExpected(t, n)
  /\ \/ /\ TooLarge(t)
        /\ sPc' = [sPc EXCEPT ![t] = "aborted"]
        /\ toSender' = Sending(toSender, Error(t))
        /\ UNCHANGED received
     \/ /\ ~TooLarge(t)
        /\ received' = [received EXCEPT ![t] = Append(@, n)]
        /\ sPc' = [sPc EXCEPT ![t] = IF IsFinalBlock(n) THEN "writing" ELSE @]
        /\ toSender' = IF should_ack(n) THEN Sending(toSender, Ack(t, n))
                       ELSE toSender

\* Mutant of DuplicateBlock: it is dropped without an ACK.
DuplicateIgnored(t, n) ==
  /\ ~IsExpected(t, n) /\ IsDuplicate(t, n)
  /\ UNCHANGED <<sPc, received, toSender>>

\* A block that was received before: acknowledge that block.
DuplicateBlock(t, n) ==
  /\ ~IsExpected(t, n) /\ IsDuplicate(t, n)
  /\ toSender' = Sending(toSender, Ack(t, n))
  /\ UNCHANGED <<sPc, received>>

\* Mutant of OutOfOrder: the block is acknowledged and dropped.
OutOfOrderAcked(t, n) ==
  /\ ~IsExpected(t, n) /\ ~IsDuplicate(t, n)
  /\ toSender' = Sending(toSender, Ack(t, n))
  /\ UNCHANGED <<sPc, received>>

\* Any other block: an ERROR, and the transfer is over.
OutOfOrder(t, n) ==
  /\ ~IsExpected(t, n) /\ ~IsDuplicate(t, n)
  /\ sPc' = [sPc EXCEPT ![t] = "aborted"]
  /\ toSender' = Sending(toSender, Error(t))
  /\ UNCHANGED received

\* The reply to a block fails, because an earlier one found the sender's port closed: the
\* `?` ends the task.
ReplyFails(t, n) ==
  /\ cPc \notin Open
  /\ IsExpected(t, n) => TooLarge(t) \/ should_ack(n)
  /\ sPc' = [sPc EXCEPT ![t] = "aborted"]
  /\ UNCHANGED <<received, toSender>>

RecvError(t) ==
  /\ sPc' = [sPc EXCEPT ![t] = "aborted"]
  /\ UNCHANGED <<received, toSender>>

\* One turn of the receive loop.
RecvData(t) ==
  /\ sPc[t] = "receiving"
  /\ \E i \in Arriving(toServer[t]) :
       LET n == toServer[t][i] IN
       /\ \/ n = 0 /\ RecvError(t)
          \/ /\ n > 0
             /\ \/ NextBlock(t, n) \/ DuplicateBlock(t, n) \/ OutOfOrder(t, n)
                \/ ReplyFails(t, n)
       /\ toServer' = [toServer EXCEPT ![t] =
                         IF sPc'[t] = "receiving" THEN RemoveAt(@, i) ELSE <<>>]
  /\ UNCHANGED <<fileVars, wrqs, senderVars, faultVars>>

\* Mutant of TimedOut: the loop goes on waiting.
WaitOn(t) == UNCHANGED <<sPc, toSender>>

\* ERROR to the sender, and the task ends; nothing is sent again.
TimedOut(t) ==
  /\ sPc' = [sPc EXCEPT ![t] = "aborted"]
  /\ toSender' = Sending(toSender, Error(t))

\* Mutant of DataTimeout: the timeout covers the write to disk as well.
TimeoutOverWrite(t) ==
  /\ sPc[t] \in {"receiving", "writing"}
  /\ LateTimers \/ (toServer[t] = <<>> /\ toSender = <<>>)
  /\ SenderFirst => cPc \notin Open \/ tid \notin {t, NoTid}
  /\ TimedOut(t)
  /\ toServer' = [toServer EXCEPT ![t] = <<>>]
  /\ UNCHANGED <<fileVars, wrqs, received, senderVars, faultVars>>

\* The receive times out, or fails because the sender's port is closed.
DataTimeout(t) ==
  /\ sPc[t] = "receiving"
  /\ LateTimers \/ (toServer[t] = <<>> /\ toSender = <<>>)
  /\ SenderFirst => cPc \notin Open \/ tid \notin {t, NoTid}
  /\ TimedOut(t)
  /\ toServer' = [toServer EXCEPT ![t] = <<>>]
  /\ UNCHANGED <<fileVars, wrqs, received, senderVars, faultVars>>

\* write_file_safely, after the last ACK, and the audit record of its outcome.
Store(t) ==
  /\ sPc[t] = "writing"
  /\ \/ /\ sPc' = [sPc EXCEPT ![t] = "stored"]
        /\ UNCHANGED toSender
     \/ /\ DiskFails
        /\ sPc' = [sPc EXCEPT ![t] = "unwritten"]
        /\ toSender' = Sending(toSender, Error(t))
  /\ UNCHANGED <<fileVars, wrqs, received, toServer, senderVars, faultVars>>

Server(t) == Accept(t) \/ RecvData(t) \/ DataTimeout(t) \/ Store(t)

---------------------------------------------------------------------------
(* The sender: RFC 1350 with the window of RFC 7440. *)

\* No datagram is late by the whole range of block numbers, so that datagrams overtake each
\* other only within a file that does not wrap.
Init ==
  /\ sender \in Senders
  /\ clientWindow \in ClientWindows
  /\ network \in Networks
  /\ lastBlock \in LastBlocks
  /\ network = "reordering" => lastBlock < BlockMod
  /\ allowed \in BOOLEAN
  /\ wrqs = 1
  /\ sPc = [t \in Tids |-> "idle"]
  /\ received = [t \in Tids |-> <<>>]
  /\ toServer = [t \in Tids |-> <<>>]
  /\ cPc = "asking"
  /\ tid = NoTid
  /\ base = 1
  /\ tries = 0
  /\ toSender = <<>>
  /\ lost = 0 /\ dups = 0

WindowEnd(b) == IF b + clientWindow - 1 < lastBlock THEN b + clientWindow - 1 ELSE lastBlock

\* The window that starts at b, sent to task t unless that has closed its socket.
SendWindow(t, b) ==
  toServer' = IF sPc[t] = "receiving"
              THEN [toServer EXCEPT ![t] = @ \o [i \in 1..(WindowEnd(b) - b + 1) |-> b + i - 1]]
              ELSE toServer

\* ACK 0 or OACK, once.
RecvReady ==
  \/ /\ cPc = "asking"
     /\ cPc' = "sending"
     /\ SendWindow(tid', 1)
     /\ UNCHANGED <<base, tries>>
  \/ /\ cPc = "sending"
     /\ UNCHANGED <<cPc, base, tries, toServer>>

\* An ACK of a block of the window starts the next window after it; others are ignored.
RecvAck(k) ==
  LET Acked == {i \in base..WindowEnd(base) : cPc = "sending" /\ BlockNum(i) = BlockNum(k)}
  IN \/ /\ lastBlock \in Acked
        /\ cPc' = "done"
        /\ UNCHANGED <<base, tries, toServer>>
     \/ \E i \in Acked \ {lastBlock} :
          /\ base' = i + 1
          /\ tries' = 0
          /\ SendWindow(tid', i + 1)
          /\ UNCHANGED cPc
     \/ /\ Acked = {}
        /\ UNCHANGED <<cPc, base, tries, toServer>>

SenderRecv ==
  /\ cPc \in Open
  /\ \E j \in Arriving(toSender) :
       LET p == toSender[j] IN
       /\ tid' = IF tid = NoTid THEN p.tid ELSE tid
       /\ \/ p.tid # tid' /\ UNCHANGED <<cPc, base, tries, toServer>>
          \/ p.tid = tid' /\ p.kind = "ready" /\ RecvReady
          \/ p.tid = tid' /\ p.kind = "ack" /\ RecvAck(p.num)
          \/ /\ p.tid = tid' /\ p.kind = "error"
             /\ cPc' = "failed"
             /\ UNCHANGED <<base, tries, toServer>>
       /\ toSender' = IF cPc' \in Open THEN RemoveAt(toSender, j) ELSE <<>>
  /\ UNCHANGED <<fileVars, wrqs, taskVars, faultVars>>

\* The window is sent again, or the sender gives up, with or without an ERROR.
SenderTimeout ==
  /\ cPc \in Open
  /\ LateTimers \/ (toSender = <<>> /\ wrqs = 0 /\ \A t \in Tids : toServer[t] = <<>>)
  /\ \/ /\ cPc = "sending" /\ tries + 1 < MaxRetries
        /\ tries' = tries + 1
        /\ SendWindow(tid, base)
        /\ UNCHANGED <<cPc, toSender>>
     \/ /\ cPc = "asking" \/ tries + 1 >= MaxRetries
        /\ cPc' = "failed"
        /\ toSender' = <<>>
        /\ \/ UNCHANGED toServer
           \/ /\ tid # NoTid /\ sPc[tid] = "receiving"
              /\ toServer' = [toServer EXCEPT ![tid] = Append(@, 0)]
        /\ UNCHANGED tries
  /\ UNCHANGED <<fileVars, wrqs, taskVars, tid, base, faultVars>>

Sender == SenderRecv \/ SenderTimeout

---------------------------------------------------------------------------
(* UDP. *)

Lose ==
  /\ lost < MaxLoss
  /\ lost' = lost + 1
  /\ \/ /\ wrqs > 0
        /\ wrqs' = wrqs - 1
        /\ UNCHANGED <<toServer, toSender>>
     \/ /\ \E i \in DOMAIN toSender : toSender' = RemoveAt(toSender, i)
        /\ UNCHANGED <<wrqs, toServer>>
     \/ /\ \E t \in Tids : \E i \in DOMAIN toServer[t] :
             toServer' = [toServer EXCEPT ![t] = RemoveAt(@, i)]
        /\ UNCHANGED <<wrqs, toSender>>
  /\ UNCHANGED <<fileVars, taskVars, senderVars, dups>>

Duplicate ==
  /\ dups < MaxDup
  /\ dups' = dups + 1
  /\ \/ /\ wrqs > 0
        /\ wrqs < Cardinality({t \in Tids : sPc[t] = "idle"})
        /\ wrqs' = wrqs + 1
        /\ UNCHANGED <<toServer, toSender>>
     \/ /\ \E i \in DOMAIN toSender : toSender' = InsertAt(toSender, i, toSender[i])
        /\ UNCHANGED <<wrqs, toServer>>
     \/ /\ \E t \in Tids : \E i \in DOMAIN toServer[t] :
             toServer' = [toServer EXCEPT ![t] = InsertAt(@, i, @[i])]
        /\ UNCHANGED <<wrqs, toSender>>
  /\ UNCHANGED <<fileVars, taskVars, senderVars, lost>>

---------------------------------------------------------------------------
Next == Sender \/ (\E t \in Tids : Server(t)) \/ Lose \/ Duplicate

Spec == Init /\ [][Next]_vars

\* The tokio runtime polls a ready task and fires a due timer, and so does the sender's
\* system; the network promises nothing.
Fairness == WF_vars(Sender) /\ \A t \in Tids : WF_vars(Server(t))

FairSpec == Spec /\ Fairness

---------------------------------------------------------------------------
(* Properties. *)

\* Every variable stays in its range; in particular received_data, which is kept in memory
\* until the final block, never holds more than max_file_size_bytes.
TypeOK ==
  /\ sender \in Senders /\ clientWindow \in ClientWindows /\ network \in Networks
  /\ lastBlock \in LastBlocks /\ allowed \in BOOLEAN
  /\ wrqs \in Nat
  /\ sPc \in [Tids -> {"idle", "receiving", "writing"} \cup Stopped]
  /\ received \in [Tids -> Seq(Nat)]
  /\ SizeLimit > 0 => \A t \in Tids : Len(received[t]) <= SizeLimit
  /\ toServer \in [Tids -> Seq(Nat)]
  /\ cPc \in Open \cup {"done", "failed"}
  /\ tid \in Tids \cup {NoTid}
  /\ base \in Nat \ {0}
  /\ tries \in 0..MaxRetries
  /\ toSender \in Seq(Packet)
  /\ lost \in Nat /\ dups \in Nat

\* received_data is always a prefix of the file, also past a wrap of the block number:
\* no lost, repeated or late block leaves a gap or enters twice.
ReceivedInOrder ==
  \A t \in Tids :
    /\ Len(received[t]) <= lastBlock
    /\ \A i \in DOMAIN received[t] : received[t][i] = i

Whole(t) == received[t] = [i \in 1..lastBlock |-> i]

\* What write_file_safely gets is the whole file: no transfer cut short by a timeout, an
\* ERROR, the size limit or an early final block reaches the disk.
OnlyWholeFilesStored ==
  \A t \in Tids : sPc[t] \in {"writing", "stored", "unwritten"} => Whole(t)

\* A sender that got the ACK of its final block was answered by a task that has the whole
\* file and is past the receive loop (with the write to disk still to come).
DoneMeansReceived ==
  cPc = "done" => tid # NoTid /\ sPc[tid] \in {"writing", "stored", "unwritten"} /\ Whole(tid)

\* The server's copy, as the sender's task has it, and what became of it.
ServersCopy == IF tid = NoTid THEN <<>> ELSE received[tid]

CopyOutcome ==
  IF tid = NoTid THEN "receiving"
  ELSE CASE sPc[tid] = "stored" -> "done"
         [] sPc[tid] \in {"refused", "aborted", "unwritten"} -> "failed"
         [] OTHER -> "receiving"

SenderDone == cPc = "done"

\* What the upload promises: the server's copy as FileDelivery's local file, the sender
\* as the party that is told of its completion.
Delivered == INSTANCE FileDelivery WITH
  local <- ServersCopy, outcome <- CopyOutcome, credited <- SenderDone

\* The write transfer implements FileDelivery: the server stores only the whole file, and
\* a sender is told of completion only when the server has the whole file.
ImplementsDelivery == Delivered!Spec

\* Neither side waits for ever, whatever the network loses.
Termination ==
  <>[](cPc \notin Open /\ \A t \in Tids : sPc[t] \notin {"receiving", "writing"})

\* An upload whose first block has arrived is stored as it was sent, also when its windows
\* no longer end where the server's do, after a wrap of the block number; unless a block or
\* an ACK of a larger window was lost, or write_file_safely fails.
UploadStored ==
  (\E t \in Tids : received[t] # <<>>) ~>
    \/ \E t \in Tids : sPc[t] \in {"stored", "unwritten"} /\ Whole(t)
    \/ clientWindow > 1 /\ lost > 0

\* The final ACK goes out before the file is on disk.  Of a sender that is told of completion
\* the file is stored, unless write_file_safely fails: no timer, ERROR or closed port comes
\* between.  When it fails, the sender does not hear of it.
DoneLeadsToStored ==
  (cPc = "done") ~> (\E t \in Tids : t = tid /\ sPc[t] \in {"stored", "unwritten"} /\ Whole(t))

---------------------------------------------------------------------------
(* The inductive invariant of WriteTransferProofs. *)

\* How far behind expected_block a block can be for the server to acknowledge it.
MaxBehind == IF BlockMod < 4 THEN 1 ELSE BlockMod \div 2 - 1

\* The file or the window is so small that no number in flight stands for two blocks, and
\* no block ahead of the expected one looks like one behind it: 32769 blocks for 16 bits.
NumbersFit ==
  \A n \in LastBlocks, w \in ClientWindows :
    n + MaxBehind <= BlockMod \/ w + MaxBehind <= BlockMod

Wraps == lastBlock >= BlockMod

Complete == {"writing", "stored", "unwritten"}

\* Only the task the sender talks to gets blocks, and it has left the receive loop well
\* exactly if it has all of them.
TaskOk(t) ==
  /\ Len(received[t]) <= lastBlock
  /\ \A i \in DOMAIN received[t] : received[t][i] = i
  /\ t # tid => received[t] = <<>> /\ toServer[t] = <<>>
  /\ t = tid => sPc[t] # "idle"
  /\ sPc[t] \in Complete <=> Len(received[t]) = lastBlock

\* The sender's window starts at most one block after what the task has received, and the
\* task has received nothing past it.
SenderOk ==
  /\ cPc = "asking" => tid = NoTid
  /\ cPc \in {"sending", "done"} => tid # NoTid
  /\ tid = NoTid => base = 1
  /\ base <= lastBlock
  /\ tid # NoTid => base <= Len(received[tid]) + 1 /\ Len(received[tid]) <= WindowEnd(base)
  /\ cPc = "done" => Len(received[tid]) = lastBlock

\* A block on its way is within the sender's window or before it; where numbers wrap, it
\* is less than a window behind what the task has received, and than what precedes it.
DataOk(t) ==
  /\ toServer[t] \in Seq({n \in 0..lastBlock :
       n > 0 => n <= WindowEnd(base) /\ (Wraps => Len(received[t]) < n + clientWindow)})
  /\ Wraps => \A i, j \in DOMAIN toServer[t] :
       i < j /\ toServer[t][j] > 0 => toServer[t][i] < toServer[t][j] + clientWindow

\* An ACK on its way names a block that the sender's task has received; where numbers wrap,
\* it is at most MaxBehind behind the sender's window, and behind what precedes it.
AcksOk ==
  /\ toSender \in Seq({p \in Packet :
       /\ sPc[p.tid] # "idle"
       /\ p.kind = "ack" => /\ p.tid = tid
                            /\ p.num \in 1..Len(received[tid])
                            /\ Wraps => base <= p.num + MaxBehind})
  /\ Wraps => \A i, j \in DOMAIN toSender :
       i < j /\ toSender[i].kind = "ack" /\ toSender[j].kind = "ack" =>
         toSender[i].num < toSender[j].num + MaxBehind

IInv ==
  /\ TypeOK
  /\ network = "reordering" => ~Wraps
  /\ \A t \in Tids : TaskOk(t) /\ DataOk(t)
  /\ SenderOk
  /\ AcksOk
=============================================================================
