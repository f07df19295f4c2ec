------------------------- MODULE ReadTransferProofs -------------------------
(***************************************************************************)
(* Proofs about ReadTransfer for every number of tasks, file size,         *)
(* windowsize, retry limit and number of network faults.                   *)
(*                                                                         *)
(* The types, and that one task alone is fed, need nothing more            *)
(* (AnySizeInv).  That the client's file is right needs either fewer       *)
(* blocks than there are block numbers (NoWrap and IInv; the run ReadWrap  *)
(* shows that an early timer is enough to break it otherwise) or, for a    *)
(* file of any size, a network that loses, repeats and delays nothing      *)
(* (QuietNetwork and QuietInv).                                            *)
(*                                                                         *)
(* The argument for IInv, which any network preserves: an ACK              *)
(* on its way names a written block and goes to server_tid only (AcksOk),  *)
(* so the ACK a task expects can only arrive once its window is written;   *)
(* a block on its way or in the buffer sits under its own number           *)
(* (PacketsOk, BufferOk), so the block the client expects is the next one. *)
(* TaskStep and ClientFrame say what a step of a task, and of the client,  *)
(* must establish for IInv to be preserved.                                *)
(*                                                                         *)
(* The argument for QuietInv: one task serves the client, and either       *)
(* exactly the blocks of its window that the client has not read are on    *)
(* their way, or exactly the ACK of the whole window.  Hence every block   *)
(* is the one expected, the number of blocks since the last ACK, which the *)
(* client counts modulo BlockMod, is less than BlockMod, and somebody      *)
(* always has something to receive before a timer is due.                  *)
(***************************************************************************)
EXTENDS ReadTransfer, SequenceTheorems, TLAPS

---------------------------------------------------------------------------
(* The sequences that model UDP. *)

\* A sequence over a set is a sequence over every larger set.
LEMMA SeqSuperset ==
  ASSUME NEW S, NEW T, S \subseteq T, NEW s \in Seq(S)
  PROVE  s \in Seq(T)
  OBVIOUS

\* The part of a channel before and after a datagram, and the datagram.
LEMMA ChannelParts ==
  ASSUME NEW S, NEW s \in Seq(S), NEW i \in DOMAIN s
  PROVE  /\ SubSeq(s, 1, i - 1) \in Seq(S) /\ SubSeq(s, i, Len(s)) \in Seq(S)
         /\ SubSeq(s, i + 1, Len(s)) \in Seq(S) /\ <<s[i]>> \in Seq(S)
<1>1. Len(s) \in Nat /\ i \in 1..Len(s) /\ \A j \in 1..Len(s) : s[j] \in S
  BY ElementOfSeq, LenProperties
<1>2. SubSeq(s, 1, i - 1) \in Seq(S)
  BY <1>1, SubSeqProperties
<1>3. SubSeq(s, i, Len(s)) \in Seq(S)
  BY <1>1, SubSeqProperties
<1>4. SubSeq(s, i + 1, Len(s)) \in Seq(S)
  BY <1>1, SubSeqProperties
<1>5. QED
  BY <1>1, <1>2, <1>3, <1>4

\* A channel that loses or delivers a datagram keeps its type.
LEMMA RemoveAtSeq ==
  ASSUME NEW S, NEW s \in Seq(S), NEW i \in DOMAIN s
  PROVE  RemoveAt(s, i) \in Seq(S)
  BY ChannelParts, ConcatProperties DEF RemoveAt

\* A channel in which a datagram is repeated keeps its type.
LEMMA InsertAtSeq ==
  ASSUME NEW S, NEW s \in Seq(S), NEW i \in DOMAIN s
  PROVE  InsertAt(s, i, s[i]) \in Seq(S)
<1>1. SubSeq(s, 1, i - 1) \o <<s[i]>> \in Seq(S)
  BY ChannelParts, ConcatProperties
<1>2. QED
  BY <1>1, ChannelParts, ConcatProperties DEF InsertAt

---------------------------------------------------------------------------
(* Block numbers. *)


\* A block number below BlockMod travels unchanged.
LEMMA BlockNumSmall ==
  ASSUME NEW i \in 0..(BlockMod - 1) PROVE BlockNum(i) = i
  BY ConstantAssumption DEF BlockNum

\* Block number BlockMod travels as 0.
LEMMA BlockNumWrap == BlockNum(BlockMod) = 0
  BY ConstantAssumption DEF BlockNum

---------------------------------------------------------------------------
(* What the server sends. *)

GoodPacket == {p \in Packet : p.blk <= lastBlock}

\* Windows cover the whole file, or all of it but the final block.
LEMMA LastWindowedRange ==
  ASSUME TypeOK, lastBlock > 0
  PROVE  /\ LastWindowed \in 1..lastBlock
         /\ LastWindowed >= lastBlock - 1
  BY ConstantAssumption DEF TypeOK, LastWindowed

\* Without a wrap, the blocks of the file and those written are below BlockMod.
LEMMA WrittenRange ==
  ASSUME NoWrap, TypeOK, Integrity
  PROVE  /\ lastBlock \in 0..(BlockMod - 1)
         /\ Len(written) \in 0..lastBlock
<1>1. lastBlock \in Nat /\ lastBlock < BlockMod
  BY ConstantAssumption DEF NoWrap, TypeOK
<1>2. Len(written) \in Nat /\ Len(written) <= lastBlock
  BY DEF TypeOK, Integrity
<1>3. QED
  BY <1>1, <1>2, ConstantAssumption

\* The window the server works with is never empty.
LEMMA WindowsizePositive ==
  ASSUME TypeOK PROVE windowsize \in Nat \ {0}
  BY ConstantAssumption DEF TypeOK, windowsize

\* A window ends at or after its first block and within the file.
LEMMA WindowEndRange ==
  ASSUME TypeOK, lastBlock > 0, NEW b \in 1..LastWindowed
  PROVE  WindowEnd(b) \in b..LastWindowed
<1>1. windowsize \in Nat \ {0}
  BY WindowsizePositive
<1>2. LastWindowed \in 1..lastBlock /\ lastBlock \in Nat
  BY LastWindowedRange, ConstantAssumption DEF TypeOK
<1>3. QED
  BY <1>1, <1>2 DEF WindowEnd

\* A window holds blocks of the file only.
LEMMA WindowPackets ==
  ASSUME TypeOK, lastBlock > 0, NEW t \in Tids, NEW b \in 1..LastWindowed
  PROVE  Window(t, b) \in Seq(GoodPacket)
<1>1. WindowEnd(b) \in b..LastWindowed /\ LastWindowed \in 1..lastBlock /\ lastBlock \in Nat
  BY WindowEndRange, LastWindowedRange, ConstantAssumption DEF TypeOK
<1> DEFINE n == WindowEnd(b) - b + 1
<1>2. n \in Nat
  BY <1>1
<1>3. ASSUME NEW i \in 1..n PROVE Data(t, b + i - 1) \in GoodPacket
  BY <1>1 DEF Data, GoodPacket, Packet
<1>4. QED
  BY <1>2, <1>3 DEF Window

\* An ERROR, an OACK and the separate final block are good datagrams.
LEMMA OnePacket ==
  ASSUME NEW t \in Tids, lastBlock \in Nat
  PROVE  /\ <<Error(t)>> \in Seq(GoodPacket)
         /\ <<Oack(t)>> \in Seq(GoodPacket)
         /\ lastBlock > 0 => <<Data(t, lastBlock)>> \in Seq(GoodPacket)
<1>1. Error(t) \in GoodPacket /\ Oack(t) \in GoodPacket
  BY DEF Error, Oack, GoodPacket, Packet
<1>2. lastBlock > 0 => Data(t, lastBlock) \in GoodPacket
  BY DEF Data, GoodPacket, Packet
<1>3. QED
  BY <1>1, <1>2

\* Sending good datagrams keeps the client's channel good.
LEMMA SendingOk ==
  ASSUME toClient \in Seq(GoodPacket), NEW pkts \in Seq(GoodPacket)
  PROVE  Sending(toClient, pkts) \in Seq(GoodPacket)
  BY ConcatProperties DEF Sending

---------------------------------------------------------------------------
(* What a step of task t does to the task itself and to the client's channel. *)

TaskStep(t) ==
  /\ sPc' = [sPc EXCEPT ![t] = sPc'[t]]
  /\ sPc'[t] \in {"idle"} \cup Waiting \cup Stopped
  /\ base' = [base EXCEPT ![t] = base'[t]]
  /\ base'[t] \in Nat \ {0}
  /\ tries' = [tries EXCEPT ![t] = tries'[t]]
  /\ tries'[t] \in 0..MaxRetries
  /\ toClient' \in Seq(GoodPacket)
  /\ TaskOk(t)'

\* Such a step preserves the invariant if it only takes ACKs out of the task's channel.
LEMMA ServerFrame ==
  ASSUME NoWrap, IInv, NEW t \in Tids,
         UNCHANGED <<fileVars, clientVars, faultVars>>, rrqs' \in Nat,
         TaskStep(t),
         NEW acks \in Seq({k \in 0..Len(written) : t = tid}),
         toServer' = [toServer EXCEPT ![t] = acks]
  PROVE  IInv'
<1>1. Len(written) \in 0..(BlockMod - 1) /\ lastBlock \in Nat
  BY WrittenRange, ConstantAssumption DEF IInv
<1>2. acks \in Seq(0..(BlockMod - 1))
  <2>1. {k \in 0..Len(written) : t = tid} \subseteq 0..(BlockMod - 1)
    BY <1>1, ConstantAssumption
  <2>2. QED
    BY <2>1, SeqSuperset
<1>3. toClient' \in Seq(Packet)
  BY SeqSuperset DEF GoodPacket, TaskStep
<1>4. TypeOK'
  BY <1>2, <1>3 DEF IInv, TypeOK, TaskStep, fileVars, clientVars, faultVars
<1>5. PacketsOk'
  BY DEF TaskStep, PacketsOk, GoodPacket, fileVars
<1>6. AcksOk'
  BY DEF IInv, TypeOK, AcksOk, clientVars
<1>7. ASSUME NEW u \in Tids PROVE TaskOk(u)'
  <2>1. CASE u = t
    BY <2>1 DEF TaskStep
  <2>2. CASE u # t
    <3>1. /\ sPc'[u] = sPc[u] /\ base'[u] = base[u] /\ tries'[u] = tries[u]
          /\ written' = written /\ tid' = tid /\ lastBlock' = lastBlock
          /\ EmptyFile' = EmptyFile /\ LastWindowed' = LastWindowed
      BY <2>2 DEF IInv, TypeOK, TaskStep, fileVars, clientVars, EmptyFile, LastWindowed
    <3>2. TaskOk(u)
      BY DEF IInv
    <3>3. QED
      BY <3>1, <3>2 DEF TaskOk
  <2>3. QED
    BY <2>1, <2>2
<1>8. Integrity' /\ BufferOk' /\ (cPc = "done" => lastBlock > 0 /\ Len(written) = lastBlock)'
  BY DEF IInv, Integrity, BufferOk, fileVars, clientVars
<1>9. QED
  BY <1>4, <1>5, <1>6, <1>7, <1>8 DEF IInv

\* Starting the data, from the RRQ or after the OACK's ACK, is a good step of the task.
LEMMA StartDataStep ==
  ASSUME IInv, NEW t \in Tids, lastBlock > 0, sPc[t] \in {"idle", "oack"},
         StartData(t), base' = base, UNCHANGED <<fileVars, clientVars>>
  PROVE  TaskStep(t)
<1>1. base[t] = 1 /\ 1 \in 1..LastWindowed
  BY LastWindowedRange, ConstantAssumption DEF IInv, TypeOK, TaskOk
<1>2. Window(t, 1) \in Seq(GoodPacket)
  BY <1>1, WindowPackets DEF IInv
<1>3. toClient' \in Seq(GoodPacket)
  BY <1>2, SendingOk DEF IInv, PacketsOk, GoodPacket, StartData
<1>4. TaskOk(t)
  BY DEF IInv
<1>5. TaskOk(t)'
  BY <1>1, <1>4, ConstantAssumption
     DEF IInv, TypeOK, TaskOk, StartData, fileVars, clientVars, EmptyFile, LastWindowed, Waiting
<1>6. QED
  BY <1>1, <1>3, <1>5, ConstantAssumption DEF IInv, TypeOK, TaskStep, StartData, Waiting

\* A failed wait, whether it repeats, sends the window again or gives up, is a good step.
LEMMA NoAckStep ==
  ASSUME IInv, NEW t \in Tids, NoAck(t), UNCHANGED <<fileVars, clientVars>>
  PROVE  TaskStep(t)
<1>1. TaskOk(t) /\ TypeOK
  BY DEF IInv
<1>2. EmptyFile' = EmptyFile /\ LastWindowed' = LastWindowed
  BY DEF fileVars, EmptyFile, LastWindowed
<1>3. sPc[t] \in Waiting /\ base' = base
  BY DEF NoAck, WaitAgain, ResendWindow, TailFails, Waiting
<1>4. toClient' \in Seq(GoodPacket)
  <2>1. CASE toClient' = toClient
    BY <2>1 DEF IInv, PacketsOk, GoodPacket
  <2>2. CASE sPc[t] = "window" /\ toClient' = Sending(toClient, Window(t, base[t]))
    <3>1. lastBlock > 0 /\ base[t] \in 1..LastWindowed
      BY <2>2, <1>1, LastWindowedRange, ConstantAssumption DEF TypeOK, TaskOk, Waiting
    <3>2. Window(t, base[t]) \in Seq(GoodPacket)
      BY <3>1, <1>1, WindowPackets
    <3>3. QED
      BY <2>2, <3>2, SendingOk DEF IInv, PacketsOk, GoodPacket
  <2>3. QED
    BY <2>1, <2>2 DEF NoAck, WaitAgain, ResendWindow, TailFails
<1>5. /\ sPc' = [sPc EXCEPT ![t] = sPc'[t]]
      /\ sPc'[t] \in {sPc[t], "aborted"}
      /\ tries' = [tries EXCEPT ![t] = tries'[t]]
      /\ tries'[t] \in 0..MaxRetries
      /\ sPc'[t] \in {"oack", "empty", "window"} => tries'[t] < MaxRetries
  <2>1. /\ sPc \in [Tids -> {"idle"} \cup Waiting \cup Stopped]
        /\ tries \in [Tids -> 0..MaxRetries] /\ MaxRetries \in Nat
        /\ sPc[t] \in {"oack", "empty", "window"} => tries[t] + 1 \in 0..MaxRetries
    <3>1. tries[t] \in 0..MaxRetries /\ MaxRetries \in Nat
      BY <1>1, ConstantAssumption DEF TypeOK
    <3>2. sPc[t] \in {"oack", "empty", "window"} => tries[t] < MaxRetries
      BY <1>1 DEF TaskOk
    <3>3. sPc[t] \in {"oack", "empty", "window"} => tries[t] + 1 \in 0..MaxRetries
      BY <3>1, <3>2
    <3>4. QED
      BY <1>1, <3>1, <3>3 DEF TypeOK
  <2>2. CASE WaitAgain(t)
    BY <2>1, <2>2 DEF WaitAgain
  <2>3. CASE ResendWindow(t)
    BY <2>1, <2>3 DEF ResendWindow
  <2>4. CASE TailFails(t)
    BY <2>1, <2>4 DEF TailFails
  <2>5. QED
    BY <2>2, <2>3, <2>4 DEF NoAck
<1>6. TaskOk(t)'
  BY <1>1, <1>2, <1>3, <1>5 DEF TaskOk, Waiting, fileVars, clientVars
<1>7. QED
  BY <1>1, <1>3, <1>4, <1>5, <1>6 DEF TypeOK, TaskStep, Waiting, Stopped

\* The end of main.rs's wait for the final block's ACK is a good step.
LEMMA TailAckedStep ==
  ASSUME IInv, NEW t \in Tids, t = tid, TailAcked(t), UNCHANGED <<fileVars, clientVars>>
  PROVE  TaskStep(t)
<1>1. TaskOk(t) /\ TypeOK
  BY DEF IInv
<1>2. toClient' \in Seq(GoodPacket)
  BY DEF TailAcked, IInv, PacketsOk, GoodPacket
<1>3. sPc' = [sPc EXCEPT ![t] = "closed"] /\ base' = base /\ tries' = tries /\ sPc[t] = "tail"
  BY DEF TailAcked
<1>4. TaskOk(t)'
  BY <1>1, <1>3 DEF TypeOK, TaskOk, Waiting, fileVars, clientVars
<1>5. QED
  BY <1>1, <1>2, <1>3, <1>4 DEF TypeOK, TaskStep, Stopped

\* The block whose ACK ends a window is written: its number, below BlockMod, is itself.
LEMMA AckedBlock ==
  ASSUME NoWrap, IInv, NEW t \in Tids, NEW k \in 0..Len(written), k = Expected(t)
  PROVE  /\ sPc[t] = "empty" => Len(written) = lastBlock
         /\ sPc[t] = "window" => /\ WindowEnd(base[t]) \in base[t]..LastWindowed
                                 /\ LastWindowed \in 1..lastBlock
                                 /\ WindowEnd(base[t]) <= Len(written)
<1>1. TaskOk(t) /\ TypeOK /\ Integrity
  BY DEF IInv
<1>2. lastBlock \in 0..(BlockMod - 1) /\ Len(written) \in 0..lastBlock
  BY <1>1, WrittenRange
<1>3. CASE sPc[t] = "empty"
  <2>1. lastBlock = 1
    BY <1>1, <1>3 DEF TaskOk, EmptyFile
  <2>2. Expected(t) = 1
    BY <1>3 DEF Expected
  <2>3. QED
    BY <1>2, <1>3, <2>1, <2>2
<1>4. CASE sPc[t] = "window"
  <2>1. lastBlock > 0 /\ base[t] \in 1..LastWindowed
    BY <1>1, <1>2, <1>4, LastWindowedRange, ConstantAssumption DEF TaskOk, TypeOK, Waiting
  <2>2. LastWindowed \in 1..lastBlock
    BY <1>1, <2>1, LastWindowedRange
  <2>3. WindowEnd(base[t]) \in base[t]..LastWindowed
    BY <1>1, <2>1, WindowEndRange
  <2>4. WindowEnd(base[t]) \in 0..(BlockMod - 1)
    BY <2>1, <2>2, <2>3, <1>2, ConstantAssumption
  <2>5. Expected(t) = WindowEnd(base[t])
    BY <1>4, <2>4, BlockNumSmall DEF Expected
  <2>6. QED
    BY <1>4, <2>2, <2>3, <2>5, <1>2
<1>5. QED
  BY <1>3, <1>4

\* Receiving the expected ACK is a good step: the blocks it stands for are written.
LEMMA AckedStep ==
  ASSUME NoWrap, IInv, NEW t \in Tids, t = tid, NEW k \in 0..Len(written), k = Expected(t),
         OackAcked(t) \/ EmptyAcked(t) \/ WindowAcked(t) \/ TailAcked(t),
         UNCHANGED <<fileVars, clientVars>>
  PROVE  TaskStep(t)
<1>1. TaskOk(t) /\ TypeOK /\ Integrity
  BY DEF IInv
<1>2. lastBlock \in 0..(BlockMod - 1) /\ Len(written) \in 0..lastBlock
  BY <1>1, WrittenRange
<1>3. EmptyFile' = EmptyFile /\ LastWindowed' = LastWindowed
  BY DEF fileVars, EmptyFile, LastWindowed
<1>4. toClient \in Seq(GoodPacket)
  BY DEF IInv, PacketsOk, GoodPacket
<1>5. CASE OackAcked(t)
  <2>1. lastBlock > 0 /\ sPc[t] = "oack" /\ base' = base /\ StartData(t)
    BY <1>1, <1>5 DEF OackAcked, TaskOk, Waiting
  <2>2. QED
    BY <2>1, StartDataStep
<1>6. CASE EmptyAcked(t)
  <2>1. /\ sPc' = [sPc EXCEPT ![t] = "completed"] /\ base' = base /\ tries' = tries
        /\ toClient' = toClient /\ sPc[t] = "empty"
    BY <1>6 DEF EmptyAcked
  <2>2. Len(written) = lastBlock /\ lastBlock > 0
    BY <1>1, <1>2, <2>1, AckedBlock DEF TaskOk, Waiting
  <2>3. TaskOk(t)'
    BY <1>1, <2>1, <2>2 DEF TypeOK, TaskOk, Waiting, fileVars, clientVars
  <2>4. QED
    BY <1>1, <1>4, <2>1, <2>3 DEF TypeOK, TaskStep, Stopped
<1>7. CASE WindowAcked(t)
  <2> DEFINE end == WindowEnd(base[t])
  <2>1. /\ sPc[t] = "window" /\ lastBlock > 0
        /\ end \in base[t]..LastWindowed /\ LastWindowed \in 1..lastBlock
        /\ end <= Len(written) /\ base[t] \in Nat \ {0}
        /\ LastWindowed >= lastBlock - 1
    BY <1>1, <1>2, <1>7, AckedBlock, LastWindowedRange DEF WindowAcked, TaskOk, Waiting, TypeOK
  <2>2. CASE end = lastBlock /\ sPc' = [sPc EXCEPT ![t] = "completed"]
             /\ UNCHANGED <<base, tries, toClient>>
    <3>1. Len(written) = lastBlock
      BY <2>1, <2>2, <1>2
    <3>2. TaskOk(t)'
      BY <1>1, <2>1, <2>2, <3>1 DEF TypeOK, TaskOk, Waiting, fileVars, clientVars
    <3>3. QED
      BY <1>1, <1>4, <2>2, <3>2 DEF TypeOK, TaskStep, Stopped
  <2>3. CASE end = LastWindowed /\ end < lastBlock /\ sPc' = [sPc EXCEPT ![t] = "tail"]
             /\ toClient' = Sending(toClient, <<Data(t, lastBlock)>>)
             /\ UNCHANGED <<base, tries>>
    <3>1. Len(written) >= lastBlock - 1
      BY <2>1, <2>3, <1>2
    <3>2. TaskOk(t)'
      BY <1>1, <2>1, <2>3, <3>1 DEF TypeOK, TaskOk, Waiting, fileVars, clientVars
    <3>3. toClient' \in Seq(GoodPacket)
      <4>1. lastBlock \in Nat
        BY <1>2, ConstantAssumption
      <4>2. <<Data(t, lastBlock)>> \in Seq(GoodPacket)
        BY <2>1, <4>1, OnePacket
      <4>3. QED
        BY <1>4, <2>3, <4>2, SendingOk
    <3>4. QED
      BY <1>1, <2>3, <3>2, <3>3 DEF TypeOK, TaskStep, Waiting
  <2>4. CASE end < LastWindowed /\ base' = [base EXCEPT ![t] = end + 1]
             /\ tries' = [tries EXCEPT ![t] = 0]
             /\ toClient' = Sending(toClient, Window(t, end + 1))
             /\ UNCHANGED sPc
    <3>1. end + 1 \in 1..LastWindowed /\ end + 1 <= Len(written) + 1
      BY <2>1, <2>4, <1>2
    <3>2. TaskOk(t)'
      BY <1>1, <1>3, <2>1, <2>4, <3>1, ConstantAssumption
         DEF TypeOK, TaskOk, Waiting, fileVars, clientVars
    <3>3. toClient' \in Seq(GoodPacket)
      BY <1>1, <1>4, <2>1, <2>4, <3>1, WindowPackets, SendingOk
    <3>4. sPc'[t] = "window" /\ sPc' = [sPc EXCEPT ![t] = sPc'[t]]
      BY <1>1, <2>1, <2>4 DEF TypeOK
    <3>5. end + 1 \in Nat \ {0} /\ 0 \in 0..MaxRetries
      BY <2>1, <3>1, ConstantAssumption
    <3> HIDE DEF end
    <3>6. /\ base'[t] = end + 1 /\ base' = [base EXCEPT ![t] = base'[t]]
          /\ tries'[t] = 0 /\ tries' = [tries EXCEPT ![t] = tries'[t]]
      BY <1>1, <2>4 DEF TypeOK
    <3>7. QED
      BY <3>2, <3>3, <3>4, <3>5, <3>6 DEF TaskStep, Waiting
  <2>5. QED
    BY <1>7, <2>2, <2>3, <2>4 DEF WindowAcked
<1>8. CASE TailAcked(t)
  BY <1>8, TailAckedStep
<1>9. QED
  BY <1>5, <1>6, <1>7, <1>8

---------------------------------------------------------------------------
(* The server's actions preserve the invariant. *)

\* handle_read_request, up to its first wait.
LEMMA AcceptInv ==
  ASSUME NoWrap, IInv, NEW t \in Tids, Accept(t)
  PROVE  IInv'
<1>1. TaskOk(t) /\ TypeOK /\ toClient \in Seq(GoodPacket) /\ lastBlock \in Nat
  BY ConstantAssumption DEF IInv, PacketsOk, GoodPacket, TypeOK
<1>2. /\ rrqs' \in Nat /\ sPc[t] = "idle" /\ base' = base
      /\ UNCHANGED <<fileVars, clientVars, faultVars, toServer>>
  BY <1>1 DEF Accept, TypeOK
<1>3. TaskStep(t)
  <2>1. CASE lastBlock = 0 /\ sPc' = [sPc EXCEPT ![t] = "refused"] /\ UNCHANGED tries
             /\ toClient' = Sending(toClient, <<Error(t)>>)
    <3>1. toClient' \in Seq(GoodPacket)
      BY <1>1, <2>1, OnePacket, SendingOk
    <3>2. TaskOk(t)'
      BY <1>1, <1>2, <2>1 DEF TypeOK, TaskOk, Waiting, fileVars, clientVars
    <3>3. QED
      BY <1>1, <1>2, <2>1, <3>1, <3>2 DEF TypeOK, TaskStep, Stopped
  <2>2. CASE lastBlock > 0 /\ sPc' = [sPc EXCEPT ![t] = "oack"] /\ UNCHANGED tries
             /\ toClient' = Sending(toClient, <<Oack(t)>>)
    <3>1. toClient' \in Seq(GoodPacket)
      BY <1>1, <2>2, OnePacket, SendingOk
    <3>2. TaskOk(t)'
      BY <1>1, <1>2, <2>2 DEF TypeOK, TaskOk, Waiting, fileVars, clientVars
    <3>3. QED
      BY <1>1, <1>2, <2>2, <3>1, <3>2 DEF TypeOK, TaskStep, Waiting
  <2>3. CASE lastBlock > 0 /\ StartData(t)
    BY <1>2, <2>3, StartDataStep
  <2>4. QED
    BY <2>1, <2>2, <2>3 DEF Accept
<1>4. toServer[t] \in Seq({k \in 0..Len(written) : t = tid}) /\ toServer' = [toServer EXCEPT ![t] = toServer[t]]
  BY <1>1, <1>2 DEF IInv, AcksOk, TypeOK
<1>5. QED
  BY <1>2, <1>3, <1>4, ServerFrame

\* A task receives an ACK.
LEMMA RecvAckInv ==
  ASSUME NoWrap, IInv, NEW t \in Tids, RecvAck(t)
  PROVE  IInv'
<1> DEFINE Acks == {k \in 0..Len(written) : t = tid}
<1>1. TypeOK /\ toServer[t] \in Seq(Acks)
  BY DEF IInv, AcksOk
<1>2. UNCHANGED <<fileVars, clientVars, faultVars>> /\ rrqs' \in Nat
  BY <1>1 DEF RecvAck, TypeOK
<1>3. PICK i \in Arriving(toServer[t]) :
        LET k == toServer[t][i] IN
        /\ \/ /\ IsExpectedAck(t, k)
              /\ OackAcked(t) \/ EmptyAcked(t) \/ WindowAcked(t) \/ TailAcked(t)
           \/ /\ ~IsExpectedAck(t, k)
              /\ IF sPc[t] = "tail" /\ IsDuplicateAck(t, k) THEN TailAcked(t) ELSE NoAck(t)
        /\ toServer' = [toServer EXCEPT ![t] =
                          IF sPc'[t] \in Stopped THEN <<>> ELSE RemoveAt(@, i)]
  BY DEF RecvAck
<1>4. i \in DOMAIN toServer[t]
  BY DEF Arriving
<1>5. toServer[t][i] \in Acks
  BY <1>1, <1>4, ElementOfSeq
<1>6. t = tid
  BY <1>5
<1>7. TaskStep(t)
  <2>1. CASE toServer[t][i] = Expected(t)
             /\ (OackAcked(t) \/ EmptyAcked(t) \/ WindowAcked(t) \/ TailAcked(t))
    BY <2>1, <1>2, <1>5, <1>6, AckedStep
  <2>2. CASE TailAcked(t)
    BY <2>2, <1>2, <1>6, TailAckedStep
  <2>3. CASE NoAck(t)
    BY <2>3, <1>2, NoAckStep
  <2>4. QED
    BY <1>3, <2>1, <2>2, <2>3 DEF IsExpectedAck
<1> DEFINE acks == IF sPc'[t] \in Stopped THEN <<>> ELSE RemoveAt(toServer[t], i)
<1>8. acks \in Seq(Acks)
  BY <1>1, <1>4, RemoveAtSeq
<1>9. toServer' = [toServer EXCEPT ![t] = acks]
  BY <1>1, <1>3 DEF TypeOK
<1> HIDE DEF acks
<1>10. QED
  BY <1>2, <1>7, <1>8, <1>9, ServerFrame

\* A task's wait for an ACK fails.
LEMMA AckTimeoutInv ==
  ASSUME NoWrap, IInv, NEW t \in Tids, AckTimeout(t)
  PROVE  IInv'
<1>1. TypeOK /\ toServer[t] \in Seq({k \in 0..Len(written) : t = tid})
  BY DEF IInv, AcksOk
<1>2. UNCHANGED <<fileVars, clientVars, faultVars>> /\ rrqs' \in Nat
  BY <1>1 DEF AckTimeout, TypeOK
<1>3. TaskStep(t)
  BY <1>2, NoAckStep DEF AckTimeout
<1>4. CASE toServer' = [toServer EXCEPT ![t] = <<>>]
  <2>1. <<>> \in Seq({k \in 0..Len(written) : t = tid})
    OBVIOUS
  <2>2. QED
    BY <1>2, <1>3, <1>4, <2>1, ServerFrame
<1>5. CASE toServer' = toServer
  <2>1. toServer' = [toServer EXCEPT ![t] = toServer[t]]
    BY <1>1, <1>5 DEF TypeOK
  <2>2. QED
    BY <1>1, <1>2, <1>3, <2>1, ServerFrame
<1>6. QED
  BY <1>4, <1>5 DEF AckTimeout

---------------------------------------------------------------------------
(* The client's actions preserve the invariant. *)

\* ACKs of written blocks sent to server_tid keep the ACK channels good.
LEMMA AckingOk ==
  ASSUME NoWrap, IInv, tid' \in Tids, tid \in Tids => tid' = tid,
         NEW m \in 0..lastBlock, Len(written) <= m,
         NEW k \in 0..m,
         toServer' = toServer \/ toServer' = Acking(tid', k)
  PROVE  /\ toServer' \in [Tids -> Seq(0..(BlockMod - 1))]
         /\ \A u \in Tids : toServer'[u] \in Seq({j \in 0..m : u = tid'})
<1>1. TypeOK /\ Integrity /\ AcksOk
  BY DEF IInv
<1>2. lastBlock \in 0..(BlockMod - 1) /\ Len(written) \in 0..lastBlock
  BY <1>1, WrittenRange
<1>3. k \in 0..(BlockMod - 1)
  BY <1>2, ConstantAssumption
<1>4. ASSUME NEW u \in Tids PROVE toServer[u] \in Seq({j \in 0..m : u = tid'})
  <2>1. {j \in 0..Len(written) : u = tid} \subseteq {j \in 0..m : u = tid'}
    BY <1>2, ConstantAssumption
  <2>2. QED
    BY <1>1, <2>1, SeqSuperset DEF AcksOk
<1>5. CASE toServer' = toServer
  BY <1>1, <1>4, <1>5 DEF TypeOK
<1>6. CASE toServer' = [toServer EXCEPT ![tid'] = Append(@, k)]
  <2>1. toServer'[tid'] = Append(toServer[tid'], k)
    BY <1>1, <1>6 DEF TypeOK
  <2>2. Append(toServer[tid'], k) \in Seq(0..(BlockMod - 1))
    BY <1>1, <1>3 DEF TypeOK
  <2>3. Append(toServer[tid'], k) \in Seq({j \in 0..m : tid' = tid'})
    BY <1>4
  <2>4. QED
    BY <1>1, <1>4, <1>6, <2>1, <2>2, <2>3 DEF TypeOK
<1>7. QED
  BY <1>5, <1>6 DEF Acking

\* A step of the client preserves the invariant if it extends the local file by the
\* blocks that follow, acknowledges only written blocks and keeps the buffer good.
LEMMA ClientFrame ==
  ASSUME NoWrap, IInv, UNCHANGED <<fileVars, rrqs, serverVars, faultVars>>,
         tid' \in Tids, tid \in Tids => tid' = tid,
         cPc' \in {"receiving", "done", "failed"},
         cPc' = "done" => lastBlock > 0 /\ Len(written') = lastBlock,
         written' \in Seq(Nat), Len(written') \in Len(written)..lastBlock,
         \A i \in DOMAIN written' : written'[i] = i,
         buffer' \in [0..(BlockMod - 1) -> Nat], BufferOk',
         lastAck' \in 0..Len(written'),
         NEW k \in 0..Len(written'),
         toServer' = toServer \/ toServer' = Acking(tid', k),
         toClient' \in Seq(GoodPacket)
  PROVE  IInv'
<1>1. TypeOK /\ Integrity
  BY DEF IInv
<1>2. lastBlock \in 0..(BlockMod - 1) /\ Len(written) \in 0..lastBlock
  BY <1>1, WrittenRange
<1>3. Len(written') \in 0..lastBlock /\ Len(written) <= Len(written')
  BY <1>2, ConstantAssumption
<1>4. /\ toServer' \in [Tids -> Seq(0..(BlockMod - 1))]
      /\ \A u \in Tids : toServer'[u] \in Seq({j \in 0..Len(written') : u = tid'})
  BY <1>3, AckingOk
<1>5. lastAck' \in 0..(BlockMod - 1)
  BY <1>2, <1>3, ConstantAssumption
<1>6. toClient' \in Seq(Packet)
  BY SeqSuperset DEF GoodPacket
<1>7. TypeOK'
  BY <1>1, <1>4, <1>5, <1>6 DEF TypeOK, fileVars, serverVars, faultVars
<1>8. Integrity'
  BY <1>3 DEF Integrity, fileVars
<1>9. PacketsOk'
  BY DEF PacketsOk, GoodPacket, fileVars
<1>10. AcksOk'
  BY <1>3, <1>4, <1>2, ConstantAssumption DEF AcksOk
<1>11. ASSUME NEW u \in Tids PROVE TaskOk(u)'
  <2>1. TaskOk(u) /\ base[u] \in Nat /\ u # NoTid
    BY <1>1, ConstantAssumption DEF IInv, TypeOK
  <2>2. u # tid' => u # tid
    BY <1>1 DEF TypeOK
  <2>3. /\ sPc' = sPc /\ base' = base /\ tries' = tries /\ lastBlock' = lastBlock
        /\ EmptyFile' = EmptyFile /\ LastWindowed' = LastWindowed
    BY DEF fileVars, serverVars, EmptyFile, LastWindowed
  <2>4. QED
    BY <1>2, <1>3, <2>1, <2>2, <2>3, ConstantAssumption DEF TaskOk
<1>12. QED
  BY <1>7, <1>8, <1>9, <1>10, <1>11 DEF IInv, fileVars

\* The block that is expected next is the one after those written, and what is drained
\* from the buffer continues the file.
LEMMA NextBlockIsNext ==
  ASSUME NoWrap, IInv, NEW p \in GoodPacket, p.kind = "data", IsExpected(p),
         NEW k \in 0..BlockMod, InSequence(Len(written) + 1, k)
  PROVE  /\ p.blk = Len(written) + 1
         /\ Len(written) + 1 + k <= lastBlock
         /\ \A j \in 1..k : buffer[ExpectedBlock(Len(written) + 1 + j - 1)] = Len(written) + 1 + j
<1> DEFINE n == Len(written) + 1
<1>1. TypeOK /\ Integrity /\ BufferOk
  BY DEF IInv
<1>2. lastBlock \in 0..(BlockMod - 1) /\ Len(written) \in 0..lastBlock
  BY <1>1, WrittenRange
<1>3. p.blk \in 1..lastBlock
  BY <1>2, ConstantAssumption DEF GoodPacket, Packet
<1>4. BlockNum(p.blk) = p.blk
  BY <1>2, <1>3, BlockNumSmall, ConstantAssumption
<1>5. p.blk = n
  <2>1. p.blk = BlockNum(n)
    BY <1>4 DEF IsExpected, ExpectedBlock
  <2>2. n # BlockMod
    BY <1>3, <2>1, BlockNumWrap, ConstantAssumption
  <2>3. n \in 0..(BlockMod - 1)
    BY <1>2, <2>2, ConstantAssumption
  <2>4. QED
    BY <2>1, <2>3, BlockNumSmall
<1>6. \A j \in 0..(k - 1) : buffer[BlockNum(n + j + 1)] # 0
  BY DEF InSequence, ExpectedBlock
<1>7. n + k <= lastBlock
  <2>1. SUFFICES ASSUME n + k > lastBlock PROVE FALSE
    BY <1>2, ConstantAssumption
  <2>2. lastBlock - n \in 0..(k - 1)
    BY <1>2, <1>3, <1>5, <2>1, ConstantAssumption
  <2>3. buffer[BlockNum(n + (lastBlock - n) + 1)] # 0
    BY <1>6, <2>2
  <2>4. n + (lastBlock - n) + 1 = lastBlock + 1
    BY <1>2, ConstantAssumption
  <2>5. CASE lastBlock + 1 = BlockMod
    <3>1. buffer[0] # 0
      BY <2>3, <2>4, <2>5, BlockNumWrap
    <3>2. QED
      BY <1>1, <3>1, ConstantAssumption DEF BufferOk
  <2>6. CASE lastBlock + 1 # BlockMod
    <3>1. lastBlock + 1 \in 0..(BlockMod - 1)
      BY <1>2, <2>6, ConstantAssumption
    <3>2. buffer[lastBlock + 1] # 0
      BY <2>3, <2>4, <3>1, BlockNumSmall
    <3>3. QED
      BY <1>1, <1>2, <3>1, <3>2, ConstantAssumption DEF BufferOk
  <2>7. QED
    BY <2>5, <2>6
<1>8. ASSUME NEW j \in 1..k PROVE buffer[ExpectedBlock(n + j - 1)] = n + j
  <2>1. n + j \in 0..(BlockMod - 1) /\ j - 1 \in 0..(k - 1) /\ n + (j - 1) + 1 = n + j
    BY <1>2, <1>7, ConstantAssumption
  <2>2. BlockNum(n + j) = n + j
    BY <2>1, BlockNumSmall
  <2>3. buffer[n + j] # 0
    BY <1>6, <2>1, <2>2
  <2>4. buffer[n + j] = n + j
    BY <1>1, <2>1, <2>3 DEF BufferOk
  <2>5. n + j - 1 + 1 = n + j
    BY <1>2, ConstantAssumption
  <2>6. QED
    BY <2>2, <2>4, <2>5 DEF ExpectedBlock
<1>9. QED
  BY <1>5, <1>7, <1>8

\* The first n blocks of a file followed by the next k are its first n + k blocks.
LEMMA ConcatBlocks ==
  ASSUME NEW s \in Seq(Nat), NEW d \in Seq(Nat), NEW n \in Nat, NEW k \in Nat,
         Len(s) = n, \A i \in 1..n : s[i] = i,
         Len(d) = k, \A i \in 1..k : d[i] = n + i
  PROVE  /\ s \o d \in Seq(Nat) /\ Len(s \o d) = n + k
         /\ \A i \in DOMAIN (s \o d) : (s \o d)[i] = i
<1>1. s \o d \in Seq(Nat) /\ Len(s \o d) = n + k
  BY ConcatProperties
<1>2. ASSUME NEW i \in 1..(n + k) PROVE (s \o d)[i] = i
  <2>1. CASE i <= n
    BY <2>1, ConcatProperties
  <2>2. CASE i > n
    <3>1. i - n \in 1..k /\ (s \o d)[i] = d[i - n]
      BY <2>2, ConcatProperties
    <3>2. QED
      BY <3>1
  <2>3. QED
    BY <2>1, <2>2
<1>3. QED
  BY <1>1, <1>2

\* Writing the expected block and what the buffer holds after it.
LEMMA NextBlockInv ==
  ASSUME NoWrap, IInv, UNCHANGED <<fileVars, rrqs, serverVars, faultVars>>,
         tid' \in Tids, tid \in Tids => tid' = tid, cPc = "receiving",
         NEW p \in GoodPacket, p.kind = "data", NextBlock(p),
         toClient' \in Seq(GoodPacket)
  PROVE  IInv'
<1> DEFINE n == Len(written) + 1
<1>1. PICK k \in 0..BlockMod :
        LET ackNum == BlockNum(n + k) IN
        /\ InSequence(n, k)
        /\ written' = Append(written, p.blk)
                      \o [j \in 1..k |-> buffer[ExpectedBlock(n + j - 1)]]
        /\ buffer' = [w \in 0..(BlockMod - 1) |->
                        IF \E j \in 0..(k - 1) : w = ExpectedBlock(n + j) THEN 0 ELSE buffer[w]]
        /\ lastAck' = IF AckDue(p, ackNum) THEN ackNum ELSE lastAck
        /\ toServer' = IF AckDue(p, ackNum) THEN Acking(tid', ackNum) ELSE toServer
  BY DEF NextBlock
<1>2. TypeOK /\ Integrity /\ BufferOk /\ AcksOk
  BY DEF IInv
<1>3. lastBlock \in 0..(BlockMod - 1) /\ Len(written) \in 0..lastBlock
  BY <1>2, WrittenRange
<1>4. /\ p.blk = n /\ n + k <= lastBlock
      /\ \A j \in 1..k : buffer[ExpectedBlock(n + j - 1)] = n + j
  BY <1>1, NextBlockIsNext DEF NextBlock
<1>5. n \in Nat /\ k \in Nat /\ n + k \in 0..(BlockMod - 1)
  BY <1>3, <1>4, ConstantAssumption
<1>6. /\ written' \in Seq(Nat) /\ Len(written') = n + k
      /\ \A i \in DOMAIN written' : written'[i] = i
  <2> DEFINE first == Append(written, p.blk)
             drained == [j \in 1..k |-> buffer[ExpectedBlock(n + j - 1)]]
  <2>1. first \in Seq(Nat) /\ Len(first) = n /\ \A i \in 1..n : first[i] = i
    BY <1>2, <1>4, <1>5 DEF TypeOK, Integrity
  <2>2. drained \in Seq(Nat) /\ Len(drained) = k /\ \A i \in 1..k : drained[i] = n + i
    <3>1. ASSUME NEW j \in 1..k
          PROVE  buffer[ExpectedBlock(n + j - 1)] = n + j /\ n + j \in Nat
      <4>1. buffer[ExpectedBlock(n + j - 1)] = n + j
        BY <1>4
      <4>2. n + j \in Nat
        BY <1>5
      <4>3. QED
        BY <4>1, <4>2
    <3>2. \A j \in 1..k : buffer[ExpectedBlock(n + j - 1)] \in Nat
      BY <3>1
    <3>3. drained \in Seq(Nat) /\ Len(drained) = k
      BY <1>5, <3>2
    <3>4. QED
      BY <3>1, <3>3
  <2>3. written' = first \o drained
    BY <1>1
  <2> HIDE DEF first, drained
  <2>4. QED
    BY <1>5, <2>1, <2>2, <2>3, ConcatBlocks
<1>7. Len(written') \in Len(written)..lastBlock
  BY <1>3, <1>4, <1>5, <1>6
<1>8. buffer' \in [0..(BlockMod - 1) -> Nat] /\ BufferOk'
  BY <1>1, <1>2 DEF TypeOK, BufferOk, fileVars
<1>9. BlockNum(n + k) = n + k
  BY <1>5, BlockNumSmall
<1>10. lastAck' \in 0..Len(written')
  BY <1>1, <1>2, <1>5, <1>6, <1>9 DEF AcksOk, TypeOK
<1>11. toServer' = toServer \/ toServer' = Acking(tid', n + k)
  BY <1>1, <1>9
<1>12. n + k \in 0..Len(written')
  BY <1>5, <1>6
<1>13. cPc' \in {"receiving", "done"} /\ (cPc' = "done" => p.blk = lastBlock)
  BY DEF NextBlock, IsFinal
<1>14. cPc' = "done" => lastBlock > 0 /\ Len(written') = lastBlock
  BY <1>3, <1>4, <1>5, <1>6, <1>13
<1>15. QED
  BY <1>6, <1>7, <1>8, <1>10, <1>11, <1>12, <1>13, <1>14, ClientFrame

\* The client receives a datagram.
LEMMA ClientRecvInv ==
  ASSUME NoWrap, IInv, ClientRecv
  PROVE  IInv'
<1>1. TypeOK /\ Integrity /\ BufferOk /\ AcksOk /\ toClient \in Seq(GoodPacket)
  BY DEF IInv, PacketsOk, GoodPacket
<1>2. lastBlock \in 0..(BlockMod - 1) /\ Len(written) \in 0..lastBlock
  BY <1>1, WrittenRange
<1>3. UNCHANGED <<fileVars, rrqs, serverVars, faultVars>> /\ cPc = "receiving"
  BY DEF ClientRecv
<1>4. PICK i \in Arriving(toClient) :
        LET p == toClient[i] IN
        /\ tid' = ServerTid(p)
        /\ \/ /\ p.tid # tid'
              /\ UNCHANGED <<cPc, written, buffer, lastAck, toServer>>
           \/ /\ p.tid = tid' /\ p.kind = "data"
              /\ OldBlock(p) \/ FutureBlock(p) \/ NextBlock(p)
           \/ /\ p.tid = tid' /\ p.kind = "oack"
              /\ RecvOack
           \/ /\ p.tid = tid' /\ p.kind = "error"
              /\ RecvError
        /\ toClient' = IF cPc' = "receiving" THEN RemoveAt(toClient, i) ELSE <<>>
  BY DEF ClientRecv
<1> DEFINE p == toClient[i]
<1>5. i \in DOMAIN toClient
  BY DEF Arriving
<1>6. p \in GoodPacket
  BY <1>1, <1>5, ElementOfSeq
<1>7. p.tid \in Tids /\ p.blk \in 0..lastBlock
  BY <1>2, <1>6, ConstantAssumption DEF GoodPacket, Packet
<1>8. tid' \in Tids /\ (tid \in Tids => tid' = tid)
  BY <1>1, <1>4, <1>7, ConstantAssumption DEF ServerTid, TypeOK
<1>9. toClient' \in Seq(GoodPacket)
  <2>1. RemoveAt(toClient, i) \in Seq(GoodPacket)
    BY <1>1, <1>5, RemoveAtSeq
  <2>2. QED
    BY <1>4, <2>1
<1>10. lastAck \in 0..Len(written) /\ 0 \in 0..Len(written) /\ Len(written) \in Len(written)..lastBlock
  BY <1>1, <1>2, ConstantAssumption DEF TypeOK, AcksOk
<1>11. written \in Seq(Nat) /\ \A j \in DOMAIN written : written[j] = j
  BY <1>1 DEF TypeOK, Integrity
<1>12. buffer \in [0..(BlockMod - 1) -> Nat]
  BY <1>1 DEF TypeOK
<1>13. buffer' = buffer => BufferOk'
  BY <1>1, <1>3 DEF BufferOk, fileVars
<1>14. CASE UNCHANGED <<cPc, written, buffer, lastAck, toServer>>
  BY <1>3, <1>8, <1>9, <1>10, <1>11, <1>12, <1>13, <1>14, ClientFrame
<1>15. CASE OldBlock(p)
  <2>1. UNCHANGED <<cPc, written, buffer, lastAck>> /\ toServer' = Acking(tid', lastAck)
    BY <1>15 DEF OldBlock
  <2>2. QED
    BY <1>3, <1>8, <1>9, <1>10, <1>11, <1>12, <1>13, <2>1, ClientFrame
<1>16. CASE p.kind = "data" /\ FutureBlock(p)
  <2>1. /\ UNCHANGED <<cPc, written, lastAck, toServer>>
        /\ buffer' = [buffer EXCEPT ![BlockNum(p.blk)] = p.blk]
    BY <1>16 DEF FutureBlock
  <2>2. BlockNum(p.blk) = p.blk /\ p.blk \in 0..(BlockMod - 1)
    BY <1>2, <1>7, BlockNumSmall, ConstantAssumption
  <2>3. buffer' \in [0..(BlockMod - 1) -> Nat] /\ BufferOk'
    BY <1>1, <1>3, <1>7, <1>12, <2>1, <2>2, ConstantAssumption DEF BufferOk, fileVars
  <2>4. QED
    BY <1>3, <1>8, <1>9, <1>10, <1>11, <2>1, <2>3, ClientFrame
<1>17. CASE p.kind = "data" /\ NextBlock(p)
  BY <1>3, <1>6, <1>8, <1>9, <1>17, NextBlockInv
<1>18. CASE RecvOack
  <2>1. UNCHANGED <<cPc, written, buffer>> /\ lastAck' = 0 /\ toServer' = Acking(tid', 0)
    BY <1>18 DEF RecvOack
  <2>2. QED
    BY <1>3, <1>8, <1>9, <1>10, <1>11, <1>12, <1>13, <2>1, ClientFrame
<1>19. CASE RecvError
  <2>1. UNCHANGED <<written, buffer, lastAck, toServer>> /\ cPc' = "failed"
    BY <1>19 DEF RecvError
  <2>2. QED
    BY <1>3, <1>8, <1>9, <1>10, <1>11, <1>12, <1>13, <2>1, ClientFrame
<1>20. QED
  BY <1>4, <1>14, <1>15, <1>16, <1>17, <1>18, <1>19

---------------------------------------------------------------------------
(* Timeouts of the client and faults of the network change channels only. *)

\* A step that only changes the channels, or lets the client fail, preserves the invariant.
LEMMA ChannelFrame ==
  ASSUME IInv, UNCHANGED <<fileVars, serverVars, tid, written, buffer, lastAck>>,
         rrqs' \in Nat, lost' \in Nat, dups' \in Nat,
         cPc' \in {cPc, "failed"},
         toClient' \in Seq(GoodPacket),
         toServer' \in [Tids -> Seq(0..(BlockMod - 1))],
         \A t \in Tids : toServer'[t] \in Seq({k \in 0..Len(written) : t = tid})
  PROVE  IInv'
<1>1. toClient' \in Seq(Packet)
  BY SeqSuperset DEF GoodPacket
<1>2. TypeOK'
  BY <1>1 DEF IInv, TypeOK, fileVars, serverVars
<1>3. PacketsOk' /\ AcksOk' /\ Integrity' /\ BufferOk'
  BY DEF IInv, PacketsOk, GoodPacket, AcksOk, Integrity, BufferOk, fileVars
<1>4. ASSUME NEW t \in Tids PROVE TaskOk(t)'
  <2>1. EmptyFile' = EmptyFile /\ LastWindowed' = LastWindowed /\ TaskOk(t)
    BY DEF IInv, fileVars, EmptyFile, LastWindowed
  <2>2. QED
    BY <2>1 DEF TaskOk, fileVars, serverVars
<1>5. QED
  BY <1>2, <1>3, <1>4 DEF IInv, fileVars

\* Taking an ACK out of a task's channel, or repeating one, keeps the ACK channels good.
LEMMA AckChannel ==
  ASSUME NoWrap, IInv, NEW t \in Tids, NEW acks \in Seq({k \in 0..Len(written) : t = tid}),
         toServer' = [toServer EXCEPT ![t] = acks]
  PROVE  /\ toServer' \in [Tids -> Seq(0..(BlockMod - 1))]
         /\ \A u \in Tids : toServer'[u] \in Seq({k \in 0..Len(written) : u = tid})
<1>1. Len(written) \in 0..(BlockMod - 1)
  BY WrittenRange, ConstantAssumption DEF IInv
<1>2. {k \in 0..Len(written) : t = tid} \subseteq 0..(BlockMod - 1)
  BY <1>1, ConstantAssumption
<1>3. acks \in Seq(0..(BlockMod - 1))
  BY <1>2, SeqSuperset
<1>4. QED
  BY <1>3 DEF IInv, TypeOK, AcksOk

\* The client's receive times out.
LEMMA ClientTimeoutInv ==
  ASSUME IInv, ClientTimeout
  PROVE  IInv'
<1>1. <<>> \in Seq(GoodPacket)
  OBVIOUS
<1>2. QED
  BY <1>1, ChannelFrame DEF ClientTimeout, IInv, TypeOK, AcksOk, faultVars

\* The network loses a datagram.
LEMMA LoseInv ==
  ASSUME NoWrap, IInv, Lose
  PROVE  IInv'
<1>1. /\ UNCHANGED <<fileVars, serverVars, cPc, tid, written, buffer, lastAck>>
      /\ lost' \in Nat /\ dups' \in Nat
  BY DEF Lose, IInv, TypeOK, clientVars
<1>2. toClient \in Seq(GoodPacket) /\ TypeOK /\ AcksOk
  BY DEF IInv, PacketsOk, GoodPacket
<1>3. CASE rrqs' = rrqs - 1 /\ rrqs > 0 /\ UNCHANGED <<toServer, toClient>>
  BY <1>1, <1>2, <1>3, ChannelFrame DEF TypeOK, AcksOk
<1>4. CASE /\ \E i \in DOMAIN toClient : toClient' = RemoveAt(toClient, i)
           /\ UNCHANGED <<rrqs, toServer>>
  BY <1>1, <1>2, <1>4, RemoveAtSeq, ChannelFrame DEF TypeOK, AcksOk
<1>5. ASSUME NEW t \in Tids, NEW i \in DOMAIN toServer[t],
             toServer' = [toServer EXCEPT ![t] = RemoveAt(@, i)],
             UNCHANGED <<rrqs, toClient>>
      PROVE  IInv'
  <2>1. RemoveAt(toServer[t], i) \in Seq({k \in 0..Len(written) : t = tid})
    BY <1>2, <1>5, RemoveAtSeq DEF AcksOk
  <2>2. toServer' = [toServer EXCEPT ![t] = RemoveAt(toServer[t], i)]
    BY <1>2, <1>5 DEF TypeOK
  <2>3. /\ toServer' \in [Tids -> Seq(0..(BlockMod - 1))]
        /\ \A u \in Tids : toServer'[u] \in Seq({k \in 0..Len(written) : u = tid})
    BY <2>1, <2>2, AckChannel
  <2>4. QED
    BY <1>1, <1>2, <1>5, <2>3, ChannelFrame DEF TypeOK
<1>6. QED
  BY <1>3, <1>4, <1>5 DEF Lose

\* The network duplicates a datagram.
LEMMA DuplicateInv ==
  ASSUME NoWrap, IInv, Duplicate
  PROVE  IInv'
<1>1. /\ UNCHANGED <<fileVars, serverVars, cPc, tid, written, buffer, lastAck>>
      /\ lost' \in Nat /\ dups' \in Nat
  BY DEF Duplicate, IInv, TypeOK, clientVars
<1>2. toClient \in Seq(GoodPacket) /\ TypeOK /\ AcksOk
  BY DEF IInv, PacketsOk, GoodPacket
<1>3. CASE rrqs' = rrqs + 1 /\ UNCHANGED <<toServer, toClient>>
  BY <1>1, <1>2, <1>3, ChannelFrame DEF TypeOK, AcksOk
<1>4. CASE /\ \E i \in DOMAIN toClient : toClient' = InsertAt(toClient, i, toClient[i])
           /\ UNCHANGED <<rrqs, toServer>>
  BY <1>1, <1>2, <1>4, InsertAtSeq, ChannelFrame DEF TypeOK, AcksOk
<1>5. ASSUME NEW t \in Tids, NEW i \in DOMAIN toServer[t],
             toServer' = [toServer EXCEPT ![t] = InsertAt(@, i, @[i])],
             UNCHANGED <<rrqs, toClient>>
      PROVE  IInv'
  <2>1. InsertAt(toServer[t], i, toServer[t][i]) \in Seq({k \in 0..Len(written) : t = tid})
    BY <1>2, <1>5, InsertAtSeq DEF AcksOk
  <2>2. toServer' = [toServer EXCEPT ![t] = InsertAt(toServer[t], i, toServer[t][i])]
    BY <1>2, <1>5 DEF TypeOK
  <2>3. /\ toServer' \in [Tids -> Seq(0..(BlockMod - 1))]
        /\ \A u \in Tids : toServer'[u] \in Seq({k \in 0..Len(written) : u = tid})
    BY <2>1, <2>2, AckChannel
  <2>4. QED
    BY <1>1, <1>2, <1>5, <2>3, ChannelFrame DEF TypeOK
<1>6. QED
  BY <1>3, <1>4, <1>5 DEF Duplicate

---------------------------------------------------------------------------
(* The invariant is inductive. *)

\* The invariant holds before the first RRQ is handled.
LEMMA InitInv ==
  ASSUME Init PROVE IInv
<1>1. lastBlock \in Nat /\ MaxRetries \in Nat \ {0} /\ BlockMod \in Nat \ {0, 1} /\ NoTid \notin Tids
  BY ConstantAssumption DEF Init
<1>2. Len(written) = 0 /\ written = <<>>
  BY DEF Init
<1>3. TypeOK
  BY <1>1 DEF Init, TypeOK
<1>4. Integrity /\ BufferOk
  BY <1>1, <1>2 DEF Init, Integrity, BufferOk
<1>5. PacketsOk /\ AcksOk
  BY <1>1, <1>2 DEF Init, PacketsOk, AcksOk
<1>6. \A t \in Tids : TaskOk(t)
  BY <1>1, <1>2 DEF Init, TaskOk, Waiting
<1>7. QED
  BY <1>3, <1>4, <1>5, <1>6 DEF IInv, Init

\* Every step preserves the invariant.
LEMMA NextInv ==
  ASSUME NoWrap, IInv, [Next]_vars PROVE IInv'
<1>1. CASE ClientRecv
  BY <1>1, ClientRecvInv
<1>2. CASE ClientTimeout
  BY <1>2, ClientTimeoutInv
<1>3. ASSUME NEW t \in Tids, Server(t) PROVE IInv'
  BY <1>3, AcceptInv, RecvAckInv, AckTimeoutInv DEF Server
<1>4. CASE Lose
  BY <1>4, LoseInv
<1>5. CASE Duplicate
  BY <1>5, DuplicateInv
<1>6. CASE UNCHANGED vars
  <2>1. /\ UNCHANGED <<fileVars, serverVars, tid, written, buffer, lastAck>>
        /\ UNCHANGED <<rrqs, lost, dups, cPc, toClient, toServer>>
    BY <1>6 DEF vars, clientVars, faultVars
  <2>2. QED
    BY <2>1, ChannelFrame DEF IInv, TypeOK, AcksOk, PacketsOk, GoodPacket
<1>7. QED
  BY <1>1, <1>2, <1>3, <1>4, <1>5, <1>6 DEF Next, Client

---------------------------------------------------------------------------
(* A file of any size: what does not depend on block numbers. *)

\* A block number is below BlockMod.
LEMMA BlockNumRange ==
  ASSUME NEW i \in Nat PROVE BlockNum(i) \in 0..(BlockMod - 1)
  BY ConstantAssumption DEF BlockNum

\* What the server sends, whatever it is, are packets.
LEMMA SendingType ==
  ASSUME TypeOK, NEW pkts \in Seq(GoodPacket)
  PROVE  Sending(toClient, pkts) \in Seq(Packet)
<1>1. pkts \in Seq(Packet)
  <2>1. GoodPacket \subseteq Packet
    BY DEF GoodPacket
  <2>2. QED
    BY <2>1, SeqSuperset
<1>2. toClient \in Seq(Packet)
  BY DEF TypeOK
<1>3. QED
  BY <1>1, <1>2, ConcatProperties DEF Sending

\* What a step of task t does to the task itself and to the client's channel.
TaskStepAnySize(t) ==
  /\ sPc' = [sPc EXCEPT ![t] = sPc'[t]]
  /\ sPc'[t] \in {"idle"} \cup Waiting \cup Stopped
  /\ base' = [base EXCEPT ![t] = base'[t]]
  /\ base'[t] \in Nat \ {0}
  /\ tries' = [tries EXCEPT ![t] = tries'[t]]
  /\ tries'[t] \in 0..MaxRetries
  /\ toClient' \in Seq(Packet)
  /\ TaskOkAnySize(t)'

\* Such a step preserves the invariant if it only takes ACKs out of the task's channel.
LEMMA AnySizeServerFrame ==
  ASSUME AnySizeInv, NEW t \in Tids,
         UNCHANGED <<fileVars, clientVars, faultVars>>, rrqs' \in Nat,
         TaskStepAnySize(t),
         NEW acks \in Seq(0..(BlockMod - 1)), t # tid => acks = <<>>,
         toServer' = [toServer EXCEPT ![t] = acks]
  PROVE  AnySizeInv'
<1>1. TypeOK'
  BY DEF AnySizeInv, TypeOK, TaskStepAnySize, fileVars, clientVars, faultVars
<1>2. AcksGoToServerTid'
  BY DEF AnySizeInv, TypeOK, AcksGoToServerTid, clientVars
<1>3. ASSUME NEW u \in Tids PROVE TaskOkAnySize(u)'
  <2>1. CASE u = t
    BY <2>1 DEF TaskStepAnySize
  <2>2. CASE u # t
    <3>1. /\ sPc'[u] = sPc[u] /\ base'[u] = base[u] /\ tries'[u] = tries[u]
          /\ tid' = tid /\ lastBlock' = lastBlock /\ LastWindowed' = LastWindowed
      BY <2>2 DEF AnySizeInv, TypeOK, TaskStepAnySize, fileVars, clientVars, LastWindowed
    <3>2. TaskOkAnySize(u)
      BY DEF AnySizeInv
    <3>3. QED
      BY <3>1, <3>2 DEF TaskOkAnySize
  <2>3. QED
    BY <2>1, <2>2
<1>4. QED
  BY <1>1, <1>2, <1>3 DEF AnySizeInv

\* Starting the data.
LEMMA AnySizeStartData ==
  ASSUME AnySizeInv, NEW t \in Tids, lastBlock > 0, sPc[t] \in {"idle", "oack"},
         StartData(t), base' = base, UNCHANGED <<fileVars, clientVars>>
  PROVE  TaskStepAnySize(t)
<1>1. base[t] = 1 /\ 1 \in 1..LastWindowed /\ TypeOK /\ TaskOkAnySize(t)
  <2>1. TypeOK /\ TaskOkAnySize(t)
    BY DEF AnySizeInv
  <2>2. LastWindowed \in 1..lastBlock /\ lastBlock \in Nat
    BY <2>1, LastWindowedRange, ConstantAssumption DEF TypeOK
  <2>3. QED
    BY <2>1, <2>2 DEF TaskOkAnySize
<1>2. Window(t, 1) \in Seq(GoodPacket)
  BY <1>1, WindowPackets
<1>3. toClient' \in Seq(Packet)
  BY <1>1, <1>2, SendingType DEF StartData
<1>4. TaskOkAnySize(t)'
  BY <1>1, ConstantAssumption
     DEF TypeOK, TaskOkAnySize, StartData, fileVars, clientVars, LastWindowed, Waiting
<1>5. QED
  BY <1>1, <1>3, <1>4, ConstantAssumption DEF TypeOK, TaskStepAnySize, StartData, Waiting

\* A failed wait stays within the retry limit.
LEMMA AnySizeNoAck ==
  ASSUME AnySizeInv, NEW t \in Tids, NoAck(t), UNCHANGED <<fileVars, clientVars>>
  PROVE  TaskStepAnySize(t)
<1>1. TaskOkAnySize(t) /\ TypeOK
  BY DEF AnySizeInv
<1>2. LastWindowed' = LastWindowed
  BY DEF fileVars, LastWindowed
<1>3. sPc[t] \in Waiting /\ base' = base
  BY DEF NoAck, WaitAgain, ResendWindow, TailFails, Waiting
<1>4. toClient' \in Seq(Packet)
  <2>1. CASE toClient' = toClient
    BY <1>1, <2>1 DEF TypeOK
  <2>2. CASE sPc[t] = "window" /\ toClient' = Sending(toClient, Window(t, base[t]))
    <3>1. lastBlock > 0 /\ base[t] \in 1..LastWindowed
      BY <2>2, <1>1, LastWindowedRange, ConstantAssumption DEF TypeOK, TaskOkAnySize, Waiting
    <3>2. Window(t, base[t]) \in Seq(GoodPacket)
      BY <3>1, <1>1, WindowPackets
    <3>3. QED
      BY <1>1, <2>2, <3>2, SendingType
  <2>3. QED
    BY <2>1, <2>2 DEF NoAck, WaitAgain, ResendWindow, TailFails
<1>5. /\ sPc' = [sPc EXCEPT ![t] = sPc'[t]]
      /\ sPc'[t] \in {sPc[t], "aborted"}
      /\ tries' = [tries EXCEPT ![t] = tries'[t]]
      /\ tries'[t] \in 0..MaxRetries
      /\ sPc'[t] \in {"oack", "empty", "window"} => tries'[t] < MaxRetries
  <2>1. /\ sPc \in [Tids -> {"idle"} \cup Waiting \cup Stopped]
        /\ tries \in [Tids -> 0..MaxRetries] /\ MaxRetries \in Nat
        /\ sPc[t] \in {"oack", "empty", "window"} => tries[t] + 1 \in 0..MaxRetries
    <3>1. tries[t] \in 0..MaxRetries /\ MaxRetries \in Nat
      BY <1>1, ConstantAssumption DEF TypeOK
    <3>2. sPc[t] \in {"oack", "empty", "window"} => tries[t] < MaxRetries
      BY <1>1 DEF TaskOkAnySize
    <3>3. sPc[t] \in {"oack", "empty", "window"} => tries[t] + 1 \in 0..MaxRetries
      BY <3>1, <3>2
    <3>4. QED
      BY <1>1, <3>1, <3>3 DEF TypeOK
  <2>2. CASE WaitAgain(t)
    BY <2>1, <2>2 DEF WaitAgain
  <2>3. CASE ResendWindow(t)
    BY <2>1, <2>3 DEF ResendWindow
  <2>4. CASE TailFails(t)
    BY <2>1, <2>4 DEF TailFails
  <2>5. QED
    BY <2>2, <2>3, <2>4 DEF NoAck
<1>6. TaskOkAnySize(t)'
  BY <1>1, <1>2, <1>3, <1>5 DEF TaskOkAnySize, Waiting, fileVars, clientVars
<1>7. QED
  BY <1>1, <1>3, <1>4, <1>5, <1>6 DEF TypeOK, TaskStepAnySize, Waiting, Stopped

\* An ACK that server_tid's task takes for the one it waits for.
LEMMA AnySizeAcked ==
  ASSUME AnySizeInv, NEW t \in Tids, t = tid,
         OackAcked(t) \/ EmptyAcked(t) \/ WindowAcked(t) \/ TailAcked(t),
         UNCHANGED <<fileVars, clientVars>>
  PROVE  TaskStepAnySize(t)
<1>1. TaskOkAnySize(t) /\ TypeOK /\ t = tid' /\ lastBlock' = lastBlock
  BY DEF AnySizeInv, clientVars, fileVars
<1>2. LastWindowed' = LastWindowed
  BY DEF fileVars, LastWindowed
<1>3. CASE OackAcked(t)
  <2>1. lastBlock > 0 /\ StartData(t) /\ base' = base /\ sPc[t] = "oack"
    BY <1>1, <1>3 DEF OackAcked, TaskOkAnySize, Waiting
  <2>2. QED
    BY <2>1, AnySizeStartData
<1>4. CASE EmptyAcked(t) \/ TailAcked(t)
  <2>1. /\ base' = base /\ tries' = tries /\ toClient' = toClient
        /\ sPc' = [sPc EXCEPT ![t] = "completed"] \/ sPc' = [sPc EXCEPT ![t] = "closed"]
    BY <1>4 DEF EmptyAcked, TailAcked
  <2>2. TaskOkAnySize(t)'
    BY <1>1, <2>1 DEF TypeOK, TaskOkAnySize, Waiting
  <2>3. QED
    BY <1>1, <2>1, <2>2 DEF TypeOK, TaskStepAnySize, Stopped
<1>5. CASE WindowAcked(t)
  <2> DEFINE end == WindowEnd(base[t])
  <2>1. lastBlock > 0 /\ base[t] \in 1..LastWindowed
    BY <1>1, <1>5, LastWindowedRange, ConstantAssumption DEF WindowAcked, TypeOK, TaskOkAnySize, Waiting
  <2>2. end \in base[t]..LastWindowed /\ LastWindowed \in 1..lastBlock /\ lastBlock \in Nat
    BY <1>1, <2>1, WindowEndRange, LastWindowedRange, ConstantAssumption DEF TypeOK
  <2>3. CASE sPc' = [sPc EXCEPT ![t] = "completed"] /\ UNCHANGED <<base, tries, toClient>>
    <3>1. TaskOkAnySize(t)'
      BY <1>1, <2>3 DEF TypeOK, TaskOkAnySize, Waiting
    <3>2. QED
      BY <1>1, <2>3, <3>1 DEF TypeOK, TaskStepAnySize, Stopped
  <2>4. CASE /\ sPc' = [sPc EXCEPT ![t] = "tail"]
             /\ toClient' = Sending(toClient, <<Data(t, lastBlock)>>)
             /\ UNCHANGED <<base, tries>>
    <3>1. toClient' \in Seq(Packet)
      BY <1>1, <2>1, <2>2, <2>4, OnePacket, SendingType
    <3>2. TaskOkAnySize(t)'
      BY <1>1, <2>1, <2>4 DEF TypeOK, TaskOkAnySize, Waiting
    <3>3. QED
      BY <1>1, <2>4, <3>1, <3>2 DEF TypeOK, TaskStepAnySize, Waiting
  <2>5. CASE /\ end < LastWindowed
             /\ base' = [base EXCEPT ![t] = end + 1]
             /\ tries' = [tries EXCEPT ![t] = 0]
             /\ toClient' = Sending(toClient, Window(t, end + 1))
             /\ UNCHANGED sPc
    <3>1. end + 1 \in 1..LastWindowed /\ end + 1 \in Nat \ {0}
      BY <2>1, <2>2, <2>5
    <3>2. Window(t, end + 1) \in Seq(GoodPacket)
      BY <1>1, <2>1, <3>1, WindowPackets
    <3>3. toClient' \in Seq(Packet)
      BY <1>1, <2>5, <3>2, SendingType
    <3> HIDE DEF end
    <3>4. /\ base'[t] = end + 1 /\ tries'[t] = 0 /\ sPc'[t] = "window"
          /\ 0 \in 0..MaxRetries /\ 0 < MaxRetries
      BY <1>1, <1>5, <2>5, ConstantAssumption DEF TypeOK, WindowAcked
    <3>5. TaskOkAnySize(t)'
      BY <1>1, <1>2, <2>1, <2>2, <3>1, <3>4 DEF TaskOkAnySize, Waiting
    <3>6. QED
      BY <1>1, <2>5, <3>1, <3>3, <3>4, <3>5 DEF TypeOK, TaskStepAnySize, Waiting
  <2>6. QED
    BY <1>5, <2>3, <2>4, <2>5 DEF WindowAcked
<1>6. QED
  BY <1>3, <1>4, <1>5

\* The server's actions keep the invariant.
LEMMA AnySizeServer ==
  ASSUME AnySizeInv, NEW t \in Tids, Server(t)
  PROVE  AnySizeInv'
<1>1. /\ TaskOkAnySize(t) /\ TypeOK /\ lastBlock \in Nat
      /\ toServer[t] \in Seq(0..(BlockMod - 1)) /\ (t # tid => toServer[t] = <<>>)
  BY ConstantAssumption DEF AnySizeInv, TypeOK, AcksGoToServerTid
<1>2. UNCHANGED <<fileVars, clientVars, faultVars>> /\ rrqs' \in Nat
  BY <1>1 DEF Server, Accept, RecvAck, AckTimeout, TypeOK
<1>3. CASE Accept(t)
  <2>1. sPc[t] = "idle" /\ base' = base /\ toServer' = toServer /\ tid' = tid /\ lastBlock' = lastBlock
    BY <1>3 DEF Accept, clientVars, fileVars
  <2>2. TaskStepAnySize(t)
    <3>1. CASE \/ /\ sPc' = [sPc EXCEPT ![t] = "refused"] /\ UNCHANGED tries
                  /\ toClient' = Sending(toClient, <<Error(t)>>)
               \/ /\ lastBlock > 0 /\ sPc' = [sPc EXCEPT ![t] = "oack"] /\ UNCHANGED tries
                  /\ toClient' = Sending(toClient, <<Oack(t)>>)
      <4>1. toClient' \in Seq(Packet)
        BY <1>1, <3>1, OnePacket, SendingType
      <4>2. TaskOkAnySize(t)'
        BY <1>1, <2>1, <3>1 DEF TypeOK, TaskOkAnySize, Waiting
      <4>3. QED
        BY <1>1, <2>1, <3>1, <4>1, <4>2 DEF TypeOK, TaskStepAnySize, Stopped, Waiting
    <3>2. CASE lastBlock > 0 /\ StartData(t)
      BY <1>2, <2>1, <3>2, AnySizeStartData
    <3>3. QED
      BY <1>3, <3>1, <3>2 DEF Accept
  <2>3. toServer' = [toServer EXCEPT ![t] = toServer[t]]
    BY <1>1, <2>1 DEF TypeOK
  <2>4. QED
    BY <1>1, <1>2, <2>2, <2>3, AnySizeServerFrame
<1>4. CASE RecvAck(t)
  <2>1. PICK i \in Arriving(toServer[t]) :
          LET k == toServer[t][i] IN
          /\ \/ /\ IsExpectedAck(t, k)
                /\ OackAcked(t) \/ EmptyAcked(t) \/ WindowAcked(t) \/ TailAcked(t)
             \/ /\ ~IsExpectedAck(t, k)
                /\ IF sPc[t] = "tail" /\ IsDuplicateAck(t, k) THEN TailAcked(t) ELSE NoAck(t)
          /\ toServer' = [toServer EXCEPT ![t] =
                            IF sPc'[t] \in Stopped THEN <<>> ELSE RemoveAt(@, i)]
    BY <1>4 DEF RecvAck
  <2>2. i \in DOMAIN toServer[t] /\ t = tid
    BY <1>1, <2>1 DEF Arriving
  <2>3. TaskStepAnySize(t)
    <3>1. CASE OackAcked(t) \/ EmptyAcked(t) \/ WindowAcked(t) \/ TailAcked(t)
      BY <1>2, <2>2, <3>1, AnySizeAcked
    <3>2. CASE NoAck(t)
      BY <1>2, <3>2, AnySizeNoAck
    <3>3. QED
      BY <2>1, <3>1, <3>2
  <2> DEFINE acks == IF sPc'[t] \in Stopped THEN <<>> ELSE RemoveAt(toServer[t], i)
  <2>4. acks \in Seq(0..(BlockMod - 1))
    <3>1. RemoveAt(toServer[t], i) \in Seq(0..(BlockMod - 1))
      BY <1>1, <2>2, RemoveAtSeq
    <3>2. <<>> \in Seq(0..(BlockMod - 1))
      OBVIOUS
    <3>3. PICK r \in Seq(0..(BlockMod - 1)) : r = RemoveAt(toServer[t], i)
      BY <3>1
    <3>4. QED
      BY ONLY <3>2, <3>3
  <2>5. toServer' = [toServer EXCEPT ![t] = acks]
    BY <1>1, <2>1 DEF TypeOK
  <2> HIDE DEF acks
  <2>6. QED
    BY <1>2, <2>2, <2>3, <2>4, <2>5, AnySizeServerFrame
<1>5. CASE AckTimeout(t)
  <2>1. TaskStepAnySize(t)
    BY <1>2, <1>5, AnySizeNoAck DEF AckTimeout
  <2>2. CASE toServer' = [toServer EXCEPT ![t] = <<>>]
    <3>1. <<>> \in Seq(0..(BlockMod - 1))
      OBVIOUS
    <3>2. QED
      BY <1>2, <2>1, <2>2, <3>1, AnySizeServerFrame
  <2>3. CASE toServer' = toServer
    <3>1. toServer' = [toServer EXCEPT ![t] = toServer[t]]
      BY <1>1, <2>3 DEF TypeOK
    <3>2. QED
      BY <1>1, <1>2, <2>1, <3>1, AnySizeServerFrame
  <2>4. QED
    BY <1>5, <2>2, <2>3 DEF AckTimeout
<1>6. QED
  BY <1>3, <1>4, <1>5 DEF Server

\* A step of the client keeps the invariant if it keeps the types and sends ACKs to server_tid
\* alone, which it sets once.
LEMMA AnySizeClientFrame ==
  ASSUME AnySizeInv, UNCHANGED <<fileVars, rrqs, serverVars, faultVars>>,
         tid' \in Tids \cup {NoTid}, tid \in Tids => tid' = tid,
         cPc' \in {"receiving", "done", "failed"}, written' \in Seq(Nat),
         buffer' \in [0..(BlockMod - 1) -> Nat], lastAck' \in 0..(BlockMod - 1),
         NEW k \in 0..(BlockMod - 1),
         toServer' = toServer \/ (tid' \in Tids /\ toServer' = Acking(tid', k)),
         toClient' \in Seq(Packet)
  PROVE  AnySizeInv'
<1>1. TypeOK /\ AcksGoToServerTid
  BY DEF AnySizeInv
<1>2. ASSUME NEW u \in Tids, u # tid' PROVE u # tid
  BY <1>1, <1>2 DEF TypeOK
<1>3. toServer' \in [Tids -> Seq(0..(BlockMod - 1))] /\ AcksGoToServerTid'
  <2>1. CASE toServer' = toServer
    BY <1>1, <1>2, <2>1 DEF TypeOK, AcksGoToServerTid
  <2>2. CASE tid' \in Tids /\ toServer' = [toServer EXCEPT ![tid'] = Append(@, k)]
    <3>1. Append(toServer[tid'], k) \in Seq(0..(BlockMod - 1))
      BY <1>1, <2>2 DEF TypeOK
    <3>2. QED
      BY <1>1, <1>2, <2>2, <3>1 DEF TypeOK, AcksGoToServerTid
  <2>3. QED
    BY <2>1, <2>2 DEF Acking
<1>4. TypeOK'
  BY <1>1, <1>3 DEF TypeOK, fileVars, serverVars, faultVars
<1>5. ASSUME NEW u \in Tids PROVE TaskOkAnySize(u)'
  <2>1. TaskOkAnySize(u) /\ (u # tid' => u # tid)
    BY <1>2 DEF AnySizeInv
  <2>2. /\ sPc' = sPc /\ base' = base /\ tries' = tries /\ lastBlock' = lastBlock
        /\ LastWindowed' = LastWindowed
    BY DEF fileVars, serverVars, LastWindowed
  <2>3. QED
    BY <2>1, <2>2 DEF TaskOkAnySize
<1>6. QED
  BY <1>3, <1>4, <1>5 DEF AnySizeInv

\* Writing the expected block and what the buffer holds after it keeps the types.
LEMMA NextBlockType ==
  ASSUME TypeOK, NEW p \in Packet, NextBlock(p)
  PROVE  /\ written' \in Seq(Nat) /\ buffer' \in [0..(BlockMod - 1) -> Nat]
         /\ cPc' \in {"done", cPc}
         /\ \E m \in 0..(BlockMod - 1) :
              /\ lastAck' = m \/ lastAck' = lastAck
              /\ toServer' = Acking(tid', m) \/ toServer' = toServer
<1> DEFINE n == Len(written) + 1
<1>1. PICK k \in 0..BlockMod :
        LET ackNum == BlockNum(n + k) IN
        /\ InSequence(n, k)
        /\ written' = Append(written, p.blk)
                      \o [j \in 1..k |-> buffer[ExpectedBlock(n + j - 1)]]
        /\ buffer' = [w \in 0..(BlockMod - 1) |->
                        IF \E j \in 0..(k - 1) : w = ExpectedBlock(n + j) THEN 0 ELSE buffer[w]]
        /\ lastAck' = IF AckDue(p, ackNum) THEN ackNum ELSE lastAck
        /\ toServer' = IF AckDue(p, ackNum) THEN Acking(tid', ackNum) ELSE toServer
  BY DEF NextBlock
<1>2. n \in Nat /\ k \in Nat /\ n + k \in Nat /\ p.blk \in Nat
  <2>1. Len(written) \in Nat
    BY LenProperties DEF TypeOK
  <2>2. QED
    BY <2>1, ConstantAssumption DEF Packet
<1>3. BlockNum(n + k) \in 0..(BlockMod - 1)
  BY <1>2, BlockNumRange
<1>4. written' \in Seq(Nat)
  <2> DEFINE first == Append(written, p.blk)
             drained == [j \in 1..k |-> buffer[ExpectedBlock(n + j - 1)]]
  <2>1. first \in Seq(Nat)
    BY <1>2 DEF TypeOK
  <2>2. ASSUME NEW j \in 1..k PROVE buffer[ExpectedBlock(n + j - 1)] \in Nat
    <3>1. n + j - 1 + 1 \in Nat
      BY <1>2
    <3>2. ExpectedBlock(n + j - 1) \in 0..(BlockMod - 1)
      BY <3>1, BlockNumRange DEF ExpectedBlock
    <3>3. QED
      BY <3>2 DEF TypeOK
  <2>3. drained \in Seq(Nat)
    BY <1>2, <2>2
  <2>4. written' = first \o drained
    BY <1>1
  <2> HIDE DEF first, drained
  <2>5. QED
    BY <2>1, <2>3, <2>4, ConcatProperties
<1>5. buffer' \in [0..(BlockMod - 1) -> Nat]
  BY <1>1 DEF TypeOK
<1>6. cPc' \in {"done", cPc}
  BY DEF NextBlock
<1>7. QED
  BY <1>1, <1>3, <1>4, <1>5, <1>6

\* The client receives a datagram, of whatever number.
LEMMA AnySizeClientRecv ==
  ASSUME AnySizeInv, ClientRecv
  PROVE  AnySizeInv'
<1>1. TypeOK
  BY DEF AnySizeInv
<1>2. UNCHANGED <<fileVars, rrqs, serverVars, faultVars>> /\ cPc = "receiving"
  BY DEF ClientRecv
<1>3. PICK i \in Arriving(toClient) :
        LET p == toClient[i] IN
        /\ tid' = ServerTid(p)
        /\ \/ /\ p.tid # tid'
              /\ UNCHANGED <<cPc, written, buffer, lastAck, toServer>>
           \/ /\ p.tid = tid' /\ p.kind = "data"
              /\ OldBlock(p) \/ FutureBlock(p) \/ NextBlock(p)
           \/ /\ p.tid = tid' /\ p.kind = "oack"
              /\ RecvOack
           \/ /\ p.tid = tid' /\ p.kind = "error"
              /\ RecvError
        /\ toClient' = IF cPc' = "receiving" THEN RemoveAt(toClient, i) ELSE <<>>
  BY DEF ClientRecv
<1> DEFINE p == toClient[i]
<1>4. i \in DOMAIN toClient
  BY DEF Arriving
<1>5. p \in Packet
  BY <1>1, <1>4, ElementOfSeq DEF TypeOK
<1>6. p.tid \in Tids /\ p.blk \in Nat
  BY <1>5 DEF Packet
<1>7. tid' \in Tids /\ tid' \in Tids \cup {NoTid} /\ (tid \in Tids => tid' = tid)
  BY <1>1, <1>3, <1>6, ConstantAssumption DEF ServerTid, TypeOK
<1>8. toClient' \in Seq(Packet)
  <2>1. RemoveAt(toClient, i) \in Seq(Packet)
    BY <1>1, <1>4, RemoveAtSeq DEF TypeOK
  <2>2. QED
    BY <1>3, <2>1
<1>9. /\ written \in Seq(Nat) /\ buffer \in [0..(BlockMod - 1) -> Nat] /\ lastAck \in 0..(BlockMod - 1)
      /\ 0 \in 0..(BlockMod - 1)
  BY <1>1, ConstantAssumption DEF TypeOK
<1>10. CASE UNCHANGED <<cPc, written, buffer, lastAck, toServer>>
  BY <1>2, <1>7, <1>8, <1>9, <1>10, AnySizeClientFrame
<1>11. CASE OldBlock(p)
  <2>1. UNCHANGED <<cPc, written, buffer, lastAck>> /\ toServer' = Acking(tid', lastAck)
    BY <1>11 DEF OldBlock
  <2>2. QED
    BY <1>2, <1>7, <1>8, <1>9, <2>1, AnySizeClientFrame
<1>12. CASE FutureBlock(p)
  <2>1. /\ UNCHANGED <<cPc, written, lastAck, toServer>>
        /\ buffer' = [buffer EXCEPT ![BlockNum(p.blk)] = p.blk]
    BY <1>12 DEF FutureBlock
  <2>2. buffer' \in [0..(BlockMod - 1) -> Nat]
    BY <1>6, <1>9, <2>1
  <2>3. QED
    BY <1>2, <1>7, <1>8, <1>9, <2>1, <2>2, AnySizeClientFrame
<1>13. CASE NextBlock(p)
  <2>1. /\ written' \in Seq(Nat) /\ buffer' \in [0..(BlockMod - 1) -> Nat]
        /\ cPc' \in {"done", cPc}
    BY <1>1, <1>5, <1>13, NextBlockType
  <2>2. PICK m \in 0..(BlockMod - 1) :
          /\ lastAck' = m \/ lastAck' = lastAck
          /\ toServer' = Acking(tid', m) \/ toServer' = toServer
    BY <1>1, <1>5, <1>13, NextBlockType
  <2>3. lastAck' \in 0..(BlockMod - 1) /\ cPc' \in {"receiving", "done", "failed"}
    BY <1>2, <1>9, <2>1, <2>2
  <2>4. QED
    BY <1>2, <1>7, <1>8, <2>1, <2>2, <2>3, AnySizeClientFrame
<1>14. CASE RecvOack
  <2>1. UNCHANGED <<cPc, written, buffer>> /\ lastAck' = 0 /\ toServer' = Acking(tid', 0)
    BY <1>14 DEF RecvOack
  <2>2. QED
    BY <1>2, <1>7, <1>8, <1>9, <2>1, AnySizeClientFrame
<1>15. CASE RecvError
  <2>1. UNCHANGED <<written, buffer, lastAck, toServer>> /\ cPc' = "failed"
    BY <1>15 DEF RecvError
  <2>2. QED
    BY <1>2, <1>7, <1>8, <1>9, <2>1, AnySizeClientFrame
<1>16. QED
  BY <1>3, <1>10, <1>11, <1>12, <1>13, <1>14, <1>15

\* Timeouts of the client and faults of the network.
LEMMA AnySizeChannels ==
  ASSUME AnySizeInv, ClientTimeout \/ Lose \/ Duplicate
  PROVE  AnySizeInv'
<1>1. TypeOK /\ AcksGoToServerTid /\ \A t \in Tids : TaskOkAnySize(t)
  BY DEF AnySizeInv
<1>2. UNCHANGED <<fileVars, serverVars, tid, written, buffer, lastAck>> /\ cPc' \in {cPc, "failed"}
  BY DEF ClientTimeout, Lose, Duplicate, clientVars
<1>3. rrqs' \in Nat /\ lost' \in Nat /\ dups' \in Nat
  BY <1>1 DEF ClientTimeout, Lose, Duplicate, TypeOK, faultVars
<1>4. toClient' \in Seq(Packet)
  <2>1. toClient \in Seq(Packet) /\ <<>> \in Seq(Packet)
    BY <1>1 DEF TypeOK
  <2>2. \A i \in DOMAIN toClient : RemoveAt(toClient, i) \in Seq(Packet) /\ InsertAt(toClient, i, toClient[i]) \in Seq(Packet)
    BY <2>1, RemoveAtSeq, InsertAtSeq
  <2>3. QED
    BY <2>1, <2>2 DEF ClientTimeout, Lose, Duplicate
<1>5. toServer' \in [Tids -> Seq(0..(BlockMod - 1))] /\ \A u \in Tids : u # tid => toServer'[u] = <<>>
  <2>1. CASE toServer' = toServer
    BY <1>1, <2>1 DEF TypeOK, AcksGoToServerTid
  <2>2. ASSUME NEW t \in Tids, NEW i \in DOMAIN toServer[t],
               \/ toServer' = [toServer EXCEPT ![t] = RemoveAt(@, i)]
               \/ toServer' = [toServer EXCEPT ![t] = InsertAt(@, i, @[i])]
        PROVE  toServer' \in [Tids -> Seq(0..(BlockMod - 1))] /\ \A u \in Tids : u # tid => toServer'[u] = <<>>
    <3>1. toServer \in [Tids -> Seq(0..(BlockMod - 1))] /\ toServer[t] \in Seq(0..(BlockMod - 1))
      BY <1>1 DEF TypeOK
    <3>2. t = tid
      BY <1>1, <2>2 DEF AcksGoToServerTid
    <3>3. PICK acks \in Seq(0..(BlockMod - 1)) : toServer' = [toServer EXCEPT ![t] = acks]
      <4>1. /\ RemoveAt(toServer[t], i) \in Seq(0..(BlockMod - 1))
            /\ InsertAt(toServer[t], i, toServer[t][i]) \in Seq(0..(BlockMod - 1))
        BY <2>2, <3>1, RemoveAtSeq, InsertAtSeq
      <4>2. \/ toServer' = [toServer EXCEPT ![t] = RemoveAt(toServer[t], i)]
            \/ toServer' = [toServer EXCEPT ![t] = InsertAt(toServer[t], i, toServer[t][i])]
        BY <2>2, <3>1
      <4>3. QED
        BY <4>1, <4>2
    <3>4. QED
      BY <1>1, <3>1, <3>2, <3>3 DEF AcksGoToServerTid
  <2>3. QED
    BY <2>1, <2>2 DEF ClientTimeout, Lose, Duplicate
<1>6. TypeOK'
  BY <1>1, <1>2, <1>3, <1>4, <1>5 DEF TypeOK, fileVars, serverVars
<1>7. AcksGoToServerTid'
  BY <1>2, <1>5 DEF AcksGoToServerTid
<1>8. ASSUME NEW t \in Tids PROVE TaskOkAnySize(t)'
  <2>1. LastWindowed' = LastWindowed /\ TaskOkAnySize(t)
    BY <1>1, <1>2 DEF fileVars, LastWindowed
  <2>2. QED
    BY <1>2, <2>1 DEF TaskOkAnySize, fileVars, serverVars
<1>9. QED
  BY <1>6, <1>7, <1>8 DEF AnySizeInv

\* The invariant holds of every transfer, wraps of the block number included.
LEMMA AnySizeInvariant == Spec => []AnySizeInv
<1>1. Init => AnySizeInv
  BY InitInv DEF IInv, AnySizeInv, TaskOk, TaskOkAnySize, AcksGoToServerTid, Init
<1>2. AnySizeInv /\ [Next]_vars => AnySizeInv'
  <2> SUFFICES ASSUME AnySizeInv, [Next]_vars PROVE AnySizeInv'
    OBVIOUS
  <2>1. CASE UNCHANGED vars
    <3>1. /\ UNCHANGED <<fileVars, rrqs, serverVars, faultVars>>
          /\ UNCHANGED <<tid, cPc, written, buffer, lastAck, toServer, toClient>>
      BY <2>1 DEF vars, clientVars
    <3>2. TypeOK /\ 0 \in 0..(BlockMod - 1)
      BY ConstantAssumption DEF AnySizeInv
    <3>3. QED
      BY <3>1, <3>2, AnySizeClientFrame DEF TypeOK
  <2>2. CASE ClientRecv
    BY <2>2, AnySizeClientRecv
  <2>3. CASE ClientTimeout \/ Lose \/ Duplicate
    BY <2>3, AnySizeChannels
  <2>4. CASE \E t \in Tids : Server(t)
    BY <2>4, AnySizeServer
  <2>5. QED
    BY <2>1, <2>2, <2>3, <2>4 DEF Next, Client
<1>3. QED
  BY <1>1, <1>2, PTL DEF Spec

---------------------------------------------------------------------------
(* A file of any size on a quiet network: numbers and channels. *)

\* Quotient and remainder.
LEMMA DivMod ==
  ASSUME NEW M \in Nat \ {0}, NEW i \in Nat
  PROVE  (i % M) \in Nat /\ (i \div M) \in Nat /\ i = M * (i \div M) + (i % M)
  OBVIOUS

\* A remainder is unique.
LEMMA Remainder ==
  ASSUME NEW M \in Nat \ {0}, NEW q \in Int, NEW r \in 0..(M - 1)
  PROVE  ((M * q + r) % M) = r
  OBVIOUS

\* Less than BlockMod blocks after block j, the client counts them right.
LEMMA Distance ==
  ASSUME NEW i \in Nat, NEW j \in Nat, j <= i, i < j + BlockMod
  PROVE  (BlockNum(i) - BlockNum(j)) % BlockMod = i - j
<1>1. BlockMod \in Nat \ {0}
  BY ConstantAssumption
<1> DEFINE M == BlockMod
           p == i \div M
           q == j \div M
           a == i % M
           b == j % M
<1>2. /\ p \in Nat /\ q \in Nat /\ a \in Nat /\ b \in Nat
      /\ i = M * p + a /\ j = M * q + b
  BY <1>1, DivMod
<1> HIDE DEF p, q, a, b
<1>3. a - b = M * (q - p) + (i - j)
  BY <1>1, <1>2
<1>4. i - j \in 0..(M - 1) /\ q - p \in Int
  BY <1>1, <1>2
<1>5. ((M * (q - p) + (i - j)) % M) = i - j
  BY <1>1, <1>4, Remainder
<1>6. QED
  BY <1>3, <1>5 DEF a, b, BlockNum

\* Taking the first datagram out of a channel.
LEMMA FirstTaken ==
  ASSUME NEW S, NEW s \in Seq(S), s # <<>>
  PROVE  /\ RemoveAt(s, 1) \in Seq(S) /\ Len(RemoveAt(s, 1)) = Len(s) - 1
         /\ \A i \in 1..(Len(s) - 1) : RemoveAt(s, 1)[i] = s[i + 1]
<1>1. Len(s) \in Nat \ {0}
  BY EmptySeq
<1>2. SubSeq(s, 1, 0) = <<>>
  BY SubSeqEmpty
<1>3. \A i \in 2..Len(s) : s[i] \in S
  BY <1>1, ElementOfSeq
<1> DEFINE r == SubSeq(s, 2, Len(s))
<1>4. /\ r \in Seq(S) /\ Len(r) = Len(s) - 1
      /\ \A i \in 1..(Len(s) - 1) : r[i] = s[i + 1]
  <2>1. PICK n \in Nat \ {0} : n = Len(s)
    BY <1>1
  <2>2. \A i \in 2..n : s[i] \in S
    BY <1>3, <2>1
  <2> DEFINE u == SubSeq(s, 2, n)
  <2>3. /\ u \in Seq(S) /\ Len(u) = (IF 2 <= n THEN n - 2 + 1 ELSE 0)
        /\ \A i \in 1..(n - 2 + 1) : u[i] = s[2 + i - 1]
    BY <2>2, SubSeqProperties
  <2>4. r = u
    BY <2>1
  <2> HIDE DEF r, u
  <2>5. \A i \in 1..(n - 1) : 2 + i - 1 = i + 1 /\ i \in 1..(n - 2 + 1)
    OBVIOUS
  <2>6. QED
    BY <2>1, <2>3, <2>4, <2>5
<1>5. RemoveAt(s, 1) = <<>> \o r
  BY <1>2 DEF RemoveAt
<1> HIDE DEF r
<1>6. <<>> \o r = r
  BY <1>4, ConcatEmptySeq
<1>7. QED
  BY <1>4, <1>5, <1>6

\* Blocks m + 1 to n: the first of them, and those after it.
LEMMA BlocksParts ==
  ASSUME NEW t \in Tids, NEW m \in Nat, NEW n \in Nat, m < n
  PROVE  /\ Blocks(t, m, n) \in Seq(Packet) /\ Blocks(t, m, n) # <<>>
         /\ Blocks(t, m, n)[1] = Data(t, m + 1)
         /\ RemoveAt(Blocks(t, m, n), 1) = Blocks(t, m + 1, n)
         /\ Blocks(t, n, n) = <<>>
<1>1. ASSUME NEW a \in Nat, a <= n
      PROVE  /\ Blocks(t, a, n) \in Seq(Packet) /\ Len(Blocks(t, a, n)) = n - a
             /\ \A i \in 1..(n - a) : Blocks(t, a, n)[i] = Data(t, a + i)
  <2>1. n - a \in Nat
    BY <1>1
  <2>2. ASSUME NEW i \in 1..(n - a) PROVE Data(t, a + i) \in Packet
    BY <1>1 DEF Data, Packet
  <2>3. QED
    BY <2>1, <2>2 DEF Blocks
<1> DEFINE s == Blocks(t, m, n)
<1>2. s \in Seq(Packet) /\ Len(s) = n - m /\ \A i \in 1..(n - m) : s[i] = Data(t, m + i)
  BY <1>1
<1>3. m + 1 \in Nat /\ m + 1 <= n /\ n - m \in Nat \ {0} /\ n - m - 1 = n - (m + 1)
  OBVIOUS
<1> DEFINE r == Blocks(t, m + 1, n)
<1>4. r \in Seq(Packet) /\ Len(r) = n - (m + 1) /\ \A i \in 1..(n - (m + 1)) : r[i] = Data(t, m + 1 + i)
  BY <1>1, <1>3
<1>5. Blocks(t, n, n) = <<>>
  <2>1. Blocks(t, n, n) \in Seq(Packet) /\ Len(Blocks(t, n, n)) = 0
    BY <1>1
  <2>2. QED
    BY <2>1, EmptySeq
<1> HIDE DEF s, r
<1>6. s # <<>>
  BY <1>2, <1>3, EmptySeq
<1>7. RemoveAt(s, 1) = r
  <2> DEFINE d == RemoveAt(s, 1)
  <2>1. d \in Seq(Packet) /\ Len(d) = n - (m + 1) /\ \A i \in 1..(n - m - 1) : d[i] = s[i + 1]
    BY <1>2, <1>3, <1>6, FirstTaken
  <2> HIDE DEF d
  <2>2. ASSUME NEW i \in 1..(n - (m + 1)) PROVE d[i] = r[i]
    <3>1. i + 1 \in 1..(n - m) /\ m + (i + 1) = m + 1 + i
      BY <1>3
    <3>2. d[i] = s[i + 1] /\ s[i + 1] = Data(t, m + (i + 1))
      BY <1>2, <1>3, <2>1, <3>1
    <3>3. QED
      BY <1>4, <3>1, <3>2
  <2>3. d = r
    BY <1>4, <2>1, <2>2, SeqEqual
  <2>4. QED
    BY <2>3 DEF d
<1>8. s[1] = Data(t, m + 1)
  BY <1>2, <1>3
<1>9. QED
  BY <1>2, <1>5, <1>6, <1>7, <1>8 DEF s, r

\* A window is the blocks from its first to its last.
LEMMA WindowBlocks ==
  ASSUME TypeOK, lastBlock > 0, NEW t \in Tids, NEW b \in 1..LastWindowed
  PROVE  Window(t, b) = Blocks(t, b - 1, WindowEnd(b))
<1>1. WindowEnd(b) \in b..LastWindowed /\ LastWindowed \in 1..lastBlock /\ lastBlock \in Nat
  BY WindowEndRange, LastWindowedRange, ConstantAssumption DEF TypeOK
<1>2. WindowEnd(b) - b + 1 = WindowEnd(b) - (b - 1) /\ \A i \in Int : b + i - 1 = b - 1 + i
  BY <1>1
<1>3. QED
  BY <1>2 DEF Window, Blocks

\* Sending to a client that waits and has nothing on its way.
LEMMA SendingAlone ==
  ASSUME cPc = "receiving", toClient = <<>>, NEW S, NEW pkts \in Seq(S)
  PROVE  Sending(toClient, pkts) = pkts
  BY ConcatEmptySeq DEF Sending

\* The only ACK on its way, taken out.
LEMMA OneDatagram ==
  ASSUME NEW S, NEW e \in S
  PROVE  /\ RemoveAt(<<e>>, 1) = <<>> /\ DOMAIN <<e>> = {1} /\ <<e>>[1] = e
         /\ DOMAIN <<>> = {} /\ <<e>> # <<>>
<1>1. <<e>> \in Seq(S) /\ <<e>> # <<>> /\ Len(<<e>>) = 1
  OBVIOUS
<1>2. RemoveAt(<<e>>, 1) \in Seq(S) /\ Len(RemoveAt(<<e>>, 1)) = 0
  <2>1. PICK s \in Seq(S) : s = <<e>> /\ s # <<>> /\ Len(s) = 1
    BY <1>1
  <2>2. RemoveAt(s, 1) \in Seq(S) /\ Len(RemoveAt(s, 1)) = Len(s) - 1
    BY <2>1, FirstTaken
  <2>3. QED
    BY <2>1, <2>2
<1>3. RemoveAt(<<e>>, 1) = <<>>
  BY <1>2, EmptySeq
<1>4. QED
  BY <1>3

---------------------------------------------------------------------------
(* A file of any size on a quiet network: the steps. *)

\* A positive multiple of w is at least w.
LEMMA Multiple ==
  ASSUME NEW w \in Nat \ {0}, NEW n \in Nat, n > 0
  PROVE  (n - 1) * w \in Nat /\ n * w = (n - 1) * w + w /\ n * w >= w
<1>1. PICK m \in Nat : m = n - 1 /\ n = m + 1
  OBVIOUS
<1>2. m * w \in Nat /\ (m + 1) * w = m * w + w
  OBVIOUS
<1>3. QED
  BY <1>1, <1>2

\* Where main.rs sends the final block by itself, the blocks of the current window and of the
\* later ones are a multiple of the windowsize.
LEMMA WindowInvariant == Spec /\ SameWindow => []WindowInv
<1>1. Init /\ SameWindow => WindowInv
  <2> SUFFICES ASSUME Init, SameWindow, NEW t \in Tids, LastWindowed < lastBlock
               PROVE  \E n \in 0..lastBlock : LastWindowed = base[t] - 1 + n * clientWindow
    BY DEF WindowInv, WindowsFull
  <2>1. TypeOK
    BY InitInv DEF IInv
  <2>2. lastBlock \in Nat /\ clientWindow \in Nat \ {0} /\ base[t] = 1
    BY <2>1, ConstantAssumption DEF TypeOK, Init
  <2>3. LastWindowed \in 1..lastBlock
    <3>1. lastBlock > 0
      BY <2>2 DEF LastWindowed
    <3>2. QED
      BY <2>1, <3>1, LastWindowedRange
  <2>4. LastWindowed % clientWindow = 0
    BY DEF SameWindow, UnackedLastWindow
  <2>5. PICK n \in Nat : LastWindowed = clientWindow * n
    BY <2>2, <2>3, <2>4, DivMod
  <2>6. n <= LastWindowed
    <3>1. PICK v \in Nat : clientWindow = v + 1
      BY <2>2
    <3>2. v * n \in Nat /\ (v + 1) * n = v * n + n
      OBVIOUS
    <3>3. QED
      BY <2>3, <2>5, <3>1, <3>2
  <2>7. n \in 0..lastBlock /\ LastWindowed = base[t] - 1 + n * clientWindow
    BY <2>2, <2>3, <2>5, <2>6
  <2>8. QED
    BY <2>7
<1>2. AnySizeInv /\ WindowInv /\ [Next]_vars => WindowInv'
  <2> SUFFICES ASSUME AnySizeInv, WindowInv, [Next]_vars PROVE WindowInv'
    OBVIOUS
  <2>1. UNCHANGED fileVars
    BY DEF Next, Client, ClientRecv, ClientTimeout, Server, Accept, RecvAck, AckTimeout,
       Lose, Duplicate, vars
  <2>2. /\ LastWindowed' = LastWindowed /\ lastBlock' = lastBlock /\ clientWindow' = clientWindow
        /\ SameWindow'
    BY <2>1 DEF fileVars, LastWindowed, windowsize, SameWindow, UnackedLastWindow, WindowInv
  <2>3. ASSUME NEW t \in Tids, base'[t] = base[t] PROVE WindowsFull(t)'
    BY <2>2, <2>3 DEF WindowsFull, WindowInv
  <2>4. ASSUME NEW t \in Tids, WindowAcked(t), base' = [base EXCEPT ![t] = WindowEnd(base[t]) + 1],
               WindowEnd(base[t]) < LastWindowed, LastWindowed < lastBlock
        PROVE  WindowsFull(t)'
    <3>1. TypeOK /\ sPc[t] = "window" /\ windowsize = clientWindow
      BY <2>4 DEF AnySizeInv, WindowAcked, WindowInv, SameWindow
    <3>2. base[t] \in Nat \ {0} /\ lastBlock \in Nat /\ clientWindow \in Nat \ {0}
      BY <3>1, ConstantAssumption DEF TypeOK
    <3>3. LastWindowed \in Nat
      BY <2>4, <3>2 DEF LastWindowed
    <3>4. WindowEnd(base[t]) = base[t] + clientWindow - 1
      BY <2>4, <3>1, <3>2, <3>3 DEF WindowEnd
    <3>5. base'[t] = base[t] + clientWindow
      BY <2>4, <3>1, <3>2, <3>4 DEF TypeOK
    <3>6. PICK n \in 0..lastBlock : LastWindowed = base[t] - 1 + n * clientWindow
      BY <2>4 DEF WindowInv, WindowsFull
    <3>7. n > 0
      <4>1. n = 0 => n * clientWindow = 0
        BY <3>2
      <4>2. QED
        BY <2>4, <3>2, <3>3, <3>4, <3>6, <4>1
    <3>8. n - 1 \in 0..lastBlock /\ n * clientWindow = (n - 1) * clientWindow + clientWindow
          /\ (n - 1) * clientWindow \in Nat
      BY <3>2, <3>7, Multiple
    <3>9. LastWindowed = base'[t] - 1 + (n - 1) * clientWindow
      BY <3>2, <3>3, <3>5, <3>6, <3>8
    <3>10. QED
      BY <2>2, <3>8, <3>9 DEF WindowsFull
  <2>5. ASSUME NEW t \in Tids, NEW u \in Tids, Server(u) PROVE WindowsFull(t)'
    <3>1. base \in [Tids -> Nat \ {0}]
      BY DEF AnySizeInv, TypeOK
    <3>2. CASE base' = base
      BY <2>3, <3>2
    <3>3. CASE /\ WindowAcked(u) /\ base' = [base EXCEPT ![u] = WindowEnd(base[u]) + 1]
               /\ WindowEnd(base[u]) < LastWindowed
      <4>1. CASE LastWindowed < lastBlock
        BY <2>3, <2>4, <3>1, <3>3, <4>1
      <4>2. CASE ~(LastWindowed < lastBlock)
        BY <2>2, <4>2 DEF WindowsFull
      <4>3. QED
        BY <4>1, <4>2
    <3>4. QED
      BY <2>5, <3>2, <3>3 DEF Server, Accept, RecvAck, AckTimeout, NoAck, WaitAgain, ResendWindow,
         TailFails, OackAcked, EmptyAcked, WindowAcked, TailAcked
  <2>6. CASE ~(\E u \in Tids : Server(u))
    <3>1. base' = base
      BY <2>6 DEF Next, Client, ClientRecv, ClientTimeout, Lose, Duplicate, vars, serverVars
    <3>2. QED
      BY <2>2, <2>3, <3>1 DEF WindowInv
  <2>7. QED
    BY <2>2, <2>5, <2>6 DEF WindowInv
<1>3. QED
  BY <1>1, <1>2, AnySizeInvariant, PTL DEF Spec

\* With one window on both sides, the window of a task that waits for its ACK is as long as
\* the client waits for, or ends with the final block.
LEMMA EndFacts ==
  ASSUME WindowInv, AnySizeInv, NEW t \in Tids, SendsData(t),
         sPc[t] = "empty" => EmptyFile /\ base[t] = 1
  PROVE  /\ lastBlock \in Nat /\ clientWindow \in 1..(BlockMod - 1)
         /\ First(t) \in 1..lastBlock /\ End(t) \in First(t)..lastBlock
         /\ End(t) - First(t) + 1 <= clientWindow
         /\ End(t) = lastBlock \/ End(t) - First(t) + 1 = clientWindow
         /\ Expected(t) = BlockNum(End(t))
<1>1. TypeOK /\ TaskOkAnySize(t)
  BY DEF AnySizeInv
<1>2. lastBlock \in Nat /\ lastBlock > 0
  BY <1>1, ConstantAssumption DEF TypeOK, TaskOkAnySize, SendsData, Waiting
<1>3. windowsize = clientWindow /\ clientWindow \in 1..(BlockMod - 1)
  BY <1>1, ConstantAssumption DEF WindowInv, SameWindow, TypeOK
<1>4. CASE sPc[t] = "tail"
  BY <1>2, <1>3, <1>4 DEF First, End, Expected
<1>5. CASE sPc[t] \in {"empty", "window"}
  <2> DEFINE b == base[t]
             e == WindowEnd(b)
  <2>1. First(t) = b /\ End(t) = e
    BY <1>5 DEF First, End
  <2>2. LastWindowed \in 1..lastBlock
    BY <1>1, <1>2, LastWindowedRange
  <2>3. b \in 1..LastWindowed
    <3>1. b \in Nat \ {0}
      BY <1>1 DEF TypeOK
    <3>2. sPc[t] = "empty" => b = 1
      OBVIOUS
    <3>3. sPc[t] = "window" => b <= LastWindowed
      BY <1>1 DEF TaskOkAnySize
    <3>4. QED
      BY <1>2, <1>5, <2>2, <3>1, <3>2, <3>3
  <2>4. e \in b..LastWindowed
    BY <1>1, <1>2, <2>3, WindowEndRange
  <2>5. e = IF b + clientWindow - 1 < LastWindowed THEN b + clientWindow - 1 ELSE LastWindowed
    BY <1>3 DEF WindowEnd
  <2>6. Expected(t) = BlockNum(e)
    <3>1. CASE sPc[t] = "window"
      BY <3>1 DEF Expected
    <3>2. CASE sPc[t] = "empty"
      <4>1. e = 1
        BY <1>2, <2>2, <2>3, <2>4, <3>2 DEF EmptyFile
      <4>2. BlockNum(1) = 1
        BY BlockNumSmall, ConstantAssumption
      <4>3. QED
        BY <3>2, <4>1, <4>2 DEF Expected
    <3>3. QED
      BY <1>5, <3>1, <3>2
  <2> HIDE DEF b, e
  <2>7. e - b + 1 <= clientWindow
    BY <1>2, <1>3, <2>2, <2>3, <2>4, <2>5
  <2>8. e = lastBlock \/ e - b + 1 = clientWindow
    <3>1. CASE LastWindowed = lastBlock
      BY <1>2, <1>3, <2>2, <2>3, <2>4, <2>5, <3>1, ConstantAssumption
    <3>2. CASE LastWindowed < lastBlock
      <4>1. PICK n \in 0..lastBlock : LastWindowed = b - 1 + n * clientWindow
        BY <3>2 DEF WindowInv, WindowsFull, b
      <4>2. n > 0
        <5>1. n = 0 => n * clientWindow = 0
          BY <1>3, ConstantAssumption
        <5>2. QED
          BY <1>2, <2>2, <2>3, <4>1, <5>1
      <4>3. n * clientWindow >= clientWindow /\ n * clientWindow \in Nat
        BY <1>3, <4>2, Multiple, ConstantAssumption
      <4>4. b + clientWindow - 1 <= LastWindowed
        BY <1>3, <2>2, <2>3, <4>1, <4>3, ConstantAssumption
      <4>5. QED
        BY <1>3, <2>2, <2>3, <2>4, <2>5, <4>4, ConstantAssumption
    <3>3. QED
      BY <1>2, <2>2, <3>1, <3>2
  <2>9. QED
    BY <1>2, <1>3, <2>1, <2>2, <2>3, <2>4, <2>6, <2>7, <2>8
<1>6. QED
  BY <1>4, <1>5 DEF SendsData

\* The first window goes out to a client that waits for it.
LEMMA StartReading ==
  ASSUME AnySizeInv, NEW t \in Tids, lastBlock > 0, sPc[t] \in {"idle", "oack"},
         StartData(t), base' = base, UNCHANGED <<fileVars, clientVars>>,
         toClient = <<>>, cPc = "receiving", Len(written) = 0, lastAck = 0, toServer'[t] = <<>>
  PROVE  Reading(t)' /\ (sPc'[t] = "empty" => EmptyFile' /\ base'[t] = 1)
<1>1. TypeOK /\ TaskOkAnySize(t) /\ base[t] = 1
  BY DEF AnySizeInv, TaskOkAnySize
<1>2. LastWindowed \in 1..lastBlock /\ lastBlock \in Nat
  BY <1>1, LastWindowedRange, ConstantAssumption DEF TypeOK
<1>3. 1 \in 1..LastWindowed /\ WindowEnd(1) \in 1..LastWindowed
  BY <1>1, <1>2, WindowEndRange
<1>4. /\ toClient' = Blocks(t, 0, WindowEnd(1))
      /\ sPc'[t] = IF EmptyFile THEN "empty" ELSE "window"
  <2>1. Window(t, 1) = Blocks(t, 0, WindowEnd(1)) /\ Window(t, 1) \in Seq(GoodPacket)
    BY <1>1, <1>3, WindowBlocks, WindowPackets
  <2>2. toClient' = Window(t, 1)
    BY <2>1, SendingAlone DEF StartData
  <2>3. QED
    BY <1>1, <2>1, <2>2 DEF StartData, TypeOK
<1>5. WindowEnd(1)' = WindowEnd(1) /\ EmptyFile' = EmptyFile
  BY DEF fileVars, WindowEnd, LastWindowed, windowsize, EmptyFile
<1>6. base'[t] = 1 /\ written' = written /\ lastAck' = 0 /\ cPc' = "receiving"
  BY <1>1 DEF clientVars
<1>7. First(t)' = 1 /\ End(t)' = WindowEnd(1) /\ SendsData(t)'
  BY <1>4, <1>5, <1>6 DEF First, End, SendsData
<1>8. BlockNum(0) = 0
  BY BlockNumSmall, ConstantAssumption
<1>9. Reading(t)'
  BY <1>2, <1>3, <1>4, <1>6, <1>7, <1>8 DEF Reading
<1>10. QED
  BY <1>4, <1>5, <1>6, <1>9

\* The RRQ is accepted once.
LEMMA QuietAccept ==
  ASSUME QuietInv, NEW t \in Tids, Accept(t)
  PROVE  QuietInv'
<1>1. NotAccepted /\ AnySizeInv /\ TypeOK
  BY DEF QuietInv, Accept, OnlyTask, AnySizeInv
<1>2. AnySizeInv'
  BY <1>1, AnySizeServer DEF Server
<1>3. /\ UNCHANGED <<fileVars, clientVars>> /\ base' = base /\ toServer' = toServer /\ rrqs' = 0
      /\ sPc[t] = "idle" /\ lastBlock \in Nat /\ t # NoTid
  BY <1>1, ConstantAssumption DEF Accept, NotAccepted, TypeOK
<1>4. toServer'[t] = <<>>
  BY <1>1, <1>3 DEF AnySizeInv, AcksGoToServerTid, NotAccepted
<1>5. /\ cPc' = "receiving" /\ tid' = NoTid /\ written' = written /\ buffer' = buffer
      /\ lastAck' = 0 /\ Len(written) = 0 /\ lastBlock' = lastBlock
  BY <1>1, <1>3 DEF clientVars, fileVars, NotAccepted
<1>6. \A u \in Tids \ {t} : sPc'[u] = "idle"
  BY <1>1 DEF Accept, StartData, NotAccepted, TypeOK
<1>7. OnlyTask(t)'
  <2>1. CASE lastBlock = 0 /\ sPc' = [sPc EXCEPT ![t] = "refused"] /\ toClient' = Sending(toClient, <<Error(t)>>)
    <3>1. toClient' = <<Error(t)>>
      BY <1>1, <2>1, SendingAlone, OnePacket, <1>3 DEF NotAccepted
    <3>2. sPc'[t] = "refused"
      BY <1>1, <2>1 DEF TypeOK
    <3>3. Refused(t)'
      BY <1>4, <1>5, <2>1, <3>1, <3>2 DEF Refused, Error
    <3>4. QED
      BY <1>3, <1>5, <1>6, <3>2, <3>3 DEF OnlyTask
  <2>2. CASE sPc' = [sPc EXCEPT ![t] = "oack"] /\ toClient' = Sending(toClient, <<Oack(t)>>)
    <3>1. toClient' = <<Oack(t)>>
      BY <1>1, <2>2, SendingAlone, OnePacket, <1>3 DEF NotAccepted
    <3>2. sPc'[t] = "oack"
      BY <1>1, <2>2 DEF TypeOK
    <3>3. Negotiating(t)'
      BY <1>4, <1>5, <2>2, <3>1, <3>2 DEF Negotiating, Oack
    <3>4. QED
      BY <1>3, <1>5, <1>6, <3>2, <3>3 DEF OnlyTask
  <2>3. CASE lastBlock > 0 /\ StartData(t)
    <3>1. Reading(t)' /\ (sPc'[t] = "empty" => EmptyFile' /\ base'[t] = 1)
      BY <1>1, <1>3, <1>4, <2>3, StartReading DEF NotAccepted
    <3>2. QED
      BY <1>3, <1>5, <1>6, <3>1 DEF OnlyTask
  <2>4. QED
    BY <2>1, <2>2, <2>3 DEF Accept
<1>8. QED
  BY <1>2, <1>5, <1>7 DEF QuietInv

\* A task that does something after its RRQ is the only one that runs.
LEMMA TheTask ==
  ASSUME QuietInv, NEW t \in Tids, sPc[t] # "idle"
  PROVE  OnlyTask(t)
  BY DEF QuietInv, NotAccepted, OnlyTask

\* The ACK of a whole window: the task goes on to the next, to main.rs's separate final block,
\* or it is done.
LEMMA WindowReadAcked ==
  ASSUME WindowInv, AnySizeInv, NEW t \in Tids, WindowRead(t),
         sPc[t] = "empty" => EmptyFile /\ base[t] = 1,
         EmptyAcked(t) \/ WindowAcked(t) \/ TailAcked(t),
         UNCHANGED <<fileVars, clientVars>>, toServer'[t] = <<>>
  PROVE  /\ Reading(t)' \/ Served(t)'
         /\ sPc'[t] # "empty"
<1>1. TypeOK /\ TaskOkAnySize(t)
  BY DEF AnySizeInv
<1>2. /\ lastBlock \in Nat /\ First(t) \in 1..lastBlock /\ End(t) \in First(t)..lastBlock
      /\ SendsData(t) /\ toClient = <<>> /\ Len(written) = End(t) /\ lastAck = BlockNum(End(t))
      /\ cPc = IF End(t) = lastBlock THEN "done" ELSE "receiving"
  BY EndFacts DEF WindowRead
<1>3. /\ written' = written /\ lastAck' = lastAck /\ cPc' = cPc /\ lastBlock' = lastBlock
      /\ LastWindowed' = LastWindowed /\ windowsize' = windowsize
  BY DEF fileVars, clientVars, LastWindowed, windowsize
<1>4. CASE sPc' = [sPc EXCEPT ![t] = "completed"] /\ toClient' = toClient /\ End(t) = lastBlock
  <2>1. sPc'[t] = "completed"
    BY <1>1, <1>4 DEF TypeOK
  <2>2. QED
    BY <1>2, <1>3, <1>4, <2>1 DEF Served
<1>5. CASE EmptyAcked(t)
  <2>1. End(t) = WindowEnd(1) /\ lastBlock = 1
    BY <1>5 DEF EmptyAcked, End, EmptyFile
  <2>2. End(t) = lastBlock
    BY <1>2, <2>1
  <2>3. QED
    BY <1>4, <1>5, <2>2 DEF EmptyAcked
<1>6. CASE TailAcked(t)
  <2>1. sPc'[t] = "closed" /\ toClient' = toClient /\ End(t) = lastBlock
    BY <1>1, <1>6 DEF TypeOK, TailAcked, End
  <2>2. QED
    BY <1>2, <1>3, <2>1 DEF Served
<1>7. CASE WindowAcked(t)
  <2> DEFINE end == WindowEnd(base[t])
  <2>1. sPc[t] = "window" /\ End(t) = end /\ First(t) = base[t]
    BY <1>7 DEF WindowAcked, End, First
  <2>2. LastWindowed \in 1..lastBlock /\ LastWindowed >= lastBlock - 1
    BY <1>1, <1>2, LastWindowedRange
  <2> HIDE DEF end
  <2>3. CASE end = lastBlock /\ sPc' = [sPc EXCEPT ![t] = "completed"] /\ toClient' = toClient
    BY <1>4, <2>1, <2>3
  <2>4. CASE /\ end = LastWindowed /\ end < lastBlock
             /\ sPc' = [sPc EXCEPT ![t] = "tail"]
             /\ toClient' = Sending(toClient, <<Data(t, lastBlock)>>)
    <3>1. sPc'[t] = "tail" /\ cPc = "receiving" /\ end = lastBlock - 1 /\ end \in Nat
      BY <1>1, <1>2, <2>1, <2>2, <2>4 DEF TypeOK
    <3>2. toClient' = <<Data(t, lastBlock)>>
      <4>1. <<Data(t, lastBlock)>> \in Seq(GoodPacket)
        BY <1>2, OnePacket
      <4>2. QED
        BY <1>2, <2>4, <3>1, <4>1, SendingAlone
    <3>3. First(t)' = lastBlock /\ End(t)' = lastBlock /\ SendsData(t)'
      BY <1>3, <3>1 DEF First, End, SendsData
    <3>4. Blocks(t, lastBlock - 1, lastBlock) = <<Data(t, lastBlock)>>
      <4>1. lastBlock - (lastBlock - 1) = 1 /\ lastBlock - 1 + 1 = lastBlock
        BY <1>2
      <4>2. Blocks(t, lastBlock - 1, lastBlock) = [i \in 1..1 |-> Data(t, lastBlock - 1 + i)]
        BY <4>1 DEF Blocks
      <4>3. \A i \in 1..1 : Data(t, lastBlock - 1 + i) = Data(t, lastBlock)
        BY <4>1
      <4>4. [i \in 1..1 |-> Data(t, lastBlock - 1 + i)] = [i \in 1..1 |-> Data(t, lastBlock)]
        BY <4>3
      <4>5. [i \in 1..1 |-> Data(t, lastBlock)] = <<Data(t, lastBlock)>>
        OBVIOUS
      <4>6. QED
        BY <4>2, <4>4, <4>5
    <3>5. Reading(t)'
      BY <1>2, <1>3, <2>1, <3>1, <3>2, <3>3, <3>4 DEF Reading
    <3>6. QED
      BY <3>1, <3>5
  <2>5. CASE /\ end < LastWindowed
             /\ base' = [base EXCEPT ![t] = end + 1]
             /\ toClient' = Sending(toClient, Window(t, end + 1))
             /\ UNCHANGED sPc
    <3>1. base'[t] = end + 1 /\ cPc = "receiving" /\ end \in Nat /\ end + 1 \in 1..LastWindowed
      BY <1>1, <1>2, <2>1, <2>2, <2>5 DEF TypeOK
    <3> DEFINE next == WindowEnd(end + 1)
    <3>2. next \in (end + 1)..LastWindowed
      BY <1>1, <1>2, <2>2, <3>1, WindowEndRange
    <3>3. toClient' = Blocks(t, end, next)
      <4>1. Window(t, end + 1) = Blocks(t, end + 1 - 1, next) /\ Window(t, end + 1) \in Seq(GoodPacket)
        BY <1>1, <1>2, <2>2, <3>1, WindowBlocks, WindowPackets
      <4>2. end + 1 - 1 = end
        BY <3>1
      <4>3. toClient' = Window(t, end + 1)
        BY <1>2, <2>5, <3>1, <4>1, SendingAlone
      <4>4. QED
        BY <4>1, <4>2, <4>3
    <3>4. First(t)' = end + 1 /\ End(t)' = next /\ SendsData(t)'
      <4>1. WindowEnd(end + 1) = IF end + 1 + windowsize - 1 < LastWindowed THEN end + 1 + windowsize - 1 ELSE LastWindowed
        BY DEF WindowEnd
      <4>2. sPc'[t] = "window"
        BY <2>1, <2>5
      <4>3. QED
        BY <1>3, <3>1, <4>1, <4>2 DEF First, End, SendsData, WindowEnd
    <3> HIDE DEF next
    <3>5. Reading(t)'
      <4>1. end < next /\ end + 1 - 1 = end /\ end + 1 <= end + 1
        BY <2>2, <3>1, <3>2
      <4>2. QED
        BY <1>2, <1>3, <2>1, <3>1, <3>3, <3>4, <4>1 DEF Reading
    <3>6. QED
      BY <2>1, <2>5, <3>5
  <2>6. QED
    BY <1>7, <2>3, <2>4, <2>5 DEF WindowAcked, end
<1>8. QED
  BY <1>5, <1>6, <1>7

\* The task receives the ACK it waits for, and no other.
LEMMA QuietRecvAck ==
  ASSUME QuietNetwork, WindowInv, QuietInv, NEW t \in Tids, RecvAck(t)
  PROVE  QuietInv'
<1>1. AnySizeInv /\ TypeOK /\ TaskOkAnySize(t)
  BY DEF QuietInv, AnySizeInv
<1>2. AnySizeInv'
  BY <1>1, AnySizeServer DEF Server
<1>3. OnlyTask(t)
  BY TheTask DEF RecvAck, Waiting
<1>4. PICK i \in Arriving(toServer[t]) :
        LET k == toServer[t][i] IN
        /\ \/ /\ IsExpectedAck(t, k)
              /\ OackAcked(t) \/ EmptyAcked(t) \/ WindowAcked(t) \/ TailAcked(t)
           \/ /\ ~IsExpectedAck(t, k)
              /\ IF sPc[t] = "tail" /\ IsDuplicateAck(t, k) THEN TailAcked(t) ELSE NoAck(t)
        /\ toServer' = [toServer EXCEPT ![t] =
                          IF sPc'[t] \in Stopped THEN <<>> ELSE RemoveAt(@, i)]
  BY DEF RecvAck
<1>5. i = 1 /\ toServer[t] # <<>>
  BY <1>4 DEF Arriving, QuietNetwork
<1>6. /\ UNCHANGED <<fileVars, rrqs, clientVars>>
      /\ sPc[t] \in Waiting
  BY DEF RecvAck
<1>7. ASSUME NEW k \in 0..(BlockMod - 1), toServer[t] = <<k>>
      PROVE  toServer[t][i] = k /\ toServer'[t] = <<>>
  BY <1>1, <1>4, <1>5, <1>7, OneDatagram DEF TypeOK
<1>8. ASSUME NEW k \in 0..(BlockMod - 1), toServer[t] = <<k>>, k = Expected(t)
      PROVE  OackAcked(t) \/ EmptyAcked(t) \/ WindowAcked(t) \/ TailAcked(t)
  BY <1>4, <1>7, <1>8 DEF IsExpectedAck
<1>9. /\ Reading(t)' \/ Served(t)'
      /\ sPc'[t] = "empty" => EmptyFile' /\ base'[t] = 1
  <2>1. CASE Negotiating(t)
    <3>1. toServer[t] = <<0>> /\ 0 \in 0..(BlockMod - 1) /\ Expected(t) = 0 /\ toClient = <<>>
      BY <1>5, <2>1, ConstantAssumption DEF Negotiating, Expected
    <3>2. toServer'[t] = <<>> /\ OackAcked(t)
      BY <1>7, <1>8, <2>1, <3>1 DEF Negotiating, EmptyAcked, WindowAcked, TailAcked
    <3>3. lastBlock > 0 /\ StartData(t) /\ base' = base /\ sPc[t] = "oack"
      BY <1>1, <3>2 DEF OackAcked, TaskOkAnySize, Waiting
    <3>4. QED
      BY <1>1, <1>6, <2>1, <3>1, <3>2, <3>3, StartReading DEF Negotiating
  <2>2. CASE WindowRead(t)
    <3>1. Expected(t) = BlockNum(End(t)) /\ lastAck = BlockNum(End(t)) /\ SendsData(t)
      BY <1>1, <1>3, <2>2, EndFacts DEF WindowRead, OnlyTask
    <3>2. toServer[t] = <<lastAck>> /\ lastAck \in 0..(BlockMod - 1)
      BY <1>1, <2>2 DEF WindowRead, TypeOK
    <3>3. toServer'[t] = <<>> /\ (EmptyAcked(t) \/ WindowAcked(t) \/ TailAcked(t))
      BY <1>7, <1>8, <3>1, <3>2 DEF OackAcked, SendsData
    <3>4. QED
      BY <1>1, <1>3, <1>6, <2>2, <3>3, WindowReadAcked DEF OnlyTask
  <2>3. QED
    BY <1>3, <1>5, <1>6, <2>1, <2>2 DEF OnlyTask, Refused, Reading, Served, Waiting
<1>10. \A u \in Tids \ {t} : sPc'[u] = "idle"
  <2>1. sPc' = [sPc EXCEPT ![t] = sPc'[t]]
    <3>1. AnySizeInv /\ t = tid
      BY <1>1, <1>5 DEF AnySizeInv, AcksGoToServerTid
    <3>2. CASE NoAck(t)
      BY <1>6, <3>1, <3>2, AnySizeNoAck DEF TaskStepAnySize
    <3>3. CASE OackAcked(t) \/ EmptyAcked(t) \/ WindowAcked(t) \/ TailAcked(t)
      BY <1>6, <3>1, <3>3, AnySizeAcked DEF TaskStepAnySize
    <3>4. QED
      BY <1>4, <3>2, <3>3
  <2>2. QED
    BY <1>3, <1>1, <2>1 DEF OnlyTask, TypeOK
<1>11. OnlyTask(t)'
  BY <1>3, <1>6, <1>9, <1>10 DEF OnlyTask, clientVars
<1>12. QED
  BY <1>2, <1>6, <1>11 DEF QuietInv, clientVars

\* No timer is due: something is on its way whenever somebody waits.
LEMMA QuietTimers ==
  ASSUME QuietNetwork, WindowInv, QuietInv
  PROVE  ~ClientTimeout /\ \A t \in Tids : ~AckTimeout(t)
<1>1. AnySizeInv /\ TypeOK
  BY DEF QuietInv, AnySizeInv
<1>2. ASSUME NEW t \in Tids, OnlyTask(t), Reading(t) PROVE toClient # <<>>
  <2>1. /\ End(t) \in Nat /\ Len(written) \in Nat /\ Len(written) < End(t)
        /\ toClient = Blocks(t, Len(written), End(t))
    BY <1>1, <1>2, EndFacts DEF Reading, OnlyTask, TypeOK
  <2>2. QED
    BY <2>1, BlocksParts
<1>3. ASSUME NEW t \in Tids, AckTimeout(t) PROVE FALSE
  <2>1. OnlyTask(t) /\ toServer[t] = <<>> /\ toClient = <<>> /\ sPc[t] \in Waiting
    BY <1>3, TheTask DEF AckTimeout, Waiting, QuietNetwork
  <2>2. ~Reading(t)
    BY <1>2, <2>1
  <2>3. QED
    BY <2>1, <2>2 DEF OnlyTask, Refused, Negotiating, WindowRead, Served, Waiting
<1>4. ASSUME ClientTimeout PROVE FALSE
  <2>1. cPc = "receiving" /\ toClient = <<>> /\ rrqs = 0 /\ \A t \in Tids : sPc[t] \notin Waiting
    BY <1>4 DEF ClientTimeout, QuietNetwork
  <2>2. PICK t \in Tids : OnlyTask(t)
    BY <2>1 DEF QuietInv, NotAccepted
  <2>3. QED
    BY <2>1, <2>2 DEF OnlyTask, Refused, Negotiating, Reading, WindowRead, Served, Waiting, SendsData
<1>5. QED
  BY <1>3, <1>4

\* The client, whose buffer is empty, receives the block that follows those it has written: it
\* writes it, and acknowledges it exactly if it is the last of the window.
LEMMA BlockRead ==
  ASSUME WindowInv, QuietInv, NEW t \in Tids, OnlyTask(t), Reading(t), tid' = t,
         NEW p, p = Data(t, Len(written) + 1), OldBlock(p) \/ FutureBlock(p) \/ NextBlock(p)
  PROVE  /\ Len(written') = Len(written) + 1
         /\ \A i \in DOMAIN written' : written'[i] = i
         /\ \A k \in 0..(BlockMod - 1) : buffer'[k] = 0
         /\ cPc' = IF Len(written') = lastBlock THEN "done" ELSE "receiving"
         /\ IF Len(written') = End(t)
              THEN lastAck' = BlockNum(End(t)) /\ toServer' = Acking(t, BlockNum(End(t)))
              ELSE lastAck' = lastAck /\ toServer' = toServer
<1> DEFINE n == Len(written) + 1
<1>1. AnySizeInv /\ TypeOK /\ \A k \in 0..(BlockMod - 1) : buffer[k] = 0
  BY DEF QuietInv, AnySizeInv
<1>2. /\ lastBlock \in Nat /\ clientWindow \in 1..(BlockMod - 1)
      /\ First(t) \in 1..lastBlock /\ End(t) \in First(t)..lastBlock
      /\ End(t) - First(t) + 1 <= clientWindow
      /\ End(t) = lastBlock \/ End(t) - First(t) + 1 = clientWindow
  BY <1>1, EndFacts DEF OnlyTask, Reading
<1>3. Len(written) \in Nat /\ n \in First(t)..End(t) /\ n \in Nat /\ cPc = "receiving"
  BY <1>1, <1>2 DEF Reading, TypeOK
<1>4. p.blk = n
  BY DEF Data
<1>5. NextBlock(p)
  <2>1. BlockNum(p.blk) = ExpectedBlock(Len(written))
    BY <1>4 DEF ExpectedBlock
  <2>2. BlockNum(n) \in Int
    BY <1>3, BlockNumRange
  <2>3. QED
    BY <1>4, <2>1, <2>2 DEF OldBlock, FutureBlock
<1>6. PICK k \in 0..BlockMod :
        LET ackNum == BlockNum(n + k) IN
        /\ InSequence(n, k)
        /\ written' = Append(written, p.blk)
                      \o [j \in 1..k |-> buffer[ExpectedBlock(n + j - 1)]]
        /\ buffer' = [w \in 0..(BlockMod - 1) |->
                        IF \E j \in 0..(k - 1) : w = ExpectedBlock(n + j) THEN 0 ELSE buffer[w]]
        /\ lastAck' = IF AckDue(p, ackNum) THEN ackNum ELSE lastAck
        /\ toServer' = IF AckDue(p, ackNum) THEN Acking(tid', ackNum) ELSE toServer
  BY <1>5 DEF NextBlock
<1>7. k = 0
  <2>1. SUFFICES ASSUME k # 0 PROVE FALSE
    OBVIOUS
  <2>2. 0 \in 0..(k - 1) /\ n + 0 = n /\ n + 1 \in Nat
    BY <1>3, <2>1, ConstantAssumption
  <2>3. buffer[BlockNum(n + 1)] # 0
    BY <1>6, <2>2 DEF InSequence, ExpectedBlock
  <2>4. BlockNum(n + 1) \in 0..(BlockMod - 1)
    BY <2>2, BlockNumRange
  <2>5. QED
    BY <1>1, <2>3, <2>4
<1>8. Len(written') = n /\ \A i \in DOMAIN written' : written'[i] = i
  <2> DEFINE d == [j \in 1..k |-> buffer[ExpectedBlock(n + j - 1)]]
             s == Append(written, n)
  <2>1. d = <<>>
    BY <1>7
  <2>2. written \in Seq(Nat) /\ \A i \in 1..Len(written) : written[i] = i
    BY <1>1 DEF QuietInv, TypeOK
  <2>3. s \in Seq(Nat) /\ Len(s) = n /\ DOMAIN s = 1..n /\ s[n] = n /\ \A i \in 1..Len(written) : s[i] = written[i]
    BY <1>3, <2>2, AppendProperties
  <2>4. written' = s \o d
    BY <1>4, <1>6
  <2> HIDE DEF s, d
  <2>5. written' = s
    BY <2>1, <2>3, <2>4, ConcatEmptySeq
  <2>6. \A i \in 1..n : i = n \/ i \in 1..Len(written)
    BY <1>3
  <2> HIDE DEF n
  <2>7. \A i \in 1..n : s[i] = i
    BY <2>2, <2>3, <2>6
  <2>8. QED
    BY <2>3, <2>5, <2>7
<1>9. \A w \in 0..(BlockMod - 1) : buffer'[w] = 0
  BY <1>1, <1>6
<1>10. cPc' = IF n = lastBlock THEN "done" ELSE "receiving"
  BY <1>3, <1>4, <1>5 DEF NextBlock, IsFinal
<1>11. AckDue(p, BlockNum(n)) <=> n = End(t)
  <2> DEFINE f == First(t)
             e == End(t)
             w == clientWindow
  <2>1. lastAck = BlockNum(f - 1)
    BY DEF Reading
  <2>2. (BlockNum(n) - BlockNum(f - 1)) % BlockMod = n - (f - 1)
    <3>1. f - 1 \in Nat /\ f - 1 <= n /\ n < f - 1 + BlockMod
      BY <1>2, <1>3, ConstantAssumption
    <3>2. QED
      BY <1>3, <3>1, Distance
  <2>3. AckDue(p, BlockNum(n)) <=> n - (f - 1) >= w \/ n = lastBlock
    BY <1>4, <2>1, <2>2 DEF AckDue, IsFinal
  <2> HIDE DEF f, e
  <2>4. /\ lastBlock \in Nat /\ f \in Nat /\ e \in Nat /\ w \in Nat /\ n \in Nat
        /\ f <= n /\ n <= e /\ e <= lastBlock /\ e - f + 1 <= w
        /\ e = lastBlock \/ e - f + 1 = w
    BY <1>2, <1>3, ConstantAssumption DEF f, e
  <2>5. n - (f - 1) >= w \/ n = lastBlock <=> n = e
    BY <2>4
  <2>6. QED
    BY <2>3, <2>5 DEF e
<1>12. n + k = n
  BY <1>3, <1>7
<1>13. QED
  BY <1>6, <1>8, <1>9, <1>10, <1>11, <1>12

\* The client receives what is on its way, in order.
LEMMA QuietClientRecv ==
  ASSUME QuietNetwork, WindowInv, QuietInv, ClientRecv
  PROVE  QuietInv'
<1>1. AnySizeInv /\ TypeOK
  BY DEF QuietInv, AnySizeInv
<1>2. AnySizeInv'
  BY <1>1, AnySizeClientRecv
<1>3. PICK i \in Arriving(toClient) :
        LET p == toClient[i] IN
        /\ tid' = ServerTid(p)
        /\ \/ /\ p.tid # tid'
              /\ UNCHANGED <<cPc, written, buffer, lastAck, toServer>>
           \/ /\ p.tid = tid' /\ p.kind = "data"
              /\ OldBlock(p) \/ FutureBlock(p) \/ NextBlock(p)
           \/ /\ p.tid = tid' /\ p.kind = "oack"
              /\ RecvOack
           \/ /\ p.tid = tid' /\ p.kind = "error"
              /\ RecvError
        /\ toClient' = IF cPc' = "receiving" THEN RemoveAt(toClient, i) ELSE <<>>
  BY DEF ClientRecv
<1>4. /\ i = 1 /\ toClient # <<>> /\ cPc = "receiving"
      /\ UNCHANGED <<fileVars, rrqs, serverVars, faultVars>>
  BY <1>3 DEF Arriving, QuietNetwork, ClientRecv
<1>5. PICK t \in Tids : OnlyTask(t)
  BY <1>4 DEF QuietInv, NotAccepted
<1> DEFINE p == toClient[1]
<1>6. ASSUME p.tid = t PROVE tid' = t
  BY <1>3, <1>4, <1>5, <1>6, ConstantAssumption DEF ServerTid, OnlyTask
<1>7. /\ sPc' = sPc /\ base' = base /\ rrqs' = 0 /\ lastBlock' = lastBlock /\ EmptyFile' = EmptyFile
      /\ LastWindowed' = LastWindowed /\ windowsize' = windowsize
      /\ t \in Tids /\ t # NoTid
  BY <1>4, <1>5, ConstantAssumption
     DEF OnlyTask, serverVars, fileVars, LastWindowed, windowsize, EmptyFile
<1>8. First(t)' = First(t) /\ End(t)' = End(t) /\ SendsData(t)' = SendsData(t)
  BY <1>7 DEF First, End, SendsData, WindowEnd
<1>9. ASSUME tid' = t, Refused(t)' \/ Negotiating(t)' \/ Reading(t)' \/ WindowRead(t)',
             \A j \in DOMAIN written' : written'[j] = j,
             \A k \in 0..(BlockMod - 1) : buffer'[k] = 0
      PROVE  QuietInv'
  <2>1. OnlyTask(t)'
    BY <1>5, <1>7, <1>9 DEF OnlyTask
  <2>2. QED
    BY <1>2, <1>7, <1>9, <2>1 DEF QuietInv
<1>10. CASE Refused(t)
  <2>1. toClient = <<Error(t)>> /\ p = Error(t)
    BY <1>4, <1>10 DEF Refused
  <2>2. p.tid = t /\ p.kind = "error"
    BY <2>1 DEF Error
  <2>3. tid' = t
    BY <1>6, <2>2
  <2>4. RecvError /\ toClient' = <<>>
    BY <1>3, <1>4, <2>2, <2>3 DEF RecvError
  <2>5. Refused(t)' /\ written' = written /\ buffer' = buffer
    BY <1>7, <1>10, <2>4 DEF Refused, RecvError
  <2>6. QED
    BY <1>9, <2>3, <2>5 DEF QuietInv
<1>11. CASE Negotiating(t)
  <2>1. toClient = <<Oack(t)>> /\ p = Oack(t) /\ toServer[t] = <<>>
    BY <1>4, <1>11 DEF Negotiating
  <2>2. p.tid = t /\ p.kind = "oack"
    BY <2>1 DEF Oack
  <2>3. tid' = t
    BY <1>6, <2>2
  <2>4. RecvOack /\ cPc' = "receiving"
    BY <1>3, <1>4, <2>2, <2>3 DEF RecvOack
  <2>5. toClient' = <<>>
    <3>1. RemoveAt(<<Oack(t)>>, 1) = <<>>
      BY OneDatagram
    <3>2. QED
      BY <1>3, <1>4, <2>1, <2>4, <3>1
  <2>6. toServer'[t] = <<0>>
    <3>1. sPc[t] = "oack" /\ toServer' = Acking(t, 0)
      BY <1>11, <2>3, <2>4 DEF Negotiating, RecvOack
    <3>2. toServer' = [toServer EXCEPT ![t] = Append(<<>>, 0)]
      BY <2>1, <3>1 DEF Acking, Stopped
    <3>3. QED
      BY <1>1, <1>7, <3>2 DEF TypeOK
  <2>7. Negotiating(t)' /\ written' = written /\ buffer' = buffer
    BY <1>7, <1>11, <2>4, <2>5, <2>6 DEF Negotiating, RecvOack
  <2>8. QED
    BY <1>9, <2>3, <2>7 DEF QuietInv
<1>12. CASE Reading(t)
  <2> DEFINE m == Len(written)
             e == End(t)
  <2>1. m \in Nat /\ e \in Nat /\ m < e /\ toClient = Blocks(t, m, e) /\ e <= lastBlock
    BY <1>1, <1>5, <1>12, EndFacts DEF OnlyTask, Reading, TypeOK
  <2>2. /\ p = Data(t, m + 1) /\ RemoveAt(toClient, 1) = Blocks(t, m + 1, e)
        /\ Blocks(t, e, e) = <<>>
    BY <1>7, <2>1, BlocksParts
  <2>3. p.tid = t /\ p.kind = "data"
    BY <2>2 DEF Data
  <2>4. tid' = t
    BY <1>6, <2>3
  <2>5. OldBlock(p) \/ FutureBlock(p) \/ NextBlock(p)
    BY <1>3, <1>4, <2>3, <2>4
  <2>6. /\ Len(written') = m + 1
        /\ \A j \in DOMAIN written' : written'[j] = j
        /\ \A k \in 0..(BlockMod - 1) : buffer'[k] = 0
        /\ cPc' = IF Len(written') = lastBlock THEN "done" ELSE "receiving"
        /\ IF Len(written') = e
             THEN lastAck' = BlockNum(e) /\ toServer' = Acking(t, BlockNum(e))
             ELSE lastAck' = lastAck /\ toServer' = toServer
    BY <1>5, <1>12, <2>2, <2>4, <2>5, BlockRead
  <2>7. toClient' = IF cPc' = "receiving" THEN RemoveAt(toClient, 1) ELSE <<>>
    BY <1>3, <1>4
  <2> HIDE DEF m, e, p
  <2>8. CASE m + 1 = e
    <3>1. toClient' = <<>>
      BY <2>2, <2>7, <2>8
    <3>2. toServer'[t] = <<BlockNum(e)>>
      <4>1. toServer[t] = <<>> /\ sPc[t] \notin Stopped
        BY <1>12 DEF Reading, SendsData, Stopped
      <4>2. toServer' = [toServer EXCEPT ![t] = Append(<<>>, BlockNum(e))]
        BY <2>6, <2>8, <4>1 DEF Acking
      <4>3. QED
        BY <1>1, <1>7, <4>2 DEF TypeOK
    <3>3. WindowRead(t)'
      BY <1>7, <1>8, <1>12, <2>1, <2>6, <2>8, <3>1, <3>2 DEF WindowRead, Reading, e
    <3>4. QED
      BY <1>9, <2>4, <2>6, <3>3
  <2>9. CASE m + 1 # e
    <3>1. m + 1 < e /\ m + 1 # lastBlock
      <4>1. lastBlock \in Nat
        BY <1>1, ConstantAssumption DEF TypeOK
      <4>2. QED
        BY <2>1, <2>9, <4>1
    <3>2. cPc' = "receiving" /\ toClient' = Blocks(t, m + 1, e)
      BY <2>2, <2>6, <2>7, <3>1
    <3>3. First(t) <= m + 1 /\ First(t) \in Nat
      BY <1>1, <1>5, <1>12, EndFacts, ConstantAssumption DEF Reading, OnlyTask, m
    <3>4. Reading(t)'
      BY <1>7, <1>8, <1>12, <2>1, <2>6, <2>9, <3>1, <3>2, <3>3 DEF Reading, e
    <3>5. QED
      BY <1>9, <2>4, <2>6, <3>4
  <2>10. QED
    BY <2>8, <2>9
<1>13. QED
  BY <1>4, <1>5, <1>10, <1>11, <1>12 DEF OnlyTask, WindowRead, Served

\* The invariant holds of every transfer on a quiet network, wraps of the block number
\* included.
LEMMA QuietInvariant ==
  ASSUME QuietNetwork PROVE Spec /\ SameWindow => []QuietInv
<1>1. Init => QuietInv
  <2> SUFFICES ASSUME Init PROVE QuietInv
    OBVIOUS
  <2>1. AnySizeInv
    BY InitInv DEF IInv, AnySizeInv, TaskOk, TaskOkAnySize, AcksGoToServerTid, Init
  <2>2. QED
    BY <2>1 DEF Init, QuietInv, NotAccepted
<1>2. WindowInv /\ QuietInv /\ [Next]_vars => QuietInv'
  <2> SUFFICES ASSUME WindowInv, QuietInv, [Next]_vars PROVE QuietInv'
    OBVIOUS
  <2>1. CASE ClientRecv
    BY <2>1, QuietClientRecv
  <2>2. CASE Lose \/ Duplicate
    BY <2>2 DEF Lose, Duplicate, QuietNetwork, QuietInv, AnySizeInv, TypeOK
  <2>3. ASSUME NEW t \in Tids, Server(t) PROVE QuietInv'
    BY <2>3, QuietAccept, QuietRecvAck, QuietTimers DEF Server
  <2>4. CASE UNCHANGED vars
    <3>1. /\ binary' = binary /\ defaultWindow' = defaultWindow
          /\ lastBlock' = lastBlock /\ emptyTail' = emptyTail /\ clientWindow' = clientWindow
          /\ rrqs' = rrqs /\ sPc' = sPc /\ base' = base /\ tries' = tries /\ toServer' = toServer
          /\ cPc' = cPc /\ tid' = tid /\ written' = written /\ buffer' = buffer
          /\ lastAck' = lastAck /\ toClient' = toClient /\ lost' = lost /\ dups' = dups
      BY <2>4 DEF vars, fileVars, serverVars, clientVars, faultVars
    <3>2. LastWindowed' = LastWindowed /\ windowsize' = windowsize /\ EmptyFile' = EmptyFile
      BY <3>1 DEF LastWindowed, windowsize, EmptyFile
    <3>3. AnySizeInv'
      BY <3>1, <3>2 DEF QuietInv, AnySizeInv, TypeOK, AcksGoToServerTid, TaskOkAnySize
    <3>4. NotAccepted => NotAccepted'
      BY <3>1 DEF NotAccepted
    <3>5. ASSUME NEW t \in Tids, OnlyTask(t) PROVE OnlyTask(t)'
      <4>1. First(t)' = First(t) /\ End(t)' = End(t) /\ SendsData(t)' = SendsData(t)
        BY <3>1, <3>2 DEF First, End, SendsData, WindowEnd
      <4>2. /\ Refused(t) => Refused(t)'
            /\ Negotiating(t) => Negotiating(t)'
            /\ Reading(t) => Reading(t)'
            /\ WindowRead(t) => WindowRead(t)'
            /\ Served(t) => Served(t)'
        BY <3>1, <4>1 DEF Refused, Negotiating, Reading, WindowRead, Served
      <4>3. QED
        BY <3>1, <3>2, <3>5, <4>2 DEF OnlyTask
    <3>6. QED
      BY <3>1, <3>3, <3>4, <3>5 DEF QuietInv
  <2>5. QED
    BY <2>1, <2>2, <2>3, <2>4, QuietTimers DEF Next, Client
<1>3. QED
  BY <1>1, <1>2, WindowInvariant, PTL DEF Spec

---------------------------------------------------------------------------
(* The theorems. *)

\* Without a wrap of the block number, the invariant holds of every transfer.
LEMMA Invariant ==
  ASSUME NoWrap PROVE Spec => []IInv
<1>1. Init => IInv
  BY InitInv
<1>2. IInv /\ [Next]_vars => IInv'
  BY NextInv
<1>3. QED
  BY <1>1, <1>2, PTL DEF Spec

\* In every transfer, of a file of any size, the variables keep their types: a task never
\* waits more than MAX_RETRIES times for one ACK (the retry loops of server.rs).
THEOREM TypeCorrect == Spec => []TypeOK
<1>1. AnySizeInv => TypeOK
  BY DEF AnySizeInv
<1>2. QED
  BY <1>1, AnySizeInvariant, PTL

\* In every transfer below BlockMod blocks, of any size and windowsize, the file that
\* client.rs writes is a prefix of the served one.
THEOREM IntegrityHolds ==
  ASSUME NoWrap PROVE Spec => []Integrity
<1>1. IInv => Integrity
  BY DEF IInv
<1>2. QED
  BY <1>1, Invariant, PTL

\* In every transfer below BlockMod blocks, transfer_completed is logged only when the
\* client has written the whole file.
THEOREM CompletedDelivered ==
  ASSUME NoWrap PROVE Spec => []CompletedMeansDelivered
<1>1. IInv => CompletedMeansDelivered
  BY DEF IInv, TaskOk, CompletedMeansDelivered
<1>2. QED
  BY <1>1, Invariant, PTL

\* In every transfer below BlockMod blocks, main.rs sends its separate final block, and
\* closes the transfer, only when the client has every block before it.
THEOREM ClosedAllButTail ==
  ASSUME NoWrap PROVE Spec => []ClosedMeansAllButTail
<1>1. IInv => ClosedMeansAllButTail
  BY DEF IInv, TaskOk, ClosedMeansAllButTail
<1>2. QED
  BY <1>1, Invariant, PTL

\* However often the RRQ is duplicated, and whatever the size of the file, at most one of
\* the tasks it starts passes its first exchange with the client.
THEOREM OneTask == Spec => []OneTaskServed
<1>1. AnySizeInv => OneTaskServed
  BY DEF AnySizeInv, TaskOkAnySize, OneTaskServed
<1>2. QED
  BY <1>1, AnySizeInvariant, PTL

---------------------------------------------------------------------------
(* The theorems for a file of any size on a quiet network. *)

\* On a quiet network the client's numbers may wrap: where client and server use one
\* windowsize and main.rs's last window is not left unacknowledged, the file that client.rs
\* writes is a prefix of the served one, whatever its size.
THEOREM QuietIntegrity ==
  ASSUME QuietNetwork PROVE Spec /\ SameWindow => []Integrity
<1>1. WindowInv /\ QuietInv => Integrity
  <2> SUFFICES ASSUME WindowInv, QuietInv PROVE Integrity
    OBVIOUS
  <2>1. AnySizeInv /\ lastBlock \in Nat /\ Len(written) \in Nat
    BY ConstantAssumption DEF QuietInv, AnySizeInv, TypeOK
  <2>2. ASSUME NEW t \in Tids, OnlyTask(t) PROVE Len(written) <= lastBlock
    <3>1. CASE SendsData(t)
      BY <2>1, <2>2, <3>1, EndFacts DEF OnlyTask, Refused, Negotiating, Reading, WindowRead, Served
    <3>2. CASE ~SendsData(t)
      BY <2>1, <2>2, <3>2 DEF OnlyTask, Refused, Negotiating, Reading, WindowRead, Served
    <3>3. QED
      BY <3>1, <3>2
  <2>3. QED
    BY <2>1, <2>2 DEF QuietInv, NotAccepted, Integrity
<1>2. QED
  BY <1>1, QuietInvariant, WindowInvariant, PTL

\* In the same transfers transfer_completed is logged only when the client has written the
\* whole file, whatever its size.
THEOREM QuietCompletion ==
  ASSUME QuietNetwork PROVE Spec /\ SameWindow => []CompletedMeansDelivered
<1>1. QuietInv => CompletedMeansDelivered
  BY TheTask DEF OnlyTask, Refused, Negotiating, Reading, WindowRead, Served, SendsData,
     CompletedMeansDelivered
<1>2. QED
  BY <1>1, QuietInvariant, PTL

\* On a quiet network no task of server.rs runs out of retries, whatever the size of the file,
\* and client.rs's get fails only if the server has no such file, if both use one windowsize;
\* nor does one of main.rs, unless the empty final block is to follow a window that is cut
\* short (SameWindow; FaultFreeDelivery says what happens there).
THEOREM QuietSuccess ==
  ASSUME QuietNetwork PROVE Spec /\ SameWindow => []NobodyGivesUp
<1>1. QuietInv => NobodyGivesUp
  <2> SUFFICES ASSUME QuietInv PROVE NobodyGivesUp
    OBVIOUS
  <2>1. \A t \in Tids : sPc[t] # "aborted"
    BY TheTask DEF OnlyTask, Refused, Negotiating, Reading, WindowRead, Served, SendsData
  <2>2. cPc = "failed" => lastBlock = 0
    BY DEF QuietInv, NotAccepted, OnlyTask, Refused, Negotiating, Reading, WindowRead, Served
  <2>3. QED
    BY <2>1, <2>2 DEF NobodyGivesUp
<1>2. QED
  BY <1>1, QuietInvariant, PTL

---------------------------------------------------------------------------
(* The refinement of FileDelivery. *)

Credited == \E t \in Tids : sPc[t] = "completed"

\* What the refinement needs of a state, whichever invariant it comes from.
DeliveryInv ==
  /\ TypeOK /\ Integrity
  /\ \A t \in Tids : sPc[t] = "completed" => lastBlock > 0 /\ Len(written) = lastBlock
  /\ cPc = "done" => Len(written) = lastBlock

\* A local file that Integrity describes is the first blocks of the file.
LEMMA WrittenFirstBlocks ==
  ASSUME NEW s \in Seq(Nat), \A i \in DOMAIN s : s[i] = i
  PROVE  s = Delivered!FirstBlocks(Len(s))
<1>1. s = [i \in 1..Len(s) |-> s[i]]
  OBVIOUS
<1>2. QED
  BY <1>1 DEF Delivered!FirstBlocks

\* Appending a block and then any k others makes a sequence longer.
LEMMA LongerThan ==
  ASSUME NEW s \in Seq(Nat), NEW d \in Seq(Nat), NEW x, NEW k \in 0..BlockMod, NEW f(_),
         d = Append(s, x) \o [j \in 1..k |-> f(j)]
  PROVE  Len(d) >= Len(s) + 1
  BY ConstantAssumption

\* A task changes only its own state, and a completed task does nothing more.
LEMMA ServerChanges ==
  ASSUME DeliveryInv, NEW t \in Tids, Server(t)
  PROVE  /\ UNCHANGED <<lastBlock, written, cPc>>
         /\ \A u \in Tids : sPc[u] = "completed" => sPc'[u] = "completed"
<1>1. UNCHANGED <<lastBlock, written, cPc>>
  BY DEF Server, Accept, RecvAck, AckTimeout, fileVars, clientVars
<1>2. sPc[t] # "completed"
  BY DEF Server, Accept, RecvAck, AckTimeout, Waiting
<1>3. ASSUME NEW u \in Tids, u # t PROVE sPc'[u] = sPc[u]
  <2>1. sPc \in [Tids -> {"idle"} \cup Waiting \cup Stopped]
    BY DEF DeliveryInv, TypeOK
  <2>2. \A pc : sPc' = [sPc EXCEPT ![t] = pc] => sPc'[u] = sPc[u]
    BY <1>3, <2>1
  <2>3. CASE Accept(t)
    BY <2>2, <2>3 DEF Accept, StartData
  <2>4. NoAck(t) => sPc'[u] = sPc[u]
    BY <2>2 DEF NoAck, WaitAgain, ResendWindow, TailFails
  <2>5. OackAcked(t) \/ EmptyAcked(t) \/ WindowAcked(t) \/ TailAcked(t) => sPc'[u] = sPc[u]
    BY <2>2 DEF OackAcked, StartData, EmptyAcked, WindowAcked, TailAcked
  <2>6. CASE RecvAck(t)
    BY <2>4, <2>5, <2>6 DEF RecvAck
  <2>7. CASE AckTimeout(t)
    BY <2>4, <2>7 DEF AckTimeout
  <2>8. QED
    BY <2>3, <2>6, <2>7 DEF Server
<1>4. QED
  BY <1>1, <1>2, <1>3

\* A task that completes credits a client that has the whole file.
LEMMA ServerRefines ==
  ASSUME DeliveryInv, DeliveryInv', NEW t \in Tids, Server(t)
  PROVE  [Delivered!Next]_(Delivered!vars)
<1>1. /\ UNCHANGED <<lastBlock, written, cPc>>
      /\ Credited => Credited'
  BY ServerChanges DEF Credited
<1>2. CASE Credited' /\ ~Credited
  <2>1. PICK u \in Tids : sPc'[u] = "completed"
    BY <1>2 DEF Credited
  <2>2. lastBlock > 0 /\ Len(written) = lastBlock
    BY <1>1, <2>1 DEF DeliveryInv
  <2>3. written = Delivered!FirstBlocks(lastBlock)
    BY <2>2, WrittenFirstBlocks DEF DeliveryInv, TypeOK, Integrity
  <2>4. Delivered!Credit
    BY <1>1, <1>2, <2>2, <2>3 DEF Delivered!Credit, Credited
  <2>5. QED
    BY <2>4 DEF Delivered!Next
<1>3. CASE Credited' <=> Credited
  BY <1>1, <1>3 DEF Delivered!vars, Credited
<1>4. QED
  BY <1>1, <1>2, <1>3

\* The client extends its file, gives up, or does nothing FileDelivery sees.
LEMMA ClientRefines ==
  ASSUME DeliveryInv, DeliveryInv', Client
  PROVE  [Delivered!Next]_(Delivered!vars)
<1>1. cPc = "receiving" /\ lastBlock' = lastBlock /\ sPc' = sPc
  BY DEF Client, ClientRecv, ClientTimeout, fileVars, serverVars
<1>2. (Credited' <=> Credited)
  BY <1>1 DEF Credited
<1>3. CASE written' = written /\ cPc' = cPc
  BY <1>1, <1>2, <1>3 DEF Delivered!vars, Credited
<1>4. CASE written' = written /\ cPc' = "failed"
  <2>1. Delivered!GiveUp
    BY <1>1, <1>2, <1>4 DEF Delivered!GiveUp, Credited
  <2>2. QED
    BY <2>1 DEF Delivered!Next
<1>5. ASSUME NEW p, NextBlock(p) PROVE [Delivered!Next]_(Delivered!vars)
  <2>1. written \in Seq(Nat) /\ written' \in Seq(Nat) /\ lastBlock \in Nat
    BY ConstantAssumption DEF DeliveryInv, TypeOK
  <2>2. PICK k \in 0..BlockMod :
          written' = Append(written, p.blk)
                     \o [j \in 1..k |-> buffer[ExpectedBlock(Len(written) + 1 + j - 1)]]
    BY <1>5 DEF NextBlock
  <2>3. Len(written') >= Len(written) + 1
    BY <2>1, <2>2, LongerThan
  <2>4. Len(written') <= lastBlock /\ (cPc' = "done" => Len(written') = lastBlock)
    BY <1>1 DEF DeliveryInv, Integrity
  <2>5. written' = Delivered!FirstBlocks(Len(written'))
    BY <2>1, WrittenFirstBlocks DEF DeliveryInv, Integrity
  <2>6. cPc' \in {"receiving", "done"}
    BY <1>1, <1>5 DEF NextBlock
  <2>7. Delivered!Extend
    BY <1>1, <1>2, <2>1, <2>3, <2>4, <2>5, <2>6 DEF Delivered!Extend, Credited
  <2>8. QED
    BY <2>7 DEF Delivered!Next
<1>6. QED
  BY <1>3, <1>4, <1>5
     DEF Client, ClientRecv, ClientTimeout, OldBlock, FutureBlock, RecvOack, RecvError

\* Where DeliveryInv always holds, every behaviour is one that FileDelivery allows.
LEMMA Refines ==
  Spec /\ []DeliveryInv => ImplementsDelivery
<1>1. Init => Delivered!Init
  BY ConstantAssumption DEF Init, Delivered!Init
<1>2. DeliveryInv /\ DeliveryInv' /\ [Next]_vars => [Delivered!Next]_(Delivered!vars)
  <2> SUFFICES ASSUME DeliveryInv, DeliveryInv', [Next]_vars PROVE [Delivered!Next]_(Delivered!vars)
    OBVIOUS
  <2>1. CASE Client
    BY <2>1, ClientRefines
  <2>2. ASSUME NEW t \in Tids, Server(t) PROVE [Delivered!Next]_(Delivered!vars)
    BY <2>2, ServerRefines
  <2>3. CASE Lose \/ Duplicate \/ UNCHANGED vars
    <3>1. UNCHANGED <<lastBlock, written, cPc, sPc>>
      BY <2>3 DEF Lose, Duplicate, vars, fileVars, clientVars, serverVars
    <3>2. QED
      BY <3>1 DEF Delivered!vars
  <2>4. QED
    BY <2>1, <2>2, <2>3 DEF Next
<1>3. QED
  BY <1>1, <1>2, PTL DEF Spec, ImplementsDelivery, Delivered!Spec

\* Every transfer below BlockMod blocks is one that FileDelivery allows, whatever the network
\* does to the datagrams of client.rs and server.rs.
THEOREM Refinement ==
  ASSUME NoWrap PROVE Spec => ImplementsDelivery
<1>1. IInv => DeliveryInv
  BY DEF IInv, TaskOk, DeliveryInv
<1>2. QED
  BY <1>1, Invariant, Refines, PTL

\* On a quiet network every transfer of a file of any size in which client and server use one
\* windowsize, and main.rs's last window is acknowledged, is one that FileDelivery allows.
THEOREM QuietRefinement ==
  ASSUME QuietNetwork PROVE Spec /\ SameWindow => ImplementsDelivery
<1>1. QuietInv /\ Integrity => DeliveryInv
  <2> SUFFICES ASSUME QuietInv, Integrity PROVE DeliveryInv
    OBVIOUS
  <2>1. TypeOK
    BY DEF QuietInv, AnySizeInv
  <2>2. \A t \in Tids : sPc[t] = "completed" => lastBlock > 0 /\ Len(written) = lastBlock
    BY TheTask DEF OnlyTask, Refused, Negotiating, Reading, WindowRead, Served, SendsData
  <2>3. cPc = "done" => Len(written) = lastBlock
    BY DEF QuietInv, NotAccepted, OnlyTask, Refused, Negotiating, Reading, WindowRead, Served
  <2>4. QED
    BY <2>1, <2>2, <2>3 DEF DeliveryInv
<1>2. QED
  BY <1>1, QuietInvariant, QuietIntegrity, Refines, PTL

=============================================================================
