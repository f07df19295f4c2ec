---------------------------- MODULE FileDelivery ----------------------------
(***************************************************************************)
(* What a transfer promises, with no packets in it: the receiver of a file *)
(* (the client of a read, the server of a write) holds, at every moment,   *)
(* the first blocks of that file and nothing else; it reports success only *)
(* with the whole file; and the sender takes the transfer for completed    *)
(* only when the receiver has the whole file.  Either may give up.         *)
(***************************************************************************)
EXTENDS Naturals, Sequences

VARIABLES
  lastBlock,  \* number of blocks of the requested file; 0 when there is none
  local,      \* the blocks the receiver holds, in order
  outcome,    \* of the receiver: "receiving", "done" or "failed"
  credited    \* does the sender take the transfer for completed?

vars == <<lastBlock, local, outcome, credited>>

\* The first n blocks of the file: block i holds content i.
FirstBlocks(n) == [i \in 1..n |-> i]

Init ==
  /\ lastBlock \in Nat
  /\ local = <<>>
  /\ outcome = "receiving"
  /\ credited = FALSE

\* The local file grows by one or more blocks; with the last one the get may succeed.
Extend ==
  /\ outcome = "receiving"
  /\ \E n \in (Len(local) + 1)..lastBlock :
       /\ local' = FirstBlocks(n)
       /\ outcome' \in IF n = lastBlock THEN {"receiving", "done"} ELSE {"receiving"}
  /\ UNCHANGED <<lastBlock, credited>>

\* A whole file is accepted some time after its last block arrived.
Finish ==
  /\ outcome = "receiving"
  /\ lastBlock > 0 /\ local = FirstBlocks(lastBlock)
  /\ outcome' = "done"
  /\ UNCHANGED <<lastBlock, local, credited>>

GiveUp ==
  /\ outcome = "receiving"
  /\ outcome' = "failed"
  /\ UNCHANGED <<lastBlock, local, credited>>

Credit ==
  /\ lastBlock > 0
  /\ local = FirstBlocks(lastBlock)
  /\ credited' = TRUE
  /\ UNCHANGED <<lastBlock, local, outcome>>

Next == Extend \/ Finish \/ GiveUp \/ Credit

Spec == Init /\ [][Next]_vars
=============================================================================
