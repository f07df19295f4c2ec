--------------------------- MODULE NetasciiStream ---------------------------
(***************************************************************************)
(* NETASCII: the conversions of lib.rs and main.rs, and the two ways in    *)
(* which a converted file is cut into DATA blocks while it is read.        *)
(*                                                                         *)
(* bin/server.rs takes the conversion of lib.rs and turns each read into   *)
(* one block.  main.rs has a conversion of its own and keeps converted     *)
(* bytes that do not fit a block in netascii_spillover.  Both stream files *)
(* above 1 MiB only; smaller files are converted as a whole.  The network  *)
(* is perfect here: loss and retransmission are in ReadTransfer.           *)
(***************************************************************************)
EXTENDS Integers, SequencesExt

CONSTANTS
  MaxLength,    \* the length of the longest file
  BlockSizes,   \* the values of blksize
  WindowSizes,  \* the values of windowsize
  ChunkSize     \* CHUNK_SIZE of main.rs

ASSUME ConstantAssumption ==
  /\ MaxLength \in Nat
  /\ BlockSizes \subseteq Nat \ {0}
  /\ WindowSizes \subseteq Nat \ {0}
  /\ ChunkSize \in Nat \ {0}

VARIABLES
  variant,    \* the program: "server" (bin/server.rs) or "main" (main.rs)
  file,       \* the file's bytes
  blksize, windowsize,
  offset,     \* bytes of the file that have been read
  spillover,  \* netascii_spillover
  window,     \* window_packets: records of the block's bytes and is_final
  eof,        \* eof_reached
  pc,         \* "fill", "drain", "send", "empty", "done" or "failed"
  got,        \* the bytes the client has written
  complete    \* has the client seen a block shorter than blksize?

inputs == <<variant, file, blksize, windowsize>>
vars == <<inputs, offset, spillover, window, eof, pc, got, complete>>

---------------------------------------------------------------------------
(* The conversions. *)

Bytes == {"CR", "LF", "NUL", "x"}

\* lib.rs: byte by byte.
LibByte(b) ==
  CASE b = "LF" -> <<"CR", "LF">>
    [] b = "CR" -> <<"CR", "NUL">>
    [] OTHER    -> <<b>>

convert_to_netascii_lib(d) == FlattenSeq([i \in DOMAIN d |-> LibByte(d[i])])

\* Mutant of preceded_by_cr: the first byte of a chunk has nothing before it.
PrecededInChunk(d, i, result) == (i - 1) % ChunkSize > 0 /\ d[i - 1] = "CR"

\* main.rs looks at the chunk, or at the end of the result for the first byte of a chunk.
preceded_by_cr(d, i, result) ==
  IF (i - 1) % ChunkSize > 0 THEN d[i - 1] = "CR"
  ELSE i > 1 /\ result # <<>> /\ Last(result) = "CR"

followed_by_lf(d, i) == i < Len(d) /\ d[i + 1] = "LF"

\* What byte i of d adds to the result so far.
MainByte(d, i, result) ==
  CASE d[i] = "LF" -> IF preceded_by_cr(d, i, result) THEN <<"LF">> ELSE <<"CR", "LF">>
    [] d[i] = "CR" -> IF followed_by_lf(d, i) THEN <<"CR">> ELSE <<"CR", "NUL">>
    [] OTHER       -> <<d[i]>>

convert_to_netascii_main(d) ==
  LET result[i \in 0..Len(d)] ==
        IF i = 0 THEN <<>> ELSE result[i - 1] \o MainByte(d, i, result[i - 1])
  IN  result[Len(d)]

Convert(d) ==
  IF variant = "main" THEN convert_to_netascii_main(d) ELSE convert_to_netascii_lib(d)

\* The byte that a pair at i stands for, or nothing.
Decoded(d, i) ==
  IF d[i] = "CR" /\ i < Len(d)
  THEN CASE d[i + 1] = "LF"  -> <<"LF">>
         [] d[i + 1] = "NUL" -> <<"CR">>
         [] OTHER            -> <<>>
  ELSE <<>>

\* The same in both programs.
convert_from_netascii(d) ==
  LET from[i \in 1..(Len(d) + 2)] ==
        IF i > Len(d) THEN <<>>
        ELSE IF Decoded(d, i) # <<>> THEN Decoded(d, i) \o from[i + 2]
        ELSE <<d[i]>> \o from[i + 1]
  IN  from[1]

---------------------------------------------------------------------------
(* The server fills a window. *)

Init ==
  /\ variant \in {"server", "main"}
  /\ file \in BoundedSeq(Bytes, MaxLength) \ {<<>>}
  /\ blksize \in BlockSizes
  /\ windowsize \in WindowSizes
  /\ offset = 0
  /\ spillover = <<>>
  /\ window = <<>>
  /\ eof = FALSE
  /\ pc = "fill"
  /\ got = <<>>
  /\ complete = FALSE

ReadEnd(o) == IF o + blksize < Len(file) THEN o + blksize ELSE Len(file)

\* file.read(&mut read_buffer): a full block, except at the end of the file.
Read(o) == SubSeq(file, o + 1, ReadEnd(o))

Block(d, final) == [data |-> d, final |-> final]

\* Mutant of Room: `<=` for `<`.
RoomForOneMore == Len(window) <= windowsize

\* blocks_in_window < windowsize
Room == Len(window) < windowsize

\* bin/server.rs: one read, one block, whatever its length is after the conversion.
FillServer ==
  /\ variant = "server"
  /\ pc = "fill" /\ Room /\ ~eof
  /\ LET final == ReadEnd(offset) - offset < blksize IN
     /\ window' = Append(window, Block(Convert(Read(offset)), final))
     /\ eof' = final
  /\ offset' = ReadEnd(offset)
  /\ UNCHANGED <<inputs, spillover, pc, got, complete>>

FullBlock(s) == Len(s) >= blksize

\* split_off and replace: the first blksize bytes go, the rest stays.
FirstBlock(s) == SubSeq(s, 1, blksize)

AfterBlock(s) == SubSeq(s, blksize + 1, Len(s))

\* main.rs: what is left over goes first.
DrainSpillover ==
  /\ variant = "main"
  /\ pc = "fill" /\ Room /\ ~eof
  /\ FullBlock(spillover)
  /\ window' = Append(window, Block(FirstBlock(spillover), FALSE))
  /\ spillover' = AfterBlock(spillover)
  /\ UNCHANGED <<inputs, offset, eof, pc, got, complete>>

\* main.rs: the next read, and one block when there is enough for one.
FillMain ==
  /\ variant = "main"
  /\ pc = "fill" /\ Room /\ ~eof
  /\ ~FullBlock(spillover)
  /\ offset < Len(file)
  /\ offset' = ReadEnd(offset)
  /\ LET s == spillover \o Convert(Read(offset)) IN
     IF FullBlock(s)
     THEN /\ window' = Append(window, Block(FirstBlock(s), FALSE))
          /\ spillover' = AfterBlock(s)
     ELSE /\ spillover' = s
          /\ UNCHANGED window
  /\ UNCHANGED <<inputs, eof, pc, got, complete>>

\* main.rs: bytes_read == 0.
ReachEof ==
  /\ variant = "main"
  /\ pc = "fill" /\ Room /\ ~eof
  /\ ~FullBlock(spillover)
  /\ offset = Len(file)
  /\ eof' = TRUE
  /\ pc' = "drain"
  /\ UNCHANGED <<inputs, offset, spillover, window, got, complete>>

\* main.rs: the rest, in blocks of at most blksize, up to the first short one.
DrainRest ==
  /\ pc = "drain"
  /\ IF spillover # <<>> /\ Room
     THEN LET more  == Len(spillover) > blksize
              block == IF more THEN FirstBlock(spillover) ELSE spillover
          IN /\ window' = Append(window, Block(block, Len(block) < blksize))
             /\ spillover' = IF more THEN AfterBlock(spillover) ELSE <<>>
             /\ pc' = IF Len(block) < blksize THEN "send" ELSE "drain"
     ELSE /\ pc' = "send"
          /\ UNCHANGED <<window, spillover>>
  /\ UNCHANGED <<inputs, offset, eof, got, complete>>

\* The window is full, or the file is at its end.
WindowBuilt ==
  /\ pc = "fill" /\ (eof \/ ~Room)
  /\ pc' = "send"
  /\ UNCHANGED <<inputs, offset, spillover, window, eof, got, complete>>

---------------------------------------------------------------------------
(* The window is sent and acknowledged, and the client writes it. *)

\* What the client's receive buffer of blksize + 4 bytes keeps of a block.
Kept(d) == IF Len(d) > blksize THEN SubSeq(d, 1, blksize) ELSE d

\* The client stops at the first block that is shorter than blksize.
ClientTakes(blocks) ==
  LET short == {i \in DOMAIN blocks : Len(blocks[i]) < blksize}
      last  == IF short = {} THEN Len(blocks) ELSE CHOOSE i \in short : \A j \in short : i <= j
  IN  /\ got' = IF complete THEN got
                ELSE got \o FlattenSeq([i \in 1..last |-> Kept(blocks[i])])
      /\ complete' = (complete \/ short # {})

Data == [i \in DOMAIN window |-> window[i].data]

\* Mutant of Acknowledged: `>` for `>=` in should_ack.
AcknowledgedLate(blocks) ==
  Len(blocks) > windowsize \/ \E i \in DOMAIN blocks : Len(blocks[i]) < blksize

\* The client acknowledges a window of windowsize blocks, or one with a short block.
Acknowledged(blocks) ==
  Len(blocks) >= windowsize \/ \E i \in DOMAIN blocks : Len(blocks[i]) < blksize

\* main.rs: the file has ended and no block of the acknowledged window was short.
NeedsEmptyBlock == variant = "main" /\ eof /\ ~ \E i \in DOMAIN window : window[i].final

\* The window, and its ACK: without one it is sent MAX_RETRIES times in vain.
SendWindow ==
  /\ pc = "send" /\ window # <<>>
  /\ ClientTakes(Data)
  /\ pc' = IF ~Acknowledged(Data) THEN "failed"
           ELSE IF NeedsEmptyBlock THEN "empty"
           ELSE IF eof THEN "done"
           ELSE "fill"
  /\ window' = <<>>
  /\ UNCHANGED <<inputs, offset, spillover, eof>>

\* main.rs: the empty block that ends the file, when there is nothing to put into a window
\* or after the ACK of one without a short block.
SendEmptyBlock ==
  /\ variant = "main"
  /\ pc \in {"send", "empty"} /\ window = <<>>
  /\ ClientTakes(<< <<>> >>)
  /\ pc' = "done"
  /\ UNCHANGED <<inputs, offset, spillover, window, eof>>

Next ==
  \/ FillServer \/ DrainSpillover \/ FillMain \/ ReachEof \/ DrainRest
  \/ WindowBuilt \/ SendWindow \/ SendEmptyBlock

Spec == Init /\ [][Next]_vars

---------------------------------------------------------------------------
(* Properties. *)

\* Every variable stays in its range; a window never has more than windowsize blocks.
TypeOK ==
  /\ variant \in {"server", "main"}
  /\ file \in Seq(Bytes) /\ blksize \in BlockSizes /\ windowsize \in WindowSizes
  /\ offset \in 0..Len(file)
  /\ spillover \in Seq(Bytes)
  /\ window \in Seq([data : Seq(Bytes), final : BOOLEAN]) /\ Len(window) <= windowsize
  /\ eof \in BOOLEAN /\ complete \in BOOLEAN
  /\ pc \in {"fill", "drain", "send", "empty", "done", "failed"}
  /\ got \in Seq(Bytes)

\* What a NETASCII reader makes of a converted file: with lib.rs the file itself, with
\* main.rs the file with each CR LF as LF.  No chunk boundary of main.rs shows.
UnixLines(d) ==
  LET lines[i \in 0..Len(d)] ==
        IF i = 0 THEN <<>>
        ELSE IF d[i] = "CR" /\ i < Len(d) /\ d[i + 1] = "LF" THEN lines[i - 1]
        ELSE Append(lines[i - 1], d[i])
  IN  lines[Len(d)]

\* Decoding what convert_to_netascii makes of any file gives back its text, in either
\* program, wherever the 4096-byte chunks of main.rs begin.
ConversionRoundTrip ==
  convert_from_netascii(Convert(file)) = IF variant = "main" THEN UnixLines(file) ELSE file

\* Where the reads of the file begin.
Reads == {o \in 0..(Len(file) - 1) : o % blksize = 0}

\* Does a CR LF of the file fall into two reads?
SplitLineEnd == \E o \in Reads \ {0} : file[o] = "CR" /\ file[o + 1] = "LF"

\* The conversions of the first k reads.
ConvertedReads(k) == [j \in 1..k |-> Convert(Read((j - 1) * blksize))]

\* The conversions of all of them, one after the other.
ReadByRead == FlattenSeq(ConvertedReads((Len(file) + blksize - 1) \div blksize))

\* Do the bytes s end with a full block that does not fill its window?
EndsInsideWindow(s) ==
  Len(s) % blksize = 0 /\ (Len(s) \div blksize) % windowsize # 0

Ended == pc \in {"done", "failed"}

\* A client of main.rs gets every read converted, whatever netascii_spillover holds at the
\* end of a window or of the file: that is the file converted as a whole unless a read ends
\* between a CR and its LF.  It is told that this is all just when the last block is short
\* or the last window full: client.rs does not acknowledge a last window of fewer full
\* blocks, main.rs repeats it until the retries run out and never sends the empty block,
\* although CHANGELOG.md:40 calls missing final blocks fixed.  A client of bin/server.rs
\* completes with the whole converted file unless a block outgrows blksize, or a last one
\* no longer is short.
StreamedAsWhole ==
  Ended =>
    /\ variant = "main" => /\ got = ReadByRead
                           /\ complete <=> ~EndsInsideWindow(got)
                           /\ (got = Convert(file)) <=> ~SplitLineEnd
    /\ variant = "server" =>
         ((complete /\ got = Convert(file)) <=>
            \A o \in Reads : /\ Len(Convert(Read(o))) <= blksize
                             /\ Len(Read(o)) < blksize => Len(Convert(Read(o))) < blksize)

---------------------------------------------------------------------------
(* The inductive invariant from which NetasciiProofs derives StreamedAsWhole. *)

\* How far the first k reads come.
Cut(k) == IF k * blksize < Len(file) THEN k * blksize ELSE Len(file)

KeptBlocks(blocks) == [i \in DOMAIN blocks |-> Kept(blocks[i])]

\* The client has whole windows of full blocks.
WholeWindows == \E m \in Nat : Len(got) = (m * windowsize) * blksize

\* main.rs, after k reads: what the client has, what is in the window and what is left over
\* are the converted reads; blocks are full, but for a last one that ends the file, and the
\* client has whole windows.
MainInv(k) ==
  /\ variant = "main"
  /\ offset = Cut(k) /\ (k = 0 \/ (k - 1) * blksize < Len(file))
  /\ eof => offset = Len(file)
  /\ pc = "fill" => ~eof
  /\ pc = "drain" => eof /\ Room /\ Len(spillover) < blksize
  /\ pc = "send" => IF eof
                    THEN spillover = <<>> /\ (Room \/ \E i \in DOMAIN window : window[i].final)
                    ELSE ~Room
  /\ pc # "empty"
  /\ \A i \in DOMAIN window :
       IF window[i].final
       THEN pc = "send" /\ eof /\ i = Len(window) /\ Len(window[i].data) \in 1..(blksize - 1)
       ELSE Len(window[i].data) = blksize
  /\ ~Ended => /\ ~complete
               /\ (got \o FlattenSeq(Data)) \o spillover = FlattenSeq(ConvertedReads(k))
               /\ WholeWindows
  /\ Ended => /\ eof /\ got = FlattenSeq(ConvertedReads(k))
              /\ complete <=> ~EndsInsideWindow(got)

\* bin/server.rs, after k reads: the client has, or will have, what it keeps of each of
\* their blocks; only the block that ends the file may be short.
ServerInv(k) ==
  /\ variant = "server"
  /\ offset = Cut(k) /\ (k = 0 \/ (k - 1) * blksize <= Len(file))
  /\ eof <=> k * blksize > Len(file)
  /\ pc \notin {"drain", "empty"}
  /\ pc = "send" => eof \/ ~Room
  /\ got \o FlattenSeq(KeptBlocks(Data)) = FlattenSeq(KeptBlocks(ConvertedReads(k)))
  /\ \A i \in DOMAIN window : Len(window[i].data) < blksize => eof /\ i = Len(window)
  /\ eof /\ ~Ended => window # <<>> /\ window[Len(window)].data = ConvertedReads(k)[k]
  /\ Ended => eof /\ window = <<>>
  /\ complete <=> Ended /\ Len(ConvertedReads(k)[k]) < blksize

StreamInv == TypeOK /\ \E k \in 0..(Len(file) + 1) : MainInv(k) \/ ServerInv(k)
=============================================================================
