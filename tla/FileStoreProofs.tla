--------------------------- MODULE FileStoreProofs ---------------------------
(***************************************************************************)
(* Proofs about FileStore for every number of writers, readers, files,     *)
(* pieces, deletions and crashes.                                          *)
(*                                                                         *)
(* BaseInv is enough for what holds whoever writes at the same time:       *)
(* uploads clean up (UploadsClean), and without allow_overwrite a writer   *)
(* finds at its destination only what was put there since its check        *)
(* (OnlyRivals).                                                           *)
(*                                                                         *)
(* With OneAtATime, StoreInv divides the inodes: one that a writer has open*)
(* or that is under a temporary path is Private, one at a file's path or   *)
(* open by a reader is Served, and an inode goes from the first to the     *)
(* second in the one step of Rename, complete.                             *)
(***************************************************************************)
EXTENDS FileStore, SequenceTheorems, TLAPS

---------------------------------------------------------------------------
(* Paths and contents. *)

\* A web upload has its temporary path for itself.
LEMMA WebTempOwn ==
  ASSUME NEW w \in Web, NEW v \in Writers, TempPath(v) = TempPath(w)
  PROVE  v = w
  BY ConstantAssumption DEF TempPath, Writers

\* A writer's paths are paths, its temporary path is no file, and its inode is one.
LEMMA WriterPaths ==
  ASSUME NEW w \in Writers
  PROVE  /\ TempPath(w) \in Paths /\ Dest[w] \in Files /\ Dest[w] \in Paths
         /\ TempPath(w) \notin Files /\ TempPath(w) # Dest[w]
         /\ w \in Inodes /\ w # None /\ w \notin Files
  BY ConstantAssumption, TempAssumption DEF Paths, Inodes

\* A piece written at its place gives a file of pieces.
LEMMA WrittenType ==
  ASSUME NEW s \in Seq(Pieces), NEW w \in Inodes, NEW j \in 1..Chunks
  PROVE  Written(s, w, j) \in Seq(Pieces)
<1> DEFINE m == IF Len(s) < j THEN j ELSE Len(s)
<1>1. Len(s) \in Nat /\ m \in Nat /\ Chunks \in Nat
  BY ConstantAssumption, LenProperties
<1>2. ASSUME NEW i \in 1..m
      PROVE  (IF i = j THEN Piece(w, j) ELSE IF i <= Len(s) THEN s[i] ELSE Hole) \in Pieces
  <2>1. Piece(w, j) \in Pieces /\ Hole \in Pieces
    BY DEF Pieces
  <2>2. i <= Len(s) => s[i] \in Pieces
    BY <1>1, ElementOfSeq
  <2>3. QED
    BY <2>1, <2>2
<1>3. QED
  BY <1>1, <1>2 DEF Written

\* The first pieces of a file.
LEMMA FirstPiecesSeq ==
  ASSUME NEW o \in Inodes, NEW k \in 0..Chunks
  PROVE  /\ FirstPieces(o, k) \in Seq(Pieces) /\ Len(FirstPieces(o, k)) = k
         /\ \A i \in 1..k : FirstPieces(o, k)[i] = Piece(o, i)
<1>1. Chunks \in Nat /\ k \in Nat
  BY ConstantAssumption
<1>2. ASSUME NEW j \in 1..k PROVE Piece(o, j) \in Pieces
  <2>1. j \in 1..Chunks
    BY <1>1
  <2>2. QED
    BY <2>1 DEF Pieces
<1>3. QED
  BY <1>1, <1>2 DEF FirstPieces

\* The next piece, written after the first k.
LEMMA WrittenNextPiece ==
  ASSUME NEW w \in Inodes, NEW k \in 0..Chunks, k < Chunks
  PROVE  Written(FirstPieces(w, k), w, k + 1) = FirstPieces(w, k + 1)
<1> DEFINE s == FirstPieces(w, k)
<1>1. Chunks \in Nat /\ k \in Nat /\ Len(s) = k /\ \A i \in 1..k : s[i] = Piece(w, i)
  BY ConstantAssumption, FirstPiecesSeq
<1> HIDE DEF s
<1>2. (IF Len(s) < k + 1 THEN k + 1 ELSE Len(s)) = k + 1
  BY <1>1
<1>3. Written(s, w, k + 1) = [i \in 1..(k + 1) |->
        IF i = k + 1 THEN Piece(w, k + 1) ELSE IF i <= Len(s) THEN s[i] ELSE Hole]
  BY <1>2 DEF Written
<1>4. \A i \in 1..(k + 1) :
        (IF i = k + 1 THEN Piece(w, k + 1) ELSE IF i <= Len(s) THEN s[i] ELSE Hole) = Piece(w, i)
  BY <1>1
<1>5. QED
  BY <1>3, <1>4 DEF FirstPieces, s

\* The beginning of a file's content.
LEMMA ContentPrefix ==
  ASSUME NEW o \in Inodes, NEW k \in 0..Chunks
  PROVE  SubSeq(Content(o), 1, k) = FirstPieces(o, k)
<1>1. Chunks \in Nat /\ k \in Nat
  BY ConstantAssumption
<1>2. Content(o) = FirstPieces(o, Chunks)
  BY DEF Content, FirstPieces
<1>3. /\ Content(o) \in Seq(Pieces) /\ Len(Content(o)) = Chunks
      /\ \A i \in 1..Chunks : Content(o)[i] = Piece(o, i)
  BY <1>1, <1>2, FirstPiecesSeq
<1> DEFINE c == Content(o)
           p == SubSeq(c, 1, k)
<1> HIDE DEF c
<1>4. /\ p \in Seq(Pieces) /\ Len(p) = k /\ \A i \in 1..k : p[i] = c[i]
  <2>1. /\ p \in Seq(Pieces) /\ Len(p) = IF 1 <= k THEN k - 1 + 1 ELSE 0
        /\ \A i \in 1..(k - 1 + 1) : p[i] = c[1 + i - 1]
    BY <1>1, <1>3, SubSeqProperties DEF c
  <2>2. QED
    BY <1>1, <2>1
<1> HIDE DEF p
<1>5. \A i \in 1..k : p[i] = Piece(o, i)
  BY <1>1, <1>3, <1>4 DEF c
<1>6. p = [i \in 1..k |-> p[i]]
  BY <1>4, LenProperties
<1>7. QED
  BY <1>5, <1>6 DEF FirstPieces, p, c

---------------------------------------------------------------------------
(* Types. *)

\* What a writer does keeps the types.
LEMMA WriterType ==
  ASSUME TypeOK, NEW w \in Writers, Writer(w) PROVE TypeOK'
<1>1. /\ TempPath(w) \in Paths /\ Dest[w] \in Files /\ Dest[w] \in Paths /\ w \in Inodes
      /\ Chunks \in Nat \ {0}
  BY WriterPaths, ConstantAssumption
<1>2. dir \in [Paths -> Inodes \cup {None}] /\ CleanUp(w) \in [Paths -> Inodes \cup {None}]
  BY DEF TypeOK, CleanUp
<1>3. CASE Check(w) \/ TransferFails(w)
  BY <1>3 DEF Check, TransferFails, TypeOK, Ended, readerVars
<1>4. CASE Create(w)
  <2> DEFINE n == IF dir[TempPath(w)] = None THEN w ELSE dir[TempPath(w)]
  <2>1. n \in Inodes
    BY <1>1, <1>2
  <2>2. /\ pc' = [pc EXCEPT ![w] = "writing"] /\ dir' = [dir EXCEPT ![TempPath(w)] = n]
        /\ data' = [data EXCEPT ![n] = <<>>] /\ fd' = [fd EXCEPT ![w] = n]
        /\ UNCHANGED <<allowOverwrite, issued, flushed, ioError, readerVars, deletes, crashes,
                       placedSince>>
    BY <1>4 DEF Create
  <2> HIDE DEF n
  <2>3. data' \in [Inodes -> Seq(Pieces)]
    BY <2>2, EmptySeq DEF TypeOK
  <2>4. QED
    BY <2>1, <2>2, <2>3 DEF TypeOK, readerVars
<1>5. CASE Write(w)
  <2>1. issued' \in [Writers -> 0..Chunks]
    BY <1>1, <1>5 DEF Write, TypeOK
  <2>2. QED
    BY <1>5, <2>1 DEF Write, TypeOK, readerVars
<1>6. CASE Flush(w)
  <2>1. issued[w] \in 1..Chunks /\ flushed' \in [Writers -> 0..Chunks]
    BY <1>1, <1>6 DEF Flush, TypeOK
  <2>2. data' \in [Inodes -> Seq(Pieces)]
    <3>1. data \in [Inodes -> Seq(Pieces)]
      BY DEF TypeOK
    <3>2. CASE UNCHANGED data
      BY <3>1, <3>2
    <3>3. CASE data' = [data EXCEPT ![fd[w]] = Written(@, w, issued[w])]
      <4>1. \A n \in Inodes : Written(data[n], w, issued[w]) \in Seq(Pieces)
        BY <1>1, <2>1, <3>1, WrittenType
      <4>2. QED
        BY <3>1, <3>3, <4>1
    <3>4. QED
      BY <1>6, <3>2, <3>3 DEF Flush
  <2>3. ioError' \in [Writers -> BOOLEAN]
    BY <1>6 DEF Flush, TypeOK
  <2>4. QED
    BY <1>6, <2>1, <2>2, <2>3 DEF Flush, TypeOK, readerVars
<1>7. CASE WriteFails(w) \/ StreamFails(w)
  BY <1>2, <1>7 DEF WriteFails, StreamFails, TypeOK, Ended, readerVars
<1>8. CASE Rename(w)
  <2>1. dir' \in [Paths -> Inodes \cup {None}]
    BY <1>1, <1>2, <1>8 DEF Rename
  <2>2. pc' \in [Writers -> {"idle", "checked", "writing"} \cup Ended]
    BY <1>8 DEF Rename, TypeOK, Ended
  <2>3. placedSince' \in [Writers -> SUBSET Inodes]
    <3>1. placedSince \in [Writers -> SUBSET Inodes]
      BY DEF TypeOK
    <3>2. CASE placedSince' = placedSince
      BY <3>1, <3>2
    <3>3. CASE /\ dir[TempPath(w)] # None
               /\ placedSince' = [v \in Writers |->
                    IF Dest[v] = Dest[w] /\ Started(v)
                    THEN placedSince[v] \cup {dir[TempPath(w)]} ELSE placedSince[v]]
      <4>1. dir[TempPath(w)] \in Inodes
        BY <1>1, <1>2, <3>3
      <4>2. QED
        BY <3>1, <3>3, <4>1
    <3>4. QED
      BY <1>8, <3>2, <3>3 DEF Rename
  <2>4. QED
    BY <1>8, <2>1, <2>2, <2>3 DEF Rename, TypeOK, readerVars
<1>9. QED
  BY <1>3, <1>4, <1>5, <1>6, <1>7, <1>8 DEF Writer

\* What a reader does keeps the types.
LEMMA ReaderType ==
  ASSUME TypeOK, NEW r \in Readers, OpenRead(r) \/ ReadOn(r) PROVE TypeOK'
<1>1. CASE OpenRead(r)
  <2>1. PICK f \in Files : dir[f] # None /\ rfd' = [rfd EXCEPT ![r] = dir[f]]
    BY <1>1 DEF OpenRead
  <2>2. dir[f] \in Inodes \cup {None}
    BY DEF TypeOK, Paths
  <2>3. rfd' \in [Readers -> Inodes \cup {None}]
    BY <2>1, <2>2 DEF TypeOK
  <2>4. QED
    BY <1>1, <2>3 DEF OpenRead, TypeOK, writerVars
<1>2. CASE ReadOn(r)
  <2>1. CASE rfd[r] \in Inodes
    <3>1. data[rfd[r]] \in Seq(Pieces) /\ got[r] \in Seq(Pieces)
      BY <2>1 DEF TypeOK
    <3>2. Len(got[r]) + 1 \in 1..Len(data[rfd[r]])
      BY <1>2, <3>1, LenProperties DEF ReadOn
    <3>3. data[rfd[r]][Len(got[r]) + 1] \in Pieces
      BY <3>1, <3>2, ElementOfSeq
    <3>4. Append(got[r], data[rfd[r]][Len(got[r]) + 1]) \in Seq(Pieces)
      BY <3>1, <3>3, AppendProperties
    <3>5. got' \in [Readers -> Seq(Pieces)]
      BY <1>2, <3>4 DEF ReadOn, TypeOK
    <3>6. QED
      BY <1>2, <3>5 DEF ReadOn, TypeOK, writerVars
  <2>2. QED
    BY <1>2, <2>1 DEF ReadOn, TypeOK
<1>3. QED
  BY <1>1, <1>2

\* Every step keeps the types.
LEMMA TypeStep ==
  ASSUME TypeOK, [Next]_vars PROVE TypeOK'
<1>1. CASE DeleteFile
  <2>1. \/ \E p \in Paths : dir' = [dir EXCEPT ![p] = None]
        \/ dir' = [p \in Paths |-> None]
    BY <1>1 DEF DeleteFile
  <2>2. dir' \in [Paths -> Inodes \cup {None}]
    BY <2>1 DEF TypeOK
  <2>3. deletes' \in Nat
    BY <1>1 DEF DeleteFile, TypeOK
  <2>4. QED
    BY <1>1, <2>2, <2>3 DEF DeleteFile, TypeOK, writerVars, readerVars
<1>2. CASE Crash
  <2>1. pc' \in [Writers -> {"idle", "checked", "writing"} \cup Ended] /\ crashes' \in Nat
    BY <1>2 DEF Crash, TypeOK, Ended
  <2>2. QED
    BY <1>2, <2>1 DEF Crash, TypeOK, readerVars
<1>3. CASE UNCHANGED vars
  BY <1>3 DEF TypeOK, vars, writerVars, readerVars
<1>4. QED
  BY <1>1, <1>2, <1>3, WriterType, ReaderType DEF Next

\* Types hold initially.
LEMMA TypeInit == Init => TypeOK
<1>1. SUFFICES ASSUME Init PROVE TypeOK
  OBVIOUS
<1>2. Chunks \in Nat /\ Existing \subseteq Files
  BY ConstantAssumption
<1>3. dir \in [Paths -> Inodes \cup {None}]
  BY <1>1, <1>2 DEF Init, Paths, Inodes
<1>4. data \in [Inodes -> Seq(Pieces)]
  <2>1. ASSUME NEW n \in Inodes PROVE Content(n) \in Seq(Pieces)
    <3>1. Content(n) = FirstPieces(n, Chunks)
      BY DEF Content, FirstPieces
    <3>2. QED
      BY <1>2, <3>1, FirstPiecesSeq
  <2>2. QED
    BY <1>1, <2>1, EmptySeq DEF Init
<1>5. QED
  BY <1>1, <1>2, <1>3, <1>4, EmptySeq DEF Init, TypeOK, Ended

\* Every variable stays in its range for every value of the constants.
THEOREM TypeCorrect == Spec => []TypeOK
<1>1. TypeOK /\ [Next]_vars => TypeOK'
  BY TypeStep
<1>2. QED
  BY <1>1, TypeInit, PTL DEF Spec

---------------------------------------------------------------------------
(* What holds whoever writes at the same time. *)

\* What a writer's step does to the paths: they change at its own only, where an inode goes
\* from the temporary path to the destination, or is created at the temporary path.
LEMMA WriterDir ==
  ASSUME TypeOK, NEW w \in Writers, Writer(w)
  PROVE  /\ \A p \in Paths \ {TempPath(w), Dest[w]} : dir'[p] = dir[p]
         /\ \/ dir' = dir
            \/ dir'[TempPath(w)] = None /\ dir'[Dest[w]] = dir[Dest[w]]
            \/ /\ pc[w] = "checked" /\ pc'[w] = "writing" /\ dir'[Dest[w]] = dir[Dest[w]]
               /\ dir'[TempPath(w)] = IF dir[TempPath(w)] = None THEN w ELSE dir[TempPath(w)]
            \/ /\ Renames(w) /\ dir[TempPath(w)] # None
               /\ dir'[TempPath(w)] = None /\ dir'[Dest[w]] = dir[TempPath(w)]
<1>1. /\ TempPath(w) \in Paths /\ Dest[w] \in Paths /\ TempPath(w) # Dest[w]
      /\ dir \in [Paths -> Inodes \cup {None}]
      /\ pc \in [Writers -> {"idle", "checked", "writing"} \cup Ended]
  BY WriterPaths DEF TypeOK
<1>2. CASE Check(w) \/ TransferFails(w) \/ Write(w) \/ Flush(w)
  BY <1>2 DEF Check, TransferFails, Write, Flush
<1>3. CASE Create(w)
  BY <1>1, <1>3 DEF Create
<1>4. CASE WriteFails(w) \/ StreamFails(w)
  BY <1>1, <1>4 DEF WriteFails, StreamFails, CleanUp
<1>5. CASE Rename(w)
  BY <1>1, <1>5 DEF Rename, CleanUp
<1>6. QED
  BY <1>2, <1>3, <1>4, <1>5 DEF Writer

\* What a writer's step does to where the writers are.
LEMMA WriterPc ==
  ASSUME TypeOK, NEW w \in Writers, Writer(w)
  PROVE  /\ allowOverwrite' = allowOverwrite
         /\ \A v \in Writers \ {w} : pc'[v] = pc[v]
         /\ \/ pc'[w] = pc[w]
            \/ pc[w] = "idle" /\ pc'[w] = IF MayWrite(w) THEN "checked" ELSE "refused"
            \/ pc[w] = "checked" /\ pc'[w] \in {"failed", "writing"}
            \/ pc[w] = "writing" /\ pc'[w] \in {"failed", "done"}
         /\ w \in Web /\ pc[w] # pc'[w] /\ pc'[w] \in {"done", "failed"} =>
              dir'[TempPath(w)] = None \/ (pc[w] = "checked" /\ dir' = dir)
<1>1. /\ TempPath(w) \in Paths /\ Dest[w] \in Paths /\ TempPath(w) # Dest[w]
      /\ dir \in [Paths -> Inodes \cup {None}]
      /\ pc \in [Writers -> {"idle", "checked", "writing"} \cup Ended]
  BY WriterPaths DEF TypeOK
<1>2. CASE Check(w)
  BY <1>1, <1>2 DEF Check
<1>3. CASE TransferFails(w) \/ Create(w)
  BY <1>1, <1>3 DEF TransferFails, Create
<1>4. CASE Write(w) \/ Flush(w)
  BY <1>1, <1>4 DEF Write, Flush
<1>5. CASE WriteFails(w) \/ StreamFails(w)
  BY <1>1, <1>5 DEF WriteFails, StreamFails, CleanUp
<1>6. CASE Rename(w)
  BY <1>1, <1>6 DEF Rename, Renames, CleanUp
<1>7. QED
  BY <1>2, <1>3, <1>4, <1>5, <1>6 DEF Writer

\* What a writer's step puts at a destination is recorded for the writers under way there.
LEMMA WriterPlaced ==
  ASSUME TypeOK, NEW w \in Writers, Writer(w), NEW v \in Writers
  PROVE  /\ placedSince[v] \subseteq placedSince'[v]
         /\ \/ dir'[Dest[v]] = dir[Dest[v]]
            \/ Started(v) => dir'[Dest[v]] \in placedSince'[v]
<1>1. /\ TempPath(w) \in Paths /\ Dest[w] \in Paths /\ TempPath(w) # Dest[w]
      /\ Dest[v] \in Paths /\ Dest[v] # TempPath(w)
      /\ dir \in [Paths -> Inodes \cup {None}]
      /\ placedSince \in [Writers -> SUBSET Inodes]
  BY WriterPaths DEF TypeOK
<1>2. CASE UNCHANGED <<dir, placedSince>>
  BY <1>2
<1>3. CASE Create(w)
  BY <1>1, <1>3 DEF Create
<1>4. CASE dir' = CleanUp(w) /\ placedSince' = placedSince
  BY <1>1, <1>4 DEF CleanUp
<1>5. CASE /\ dir' = [dir EXCEPT ![Dest[w]] = dir[TempPath(w)], ![TempPath(w)] = None]
           /\ placedSince' = [x \in Writers |->
                IF Dest[x] = Dest[w] /\ Started(x) THEN placedSince[x] \cup {dir[TempPath(w)]}
                ELSE placedSince[x]]
  <2>1. placedSince[v] \subseteq placedSince'[v]
    BY <1>5
  <2>2. CASE Dest[v] = Dest[w]
    <3>1. dir'[Dest[v]] = dir[TempPath(w)]
      BY <1>1, <1>5, <2>2
    <3>2. Started(v) => dir[TempPath(w)] \in placedSince'[v]
      BY <1>5, <2>2
    <3>3. QED
      BY <2>1, <3>1, <3>2
  <2>3. CASE Dest[v] # Dest[w]
    BY <1>1, <1>5, <2>1, <2>3
  <2>4. QED
    BY <2>2, <2>3
<1>6. QED
  BY <1>2, <1>3, <1>4, <1>5
     DEF Writer, Check, TransferFails, Write, Flush, WriteFails, StreamFails, Rename

\* A writer's step preserves BaseInv.
LEMMA WriterBase ==
  ASSUME BaseInv, NEW w \in Writers, Writer(w) PROVE BaseInv'
<1>1. TypeOK /\ TempsOwned /\ UploadsClean /\ OnlyRivals
  BY DEF BaseInv
<1>2. /\ TempPath(w) \in Paths /\ Dest[w] \in Files /\ Dest[w] \in Paths
      /\ TempPath(w) \notin Files /\ TempPath(w) # Dest[w] /\ w # None
  BY WriterPaths
<1>3. /\ \A p \in Paths \ {TempPath(w), Dest[w]} : dir'[p] = dir[p]
      /\ \/ dir' = dir
         \/ dir'[TempPath(w)] = None /\ dir'[Dest[w]] = dir[Dest[w]]
         \/ /\ pc[w] = "checked" /\ pc'[w] = "writing" /\ dir'[Dest[w]] = dir[Dest[w]]
            /\ dir'[TempPath(w)] = IF dir[TempPath(w)] = None THEN w ELSE dir[TempPath(w)]
         \/ /\ Renames(w) /\ dir[TempPath(w)] # None
            /\ dir'[TempPath(w)] = None /\ dir'[Dest[w]] = dir[TempPath(w)]
  BY <1>1, WriterDir
<1>4. /\ allowOverwrite' = allowOverwrite
      /\ \A v \in Writers \ {w} : pc'[v] = pc[v]
      /\ \/ pc'[w] = pc[w]
         \/ pc[w] = "idle" /\ pc'[w] = IF MayWrite(w) THEN "checked" ELSE "refused"
         \/ pc[w] = "checked" /\ pc'[w] \in {"failed", "writing"}
         \/ pc[w] = "writing" /\ pc'[w] \in {"failed", "done"}
      /\ w \in Web /\ pc[w] # pc'[w] /\ pc'[w] \in {"done", "failed"} =>
           dir'[TempPath(w)] = None \/ (pc[w] = "checked" /\ dir' = dir)
  BY <1>1, WriterPc
<1>5. TempsOwned'
  <2>1. ASSUME NEW v \in Writers, dir'[TempPath(v)] # None
        PROVE  dir'[TempPath(v)] \in Writers /\ TempPath(dir'[TempPath(v)]) = TempPath(v)
    <3>1. TempPath(v) \in Paths /\ TempPath(v) # Dest[w]
      BY <1>2, WriterPaths
    <3>2. dir[TempPath(v)] # None =>
            dir[TempPath(v)] \in Writers /\ TempPath(dir[TempPath(v)]) = TempPath(v)
      BY <1>1 DEF TempsOwned
    <3>3. CASE dir'[TempPath(v)] = dir[TempPath(v)]
      BY <2>1, <3>2, <3>3
    <3>4. CASE TempPath(v) = TempPath(w) /\ dir'[TempPath(w)] = w
      BY <3>4
    <3>5. QED
      BY <1>3, <2>1, <3>1, <3>3, <3>4
  <2>2. QED
    BY <2>1 DEF TempsOwned
<1>6. UploadsClean'
  <2>1. ASSUME NEW v \in Web, pc'[v] \notin {"writing", "crashed"}
        PROVE  dir'[TempPath(v)] = None
    <3>1. v \in Writers /\ TempPath(v) \in Paths /\ TempPath(v) # Dest[w]
      BY <1>2, WriterPaths DEF Writers
    <3>2. pc[v] \notin {"writing", "crashed"} => dir[TempPath(v)] = None
      BY <1>1 DEF UploadsClean
    <3>3. CASE v # w
      <4>1. TempPath(v) # TempPath(w)
        BY <3>3, WebTempOwn
      <4>2. dir'[TempPath(v)] = dir[TempPath(v)] /\ pc'[v] = pc[v]
        BY <1>3, <1>4, <3>1, <3>3, <4>1
      <4>3. QED
        BY <2>1, <3>2, <4>2
    <3>4. CASE v = w
      BY <1>3, <1>4, <2>1, <3>2, <3>4 DEF Renames
    <3>5. QED
      BY <3>3, <3>4
  <2>2. QED
    BY <2>1 DEF UploadsClean
<1>7. OnlyRivals'
  <2>1. ASSUME ~allowOverwrite, NEW v \in Writers, Started(v)'
        PROVE  dir'[Dest[v]] \in placedSince'[v] \cup {None}
    <3>1. /\ placedSince[v] \subseteq placedSince'[v]
          /\ \/ dir'[Dest[v]] = dir[Dest[v]]
             \/ Started(v) => dir'[Dest[v]] \in placedSince'[v]
      BY <1>1, WriterPlaced
    <3>2. CASE Started(v)
      <4>1. dir[Dest[v]] \in placedSince[v] \cup {None}
        BY <1>1, <2>1, <3>2 DEF OnlyRivals
      <4>2. QED
        BY <3>1, <3>2, <4>1
    <3>3. CASE ~Started(v)
      <4>1. v = w /\ pc[w] = "idle" /\ MayWrite(w)
        BY <1>4, <2>1, <3>3 DEF Started
      <4>2. dir'[Dest[w]] = dir[Dest[w]]
        BY <1>3, <4>1 DEF Renames
      <4>3. QED
        BY <2>1, <4>1, <4>2 DEF MayWrite
    <3>4. QED
      BY <3>2, <3>3
  <2>2. QED
    BY <1>4, <2>1 DEF OnlyRivals
<1>8. QED
  BY <1>1, <1>5, <1>6, <1>7, WriterType DEF BaseInv

\* Every step preserves BaseInv.
LEMMA BaseStep ==
  ASSUME BaseInv, [Next]_vars PROVE BaseInv'
<1>1. TypeOK /\ TypeOK' /\ TempsOwned /\ UploadsClean /\ OnlyRivals
  BY TypeStep DEF BaseInv
<1>2. CASE UNCHANGED <<allowOverwrite, pc, dir, placedSince>>
  BY <1>1, <1>2 DEF BaseInv, TempsOwned, UploadsClean, OnlyRivals, Started
<1>3. CASE DeleteFile
  <2>1. \A p \in Paths : dir'[p] \in {dir[p], None}
    <3>1. \/ \E p \in Paths : dir' = [dir EXCEPT ![p] = None]
          \/ dir' = [p \in Paths |-> None]
      BY <1>3 DEF DeleteFile
    <3>2. QED
      BY <1>1, <3>1 DEF TypeOK
  <2>2. UNCHANGED <<allowOverwrite, pc, placedSince>>
    BY <1>3 DEF DeleteFile, writerVars
  <2>3. \A w \in Writers : dir'[TempPath(w)] \in {dir[TempPath(w)], None}
    BY <2>1, WriterPaths
  <2>4. TempsOwned' /\ UploadsClean'
    BY <1>1, <2>2, <2>3 DEF TempsOwned, UploadsClean, Writers
  <2>5. \A w \in Writers : dir'[Dest[w]] \in {dir[Dest[w]], None}
    BY <2>1, WriterPaths
  <2>6. OnlyRivals'
    BY <1>1, <2>2, <2>5 DEF OnlyRivals, Started
  <2>7. QED
    BY <1>1, <2>4, <2>6 DEF BaseInv
<1>4. CASE Crash
  <2>1. /\ UNCHANGED <<allowOverwrite, dir, placedSince>>
        /\ \A w \in Writers : pc'[w] \in {pc[w], "crashed"}
    BY <1>4 DEF Crash
  <2>2. TempsOwned' /\ UploadsClean' /\ OnlyRivals'
    BY <1>1, <2>1 DEF TempsOwned, UploadsClean, OnlyRivals, Started, Writers
  <2>3. QED
    BY <1>1, <2>2 DEF BaseInv
<1>5. QED
  BY <1>2, <1>3, <1>4, WriterBase DEF Next, OpenRead, ReadOn, vars, writerVars

\* BaseInv is an invariant.
LEMMA BaseInvariant == Spec => []BaseInv
<1>1. Init => BaseInv
  <2>1. SUFFICES ASSUME Init PROVE BaseInv
    OBVIOUS
  <2>2. TypeOK
    BY <2>1, TypeInit
  <2>3. \A w \in Writers : dir[TempPath(w)] = None
    <3>1. ASSUME NEW w \in Writers PROVE dir[TempPath(w)] = None
      <4>1. TempPath(w) \in Paths /\ TempPath(w) \notin Existing
        BY WriterPaths, ConstantAssumption
      <4>2. QED
        BY <2>1, <4>1 DEF Init
    <3>2. QED
      BY <3>1
  <2>4. \A w \in Writers : pc[w] = "idle"
    BY <2>1 DEF Init
  <2>5. QED
    BY <2>2, <2>3, <2>4 DEF BaseInv, TempsOwned, UploadsClean, OnlyRivals, Started, Writers
<1>2. BaseInv /\ [Next]_vars => BaseInv'
  BY BaseStep
<1>3. QED
  BY <1>1, <1>2, PTL DEF Spec

\* However uploads, deletions, failures and other writers interleave, an upload that ended
\* other than in a crash has left no temporary file.
THEOREM UploadsCleanUp == Spec => []UploadCleansUp
<1>1. BaseInv => UploadCleansUp
  BY DEF BaseInv, UploadsClean, UploadCleansUp, Ended
<1>2. QED
  BY <1>1, BaseInvariant, PTL

\* With allow_overwrite = false, with any number of concurrent writers in both processes, a
\* write replaces only a file that was put there between its check and its rename.
THEOREM RivalsOnlyReplaced == Spec => ReplacesRivalsOnly
<1>1. BaseInv /\ [Next]_vars =>
        [~allowOverwrite =>
           \A w \in Writers : pc[w] # "done" /\ pc'[w] = "done" =>
             dir[Dest[w]] \in placedSince[w] \cup {None}]_vars
  <2>1. SUFFICES ASSUME BaseInv, Next, ~allowOverwrite, NEW w \in Writers,
                        pc[w] # "done", pc'[w] = "done"
                 PROVE  dir[Dest[w]] \in placedSince[w] \cup {None}
    OBVIOUS
  <2>2. TypeOK /\ OnlyRivals
    BY <2>1 DEF BaseInv
  <2>3. ASSUME NEW v \in Writers, Writer(v) PROVE Started(w)
    BY <2>1, <2>2, <2>3, WriterPc DEF Started
  <2>4. (\E r \in Readers : OpenRead(r) \/ ReadOn(r)) \/ DeleteFile \/ Crash => FALSE
    BY <2>1 DEF OpenRead, ReadOn, DeleteFile, Crash, writerVars
  <2>5. QED
    BY <2>1, <2>2, <2>3, <2>4 DEF Next, OnlyRivals
<1>2. QED
  BY <1>1, BaseInvariant, PTL DEF Spec, ReplacesRivalsOnly

---------------------------------------------------------------------------
(* What holds if files with the same temporary path are written one at a time. *)

\* Two writers at work that have the same temporary path are the same.
LEMMA AloneOnPath ==
  ASSUME StoreInv, NEW v \in Writers, NEW w \in Writers, TempPath(v) = TempPath(w),
         pc[v] \in {"checked", "writing"}, pc[w] \in {"checked", "writing"}
  PROVE  v = w
<1>1. CASE v \in Web \/ w \in Web
  BY <1>1, WebTempOwn
<1>2. CASE v \in Tftp /\ w \in Tftp
  BY <1>2 DEF Started, StoreInv, Alone
<1>3. QED
  BY <1>1, <1>2 DEF Writers

\* Steps that only stop writers, or let them check, and remove paths.
LEMMA RemovingStep ==
  ASSUME StoreInv, BaseInv', Alone',
         UNCHANGED <<data, fd, issued, flushed, ioError, rfd, got>>,
         \A p \in Paths : dir'[p] \in {dir[p], None},
         \A w \in Writers :
           \/ pc'[w] = pc[w]
           \/ pc[w] = "idle" /\ pc'[w] \in {"checked", "refused"}
           \/ pc[w] = "checked" /\ pc'[w] = "failed"
           \/ pc[w] \in {"checked", "writing"} /\ pc'[w] = "crashed"
           \/ pc[w] = "writing" /\ pc'[w] = "failed" /\ (w \in Tftp => flushed[w] = issued[w])
  PROVE  StoreInv'
<1>1. TypeOK /\ OriginalsWhole /\ None \notin Writers
  BY ConstantAssumption DEF StoreInv, BaseInv
<1>2. \A f \in Files : dir'[f] \in {dir[f], None}
  BY DEF Paths
<1>3. ASSUME NEW w \in Writers
      PROVE  CountersOk(w)' /\ FreshOk(w)' /\ WritingOk(w)' /\ TempOk(w)'
  <2>1. CountersOk(w) /\ FreshOk(w) /\ WritingOk(w) /\ TempOk(w)
    BY DEF StoreInv
  <2>2. flushed[w] \in Nat /\ issued[w] \in Nat
    BY <1>1, ConstantAssumption DEF TypeOK
  <2>3. CountersOk(w)'
    BY <2>1, <2>2 DEF CountersOk
  <2>4. FreshOk(w)'
    BY <1>1, <2>1 DEF FreshOk
  <2>5. TempPath(w) \in Paths
    BY WriterPaths
  <2>6. WritingOk(w)'
    BY <1>1, <1>2, <2>1, <2>5 DEF WritingOk, Private, Stored
  <2>7. TempOk(w)'
    BY <1>2, <2>1, <2>5 DEF TempOk, Private
  <2>8. QED
    BY <2>3, <2>4, <2>6, <2>7
<1>4. ASSUME NEW w \in Web PROVE WebOk(w)'
  <2>1. WebOk(w) /\ w \in Writers
    BY DEF StoreInv, Writers
  <2>2. QED
    BY <2>1 DEF WebOk, Stored
<1>5. ASSUME NEW f \in Files PROVE FileOk(f)'
  <2>1. FileOk(f) /\ dir'[f] \in {dir[f], None}
    BY <1>2 DEF StoreInv
  <2>2. QED
    BY <2>1 DEF FileOk, Writers
<1>6. ASSUME NEW r \in Readers PROVE ReaderOk(r)'
  <2>1. ReaderOk(r)
    BY DEF StoreInv
  <2>2. QED
    BY <2>1 DEF ReaderOk, Served, Writers
<1>7. OriginalsWhole'
  BY <1>1 DEF OriginalsWhole
<1>8. QED
  BY <1>3, <1>4, <1>5, <1>6, <1>7 DEF StoreInv

\* File::create, of an inode nobody sees.
LEMMA CreateInv ==
  ASSUME StoreInv, BaseInv', NEW w \in Writers, Create(w) PROVE StoreInv'
<1> DEFINE n == IF dir[TempPath(w)] = None THEN w ELSE dir[TempPath(w)]
<1>1. BaseInv /\ TypeOK /\ TempsOwned /\ OriginalsWhole /\ Alone
  BY DEF StoreInv, BaseInv
<1>2. /\ TempPath(w) \in Paths /\ TempPath(w) \notin Files /\ w \in Inodes /\ w # None
      /\ None \notin Writers
  BY WriterPaths, ConstantAssumption
<1>3. /\ pc[w] = "checked" /\ pc' = [pc EXCEPT ![w] = "writing"]
      /\ dir' = [dir EXCEPT ![TempPath(w)] = n] /\ data' = [data EXCEPT ![n] = <<>>]
      /\ fd' = [fd EXCEPT ![w] = n]
      /\ UNCHANGED <<issued, flushed, ioError, rfd, got>>
  BY DEF Create, readerVars
<1>4. n \in Writers /\ TempPath(n) = TempPath(w) /\ n \in Inodes
  BY <1>1, <1>2 DEF TempsOwned, Inodes
<1>5. Private(n)
  <2>1. FreshOk(w) /\ TempOk(w)
    BY DEF StoreInv
  <2>2. QED
    BY <1>3, <2>1 DEF FreshOk, TempOk, Private, Paths
<1>6. ASSUME NEW v \in Writers, v # w, pc[v] \in {"checked", "writing"} PROVE TempPath(v) # TempPath(w)
  BY <1>3, <1>6, AloneOnPath
<1> HIDE DEF n
<1>7. /\ pc'[w] = "writing" /\ fd'[w] = n /\ data'[n] = <<>> /\ dir'[TempPath(w)] = n
      /\ \A v \in Writers \ {w} : pc'[v] = pc[v] /\ fd'[v] = fd[v]
      /\ \A m \in Inodes \ {n} : data'[m] = data[m]
      /\ \A p \in Paths \ {TempPath(w)} : dir'[p] = dir[p]
      /\ \A f \in Files : dir'[f] = dir[f]
  BY <1>1, <1>2, <1>3, <1>4 DEF TypeOK, Paths
<1>8. \A m : Private(m) => Private(m)'
  BY <1>3, <1>7 DEF Private
<1>9. ASSUME NEW v \in Writers
      PROVE  CountersOk(v)' /\ FreshOk(v)' /\ WritingOk(v)' /\ TempOk(v)'
  <2>1. CountersOk(v) /\ FreshOk(v) /\ WritingOk(v) /\ TempOk(v)
    BY DEF StoreInv
  <2>2. CountersOk(v)'
    BY <1>3, <1>7, <2>1 DEF CountersOk
  <2>3. TempPath(v) \in Paths
    BY WriterPaths
  <2>4. TempOk(v)'
    BY <1>5, <1>7, <1>8, <2>1, <2>3 DEF TempOk
  <2>5. CASE v = w
    <3>1. CountersOk(w)
      BY <2>1, <2>5
    <3>2. issued[w] = 0 /\ flushed[w] \in Nat /\ issued[w] \in {flushed[w], flushed[w] + 1}
      BY <1>1, <1>3, <3>1, ConstantAssumption DEF CountersOk, TypeOK
    <3>3. flushed[w] = 0 /\ ~ioError[w]
      BY <3>1, <3>2 DEF CountersOk
    <3>4. Stored(w)' = 0
      BY <1>3, <3>3 DEF Stored
    <3>5. FirstPieces(w, 0) = <<>>
      BY DEF FirstPieces
    <3>6. WritingOk(w)'
      BY <1>4, <1>5, <1>7, <1>8, <3>4, <3>5 DEF WritingOk
    <3>7. FreshOk(w)'
      BY <1>7 DEF FreshOk
    <3>8. QED
      BY <2>2, <2>4, <2>5, <3>6, <3>7
  <2>6. CASE v # w
    <3>1. n # v \/ pc[v] \notin {"idle", "checked", "refused"}
      BY <1>2, <2>1, <2>6 DEF FreshOk, n
    <3>2. FreshOk(v)'
      BY <1>3, <1>7, <2>1, <2>6, <3>1 DEF FreshOk
    <3>3. WritingOk(v)'
      <4>1. SUFFICES ASSUME pc[v] = "writing" PROVE WritingOk(v)'
        BY <1>7, <2>6 DEF WritingOk
      <4>2. TempPath(v) # TempPath(w)
        BY <1>6, <2>6, <4>1
      <4>3. fd[v] \in Writers /\ TempPath(fd[v]) = TempPath(v) /\ fd[v] # n /\ fd[v] \in Inodes
        BY <1>4, <2>1, <4>1, <4>2 DEF WritingOk, Inodes
      <4>4. dir'[TempPath(v)] = dir[TempPath(v)] /\ data'[fd[v]] = data[fd[v]] /\ fd'[v] = fd[v]
        BY <1>7, <2>3, <2>6, <4>2, <4>3
      <4>5. (\A f \in Files : dir'[f] # fd[v]) /\ (\A r \in Readers : rfd'[r] # fd[v])
        BY <1>3, <1>7, <2>1, <4>1 DEF WritingOk, Private
      <4>6. Stored(v)' = Stored(v)
        BY <1>3 DEF Stored
      <4>7. QED
        BY <2>1, <4>1, <4>3, <4>4, <4>5, <4>6 DEF WritingOk, Private
    <3>4. QED
      BY <2>2, <2>4, <3>2, <3>3
  <2>7. QED
    BY <2>5, <2>6
<1>10. ASSUME NEW v \in Web PROVE WebOk(v)'
  <2>1. WebOk(v) /\ v \in Writers /\ v \in Inodes
    BY DEF StoreInv, Writers, Inodes
  <2>2. CASE v = w
    <3>1. n = w
      BY <1>4, <2>1, <2>2, WebTempOwn
    <3>2. QED
      BY <1>7, <2>2, <3>1 DEF WebOk
  <2>3. CASE v # w
    <3>1. n # v
      BY <1>4, <2>1, <2>3, WebTempOwn
    <3>2. Stored(v)' = Stored(v)
      BY <1>3 DEF Stored
    <3>3. QED
      BY <1>7, <2>1, <2>3, <3>1, <3>2 DEF WebOk
  <2>4. QED
    BY <2>2, <2>3
<1>11. ASSUME NEW f \in Files PROVE FileOk(f)'
  <2>1. FileOk(f) /\ dir'[f] = dir[f] /\ dir[f] # n
    BY <1>5, <1>7 DEF StoreInv, Private
  <2>2. dir[f] \in Tftp => data'[dir[f]] = data[dir[f]]
    BY <1>7, <2>1 DEF Inodes, Writers
  <2>3. dir[f] \in Web /\ pc[dir[f]] = "done" => pc'[dir[f]] = "done"
    BY <1>3, <1>7 DEF Writers
  <2>4. QED
    BY <2>1, <2>2, <2>3 DEF FileOk
<1>12. ASSUME NEW r \in Readers PROVE ReaderOk(r)'
  <2>1. ReaderOk(r) /\ rfd[r] # n /\ rfd'[r] = rfd[r] /\ got'[r] = got[r]
    BY <1>3, <1>5 DEF StoreInv, Private
  <2>2. rfd[r] # None => rfd[r] \in Inodes /\ data'[rfd[r]] = data[rfd[r]]
    BY <1>1, <1>7, <2>1 DEF TypeOK
  <2>3. rfd[r] \in Web /\ pc[rfd[r]] = "done" => pc'[rfd[r]] = "done"
    BY <1>3, <1>7 DEF Writers
  <2>4. QED
    BY <2>1, <2>2, <2>3 DEF ReaderOk, Served
<1>13. OriginalsWhole'
  BY <1>1, <1>4, <1>7, ConstantAssumption DEF OriginalsWhole, Inodes
<1>14. Alone'
  <2>1. \A v \in Writers : pc'[v] \in {"checked", "writing"} => pc[v] \in {"checked", "writing"}
    BY <1>3, <1>7
  <2>2. QED
    BY <1>1, <2>1 DEF Started, Alone, Writers
<1>15. QED
  BY <1>9, <1>10, <1>11, <1>12, <1>13, <1>14 DEF StoreInv

\* A piece is handed to the blocking thread.
LEMMA WriteInv ==
  ASSUME StoreInv, BaseInv', NEW w \in Writers, Write(w) PROVE StoreInv'
<1>1. TypeOK /\ OriginalsWhole /\ Alone
  BY DEF StoreInv, BaseInv
<1>2. /\ pc[w] = "writing" /\ flushed[w] = issued[w] /\ ~ioError[w] /\ issued[w] < Chunks
      /\ issued'[w] = issued[w] + 1 /\ \A v \in Writers \ {w} : issued'[v] = issued[v]
      /\ UNCHANGED <<pc, dir, data, fd, flushed, ioError, rfd, got>>
  BY <1>1 DEF Write, readerVars, TypeOK
<1>3. ASSUME NEW v \in Writers
      PROVE  CountersOk(v)' /\ FreshOk(v)' /\ WritingOk(v)' /\ TempOk(v)'
  <2>1. CountersOk(v) /\ FreshOk(v) /\ WritingOk(v) /\ TempOk(v)
    BY DEF StoreInv
  <2>2. issued[v] \in Nat /\ flushed[v] \in Nat
    BY <1>1, ConstantAssumption DEF TypeOK
  <2>3. CountersOk(v)'
    BY <1>2, <2>1, <2>2 DEF CountersOk
  <2>4. FreshOk(v)' /\ WritingOk(v)' /\ TempOk(v)'
    BY <1>2, <2>1 DEF FreshOk, WritingOk, TempOk, Private, Stored
  <2>5. QED
    BY <2>3, <2>4
<1>4. ASSUME NEW v \in Web PROVE WebOk(v)'
  BY <1>2 DEF StoreInv, WebOk, Stored
<1>5. ASSUME NEW f \in Files PROVE FileOk(f)'
  BY <1>2 DEF StoreInv, FileOk
<1>6. ASSUME NEW r \in Readers PROVE ReaderOk(r)'
  BY <1>2 DEF StoreInv, ReaderOk, Served
<1>7. OriginalsWhole' /\ Alone'
  BY <1>1, <1>2 DEF Started, OriginalsWhole, Alone
<1>8. QED
  BY <1>3, <1>4, <1>5, <1>6, <1>7 DEF StoreInv

\* A piece that is flushed, to an inode nobody sees or at the end of a web upload's.
LEMMA FlushInv ==
  ASSUME StoreInv, BaseInv', NEW w \in Writers, Flush(w) PROVE StoreInv'
<1>1. TypeOK /\ OriginalsWhole /\ Alone /\ CountersOk(w) /\ WritingOk(w)
  BY DEF StoreInv, BaseInv
<1>2. /\ flushed[w] < issued[w] /\ pc[w] # "crashed"
      /\ flushed'[w] = flushed[w] + 1 /\ \A v \in Writers \ {w} : flushed'[v] = flushed[v]
      /\ UNCHANGED <<pc, dir, fd, issued, rfd, got>>
      /\ \A v \in Writers \ {w} : ioError'[v] = ioError[v]
  BY <1>1 DEF Flush, readerVars, TypeOK
<1>3. /\ issued[w] \in 0..Chunks /\ flushed[w] \in Nat /\ issued[w] = flushed[w] + 1
      /\ Chunks \in Nat /\ ~ioError[w] /\ flushed[w] \in 0..Chunks /\ flushed[w] < Chunks
  BY <1>1, <1>2, ConstantAssumption DEF CountersOk, TypeOK
<1>4. pc[w] = "writing" \/ (w \in Web /\ pc[w] \in {"done", "failed"})
  BY <1>1, <1>2, <1>3 DEF CountersOk, TypeOK, Ended, Writers
<1>5. w \in Inodes /\ w \notin Files /\ w # None
  BY WriterPaths
<1> DEFINE n == fd[w]
<1>6. /\ pc[w] = "writing" => n \in Writers /\ TempPath(n) = TempPath(w) /\ Private(n)
      /\ pc[w] # "writing" => n \in {None, w}
      /\ pc[w] \in {"writing", "done"} => n \in Writers /\ data[n] = FirstPieces(w, flushed[w])
  <2>1. CASE pc[w] = "writing"
    BY <1>1, <1>3, <2>1 DEF WritingOk, Stored
  <2>2. CASE pc[w] # "writing"
    <3>1. WebOk(w)
      BY <1>4, <2>2 DEF StoreInv
    <3>2. QED
      BY <1>3, <2>2, <3>1 DEF WebOk, Stored
  <2>3. QED
    BY <2>1, <2>2
<1>7. n \in Writers \cup {None}
  BY <1>4, <1>6
<1>8. /\ \A m \in Inodes \ {n} : data'[m] = data[m]
      /\ \/ pc[w] \notin {"writing", "done"}
         \/ /\ ioError'[w] /\ data' = data
         \/ /\ ~ioError'[w] /\ data'[n] = FirstPieces(w, flushed[w] + 1)
  <2>1. CASE data' = [data EXCEPT ![n] = Written(@, w, issued[w])] /\ UNCHANGED ioError
    <3>1. \A m \in Inodes \ {n} : data'[m] = data[m]
      BY <1>1, <2>1 DEF TypeOK
    <3>2. ASSUME pc[w] \in {"writing", "done"}
          PROVE  data'[n] = FirstPieces(w, flushed[w] + 1) /\ ~ioError'[w]
      <4>1. n \in Inodes /\ data[n] = FirstPieces(w, flushed[w])
        BY <1>6, <3>2 DEF Inodes
      <4>2. data'[n] = Written(FirstPieces(w, flushed[w]), w, flushed[w] + 1)
        BY <1>1, <1>3, <2>1, <4>1 DEF TypeOK
      <4>3. QED
        BY <1>3, <1>5, <2>1, <4>2, WrittenNextPiece
    <3>3. QED
      BY <3>1, <3>2
  <2>2. CASE ioError' = [ioError EXCEPT ![w] = TRUE] /\ UNCHANGED data
    BY <1>1, <2>2 DEF TypeOK
  <2>3. QED
    BY <2>1, <2>2 DEF Flush
<1> HIDE DEF n
<1>9. ASSUME NEW v \in Writers, v # w, pc[v] = "writing" PROVE fd[v] # n /\ fd[v] \in Inodes
  <2>1. fd[v] \in Writers /\ TempPath(fd[v]) = TempPath(v) /\ fd[v] # None
    BY <1>9, ConstantAssumption DEF StoreInv, WritingOk
  <2>2. CASE pc[w] = "writing"
    <3>1. TempPath(v) # TempPath(w)
      BY <1>9, <2>2, AloneOnPath
    <3>2. QED
      BY <1>6, <2>1, <2>2, <3>1 DEF Inodes
  <2>3. CASE pc[w] # "writing"
    <3>1. TempPath(v) # TempPath(w)
      BY <1>4, <1>9, <2>3, WebTempOwn
    <3>2. QED
      BY <1>6, <2>1, <2>3, <3>1 DEF Inodes
  <2>4. QED
    BY <2>2, <2>3
<1>10. ASSUME NEW v \in Writers
       PROVE  CountersOk(v)' /\ FreshOk(v)' /\ WritingOk(v)' /\ TempOk(v)'
  <2>1. CountersOk(v) /\ FreshOk(v) /\ WritingOk(v) /\ TempOk(v)
    BY DEF StoreInv
  <2>2. FreshOk(v)' /\ TempOk(v)'
    BY <1>2, <2>1 DEF FreshOk, TempOk, Private
  <2>3. CASE v = w
    <3>1. CountersOk(w)'
      BY <1>1, <1>2, <1>3, <1>4, <2>3 DEF CountersOk
    <3>2. WritingOk(w)'
      <4>1. SUFFICES ASSUME pc[w] = "writing" PROVE data'[n] = FirstPieces(w, Stored(w)')
        BY <1>1, <1>2 DEF WritingOk, Private, n
      <4>2. CASE ioError'[w] /\ data' = data
        <5>1. Stored(w)' = flushed[w]
          BY <1>2, <1>3, <4>2 DEF Stored
        <5>2. QED
          BY <1>6, <4>1, <4>2, <5>1
      <4>3. CASE ~ioError'[w] /\ data'[n] = FirstPieces(w, flushed[w] + 1)
        <5>1. Stored(w)' = flushed[w] + 1
          BY <1>2, <4>3 DEF Stored
        <5>2. QED
          BY <4>3, <5>1
      <4>4. QED
        BY <1>8, <4>1, <4>2, <4>3
    <3>3. QED
      BY <2>2, <2>3, <3>1, <3>2
  <2>4. CASE v # w
    <3>1. CountersOk(v)'
      BY <1>2, <2>1, <2>4 DEF CountersOk
    <3>2. Stored(v)' = Stored(v)
      BY <1>2, <2>4 DEF Stored
    <3>3. pc[v] = "writing" => data'[fd[v]] = data[fd[v]]
      BY <1>8, <1>9, <2>4
    <3>4. WritingOk(v)'
      BY <1>2, <2>1, <3>2, <3>3 DEF WritingOk, Private
    <3>5. QED
      BY <2>2, <3>1, <3>4
  <2>5. QED
    BY <2>3, <2>4
<1>11. ASSUME NEW v \in Web PROVE WebOk(v)'
  <2>1. WebOk(v) /\ v \in Writers /\ v \in Inodes /\ v # None
    BY ConstantAssumption DEF StoreInv, Writers, Inodes
  <2>2. CASE v # w
    <3>1. pc[v] = "done" => n # v
      <4>1. CASE pc[w] = "writing"
        BY <1>6, <2>1, <2>2, <4>1, WebTempOwn
      <4>2. CASE pc[w] # "writing"
        BY <1>6, <2>1, <2>2, <4>2
      <4>3. QED
        BY <4>1, <4>2
    <3>2. Stored(v)' = Stored(v)
      BY <1>2, <2>1, <2>2 DEF Stored
    <3>3. QED
      BY <1>2, <1>8, <2>1, <3>1, <3>2 DEF WebOk
  <2>3. CASE v = w
    <3>1. SUFFICES ASSUME pc[w] = "done" PROVE data'[w] = FirstPieces(w, Stored(w)')
      BY <1>2, <2>1, <2>3 DEF WebOk
    <3>2. n = w
      BY <2>1, <2>3, <3>1 DEF WebOk, n
    <3>3. CASE ioError'[w] /\ data' = data
      <4>1. Stored(w)' = flushed[w]
        BY <1>2, <1>3, <3>3 DEF Stored
      <4>2. QED
        BY <1>6, <3>1, <3>2, <3>3, <4>1
    <3>4. CASE ~ioError'[w] /\ data'[n] = FirstPieces(w, flushed[w] + 1)
      <4>1. Stored(w)' = flushed[w] + 1
        BY <1>2, <3>4 DEF Stored
      <4>2. QED
        BY <3>2, <3>4, <4>1
    <3>5. QED
      BY <1>8, <3>1, <3>3, <3>4
  <2>4. QED
    BY <2>2, <2>3
<1>12. ASSUME NEW f \in Files PROVE FileOk(f)'
  <2>1. FileOk(f)
    BY DEF StoreInv
  <2>2. dir[f] \in Tftp => data'[dir[f]] = data[dir[f]]
    <3>1. SUFFICES ASSUME dir[f] \in Tftp PROVE dir[f] # n
      BY <1>8 DEF Inodes, Writers
    <3>2. CASE pc[w] = "writing"
      BY <1>6, <3>2 DEF Private
    <3>3. CASE pc[w] # "writing"
      BY <1>4, <1>6, <3>1, <3>3, ConstantAssumption DEF Writers
    <3>4. QED
      BY <3>2, <3>3
  <2>3. QED
    BY <1>2, <2>1, <2>2 DEF FileOk
<1>13. ASSUME NEW r \in Readers PROVE ReaderOk(r)'
  <2>1. ReaderOk(r) /\ rfd'[r] = rfd[r] /\ got'[r] = got[r]
    BY <1>2 DEF StoreInv
  <2>2. CASE rfd[r] = None
    BY <2>1, <2>2 DEF ReaderOk
  <2>3. CASE rfd[r] # None /\ rfd[r] # n
    <3>1. data'[rfd[r]] = data[rfd[r]]
      BY <1>1, <1>8, <2>3 DEF TypeOK
    <3>2. QED
      BY <1>2, <2>1, <2>3, <3>1 DEF ReaderOk, Served
  <2>4. CASE rfd[r] # None /\ rfd[r] = n
    <3>1. pc[w] # "writing"
      BY <1>6, <2>4 DEF Private
    <3>2. n = w /\ w \in Web
      BY <1>4, <1>6, <2>4, <3>1
    <3>3. pc[w] = "done" /\ Served(n)
      BY <1>5, <2>1, <2>4, <3>2, ConstantAssumption DEF ReaderOk, Served
    <3>4. Served(w)'
      BY <1>2, <3>2, <3>3 DEF Served
    <3>5. data[w] = FirstPieces(w, flushed[w])
      BY <1>6, <3>2, <3>3
    <3>6. /\ Len(data[w]) = flushed[w] /\ \A i \in 1..flushed[w] : data[w][i] = Piece(w, i)
      BY <1>3, <1>5, <3>5, FirstPiecesSeq
    <3>7. /\ Len(data[w]) <= Len(data'[w])
          /\ \A i \in 1..Len(data[w]) : data'[w][i] = data[w][i]
      <4>1. CASE data' = data
        BY <1>3, <3>6, <4>1
      <4>2. CASE data'[n] = FirstPieces(w, flushed[w] + 1)
        <5>1. flushed[w] + 1 \in 0..Chunks
          BY <1>3
        <5>2. /\ Len(data'[w]) = flushed[w] + 1
              /\ \A i \in 1..(flushed[w] + 1) : data'[w][i] = Piece(w, i)
          BY <1>5, <3>2, <4>2, <5>1, FirstPiecesSeq
        <5>3. QED
          BY <1>3, <3>6, <5>2
      <4>3. QED
        BY <1>8, <3>3, <4>1, <4>2
    <3>8. Len(got[r]) \in Nat /\ Len(data[w]) \in Nat /\ Len(data'[w]) \in Nat
      <4>1. Len(got[r]) \in Nat
        BY <1>1, LenProperties DEF TypeOK
      <4>2. Len(data[w]) \in Nat
        BY <1>3, <3>6
      <4>3. data' \in [Inodes -> Seq(Pieces)]
        BY DEF BaseInv, TypeOK
      <4>4. Len(data'[w]) \in Nat
        BY <1>5, <4>3, LenProperties
      <4>5. QED
        BY <4>1, <4>2, <4>4
    <3>9. Len(got[r]) <= Len(data[w]) /\ \A i \in 1..Len(got[r]) : got[r][i] = data[w][i]
      BY <2>1, <2>4, <3>2 DEF ReaderOk
    <3>10. Len(got[r]) <= Len(data'[w]) /\ \A i \in 1..Len(got[r]) : got[r][i] = data'[w][i]
      BY <3>7, <3>8, <3>9
    <3>11. QED
      BY <2>1, <2>4, <3>2, <3>4, <3>10 DEF ReaderOk
  <2>5. QED
    BY <2>2, <2>3, <2>4
<1>14. OriginalsWhole' /\ Alone'
  <2>1. \A f \in Existing : f \in Inodes /\ f # n
    BY <1>7, ConstantAssumption DEF Inodes
  <2>2. QED
    BY <1>1, <1>2, <1>8, <2>1 DEF Started, OriginalsWhole, Alone
<1>15. QED
  BY <1>10, <1>11, <1>12, <1>13, <1>14 DEF StoreInv

\* The rename of a complete file makes its inode a served one.
LEMMA RenameInv ==
  ASSUME StoreInv, BaseInv', NEW w \in Writers, Rename(w), pc'[w] # "failed"
  PROVE  StoreInv' /\ pc'[w] = "done" /\ (w \in Tftp => data'[dir'[Dest[w]]] = Content(w))
<1> DEFINE n == dir[TempPath(w)]
<1>1. TypeOK /\ OriginalsWhole /\ Alone /\ CountersOk(w) /\ WritingOk(w) /\ TempOk(w)
  BY DEF StoreInv, BaseInv
<1>2. /\ TempPath(w) \in Paths /\ Dest[w] \in Files /\ Dest[w] \in Paths
      /\ TempPath(w) \notin Files /\ TempPath(w) # Dest[w]
  BY WriterPaths
<1>3. /\ pc[w] = "writing" /\ issued[w] = Chunks /\ ~NoticesError(w)
      /\ w \in Tftp => flushed[w] = Chunks
      /\ dir' = [dir EXCEPT ![Dest[w]] = n, ![TempPath(w)] = None]
      /\ pc' = [pc EXCEPT ![w] = "done"]
      /\ UNCHANGED <<data, fd, issued, flushed, ioError, rfd, got>> /\ n # None
  <2>1. pc' # [pc EXCEPT ![w] = "failed"]
    BY <1>1 DEF TypeOK
  <2>2. QED
    BY <2>1 DEF Rename, Renames, readerVars
<1>4. /\ n = fd[w] /\ n \in Writers /\ n # None /\ TempPath(n) = TempPath(w) /\ Private(n)
      /\ data[n] = FirstPieces(w, Stored(w))
  BY <1>1, <1>3 DEF WritingOk
<1> HIDE DEF n
<1>5. /\ dir'[Dest[w]] = n /\ dir'[TempPath(w)] = None
      /\ \A p \in Paths \ {Dest[w], TempPath(w)} : dir'[p] = dir[p]
      /\ pc'[w] = "done" /\ \A v \in Writers \ {w} : pc'[v] = pc[v]
  BY <1>1, <1>2, <1>3 DEF TypeOK
<1>6. w \in Tftp => data[n] = Content(w) /\ n \in Tftp
  <2>1. SUFFICES ASSUME w \in Tftp PROVE data[n] = Content(w) /\ n \in Tftp
    OBVIOUS
  <2>2. Stored(w) = Chunks
    BY <1>3, <2>1 DEF NoticesError, Stored
  <2>3. n \in Tftp
    BY <1>4, <2>1, WebTempOwn, ConstantAssumption DEF Writers
  <2>4. QED
    BY <1>4, <2>2, <2>3 DEF FirstPieces, Content
<1>7. w \in Web => n = w
  BY <1>4, WebTempOwn
<1>8. ASSUME NEW v \in Writers
      PROVE  CountersOk(v)' /\ FreshOk(v)' /\ WritingOk(v)' /\ TempOk(v)'
  <2>1. CountersOk(v) /\ FreshOk(v) /\ WritingOk(v) /\ TempOk(v)
    BY DEF StoreInv
  <2>2. CountersOk(v)'
    BY <1>3, <1>5, <2>1 DEF CountersOk
  <2>3. TempPath(v) \in Paths /\ TempPath(v) \notin Files /\ TempPath(v) # Dest[w] /\ v # None
    BY <1>2, WriterPaths
  <2>4. FreshOk(v)'
    <3>1. SUFFICES ASSUME v # w, pc[v] \in {"idle", "checked", "refused"} PROVE \A p \in Paths : dir'[p] # v
      BY <1>3, <1>5, <2>1 DEF FreshOk
    <3>2. \A p \in Paths : dir[p] # v
      BY <2>1, <3>1 DEF FreshOk
    <3>3. n # v
      BY <1>2, <3>2 DEF n
    <3>4. QED
      BY <1>5, <2>3, <3>2, <3>3
  <2>5. TempOk(v)'
    <3>1. SUFFICES ASSUME dir'[TempPath(v)] # None PROVE TempOk(v)'
      BY DEF TempOk
    <3>2. TempPath(v) # TempPath(w) /\ dir'[TempPath(v)] = dir[TempPath(v)]
      BY <1>5, <2>3, <3>1
    <3>3. TempPath(dir[TempPath(v)]) = TempPath(v)
      BY <3>1, <3>2 DEF StoreInv, BaseInv, TempsOwned
    <3>4. dir[TempPath(v)] # n
      BY <1>4, <3>2, <3>3
    <3>5. Private(dir[TempPath(v)])
      BY <2>1, <3>1, <3>2 DEF TempOk
    <3>6. \A f \in Files : dir'[f] # dir[TempPath(v)]
      BY <1>2, <1>5, <3>4, <3>5 DEF Private, Paths
    <3>7. QED
      BY <1>3, <3>2, <3>5, <3>6 DEF TempOk, Private
  <2>6. WritingOk(v)'
    <3>1. SUFFICES ASSUME v # w, pc[v] = "writing" PROVE WritingOk(v)'
      BY <1>5 DEF WritingOk
    <3>2. TempPath(v) # TempPath(w)
      BY <1>3, <3>1, AloneOnPath
    <3>3. fd[v] # n /\ dir'[TempPath(v)] = dir[TempPath(v)]
      BY <1>4, <1>5, <2>1, <2>3, <3>1, <3>2 DEF WritingOk
    <3>4. \A f \in Files : dir'[f] # fd[v]
      BY <1>2, <1>5, <2>1, <3>1, <3>3 DEF WritingOk, Private, Paths
    <3>5. Stored(v)' = Stored(v)
      BY <1>3 DEF Stored
    <3>6. QED
      BY <1>3, <2>1, <3>1, <3>3, <3>4, <3>5 DEF WritingOk, Private
  <2>7. QED
    BY <2>2, <2>4, <2>5, <2>6
<1>9. ASSUME NEW v \in Web PROVE WebOk(v)'
  <2>1. WebOk(v) /\ v \in Writers /\ Stored(v)' = Stored(v)
    BY <1>3 DEF StoreInv, Writers, Stored
  <2>2. QED
    BY <1>3, <1>4, <1>5, <1>7, <2>1 DEF WebOk
<1>10. ASSUME NEW f \in Files PROVE FileOk(f)'
  <2>1. FileOk(f) /\ f # TempPath(w) /\ f \in Paths
    BY <1>2 DEF StoreInv, Paths
  <2>2. CASE f = Dest[w]
    <3>1. CASE w \in Web
      BY <1>5, <1>7, <2>2, <3>1 DEF FileOk
    <3>2. CASE w \in Tftp
      BY <1>3, <1>5, <1>6, <2>2, <3>2 DEF FileOk
    <3>3. QED
      BY <3>1, <3>2 DEF Writers
  <2>3. CASE f # Dest[w]
    <3>1. dir'[f] = dir[f]
      BY <1>5, <2>1, <2>3
    <3>2. dir[f] \in Web /\ pc[dir[f]] = "done" => pc'[dir[f]] = "done"
      BY <1>5 DEF Writers
    <3>3. QED
      BY <1>3, <2>1, <3>1, <3>2 DEF FileOk
  <2>4. QED
    BY <2>2, <2>3
<1>11. ASSUME NEW r \in Readers PROVE ReaderOk(r)'
  <2>1. ReaderOk(r)
    BY DEF StoreInv
  <2>2. rfd[r] \in Web /\ pc[rfd[r]] = "done" => pc'[rfd[r]] = "done"
    BY <1>5 DEF Writers
  <2>3. QED
    BY <1>3, <2>1, <2>2 DEF ReaderOk, Served
<1>12. OriginalsWhole' /\ Alone'
  <2>1. \A v \in Writers : pc'[v] \in {"checked", "writing"} => pc[v] \in {"checked", "writing"}
    BY <1>5
  <2>2. QED
    BY <1>1, <1>3, <2>1 DEF Started, OriginalsWhole, Alone, Writers
<1>13. w \in Tftp => data'[dir'[Dest[w]]] = Content(w)
  BY <1>3, <1>5, <1>6
<1>14. QED
  BY <1>5, <1>8, <1>9, <1>10, <1>11, <1>12, <1>13 DEF StoreInv

\* What a reader opens is a served inode, and stays one.
LEMMA ReaderInv ==
  ASSUME StoreInv, BaseInv', NEW r \in Readers, OpenRead(r) \/ ReadOn(r) PROVE StoreInv'
<1>1. TypeOK /\ OriginalsWhole /\ Alone
  BY DEF StoreInv, BaseInv
<1>2. UNCHANGED <<pc, dir, data, fd, issued, flushed, ioError>>
  BY DEF OpenRead, ReadOn, writerVars
<1>3. \A q \in Readers \ {r} : rfd'[q] = rfd[q] /\ got'[q] = got[q]
  BY <1>1 DEF OpenRead, ReadOn, TypeOK
<1>4. \/ rfd'[r] = rfd[r]
      \/ \E f \in Files : rfd'[r] = dir[f] /\ dir[f] # None
  BY <1>1 DEF OpenRead, ReadOn, TypeOK
<1>5. ASSUME NEW v \in Writers
      PROVE  CountersOk(v)' /\ FreshOk(v)' /\ WritingOk(v)' /\ TempOk(v)'
  <2>1. CountersOk(v) /\ FreshOk(v) /\ WritingOk(v) /\ TempOk(v)
    BY DEF StoreInv
  <2>2. \A m : Private(m) => \A q \in Readers : rfd'[q] # m
    BY <1>3, <1>4 DEF Private
  <2>3. CountersOk(v)'
    BY <1>2, <2>1 DEF CountersOk
  <2>4. FreshOk(v)'
    BY <1>2, <1>3, <1>4, <2>1 DEF FreshOk, Paths
  <2>5. WritingOk(v)'
    BY <1>2, <2>1, <2>2 DEF WritingOk, Private, Stored
  <2>6. TempOk(v)'
    BY <1>2, <2>1, <2>2 DEF TempOk, Private
  <2>7. QED
    BY <2>3, <2>4, <2>5, <2>6
<1>6. ASSUME NEW v \in Web PROVE WebOk(v)'
  BY <1>2 DEF StoreInv, WebOk, Stored
<1>7. ASSUME NEW f \in Files PROVE FileOk(f)'
  BY <1>2 DEF StoreInv, FileOk
<1>8. ASSUME NEW q \in Readers PROVE ReaderOk(q)'
  <2>1. ReaderOk(q)
    BY DEF StoreInv
  <2>2. CASE q # r
    BY <1>2, <1>3, <2>1, <2>2 DEF ReaderOk, Served
  <2>3. CASE q = r /\ OpenRead(r)
    <3>1. PICK f \in Files : dir[f] # None /\ rfd'[r] = dir[f]
      BY <1>1, <2>3 DEF OpenRead, TypeOK
    <3>2. FileOk(f) /\ Served(dir[f])
      BY <3>1 DEF StoreInv, FileOk, Served
    <3>3. got'[r] = <<>>
      BY <2>1, <2>3 DEF OpenRead, ReaderOk
    <3>4. dir[f] \in Inodes
      BY <1>1, <3>1 DEF TypeOK, Paths
    <3>5. Len(data[dir[f]]) \in Nat
      BY <1>1, <3>4, LenProperties DEF TypeOK
    <3>6. Len(<<>>) = 0 /\ 1..0 = {}
      OBVIOUS
    <3>7. QED
      BY <1>2, <2>3, <3>1, <3>2, <3>3, <3>5, <3>6 DEF ReaderOk, Served
  <2>4. CASE q = r /\ ReadOn(r)
    <3> DEFINE d == data[rfd[r]]
               g == got[r]
    <3>1. rfd[r] # None /\ rfd'[r] = rfd[r] /\ Len(g) < Len(d) /\ got'[r] = Append(g, d[Len(g) + 1])
      BY <1>1, <2>4 DEF ReadOn, TypeOK
    <3>2. rfd[r] \in Inodes
      BY <1>1, <3>1 DEF TypeOK
    <3>3. d \in Seq(Pieces) /\ g \in Seq(Pieces)
      BY <1>1, <3>2 DEF TypeOK
    <3>4. Len(g) \in Nat /\ Len(d) \in Nat /\ Len(g) + 1 \in 1..Len(d)
      BY <3>1, <3>3, LenProperties
    <3>5. d[Len(g) + 1] \in Pieces
      BY <3>3, <3>4, ElementOfSeq
    <3>6. Served(rfd[r]) /\ \A i \in 1..Len(g) : g[i] = d[i]
      BY <2>1, <2>4, <3>1 DEF ReaderOk
    <3> HIDE DEF d, g
    <3>7. /\ Len(got'[r]) = Len(g) + 1 /\ got'[r][Len(g) + 1] = d[Len(g) + 1]
          /\ \A i \in 1..Len(g) : got'[r][i] = g[i]
      BY <3>1, <3>3, <3>5, AppendProperties
    <3>8. \A i \in 1..Len(got'[r]) : got'[r][i] = d[i]
      BY <3>4, <3>6, <3>7
    <3>9. Len(got'[r]) <= Len(d)
      BY <3>4, <3>7
    <3>10. QED
      BY <1>2, <2>4, <3>1, <3>6, <3>8, <3>9 DEF ReaderOk, Served, d
  <2>5. QED
    BY <2>2, <2>3, <2>4
<1>9. OriginalsWhole' /\ Alone'
  BY <1>1, <1>2 DEF Started, OriginalsWhole, Alone
<1>10. QED
  BY <1>5, <1>6, <1>7, <1>8, <1>9 DEF StoreInv

\* Every step of a writer preserves StoreInv.
LEMMA WriterInv ==
  ASSUME OneAtATime, StoreInv, BaseInv', NEW w \in Writers, Writer(w) PROVE StoreInv'
<1>1. TypeOK /\ Alone /\ CountersOk(w) /\ BaseInv
  BY DEF StoreInv, BaseInv
<1>2. CASE Check(w)
  <2>1. /\ pc[w] = "idle" /\ pc'[w] \in {"checked", "refused"}
        /\ \A v \in Writers \ {w} : pc'[v] = pc[v]
        /\ UNCHANGED <<dir, data, fd, issued, flushed, ioError, rfd, got>>
    BY <1>1, <1>2 DEF Check, TypeOK, readerVars
  <2>2. Alone'
    <3>1. w \in Tftp => \A v \in Tftp : TempPath(v) = TempPath(w) => pc[v] \notin {"checked", "writing"}
      BY <1>2 DEF Started, Check
    <3>2. QED
      BY <1>1, <2>1, <3>1 DEF Started, Alone, Writers
  <2>3. QED
    BY <2>1, <2>2, RemovingStep
<1>3. CASE TransferFails(w) \/ WriteFails(w) \/ StreamFails(w) \/ (Rename(w) /\ pc'[w] = "failed")
  <2>1. /\ UNCHANGED <<data, fd, issued, flushed, ioError, rfd, got>>
        /\ \A v \in Writers \ {w} : pc'[v] = pc[v]
        /\ pc'[w] = "failed" /\ pc[w] \in {"checked", "writing"}
    BY <1>1, <1>3 DEF TransferFails, WriteFails, StreamFails, Rename, Renames, TypeOK, readerVars
  <2>2. pc[w] = "writing" /\ w \in Tftp => flushed[w] = issued[w]
    BY <1>1, <1>3, ConstantAssumption
       DEF TransferFails, WriteFails, StreamFails, Rename, Renames, NoticesError, CountersOk
  <2>3. \A p \in Paths : dir'[p] \in {dir[p], None}
    <3>1. dir' = dir \/ dir' = CleanUp(w)
      BY <1>1, <1>3 DEF TransferFails, WriteFails, StreamFails, Rename, TypeOK
    <3>2. QED
      BY <1>1, <3>1 DEF CleanUp, TypeOK
  <2>4. Alone'
    BY <1>1, <2>1 DEF Started, Alone, Writers
  <2>5. QED
    BY <2>1, <2>2, <2>3, <2>4, RemovingStep
<1>4. QED
  BY <1>2, <1>3, CreateInv, WriteInv, FlushInv, RenameInv DEF Writer

\* StoreInv holds initially.
LEMMA StoreInit == Init => StoreInv
<1>1. SUFFICES ASSUME Init PROVE StoreInv
  OBVIOUS
<1>2. BaseInv
  <2>1. TypeOK
    BY <1>1, TypeInit
  <2>2. ASSUME NEW w \in Writers PROVE dir[TempPath(w)] = None
    <3>1. TempPath(w) \in Paths /\ TempPath(w) \notin Existing
      BY WriterPaths, ConstantAssumption
    <3>2. QED
      BY <1>1, <3>1 DEF Init
  <2>3. \A w \in Writers : pc[w] = "idle"
    BY <1>1 DEF Init
  <2>4. QED
    BY <2>1, <2>2, <2>3 DEF BaseInv, TempsOwned, UploadsClean, OnlyRivals, Started, Writers
<1>3. /\ \A w \in Writers : /\ pc[w] = "idle" /\ fd[w] = None /\ issued[w] = 0 /\ flushed[w] = 0
                            /\ ~ioError[w]
      /\ \A r \in Readers : rfd[r] = None /\ got[r] = <<>>
      /\ \A p \in Paths : dir[p] = IF p \in Existing THEN p ELSE None
  BY <1>1 DEF Init
<1>4. ASSUME NEW w \in Writers PROVE CountersOk(w) /\ FreshOk(w) /\ WritingOk(w) /\ TempOk(w)
  <2>1. CountersOk(w) /\ WritingOk(w)
    BY <1>3 DEF CountersOk, WritingOk
  <2>2. TempPath(w) \in Paths /\ TempPath(w) \notin Existing /\ w # None /\ w \notin Existing
    BY WriterPaths, ConstantAssumption
  <2>3. FreshOk(w) /\ TempOk(w)
    BY <1>3, <2>2 DEF FreshOk, TempOk
  <2>4. QED
    BY <2>1, <2>3
<1>5. \A w \in Web : WebOk(w)
  BY <1>3 DEF WebOk, Writers
<1>6. \A f \in Files : FileOk(f)
  BY <1>3 DEF FileOk, Paths
<1>7. \A r \in Readers : ReaderOk(r)
  BY <1>3 DEF ReaderOk
<1>8. OriginalsWhole /\ Alone
  BY <1>1, <1>3, ConstantAssumption DEF Started, Init, OriginalsWhole, Alone, Inodes, Writers
<1>9. QED
  BY <1>2, <1>4, <1>5, <1>6, <1>7, <1>8 DEF StoreInv

\* Every step preserves StoreInv.
LEMMA StoreStep ==
  ASSUME OneAtATime, StoreInv, [Next]_vars PROVE StoreInv'
<1>1. TypeOK /\ Alone /\ BaseInv /\ BaseInv'
  BY BaseStep DEF StoreInv, BaseInv
<1>2. CASE DeleteFile
  <2>1. UNCHANGED <<pc, data, fd, issued, flushed, ioError, rfd, got>>
    BY <1>2 DEF DeleteFile, writerVars, readerVars
  <2>2. \A p \in Paths : dir'[p] \in {dir[p], None}
    <3>1. \/ \E p \in Paths : dir' = [dir EXCEPT ![p] = None]
          \/ dir' = [p \in Paths |-> None]
      BY <1>2 DEF DeleteFile
    <3>2. QED
      BY <1>1, <3>1 DEF TypeOK
  <2>3. Alone'
    BY <1>1, <2>1 DEF Started, Alone
  <2>4. QED
    BY <1>1, <2>1, <2>2, <2>3, RemovingStep
<1>3. CASE Crash
  <2>1. /\ UNCHANGED <<dir, data, fd, issued, flushed, ioError, rfd, got>>
        /\ \A w \in Writers : \/ pc'[w] = pc[w]
                              \/ pc'[w] = "crashed" /\ pc[w] \in {"checked", "writing"}
    BY <1>3 DEF Started, Crash, readerVars
  <2>2. Alone'
    BY <1>1, <2>1 DEF Started, Alone, Writers
  <2>3. QED
    BY <1>1, <2>1, <2>2, RemovingStep
<1>4. CASE UNCHANGED vars
  <2>1. UNCHANGED <<pc, dir, data, fd, issued, flushed, ioError, rfd, got>>
    BY <1>4 DEF vars, writerVars, readerVars
  <2>2. Alone'
    BY <1>1, <2>1 DEF Started, Alone
  <2>3. QED
    BY <1>1, <2>1, <2>2, RemovingStep
<1>5. QED
  BY <1>1, <1>2, <1>3, <1>4, WriterInv, ReaderInv DEF Next

\* StoreInv is an invariant.
LEMMA StoreInvariant ==
  ASSUME OneAtATime PROVE Spec => []StoreInv
<1>1. StoreInv /\ [Next]_vars => StoreInv'
  BY StoreStep
<1>2. QED
  BY <1>1, StoreInit, PTL DEF Spec

\* A renamed web upload lacks at most its last piece.
LEMMA UploadedPieces ==
  ASSUME StoreInv, NEW w \in Web, pc[w] = "done"
  PROVE  /\ Stored(w) \in {Chunks - 1, Chunks} /\ Stored(w) \in 0..Chunks
         /\ data[w] = FirstPieces(w, Stored(w))
<1>1. TypeOK /\ CountersOk(w) /\ WebOk(w) /\ w \in Writers
  BY DEF StoreInv, BaseInv, Writers
<1>2. Chunks \in Nat \ {0} /\ flushed[w] \in 0..Chunks /\ issued[w] = Chunks
  BY <1>1, ConstantAssumption DEF TypeOK, CountersOk
<1>3. issued[w] \in {flushed[w], flushed[w] + 1} /\ (ioError[w] => flushed[w] = issued[w])
  BY <1>1 DEF CountersOk
<1>4. Stored(w) \in {Chunks - 1, Chunks}
  BY <1>2, <1>3 DEF Stored
<1>5. QED
  BY <1>1, <1>2, <1>4 DEF WebOk

\* A served inode holds the first pieces of one owner.
LEMMA ServedPieces ==
  ASSUME StoreInv, NEW n \in Inodes, Served(n)
  PROVE  \E o \in Inodes, k \in 0..Chunks : data[n] = FirstPieces(o, k)
<1>1. Chunks \in 0..Chunks
  BY ConstantAssumption
<1>2. CASE n \in Existing
  <2>1. n \in Inodes /\ data[n] = FirstPieces(n, Chunks)
    BY <1>2 DEF StoreInv, OriginalsWhole, Content, FirstPieces
  <2>2. QED
    BY <1>1, <2>1
<1>3. CASE n \in Web /\ pc[n] = "done"
  BY <1>3, UploadedPieces
<1>4. CASE n \in Tftp /\ \E w \in Tftp : data[n] = Content(w)
  <2>1. PICK w \in Tftp : data[n] = Content(w)
    BY <1>4
  <2>2. w \in Inodes /\ data[n] = FirstPieces(w, Chunks)
    BY <2>1 DEF Content, FirstPieces, Inodes, Writers
  <2>3. QED
    BY <1>1, <2>2
<1>5. QED
  BY <1>2, <1>3, <1>4 DEF Served

\* When clients do not write one stem at the same time, what is served under a name is
\* complete at every moment, except that a web upload may lack its last piece: the rename
\* of write_file_safely is atomic for any number of writers, readers, deletions and crashes.
THEOREM FilesServedWhole ==
  ASSUME OneAtATime PROVE Spec => []ServedFilesWhole
<1>1. StoreInv => ServedFilesWhole
  <2>1. SUFFICES ASSUME StoreInv, NEW f \in Files, dir[f] # None
                 PROVE  \E o \in Owners(f) :
                          \/ data[dir[f]] = Content(o)
                          \/ o \in Web /\ data[dir[f]] = SubSeq(Content(o), 1, Chunks - 1)
    BY DEF ServedFilesWhole
  <2>2. FileOk(f)
    BY <2>1 DEF StoreInv
  <2>3. CASE dir[f] = f /\ f \in Existing
    BY <2>1, <2>3 DEF StoreInv, OriginalsWhole, Owners
  <2>4. CASE dir[f] \in Web /\ pc[dir[f]] = "done" /\ Dest[dir[f]] = f
    <3> DEFINE w == dir[f]
    <3>1. w \in Web /\ w \in Owners(f) /\ w \in Inodes /\ pc[w] = "done"
      BY <2>4 DEF Owners, Writers, Inodes
    <3> HIDE DEF w
    <3>2. Stored(w) \in {Chunks - 1, Chunks} /\ data[w] = FirstPieces(w, Stored(w))
      BY <2>1, <3>1, UploadedPieces
    <3>3. CASE Stored(w) = Chunks
      BY <3>1, <3>2, <3>3 DEF Content, FirstPieces, w
    <3>4. CASE Stored(w) = Chunks - 1
      <4>1. Chunks - 1 \in 0..Chunks
        BY ConstantAssumption
      <4>2. data[w] = SubSeq(Content(w), 1, Chunks - 1)
        BY <3>1, <3>2, <3>4, <4>1, ContentPrefix
      <4>3. QED
        BY <3>1, <4>2 DEF w
    <3>5. QED
      BY <3>2, <3>3, <3>4
  <2>5. CASE dir[f] \in Tftp /\ \E w \in Tftp : Dest[w] = f /\ data[dir[f]] = Content(w)
    <3>1. PICK w \in Tftp : Dest[w] = f /\ data[dir[f]] = Content(w)
      BY <2>5
    <3>2. w \in Owners(f)
      BY <3>1 DEF Owners, Writers
    <3>3. QED
      BY <3>1, <3>2
  <2>6. QED
    BY <2>1, <2>2, <2>3, <2>4, <2>5 DEF FileOk
<1>2. QED
  BY <1>1, StoreInvariant, PTL

\* Under the same condition a read task, which opens its file once and reads it piece by
\* piece, sends pieces of one version of the file and in their order, although the file is
\* replaced, deleted or written on meanwhile.
THEOREM OneVersionRead ==
  ASSUME OneAtATime PROVE Spec => []ReadsOneVersion
<1>1. StoreInv => ReadsOneVersion
  <2>1. SUFFICES ASSUME StoreInv, NEW r \in Readers
                 PROVE  \E o \in Inodes : got[r] = SubSeq(Content(o), 1, Len(got[r]))
    BY DEF ReadsOneVersion
  <2>2. TypeOK /\ ReaderOk(r) /\ Chunks \in Nat
    BY <2>1, ConstantAssumption DEF StoreInv, BaseInv
  <2>3. got[r] \in Seq(Pieces) /\ Len(got[r]) \in Nat /\ rfd[r] \in Inodes \cup {None}
    BY <2>2, LenProperties DEF TypeOK
  <2>4. CASE rfd[r] = None
    <3>1. PICK o \in Inodes : TRUE
      BY ConstantAssumption DEF Inodes
    <3>2. got[r] = <<>> /\ Len(got[r]) = 0
      BY <2>2, <2>4 DEF ReaderOk
    <3>3. SubSeq(Content(o), 1, 0) = FirstPieces(o, 0)
      BY <2>2, ContentPrefix
    <3>4. FirstPieces(o, 0) = <<>>
      BY DEF FirstPieces
    <3>5. QED
      BY <3>2, <3>3, <3>4
  <2>5. CASE rfd[r] # None
    <3>1. rfd[r] \in Inodes /\ Served(rfd[r]) /\ Len(got[r]) <= Len(data[rfd[r]])
          /\ \A i \in 1..Len(got[r]) : got[r][i] = data[rfd[r]][i]
      BY <2>2, <2>3, <2>5 DEF ReaderOk
    <3>2. PICK o \in Inodes, k \in 0..Chunks : data[rfd[r]] = FirstPieces(o, k)
      BY <2>1, <3>1, ServedPieces
    <3>3. /\ Len(FirstPieces(o, k)) = k /\ \A i \in 1..k : FirstPieces(o, k)[i] = Piece(o, i)
          /\ k \in Nat
      BY <2>2, <3>2, FirstPiecesSeq
    <3>4. Len(got[r]) <= k
      BY <3>1, <3>2, <3>3
    <3>5. Len(got[r]) \in 0..Chunks
      BY <2>2, <2>3, <3>2, <3>4
    <3>6. \A i \in 1..Len(got[r]) : got[r][i] = Piece(o, i)
      BY <2>3, <3>1, <3>2, <3>3, <3>4
    <3>7. got[r] = FirstPieces(o, Len(got[r]))
      BY <2>3, <3>6 DEF FirstPieces
    <3>8. QED
      BY <3>5, <3>7, ContentPrefix
  <2>6. QED
    BY <2>4, <2>5
<1>2. QED
  BY <1>1, StoreInvariant, PTL

\* Under the same condition, when a TFTP write is logged as completed its destination holds
\* exactly what it received: the inode it renames is the one it wrote, and all of it.
THEOREM CompletedStored ==
  ASSUME OneAtATime PROVE Spec => CompletedIsStored
<1>1. StoreInv /\ [Next]_vars =>
        [\A w \in Tftp :
           pc[w] # "done" /\ pc'[w] = "done" => data'[dir'[Dest[w]]] = Content(w)]_vars
  <2>1. SUFFICES ASSUME StoreInv, [Next]_vars, NEW w \in Tftp,
                        pc[w] # "done", pc'[w] = "done"
                 PROVE  data'[dir'[Dest[w]]] = Content(w)
    OBVIOUS
  <2>2. TypeOK /\ BaseInv' /\ w \in Writers
    BY <2>1, BaseStep DEF StoreInv, BaseInv, Writers
  <2>3. pc # pc'
    BY <2>1
  <2>4. PICK v \in Writers : Writer(v)
    <3>1. ~Crash
      BY <2>1, <2>2 DEF Crash
    <3>2. ~DeleteFile /\ \A r \in Readers : ~OpenRead(r) /\ ~ReadOn(r)
      BY <2>3 DEF DeleteFile, OpenRead, ReadOn, writerVars
    <3>3. QED
      BY <2>1, <2>3, <3>1, <3>2 DEF Next, vars, writerVars
  <2>5. v = w
    BY <2>1, <2>2, <2>4, WriterPc
  <2>6. Rename(w)
    <3>1. pc \in [Writers -> {"idle", "checked", "writing"} \cup Ended]
      BY <2>2 DEF TypeOK
    <3>2. QED
      BY <2>1, <2>2, <2>4, <2>5, <3>1
         DEF Writer, Check, TransferFails, Create, Write, Flush, WriteFails, StreamFails, Rename
  <2>7. QED
    BY <2>1, <2>2, <2>6, RenameInv
<1>2. QED
  BY <1>1, StoreInvariant, PTL DEF Spec, CompletedIsStored

=============================================================================
