------------------------------ MODULE FileStore ------------------------------
(***************************************************************************)
(* The files below root_dir, which several processes and tasks share       *)
(* without a lock: TFTP write tasks that have received their file          *)
(* (write_file_safely), web uploads and deletions (web/handlers.rs),       *)
(* and TFTP read tasks that stream a file.                                 *)
(*                                                                         *)
(* A directory maps paths to inodes.  A file is written through an open    *)
(* inode in Chunks pieces (tokio::fs::File hands at most 2 MiB at a time   *)
(* to a blocking thread, and returns before that thread is done), then     *)
(* renamed to its destination.                                             *)
(***************************************************************************)
EXTENDS Naturals, SequencesExt

CONSTANTS
  Tftp,            \* TFTP write tasks
  Web,             \* web uploads
  Readers,         \* TFTP read tasks
  Files,           \* destination paths
  Dest,            \* the destination of each writer
  Stem,            \* each file's path without its extension
  Existing,        \* files present at the start
  None,            \* no inode
  Chunks,          \* pieces a file is written in
  OneAtATime,      \* do clients never write two files of one stem at the same time?
  MaxDeletes,      \* web deletions
  MaxCrashes       \* crashes of the TFTP server and of the web server

Writers == Tftp \cup Web

ASSUME ConstantAssumption ==
  /\ Tftp \cap Web = {}
  /\ \A w \in Writers : Dest[w] \in Files
  /\ DOMAIN Stem = Files
  /\ Files # {} /\ Existing \subseteq Files
  /\ Files \cap Writers = {}
  /\ None \notin Files \cup Writers
  /\ Chunks \in Nat \ {0}
  /\ OneAtATime \in BOOLEAN
  /\ MaxDeletes \in Nat /\ MaxCrashes \in Nat

VARIABLES
  allowOverwrite, \* write_config.allow_overwrite
  pc,       \* per writer
  dir,      \* path -> inode, or None
  data,     \* inode -> pieces, in order
  fd,       \* per writer, the inode it has open
  issued,   \* per writer, pieces handed to the blocking thread
  flushed,  \* per writer, pieces that thread has dealt with
  ioError,  \* per writer, did a piece fail to be written?
  rfd,      \* per reader, the inode it has open
  got,      \* per reader, the pieces it has sent to its client
  deletes, crashes,
  placedSince \* history: per writer, the inodes renamed to its destination since its check

writerVars == <<pc, fd, issued, flushed, ioError>>
readerVars == <<rfd, got>>
vars == <<allowOverwrite, writerVars, dir, data, readerVars, deletes, crashes, placedSince>>

Ended == {"refused", "failed", "done", "crashed"}

---------------------------------------------------------------------------
\* The temporary file: one per stem for TFTP writes (file_path.with_extension), one per
\* upload for web uploads (a UUID).
TempPath(w) == IF w \in Web THEN <<"uuid", w>> ELSE <<"stem", Stem[Dest[w]]>>

Paths  == Files \cup {TempPath(w) : w \in Writers}
Inodes == Files \cup Writers   \* those of the Existing files, and those writers create

\* Nobody asks for a file by the name of a temporary file.  path_security refuses the names
\* of uploads in progress, which start with a dot, but not boot..tftp-tmp, that of a WRQ.
ASSUME TempAssumption == \A w \in Writers : TempPath(w) \notin Files

Piece(o, j)  == <<o, j>>
Content(o)   == [j \in 1..Chunks |-> Piece(o, j)]
Hole         == <<None, 0>>
Pieces       == {Piece(o, j) : o \in Inodes, j \in 1..Chunks} \cup {Hole}

\* Mutant of Written: the position is advanced before the piece is taken.
WrittenNext(s, w, j) == Append(s, Piece(w, j + 1))

\* Piece j of writer w written at its place in s; a gap before it reads as zeros.
Written(s, w, j) ==
  [i \in 1..(IF Len(s) < j THEN j ELSE Len(s)) |->
     IF i = j THEN Piece(w, j) ELSE IF i <= Len(s) THEN s[i] ELSE Hole]

Init ==
  /\ allowOverwrite \in BOOLEAN
  /\ pc = [w \in Writers |-> "idle"]
  /\ dir = [p \in Paths |-> IF p \in Existing THEN p ELSE None]
  /\ data = [n \in Inodes |-> IF n \in Existing THEN Content(n) ELSE <<>>]
  /\ fd = [w \in Writers |-> None]
  /\ issued = [w \in Writers |-> 0]
  /\ flushed = [w \in Writers |-> 0]
  /\ ioError = [w \in Writers |-> FALSE]
  /\ rfd = [r \in Readers |-> None]
  /\ got = [r \in Readers |-> <<>>]
  /\ deletes = 0 /\ crashes = 0
  /\ placedSince = [w \in Writers |-> {}]

---------------------------------------------------------------------------
(* Writers. *)

\* Has w passed its check, and not come to its end?
Started(w) == pc[w] \in {"checked", "writing"}

\* Mutant of MayWrite: the check is missing.
AlwaysMayWrite(w) == w \in Writers

\* file_path.exists() && !allow_overwrite
MayWrite(w) == dir[Dest[w]] = None \/ allowOverwrite

\* The checks of a WRQ or of an uploaded field; the data of a WRQ arrives after them.
Check(w) ==
  /\ pc[w] = "idle"
  /\ OneAtATime /\ w \in Tftp =>
       \A v \in Tftp : TempPath(v) = TempPath(w) => ~Started(v)
  /\ pc' = [pc EXCEPT ![w] = IF MayWrite(w) THEN "checked" ELSE "refused"]
  /\ UNCHANGED <<allowOverwrite, dir, data, fd, issued, flushed, ioError, readerVars, deletes, crashes, placedSince>>

\* The transfer of a WRQ fails, or a directory or the temporary file cannot be created.
TransferFails(w) ==
  /\ pc[w] = "checked"
  /\ pc' = [pc EXCEPT ![w] = "failed"]
  /\ UNCHANGED <<allowOverwrite, dir, data, fd, issued, flushed, ioError, readerVars, deletes, crashes, placedSince>>

\* File::create: a new inode, or the one that is there, emptied.
Create(w) ==
  LET n == IF dir[TempPath(w)] = None THEN w ELSE dir[TempPath(w)]
  IN /\ pc[w] = "checked"
     /\ pc' = [pc EXCEPT ![w] = "writing"]
     /\ dir' = [dir EXCEPT ![TempPath(w)] = n]
     /\ data' = [data EXCEPT ![n] = <<>>]
     /\ fd' = [fd EXCEPT ![w] = n]
     /\ UNCHANGED <<allowOverwrite, issued, flushed, ioError, readerVars, deletes, crashes, placedSince>>

\* write_all hands a piece to the blocking thread, once that is done with the last one.
Write(w) ==
  /\ pc[w] = "writing"
  /\ flushed[w] = issued[w] /\ ~ioError[w] /\ issued[w] < Chunks
  /\ issued' = [issued EXCEPT ![w] = @ + 1]
  /\ UNCHANGED <<allowOverwrite, pc, dir, data, fd, flushed, ioError, readerVars, deletes, crashes, placedSince>>

\* The blocking thread writes the piece, or fails.
Flush(w) ==
  /\ flushed[w] < issued[w] /\ pc[w] # "crashed"
  /\ flushed' = [flushed EXCEPT ![w] = @ + 1]
  /\ \/ /\ data' = [data EXCEPT ![fd[w]] = Written(@, w, issued[w])]
        /\ UNCHANGED ioError
     \/ /\ ioError' = [ioError EXCEPT ![w] = TRUE]
        /\ UNCHANGED data
  /\ UNCHANGED <<allowOverwrite, pc, dir, fd, issued, readerVars, deletes, crashes, placedSince>>

\* Mutant of NoticesError: the result of a piece is never looked at.
ErrorUnnoticed(w) == FALSE

\* The next write_all reports the error of the last one; so does the flush of a WRQ.
NoticesError(w) == ioError[w] /\ (w \in Tftp \/ issued[w] < Chunks)

\* Mutant of CleanUp: the temporary file of a failed upload stays.
LeaveTemp(w) == dir

\* The web handler removes its temporary file; write_file_safely leaves it.
CleanUp(w) == IF w \in Web THEN [dir EXCEPT ![TempPath(w)] = None] ELSE dir

WriteFails(w) ==
  /\ pc[w] = "writing"
  /\ NoticesError(w)
  /\ pc' = [pc EXCEPT ![w] = "failed"]
  /\ dir' = CleanUp(w)
  /\ UNCHANGED <<allowOverwrite, data, fd, issued, flushed, ioError, readerVars, deletes, crashes, placedSince>>

\* The body of a web upload ends early: what is written is removed.
StreamFails(w) ==
  /\ w \in Web
  /\ pc[w] = "writing" /\ issued[w] < Chunks
  /\ pc' = [pc EXCEPT ![w] = "failed"]
  /\ dir' = CleanUp(w)
  /\ UNCHANGED <<allowOverwrite, data, fd, issued, flushed, ioError, readerVars, deletes, crashes, placedSince>>

\* Mutant of Renames: a WRQ's file is not flushed either.
RenamesUnflushed(w) ==
  /\ pc[w] = "writing"
  /\ issued[w] = Chunks
  /\ ~NoticesError(w)

\* May w rename?  write_file_safely has flushed the file; the web handler drops it.
Renames(w) ==
  /\ pc[w] = "writing"
  /\ issued[w] = Chunks
  /\ ~NoticesError(w)
  /\ w \in Tftp => flushed[w] = Chunks

\* Mutant of Rename: the temporary file is copied over the destination.
RenameCopies(w) ==
  /\ Renames(w)
  /\ dir[TempPath(w)] # None /\ dir[Dest[w]] # None
  /\ data' = [data EXCEPT ![dir[Dest[w]]] = data[dir[TempPath(w)]]]
  /\ dir' = [dir EXCEPT ![TempPath(w)] = None]
  /\ pc' = [pc EXCEPT ![w] = "done"]
  /\ UNCHANGED <<allowOverwrite, fd, issued, flushed, ioError, readerVars, deletes, crashes, placedSince>>

\* rename: the inode at the temporary path, whoever wrote it, becomes the destination's.  Or
\* it fails: because the path is gone, or with the temporary file in place.
Rename(w) ==
  /\ Renames(w)
  /\ \/ /\ dir[TempPath(w)] # None
        /\ dir' = [dir EXCEPT ![Dest[w]] = dir[TempPath(w)], ![TempPath(w)] = None]
        /\ pc' = [pc EXCEPT ![w] = "done"]
        /\ placedSince' = [v \in Writers |->
             IF Dest[v] = Dest[w] /\ Started(v) THEN placedSince[v] \cup {dir[TempPath(w)]}
             ELSE placedSince[v]]
     \/ /\ dir' = CleanUp(w)
        /\ pc' = [pc EXCEPT ![w] = "failed"]
        /\ UNCHANGED placedSince
  /\ UNCHANGED <<allowOverwrite, data, fd, issued, flushed, ioError, readerVars, deletes, crashes>>

Writer(w) ==
  \/ Check(w) \/ TransferFails(w) \/ Create(w) \/ Write(w) \/ Flush(w)
  \/ WriteFails(w) \/ StreamFails(w) \/ Rename(w)

---------------------------------------------------------------------------
(* Readers, deletions and crashes. *)

\* handle_read_request opens the file once.
OpenRead(r) ==
  /\ rfd[r] = None
  /\ \E f \in Files :
       /\ dir[f] # None
       /\ rfd' = [rfd EXCEPT ![r] = dir[f]]
  /\ UNCHANGED <<allowOverwrite, writerVars, dir, data, got, deletes, crashes, placedSince>>

\* send_file_data_streaming reads on, as long as there is data.
ReadOn(r) ==
  /\ rfd[r] # None
  /\ Len(got[r]) < Len(data[rfd[r]])
  /\ got' = [got EXCEPT ![r] = Append(@, data[rfd[r]][Len(@) + 1])]
  /\ UNCHANGED <<allowOverwrite, writerVars, dir, data, rfd, deletes, crashes, placedSince>>

\* delete_file: one path, or a directory with all there is in it.  A path whose name
\* starts with a dot, as the temporary file of a web upload, is not accepted.
DeleteFile ==
  /\ deletes < MaxDeletes
  /\ deletes' = deletes + 1
  /\ \/ \E p \in Paths \ {TempPath(w) : w \in Web} :
          /\ dir[p] # None
          /\ dir' = [dir EXCEPT ![p] = None]
     \/ dir' = [p \in Paths |-> None]
  /\ UNCHANGED <<allowOverwrite, writerVars, data, readerVars, crashes, placedSince>>

\* The TFTP server, or the web server, which is another process, dies with its writers
\* and their blocking threads.
Crash ==
  /\ crashes < MaxCrashes
  /\ crashes' = crashes + 1
  /\ \E P \in {Tftp, Web} :
       pc' = [w \in Writers |-> IF w \in P /\ Started(w)
                               THEN "crashed" ELSE pc[w]]
  /\ UNCHANGED <<allowOverwrite, dir, data, fd, issued, flushed, ioError, readerVars, deletes, placedSince>>

Next ==
  \/ \E w \in Writers : Writer(w)
  \/ \E r \in Readers : OpenRead(r) \/ ReadOn(r)
  \/ DeleteFile
  \/ Crash

Spec == Init /\ [][Next]_vars

---------------------------------------------------------------------------
(* Properties. *)

\* Every variable stays in its range.
TypeOK ==
  /\ allowOverwrite \in BOOLEAN
  /\ pc \in [Writers -> {"idle", "checked", "writing"} \cup Ended]
  /\ dir \in [Paths -> Inodes \cup {None}]
  /\ data \in [Inodes -> Seq(Pieces)]
  /\ fd \in [Writers -> Inodes \cup {None}]
  /\ issued \in [Writers -> 0..Chunks]
  /\ flushed \in [Writers -> 0..Chunks]
  /\ ioError \in [Writers -> BOOLEAN]
  /\ rfd \in [Readers -> Inodes \cup {None}]
  /\ got \in [Readers -> Seq(Pieces)]
  /\ deletes \in Nat /\ crashes \in Nat
  /\ placedSince \in [Writers -> SUBSET Inodes]

\* The owners whose content may be found in file f.
Owners(f) == {f} \cup {w \in Writers : Dest[w] = f}

\* A served file is complete at every moment, whoever writes, deletes, fails or crashes
\* meanwhile: the rename of write_file_safely shows all of an upload or nothing.  A web
\* upload, which is renamed before its last piece is flushed, may lack that piece.
ServedFilesWhole ==
  \A f \in Files : dir[f] # None =>
    \E o \in Owners(f) :
      \/ data[dir[f]] = Content(o)
      \/ o \in Web /\ data[dir[f]] = SubSeq(Content(o), 1, Chunks - 1)

\* A served file is complete, web uploads included.
AtomicWrites ==
  \A f \in Files : dir[f] # None => \E o \in Owners(f) : data[dir[f]] = Content(o)

\* A transfer that streams a file while it is replaced or deleted sends pieces of one
\* version of the file, in order.
ReadsOneVersion ==
  \A r \in Readers : \E o \in Inodes : got[r] = SubSeq(Content(o), 1, Len(got[r]))

\* When a TFTP write is logged as completed, its file holds exactly what it received.
CompletedIsStored ==
  [][\A w \in Tftp :
       pc[w] # "done" /\ pc'[w] = "done" => data'[dir'[Dest[w]]] = Content(w)]_vars

\* A web upload that ended, well or badly, leaves no temporary file behind: not when its
\* body breaks off, a piece cannot be written or the rename fails (but when its process
\* dies, after which nothing removes it, or when remove_file, whose result is not looked at,
\* fails as well).
UploadCleansUp ==
  \A w \in Web : pc[w] \in Ended \ {"crashed"} => dir[TempPath(w)] = None

\* With allow_overwrite = false, a write replaces a file only in the race between its check
\* of exists() and its rename: what it replaces is a file that another write, of the TFTP
\* server or of the web server, has put there in between, and never one that was complete
\* when it checked.
ReplacesRivalsOnly ==
  [][~allowOverwrite =>
       \A w \in Writers : pc[w] # "done" /\ pc'[w] = "done" =>
         dir[Dest[w]] \in placedSince[w] \cup {None}]_vars
---------------------------------------------------------------------------
(* The inductive invariants of FileStoreProofs.  BaseInv holds whoever writes what when;  *)
(* StoreInv needs OneAtATime.                                                             *)

\* A temporary path holds an inode that a writer with that temporary path has created.
TempsOwned ==
  \A w \in Writers : LET n == dir[TempPath(w)] IN
    n # None => n \in Writers /\ TempPath(n) = TempPath(w)

\* The temporary file of a web upload is there only while it is written, or after a crash.
UploadsClean ==
  \A w \in Web : pc[w] \notin {"writing", "crashed"} => dir[TempPath(w)] = None

\* What is at the destination of a writer under way was put there since its check.
OnlyRivals ==
  ~allowOverwrite =>
    \A w \in Writers : Started(w) => dir[Dest[w]] \in placedSince[w] \cup {None}

BaseInv == TypeOK /\ TempsOwned /\ UploadsClean /\ OnlyRivals

FirstPieces(o, k) == [j \in 1..k |-> Piece(o, j)]

\* The pieces of w that are in its file.
Stored(w) == IF ioError[w] THEN flushed[w] - 1 ELSE flushed[w]

\* The blocking thread is at most one piece behind, stops at an error, and has nothing left
\* to do when a WRQ ends.
CountersOk(w) ==
  /\ issued[w] \in {flushed[w], flushed[w] + 1}
  /\ ioError[w] => issued[w] > 0 /\ flushed[w] = issued[w]
  /\ pc[w] \in {"idle", "checked", "refused"} => issued[w] = 0
  /\ pc[w] = "done" => issued[w] = Chunks
  /\ w \in Tftp /\ pc[w] \in {"done", "failed"} => flushed[w] = issued[w]

\* Nobody can see what is written to inode n.
Private(n) == (\A f \in Files : dir[f] # n) /\ (\A r \in Readers : rfd[r] # n)

\* A writer that has not created its temporary file has not used its inode.
FreshOk(w) ==
  pc[w] \in {"idle", "checked", "refused"} =>
    /\ \A p \in Paths : dir[p] # w
    /\ \A r \in Readers : rfd[r] # w
    /\ \A v \in Writers : fd[v] # w

\* A writer alone has its inode, under its temporary path if anywhere.
WritingOk(w) ==
  pc[w] = "writing" =>
    /\ fd[w] \in Writers /\ TempPath(fd[w]) = TempPath(w)
    /\ Private(fd[w])
    /\ dir[TempPath(w)] \in {None, fd[w]}
    /\ data[fd[w]] = FirstPieces(w, Stored(w))

\* What is at a temporary path is not served.
TempOk(w) == dir[TempPath(w)] # None => Private(dir[TempPath(w)])

\* A web upload goes on writing its file after it has renamed it.
WebOk(w) ==
  /\ fd[w] \in {None, w}
  /\ pc[w] = "done" => fd[w] = w /\ data[w] = FirstPieces(w, Stored(w))

OriginalsWhole == \A f \in Existing : data[f] = Content(f)

\* An inode that has been served: nobody writes to it any more, but a web upload its rest.
Served(n) ==
  \/ n \in Existing
  \/ n \in Web /\ pc[n] = "done"
  \/ n \in Tftp /\ \E w \in Tftp : data[n] = Content(w)

FileOk(f) ==
  dir[f] # None =>
    \/ dir[f] = f /\ f \in Existing
    \/ dir[f] \in Web /\ pc[dir[f]] = "done" /\ Dest[dir[f]] = f
    \/ dir[f] \in Tftp /\ \E w \in Tftp : Dest[w] = f /\ data[dir[f]] = Content(w)

\* What a reader has sent is the beginning of what it reads.
ReaderOk(r) ==
  IF rfd[r] = None
  THEN got[r] = <<>>
  ELSE /\ Served(rfd[r])
       /\ Len(got[r]) <= Len(data[rfd[r]])
       /\ \A i \in 1..Len(got[r]) : got[r][i] = data[rfd[r]][i]

\* OneAtATime, as a state predicate.
Alone ==
  \A v, w \in Tftp :
    /\ TempPath(v) = TempPath(w)
    /\ Started(v) /\ Started(w)
    => v = w

StoreInv ==
  /\ BaseInv
  /\ Alone
  /\ OriginalsWhole
  /\ \A w \in Writers : CountersOk(w) /\ FreshOk(w) /\ WritingOk(w) /\ TempOk(w)
  /\ \A w \in Web : WebOk(w)
  /\ \A f \in Files : FileOk(f)
  /\ \A r \in Readers : ReaderOk(r)
=============================================================================
