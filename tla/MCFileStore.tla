----------------------------- MODULE MCFileStore -----------------------------
(***************************************************************************)
(* FileStore for TLC: two files a and b, with the same stem, and two TFTP   *)
(* writers and a web upload.                                               *)
(***************************************************************************)
EXTENDS FileStore

CONSTANTS a, b, w1, w2, u1

\* w1 writes a, w2 writes b, u1 uploads a.
TwoFiles == (w1 :> a) @@ (w2 :> b) @@ (u1 :> a)

\* a and b are, say, boot.img and boot.cfg.
SameStems == (a :> "boot") @@ (b :> "boot")
=============================================================================
