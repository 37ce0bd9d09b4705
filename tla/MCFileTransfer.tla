--------------------------- MODULE MCFileTransfer ---------------------------
(***************************************************************************)
(* Small instances of FileTransfer for TLC: the files' lengths, and the    *)
(* endpoints the clients get.                                              *)
(***************************************************************************)
EXTENDS FileTransfer, TLC

CONSTANTS t1, t2, t3, e1, e2, e3

MCDistinct == (t1 :> e1) @@ (t2 :> e2) @@ (t3 :> e3)
MCReused == (t1 :> e1) @@ (t2 :> e2) @@ (t3 :> e1)

MCFiles == (t1 :> 2) @@ (t2 :> 1) @@ (t3 :> 3)
MCGrowing == (t1 :> 2) @@ (t2 :> 0) @@ (t3 :> 3)
MCWithEmpty == (t1 :> 2) @@ (t2 :> 0) @@ (t3 :> 2)
=============================================================================
