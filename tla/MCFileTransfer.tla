--------------------------- MODULE MCFileTransfer ---------------------------
(***************************************************************************)
(* FileTransfer and its refinement of FileStore for TLC: the file sizes of *)
(* the small instances.                                                    *)
(***************************************************************************)
EXTENDS FileTransfer

\* With FragSize = 2: a file of a full and a partial fragment, and a short
\* one; both can be left open, the second by a damaged datagram.
ShortSizes == (0 :> 3) @@ (1 :> 1)

\* The same with an empty file, whose only fragment has no bytes.
EmptySizes == (0 :> 3) @@ (1 :> 0)
=============================================================================
