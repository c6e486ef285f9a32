----------------------------- MODULE SockProgram -----------------------------
(***************************************************************************)
(* The sock program of unpv13e, while it opens its socket (SockOpen) and   *)
(* when it writes or reads a load of bytes over it (SockSource).           *)
(***************************************************************************)
EXTENDS SockOpen, SockSource

SockSpec == SckSpec /\ SrcSpec

\* The sock program sets every option asked for at a time when the kernel
\* takes it, and its sink counts every byte written once.
SockRight ==
    /\ SckAllSet
    /\ SckOrder
    /\ SrcAllCounted
==============================================================================
