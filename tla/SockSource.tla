----------------------------- MODULE SockSource -----------------------------
(***************************************************************************)
(* "sock -i" of unpv13e/sock: source_tcp() or source_udp() writes nbuf     *)
(* buffers, sink_tcp() or sink_udp() at the other end reads until the end  *)
(* of file.  A write may fail or write less than it was given; with -W it  *)
(* is reported and the loop goes on.  With -Z each read is made twice,     *)
(* first as a look.  One urgent byte (-U) goes before one of the writes    *)
(* and is not in the stream.                                               *)
(***************************************************************************)
EXTENDS Integers, Sequences

CONSTANTS
    SrcCommands,    \* [udp, ignorewerr, peek : BOOLEAN, urgwrite : Nat]
    SrcNbuf, SrcWritelen, SrcReadlen    \* nbuf, writelen, readlen

\* Each write and each read asks for something; a negative nbuf is like 0.
ASSUME SrcLengthsAssumption ==
    SrcWritelen \in Nat \ {0} /\ SrcReadlen \in Nat \ {0} /\ SrcNbuf \in Nat

VARIABLES
    srcPc,          \* "main", "write", "closed", "exit"
    srcCmd,         \* the options
    srcI,           \* i of the source
    srcWire,        \* lengths of what was written and not read yet
    srcSent,        \* bytes that write() or sendto() has taken
    srcUrgent,      \* the urgent byte was sent
    snkPc,          \* "read", "again", "closed", "failed"
    snkPeeked,      \* bytes of the last look
    snkCount        \* bytes the sink has read

srcVars == <<srcPc, srcCmd, srcI, srcWire, srcSent, srcUrgent, snkPc, snkPeeked, snkCount>>

SrcInit ==
    /\ srcPc = "main" /\ srcCmd = [udp |-> FALSE, ignorewerr |-> FALSE, peek |-> FALSE, urgwrite |-> 0]
    /\ srcI = 1 /\ srcWire = <<>> /\ srcSent = 0 /\ srcUrgent = FALSE
    /\ snkPc = "read" /\ snkPeeked = 0 /\ snkCount = 0

SrcMain ==
    /\ srcPc = "main"
    /\ srcPc' = "write" /\ srcCmd' \in SrcCommands
    /\ UNCHANGED <<srcI, srcWire, srcSent, srcUrgent, snkPc, snkPeeked, snkCount>>

\* A call that did not write everything ends the program, unless -W was given.
SrcWriteError ==
    IF srcCmd.ignorewerr THEN srcI' = srcI + 1 /\ UNCHANGED srcPc
    ELSE srcPc' = "exit" /\ UNCHANGED srcI

\* A write fails.  SIGPIPE is not caught: it ends the program also with -W.
SrcWriteFails ==
    /\ SrcWriteError \/ (srcPc' = "exit" /\ UNCHANGED srcI)
    /\ UNCHANGED <<srcWire, srcSent>>

\* write() has put n bytes in the stream.
SrcPut(n) ==
    /\ srcSent' = srcSent + n
    /\ srcWire' = IF srcWire = <<>> THEN <<n>> ELSE <<srcWire[1] + n>>

\* The urgent byte before this buffer could not be sent, which ends the
\* program, with -W too.
SrcUrgentFails ==
    /\ srcCmd.urgwrite = srcI /\ srcPc' = "exit"
    /\ UNCHANGED <<srcI, srcWire, srcSent, srcUrgent>>

\* One turn of source_tcp(): the urgent byte, then the buffer, all of it or
\* a part or none.
SrcTcp ==
    /\ srcPc = "write" /\ ~srcCmd.udp /\ srcI <= SrcNbuf
    /\ \/ SrcUrgentFails
       \/ /\ srcUrgent' = (srcUrgent \/ srcCmd.urgwrite = srcI)
          /\ \/ SrcPut(SrcWritelen) /\ srcI' = srcI + 1 /\ UNCHANGED srcPc
             \/ \E n \in 1 .. SrcWritelen - 1 : SrcPut(n) /\ SrcWriteError
             \/ SrcWriteFails
    /\ UNCHANGED <<srcCmd, snkPc, snkPeeked, snkCount>>

\* One turn of source_udp(): a datagram each, which may be lost.
SrcUdp ==
    /\ srcPc = "write" /\ srcCmd.udp /\ srcI <= SrcNbuf
    /\ \/ /\ srcI' = srcI + 1 /\ srcSent' = srcSent + SrcWritelen
          /\ srcWire' \in {srcWire, Append(srcWire, SrcWritelen)}
          /\ UNCHANGED srcPc
       \/ SrcWriteError /\ UNCHANGED <<srcWire, srcSent>>
    /\ UNCHANGED <<srcCmd, srcUrgent, snkPc, snkPeeked, snkCount>>

\* close() may report an error, with SO_LINGER; the connection is closed too.
SrcClose ==
    /\ srcPc = "write" /\ srcI > SrcNbuf
    /\ srcPc' \in {"closed", "exit"}
    /\ UNCHANGED <<srcCmd, srcI, srcWire, srcSent, srcUrgent, snkPc, snkPeeked, snkCount>>

SrcFit(n) == IF n < SrcReadlen THEN n ELSE SrcReadlen

SnkCounted(n, look) == IF look THEN snkCount ELSE snkCount + n

\* flags is MSG_PEEK.
SnkLook == srcCmd.peek /\ snkPc = "read"

\* recv() fails, which ends the sink.
SnkFails == snkPc' = "failed" /\ UNCHANGED <<srcWire, snkPeeked, snkCount>>

\* One recv() of sink_tcp(): what is there up to readlen, or the end of the
\* connection, also when the source has died, or an error.
SnkTcp ==
    /\ ~srcCmd.udp /\ srcPc # "main" /\ snkPc \in {"read", "again"}
    /\ \/ /\ srcWire # <<>>
          /\ LET n == SrcFit(srcWire[1])
                 look == SnkLook
             IN  /\ snkCount' = SnkCounted(n, look)
                 /\ snkPeeked' = IF look THEN n ELSE 0
                 /\ snkPc' = IF look THEN "again" ELSE "read"
                 /\ srcWire' = IF look THEN srcWire
                               ELSE IF srcWire[1] = n THEN <<>> ELSE <<srcWire[1] - n>>
       \/ /\ srcWire = <<>> /\ srcPc \in {"closed", "exit"}
          /\ snkPc' = "closed" /\ UNCHANGED <<srcWire, snkPeeked, snkCount>>
       \/ SnkFails
    /\ UNCHANGED <<srcPc, srcCmd, srcI, srcSent, srcUrgent>>

\* One recv() of sink_udp(): a datagram, cut to readlen, or an error.  There
\* is no end.
SnkUdp ==
    /\ srcCmd.udp /\ srcPc # "main" /\ snkPc \in {"read", "again"}
    /\ \/ /\ srcWire # <<>>
          /\ LET n == SrcFit(srcWire[1])
                 look == SnkLook
             IN  /\ snkCount' = SnkCounted(n, look)
                 /\ snkPeeked' = IF look THEN n ELSE 0
                 /\ snkPc' = IF look THEN "again" ELSE "read"
                 /\ srcWire' = IF look THEN srcWire ELSE Tail(srcWire)
       \/ SnkFails
    /\ UNCHANGED <<srcPc, srcCmd, srcI, srcSent, srcUrgent>>

SrcNext == SrcMain \/ SrcTcp \/ SrcUdp \/ SrcClose \/ SnkTcp \/ SnkUdp

SrcSpec == SrcInit /\ [][SrcNext]_srcVars

SrcFairStep == SrcTcp \/ SrcUdp \/ SrcClose \/ SnkTcp

(***************************************************************************)
(* The sink never counts a byte that was not written, or one twice,        *)
(* whatever the pieces, the looks and the errors; a TCP sink that sees the *)
(* end of the connection has counted every byte that write() took, the     *)
(* part of a short write under -W too; and without -W, when the source     *)
(* has closed, that is every byte of all its buffers.                      *)
(***************************************************************************)
SrcAllCounted ==
    /\ snkCount <= srcSent
    /\ snkPc = "closed" => snkCount = srcSent
    /\ snkPc = "closed" /\ srcPc = "closed" /\ ~srcCmd.ignorewerr =>
           snkCount = SrcNbuf * SrcWritelen

(***************************************************************************)
(* The source ends although writes fail, and then the TCP sink ends too,   *)
(* also when it looks before each read.                                    *)
(***************************************************************************)
SrcEnds ==
    (srcPc = "write") ~> /\ srcPc \in {"closed", "exit"}
                         /\ srcCmd.udp \/ snkPc \in {"closed", "failed"}
=============================================================================
