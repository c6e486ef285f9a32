------------------------------ MODULE SockLoop ------------------------------
(***************************************************************************)
(* The sock program of unpv13e/sock once its socket is open: loop_tcp()    *)
(* and loop_udp() copy standard input to the socket and the socket to      *)
(* standard output, with -h (half-close), -Z (peek, then read again), -c   *)
(* (newline to CR/LF and back) and -k (write in chunks).                   *)
(*                                                                         *)
(* A byte is "x", newline "n" or return "r".  The peer is external: it     *)
(* sends lopPeer, in any pieces, then closes.                              *)
(***************************************************************************)
EXTENDS Integers, Sequences, SequencesExt

CONSTANTS
    LopCommands,    \* [udp, server, connectudp, halfclose, peek, crlf : BOOLEAN]
    LopStdin,       \* what standard input may hold
    LopPeer,        \* what the peer may send
    LopReadlen, LopWritelen,    \* readlen, writelen
    LopMaxIov       \* UIO_MAXIOV

LopBytes == {"x", "n", "r"}

ASSUME LopCommandsAssumption ==
    LopCommands \subseteq [udp : BOOLEAN, server : BOOLEAN, connectudp : BOOLEAN,
                           halfclose : BOOLEAN, peek : BOOLEAN, crlf : BOOLEAN]
ASSUME LopTextsAssumption ==
    /\ \A s \in LopStdin : s \in Seq(LopBytes)
    /\ \A s \in LopPeer : s \in Seq(LopBytes)
ASSUME LopSizesAssumption == {LopReadlen, LopWritelen, LopMaxIov} \subseteq Nat \ {0}

VARIABLES
    lopPc,          \* "main", "select", "once", "exit" (an error), "closed"
    lopCmd,         \* the options
    lopStdin,       \* what is left of standard input
    lopStdineof,    \* stdineof
    lopSent,        \* what was written to the socket
    lopPeer,        \* what the peer has still to send
    lopIn,          \* what can be read from the socket: bytes, or datagrams
    lopClosed,      \* the peer's FIN has come
    lopOut          \* pieces of standard output, <<was a peek, bytes>>

lopVars == <<lopPc, lopCmd, lopStdin, lopStdineof, lopSent, lopPeer, lopIn, lopClosed, lopOut>>

LopNone == [udp |-> FALSE, server |-> FALSE, connectudp |-> TRUE,
            halfclose |-> FALSE, peek |-> FALSE, crlf |-> FALSE]

LopInit ==
    /\ lopPc = "main" /\ lopCmd = LopNone /\ lopStdin = <<>> /\ lopStdineof = FALSE
    /\ lopSent = <<>> /\ lopPeer = <<>> /\ lopIn = <<>> /\ lopClosed = FALSE
    /\ lopOut = <<>>

\* The end of main(), after cliopen() or servopen().
LopMain ==
    /\ lopPc = "main"
    /\ lopPc' = "select"
    /\ lopCmd' \in LopCommands /\ lopStdin' \in LopStdin /\ lopPeer' \in LopPeer
    /\ UNCHANGED <<lopStdineof, lopSent, lopIn, lopClosed, lopOut>>

LopFirst(n, s) == SubSeq(s, 1, IF n < Len(s) THEN n ELSE Len(s))
LopAfter(n, s) == SubSeq(s, n + 1, Len(s))

\* What the peer sends: TCP bytes join, datagrams do not, and may be empty
\* (bound: only the first one).
LopPeerSends ==
    /\ lopPeer # <<>>
    /\ IF lopCmd.udp
       THEN \E n \in 0 .. Len(lopPeer) :
              /\ n = 0 => lopIn = <<>> /\ lopOut = <<>>
              /\ lopIn' = Append(lopIn, LopFirst(n, lopPeer))
              /\ lopPeer' = LopAfter(n, lopPeer)
       ELSE \E n \in 1 .. Len(lopPeer) :
              /\ lopIn' = lopIn \o LopFirst(n, lopPeer)
              /\ lopPeer' = LopAfter(n, lopPeer)
    /\ UNCHANGED <<lopPc, lopCmd, lopStdin, lopStdineof, lopSent, lopClosed, lopOut>>

LopPeerCloses ==
    /\ lopPc # "main" /\ lopPeer = <<>> /\ ~lopCmd.udp /\ ~lopClosed
    /\ lopClosed' = TRUE
    /\ UNCHANGED <<lopPc, lopCmd, lopStdin, lopStdineof, lopSent, lopPeer, lopIn, lopOut>>

LopQuits == <<"quit">>  \* err_quit() in crlf_add() or crlf_strip()

\* Each newline gets a return; the last byte of the buffer is never used
\* for one.
crlf_add(size, src) ==
    LET dst == FlattenSeq([i \in DOMAIN src |-> IF src[i] = "n" THEN <<"r", "n">> ELSE <<src[i]>>])
    IN  IF Len(src) > size \/ (Len(dst) > Len(src) /\ Len(dst) >= size) THEN LopQuits ELSE dst

LopNoReturns(s) == FlattenSeq([i \in DOMAIN s |-> IF s[i] = "r" THEN <<>> ELSE <<s[i]>>])

crlf_strip(size, src) == IF Len(LopNoReturns(src)) >= size THEN LopQuits ELSE LopNoReturns(src)

LopChunk(n) ==
    IF n \div LopMaxIov <= 0 THEN 1
    ELSE n \div LopMaxIov + (IF n % LopMaxIov # 0 THEN 1 ELSE 0)

\* dowrite(): where the chunks of n bytes begin and how long they are, as the
\* LopMaxIov elements take them.
dowrite(n) ==
    LET from(i) == (i - 1) * LopChunk(n)
        left(i) == n - from(i)
    IN  [i \in {i \in 1 .. LopMaxIov : left(i) > 0} |->
            [base |-> from(i), len |-> IF left(i) >= LopChunk(n) THEN LopChunk(n) ELSE left(i)]]

\* Mutant: the end of standard input is always the end.
LopOnEofBreak == "closed"

LopOnEof == IF lopCmd.halfclose THEN "select" ELSE "closed"

\* Standard input is ready: a piece goes to the socket; at its end the
\* write half is closed, or all.
LopStdinReady ==
    /\ lopPc = "select" /\ ~lopStdineof
    /\ IF lopStdin = <<>>
       THEN lopPc' = LopOnEof /\ lopStdineof' = TRUE /\ UNCHANGED <<lopStdin, lopSent>>
       ELSE \E n \in 1 .. IF Len(lopStdin) < LopReadlen THEN Len(lopStdin) ELSE LopReadlen :
              LET piece == LopFirst(n, lopStdin)
                  bytes == IF lopCmd.crlf THEN crlf_add(LopWritelen, piece) ELSE piece
              IN  /\ lopStdin' = LopAfter(n, lopStdin)
                  /\ IF bytes = LopQuits THEN lopPc' = "exit" /\ UNCHANGED lopSent
                     ELSE lopSent' = lopSent \o bytes /\ UNCHANGED lopPc
                  /\ UNCHANGED lopStdineof
    /\ UNCHANGED <<lopCmd, lopPeer, lopIn, lopClosed, lopOut>>

\* A TCP client and a connected UDP client peek; the others do not.
LopPeeks == lopCmd.peek /\ (~lopCmd.udp \/ (~lopCmd.server /\ lopCmd.connectudp))

\* Nothing read means the end, except for recvmsg() and recvfrom().
LopZeroIsEnd == ~lopCmd.udp \/ (~lopCmd.server /\ lopCmd.connectudp)

LopRest(peek, rest) == IF peek THEN lopIn ELSE rest

LopPut(peek, bytes) ==
    LET text == IF lopCmd.crlf THEN crlf_strip(LopWritelen, bytes) ELSE bytes
    IN  IF text = LopQuits THEN lopPc' = "exit" /\ UNCHANGED lopOut
        ELSE /\ lopOut' = Append(lopOut, <<peek, text>>)
             /\ lopPc' = IF peek THEN "once" ELSE "select"

\* The socket is ready, for loop_tcp() or loop_udp(): the first read, which
\* may only look, or the second.
LopSocketReady ==
    /\ lopPc \in {"select", "once"}
    /\ lopIn # <<>> \/ (lopClosed /\ lopIn = <<>>)
    /\ LET peek == LopPeeks /\ lopPc = "select"
           got == IF lopIn = <<>> THEN <<>>
                  ELSE LopFirst(LopReadlen, IF lopCmd.udp THEN lopIn[1] ELSE lopIn)
           rest == IF lopCmd.udp THEN Tail(lopIn) ELSE LopAfter(LopReadlen, lopIn)
       IN  IF got = <<>> /\ LopZeroIsEnd
           THEN lopPc' = "closed" /\ UNCHANGED <<lopOut, lopIn>>
           ELSE /\ LopPut(peek, got)
                /\ lopIn' = LopRest(peek, rest)
    /\ UNCHANGED <<lopCmd, lopStdin, lopStdineof, lopSent, lopPeer, lopClosed>>

LopNext == LopMain \/ LopPeerSends \/ LopPeerCloses \/ LopStdinReady \/ LopSocketReady

LopSpec == LopInit /\ [][LopNext]_lopVars

-----------------------------------------------------------------------------

\* Standard output without what was only looked at.
LopRead == FlattenSeq([i \in DOMAIN lopOut |-> IF lopOut[i][1] THEN <<>> ELSE lopOut[i][2]])

\* Bytes of the peer as standard output should show them.
LopShown(s) == IF lopCmd.crlf THEN LopNoReturns(s) ELSE s

(***************************************************************************)
(* A TCP loop that ended without an error and was told to half-close has   *)
(* written all that the peer sent: the end of standard input never cuts    *)
(* off the answer.                                                         *)
(***************************************************************************)
LopAnswerWhole ==
    lopPc = "closed" /\ lopCmd.halfclose /\ ~lopCmd.udp =>
        \E s \in LopPeer : LopRead = LopShown(s) /\ lopClosed /\ lopPeer = <<>> /\ lopIn = <<>>

(***************************************************************************)
(* With -Z each piece is shown twice, and what is read is what was looked  *)
(* at, possibly with more behind it: no byte is shown only by the look.    *)
(***************************************************************************)
LopPeekThenRead ==
    \A i \in DOMAIN lopOut :
        lopOut[i][1] /\ i < Len(lopOut) => ~lopOut[i + 1][1] /\ IsPrefix(lopOut[i][2], lopOut[i + 1][2])

(***************************************************************************)
(* What -c puts on the wire is a text in which each newline follows a      *)
(* return, and the same option at the other end gives the text back, but   *)
(* for its own returns: for every piece that fits the buffers.             *)
(***************************************************************************)
LopCrlfInverse ==
    lopCmd.crlf => \A s \in LopStdin :
        LET wire == crlf_add(LopWritelen, s)
        IN  wire # LopQuits =>
                /\ Len(wire) <= LopWritelen
                /\ \A i \in DOMAIN wire : wire[i] = "n" => i > 1 /\ wire[i - 1] = "r"
                /\ crlf_strip(LopWritelen + 1, wire) = LopNoReturns(s)

(***************************************************************************)
(* dowrite() cuts any number of bytes into chunks that follow each other   *)
(* from the first byte to the last and fit its UIO_MAXIOV elements, so     *)
(* that "i == UIO_MAXIOV" is never met.                                    *)
(***************************************************************************)
LopChunksCover ==
    lopSent # <<>> => \A n \in 1 .. 4 * LopMaxIov + 1 :
        LET iov == dowrite(n)
        IN  \E k \in DOMAIN iov :
              /\ DOMAIN iov = 1 .. k
              /\ iov[1].base = 0 /\ iov[k].base + iov[k].len = n
              /\ \A i \in 1 .. k - 1 : iov[i + 1].base = iov[i].base + iov[i].len

(***************************************************************************)
(* Nothing that comes over UDP ends a server or an unconnected client; an  *)
(* empty datagram ends a connected one, which takes it for an end of file. *)
(***************************************************************************)
LopUdpEnds ==
    lopPc = "closed" /\ lopCmd.udp /\ ~lopStdineof =>
        lopCmd.connectudp /\ ~lopCmd.server /\ Head(lopIn) = <<>>

\* loop_tcp() and loop_udp() as a whole: nothing is lost, shown too little or
\* cut off by half-close, peeking, conversion or chunks, and nothing but what
\* is named ends them.
LopSafe ==
    /\ LopAnswerWhole
    /\ LopPeekThenRead
    /\ LopCrlfInverse
    /\ LopChunksCover
    /\ LopUdpEnds
=============================================================================
