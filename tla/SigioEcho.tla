----------------------------- MODULE SigioEcho -----------------------------
(***************************************************************************)
(* unpv13e/sigio/dgecho01.c: a UDP echo server that reads in its SIGIO     *)
(* handler into a ring of buffers, and answers from its main loop, which   *)
(* blocks the signal around its own use of the counters.                   *)
(*                                                                         *)
(* Datagrams are numbered in the order in which they arrive.  A signal is  *)
(* not queued: several datagrams may make one pending SIGIO.               *)
(***************************************************************************)
EXTENDS Integers, Sequences

CONSTANTS
    SgoQsize,       \* QSIZE
    SgoMaxArrive    \* bound: datagrams

ASSUME SgoQsizeAssumption == SgoQsize \in Nat \ {0}

VARIABLES
    sgoArrived,     \* datagrams that have arrived
    sgoSocket,      \* those still in the socket
    sgoPending,     \* SIGIO is pending
    sgoDg,          \* dg: the datagram in each buffer
    sgoGet, sgoPut, sgoN,   \* iget, iput, nqueue
    sgoPc,          \* "wait", "send", "next", "count", "quit"
    sgoEchoed       \* datagrams sent back

sgoVars == <<sgoArrived, sgoSocket, sgoPending, sgoDg, sgoGet, sgoPut, sgoN, sgoPc, sgoEchoed>>

SgoInit ==
    /\ sgoArrived = 0 /\ sgoSocket = <<>> /\ sgoPending = FALSE
    /\ sgoDg = [i \in 0 .. SgoQsize - 1 |-> 0]
    /\ sgoGet = 0 /\ sgoPut = 0 /\ sgoN = 0 /\ sgoPc = "wait" /\ sgoEchoed = <<>>

SgoArrive ==
    /\ sgoArrived < SgoMaxArrive
    /\ sgoArrived' = sgoArrived + 1
    /\ sgoSocket' = Append(sgoSocket, sgoArrived + 1)
    /\ sgoPending' = TRUE
    /\ UNCHANGED <<sgoDg, sgoGet, sgoPut, sgoN, sgoPc, sgoEchoed>>

\* Mutant: the ring is never full.
SgoFullNever(n) == FALSE

SgoFull(n) == n >= SgoQsize

\* How many datagrams the handler reads, room being what it may read: all.
SgoRead(room) == CHOOSE n \in room : \A m \in room : m <= n

\* sig_io(): delivered in sigsuspend or while the signal is not blocked, it
\* reads all there is; a full ring is a fatal error.
SgoSigIo ==
    /\ sgoPending /\ sgoPc \in {"wait", "send", "next"}
    /\ sgoPc = "wait" => sgoN = 0
    /\ sgoPending' = FALSE
    /\ LET room == {n \in 0 .. Len(sgoSocket) : n = 0 \/ ~SgoFull(sgoN + n - 1)}
           k == SgoRead(room)
       IN  /\ sgoDg' = [i \in DOMAIN sgoDg |->
                          LET js == {j \in 1 .. k : (sgoPut + j - 1) % SgoQsize = i}
                          IN  IF js = {} THEN sgoDg[i]
                              ELSE sgoSocket[CHOOSE j \in js : \A l \in js : l <= j]]
           /\ sgoPut' = (sgoPut + k) % SgoQsize /\ sgoN' = sgoN + k
           /\ sgoSocket' = SubSeq(sgoSocket, k + 1, Len(sgoSocket))
           /\ sgoPc' = IF SgoFull(sgoN + k) THEN "quit" ELSE sgoPc
    /\ UNCHANGED <<sgoArrived, sgoGet, sgoEchoed>>

\* The main loop has something to do: unblock SIGIO.
SgoUnblock ==
    /\ sgoPc = "wait" /\ sgoN > 0
    /\ sgoPc' = "send"
    /\ UNCHANGED <<sgoArrived, sgoSocket, sgoPending, sgoDg, sgoGet, sgoPut, sgoN, sgoEchoed>>

SgoSendto ==
    /\ sgoPc = "send"
    /\ sgoEchoed' = Append(sgoEchoed, sgoDg[sgoGet])
    /\ sgoPc' = "next"
    /\ UNCHANGED <<sgoArrived, sgoSocket, sgoPending, sgoDg, sgoGet, sgoPut, sgoN>>

SgoAfter(i) == IF i + 1 >= SgoQsize THEN 0 ELSE i + 1

\* ++iget, block SIGIO, --nqueue.
SgoBlock ==
    /\ sgoPc = "next"
    /\ sgoGet' = SgoAfter(sgoGet) /\ sgoN' = sgoN - 1
    /\ sgoPc' = "wait"
    /\ UNCHANGED <<sgoArrived, sgoSocket, sgoPending, sgoDg, sgoPut, sgoEchoed>>

SgoNext == SgoArrive \/ SgoSigIo \/ SgoUnblock \/ SgoSendto \/ SgoBlock

SgoSpec == SgoInit /\ [][SgoNext]_sgoVars

SgoFairStep == SgoSigIo \/ SgoUnblock \/ SgoSendto \/ SgoBlock

(***************************************************************************)
(* Each datagram is echoed once and in order: the handler never overwrites *)
(* a buffer that the main loop still has to send.                          *)
(***************************************************************************)
SgoInOrder == \A i \in DOMAIN sgoEchoed : sgoEchoed[i] = i

(***************************************************************************)
(* No datagram is left behind although signals that arrive while SIGIO is  *)
(* blocked merge into one: what has arrived is echoed, or the ring was     *)
(* full and the server has quit.                                           *)
(***************************************************************************)
SgoAllEchoed == (sgoSocket # <<>>) ~> (Len(sgoEchoed) = sgoArrived \/ sgoPc = "quit")
=============================================================================
