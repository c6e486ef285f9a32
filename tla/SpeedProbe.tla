----------------------------- MODULE SpeedProbe -----------------------------
(***************************************************************************)
(* The bandwidth probe of np-lab5: client.cpp wakes server.cpp up, takes   *)
(* the first data as the acknowledgement (the delay), and then reads until *)
(* it has 50 MB (the bandwidth).  The server serves one connection after   *)
(* the other: acknowledgement, 50 blocks of 1 MB, close.  testimpl.py runs *)
(* clients one at a time and kills each after 20 seconds.                  *)
(*                                                                         *)
(* Bytes are counted in units.  TCP joins and cuts what the server writes  *)
(* at will; the one small message of the client arrives in one piece.      *)
(***************************************************************************)
EXTENDS Integers

CONSTANTS
    ProbeRuns,      \* number of clients run one after the other
    ProbeAck,       \* "let me sleep" with its zero byte
    ProbeBlock,     \* one block
    ProbeBlocks,    \* blocks the server sends
    ProbeFirst,     \* buffer of the client's first recv
    ProbeBuf        \* and of the later ones

ASSUME ProbeAssumption ==
    /\ ProbeRuns \in Nat /\ ProbeAck \in Nat \ {0}
    /\ ProbeBlock \in Nat \ {0} /\ ProbeBlocks \in Nat \ {0}
    /\ ProbeFirst \in Nat \ {0} /\ ProbeBuf \in Nat \ {0}

ProbeTotal == ProbeBlock * ProbeBlocks      \* what the client wants

VARIABLES
    probeClient,    \* "connect", "wake", "first", "loop", "done", "gone"
    probeServer,    \* "accept", "recv", "ack", "bulk", "close", "killed"
    probeBlocks,    \* blocks sent on this connection
    probeStream,    \* units on their way to the client
    probeEof,       \* the server has closed the connection
    probeTook,      \* units the first recv returned
    probe_byte_all,
    probeRun        \* clients started

probeVars == <<probeClient, probeServer, probeBlocks, probeStream, probeEof,
               probeTook, probe_byte_all, probeRun>>

ProbeInit ==
    /\ probeClient = "connect"
    /\ probeServer = "accept"
    /\ probeBlocks = 0
    /\ probeStream = 0
    /\ probeEof = FALSE
    /\ probeTook = 0
    /\ probe_byte_all = 0
    /\ probeRun = 1
-----------------------------------------------------------------------------
\* The client connects and sends "Wake up".
ProbeWake ==
    /\ \/ probeClient = "connect" /\ probeClient' = "wake"
       \/ probeClient = "wake" /\ probeClient' = "first"
    /\ probeServer # "killed"
    /\ UNCHANGED <<probeServer, probeBlocks, probeStream, probeEof, probeTook,
                   probe_byte_all, probeRun>>

\* The first recv.  Whatever it returns counts as the acknowledgement.
ProbeFirstRecv ==
    /\ probeClient = "first"
    /\ \E n \in 1 .. probeStream :
          /\ n <= ProbeFirst
          /\ probeTook' = n
          /\ probeStream' = probeStream - n
    /\ probeClient' = "loop"
    /\ UNCHANGED <<probeServer, probeBlocks, probeEof, probe_byte_all, probeRun>>

\* Mutant: a recv that returns 0 ends the loop as well.
ProbeEnoughOrEof(n) == probe_byte_all + n >= ProbeTotal \/ (probeEof /\ probeStream = 0)

ProbeEnough(n) == probe_byte_all + n >= ProbeTotal

\* The loop: recv returns data, or 0 for ever once the server has closed.
ProbeLoopRecv ==
    /\ probeClient = "loop"
    /\ \E n \in 0 .. probeStream :
          /\ n <= ProbeBuf
          /\ n = 0 => probeEof /\ probeStream = 0
          /\ probe_byte_all' = probe_byte_all + n
          /\ probeStream' = probeStream - n
          /\ probeClient' = IF ProbeEnough(n) THEN "done" ELSE "loop"
    /\ UNCHANGED <<probeServer, probeBlocks, probeEof, probeTook, probeRun>>

\* The test kills a client that takes too long.
ProbeKill ==
    /\ probeClient \in {"first", "loop"}
    /\ probeClient' = "gone"
    /\ UNCHANGED <<probeServer, probeBlocks, probeStream, probeEof, probeTook,
                   probe_byte_all, probeRun>>

\* The next client is started.  While the server is busy with a killed one,
\* a new client would only wait to be accepted.
ProbeNextClient ==
    /\ probeClient \in {"done", "gone"}
    /\ probeServer = "accept"
    /\ probeRun < ProbeRuns
    /\ probeRun' = probeRun + 1
    /\ probeClient' = "connect"
    /\ probeStream' = 0
    /\ probeEof' = FALSE
    /\ probeTook' = 0
    /\ probe_byte_all' = 0
    /\ UNCHANGED <<probeServer, probeBlocks>>

\* accept and recv of the server.
ProbeAccept ==
    /\ \/ /\ probeServer = "accept"
          /\ ~probeEof
          /\ probeClient \notin {"connect", "done"}
          /\ probeServer' = "recv"
       \/ /\ probeServer = "recv"
          /\ probeClient \in {"first", "gone"}
          /\ probeServer' = "ack"
    /\ UNCHANGED <<probeClient, probeBlocks, probeStream, probeEof, probeTook,
                   probe_byte_all, probeRun>>

\* send of n units: to a client that is gone it fails without harm at first
\* and raises SIGPIPE once the reset is there.
ProbeSendUnits(n, next) ==
    \/ /\ probeClient = "gone"
       /\ \/ probeServer' = next
          \/ probeServer' = "killed"
       /\ UNCHANGED probeStream
    \/ /\ probeClient # "gone"
       /\ probeServer' = next
       /\ probeStream' = probeStream + n

ProbeSendAck ==
    /\ probeServer = "ack"
    /\ ProbeSendUnits(ProbeAck, "bulk")
    /\ UNCHANGED <<probeClient, probeBlocks, probeEof, probeTook, probe_byte_all, probeRun>>

ProbeSendBlock ==
    /\ probeServer = "bulk"
    /\ probeBlocks < ProbeBlocks
    /\ probeBlocks' = probeBlocks + 1
    /\ ProbeSendUnits(ProbeBlock, IF probeBlocks + 1 = ProbeBlocks THEN "close" ELSE "bulk")
    /\ UNCHANGED <<probeClient, probeEof, probeTook, probe_byte_all, probeRun>>

ProbeClose ==
    /\ probeServer = "close"
    /\ probeServer' = "accept"
    /\ probeBlocks' = 0
    /\ probeEof' = TRUE
    /\ UNCHANGED <<probeClient, probeStream, probeTook, probe_byte_all, probeRun>>

ProbeServerStep == ProbeAccept \/ ProbeSendAck \/ ProbeSendBlock \/ ProbeClose
ProbeClientStep == ProbeWake \/ ProbeFirstRecv \/ ProbeLoopRecv

ProbeNext == ProbeServerStep \/ ProbeClientStep \/ ProbeKill \/ ProbeNextClient

ProbeFairness == WF_probeVars(ProbeServerStep) /\ WF_probeVars(ProbeClientStep)

ProbeSpec == ProbeInit /\ [][ProbeNext]_probeVars /\ ProbeFairness
-----------------------------------------------------------------------------
\* A client ends by itself only if its first recv took nothing but (part of)
\* the acknowledgement: when block data came with it, what is left is less
\* than the loop wants, and the loop goes on for ever after the server has
\* closed.
ProbeJoinedNeverEnds == probeClient = "done" => probeTook <= ProbeAck

\* Otherwise it reports its results, if it is not killed first.
ProbeReports ==
    (probeClient = "loop" /\ probeTook <= ProbeAck) ~> (probeClient \in {"done", "gone"})
=============================================================================
