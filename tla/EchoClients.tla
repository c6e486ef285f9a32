----------------------------- MODULE EchoClients -----------------------------
(***************************************************************************)
(* The str_cli functions of unpv13e, which copy standard input to an echo  *)
(* server and what the server returns to standard output: lib/str_cli.c,   *)
(* select/strcliselect01.c and 02.c, advio/str_cli_select02.c, _poll03.c   *)
(* and _kqueue04.c, nonblock/strclifork.c and strclinonb.c, threads/       *)
(* strclithread.c and strclithread2.c.                                     *)
(*                                                                         *)
(* Lines stay in order on their way, so ecAt[p] counts the lines at each   *)
(* place p: typed, in the buffer of stdio, in to[], on the wire, on the    *)
(* way back, in read_buf of Readline, in fr[] or shown.                    *)
(***************************************************************************)
EXTENDS Integers

CONSTANTS EcLines,      \* lines the user types at most
          EcMaxline     \* MAXLINE of strclinonb.c, in lines

ASSUME EcAssumption == EcLines \in Nat /\ EcMaxline \in Nat \ {0}

\* loop: "turn" (a line, then its echo), "select", "both" (two processes or
\* threads) or "nonb"; input: "line" or "read"; atEof: what the end of standard
\* input does; early: what decides whether the server's end of file is too early:
\* it always is ("premature"), stdineof, done (set after the shutdown), or
\* "nothing".
EcProgram(name, loop, input, atEof, early) ==
    [name |-> name, loop |-> loop, input |-> input, atEof |-> atEof, early |-> early]

str_cli == EcProgram("str_cli", "turn", "line", "return", "premature")
strcliselect01 == EcProgram("select01", "select", "line", "return", "premature")
\* Mutant: the end of standard input ends the loop.
strcliselect02Returns == EcProgram("select02", "select", "read", "return", "stdineof")
strcliselect02 == EcProgram("select02", "select", "read", "shutdown", "stdineof")
str_cli_select02 == EcProgram("advio02", "select", "line", "shutdown", "stdineof")
str_cli_poll03 == EcProgram("poll03", "select", "read", "shutdown", "stdineof")
str_cli_kqueue04 == EcProgram("kqueue04", "select", "read", "shutdown", "stdineof")
strclifork == EcProgram("fork", "both", "line", "shutdown", "nothing")
strclithread == EcProgram("thread", "both", "line", "shutdown", "nothing")
strclithread2 == EcProgram("thread2", "both", "line", "shutdown", "done")
strclinonb == EcProgram("nonb", "nonb", "read", "shutdown", "stdineof")

EcOff == EcProgram("off", "none", "none", "none", "none")

EcPrograms ==
    {str_cli, strcliselect01, strcliselect02, str_cli_select02, str_cli_poll03,
     str_cli_kqueue04, strclifork, strclithread, strclithread2, strclinonb}

VARIABLES
    ecProg, ecAt,
    ecTyped, ecInput,   \* lines typed so far; "open" or "eof"
    ecEof,      \* "no", "shut" (Shutdown called), "yes" (stdineof or done is set)
    ecFin,      \* the client's FIN is sent
    ecServer,   \* "up", "closed" (after the client's FIN), "ended" (before it)
    ecToi, ecFri,       \* toiptr and friptr of strclinonb
    ecState     \* "run", "done", "premature", "sigpipe", "enotconn"

ecVars == <<ecProg, ecAt, ecTyped, ecInput, ecEof, ecFin, ecServer, ecToi, ecFri, ecState>>

EcPlaces == {"typed", "stdio", "to", "wire", "back", "rbuf", "fr", "shown"}

EcInit ==
    /\ ecProg = EcOff /\ ecAt = [p \in EcPlaces |-> 0] /\ ecTyped = 0 /\ ecInput = "open"
    /\ ecEof = "no" /\ ecFin = FALSE /\ ecServer = "up" /\ ecToi = 0 /\ ecFri = 0
    /\ ecState = "run"

EcStart ==
    /\ ecProg = EcOff /\ ecProg' \in EcPrograms
    /\ UNCHANGED <<ecAt, ecTyped, ecInput, ecEof, ecFin, ecServer, ecToi, ecFri, ecState>>

EcRuns(loops) == ecState = "run" /\ ecProg.loop \in loops

-----------------------------------------------------------------------------
(* The user and the server.                                                *)

EcType ==
    /\ ecProg # EcOff /\ ecInput = "open"
    /\ \/ /\ ecTyped < EcLines /\ ecTyped' = ecTyped + 1
          /\ ecAt' = [ecAt EXCEPT !["typed"] = @ + 1] /\ UNCHANGED ecInput
       \/ ecInput' = "eof" /\ UNCHANGED <<ecTyped, ecAt>>
    /\ UNCHANGED <<ecProg, ecEof, ecFin, ecServer, ecToi, ecFri, ecState>>

EcServerEchoes ==
    /\ ecServer = "up"
    /\ \/ /\ ecAt["wire"] > 0
          /\ ecAt' = [ecAt EXCEPT !["wire"] = 0, !["back"] = @ + ecAt["wire"]]
          /\ UNCHANGED ecServer
       \/ ecAt["wire"] = 0 /\ ecFin /\ ecServer' = "closed" /\ UNCHANGED ecAt
    /\ UNCHANGED <<ecProg, ecTyped, ecInput, ecEof, ecFin, ecToi, ecFri, ecState>>

EcServerEnds ==
    /\ ecProg # EcOff /\ ecServer = "up" /\ ecState = "run"
    /\ ecServer' = "ended"
    /\ UNCHANGED <<ecProg, ecAt, ecTyped, ecInput, ecEof, ecFin, ecToi, ecFri, ecState>>

-----------------------------------------------------------------------------
(* From standard input to the server.                                      *)

\* n lines of buf, filled from place from, go to place to. A server that has
\* ended answers with a reset, and the next write is a SIGPIPE.
EcWrite(from, buf, n, to) ==
    /\ n > 0
    /\ ecAt' = [p \in EcPlaces |->
                   CASE p = from -> 0
                     [] p = "stdio" -> ecAt["stdio"] + buf - n
                     [] p = to -> ecAt[to] + n
                     [] OTHER -> ecAt[p]]
    /\ \/ UNCHANGED ecState
       \/ ecServer = "ended" /\ ecState' = "sigpipe"

\* Fgets after select: what the buffer of stdio holds is unknown to select, which
\* returns for new input and, again and again, at the end of it.
EcSelectInput == ecAt["typed"] > 0 \/ ecInput = "eof"

\* The echo of the last line has not been read yet.
EcOwed == ecAt["wire"] + ecAt["back"] + ecAt["rbuf"] > 0

\* One line by Fgets; or all there is by Read.
EcSendLine ==
    /\ EcRuns({"turn", "select", "both"}) /\ ecProg.input = "line" /\ ecEof = "no"
    /\ (ecProg.loop = "select") => EcSelectInput
    /\ (ecProg.loop = "turn") => ~EcOwed
    /\ IF ecAt["stdio"] > 0 THEN EcWrite("none", 0, 1, "wire")
       ELSE ecAt["typed"] > 0 /\ EcWrite("typed", ecAt["typed"], 1, "wire")
    /\ UNCHANGED <<ecProg, ecTyped, ecInput, ecEof, ecFin, ecServer, ecToi, ecFri>>

EcSendAll ==
    /\ EcRuns({"select"}) /\ ecProg.input = "read" /\ ecEof = "no"
    /\ EcWrite("typed", ecAt["typed"], ecAt["typed"], "wire")
    /\ UNCHANGED <<ecProg, ecTyped, ecInput, ecEof, ecFin, ecServer, ecToi, ecFri>>

\* The end of standard input: return; or shutdown with stdineof set first. In
\* strclithread2 done is set by a step of its own after the shutdown.
EcInputEnds ==
    /\ EcRuns({"turn", "select", "both"}) /\ ecEof = "no"
    /\ ecInput = "eof" /\ ecAt["typed"] = 0 /\ ecAt["stdio"] = 0
    /\ (ecProg.loop = "turn") => ~EcOwed
    /\ IF ecProg.atEof = "return" THEN ecState' = "done" /\ UNCHANGED <<ecEof, ecFin>>
       ELSE /\ ecEof' = (IF ecProg.early = "done" THEN "shut" ELSE "yes")
            /\ ecFin' = TRUE /\ UNCHANGED ecState
    /\ UNCHANGED <<ecProg, ecAt, ecTyped, ecInput, ecServer, ecToi, ecFri>>

EcSetDone ==
    /\ EcRuns({"both"}) /\ ecEof = "shut" /\ ecEof' = "yes"
    /\ UNCHANGED <<ecProg, ecAt, ecTyped, ecInput, ecFin, ecServer, ecToi, ecFri, ecState>>

\* str_cli_poll03 leaves standard input in the poll set: its end is reported, and
\* shutdown called, again and again, and fails once the connection is closed.
EcShutAgain ==
    /\ EcRuns({"select"}) /\ ecProg = str_cli_poll03 /\ ecEof = "yes" /\ ecServer # "up"
    /\ ecState' = "enotconn"
    /\ UNCHANGED <<ecProg, ecAt, ecTyped, ecInput, ecEof, ecFin, ecServer, ecToi, ecFri>>

-----------------------------------------------------------------------------
(* From the server to standard output.                                     *)

EcServerEof == ecServer # "up" /\ ecAt["back"] = 0

\* Readline and Fputs, a line at a time; after select only when the socket is
\* readable, which the lines in read_buf do not make it.
EcReceiveLine ==
    /\ EcRuns({"turn", "select", "both"}) /\ ecProg.input = "line"
    /\ (ecProg.loop = "select") => (ecAt["back"] > 0 \/ EcServerEof)
    /\ \/ /\ ecAt["rbuf"] > 0
          /\ ecAt' = [ecAt EXCEPT !["rbuf"] = @ - 1, !["shown"] = @ + 1]
       \/ /\ ecAt["rbuf"] = 0 /\ ecAt["back"] > 0
          /\ ecAt' = [ecAt EXCEPT !["rbuf"] = ecAt["back"] - 1, !["back"] = 0, !["shown"] = @ + 1]
    /\ UNCHANGED <<ecProg, ecTyped, ecInput, ecEof, ecFin, ecServer, ecToi, ecFri, ecState>>

\* Read and Write of all there is.
EcReceiveAll ==
    /\ EcRuns({"select"}) /\ ecProg.input = "read" /\ ecAt["back"] > 0
    /\ ecAt' = [ecAt EXCEPT !["back"] = 0, !["shown"] = @ + ecAt["back"]]
    /\ UNCHANGED <<ecProg, ecTyped, ecInput, ecEof, ecFin, ecServer, ecToi, ecFri, ecState>>

\* "server terminated prematurely", unless the program knows of the end of its
\* input or does not ask (strclifork kills its parent then).
EcVerdict ==
    CASE ecProg.early = "premature" -> "premature"
      [] ecProg.early = "nothing" -> "done"
      [] OTHER -> IF ecEof = "yes" THEN "done" ELSE "premature"

EcSocketEof ==
    /\ EcRuns({"turn", "select", "both", "nonb"}) /\ EcServerEof /\ ecAt["rbuf"] = 0
    /\ (ecProg.loop = "turn") => EcOwed
    /\ (ecProg.loop = "nonb") => ecFri < EcMaxline
    /\ ecState' = EcVerdict
    /\ UNCHANGED <<ecProg, ecAt, ecTyped, ecInput, ecEof, ecFin, ecServer, ecToi, ecFri>>

-----------------------------------------------------------------------------
(* strclinonb: to[] and fr[] are written out as far as the descriptor      *)
(* takes the data, and start again at the beginning when they are empty.   *)

EcFewer(a, b) == IF a < b THEN a ELSE b

EcNonbInput ==
    /\ EcRuns({"nonb"}) /\ ecEof = "no" /\ ecToi < EcMaxline
    /\ \/ LET n == EcFewer(ecAt["typed"], EcMaxline - ecToi)
          IN /\ n > 0 /\ ecToi' = ecToi + n
             /\ ecAt' = [ecAt EXCEPT !["typed"] = @ - n, !["to"] = @ + n]
             /\ UNCHANGED <<ecEof, ecFin>>
       \/ /\ ecInput = "eof" /\ ecAt["typed"] = 0 /\ ecEof' = "yes"
          /\ ecFin' = (ecAt["to"] = 0) /\ UNCHANGED <<ecAt, ecToi>>
    /\ UNCHANGED <<ecProg, ecTyped, ecInput, ecServer, ecFri, ecState>>

EcNonbSocket ==
    /\ EcRuns({"nonb"}) /\ ecFri < EcMaxline
    /\ LET n == EcFewer(ecAt["back"], EcMaxline - ecFri)
       IN /\ n > 0 /\ ecFri' = ecFri + n
          /\ ecAt' = [ecAt EXCEPT !["back"] = @ - n, !["fr"] = @ + n]
    /\ UNCHANGED <<ecProg, ecTyped, ecInput, ecEof, ecFin, ecServer, ecToi, ecState>>

EcNonbShow ==
    /\ EcRuns({"nonb"})
    /\ \E n \in 1 .. ecAt["fr"] :
        /\ ecAt' = [ecAt EXCEPT !["fr"] = @ - n, !["shown"] = @ + n]
        /\ ecFri' = (IF n = ecAt["fr"] THEN 0 ELSE ecFri)
    /\ UNCHANGED <<ecProg, ecTyped, ecInput, ecEof, ecFin, ecServer, ecToi, ecState>>

\* The FIN follows the last byte of to[] once standard input has ended.
EcFlushedFin(n) == ecFin \/ (n = ecAt["to"] /\ ecEof = "yes")

EcNonbFlush ==
    /\ EcRuns({"nonb"})
    /\ \E n \in 1 .. ecAt["to"] :
        /\ ecAt' = [ecAt EXCEPT !["to"] = @ - n, !["wire"] = @ + n]
        /\ ecToi' = (IF n = ecAt["to"] THEN 0 ELSE ecToi)
        /\ ecFin' = EcFlushedFin(n)
    /\ \/ UNCHANGED ecState
       \/ ecServer = "ended" /\ ecState' = "sigpipe"
    /\ UNCHANGED <<ecProg, ecTyped, ecInput, ecEof, ecServer, ecFri>>

\* The client and a server that does its work.
EcFairStep ==
    EcSendLine \/ EcSendAll \/ EcInputEnds \/ EcSetDone \/ EcShutAgain
    \/ EcReceiveLine \/ EcReceiveAll \/ EcSocketEof \/ EcNonbInput \/ EcNonbSocket \/ EcNonbShow \/ EcNonbFlush

EcNext == EcStart \/ EcType \/ EcServerEchoes \/ EcServerEnds \/ EcFairStep

EcSpec == EcInit /\ [][EcNext]_ecVars /\ WF_ecVars(EcFairStep) /\ WF_ecVars(EcServerEchoes)

-----------------------------------------------------------------------------
(* Correctness.                                                            *)

\* A client that ends normally has shown the echo of every line typed, unless
\* the server ended early. strcliselect01 is left out: it returns at the end of
\* its input with echoes still on their way. strclinonb returns at the server's
\* end of file although fr[] may not be empty: what it has not shown is there.
EcAllShown ==
    (ecState = "done" /\ ecServer # "ended" /\ ecProg # strcliselect01) =>
        /\ ecAt["shown"] + ecAt["fr"] = ecTyped
        /\ ecAt["fr"] > 0 => ecProg = strclinonb

\* "server terminated prematurely" is said only of a server that did. Not so in
\* strclithread2, where the server's end of file can be seen before done is set.
EcTrueVerdict ==
    (ecState = "premature" /\ ecServer # "ended") => (ecProg = strclithread2 /\ ecEof = "shut")

\* The end of standard input ends the client, whatever is left in buffers and
\* however the writes are cut up.
EcEnds == (ecInput = "eof") ~> (ecState # "run")

\* The echo clients tell their user the truth: all echoes, and no false word
\* about the server.
EcHonest ==
    /\ EcAllShown
    /\ EcTrueVerdict
=============================================================================
