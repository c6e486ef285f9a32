----------------------------- MODULE EchoServers -----------------------------
(***************************************************************************)
(* The TCP echo servers of unpv13e: a child per connection (tcpcliserv/    *)
(* tcpserv01..09.c, advio/tcpserv02.c), a thread per connection (threads/  *)
(* tcpserv01.c, tcpserv02.c), and one process around select or poll        *)
(* (tcpservselect01.c, tcpservpoll01.c, nonblock/tcpservselect03.c).       *)
(*                                                                         *)
(* Clients send whole lines <<c, k>>, the k-th of connection c. What the   *)
(* server answers to a line is its echo (or, in tcpserv08 and 09, its sum) *)
(* and stands under the same name.                                         *)
(***************************************************************************)
EXTENDS Integers, Sequences, FiniteSets

CONSTANTS EsvConns, EsvMaxLines,
          EsvSlots,         \* FD_SETSIZE, the size of client[] in the select servers
          EsvPollSlots      \* OPEN_MAX - 1, what tcpservpoll01's client[] has for connections

ASSUME EsvAssumption ==
    /\ EsvSlots \in Nat \ {0} /\ EsvPollSlots \in 1 .. EsvSlots
    /\ EsvMaxLines \in Nat /\ EsvConns \subseteq Nat \ {0}

\* kind: what serves a connection; reap: what the SIGCHLD handler calls;
\* input: "read" what there is, a line through the "static" buffer of Readline
\* that all connections of a process share, or "stdio", whose answers are
\* written when the child exits; reset: a connection found reset is the "end"
\* of the process that reads it, or is closed.
EsvProgram(name, kind, reap, input, reset) ==
    [name |-> name, kind |-> kind, reap |-> reap, input |-> input, reset |-> reset]

tcpserv01 == EsvProgram("tcpserv01", "fork", "none", "read", "end")
tcpserv02 == EsvProgram("tcpserv02", "fork", "wait", "read", "end")
tcpserv03 == EsvProgram("tcpserv03", "fork", "wait", "read", "end")
tcpserv04 == EsvProgram("tcpserv04", "fork", "waitpid", "read", "end")
tcpserv08 == EsvProgram("tcpserv08", "fork", "waitpid", "read", "end")
tcpserv09 == EsvProgram("tcpserv09", "fork", "waitpid", "read", "end")
stdio02 == EsvProgram("stdio02", "fork", "waitpid", "stdio", "end")
threads01 == EsvProgram("threads01", "thread", "none", "read", "end")
threads02 == EsvProgram("threads02", "thread", "none", "read", "end")
tcpservselect01 == EsvProgram("tcpservselect01", "loop", "none", "read", "end")
\* Mutant: every read error is fatal.
tcpservpoll01Fatal == EsvProgram("tcpservpoll01", "loop", "none", "read", "end")
tcpservpoll01 == EsvProgram("tcpservpoll01", "loop", "none", "read", "close")
tcpservselect03 == EsvProgram("tcpservselect03", "loop", "none", "static", "end")

EsvOff == EsvProgram("off", "none", "none", "read", "end")

EsvPrograms ==
    {tcpserv01, tcpserv02, tcpserv03, tcpserv04, tcpserv08, tcpserv09, stdio02, threads01,
     threads02, tcpservselect01, tcpservpoll01, tcpservselect03}

VARIABLES
    esvProg,
    esvUp,      \* "up", or why the server ended: "full", "reset", "write"
    esvQueue,   \* connections to accept
    esvCli,     \* "new", "open", "fin", "reset"
    esvSent,    \* lines sent on each connection
    esvIn,      \* lines received and not read
    esvEcho,    \* lines answered, per connection
    esvWork,    \* "none", "serving", "zombie", "closed"
    esvPending, \* SIGCHLD is pending
    esvSlot, esvMaxi, esvRset, esvNready,
    esvBuf      \* read_buf of readline.c

esvClients == <<esvCli, esvSent>>
esvTable == <<esvSlot, esvMaxi, esvRset, esvNready>>
esvVars == <<esvProg, esvUp, esvQueue, esvClients, esvIn, esvEcho, esvWork, esvPending,
             esvTable, esvBuf>>

EsvInit ==
    /\ esvProg = EsvOff /\ esvUp = "up" /\ esvQueue = <<>> /\ esvPending = FALSE
    /\ esvCli = [c \in EsvConns |-> "new"] /\ esvSent = [c \in EsvConns |-> 0]
    /\ esvIn = [c \in EsvConns |-> <<>>] /\ esvEcho = [c \in EsvConns |-> <<>>]
    /\ esvWork = [c \in EsvConns |-> "none"]
    /\ esvSlot = [i \in 1 .. EsvSlots |-> 0] /\ esvMaxi = 0
    /\ esvRset = {} /\ esvNready = 0 /\ esvBuf = <<>>

EsvStart ==
    /\ esvProg = EsvOff /\ esvProg' \in EsvPrograms
    /\ UNCHANGED <<esvUp, esvQueue, esvClients, esvIn, esvEcho, esvWork, esvPending, esvTable,
                   esvBuf>>

-----------------------------------------------------------------------------
(* The clients and the network.                                            *)

EsvConnect(c) ==
    /\ esvProg # EsvOff /\ esvUp = "up" /\ esvCli[c] = "new"
    /\ esvCli' = [esvCli EXCEPT ![c] = "open"] /\ esvQueue' = Append(esvQueue, c)
    /\ UNCHANGED <<esvProg, esvUp, esvSent, esvIn, esvEcho, esvWork, esvPending, esvTable, esvBuf>>

EsvSend(c) ==
    /\ esvCli[c] = "open" /\ esvSent[c] < EsvMaxLines
    /\ esvSent' = [esvSent EXCEPT ![c] = @ + 1]
    /\ esvIn' = [esvIn EXCEPT ![c] = Append(@, <<c, esvSent[c] + 1>>)]
    /\ UNCHANGED <<esvProg, esvUp, esvQueue, esvCli, esvEcho, esvWork, esvPending, esvTable, esvBuf>>

\* The client shuts its side down, or its reset throws away what was not read.
EsvFinish(c) ==
    /\ esvCli[c] = "open"
    /\ \/ esvCli' = [esvCli EXCEPT ![c] = "fin"] /\ UNCHANGED esvIn
       \/ esvCli' = [esvCli EXCEPT ![c] = "reset"] /\ esvIn' = [esvIn EXCEPT ![c] = <<>>]
    /\ UNCHANGED <<esvProg, esvUp, esvQueue, esvSent, esvEcho, esvWork, esvPending, esvTable, esvBuf>>

EsvReadable(c) == esvIn[c] # <<>> \/ esvCli[c] \in {"fin", "reset"}

-----------------------------------------------------------------------------
(* A child or a thread per connection.                                     *)

EsvRunning(kinds) == esvUp = "up" /\ esvProg.kind \in kinds

\* accept, then fork (the parent closes the connection) or pthread_create.
EsvAccept ==
    /\ EsvRunning({"fork", "thread"}) /\ esvQueue # <<>>
    /\ esvQueue' = Tail(esvQueue)
    /\ esvWork' = [esvWork EXCEPT ![Head(esvQueue)] = "serving"]
    /\ UNCHANGED <<esvProg, esvUp, esvClients, esvIn, esvEcho, esvPending, esvTable, esvBuf>>

\* str_echo: what has been received is read, some or all of it, and written back.
str_echo(c) ==
    /\ EsvRunning({"fork", "thread"}) /\ esvWork[c] = "serving"
    /\ esvProg.input = "stdio" => esvCli[c] = "fin"
    /\ \E n \in 1 .. Len(esvIn[c]) :
        /\ esvEcho' = [esvEcho EXCEPT ![c] = @ \o SubSeq(esvIn[c], 1, n)]
        /\ esvIn' = [esvIn EXCEPT ![c] = SubSeq(@, n + 1, Len(@))]
    /\ UNCHANGED <<esvProg, esvUp, esvQueue, esvClients, esvWork, esvPending, esvTable, esvBuf>>

\* The end of the connection: a child exits either way, a thread returns at the
\* end of file but takes the process with it on an error (err_sys).
EsvChildEnds(c) ==
    /\ EsvRunning({"fork"}) /\ esvWork[c] = "serving"
    /\ esvIn[c] = <<>> /\ esvCli[c] \in {"fin", "reset"}
    /\ esvWork' = [esvWork EXCEPT ![c] = "zombie"]
    /\ esvPending' = (esvProg.reap # "none")
    /\ UNCHANGED <<esvProg, esvUp, esvQueue, esvClients, esvIn, esvEcho, esvTable, esvBuf>>

EsvThreadEnds(c) ==
    /\ EsvRunning({"thread"}) /\ esvWork[c] = "serving"
    /\ esvIn[c] = <<>> /\ esvCli[c] \in {"fin", "reset"}
    /\ IF esvCli[c] = "fin" THEN esvWork' = [esvWork EXCEPT ![c] = "closed"] /\ UNCHANGED esvUp
       ELSE esvUp' = "reset" /\ UNCHANGED esvWork
    /\ UNCHANGED <<esvProg, esvQueue, esvClients, esvIn, esvEcho, esvPending, esvTable, esvBuf>>

\* sig_chld: one wait, or waitpid until no child is left to report. SIGCHLD is
\* not queued: children that end before the handler runs count once.
sig_chld ==
    /\ esvPending /\ esvPending' = FALSE
    /\ LET zombies == {c \in EsvConns : esvWork[c] = "zombie"}
       IN \E gone \in SUBSET zombies :
            /\ IF esvProg.reap = "wait" THEN Cardinality(gone) = 1 ELSE gone = zombies
            /\ esvWork' = [c \in EsvConns |-> IF c \in gone THEN "closed" ELSE esvWork[c]]
    /\ UNCHANGED <<esvProg, esvUp, esvQueue, esvClients, esvIn, esvEcho, esvTable, esvBuf>>

-----------------------------------------------------------------------------
(* One process around select or poll. 0 is the listening socket in rset,   *)
(* i the connection in slot i.                                             *)

EsvReady ==
    {h \in {0} : esvQueue # <<>>}
    \cup {i \in 1 .. EsvSlots : esvSlot[i] # 0 /\ EsvReadable(esvSlot[i])}

EsvLooks == IF esvNready <= 0 THEN {} ELSE esvRset \cap (0 .. esvMaxi)

EsvSelect ==
    /\ EsvRunning({"loop"}) /\ EsvLooks = {} /\ EsvReady # {}
    /\ esvRset' = EsvReady /\ esvNready' = Cardinality(EsvReady)
    /\ UNCHANGED <<esvProg, esvUp, esvQueue, esvClients, esvIn, esvEcho, esvWork, esvPending,
                   esvSlot, esvMaxi, esvBuf>>

EsvTurn(h) ==
    /\ EsvRunning({"loop"}) /\ h \in EsvLooks /\ \A g \in EsvLooks : h <= g
    /\ esvRset' = esvRset \ {h} /\ esvNready' = esvNready - 1

EsvSize == IF esvProg.name = "tcpservpoll01" THEN EsvPollSlots ELSE EsvSlots

EsvRaised(i) == IF i > esvMaxi THEN i ELSE esvMaxi

\* A new connection takes the first free slot; without one the server ends
\* ("too many clients").
EsvNewClient ==
    /\ EsvTurn(0)
    /\ esvQueue' = Tail(esvQueue)
    /\ LET free == {i \in 1 .. EsvSize : esvSlot[i] = 0}
       IN \/ \E i \in free :
               /\ \A j \in free : i <= j
               /\ esvSlot' = [esvSlot EXCEPT ![i] = Head(esvQueue)]
               /\ esvWork' = [esvWork EXCEPT ![Head(esvQueue)] = "serving"]
               /\ esvMaxi' = EsvRaised(i) /\ UNCHANGED esvUp
          \/ free = {} /\ esvUp' = "full" /\ UNCHANGED <<esvSlot, esvMaxi, esvWork>>
    /\ UNCHANGED <<esvProg, esvClients, esvIn, esvEcho, esvPending, esvBuf>>

\* Readline: the line at the front of read_buf, whoever sent it; the descriptor
\* is read only when the buffer is empty.
Readline(c) ==
    LET have == IF esvBuf = <<>> THEN esvIn[c] ELSE esvBuf
    IN /\ have # <<>>
       /\ esvEcho' = [esvEcho EXCEPT ![c] = Append(@, Head(have))]
       /\ esvBuf' = Tail(have)
       /\ esvIn' = IF esvBuf = <<>> THEN [esvIn EXCEPT ![c] = <<>>] ELSE esvIn

EsvRead(c) ==
    /\ esvIn[c] # <<>>
    /\ esvEcho' = [esvEcho EXCEPT ![c] = @ \o esvIn[c]]
    /\ esvIn' = [esvIn EXCEPT ![c] = <<>>] /\ UNCHANGED esvBuf

\* A slot of rset: data is written back; the end of file frees the slot, and a
\* reset does too in tcpservpoll01 and ends the others.
EsvClientReady(i) ==
    LET c == esvSlot[i]
        atEnd == esvIn[c] = <<>> /\ (esvProg.input = "static" => esvBuf = <<>>)
    IN /\ EsvTurn(i)
       /\ \/ /\ ~atEnd
             /\ IF esvProg.input = "static" THEN Readline(c) ELSE EsvRead(c)
             /\ UNCHANGED <<esvUp, esvSlot, esvWork, esvCli>>
          \/ /\ ~atEnd /\ esvCli[c] = "open"     \* reset between read and Writen
             /\ esvCli' = [esvCli EXCEPT ![c] = "reset"] /\ esvUp' = "write"
             /\ UNCHANGED <<esvSlot, esvWork, esvIn, esvEcho, esvBuf>>
          \/ /\ atEnd /\ (esvCli[c] = "fin" \/ esvProg.reset = "close")
             /\ esvSlot' = [esvSlot EXCEPT ![i] = 0]
             /\ esvWork' = [esvWork EXCEPT ![c] = "closed"]
             /\ UNCHANGED <<esvUp, esvCli, esvIn, esvEcho, esvBuf>>
          \/ /\ atEnd /\ esvCli[c] = "reset" /\ esvProg.reset = "end"
             /\ esvUp' = "reset" /\ UNCHANGED <<esvSlot, esvWork, esvCli, esvIn, esvEcho, esvBuf>>
       /\ UNCHANGED <<esvProg, esvQueue, esvSent, esvPending, esvMaxi>>

EsvWorkerStep(c) == str_echo(c) \/ EsvChildEnds(c) \/ EsvThreadEnds(c)

EsvMainStep ==
    EsvAccept \/ sig_chld \/ EsvSelect \/ EsvNewClient
    \/ \E i \in 1 .. EsvSlots : EsvClientReady(i)

EsvNext ==
    \/ EsvStart \/ EsvMainStep
    \/ \E c \in EsvConns : EsvWorkerStep(c) \/ EsvConnect(c) \/ EsvSend(c) \/ EsvFinish(c)

EsvSpec == EsvInit /\ [][EsvNext]_esvVars /\ WF_esvVars(EsvMainStep)
           /\ \A c \in EsvConns : WF_esvVars(EsvWorkerStep(c))

-----------------------------------------------------------------------------
(* Correctness.                                                            *)

\* A connection is answered its own lines, each once and in order, whatever the
\* other connections send. tcpservselect03 is left out: it calls Readline for
\* several descriptors, and what one sent beyond a line is answered to another.
EsvOwnEcho ==
    esvProg # tcpservselect03 =>
        \A c \in EsvConns : \A k \in 1 .. Len(esvEcho[c]) : esvEcho[c][k] = <<c, k>>

\* One client cannot end the server by resetting its connection where each has a
\* child, nor in tcpservpoll01, which ends only when its table is full or when
\* the reset comes between its read and its Writen.
EsvSurvives ==
    /\ (esvUp # "up") => esvProg.kind # "fork"
    /\ (esvUp = "reset") => esvProg # tcpservpoll01
    /\ (esvUp = "full") => \A i \in 1 .. EsvSize : esvSlot[i] # 0

\* A client that sends and then shuts down has everything answered and its
\* connection closed, unless the server has ended. (Not so in tcpservselect03:
\* select does not know of the lines in read_buf.)
EsvServed ==
    \A c \in EsvConns :
        (esvCli[c] = "fin" /\ esvProg # tcpservselect03)
        ~> (esvUp # "up" \/ (Len(esvEcho[c]) = esvSent[c] /\ esvWork[c] \in {"zombie", "closed"}))

\* No zombie stays where the handler calls waitpid in a loop.
EsvReaped ==
    \A c \in EsvConns :
        (esvWork[c] = "zombie" /\ esvProg.name \in {"tcpserv04", "tcpserv08", "tcpserv09", "stdio02"})
        ~> (esvWork[c] = "closed")

\* The echo servers keep their clients apart: answers go to their own
\* connection, and a reset of one does not end the others but in the cases
\* named.
EsvSafe ==
    /\ EsvOwnEcho
    /\ EsvSurvives
=============================================================================
