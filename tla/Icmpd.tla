-------------------------------- MODULE Icmpd --------------------------------
(***************************************************************************)
(* The ICMP daemon of unpv13e/icmpd and its UDP clients (dgcli01.c). A     *)
(* client passes its UDP socket over a Unix domain connection; the daemon  *)
(* remembers the socket's family and port in client[] and writes an        *)
(* icmpd_err to the connection for every ICMP error that quotes that port. *)
(*                                                                         *)
(* A connection has the number of its client. A slot of client[] is        *)
(* [conn, addr], conn 0 for -1; readable_listen sets connfd only, so a     *)
(* reused slot keeps the family and port of its last user. An address is   *)
(* <<family, port>>.                                                       *)
(***************************************************************************)
EXTENDS Integers, Sequences, FiniteSets

CONSTANTS IcdAddr,      \* the address of each client's UDP socket
          IcdPass,      \* what each client passes: "fd", "bare", "byte"
          IcdSlots, IcdMaxErrors

IcdClients == DOMAIN IcdAddr

ASSUME IcdAssumption ==
    /\ IcdSlots \in Nat \ {0} /\ IcdMaxErrors \in Nat
    /\ 0 \notin IcdClients
    /\ \A c \in IcdClients : IcdAddr[c] \in {4, 6} \X Nat
    /\ IcdPass \in [IcdClients -> {"fd", "bare", "byte"}]

VARIABLES
    icdUp,      \* the daemon runs
    icdSlot, icdMaxi,
    icdRset, icdNready,     \* ready descriptors not served yet in this round
    icdQueue,   \* connections to accept
    icdIn,      \* what a connection holds for the daemon
    icdRaw,     \* ICMP messages to read, per family
    icdErrors,  \* ICMP messages so far
    icdCli,     \* "new", "conn", "wait", "loop", "select", "gone"
    icdOut,     \* what a connection holds for its client
    icdOpen     \* connections the daemon has not closed

icdVars == <<icdUp, icdSlot, icdMaxi, icdRset, icdNready, icdQueue, icdIn, icdRaw,
             icdErrors, icdCli, icdOut, icdOpen>>
icdDaemon == <<icdUp, icdSlot, icdMaxi, icdRset, icdNready, icdOpen>>

IcdInit ==
    /\ icdUp = TRUE /\ icdMaxi = 0
    /\ icdSlot = [i \in 1 .. IcdSlots |-> [conn |-> 0, addr |-> <<0, 0>>]]
    /\ icdRset = {} /\ icdNready = 0
    /\ icdQueue = <<>> /\ icdIn = [c \in IcdClients |-> <<>>]
    /\ icdRaw = [f \in {4, 6} |-> <<>>] /\ icdErrors = 0
    /\ icdCli = [c \in IcdClients |-> "new"]
    /\ icdOut = [c \in IcdClients |-> <<>>]
    /\ icdOpen = {}

-----------------------------------------------------------------------------
(* The clients.                                                            *)

IcdLive(c) == icdCli[c] \notin {"new", "gone"}

\* Sock_bind_wild: an ephemeral port that no other socket of the family has.
Sock_bind_wild(c) == \A d \in IcdClients \ {c} : IcdLive(d) => IcdAddr[d] # IcdAddr[c]

\* dg_cli: the UDP socket is bound, then the daemon's socket is connected to.
IcdConnect(c) ==
    /\ icdCli[c] = "new" /\ icdUp /\ Sock_bind_wild(c)
    /\ icdCli' = [icdCli EXCEPT ![c] = "conn"]
    /\ icdQueue' = Append(icdQueue, c) /\ icdOpen' = icdOpen \cup {c}
    /\ UNCHANGED <<icdUp, icdSlot, icdMaxi, icdRset, icdNready, icdIn, icdRaw, icdErrors,
                   icdOut>>

\* Write_fd: the socket is passed; SIGPIPE when the connection is closed.
Write_fd(c) ==
    /\ icdCli[c] = "conn"
    /\ \/ /\ icdUp /\ c \in icdOpen
          /\ icdIn' = [icdIn EXCEPT ![c] = <<IcdPass[c]>>]
          /\ icdCli' = [icdCli EXCEPT ![c] = "wait"]
       \/ /\ ~(icdUp /\ c \in icdOpen)
          /\ icdCli' = [icdCli EXCEPT ![c] = "gone"] /\ UNCHANGED icdIn
    /\ UNCHANGED <<icdDaemon, icdQueue, icdRaw, icdErrors, icdOut>>

IcdEof(c) == icdOut[c] = <<>> /\ ~(icdUp /\ c \in icdOpen)

\* Read of one byte: only "1" lets the client go on.
IcdReadReply(c) ==
    /\ icdCli[c] = "wait" /\ (icdOut[c] # <<>> \/ IcdEof(c))
    /\ IF icdOut[c] # <<>> /\ Head(icdOut[c]).is = "1"
       THEN /\ icdCli' = [icdCli EXCEPT ![c] = "loop"]
            /\ icdOut' = [icdOut EXCEPT ![c] = Tail(@)]
       ELSE /\ icdCli' = [icdCli EXCEPT ![c] = "gone"] /\ UNCHANGED icdOut
    /\ UNCHANGED <<icdDaemon, icdQueue, icdIn, icdRaw, icdErrors>>

\* The loop of dg_cli: a line is sent, or standard input ends and so does the
\* program.
IcdSendLine(c) ==
    /\ icdCli[c] = "loop"
    /\ icdCli' = [icdCli EXCEPT ![c] = "select"]
    /\ UNCHANGED <<icdDaemon, icdQueue, icdIn, icdRaw, icdErrors, icdOut>>

IcdExit(c) ==
    /\ icdCli[c] = "loop"
    /\ icdCli' = [icdCli EXCEPT ![c] = "gone"]
    /\ UNCHANGED <<icdDaemon, icdQueue, icdIn, icdRaw, icdErrors, icdOut>>

\* select returns: at the timeout or with a datagram nothing else changes; an
\* icmpd_err is read when the connection is readable, and end of file is fatal.
IcdSelectReturns(c) ==
    /\ icdCli[c] = "select"
    /\ \/ /\ icdCli' = [icdCli EXCEPT ![c] = "loop"]
          /\ IF icdOut[c] = <<>> THEN ~IcdEof(c) /\ UNCHANGED icdOut
             ELSE icdOut' = [icdOut EXCEPT ![c] = Tail(@)]
       \/ /\ IcdEof(c)
          /\ icdCli' = [icdCli EXCEPT ![c] = "gone"] /\ UNCHANGED icdOut
    /\ UNCHANGED <<icdDaemon, icdQueue, icdIn, icdRaw, icdErrors>>

\* The network: an ICMP message reaches the raw sockets, perhaps long after the
\* datagram it quotes. "short" is below the length the daemon asks for, "echo"
\* any type it does not look at.
IcdArrives ==
    /\ icdErrors < IcdMaxErrors
    /\ \E c \in IcdClients, is \in {"short", "echo", "noport", "toobig", "timxceed"} :
        /\ icdCli[c] \in {"select", "gone"}
        /\ icdRaw' = [icdRaw EXCEPT ![IcdAddr[c][1]] =
                        Append(@, [is |-> is, addr |-> IcdAddr[c]])]
    /\ icdErrors' = icdErrors + 1
    /\ UNCHANGED <<icdDaemon, icdQueue, icdIn, icdCli, icdOut>>

-----------------------------------------------------------------------------
(* The daemon.                                                             *)

\* The descriptors in allset that are readable: 1 the listening socket, 2 and 3
\* the raw sockets, 3 + i the connection in slot i.
IcdReady ==
    {h \in {1} : icdQueue # <<>>}
    \cup {h \in {2} : icdRaw[4] # <<>>} \cup {h \in {3} : icdRaw[6] # <<>>}
    \cup {3 + i : i \in {j \in 1 .. IcdSlots :
            LET c == icdSlot[j].conn IN c # 0 /\ (icdIn[c] # <<>> \/ icdCli[c] = "gone")}}

\* What the round still looks at: client[] up to maxi, and nothing once nready
\* is used up.
IcdLooks == IF icdNready <= 0 THEN {} ELSE icdRset \cap (1 .. 3 + icdMaxi)

IcdSelect ==
    /\ icdUp /\ IcdLooks = {} /\ IcdReady # {}
    /\ icdRset' = IcdReady /\ icdNready' = Cardinality(IcdReady)
    /\ UNCHANGED <<icdUp, icdSlot, icdMaxi, icdOpen, icdQueue, icdIn, icdRaw, icdErrors,
                   icdCli, icdOut>>

\* Handler h has its turn; every handler returns --nready.
IcdTurn(h) ==
    /\ icdUp /\ h \in IcdLooks /\ \A g \in IcdLooks : h <= g
    /\ icdRset' = icdRset \ {h} /\ icdNready' = icdNready - 1

\* "can't handle new client, rudely close the new connection"
IcdRefused(c) == icdOpen \ {c}

IcdRaised(i) == IF i > icdMaxi THEN i ELSE icdMaxi

\* readable_listen: the connection takes the first free slot, as it was left.
readable_listen ==
    /\ IcdTurn(1)
    /\ icdQueue' = Tail(icdQueue)
    /\ LET c == Head(icdQueue)
           free == {i \in 1 .. IcdSlots : icdSlot[i].conn = 0}
       IN \/ \E i \in free :
               /\ \A j \in free : i <= j
               /\ icdSlot' = [icdSlot EXCEPT ![i].conn = c]
               /\ icdMaxi' = IcdRaised(i) /\ UNCHANGED icdOpen
          \/ free = {} /\ icdOpen' = IcdRefused(c) /\ UNCHANGED <<icdSlot, icdMaxi>>
    /\ UNCHANGED <<icdUp, icdIn, icdRaw, icdErrors, icdCli, icdOut>>

\* Mutant: the port alone picks the clients.
IcdPortOnly(i, addr) == icdSlot[i].conn # 0 /\ icdSlot[i].addr[2] = addr[2]

\* connfd >= 0, and the family and lport are those of the quoted header.
IcdQuoted(i, addr) == icdSlot[i].conn # 0 /\ icdSlot[i].addr = addr

\* The errno for an ICMPv4 and an ICMPv6 error: "port" and "needfrag" are codes
\* of ICMP_UNREACH in one and a code and a type in the other.
IcdErrno4(is) ==
    CASE is = "noport" -> "ECONNREFUSED" [] is = "toobig" -> "EMSGSIZE" [] OTHER -> "EHOSTUNREACH"
IcdErrno6(is) ==
    IF is = "toobig" THEN "EMSGSIZE" ELSE IF is = "noport" THEN "ECONNREFUSED" ELSE "EHOSTUNREACH"

\* The slots are gone through in order; a Write to a connection whose client has
\* ended is the daemon's end (SIGPIPE).
IcdDistribute(addr, errno) ==
    LET named == {i \in 1 .. icdMaxi : IcdQuoted(i, addr)}
        ended == {i \in named : icdCli[icdSlot[i].conn] = "gone"}
        got == {icdSlot[i].conn : i \in {j \in named : \A e \in ended : j < e}}
    IN /\ icdUp' = (ended = {})
       /\ icdOut' = [c \in IcdClients |->
                        IF c \in got THEN Append(icdOut[c], [is |-> errno, addr |-> addr])
                        ELSE icdOut[c]]

\* A message that is too short ends the daemon (err_quit); a type that is not
\* looked at, or a quoted datagram that is not UDP, changes nothing.
IcdRead(f) ==
    LET m == Head(icdRaw[f])
    IN /\ icdRaw' = [icdRaw EXCEPT ![f] = Tail(@)]
       /\ CASE m.is = "short" -> icdUp' = FALSE /\ UNCHANGED icdOut
            [] m.is = "echo" -> UNCHANGED <<icdUp, icdOut>>
            [] OTHER -> IcdDistribute(m.addr, IF f = 4 THEN IcdErrno4(m.is) ELSE IcdErrno6(m.is))
       /\ UNCHANGED <<icdSlot, icdMaxi, icdOpen, icdQueue, icdIn, icdErrors, icdCli>>

readable_v4 == IcdTurn(2) /\ IcdRead(4)
readable_v6 == IcdTurn(3) /\ IcdRead(6)

\* sock_bind_wild: an unbound socket gets a port, or the bind fails.
sock_bind_wild(c) == {IcdAddr[c], <<0, 0>>}

\* The address a passed socket is registered with; <<0, 0>> when there is none.
\* read_fd returns no descriptor for "byte".
IcdRegistered(c) ==
    CASE Head(icdIn[c]) = "fd" -> {IcdAddr[c]}
      [] Head(icdIn[c]) = "bare" -> sock_bind_wild(c)
      [] OTHER -> {<<0, 0>>}

\* clientdone: the connection is closed and its slot is free; family and lport
\* stay in it.
IcdClientDone(i) ==
    /\ icdOpen' = icdOpen \ {icdSlot[i].conn}
    /\ icdSlot' = [icdSlot EXCEPT ![i].conn = 0]

\* readable_conn: a descriptor is registered and answered with "1", anything
\* else with "0". A client that has ended leaves the slot, or takes the daemon
\* with it when there is an answer to write.
readable_conn(i) ==
    LET c == icdSlot[i].conn
    IN /\ IcdTurn(3 + i)
       /\ icdIn' = [icdIn EXCEPT ![c] = <<>>]
       /\ \/ icdIn[c] = <<>> /\ IcdClientDone(i) /\ UNCHANGED <<icdUp, icdOut>>
          \/ /\ icdIn[c] # <<>>
             /\ \E a \in IcdRegistered(c) :
                  /\ icdUp' = (icdCli[c] # "gone")
                  /\ icdOut' = [icdOut EXCEPT ![c] =
                                 Append(@, [is |-> IF a[1] = 0 THEN "0" ELSE "1", addr |-> a])]
                  /\ IF a[1] = 0 THEN IcdClientDone(i)
                     ELSE icdSlot' = [icdSlot EXCEPT ![i].addr = a] /\ UNCHANGED icdOpen
       /\ UNCHANGED <<icdMaxi, icdQueue, icdRaw, icdErrors, icdCli>>

IcdDaemonStep ==
    IcdSelect \/ readable_listen \/ readable_v4 \/ readable_v6
    \/ \E i \in 1 .. IcdSlots : readable_conn(i)

IcdClientStep(c) == Write_fd(c) \/ IcdReadReply(c)

IcdNext ==
    \/ IcdDaemonStep
    \/ \E c \in IcdClients : IcdConnect(c) \/ IcdClientStep(c) \/ IcdSendLine(c)
                             \/ IcdExit(c) \/ IcdSelectReturns(c)
    \/ IcdArrives

IcdSpec == IcdInit /\ [][IcdNext]_icdVars /\ WF_icdVars(IcdDaemonStep)
           /\ \A c \in IcdClients : WF_icdVars(IcdClientStep(c))

-----------------------------------------------------------------------------
(* Correctness.                                                            *)

\* Once a client has been told "1", its connection holds only errors about its
\* own socket. (A client in a reused slot can be sent an error about the slot's
\* last user before it is told, and ends; see the hazard at readable_listen.)
IcdOwnErrors ==
    \A c \in IcdClients : icdCli[c] \in {"loop", "select"} =>
        \A k \in 1 .. Len(icdOut[c]) : icdOut[c][k].addr = IcdAddr[c]

\* No registered client misses an error: when the daemon reads an ICMP error and
\* goes on, the client that has been told "1" and has the quoted port has one
\* more icmpd_err to read.
IcdNoneMissed ==
    [][\A f \in {4, 6} : (Len(icdRaw'[f]) < Len(icdRaw[f]) /\ icdUp') =>
        LET m == Head(icdRaw[f])
        IN \A c \in IcdClients :
            (icdCli[c] \in {"loop", "select"} /\ IcdAddr[c] = m.addr
             /\ m.is \in {"noport", "toobig", "timxceed"})
            => Len(icdOut'[c]) = Len(icdOut[c]) + 1]_icdVars

\* A client that has passed its socket is answered, or finds the connection
\* closed: the full table and the daemon's end included.
IcdAnswered == \A c \in IcdClients : (icdCli[c] = "wait") ~> (icdCli[c] # "wait")
=============================================================================
