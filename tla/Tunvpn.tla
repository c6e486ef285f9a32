------------------------------- MODULE Tunvpn -------------------------------
(***************************************************************************)
(* The TUN VPN of np-lab8 (tunvpn.cpp): two clients, each with a TCP       *)
(* connection to one server; every node has a TUN device through which its *)
(* kernel hands IP packets out and gets them back.                         *)
(*                                                                         *)
(* Clients are numbered in the order in which the server accepts them      *)
(* (client1, client2), the server is node 0.  An address is the number of  *)
(* the host in 10.0.0.0/24.  A packet is a number of units, the first      *)
(* TunHeader of them its IP header; a TCP stream is a sequence of units    *)
(* and a read returns any number of them, up to the size of the buffer.    *)
(* The eth0 addresses of the clients differ in the last number only, so    *)
(* that the position of the last dot in one is that in the other.          *)
(***************************************************************************)
EXTENDS Integers, Sequences, SequencesExt, FiniteSets

CONSTANTS
    TunOctet,       \* last number of the eth0 address of clients 1 and 2
    TunSizes,       \* sizes of packets, in units
    TunMaxPackets,  \* bound: packets handed to TUN devices in a behaviour
    TunHeader,      \* sizeof(struct iphdr), in units
    TunBuffer       \* sizeof(buffer), the MTU, in units

TunClients == {1, 2}
TunNodes == {0, 1, 2}

ASSUME TunOctetAssumption ==
    /\ TunOctet \in [TunClients -> (1 .. 243) \cup {245}]
    /\ TunOctet[1] # TunOctet[2]
ASSUME TunSizesAssumption ==
    /\ TunHeader \in Nat \ {0} /\ TunBuffer \in Nat
    /\ TunSizes \subseteq TunHeader .. TunBuffer
ASSUME TunBoundAssumption == TunMaxPackets \in Nat

\* The address given to the TUN device: MYADDR for the server, ADDRBASE plus
\* the last number of the eth0 address for a client.
TunAddr(h) == IF h = 0 THEN 254 ELSE 10 + TunOctet[h]

VARIABLES
    tunAccepted,    \* clients accepted so far
    tunOut,         \* packets that wait in the TUN devices
    tunUp, tunDown, \* streams from and to the clients
    tunInbox,       \* packets a node's kernel has got back
    tunPeer,        \* "up", "gone" (the client died), "broken" (written to since)
    tunServer,      \* "up" or "killed" (SIGPIPE)
    tunSent,        \* packets handed out so far
    tunTorn         \* TRUE: some read did not return exactly one packet

tunVars == <<tunAccepted, tunOut, tunUp, tunDown, tunInbox, tunPeer, tunServer,
             tunSent, tunTorn>>

TunInit ==
    /\ tunAccepted = 0
    /\ tunOut = [h \in TunNodes |-> <<>>]
    /\ tunUp = [c \in TunClients |-> <<>>]
    /\ tunDown = [c \in TunClients |-> <<>>]
    /\ tunInbox = [h \in TunNodes |-> <<>>]
    /\ tunPeer = [c \in TunClients |-> "up"]
    /\ tunServer = "up"
    /\ tunSent = 0
    /\ tunTorn = FALSE
-----------------------------------------------------------------------------
TunBytes(p) == [k \in 1 .. p.size |-> [pkt |-> p, pos |-> k]]

\* The buffer holds one whole packet and nothing else.
TunExactly(buf) == buf = TunBytes(buf[1].pkt)

\* What the kernel makes of a buffer written to the TUN device of node h: the
\* packet at its start, if all of it is there and it is for this node; what
\* follows the packet is ignored.
TunDeliver(h, buf) ==
    tunInbox' = [tunInbox EXCEPT ![h] =
        IF IsPrefix(TunBytes(buf[1].pkt), buf) /\ buf[1].pkt.dst = TunAddr(h)
        THEN Append(@, buf[1].pkt) ELSE @]

\* Destinations the server may see in a buffer: the one in the header, or
\* anything when the buffer starts inside a packet.
TunDests(buf) ==
    IF IsPrefix(SubSeq(TunBytes(buf[1].pkt), 1, TunHeader), buf)
    THEN {buf[1].pkt.dst} ELSE {TunAddr(h) : h \in TunNodes}

\* lastNumber == lastNumdest - 10
TunRoutes(c, dst) == TunOctet[c] = dst - 10

\* write to the connection of client c.
TunWrite(c, buf) ==
    CASE tunPeer[c] = "up" ->
             /\ tunDown' = [tunDown EXCEPT ![c] = @ \o buf]
             /\ UNCHANGED <<tunPeer, tunServer>>
      [] tunPeer[c] = "gone" ->
             /\ tunPeer' = [tunPeer EXCEPT ![c] = "broken"]
             /\ UNCHANGED <<tunDown, tunServer>>
      [] tunPeer[c] = "broken" ->
             /\ tunServer' = "killed"
             /\ UNCHANGED <<tunDown, tunPeer>>

\* Mutant: the bytes that were read stay in the stream.
TunRestPeek(stream, n) == stream

TunRest(stream, n) == SubSeq(stream, n + 1, Len(stream))

-----------------------------------------------------------------------------
\* A node's kernel routes a packet into its TUN device.  A client that has
\* died takes its device with it.
TunSend(h, dst, size) ==
    /\ tunSent < TunMaxPackets
    /\ h # 0 => tunPeer[h] = "up"
    /\ dst # TunAddr(h)
    /\ tunSent' = tunSent + 1
    /\ tunOut' = [tunOut EXCEPT ![h] =
          Append(@, [id |-> tunSent + 1, src |-> h, dst |-> dst, size |-> size])]
    /\ UNCHANGED <<tunAccepted, tunUp, tunDown, tunInbox, tunPeer, tunServer, tunTorn>>

\* tunvpn_server: the two accepts, one after the other.
TunAccept ==
    /\ tunAccepted < 2
    /\ tunAccepted' = tunAccepted + 1
    /\ UNCHANGED <<tunOut, tunUp, tunDown, tunInbox, tunPeer, tunServer, tunSent, tunTorn>>

\* tunvpn_client: from the TUN device to the server.
TunClientSend(c) ==
    /\ tunPeer[c] = "up"
    /\ tunOut[c] # <<>>
    /\ tunOut' = [tunOut EXCEPT ![c] = Tail(@)]
    /\ tunUp' = [tunUp EXCEPT ![c] = @ \o TunBytes(Head(tunOut[c]))]
    /\ UNCHANGED <<tunAccepted, tunDown, tunInbox, tunPeer, tunServer, tunSent, tunTorn>>

\* tunvpn_client: from the server to the TUN device.
TunClientRecv(c) ==
    /\ tunPeer[c] = "up"
    /\ \E n \in 1 .. TunBuffer :
          /\ n <= Len(tunDown[c])
          /\ TunDeliver(c, SubSeq(tunDown[c], 1, n))
          /\ tunTorn' = (tunTorn \/ ~TunExactly(SubSeq(tunDown[c], 1, n)))
          /\ tunDown' = [tunDown EXCEPT ![c] = TunRest(@, n)]
    /\ UNCHANGED <<tunAccepted, tunOut, tunUp, tunPeer, tunServer, tunSent>>

\* tunvpn_server: POLLIN on the TUN device.  A packet for neither client is
\* dropped.
TunServerFromTun ==
    /\ tunServer = "up"
    /\ tunAccepted = 2
    /\ tunOut[0] # <<>>
    /\ tunOut' = [tunOut EXCEPT ![0] = Tail(@)]
    /\ LET p == Head(tunOut[0])
       IN  CASE TunRoutes(1, p.dst) -> TunWrite(1, TunBytes(p))
             [] ~TunRoutes(1, p.dst) /\ TunRoutes(2, p.dst) -> TunWrite(2, TunBytes(p))
             [] OTHER -> UNCHANGED <<tunDown, tunPeer, tunServer>>
    /\ UNCHANGED <<tunAccepted, tunUp, tunInbox, tunSent, tunTorn>>

\* tunvpn_server: POLLIN on the connection of client c.  A read shorter than a
\* header is dropped; a packet that is not for the other client goes to the
\* server's own kernel.
TunServerFromClient(c) ==
    /\ tunServer = "up"
    /\ tunAccepted = 2
    /\ \E n \in 1 .. TunBuffer :
          LET buf == SubSeq(tunUp[c], 1, n)
          IN  /\ n <= Len(tunUp[c])
              /\ tunUp' = [tunUp EXCEPT ![c] = TunRest(@, n)]
              /\ tunTorn' = (tunTorn \/ ~TunExactly(buf))
              /\ \/ /\ n < TunHeader
                    /\ UNCHANGED <<tunDown, tunInbox, tunPeer, tunServer>>
                 \/ /\ n >= TunHeader
                    /\ \E dst \in TunDests(buf) :
                          IF TunRoutes(3 - c, dst)
                          THEN TunWrite(3 - c, buf) /\ UNCHANGED tunInbox
                          ELSE TunDeliver(0, buf) /\ UNCHANGED <<tunDown, tunPeer, tunServer>>
    /\ UNCHANGED <<tunAccepted, tunOut, tunSent>>

\* A client process ends.  From then on the server's poll returns at once and
\* its reads return 0 or -1: neither moves a packet, because a write of -1
\* bytes is refused by the kernel.
TunClientDies(c) ==
    /\ tunPeer[c] = "up"
    /\ tunPeer' = [tunPeer EXCEPT ![c] = "gone"]
    /\ tunOut' = [tunOut EXCEPT ![c] = <<>>]
    /\ tunDown' = [tunDown EXCEPT ![c] = <<>>]
    /\ UNCHANGED <<tunAccepted, tunUp, tunInbox, tunServer, tunSent, tunTorn>>

TunForward ==
    \/ TunAccept
    \/ TunServerFromTun
    \/ \E c \in TunClients : TunClientSend(c) \/ TunClientRecv(c) \/ TunServerFromClient(c)

TunNext ==
    \/ TunForward
    \/ \E c \in TunClients : TunClientDies(c)
    \/ \E h, g \in TunNodes, s \in TunSizes : TunSend(h, TunAddr(g), s)

TunFairness ==
    /\ WF_tunVars(TunAccept)
    /\ WF_tunVars(TunServerFromTun)
    /\ \A c \in TunClients :
          /\ WF_tunVars(TunClientSend(c))
          /\ WF_tunVars(TunClientRecv(c))
          /\ WF_tunVars(TunServerFromClient(c))

TunSpec == TunInit /\ [][TunNext]_tunVars /\ TunFairness
-----------------------------------------------------------------------------
\* A kernel gets a packet back at most once, and the packets of one sender in
\* the order in which they were sent, however the streams are cut into reads:
\* the routing by last number and the missing framing may lose packets but
\* neither repeat nor reorder them.
TunInOrder ==
    \A h \in TunNodes : \A i, j \in DOMAIN tunInbox[h] :
        /\ tunInbox[h][i].dst = TunAddr(h)
        /\ i < j /\ tunInbox[h][i].src = tunInbox[h][j].src
              => tunInbox[h][i].id < tunInbox[h][j].id

\* As long as every read has returned exactly one packet and both clients are
\* alive, every packet handed to a TUN device reaches the node it is for; in
\* particular the server's loop over three descriptors starves none of them.
TunArrives ==
    \A i \in 1 .. TunMaxPackets :
        (tunSent >= i) ~> \/ \E h \in TunNodes : \E p \in Range(tunInbox[h]) : p.id = i
                          \/ tunTorn
                          \/ \E c \in TunClients : tunPeer[c] # "up"
=============================================================================
