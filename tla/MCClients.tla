----------------------------- MODULE MCClients ------------------------------
(***************************************************************************)
(* The clients, and the programs of two ends, on small instances: the VPN, *)
(* the older file transfer and the bandwidth probe of the labs, and sock,  *)
(* ping, traceroute, udpcksum, the web, echo and datagram clients of       *)
(* unpv13e.  A behaviour is of one program.                                *)
(***************************************************************************)
EXTENDS Tunvpn, OldTransfer, SpeedProbe, SockProgram, WebClient, EchoClients,
        RawPrograms, DgSendRecv, SigioEcho, TimedWait, TLC

VARIABLE program    \* the program this behaviour is of

mcVars == <<program, tunVars, oldVars, probeVars, sckVars, srcVars, wbcVars, ecVars, bsdVars,
             dgrVars, sgoVars, twVars, trcVars, uckVars>>

MCTunOctet == <<2, 3>>
MCOldFrags == <<2, 1>>

\* The switches of sock: the ones that pick the side, with groups of options.
MCSckCommands ==
    {S \cup T : S \in SUBSET {"u", "s", "K", "j"},
                T \in {{}, {"h", "H"}, {"F", "f"}, {"o", "b", "g", "X", "R", "A", "m"},
                       {"B", "2", "x", "E", "A"}, {"F"}, {"L", "t", "I", "D", "J"}}}

MCSrcCommands == [udp : BOOLEAN, ignorewerr : BOOLEAN, peek : BOOLEAN, urgwrite : {0, 2}]

\* Packets of the server: with and without checksum, with IP options, with a
\* bad IP checksum and cut short.
MCUckPackets ==
    LET packet(hl, sum) == [hl |-> hl, short |-> FALSE, good |-> TRUE, sum |-> sum, word26 |-> 7]
    IN  {packet(5, 0), packet(5, 9), packet(6, 0),
         [packet(5, 9) EXCEPT !.good = FALSE], [packet(5, 9) EXCEPT !.short = TRUE]}

-----------------------------------------------------------------------------
Init ==
    /\ program \in {"tunvpn", "oldtransfer", "speedprobe", "sockopen", "socksource",
                    "webclient", "echoclients", "bsdping", "dgsendrecv", "sigioecho",
                    "timedwait", "traceroute", "udpcksum"}
    /\ TunInit /\ OldInit /\ ProbeInit /\ SckInit /\ SrcInit /\ WbcInit /\ EcInit /\
       BsdInit /\ DgrInit /\ SgoInit /\ TwInit /\ TrcInit /\ UckInit

\* A step of one program leaves the variables of the others alone.
TunvpnOnly ==
    /\ program = "tunvpn"
    /\ UNCHANGED <<program, oldVars, probeVars, sckVars, srcVars, wbcVars, ecVars, bsdVars,
                  dgrVars, sgoVars, twVars, trcVars, uckVars>>

OldTransferOnly ==
    /\ program = "oldtransfer"
    /\ UNCHANGED <<program, tunVars, probeVars, sckVars, srcVars, wbcVars, ecVars, bsdVars,
                  dgrVars, sgoVars, twVars, trcVars, uckVars>>

SpeedProbeOnly ==
    /\ program = "speedprobe"
    /\ UNCHANGED <<program, tunVars, oldVars, sckVars, srcVars, wbcVars, ecVars, bsdVars,
                  dgrVars, sgoVars, twVars, trcVars, uckVars>>

SockOpenOnly ==
    /\ program = "sockopen"
    /\ UNCHANGED <<program, tunVars, oldVars, probeVars, srcVars, wbcVars, ecVars, bsdVars,
                  dgrVars, sgoVars, twVars, trcVars, uckVars>>

SockSourceOnly ==
    /\ program = "socksource"
    /\ UNCHANGED <<program, tunVars, oldVars, probeVars, sckVars, wbcVars, ecVars, bsdVars,
                  dgrVars, sgoVars, twVars, trcVars, uckVars>>

WebClientOnly ==
    /\ program = "webclient"
    /\ UNCHANGED <<program, tunVars, oldVars, probeVars, sckVars, srcVars, ecVars, bsdVars,
                  dgrVars, sgoVars, twVars, trcVars, uckVars>>

EchoClientsOnly ==
    /\ program = "echoclients"
    /\ UNCHANGED <<program, tunVars, oldVars, probeVars, sckVars, srcVars, wbcVars, bsdVars,
                  dgrVars, sgoVars, twVars, trcVars, uckVars>>

BsdPingOnly ==
    /\ program = "bsdping"
    /\ UNCHANGED <<program, tunVars, oldVars, probeVars, sckVars, srcVars, wbcVars, ecVars,
                  dgrVars, sgoVars, twVars, trcVars, uckVars>>

DgSendRecvOnly ==
    /\ program = "dgsendrecv"
    /\ UNCHANGED <<program, tunVars, oldVars, probeVars, sckVars, srcVars, wbcVars, ecVars,
                  bsdVars, sgoVars, twVars, trcVars, uckVars>>

SigioEchoOnly ==
    /\ program = "sigioecho"
    /\ UNCHANGED <<program, tunVars, oldVars, probeVars, sckVars, srcVars, wbcVars, ecVars,
                  bsdVars, dgrVars, twVars, trcVars, uckVars>>

TimedWaitOnly ==
    /\ program = "timedwait"
    /\ UNCHANGED <<program, tunVars, oldVars, probeVars, sckVars, srcVars, wbcVars, ecVars,
                  bsdVars, dgrVars, sgoVars, trcVars, uckVars>>

TracerouteOnly ==
    /\ program = "traceroute"
    /\ UNCHANGED <<program, tunVars, oldVars, probeVars, sckVars, srcVars, wbcVars, ecVars,
                  bsdVars, dgrVars, sgoVars, twVars, uckVars>>

UdpCksumOnly ==
    /\ program = "udpcksum"
    /\ UNCHANGED <<program, tunVars, oldVars, probeVars, sckVars, srcVars, wbcVars, ecVars,
                  bsdVars, dgrVars, sgoVars, twVars, trcVars>>

Next ==
    \/ TunvpnOnly /\ TunNext
    \/ OldTransferOnly /\ OldNext
    \/ SpeedProbeOnly /\ ProbeNext
    \/ SockOpenOnly /\ SckNext
    \/ SockSourceOnly /\ SrcNext
    \/ WebClientOnly /\ WbcNext
    \/ EchoClientsOnly /\ EcNext
    \/ BsdPingOnly /\ BsdNext
    \/ DgSendRecvOnly /\ DgrNext
    \/ SigioEchoOnly /\ SgoNext
    \/ TimedWaitOnly /\ TwNext
    \/ TracerouteOnly /\ TrcNext
    \/ UdpCksumOnly /\ UckNext

\* Each program is scheduled as its module says.
Fairness ==
    /\ WF_tunVars(program = "tunvpn" /\ TunAccept)
    /\ WF_tunVars(program = "tunvpn" /\ TunServerFromTun)
    /\ \A c \in TunClients :
          /\ WF_tunVars(program = "tunvpn" /\ TunClientSend(c))
          /\ WF_tunVars(program = "tunvpn" /\ TunClientRecv(c))
          /\ WF_tunVars(program = "tunvpn" /\ TunServerFromClient(c))
    /\ WF_oldVars(program = "oldtransfer" /\ OldClient)
    /\ WF_probeVars(program = "speedprobe" /\ ProbeServerStep)
    /\ WF_probeVars(program = "speedprobe" /\ ProbeClientStep)
    /\ WF_sckVars(program = "sockopen" /\ SckFairStep)
    /\ WF_srcVars(program = "socksource" /\ SrcFairStep)
    /\ WF_wbcVars(program = "webclient" /\ WbcMainStep)
    /\ \A f \in 1 .. WbcFiles :
          /\ WF_wbcVars(program = "webclient" /\ WbcThreadStep(f))
    /\ WF_ecVars(program = "echoclients" /\ EcFairStep)
    /\ WF_ecVars(program = "echoclients" /\ EcServerEchoes)
    /\ WF_bsdVars(program = "bsdping" /\ BsdFairStep)
    /\ WF_dgrVars(program = "dgsendrecv" /\ DgrFairStep)
    /\ WF_sgoVars(program = "sigioecho" /\ SgoFairStep)
    /\ WF_twVars(program = "timedwait" /\ TwFairStep)
    /\ WF_trcVars(program = "traceroute" /\ TrcFairStep)
    /\ WF_uckVars(program = "udpcksum" /\ UckFairStep)
    /\ WF_uckVars(program = "udpcksum" /\ UckSigAlrm)

Spec == Init /\ [][Next]_mcVars /\ Fairness

\* Everything comes to its end: packets and files arrive, results are
\* reported, requests return, echoes are sent, waits are over and programs
\* end, unless one of the races their modules name has happened.
EveryoneEnds ==
    /\ TunArrives
    /\ ProbeReports
    /\ OldClientEnds
    /\ SckFirstHeard
    /\ SrcEnds
    /\ WbcEnds
    /\ EcEnds
    /\ DgrTimerArmed
    /\ BsdEnds
    /\ DgrReturns
    /\ SgoAllEchoed
    /\ TwEnds
    /\ TrcWaitEnds
    /\ UckEnds
=============================================================================
