------------------------------ MODULE UdpCksum -------------------------------
(***************************************************************************)
(* udpcksum of unpv13e, and udpcksum-libnet: does a DNS server send UDP    *)
(* checksums?  A query is written to a raw socket with an IP and a UDP     *)
(* header of the program's own; the answer is taken from a packet capture, *)
(* which has no time limit.  SIGALRM ends the wait with a siglongjmp()     *)
(* back to the place where the query is sent, three times at most.         *)
(*                                                                         *)
(* A packet of the capture has passed the filter "udp and src host ... and *)
(* src port ...": it comes from the server, to whatever program of this    *)
(* host, and may come before the query.  It has the length of its IP       *)
(* header in words, whether it is cut short, whether the checksum of its   *)
(* IP header is right, its UDP checksum, and the word that is 26 bytes     *)
(* behind the start of its IP header.                                      *)
(***************************************************************************)
EXTENDS Integers, Sequences

CONSTANTS
    UckPackets,     \* packets: [hl, short, good, sum, word26]
    UckHost,        \* this host's address on the way to the server, a word
    UckRests,       \* sums of the words of a query but its source address
    UckMaxPackets   \* bound: packets captured in a behaviour

ASSUME UckAssumption ==
    /\ UckHost \in Nat /\ UckHost > 0 /\ UckHost < 65536
    /\ \A w \in UckRests : w \in Nat /\ w > 0 /\ w < 65536
    /\ UckMaxPackets \in Nat
    /\ UckPackets \subseteq [hl : 5 .. 15, short : BOOLEAN, good : BOOLEAN,
                             sum : Nat, word26 : Nat]

VARIABLES
    uckPc,          \* "main", "output", "pcap", "send", "arm", "read", "got",
                    \* "off", "report", "end"
    uckZerosum,     \* option -0
    uckLocal,       \* local: the source address, 0 for INADDR_ANY
    uckRest,
    uckLink,        \* udp_read() knows the length of datalink's header
    uckRoot,        \* the process is the superuser's
    uckNsent, uckTimeout, uckCanjump,
    uckAlarm,       \* the alarm is set
    uckCaptured,    \* packets that next_pcap() will return
    uckCount,       \* packets captured so far
    uckWire,        \* the last query: its source address and its checksum
    uckUi,          \* ui, when udp_read() has returned
    uckTaken,       \* udp_read() has returned a packet
    uckRaced,       \* SIGALRM came between that and canjump = 0
    uckSaid,        \* what is printed: "none", "on", "off"
    uckEnd          \* why the program ended

uckSetup == <<uckZerosum, uckLocal, uckRest, uckLink, uckRoot>>
uckNet == <<uckCaptured, uckCount>>
uckLast == <<uckTaken, uckRaced>>
uckVars == <<uckPc, uckSetup, uckNsent, uckTimeout, uckCanjump, uckAlarm, uckNet, uckWire,
             uckUi, uckLast, uckSaid, uckEnd>>

UckNoPacket == [hl |-> 5, short |-> FALSE, good |-> FALSE, sum |-> 0, word26 |-> 0]

UckInit ==
    /\ uckPc = "main" /\ uckZerosum = FALSE
    /\ uckLocal = 0 /\ uckRest = 0 /\ uckLink = FALSE /\ uckRoot = TRUE
    /\ uckNsent = 0 /\ uckTimeout = 3 /\ uckCanjump = FALSE /\ uckAlarm = FALSE
    /\ uckCaptured = <<>> /\ uckCount = 0 /\ uckWire = [src |-> 0, sum |-> 0]
    /\ uckUi = UckNoPacket /\ uckTaken = FALSE /\ uckRaced = FALSE
    /\ uckSaid = "none" /\ uckEnd = "no"

UckQuits(why) == uckPc' = "end" /\ uckEnd' = why
UckGoes(pc) == uckPc' = pc /\ UNCHANGED uckEnd

\* main(): the options, and the local address, of -l or of a socket that is
\* connected to the server.
UckMain ==
    /\ uckPc = "main"
    /\ uckZerosum' \in BOOLEAN
    /\ uckLocal' \in {0, UckHost} /\ uckRest' \in UckRests
    /\ \E lopt \in BOOLEAN :
          IF ~lopt /\ uckLocal' = 0 THEN UckQuits("no local address") ELSE UckGoes("output")
    /\ UNCHANGED <<uckLink, uckRoot, uckNsent, uckTimeout, uckCanjump, uckAlarm, uckNet, uckWire,
                   uckUi, uckLast, uckSaid>>

\* open_output(): the raw socket, or libnet's.
UckOpenOutput ==
    /\ uckPc = "output"
    /\ UckGoes("pcap") \/ UckQuits("output")
    /\ UNCHANGED <<uckSetup, uckNsent, uckTimeout, uckCanjump, uckAlarm, uckNet, uckWire, uckUi,
                   uckLast, uckSaid>>

\* open_pcap(), whose errors end the program; setuid(); the start of
\* test_udp(), up to the query.
UckOpenPcap ==
    /\ uckPc = "pcap"
    /\ \/ /\ UckQuits("pcap") /\ UNCHANGED <<uckLink, uckRoot, uckCanjump>>
       \/ /\ uckLink' \in BOOLEAN /\ uckRoot' = FALSE /\ uckCanjump' = TRUE
          /\ UckGoes("send")
    /\ UNCHANGED <<uckZerosum, uckLocal, uckRest, uckNsent, uckTimeout, uckAlarm, uckNet, uckWire, uckUi,
                   uckLast, uckSaid>>

\* in_cksum() over two words: the sum, its carry added back, the complement.
UckCksum(a, b) == LET sum == a + b IN 65535 - ((sum % 65536) + (sum \div 65536))

\* udp_write(): the UDP checksum over the pseudo-header, zero written as ones.
udp_write_sum ==
    IF uckZerosum THEN 0
    ELSE IF UckCksum(uckLocal, uckRest) = 0 THEN 65535 ELSE UckCksum(uckLocal, uckRest)

\* send_dns_query() of udpcksum-libnet: libnet computes the same checksum.
UckLibnetSum == IF uckZerosum THEN 0 ELSE udp_write_sum

\* send_dns_query() of either program; IP puts in the source address that is
\* zero.
UckSend ==
    /\ uckPc = "send" /\ UckGoes("arm") /\ uckNsent' = uckNsent + 1
    /\ \E sum \in {udp_write_sum, UckLibnetSum} :
          uckWire' = [src |-> IF uckLocal = 0 THEN UckHost ELSE uckLocal, sum |-> sum]
    /\ UNCHANGED <<uckSetup, uckTimeout, uckCanjump, uckAlarm, uckNet, uckUi, uckLast, uckSaid>>

UckArm ==
    /\ uckPc = "arm" /\ uckAlarm' = TRUE /\ UckGoes("read")
    /\ UNCHANGED <<uckSetup, uckNsent, uckTimeout, uckCanjump, uckNet, uckWire, uckUi, uckLast,
                   uckSaid>>

\* udp_check(): what it asks of a packet.
udp_check(p) == ~p.short /\ p.good

\* udp_read(): the next packet of the capture, behind the header of its link.
UckRead ==
    /\ uckPc = "read" /\ uckCaptured # <<>> /\ uckCaptured' = Tail(uckCaptured)
    /\ IF uckLink /\ udp_check(Head(uckCaptured))
       THEN uckUi' = Head(uckCaptured) /\ uckTaken' = TRUE /\ UckGoes("got")
       ELSE UckQuits("packet") /\ UNCHANGED <<uckUi, uckTaken>>
    /\ UNCHANGED <<uckSetup, uckNsent, uckTimeout, uckCanjump, uckAlarm, uckCount, uckWire, uckRaced,
                   uckSaid>>

\* canjump = 0 in test_udp().
UckNoJump ==
    /\ uckPc = "got" /\ uckCanjump' = FALSE /\ UckGoes("off")
    /\ UNCHANGED <<uckSetup, uckNsent, uckTimeout, uckAlarm, uckNet, uckWire, uckUi, uckLast, uckSaid>>

UckAlarmOff ==
    /\ uckPc = "off" /\ uckAlarm' = FALSE /\ UckGoes("report")
    /\ UNCHANGED <<uckSetup, uckNsent, uckTimeout, uckCanjump, uckNet, uckWire, uckUi, uckLast, uckSaid>>

\* ui->ui_sum, at its place behind an IP header without options.
UckSum(p) == IF p.hl = 5 THEN p.sum ELSE p.word26

\* The end of test_udp(), and cleanup() from main().
UckReport ==
    /\ uckPc = "report" /\ uckSaid' = (IF UckSum(uckUi) = 0 THEN "off" ELSE "on")
    /\ UckQuits("answer")
    /\ UNCHANGED <<uckSetup, uckNsent, uckTimeout, uckCanjump, uckAlarm, uckNet, uckWire, uckUi, uckLast>>

\* sig_alrm(), and after its siglongjmp() the way back to the query.
UckSigAlrm ==
    /\ uckAlarm /\ uckPc # "end" /\ uckAlarm' = FALSE
    /\ IF uckCanjump
       THEN /\ uckRaced' = (uckRaced \/ uckPc = "got")
            /\ IF uckNsent >= 3 THEN UckQuits("no response") /\ UNCHANGED uckTimeout
               ELSE UckGoes("send") /\ uckTimeout' = uckTimeout * 2
       ELSE UNCHANGED <<uckPc, uckEnd, uckTimeout, uckRaced>>
    /\ UNCHANGED <<uckSetup, uckNsent, uckCanjump, uckNet, uckWire, uckUi, uckTaken, uckSaid>>

\* SIGTERM, SIGINT or SIGHUP, once main() has set them: cleanup().
UckCleanup ==
    /\ uckPc \in {"send", "arm", "read", "got", "off", "report"} /\ UckQuits("signal")
    /\ UNCHANGED <<uckSetup, uckNsent, uckTimeout, uckCanjump, uckAlarm, uckNet, uckWire, uckUi,
                   uckLast, uckSaid>>

\* The server's datagrams, to this program or another one.
UckArrives ==
    /\ uckPc \notin {"main", "output", "pcap", "end"} /\ uckCount < UckMaxPackets
    /\ uckCount' = uckCount + 1
    /\ \E p \in UckPackets : uckCaptured' = Append(uckCaptured, p)
    /\ UNCHANGED <<uckPc, uckSetup, uckNsent, uckTimeout, uckCanjump, uckAlarm, uckWire, uckUi,
                   uckLast, uckSaid, uckEnd>>

\* The steps that a running program takes when it can.
UckFairStep ==
    UckMain \/ UckOpenOutput \/ UckOpenPcap \/ UckSend \/ UckArm \/ UckRead \/ UckNoJump
    \/ UckAlarmOff \/ UckReport

UckNext == UckFairStep \/ UckSigAlrm \/ UckCleanup \/ UckArrives

UckSpec == UckInit /\ [][UckNext]_uckVars

-----------------------------------------------------------------------------

(***************************************************************************)
(* The alarm is set for 3, 6 and 12 seconds, as test_udp() says, however   *)
(* packets and alarms come; it is not set twice for one query.             *)
(***************************************************************************)
UckBackoff == uckAlarm => uckNsent \in 1 .. 3 /\ uckTimeout = <<3, 6, 12>>[uckNsent]

(***************************************************************************)
(* "no response" is said after three queries that each had their time, and *)
(* then no packet had been read, unless SIGALRM came after udp_read() had  *)
(* returned one and before canjump was cleared: that packet is lost.       *)
(***************************************************************************)
UckGivesUp == uckEnd = "no response" => uckNsent = 3 /\ uckTimeout = 12 /\ (uckTaken => uckRaced)

(***************************************************************************)
(* What is printed is true of a packet that came after the privileges were *)
(* given up, if its IP header has no options: udp_check() returns the      *)
(* start of the IP header, and ui_sum is at a fixed place behind it.       *)
(***************************************************************************)
UckReportTrue ==
    uckSaid # "none" =>
        /\ uckUi.hl = 5 => (uckSaid = "off" <=> uckUi.sum = 0)
        /\ uckTaken /\ udp_check(uckUi) /\ ~uckRoot

(***************************************************************************)
(* The checksum that udp_write() puts into a query is one the server's IP  *)
(* accepts, and is not the zero that stands for none, unless -0 asks for   *)
(* it.  -l with the address 0.0.0.0 breaks it: IP fills in the source      *)
(* address when the checksum has been computed.                            *)
(***************************************************************************)
UckSumRight ==
    uckNsent > 0 /\ uckLocal # 0 =>
        IF uckZerosum THEN uckWire.sum = 0
        ELSE /\ uckWire.sum # 0
             /\ LET sum == uckWire.src + uckRest + uckWire.sum
                IN  (sum % 65536) + (sum \div 65536) = 65535

\* udpcksum as a whole: its retries, its verdict and its query.
UckSafe ==
    /\ UckBackoff
    /\ UckGivesUp
    /\ UckReportTrue
    /\ UckSumRight

\* The program ends, whatever is captured: the wait in next_pcap() has no
\* limit of its own, the alarm ends it.
UckEnds == (uckPc = "output") ~> (uckPc = "end")
=============================================================================
