------------------------------- MODULE BsdPing -------------------------------
(***************************************************************************)
(* unpv13e/ping/bsdping.c: ICMP echo requests are sent from the SIGALRM    *)
(* handler (or from the loop with -f), replies are counted in the main     *)
(* loop, and SIGINT, SIGINFO or the last alarm print the statistics at any *)
(* moment, the middle of pr_pack included.                                 *)
(*                                                                         *)
(* Sequence numbers are not bounded by the size of the table of replies    *)
(* seen: BsdSlots of them share it.  The network (external) loses, delays  *)
(* and duplicates replies; times and texts are left out.                   *)
(***************************************************************************)
EXTENDS Integers, Sequences, FiniteSets

CONSTANTS
    BsdSlots,       \* mx_dup_ck, the bits of rcvd_tbl
    BsdMaxCount,    \* bound: npackets
    BsdMaxSent,     \* bound: requests sent in a behaviour
    BsdMaxReads,    \* bound: replies read
    BsdWords        \* 16-bit words that in_cksum is tried on

ASSUME BsdSlotsAssumption == BsdSlots \in Nat \ {0}
ASSUME BsdWordsAssumption == BsdWords \subseteq 0 .. 2^16 - 1

VARIABLES
    bsdPc,          \* "args", "setup", "loop", "mark" (inside pr_pack), "end"
    bsdNpackets, bsdFlood,
    bsdTransmitted, bsdReceived, bsdRepeats,    \* ntransmitted, nreceived, nrepeats
    bsdTbl,         \* rcvd_tbl: slots that are set
    bsdNet,         \* replies on the way
    bsdSeq,         \* the reply that pr_pack works on
    bsdAlarm,       \* handler of SIGALRM: "none", "onalrm", "onint"
    bsdReads,
    bsdPrinted      \* the counts of the last summary: sent and received

bsdVars == <<bsdPc, bsdNpackets, bsdFlood, bsdTransmitted, bsdReceived, bsdRepeats,
             bsdTbl, bsdNet, bsdSeq, bsdAlarm, bsdReads, bsdPrinted>>

BsdInit ==
    /\ bsdPc = "args" /\ bsdNpackets = 0 /\ bsdFlood = FALSE
    /\ bsdTransmitted = 0 /\ bsdReceived = 0 /\ bsdRepeats = 0
    /\ bsdTbl = {} /\ bsdNet = {} /\ bsdSeq = 0 /\ bsdAlarm = "none" /\ bsdReads = 0
    /\ bsdPrinted = <<0, 0>>

\* The options; an illegal one, or an unknown host, ends the program.
BsdOptions ==
    /\ bsdPc = "args"
    /\ \/ bsdPc' = "end" /\ UNCHANGED <<bsdNpackets, bsdFlood>>
       \/ bsdPc' = "setup" /\ bsdNpackets' \in 0 .. BsdMaxCount /\ bsdFlood' \in BOOLEAN
    /\ UNCHANGED <<bsdTransmitted, bsdReceived, bsdRepeats, bsdTbl, bsdNet, bsdSeq, bsdAlarm,
                   bsdReads, bsdPrinted>>

\* CLR(icmp_seq % mx_dup_ck)
BsdCleared(seq) == bsdTbl \ {seq % BsdSlots}

\* pinger(): the next request; its reply may come.  The request may be lost.
BsdPinger ==
    /\ bsdTransmitted < BsdMaxSent
    /\ bsdTransmitted' = bsdTransmitted + 1
    /\ bsdTbl' = BsdCleared(bsdTransmitted)
    /\ \E net \in {bsdNet, bsdNet \cup {bsdTransmitted}} : bsdNet' = net

\* The socket, the preload (one request, or none) and the timer.
BsdSetup ==
    /\ bsdPc = "setup" /\ bsdPc' = "loop"
    /\ BsdPinger \/ UNCHANGED <<bsdTransmitted, bsdTbl, bsdNet>>
    /\ bsdAlarm' = IF bsdFlood THEN "none" ELSE "onalrm"
    /\ UNCHANGED <<bsdNpackets, bsdFlood, bsdReceived, bsdRepeats, bsdSeq, bsdReads, bsdPrinted>>

\* After the last request the next alarm, ten seconds or two round trips
\* later, ends the program.
BsdLastAlarm == "onint"

\* onalrm(), in the loop or in the middle of pr_pack.
BsdOnAlrm ==
    /\ bsdPc \in {"loop", "mark"} /\ bsdAlarm = "onalrm"
    /\ IF bsdNpackets = 0 \/ bsdTransmitted < bsdNpackets
       THEN BsdPinger /\ UNCHANGED bsdAlarm
       ELSE bsdAlarm' = BsdLastAlarm /\ UNCHANGED <<bsdTransmitted, bsdTbl, bsdNet>>
    /\ UNCHANGED <<bsdPc, bsdNpackets, bsdFlood, bsdReceived, bsdRepeats, bsdSeq, bsdReads,
                   bsdPrinted>>

\* The loop with -f: one more request before it looks for a reply.
BsdFloodOne ==
    /\ bsdPc = "loop" /\ bsdFlood /\ BsdPinger
    /\ UNCHANGED <<bsdPc, bsdNpackets, bsdFlood, bsdReceived, bsdRepeats, bsdSeq, bsdAlarm,
                   bsdReads, bsdPrinted>>

\* recvfrom() and the first half of pr_pack: a reply to one of our requests,
\* which may come again, is counted at once.
BsdCount ==
    /\ bsdPc = "loop" /\ bsdReads < BsdMaxReads
    /\ \E seq \in bsdNet :
          /\ bsdSeq' = seq
          /\ \E net \in {bsdNet, bsdNet \ {seq}} : bsdNet' = net
    /\ bsdReceived' = bsdReceived + 1 /\ bsdReads' = bsdReads + 1
    /\ bsdPc' = "mark"
    /\ UNCHANGED <<bsdNpackets, bsdFlood, bsdTransmitted, bsdRepeats, bsdTbl, bsdAlarm,
                   bsdPrinted>>

\* summary(): what is printed, and so what the exit status says.
BsdSummary(received) == bsdPrinted' = <<bsdTransmitted, received>>

\* --nreceived
BsdRetract(n) == n - 1

\* The second half of pr_pack: a marked slot takes the count back.  The main
\* loop ends after npackets replies.
BsdMark ==
    /\ bsdPc = "mark"
    /\ IF bsdSeq % BsdSlots \in bsdTbl
       THEN /\ bsdRepeats' = bsdRepeats + 1 /\ bsdReceived' = BsdRetract(bsdReceived)
            /\ UNCHANGED bsdTbl
       ELSE /\ bsdTbl' = bsdTbl \cup {bsdSeq % BsdSlots}
            /\ UNCHANGED <<bsdReceived, bsdRepeats>>
    /\ IF bsdNpackets # 0 /\ bsdReceived' >= bsdNpackets
       THEN bsdPc' = "end" /\ BsdSummary(bsdReceived')
       ELSE bsdPc' = "loop" /\ UNCHANGED bsdPrinted
    /\ UNCHANGED <<bsdNpackets, bsdFlood, bsdTransmitted, bsdNet, bsdSeq, bsdAlarm, bsdReads>>

\* onint(): SIGINT, or the last alarm, at any moment.
BsdOnInt ==
    /\ bsdPc \in {"loop", "mark"}
    /\ bsdPc' = "end" /\ BsdSummary(bsdReceived)
    /\ UNCHANGED <<bsdNpackets, bsdFlood, bsdTransmitted, bsdReceived, bsdRepeats, bsdTbl,
                   bsdNet, bsdSeq, bsdAlarm, bsdReads>>

\* oninfo(): the statistics so far.
BsdOnInfo ==
    /\ bsdPc \in {"loop", "mark"}
    /\ BsdSummary(bsdReceived)
    /\ UNCHANGED <<bsdPc, bsdNpackets, bsdFlood, bsdTransmitted, bsdReceived, bsdRepeats,
                   bsdTbl, bsdNet, bsdSeq, bsdAlarm, bsdReads>>

BsdNext == BsdOptions \/ BsdSetup \/ BsdOnAlrm \/ BsdFloodOne \/ BsdCount \/ BsdMark
           \/ BsdOnInt \/ BsdOnInfo

\* The timer runs, and the loop handles what recvfrom() has returned.
BsdFairStep == BsdOptions \/ BsdSetup \/ BsdMark \/ BsdOnAlrm \/ (bsdAlarm = "onint" /\ BsdOnInt)

BsdSpec == BsdInit /\ [][BsdNext]_bsdVars /\ WF_bsdVars(BsdFairStep)

(***************************************************************************)
(* With late and repeated replies, and sequence numbers that share slots,  *)
(* no more replies are counted than requests were sent once pr_pack has    *)
(* finished, and one more at most while a signal interrupts it: that is    *)
(* all that a summary can be wrong by.                                     *)
(***************************************************************************)
BsdCountsBounded ==
    /\ bsdReceived <= bsdTransmitted + (IF bsdPc = "loop" THEN 0 ELSE 1)
    /\ bsdPrinted[2] <= bsdPrinted[1] + 1
    /\ bsdReceived + bsdRepeats = bsdReads

(***************************************************************************)
(* With -c and without -f the program ends, even when no reply ever comes. *)
(***************************************************************************)
BsdEnds == (bsdPc = "setup" /\ bsdNpackets # 0 /\ ~bsdFlood) ~> (bsdPc = "end")

-----------------------------------------------------------------------------
(* in_cksum() of bsdping.c, and the same function in lib/ and libfree/.    *)

\* The carries added back twice, and the complement.
BsdFold(sum) ==
    LET once == (sum \div 2^16) + (sum % 2^16)
        twice == once + (once \div 2^16)
    IN  (2^16 - 1) - (twice % 2^16)

BsdCksum(words) ==
    LET sum[i \in 0 .. Len(words)] == IF i = 0 THEN 0 ELSE sum[i - 1] + words[i]
    IN  BsdFold(sum[Len(words)])

(***************************************************************************)
(* The receiver's test: the checksum of a packet that carries its checksum *)
(* is zero, whatever carries the sum of its words produces.                *)
(***************************************************************************)
BsdCksumVerifies ==
    bsdPc = "setup" => \A a, b, c, d \in BsdWords :
        BsdCksum(<<a, b, c, d, BsdCksum(<<a, b, c, d>>)>>) = 0
=============================================================================
