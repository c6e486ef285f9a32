------------------------------ MODULE Traceroute ------------------------------
(***************************************************************************)
(* unpv13e/traceroute: traceloop sends nprobes datagrams for each TTL and  *)
(* waits for the ICMP message about each with recv_v4 or recv_v6, at most  *)
(* three seconds long.                                                     *)
(*                                                                         *)
(* The program is at "send", "check" (the top of recv's loop), "call"      *)
(* (about to call recvfrom), "wait" (in it) or "end". An ICMP message is   *)
(* [is, seq]: seq is that of the probe it quotes, 0 when it quotes another *)
(* program's datagram.                                                     *)
(***************************************************************************)
EXTENDS Integers, Sequences

CONSTANTS TrcMaxTtl, TrcProbes,
          TrcDistance,      \* hops to the destination
          TrcMaxForeign     \* messages about other programs' datagrams

ASSUME TrcAssumption ==
    TrcMaxTtl \in Nat \ {0, 1} /\ TrcProbes \in Nat \ {0} /\ TrcDistance \in Nat \ {0}
    /\ TrcMaxForeign \in Nat

VARIABLES
    trcFamily,      \* 0 (not started), 4 or 6
    trcPc, trcTtl, trcProbe, trcSeq, trcDone,
    trcAlarm, trcGot,       \* the alarm is set; gotalarm
    trcRaw,         \* messages to read from the raw socket
    trcOpen,        \* probes on their way, [seq, ttl]
    trcForeign,
    trcCode, trcFrom        \* recv's last return value and the message it came from

trcVars == <<trcFamily, trcPc, trcTtl, trcProbe, trcSeq, trcDone, trcAlarm, trcGot, trcRaw,
             trcOpen, trcForeign, trcCode, trcFrom>>

TrcNone == [is |-> "none", seq |-> 0]

TrcInit ==
    /\ trcFamily = 0 /\ trcPc = "send" /\ trcTtl = 1 /\ trcProbe = 0 /\ trcSeq = 0 /\ trcDone = 0
    /\ trcAlarm = FALSE /\ trcGot = FALSE /\ trcRaw = <<>> /\ trcOpen = {} /\ trcForeign = 0
    /\ trcCode = -3 /\ trcFrom = TrcNone

TrcStart ==
    /\ trcFamily = 0 /\ trcFamily' \in {4, 6}
    /\ UNCHANGED <<trcPc, trcTtl, trcProbe, trcSeq, trcDone, trcAlarm, trcGot, trcRaw, trcOpen,
                   trcForeign, trcCode, trcFrom>>

\* A probe is sent; recv clears gotalarm and sets the alarm.
TrcSend ==
    /\ trcFamily # 0 /\ trcPc = "send"
    /\ trcSeq' = trcSeq + 1
    /\ trcOpen' = trcOpen \cup {[seq |-> trcSeq + 1, ttl |-> trcTtl]}
    /\ trcGot' = FALSE /\ trcAlarm' = TRUE /\ trcPc' = "check"
    /\ UNCHANGED <<trcFamily, trcTtl, trcProbe, trcDone, trcRaw, trcForeign, trcCode, trcFrom>>

\* recv returns code: done counts the port unreachables; the loop goes on with
\* the next probe and, after the last one for this TTL, with the next TTL.
TrcReturn(code, from) ==
    /\ trcCode' = code /\ trcFrom' = from /\ trcAlarm' = FALSE
    /\ trcDone' = trcDone + (IF code = -1 THEN 1 ELSE 0)
    /\ IF trcProbe + 1 < TrcProbes
       THEN trcProbe' = trcProbe + 1 /\ trcPc' = "send" /\ UNCHANGED trcTtl
       ELSE /\ trcProbe' = 0 /\ trcTtl' = trcTtl + 1
            /\ trcPc' = (IF trcTtl + 1 <= TrcMaxTtl /\ trcDone' = 0 THEN "send" ELSE "end")

TrcCheck ==
    /\ trcPc = "check"
    /\ IF trcGot THEN TrcReturn(-3, TrcNone)
       ELSE /\ trcPc' = "call"
            /\ UNCHANGED <<trcTtl, trcProbe, trcDone, trcAlarm, trcCode, trcFrom>>
    /\ UNCHANGED <<trcFamily, trcSeq, trcGot, trcRaw, trcOpen, trcForeign>>

TrcCall ==
    /\ trcPc = "call" /\ trcPc' = "wait"
    /\ UNCHANGED <<trcFamily, trcTtl, trcProbe, trcSeq, trcDone, trcAlarm, trcGot, trcRaw, trcOpen,
                   trcForeign, trcCode, trcFrom>>

\* sig_alrm: gotalarm is set.
sig_alrm == TRUE

\* The alarm goes off; only a recvfrom that waits is interrupted.
TrcAlarmFires ==
    /\ trcAlarm /\ trcAlarm' = FALSE /\ trcGot' = sig_alrm
    /\ trcPc' = (IF trcPc = "wait" THEN "check" ELSE trcPc)
    /\ UNCHANGED <<trcFamily, trcTtl, trcProbe, trcSeq, trcDone, trcRaw, trcOpen, trcForeign,
                   trcCode, trcFrom>>

\* Mutant: the destination port is not compared.
TrcQuotedAny(m) == m.seq # 0

\* The quoted datagram has our source port and this probe's destination port.
TrcQuoted(m) == m.seq = trcSeq

TrcCodeOf(m) == CASE m.is = "timxceed" -> -2 [] m.is = "noport" -> -1 [] OTHER -> 1

\* The message does not fit: recvfrom is called again.
TrcIgnore ==
    trcPc' = "check" /\ UNCHANGED <<trcTtl, trcProbe, trcDone, trcAlarm, trcCode, trcFrom>>

recv_v4(m) ==
    IF m.is # "short" /\ TrcQuoted(m) THEN TrcReturn(TrcCodeOf(m), m) ELSE TrcIgnore

\* A time exceeded message ends the loop whether it fits or not (the break is
\* not under the if); ret then is whatever it was, as it has no initial value.
recv_v6(m) ==
    CASE m.is = "short" -> TrcIgnore
      [] m.is = "timxceed" ->
            \E ret \in IF TrcQuoted(m) THEN {-2} ELSE {-2, -1, 0} : TrcReturn(ret, m)
      [] OTHER -> IF TrcQuoted(m) THEN TrcReturn(TrcCodeOf(m), m) ELSE TrcIgnore

\* recvfrom returns the next message.
TrcRecv ==
    /\ trcPc = "wait" /\ trcRaw # <<>>
    /\ trcRaw' = Tail(trcRaw)
    /\ IF trcFamily = 4 THEN recv_v4(Head(trcRaw)) ELSE recv_v6(Head(trcRaw))
    /\ UNCHANGED <<trcFamily, trcSeq, trcGot, trcOpen, trcForeign>>

\* The network answers a probe, late or never: a router on the way, or the
\* destination; or it says the host cannot be reached.
TrcAnswer ==
    /\ \E p \in trcOpen :
        /\ trcOpen' = trcOpen \ {p}
        /\ \E is \in {IF p.ttl < TrcDistance THEN "timxceed" ELSE "noport", "host"} :
             trcRaw' = Append(trcRaw, [is |-> is, seq |-> p.seq])
    /\ UNCHANGED <<trcFamily, trcPc, trcTtl, trcProbe, trcSeq, trcDone, trcAlarm, trcGot,
                   trcForeign, trcCode, trcFrom>>

\* A message about someone else's datagram, or one too short to tell.
TrcForeignArrives ==
    /\ trcFamily # 0 /\ trcForeign < TrcMaxForeign /\ trcForeign' = trcForeign + 1
    /\ \E is \in {"timxceed", "noport", "short"} : trcRaw' = Append(trcRaw, [is |-> is, seq |-> 0])
    /\ UNCHANGED <<trcFamily, trcPc, trcTtl, trcProbe, trcSeq, trcDone, trcAlarm, trcGot, trcOpen,
                   trcCode, trcFrom>>

TrcFairStep == TrcSend \/ TrcCheck \/ TrcCall \/ TrcAlarmFires \/ TrcRecv

TrcNext == TrcStart \/ TrcFairStep \/ TrcAnswer \/ TrcForeignArrives

TrcSpec == TrcInit /\ [][TrcNext]_trcVars /\ WF_trcVars(TrcFairStep)

-----------------------------------------------------------------------------
(* Correctness.                                                            *)

\* "-2 on ICMP time exceeded in transit (caller keeps going), -1 on ICMP port
\* unreachable (caller is done)": what recv_v4 and recv_v6 return comes from a
\* message about the probe just sent, never from a late one about an earlier
\* probe or from one about another datagram. The exception is recv_v6 when a
\* time exceeded message does not fit: ret has no value then, and it may be the
\* one that ends the trace.
TrcTrueCode ==
    (trcPc \in {"send", "end"} /\ trcFrom # TrcNone) =>
        \/ trcFrom.seq = trcSeq /\ trcCode = TrcCodeOf(trcFrom)
        \/ trcFamily = 6 /\ trcFrom.is = "timxceed" /\ trcFrom.seq # trcSeq

\* No probe is waited for without end: the wait is over, or the alarm went off
\* between the look at gotalarm and the recvfrom and is noticed only when some
\* message comes.
TrcWaitEnds == (trcPc = "wait") ~> (trcPc # "wait" \/ trcGot)
=============================================================================
