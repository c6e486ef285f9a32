----------------------------- MODULE DgSendRecv -----------------------------
(***************************************************************************)
(* dg_send_recv() of unpv13e/rtt, with the timers of lib/rtt.c: a UDP      *)
(* request is sent again after a timeout that doubles, until a reply with  *)
(* its sequence number comes or the client gives up.  SIGALRM jumps back   *)
(* to sigsetjmp() from wherever the client is, so that it may also throw   *)
(* away the reply that has just been read.                                 *)
(*                                                                         *)
(* Times are whole milliseconds (the code uses floats).  The server and    *)
(* the network (external) echo, lose, delay and duplicate.                 *)
(***************************************************************************)
EXTENDS Integers, FiniteSets

CONSTANTS
    DgrMaxCalls,    \* bound: calls of dg_send_recv
    DgrMaxCopies,   \* bound: times a reply comes, for each request
    DgrMeasured     \* round-trip times that may be measured

ASSUME DgrAssumption ==
    DgrMaxCalls \in Nat /\ DgrMaxCopies \in Nat /\ DgrMeasured \subseteq Nat

RTT_RXTMIN == 2000
RTT_RXTMAX == 60000
RTT_MAXNREXMT == 3

VARIABLES
    dgrPc,          \* "idle", "send", "wait", "stop" (reply read), "ok", "fail"
    dgrInit,        \* rttinit
    dgrSeq,         \* sendhdr.seq
    dgrNrexmt, dgrSrtt, dgrVar, dgrRto, \* rttinfo
    dgrAlarm,       \* milliseconds the alarm was set to, 0 when off
    dgrNet,         \* requests the network still has, as copies to come
    dgrGot          \* recvhdr.seq

dgrVars == <<dgrPc, dgrInit, dgrSeq, dgrNrexmt, dgrSrtt, dgrVar, dgrRto, dgrAlarm, dgrNet, dgrGot>>

DgrInit ==
    /\ dgrPc = "idle" /\ dgrInit = FALSE /\ dgrSeq = 0 /\ dgrNrexmt = 0 /\ dgrSrtt = 0
    /\ dgrVar = 0 /\ dgrRto = 0 /\ dgrAlarm = 0 /\ dgrGot = 0
    /\ dgrNet = [s \in 1 .. DgrMaxCalls |-> 0]

rtt_minmax(rto) ==
    IF rto < RTT_RXTMIN THEN RTT_RXTMIN ELSE IF rto > RTT_RXTMAX THEN RTT_RXTMAX ELSE rto

\* The call: rtt_init the first time and after giving up, a new sequence
\* number, rtt_newpack.
DgrCall ==
    /\ dgrPc \in {"idle", "ok", "fail"} /\ dgrSeq < DgrMaxCalls
    /\ dgrSeq' = dgrSeq + 1 /\ dgrNrexmt' = 0 /\ dgrInit' = TRUE
    /\ IF dgrInit THEN UNCHANGED <<dgrSrtt, dgrVar, dgrRto>>
       ELSE dgrSrtt' = 0 /\ dgrVar' = 750 /\ dgrRto' = rtt_minmax(4 * 750)
    /\ dgrPc' = "send"
    /\ UNCHANGED <<dgrAlarm, dgrNet, dgrGot>>

\* rtt_start: seconds, rounded.
rtt_start(rto) == (rto + 500) \div 1000

\* Sendmsg, alarm, sigsetjmp.  The reply to this copy may come, some time.
DgrSend ==
    /\ dgrPc = "send"
    /\ \E n \in 0 .. 1 :
          dgrNet' = [dgrNet EXCEPT ![dgrSeq] = IF @ + n > DgrMaxCopies THEN @ ELSE @ + n]
    /\ dgrAlarm' = 1000 * rtt_start(dgrRto)
    /\ dgrPc' = "wait"
    /\ UNCHANGED <<dgrInit, dgrSeq, dgrNrexmt, dgrSrtt, dgrVar, dgrRto, dgrGot>>

\* Mutant: any reply will do.
DgrForMeAny(seq) == TRUE

DgrForMe(seq) == seq = dgrSeq

\* Recvmsg in the loop: late replies to earlier requests are dropped.
DgrRecv ==
    /\ dgrPc = "wait"
    /\ \E s \in 1 .. DgrMaxCalls :
          /\ dgrNet[s] > 0
          /\ dgrNet' = [dgrNet EXCEPT ![s] = @ - 1]
          /\ dgrGot' = s
          /\ dgrPc' = IF DgrForMe(s) THEN "stop" ELSE "wait"
    /\ UNCHANGED <<dgrInit, dgrSeq, dgrNrexmt, dgrSrtt, dgrVar, dgrRto, dgrAlarm>>

\* rtt_timeout returns -1.
DgrGiveUp(n) == n > RTT_MAXNREXMT

\* Mutant: back to the wait, with no new copy and no new alarm.
DgrAfterTimeoutWait(n) == IF DgrGiveUp(n) THEN "fail" ELSE "wait"

DgrAfterTimeout(n) == IF DgrGiveUp(n) THEN "fail" ELSE "send"

\* SIGALRM, while waiting or before alarm(0): siglongjmp and rtt_timeout.
\* The last time out is final; else the request goes out again.
DgrTimeout ==
    /\ dgrPc \in {"wait", "stop"} /\ dgrAlarm > 0
    /\ dgrAlarm' = 0
    /\ dgrRto' = dgrRto * 2 /\ dgrNrexmt' = dgrNrexmt + 1
    /\ dgrPc' = DgrAfterTimeout(dgrNrexmt + 1)
    /\ dgrInit' = (dgrInit /\ ~DgrGiveUp(dgrNrexmt + 1))
    /\ UNCHANGED <<dgrSeq, dgrSrtt, dgrVar, dgrNet, dgrGot>>

DgrAbs(i) == IF i < 0 THEN -i ELSE i

\* alarm(0), rtt_stop and the return.
DgrStop ==
    /\ dgrPc = "stop"
    /\ \E ms \in DgrMeasured :
          LET delta == ms - dgrSrtt
              srtt == dgrSrtt + delta \div 8
              var == dgrVar + (DgrAbs(delta) - dgrVar) \div 4
          IN  dgrSrtt' = srtt /\ dgrVar' = var /\ dgrRto' = rtt_minmax(srtt + 4 * var)
    /\ dgrAlarm' = 0 /\ dgrPc' = "ok"
    /\ UNCHANGED <<dgrInit, dgrSeq, dgrNrexmt, dgrNet, dgrGot>>

DgrNext == DgrCall \/ DgrSend \/ DgrRecv \/ DgrTimeout \/ DgrStop

DgrSpec == DgrInit /\ [][DgrNext]_dgrVars

\* The client runs and its timer fires.
DgrFairStep == DgrSend \/ DgrStop \/ DgrTimeout

(***************************************************************************)
(* A call that succeeds returns the reply to its own request, whatever     *)
(* late copies of earlier replies were in the socket.                      *)
(***************************************************************************)
DgrReplyMatches == dgrPc = "ok" => dgrGot = dgrSeq

(***************************************************************************)
(* Every copy that is sent arms the timer, with the limits of rtt_minmax   *)
(* doubled once for each copy of this request that went unanswered: never  *)
(* 0, which would switch the alarm off, and never with the doublings of an *)
(* earlier request.                                                        *)
(***************************************************************************)
DgrTimerArmed ==
    [][dgrPc = "send" /\ dgrPc' = "wait" =>
          /\ dgrAlarm' >= RTT_RXTMIN * 2^dgrNrexmt
          /\ dgrAlarm' <= RTT_RXTMAX * 2^dgrNrexmt]_dgrVars

(***************************************************************************)
(* Every call returns, also when the server never answers.                 *)
(***************************************************************************)
DgrReturns == (dgrPc = "send") ~> (dgrPc \in {"ok", "fail"})
=============================================================================
