------------------------------ MODULE TimedWait ------------------------------
(***************************************************************************)
(* The dg_cli functions of unpv13e that wait a limited time for answers:   *)
(* bcast/dgclibcast1..6.c and their copies in mcast/ collect the answers   *)
(* to a broadcast until an alarm goes off; advio/dgclitimeo*.c wait for    *)
(* one answer. They differ in how the time limit reaches the blocking call *)
(* and so in whether an alarm can go off where nothing notices it.         *)
(*                                                                         *)
(* A program is at "fgets", "arm" (the line is sent), "call" (before the   *)
(* blocking call), "wait" (in it), "read" (the call returned an answer),   *)
(* "both" (dgclibcast6's select returned the socket and the pipe), "pipe"  *)
(* (it reads its pipe) or "crash".                                         *)
(***************************************************************************)
EXTENDS Integers

CONSTANTS TwMaxLines, TwMaxReplies

ASSUME TwAssumption == TwMaxLines \in Nat /\ TwMaxReplies \in Nat

\* limit: what ends the wait: "alarm", or the blocking call's own "timeout";
\* handler: what the SIGALRM handler does; mask: when SIGALRM is blocked;
\* many: answers are read until the time is over.
TwProgram(name, limit, handler, mask, many) ==
    [name |-> name, limit |-> limit, handler |-> handler, mask |-> mask, many |-> many]

dgclibcast1 == TwProgram("bcast1", "alarm", "return", "never", TRUE)
dgclibcast2 == TwProgram("bcast2", "alarm", "return", "never", TRUE)
dgclibcast3 == TwProgram("bcast3", "alarm", "return", "outside", TRUE)
\* Mutant: SIGALRM is not blocked before the loop.
dgclibcast4Unblocked == TwProgram("bcast4", "alarm", "return", "never", TRUE)
dgclibcast4 == TwProgram("bcast4", "alarm", "return", "pselect", TRUE)
dgclibcast5 == TwProgram("bcast5", "alarm", "jump", "never", TRUE)
dgclibcast6 == TwProgram("bcast6", "alarm", "pipe", "never", TRUE)
dgclimcast1 == TwProgram("mcast1", "alarm", "return", "never", TRUE)
dgclimcast5 == TwProgram("mcast5", "alarm", "jump", "never", TRUE)
dgclimcast6 == TwProgram("mcast6", "alarm", "jump", "never", TRUE)
dgclitimeo == TwProgram("timeo", "timeout", "none", "never", FALSE)
dgclitimeo1 == TwProgram("timeo1", "timeout", "none", "never", FALSE)
dgclitimeo2 == TwProgram("timeo2", "timeout", "none", "never", FALSE)
dgclitimeo3 == TwProgram("timeo3", "alarm", "return", "never", FALSE)

TwOff == TwProgram("off", "none", "none", "never", FALSE)

TwPrograms ==
    {dgclibcast1, dgclibcast2, dgclibcast3, dgclibcast4, dgclibcast5, dgclibcast6,
     dgclimcast1, dgclimcast5, dgclimcast6, dgclitimeo, dgclitimeo1, dgclitimeo2, dgclitimeo3}

VARIABLES
    twProg, twPc, twLine,
    twAlarm,    \* "off", "armed", "pending" (gone off while SIGALRM is blocked)
    twMask,     \* SIGALRM is blocked
    twPipe,     \* bytes in pipefd
    twJmp,      \* jmpbuf has been set
    twReplies, twSent,      \* answers to read, answers so far
    twLost      \* this line's alarm went off and nothing noticed it

twVars == <<twProg, twPc, twLine, twAlarm, twMask, twPipe, twJmp, twReplies, twSent, twLost>>

TwInit ==
    /\ twProg = TwOff /\ twPc = "fgets" /\ twLine = 0 /\ twAlarm = "off" /\ twMask = FALSE
    /\ twPipe = 0 /\ twJmp = FALSE /\ twReplies = 0 /\ twSent = 0 /\ twLost = FALSE

TwStart ==
    /\ twProg = TwOff /\ twProg' \in TwPrograms
    /\ UNCHANGED <<twPc, twLine, twAlarm, twMask, twPipe, twJmp, twReplies, twSent, twLost>>

\* Fgets and Sendto.
TwSendLine ==
    /\ twProg # TwOff /\ twPc = "fgets" /\ twLine < TwMaxLines
    /\ twPc' = "arm" /\ twLine' = twLine + 1 /\ twLost' = FALSE
    /\ UNCHANGED <<twProg, twAlarm, twMask, twPipe, twJmp, twReplies, twSent>>

\* alarm(5)
TwArmed == IF twProg.limit = "alarm" THEN "armed" ELSE twAlarm

\* The alarm is set; dgclibcast4 blocks SIGALRM just before.
TwArm ==
    /\ twPc = "arm" /\ twPc' = "call" /\ twAlarm' = TwArmed
    /\ twMask' = (twMask \/ twProg.mask = "pselect")
    /\ UNCHANGED <<twProg, twLine, twPipe, twJmp, twReplies, twSent, twLost>>

\* dgclibcast3 unblocks SIGALRM before its recvfrom, and a pending alarm is
\* handled there and then.
TwUnblock ==
    /\ twPc = "call" /\ twMask /\ twProg.mask = "outside"
    /\ twMask' = FALSE
    /\ IF twAlarm = "pending" THEN twAlarm' = "off" /\ twLost' = TRUE
       ELSE UNCHANGED <<twAlarm, twLost>>
    /\ UNCHANGED <<twProg, twPc, twLine, twPipe, twJmp, twReplies, twSent>>

\* recvfrom, select or pselect is entered; sigsetjmp comes before it.
TwEnter ==
    /\ twPc = "call" /\ ~(twMask /\ twProg.mask = "outside")
    /\ twPc' = "wait" /\ twJmp' = (twJmp \/ twProg.handler = "jump")
    /\ UNCHANGED <<twProg, twLine, twAlarm, twMask, twPipe, twReplies, twSent, twLost>>

\* dgclibcast3 blocks SIGALRM again as soon as recvfrom has returned.
TwMasked == twMask \/ twProg.mask = "outside"

\* The blocking call returns with an answer.
TwReply ==
    /\ twPc = "wait" /\ twReplies > 0
    /\ twPc' = (IF twPipe > 0 THEN "both" ELSE "read")
    /\ twReplies' = twReplies - 1 /\ twMask' = TwMasked
    /\ UNCHANGED <<twProg, twLine, twAlarm, twPipe, twJmp, twSent, twLost>>

\* The answer is printed: the loop goes on, looks at the pipe, or (one answer
\* only) turns the alarm off and takes the next line.
TwPrint ==
    /\ twPc \in {"read", "both"}
    /\ IF twProg.many THEN twPc' = (IF twPc = "both" THEN "pipe" ELSE "call") /\ UNCHANGED twAlarm
       ELSE twPc' = "fgets" /\ twAlarm' = "off"
    /\ UNCHANGED <<twProg, twLine, twMask, twPipe, twJmp, twReplies, twSent, twLost>>

\* Read(pipefd[0], &n, 1)
TwPipeRead == twPipe - 1

\* dgclibcast6: select returned with the pipe readable: the wait is over.
TwReadPipe ==
    /\ \/ twPc = "pipe"
       \/ twPc = "wait" /\ twPipe > 0 /\ twReplies = 0
    /\ twPipe' = TwPipeRead /\ twPc' = "fgets"
    /\ UNCHANGED <<twProg, twLine, twAlarm, twMask, twJmp, twReplies, twSent, twLost>>

\* SIGALRM is not blocked; pselect unblocks it while it waits.
TwOpen == ~twMask \/ (twProg.mask = "pselect" /\ twPc = "wait")

\* recvfrom_alarm, sig_alrm: what the handler does where the program is.
recvfrom_alarm ==
    CASE twProg.handler = "pipe" ->
            /\ twPipe' = twPipe + 1 /\ twPc' = (IF twPc = "wait" THEN "call" ELSE twPc)
            /\ UNCHANGED <<twLost, twMask>>
      [] twProg.handler = "jump" ->
            /\ twPc' = (IF twJmp THEN "fgets" ELSE "crash")
            /\ UNCHANGED <<twPipe, twLost, twMask>>
      [] OTHER ->
            /\ IF twPc = "wait" THEN twPc' = "fgets" /\ twMask' = TwMasked /\ UNCHANGED twLost
               ELSE twLost' = TRUE /\ UNCHANGED <<twPc, twMask>>
            /\ UNCHANGED twPipe

\* The alarm goes off, or one that is pending is let through.
TwAlarmFires ==
    /\ twAlarm # "off"
    /\ IF TwOpen THEN twAlarm' = "off" /\ recvfrom_alarm
       ELSE /\ twAlarm = "armed" /\ twAlarm' = "pending"
            /\ UNCHANGED <<twPc, twMask, twPipe, twLost>>
    /\ UNCHANGED <<twProg, twLine, twJmp, twReplies, twSent>>

\* readable_timeo's select, or SO_RCVTIMEO, times out.
readable_timeo ==
    /\ twPc = "wait" /\ twProg.limit = "timeout" /\ twReplies = 0
    /\ twPc' = "fgets"
    /\ UNCHANGED <<twProg, twLine, twAlarm, twMask, twPipe, twJmp, twReplies, twSent, twLost>>

\* The network: answers come when they come, also between two lines.
TwArrives ==
    /\ twLine > 0 /\ twSent < TwMaxReplies
    /\ twSent' = twSent + 1 /\ twReplies' = twReplies + 1
    /\ UNCHANGED <<twProg, twPc, twLine, twAlarm, twMask, twPipe, twJmp, twLost>>

\* What the program and the clock do without the network or the user.
TwFairStep ==
    TwArm \/ TwUnblock \/ TwEnter \/ TwReply \/ TwPrint \/ TwReadPipe \/ TwAlarmFires
    \/ readable_timeo

TwNext == TwStart \/ TwSendLine \/ TwFairStep \/ TwArrives

TwSpec == TwInit /\ [][TwNext]_twVars /\ WF_twVars(TwFairStep)

-----------------------------------------------------------------------------
(* Correctness.                                                            *)

\* The versions that bcast/Makefile calls correct, and those with a time limit
\* in the call itself, never lose an alarm; dgclibcast1..3 and dgclitimeo3 can.
\* siglongjmp finds no jmpbuf only before the first blocking call of all.
TwNoneLost ==
    /\ twLost => twProg.name \in {"bcast1", "bcast2", "bcast3", "mcast1", "timeo3"}
    /\ (twPc = "crash") => (twProg.handler = "jump" /\ twLine = 1)

\* A line's alarm never reaches into the next line: when the next line is read
\* no alarm is set or pending and the pipe is empty.
TwNoneLeft == (twPc = "fgets") => (twAlarm = "off" /\ twPipe = 0)

\* The wait for the answers to a line comes to an end, or its alarm was lost, or
\* the alarm jumped nowhere.
TwEnds ==
    \A l \in 1 .. TwMaxLines :
        (twLine = l /\ twPc = "wait") ~> (twPc \in {"fgets", "crash"} \/ twLost)

\* An alarm works for its own line only: it is not lost before the blocking
\* call and not left for the next line.
TwAlarmKept ==
    /\ TwNoneLost
    /\ TwNoneLeft
=============================================================================
