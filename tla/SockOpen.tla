------------------------------ MODULE SockOpen ------------------------------
(***************************************************************************)
(* The sock program of unpv13e/sock up to the open socket: the options of  *)
(* main.c, the order in which cliopen.c and servopen.c make a socket and   *)
(* set the options on it (sockopts() runs twice, with doall 0 and 1), and  *)
(* the forking server, whose parent waits for each child to say that it    *)
(* has finished with the terminal (tellwait.c).                            *)
(*                                                                         *)
(* An option is its letter.  sckCalls is what was done to the sockets, in  *)
(* order: pairs of a call and the socket, "fd" or "newfd".                 *)
(***************************************************************************)
EXTENDS Integers, Sequences, SequencesExt

CONSTANTS
    SckCommands,    \* sets of options that a command line may have
    SckMaxAccept    \* bound: connections of a forking server

VARIABLES
    sckPc,          \* "main", "open", "listen", "accept", "test", "sleep",
                    \* "ready" (cliopen or servopen returned), "usage", "exit"
    sckOpts,        \* the options given
    sckCalls,       \* what was done to the sockets
    sckForked,      \* children so far
    sckTelling,     \* the last child has not sent its signal yet
    sckFlag,        \* sigflag
    sckBlocked,     \* SIGUSR2 is blocked
    sckPending      \* SIGUSR2 is pending

sckVars == <<sckPc, sckOpts, sckCalls, sckForked, sckTelling, sckFlag, sckBlocked, sckPending>>
sckSignals == <<sckForked, sckTelling, sckFlag, sckBlocked, sckPending>>

SckInit ==
    /\ sckPc = "main" /\ sckOpts = {} /\ sckCalls = <<>> /\ sckForked = 0
    /\ sckTelling = FALSE /\ sckFlag = FALSE /\ sckBlocked = FALSE /\ sckPending = FALSE

SckGiven(o) == o \in sckOpts
SckUdp == SckGiven("u")

\* The combinations that main() refuses.
SckConflict(opts) ==
    \/ "u" \in opts /\ opts \cap {"h", "D", "L", "N"} # {}
    \/ "u" \notin opts /\ "f" \in opts

\* getopt() and the checks after it; usage() ends the program.
SckMain ==
    /\ sckPc = "main"
    /\ \E opts \in SckCommands :
          sckOpts' = opts /\ sckPc' = IF SckConflict(opts) THEN "usage" ELSE "open"
    /\ UNCHANGED <<sckCalls, sckSignals>>

\* sroute_set() sets the whole source route and then forgets it: sroute_cnt.
SckRouteLeft == \A c \in Range(sckCalls) : c[1] # "g"

\* The options of sockopts(), first the ones it sets before the multicast
\* TTL, each under its condition; route says whether a source route is left.
SckEarlySet(o, doall, route) ==
    CASE o \in {"H", "J"} -> ~doall
      [] o = "X" -> ~SckUdp
      [] o = "g" -> route
      [] o = "2" -> SckGiven("B")
      [] OTHER -> TRUE

\* Mutant: the options of a connection are set whatever doall is.
SckLateSetAlways(o, doall) ==
    CASE o \in {"K", "N", "L"} -> ~SckUdp
      [] o = "E" -> SckUdp
      [] OTHER -> TRUE

SckLateSet(o, doall) ==
    CASE o \in {"K", "N", "L"} -> doall /\ ~SckUdp
      [] o \in {"x", "y"} -> doall
      [] o = "E" -> SckUdp
      [] OTHER -> TRUE

SckEarly == <<"D", "Y", "H", "J", "X", "g", "B", "2", "j">>
SckLate == <<"t", "K", "N", "L", "x", "y", "E", "I">>

SckOn(s, calls) == [i \in DOMAIN calls |-> <<calls[i], s>>]

\* The options of a list that are in S, in its order.
SckChosen(list, S) ==
    FlattenSeq([i \in DOMAIN list |-> IF list[i] \in S THEN <<list[i]>> ELSE <<>>])

sockopts(s, doall, route) ==
    SckOn(s, SckChosen(SckEarly, {o \in sckOpts : SckEarlySet(o, doall, route)})
          \o SckChosen(SckLate, {o \in sckOpts : SckLateSet(o, doall)}))

\* buffers(): -R and -S; their memory is allocated in any case.
buffers(s) == SckOn(s, <<"buffers">> \o SckChosen(<<"R", "S">>, sckOpts))

\* -A and -T, before bind().
SckReuse == SckOn("fd", SckChosen(<<"A", "T">>, sckOpts))

\* Option "m" stands for a server's host argument that IN_MULTICAST() takes
\* for a multicast address: its group is joined after bind().
join_mcast == SckOn("fd", SckChosen(<<"m">>, sckOpts))

\* A multicast group is joined once for each socket (external): the second
\* IP_ADD_MEMBERSHIP is an error, and err_sys() ends the program.
SckJoinsTwice(calls) ==
    \E i, j \in DOMAIN calls : i # j /\ calls[i] = calls[j] /\ calls[i][1] = "j"

SckDo(calls, pc) ==
    LET all == sckCalls \o calls
    IN  sckCalls' = all /\ sckPc' = IF SckJoinsTwice(all) THEN "exit" ELSE pc

\* cliopen(): bind() for -b, -l and UDP, connect() unless -o.
SckCliOpen ==
    /\ sckPc = "open" /\ ~SckGiven("s")
    /\ LET bind == SckGiven("b") \/ SckGiven("l") \/ SckUdp
           connect == ~SckUdp \/ ~SckGiven("o")
       IN  SckDo(SckReuse
                 \o (IF bind THEN SckOn("fd", <<"bind">>) ELSE <<>>)
                 \o buffers("fd") \o sockopts("fd", FALSE, SckRouteLeft)
                 \o (IF connect THEN SckOn("fd", <<"connect">>) ELSE <<>>)
                 \o sockopts("fd", TRUE, FALSE), "ready")
    /\ UNCHANGED <<sckOpts, sckSignals>>

\* servopen() for UDP: one call of sockopts(), with doall.
SckServOpenUdp ==
    /\ sckPc = "open" /\ SckGiven("s") /\ SckUdp
    /\ SckDo(SckReuse \o SckOn("fd", <<"bind">>) \o join_mcast \o buffers("fd")
             \o (IF SckGiven("f") THEN SckOn("fd", <<"connect">>) ELSE <<>>)
             \o sockopts("fd", TRUE, SckRouteLeft), "ready")
    /\ UNCHANGED <<sckOpts, sckSignals>>

\* servopen() for TCP up to listen().
SckServOpenTcp ==
    /\ sckPc = "open" /\ SckGiven("s") /\ ~SckUdp
    /\ SckDo(SckReuse \o SckOn("fd", <<"bind">>) \o join_mcast \o buffers("fd")
             \o sockopts("fd", FALSE, SckRouteLeft) \o SckOn("fd", <<"listen">>), "listen")
    /\ UNCHANGED <<sckOpts, sckSignals>>

TELL_WAIT == sckBlocked' = TRUE

SckListening ==
    /\ sckPc = "listen"
    /\ IF SckGiven("F") THEN TELL_WAIT ELSE UNCHANGED sckBlocked
    /\ sckPc' = "accept"
    /\ UNCHANGED <<sckOpts, sckCalls, sckForked, sckTelling, sckFlag, sckPending>>

\* accept() without -F: this process goes on with the connection.
SckAccept ==
    /\ sckPc = "accept" /\ ~SckGiven("F")
    /\ SckDo(buffers("newfd") \o sockopts("newfd", TRUE, SckRouteLeft), "ready")
    /\ UNCHANGED <<sckOpts, sckSignals>>

\* accept() and fork(): the parent closes newfd and waits for the child.
SckAcceptFork ==
    /\ sckPc = "accept" /\ SckGiven("F") /\ sckForked < SckMaxAccept
    /\ sckForked' = sckForked + 1 /\ sckTelling' = TRUE
    /\ sckPc' = "test"
    /\ UNCHANGED <<sckOpts, sckCalls, sckFlag, sckBlocked, sckPending>>

\* The child's TELL_PARENT(), after its sockopts().
SckTellParent ==
    /\ sckTelling
    /\ sckTelling' = FALSE
    /\ IF sckBlocked /\ sckPc # "sleep" THEN sckPending' = TRUE /\ UNCHANGED sckFlag
       ELSE sckFlag' = TRUE /\ UNCHANGED sckPending
    /\ sckPc' = IF sckPc = "sleep" THEN "test" ELSE sckPc   \* wakes sigsuspend()
    /\ UNCHANGED <<sckOpts, sckCalls, sckForked, sckBlocked>>

\* WAIT_CHILD(), the test of sigflag; the mask of before TELL_WAIT() comes
\* back when the child was heard.
SckWaitTest ==
    /\ sckPc = "test"
    /\ IF sckFlag
       THEN sckPc' = "accept" /\ sckFlag' = FALSE /\ sckBlocked' = FALSE
       ELSE sckPc' = "suspend" /\ UNCHANGED <<sckFlag, sckBlocked>>
    /\ UNCHANGED <<sckOpts, sckCalls, sckForked, sckTelling, sckPending>>

\* sigsuspend(): a pending signal is delivered at once, else it sleeps.
SckSuspend ==
    /\ sckPc = "suspend"
    /\ IF sckPending THEN sckPc' = "test" /\ sckFlag' = TRUE /\ sckPending' = FALSE
       ELSE sckPc' = "sleep" /\ UNCHANGED <<sckFlag, sckPending>>
    /\ UNCHANGED <<sckOpts, sckCalls, sckForked, sckTelling, sckBlocked>>

\* A system call fails while the socket is made: err_sys().
SckFail ==
    /\ sckPc \in {"open", "accept"}
    /\ sckPc' = "exit"
    /\ UNCHANGED <<sckOpts, sckCalls, sckSignals>>

SckFairStep ==
    SckListening \/ SckTellParent \/ SckWaitTest \/ SckSuspend

SckNext ==
    SckMain \/ SckCliOpen \/ SckServOpenUdp \/ SckServOpenTcp \/ SckAccept
    \/ SckAcceptFork \/ SckFail \/ SckFairStep

SckSpec == SckInit /\ [][SckNext]_sckVars

-----------------------------------------------------------------------------

\* What the options of this command line ask of the socket it will use.
SckAsked ==
    {o \in sckOpts \cap Range(SckEarly \o SckLate \o <<"A", "T", "R", "S">>) :
        /\ o \in {"X", "K", "N", "L"} => ~SckUdp
        /\ o = "E" => SckUdp
        /\ o = "2" => SckGiven("B")}

(***************************************************************************)
(* A socket that is ready has every option asked for, although sockopts()  *)
(* sets each in one of its two calls only: set on it, or on the listening  *)
(* socket whose connections inherit it.  -H and -J of a UDP server are the *)
(* exception: servopen() never makes the call that would set them.         *)
(***************************************************************************)
SckAllSet ==
    sckPc = "ready" =>
        \A o \in SckAsked :
            (o \in {"H", "J"} /\ SckUdp /\ SckGiven("s")) \/ \E c \in Range(sckCalls) : c[1] = o

(***************************************************************************)
(* The order that the kernel needs: what governs an address comes before   *)
(* bind(), buffer sizes, MSS, TOS and source route before the connection   *)
(* request can go out or come in, and keep-alive, no-delay and linger only *)
(* on a socket that is connected.                                          *)
(***************************************************************************)
SckOrder ==
    \A i, j \in DOMAIN sckCalls :
        LET a == sckCalls[i][1]
            b == sckCalls[j][1]
        IN  /\ a \in {"A", "T"} /\ b = "bind" => i < j
            /\ sckCalls[i][2] = "fd" /\ ~SckUdp /\ a \in {"R", "S", "X", "H", "g"}
               /\ b \in {"connect", "listen"} =>
                  \E k \in 1 .. j : sckCalls[k] = sckCalls[i]
            /\ a \in {"K", "N", "L"} /\ b \in {"listen", "connect"} =>
                  sckCalls[i][2] = "newfd" \/ j < i

(***************************************************************************)
(* The parent always goes on after its first child, whenever the child's   *)
(* signal comes.  For later children nothing holds: WAIT_CHILD() has given *)
(* back the old mask, and a signal between its test and sigsuspend() is    *)
(* lost.                                                                   *)
(***************************************************************************)
SckFirstHeard == (sckForked = 1 /\ sckPc = "test") ~> (sckPc = "accept")
=============================================================================
