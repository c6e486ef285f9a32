------------------------------ MODULE UdpFlag ------------------------------
(***************************************************************************)
(* The UDP client of np-lab1 (1.py).  It repeats "hello" until an answer   *)
(* starts with OK, repeats "chals" until anything is received, reads what  *)
(* comes until half a second passes in silence, works out the flag from    *)
(* the numbered packets tcpdump has recorded, and repeats "verfy" until    *)
(* anything is received.  Datagrams may be lost, delayed and reordered.    *)
(*                                                                         *)
(* The service (external) answers each request that reaches it; for        *)
(* "chals" it answers and sends FlagLen characters, one per packet,        *)
(* between a packet BEGIN FLAG and a packet END FLAG.                      *)
(***************************************************************************)
EXTENDS Integers

CONSTANTS
    FlagLen,        \* characters of the flag
    FlagMaxTries    \* bound: times each request is sent

ASSUME FlagAssumption == FlagLen \in Nat /\ FlagMaxTries \in Nat

FlagNumbers == 1 .. (FlagLen + 2)       \* sequence numbers: BEGIN, flag, END

VARIABLES
    flagPc,         \* "hello", "chals", "drain", "verfy", "done"
    flagTries,      \* times each request was sent
    flagRequests,   \* requests on their way
    flagReplies,    \* the kind of request each datagram on its way back answers,
                    \* with how many there are
    flagHandled,    \* requests the service has answered
    flagCaptured,   \* sequence numbers tcpdump has recorded
    flagAnswer,     \* what ended each loop: the kind of request answered
    flagLate        \* the silence that ended the reading came before the last
                    \* datagram of the requests made so far

flagVars == <<flagPc, flagTries, flagRequests, flagReplies, flagHandled,
              flagCaptured, flagAnswer, flagLate>>

FlagKinds == {"hello", "chals", "verfy"}

FlagInit ==
    /\ flagPc = "hello"
    /\ flagTries = [k \in FlagKinds |-> 0]
    /\ flagRequests = [k \in FlagKinds |-> 0]
    /\ flagReplies = [k \in FlagKinds |-> 0]
    /\ flagHandled = {}
    /\ flagCaptured = {}
    /\ flagAnswer = [k \in FlagKinds |-> "none"]
    /\ flagLate = FALSE
-----------------------------------------------------------------------------
\* s.send, at the start and after each timeout.
FlagSend(k) ==
    /\ flagPc = k
    /\ flagTries[k] < FlagMaxTries
    /\ flagTries' = [flagTries EXCEPT ![k] = @ + 1]
    /\ flagRequests' = [flagRequests EXCEPT ![k] = @ + 1]
    /\ UNCHANGED <<flagPc, flagReplies, flagHandled, flagCaptured, flagAnswer, flagLate>>

\* The service answers a request; after "chals" the flag's packets follow, of
\* which some are recorded. On the socket they count as one datagram more.
FlagServe(k) ==
    /\ flagRequests[k] > 0
    /\ flagRequests' = [flagRequests EXCEPT ![k] = @ - 1]
    /\ flagReplies' = [flagReplies EXCEPT ![k] = @ + (IF k = "chals" THEN 2 ELSE 1)]
    /\ flagHandled' = flagHandled \cup {k}
    /\ IF k = "chals" THEN \E S \in SUBSET FlagNumbers : flagCaptured' = flagCaptured \cup S
                      ELSE UNCHANGED flagCaptured
    /\ UNCHANGED <<flagPc, flagTries, flagAnswer, flagLate>>

FlagLose(k) ==
    /\ \/ /\ flagRequests[k] > 0
          /\ flagRequests' = [flagRequests EXCEPT ![k] = @ - 1]
          /\ UNCHANGED flagReplies
       \/ /\ flagReplies[k] > 0
          /\ flagReplies' = [flagReplies EXCEPT ![k] = @ - 1]
          /\ UNCHANGED flagRequests
    /\ UNCHANGED <<flagPc, flagTries, flagHandled, flagCaptured, flagAnswer, flagLate>>

\* Mutant: nothing reads the socket empty before "verfy".
FlagAfterNoDrain(k) == IF k = "hello" THEN "chals" ELSE IF k = "chals" THEN "verfy" ELSE "done"

FlagAfter(k) == IF k = "hello" THEN "chals" ELSE IF k = "chals" THEN "drain" ELSE "done"

\* The first loop wants OK at the start, which the answers to "hello" have;
\* the others take anything.
FlagAccepts(k, a) == k = "hello" => a = "hello"

\* recv in one of the three loops: any datagram there is.
FlagRecv(k, a) ==
    /\ flagPc = k
    /\ flagTries[k] > 0
    /\ flagReplies[a] > 0
    /\ flagReplies' = [flagReplies EXCEPT ![a] = @ - 1]
    /\ IF FlagAccepts(k, a)
       THEN flagPc' = FlagAfter(k) /\ flagAnswer' = [flagAnswer EXCEPT ![k] = a]
       ELSE UNCHANGED <<flagPc, flagAnswer>>
    /\ UNCHANGED <<flagTries, flagRequests, flagHandled, flagCaptured, flagLate>>

\* Reading the socket until it times out; a datagram may still be late.
FlagDrain ==
    /\ flagPc = "drain"
    /\ \/ /\ \E a \in FlagKinds :
                /\ flagReplies[a] > 0
                /\ flagReplies' = [flagReplies EXCEPT ![a] = @ - 1]
          /\ UNCHANGED <<flagPc, flagLate>>
       \/ /\ flagPc' = "verfy"
          /\ flagLate' = (\E a \in FlagKinds : flagReplies[a] + flagRequests[a] > 0)
          /\ UNCHANGED flagReplies
    /\ UNCHANGED <<flagTries, flagRequests, flagHandled, flagCaptured, flagAnswer>>

FlagNext ==
    \/ \E k \in FlagKinds : FlagSend(k) \/ FlagServe(k) \/ FlagLose(k)
    \/ \E k, a \in FlagKinds : FlagRecv(k, a)
    \/ FlagDrain

FlagSpec == FlagInit /\ [][FlagNext]_flagVars
-----------------------------------------------------------------------------
(* parse_packet: from the recorded numbers to the places of the flag.      *)

\* Places filled from the packets S, BEGIN and END among them: a packet is
\* stored only if its predecessor is there.
FlagFilled(S) == {n - 2 : n \in {m \in S \cap 2 .. (FlagLen + 1) : m - 1 \in S}}

\* Places reported as missing: the loop over the recorded numbers in order
\* goes from the last one before each gap up to the one after it, leaving that
\* one out; the gap before END is not looked at.
FlagMissing(S) ==
    LET gaps == {g \in S \X (S \cap 2 .. (FlagLen + 1)) :
                    g[1] + 1 < g[2] /\ \A z \in S : z <= g[1] \/ z >= g[2]}
    IN  UNION {{p - 1 : p \in g[1] .. (g[2] - 1)} : g \in gaps}
-----------------------------------------------------------------------------
\* The loop for "chals" ends without the service having seen "chals" only when
\* "hello" was sent more than once, so that a second OK was still on its way;
\* and what is printed as the verdict is no left-over of the earlier phases
\* unless one of their datagrams was later than the silence that ends the
\* reading of the socket.
FlagPhases ==
    /\ flagPc \in {"drain", "verfy", "done"} /\ flagTries["hello"] = 1 =>
          "chals" \in flagHandled
    /\ flagPc = "done" /\ ~flagLate => flagAnswer["verfy"] = "verfy"

\* No place of the flag before the last recorded packet is both filled and
\* reported as missing, and none is neither.
FlagPlaces ==
    {1, FlagLen + 2} \subseteq flagCaptured =>
        LET last == CHOOSE n \in flagCaptured \ {FlagLen + 2} :
                        \A m \in flagCaptured \ {FlagLen + 2} : m <= n
        IN  /\ FlagFilled(flagCaptured) \cap FlagMissing(flagCaptured) = {}
            /\ FlagFilled(flagCaptured) \cup FlagMissing(flagCaptured) = 0 .. (last - 2)

\* 1.py as a whole: its phases are not confused by left-overs but in the
\* cases named, and the flag has each place once.
FlagSafe ==
    /\ FlagPhases
    /\ FlagPlaces
=============================================================================
