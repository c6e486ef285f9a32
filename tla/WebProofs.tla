------------------------------ MODULE WebProofs ------------------------------
(***************************************************************************)
(* Proofs about the web clients of unpv13e, for any number of files and of *)
(* connections, and about the static web server of hw1, for any            *)
(* connections, requests and limit of processes.                           *)
(***************************************************************************)
EXTENDS WebClient, WebServer, FiniteSetTheorems, SequenceTheorems,
        WellFoundedInduction, TLAPS

Files == 1 .. WbcFiles

\* The files whose threads are at one of the steps.
AtSteps(thread, steps) == {f \in Files : thread[f] \in steps}

At(steps) == Cardinality(AtSteps(wbcThread, steps))

-----------------------------------------------------------------------------
(* Counting.                                                               *)

\* There are WbcFiles files, and a set of files is finite.
LEMMA FilesFinite ==
    /\ IsFiniteSet(Files) /\ Cardinality(Files) = WbcFiles
    /\ \A S : S \subseteq Files => IsFiniteSet(S) /\ Cardinality(S) \in Nat
    /\ \A S : S \subseteq Files /\ Cardinality(S) = WbcFiles => S = Files
  <1> DEFINE one == 1
             last == WbcFiles
  <1>1. one \in Int /\ last \in Int /\ ~(one > last) /\ last - one + 1 = WbcFiles
    BY WbcFilesAssumption
  <1> HIDE DEF one, last
  <1>2. IsFiniteSet(one .. last) /\ Cardinality(one .. last) = IF one > last THEN 0 ELSE last - one + 1
    BY <1>1, FS_Interval, Zenon
  <1>3. IsFiniteSet(Files) /\ Cardinality(Files) = WbcFiles
    BY <1>1, <1>2 DEF Files, one, last
  <1>4. ASSUME NEW S, S \subseteq Files
        PROVE  /\ IsFiniteSet(S) /\ Cardinality(S) \in Nat
               /\ Cardinality(S) = WbcFiles => S = Files
    <2>1. IsFiniteSet(S) /\ (Cardinality(Files) = Cardinality(S) => Files = S)
      BY <1>3, <1>4, FS_Subset
    <2> QED
      BY <1>3, <2>1, FS_CardinalityType
  <1> QED
    BY <1>3, <1>4

\* By how much a move changes a count.
Change(from, to, steps) ==
    IF from \in steps THEN IF to \in steps THEN 0 ELSE -1
    ELSE IF to \in steps THEN 1 ELSE 0

\* u are the threads t after that of file f has gone to step w.
Moved(t, u, f, w) == DOMAIN t = Files /\ u = [t EXCEPT ![f] = w]

\* A thread that goes from one step to another changes the count of a set of
\* steps by one, or not at all.
LEMMA CountMove ==
    ASSUME NEW t, NEW u, NEW f \in Files, NEW w, Moved(t, u, f, w), NEW steps
    PROVE  /\ Cardinality(AtSteps(t, steps)) \in Nat
           /\ Cardinality(AtSteps(u, steps)) =
                 Cardinality(AtSteps(t, steps)) + Change(t[f], w, steps)
  <1> DEFINE S == AtSteps(t, steps)
             T == AtSteps(u, steps)
  <1>1. S \subseteq Files /\ IsFiniteSet(S) /\ Cardinality(S) \in Nat
    <2>1. S \subseteq Files
      BY DEF AtSteps
    <2> HIDE DEF S
    <2> QED
      BY <2>1, FilesFinite
  <1>2. \A g \in Files : u[g] = IF g = f THEN w ELSE t[g]
    BY DEF Moved
  <1>3. T = IF w \in steps THEN S \cup {f} ELSE S \ {f}
    BY <1>2 DEF AtSteps
  <1>4. f \in S <=> t[f] \in steps
    BY DEF AtSteps
  <1> HIDE DEF S, T
  <1>5. CASE w \in steps
    <2>1. Cardinality(T) = IF f \in S THEN Cardinality(S) ELSE Cardinality(S) + 1
      BY <1>1, <1>3, <1>5, FS_AddElement
    <2> QED
      BY <1>1, <1>4, <1>5, <2>1 DEF S, T, Change
  <1>6. CASE w \notin steps
    <2>1. Cardinality(T) = IF f \in S THEN Cardinality(S) - 1 ELSE Cardinality(S)
      BY <1>1, <1>3, <1>6, FS_RemoveElement
    <2> QED
      BY <1>1, <1>4, <1>6, <2>1 DEF S, T, Change
  <1> QED
    BY <1>5, <1>6

\* The first file nobody has begun is one that nobody has begun.
LEMMA FirstOf ==
    ASSUME NEW free, free \subseteq Files, free # {}
    PROVE  (CHOOSE g \in free : \A h \in free : g <= h) \in free
  <1> DEFINE less == OpToRel(<, Nat)
  <1>1. IsWellFoundedOn(less, Nat)
    BY NatLessThanWellFounded
  <1>2. free \subseteq Nat
    BY DEF Files
  <1> HIDE DEF less
  <1>3. PICK x \in free : \A y \in free : ~(<<y, x>> \in less)
    BY <1>1, <1>2, WFMin
  <1> USE DEF less
  <1>4. \A y \in free : ~(y < x)
    BY <1>2, <1>3 DEF OpToRel
  <1>5. \A y \in free : x <= y
    BY <1>2, <1>4
  <1> QED
    BY <1>5

-----------------------------------------------------------------------------
(* The inductive invariant.                                                *)

Steps == {"none", "connect", "read", "report", "ended", "joined"}
Busy == {"connect", "read", "report", "ended"}
Threaded == {"web01", "web02", "web03"}

WbcTypes ==
    /\ wbcProg \in Threaded \cup {"off", "nonb"}
    /\ wbcMain \in {"fill", "mark", "wait", "scan", "exit", "error"}
    /\ wbcAt \in Nat \ {0}
    /\ wbcThread \in [Files -> Steps]
    /\ DOMAIN wbcFlags = Files

\* Main's loops belong to their programs, and a file without flags has no
\* thread: only web02, between pthread_create and the flag, has one for the
\* file it is at.  In nonblock/web.c the flags are the connection's state.
WbcPlaces ==
    /\ wbcProg = "off" => /\ wbcMain = "fill" /\ wbcNconn = 0 /\ wbcNdone = 0
                          /\ wbcToRead = WbcFiles
                          /\ \A f \in Files : wbcThread[f] = "none" /\ wbcFlags[f] = "0"
    /\ wbcMain = "scan" => wbcProg \in {"web02", "web03"}
    /\ wbcMain = "mark" => wbcProg = "web02" /\ wbcAt \in Files
    /\ wbcMain # "error" =>
          \A f \in Files : wbcFlags[f] = "0" => \/ wbcThread[f] = "none"
                                                \/ wbcMain = "mark" /\ wbcAt = f
    /\ wbcProg = "nonb" =>
          \A f \in Files : /\ wbcThread[f] \in {"none", "connect", "read", "ended"}
                           /\ wbcFlags[f] = "connecting" => wbcThread[f] = "connect"
                           /\ wbcFlags[f] = "reading" => wbcThread[f] = "read"

\* The counters, by what they count.
WbcCounters ==
    /\ wbcProg \in {"web02", "web03"} => wbcNdone = At({"ended"})
    /\ wbcProg \in Threaded =>
          /\ wbcNconn = At(Busy)
          /\ wbcNconn <= WbcMaxConn
          /\ wbcToRead = WbcFiles - At({"joined"})
    /\ wbcProg = "nonb" => wbcToRead = WbcFiles - At({"ended"})

WbcInv ==
    /\ WbcTypes
    /\ WbcPlaces
    /\ WbcCounters
    /\ wbcMain = "exit" => \A f \in Files : wbcThread[f] \in {"ended", "joined"}

\* A step of the thread of file f, and what it does to the three counts.
LEMMA Moves ==
    ASSUME WbcTypes, NEW f \in Files, NEW w \in Steps, wbcThread' = [wbcThread EXCEPT ![f] = w]
    PROVE  /\ wbcThread' \in [Files -> Steps]
           /\ \A g \in Files : wbcThread'[g] = IF g = f THEN w ELSE wbcThread[g]
           /\ At({"ended"}) \in Nat /\ At(Busy) \in Nat /\ At({"joined"}) \in Nat
           /\ At({"ended"})' = At({"ended"}) + Change(wbcThread[f], w, {"ended"})
           /\ At(Busy)' = At(Busy) + Change(wbcThread[f], w, Busy)
           /\ At({"joined"})' = At({"joined"}) + Change(wbcThread[f], w, {"joined"})
  <1>1. wbcThread \in [Files -> Steps] /\ DOMAIN wbcThread = Files
    BY DEF WbcTypes
  <1>2. /\ wbcThread' \in [Files -> Steps]
        /\ \A g \in Files : wbcThread'[g] = IF g = f THEN w ELSE wbcThread[g]
    BY <1>1
  <1>3. ASSUME NEW steps
        PROVE  At(steps) \in Nat /\ At(steps)' = At(steps) + Change(wbcThread[f], w, steps)
    <2> DEFINE t == wbcThread
               u == wbcThread'
    <2>1. Moved(t, u, f, w)
      BY <1>1 DEF Moved
    <2>2. At(steps) = Cardinality(AtSteps(t, steps)) /\ At(steps)' = Cardinality(AtSteps(u, steps))
      BY DEF At, AtSteps
    <2> HIDE DEF t, u
    <2>3. /\ Cardinality(AtSteps(t, steps)) \in Nat
          /\ Cardinality(AtSteps(u, steps)) = Cardinality(AtSteps(t, steps)) + Change(t[f], w, steps)
      BY <2>1, CountMove
    <2> QED
      BY <2>2, <2>3 DEF t
  <1> QED
    BY <1>2, <1>3

LEMMA Stays ==
    ASSUME UNCHANGED wbcThread
    PROVE  /\ At({"ended"})' = At({"ended"}) /\ At(Busy)' = At(Busy)
           /\ At({"joined"})' = At({"joined"})
  BY DEF At, AtSteps

LEMMA WbcInvInit == WbcInit => WbcInv
  <1> SUFFICES ASSUME WbcInit PROVE WbcInv
    OBVIOUS
  <1>1. /\ wbcProg = "off" /\ wbcMain = "fill" /\ wbcAt = 1
        /\ wbcThread = [f \in Files |-> "none"] /\ wbcFlags = [f \in Files |-> "0"]
        /\ wbcNconn = 0 /\ wbcToRead = WbcFiles /\ wbcNdone = 0
    BY DEF WbcInit, Files
  <1>2. WbcTypes
    BY <1>1 DEF WbcTypes, Steps
  <1>3. WbcPlaces
    BY <1>1 DEF WbcPlaces
  <1>4. WbcCounters
    BY <1>1 DEF WbcCounters, Threaded
  <1> QED
    BY <1>1, <1>2, <1>3, <1>4 DEF WbcInv

\* When no thread has begun, nothing is counted.
LEMMA NoneCounted ==
    ASSUME \A f \in Files : wbcThread[f] = "none"
    PROVE  At({"ended"}) = 0 /\ At(Busy) = 0 /\ At({"joined"}) = 0
  <1>1. /\ AtSteps(wbcThread, {"ended"}) = {} /\ AtSteps(wbcThread, Busy) = {}
        /\ AtSteps(wbcThread, {"joined"}) = {}
    BY DEF AtSteps, Busy
  <1> QED
    BY <1>1, FS_EmptySet DEF At

LEMMA StartKeeps ==
    ASSUME WbcInv, NEW p \in Threaded \cup {"nonb"}, WbcStart(p)
    PROVE  WbcInv'
  <1>1. /\ wbcProg = "off" /\ wbcProg' = p /\ wbcMain' \in {"fill", "error"}
        /\ UNCHANGED <<wbcAt, wbcThread, wbcFlags, wbcNconn, wbcToRead, wbcNdone>>
    BY DEF WbcStart, home_page
  <1>2. /\ wbcMain = "fill" /\ wbcNconn = 0 /\ wbcNdone = 0 /\ wbcToRead = WbcFiles
        /\ \A f \in Files : wbcThread[f] = "none" /\ wbcFlags[f] = "0"
    BY <1>1 DEF WbcInv, WbcPlaces
  <1>3. At({"ended"})' = 0 /\ At(Busy)' = 0 /\ At({"joined"})' = 0
    BY <1>1, <1>2, NoneCounted, Stays
  <1>4. WbcTypes'
    BY <1>1 DEF WbcInv, WbcTypes
  <1>5. WbcPlaces'
    BY <1>1, <1>2 DEF WbcInv, WbcPlaces, Threaded
  <1>6. WbcCounters'
    <2>1. wbcNconn' = 0 /\ wbcNdone' = 0 /\ wbcToRead' = WbcFiles
      BY <1>1, <1>2
    <2>2. 0 <= WbcMaxConn /\ WbcFiles - 0 = WbcFiles
      BY WbcFilesAssumption
    <2> QED
      BY <1>3, <2>1, <2>2 DEF WbcCounters
  <1> QED
    BY <1>1, <1>4, <1>5, <1>6 DEF WbcInv

\* A connection or a thread for the first file that has none.
LEMMA FillKeeps ==
    ASSUME WbcInv, WbcFill
    PROVE  WbcInv'
  <1> DEFINE free == {f \in Files : wbcFlags[f] = "0"}
             first == CHOOSE g \in free : \A h \in free : g <= h
  <1>0. /\ wbcProg # "off" /\ wbcMain = "fill" /\ wbcNconn < WbcMaxConn
        /\ UNCHANGED <<wbcProg, wbcToRead, wbcNdone>>
    BY DEF WbcFill
  <1>1. CASE free = {}
    <2>1. wbcMain' = "error" /\ UNCHANGED <<wbcAt, wbcThread, wbcFlags, wbcNconn>>
      BY <1>1 DEF WbcFill, Files
    <2>2. WbcTypes' /\ WbcPlaces'
      BY <1>0, <2>1 DEF WbcInv, WbcTypes, WbcPlaces
    <2>3. WbcCounters'
      BY <1>0, <2>1, Stays DEF WbcInv, WbcCounters
    <2> QED
      BY <2>1, <2>2, <2>3 DEF WbcInv
  <1>2. CASE free # {}
    <2>1. first \in free
      BY <1>2, FirstOf
    <2>2. /\ wbcAt' = first /\ wbcNconn' = wbcNconn + 1
          /\ wbcMain' = IF wbcProg = "web02" THEN "mark" ELSE "fill"
          /\ \/ wbcProg = "nonb" /\ start_connect(first)
             \/ /\ wbcProg # "nonb"
                /\ wbcThread' = [wbcThread EXCEPT ![first] = "connect"]
                /\ wbcFlags' = IF wbcProg = "web02" THEN wbcFlags
                               ELSE [wbcFlags EXCEPT ![first] = "connecting"]
      BY <1>2 DEF WbcFill, Files
    <2> HIDE DEF first
    <2>3. first \in Files /\ first \in Nat \ {0} /\ wbcThread[first] = "none"
      <3>1. first \in Files /\ wbcThread[first] = "none"
        BY <1>0, <2>1 DEF WbcInv, WbcPlaces
      <3> QED
        BY <3>1 DEF Files
    <2>4. PICK w \in {"connect", "read"} : wbcThread' = [wbcThread EXCEPT ![first] = w]
      BY <2>2 DEF start_connect, write_get_cmd
    <2>5. /\ w \in Steps
          /\ Change("none", w, {"ended"}) = 0 /\ Change("none", w, Busy) = 1
          /\ Change("none", w, {"joined"}) = 0
      BY DEF Steps, Change, Busy
    <2>6. /\ wbcThread' \in [Files -> Steps]
          /\ \A g \in Files : wbcThread'[g] = IF g = first THEN w ELSE wbcThread[g]
          /\ At({"ended"})' = At({"ended"}) /\ At(Busy)' = At(Busy) + 1
          /\ At({"joined"})' = At({"joined"})
      <3>1. WbcTypes
        BY DEF WbcInv
      <3>2. /\ At({"ended"}) \in Nat /\ At({"joined"}) \in Nat
            /\ At({"ended"})' = At({"ended"}) + 0 /\ At(Busy)' = At(Busy) + 1
            /\ At({"joined"})' = At({"joined"}) + 0
            /\ wbcThread' \in [Files -> Steps]
            /\ \A g \in Files : wbcThread'[g] = IF g = first THEN w ELSE wbcThread[g]
        BY <2>3, <2>4, <2>5, <3>1, Moves
      <3> HIDE DEF At
      <3> QED
        BY <3>2
    <2>7. /\ DOMAIN wbcFlags' = Files
          /\ \A g \in Files \ {first} : wbcFlags'[g] = wbcFlags[g]
          /\ wbcProg # "web02" => wbcFlags'[first] = IF w = "read" THEN "reading" ELSE "connecting"
      BY <2>2, <2>3, <2>4 DEF start_connect, write_get_cmd, WbcInv, WbcTypes
    <2>8. WbcTypes'
      BY <1>0, <2>2, <2>3, <2>6, <2>7 DEF WbcInv, WbcTypes, Steps
    <2>9. WbcPlaces'
      BY <1>0, <2>2, <2>3, <2>6, <2>7 DEF WbcInv, WbcPlaces
    <2>10. WbcCounters'
      <3>1. wbcProg \in Threaded => wbcNconn + 1 <= WbcMaxConn
        <4>1. At(Busy) \in Nat
          BY <2>3, <2>4, <2>5, Moves DEF WbcInv
        <4> HIDE DEF At
        <4> QED
          BY <1>0, <4>1, WbcFilesAssumption DEF WbcInv, WbcCounters
      <3> HIDE DEF At
      <3> QED
        BY <1>0, <2>2, <2>6, <3>1 DEF WbcInv, WbcCounters
    <2> QED
      BY <2>2, <2>8, <2>9, <2>10 DEF WbcInv
  <1> QED
    BY <1>1, <1>2

\* The steps of main that leave the threads alone.
LEMMA MainKeeps ==
    ASSUME WbcInv, WbcMark \/ WbcFilled \/ WbcLook
    PROVE  WbcInv'
  <1>1. CASE WbcMark
    <2>1. /\ wbcMain = "mark" /\ wbcMain' = "fill" /\ wbcAt \in Files
          /\ wbcFlags' = [wbcFlags EXCEPT ![wbcAt] = "connecting"] /\ wbcProg = "web02"
          /\ UNCHANGED <<wbcProg, wbcAt, wbcThread, wbcNconn, wbcToRead, wbcNdone>>
      BY <1>1 DEF WbcMark, WbcInv, WbcPlaces
    <2>2. /\ DOMAIN wbcFlags' = Files
          /\ \A g \in Files : wbcFlags'[g] = IF g = wbcAt THEN "connecting" ELSE wbcFlags[g]
      BY <2>1 DEF WbcInv, WbcTypes
    <2>3. WbcTypes'
      BY <2>1, <2>2 DEF WbcInv, WbcTypes
    <2>4. WbcPlaces'
      BY <2>1, <2>2 DEF WbcInv, WbcPlaces
    <2>5. WbcCounters'
      BY <2>1, Stays DEF WbcInv, WbcCounters
    <2> QED
      BY <2>1, <2>3, <2>4, <2>5 DEF WbcInv
  <1>2. CASE WbcFilled
    <2>1. /\ wbcProg # "off" /\ wbcMain = "fill"
          /\ wbcMain' = IF wbcToRead = 0 THEN "exit" ELSE "wait"
          /\ UNCHANGED <<wbcProg, wbcAt, wbcThread, wbcFlags, wbcNconn, wbcToRead, wbcNdone>>
      BY <1>2 DEF WbcFilled
    <2>2. WbcTypes' /\ WbcPlaces'
      BY <2>1 DEF WbcInv, WbcTypes, WbcPlaces
    <2>3. WbcCounters'
      BY <2>1, Stays DEF WbcInv, WbcCounters
    <2>4. wbcToRead = 0 => \A f \in Files : wbcThread[f] \in {"ended", "joined"}
      <3> SUFFICES ASSUME wbcToRead = 0 PROVE \A f \in Files : wbcThread[f] \in {"ended", "joined"}
        OBVIOUS
      <3> DEFINE last == IF wbcProg = "nonb" THEN {"ended"} ELSE {"joined"}
                 S == AtSteps(wbcThread, last)
      <3>1. wbcToRead = WbcFiles - At(last)
        BY <2>1 DEF WbcInv, WbcTypes, WbcCounters, Threaded
      <3>2. S \subseteq Files /\ At(last) = Cardinality(S)
        BY DEF AtSteps, At
      <3> HIDE DEF S, At
      <3>3. Cardinality(S) \in Nat
        BY <3>2, FilesFinite
      <3>4. Cardinality(S) = WbcFiles
        BY <3>1, <3>2, <3>3, WbcFilesAssumption
      <3>5. S = Files
        BY <3>2, <3>4, FilesFinite
      <3> QED
        BY <3>5 DEF S, AtSteps
    <2> QED
      BY <2>1, <2>2, <2>3, <2>4 DEF WbcInv
  <1>3. CASE WbcLook
    <2>1. /\ wbcProg \in {"web02", "web03"} /\ wbcMain = "wait" /\ wbcMain' \in {"scan", "fill"}
          /\ wbcAt' \in {1, wbcAt}
          /\ UNCHANGED <<wbcProg, wbcThread, wbcFlags, wbcNconn, wbcToRead, wbcNdone>>
      BY <1>3 DEF WbcLook
    <2>2. WbcTypes'
      BY <2>1 DEF WbcInv, WbcTypes
    <2>3. WbcPlaces'
      BY <2>1 DEF WbcInv, WbcPlaces
    <2>4. WbcCounters'
      BY <2>1, Stays DEF WbcInv, WbcCounters
    <2> QED
      BY <2>1, <2>2, <2>3, <2>4 DEF WbcInv
  <1> QED
    BY <1>1, <1>2, <1>3

\* What a join does to the counts.
LEMMA JoinMoves ==
    ASSUME WbcTypes, NEW f \in Files, wbcThread[f] = "ended",
           wbcThread' = [wbcThread EXCEPT ![f] = "joined"]
    PROVE  /\ wbcThread' \in [Files -> Steps]
           /\ \A g \in Files : wbcThread'[g] = IF g = f THEN "joined" ELSE wbcThread[g]
           /\ At({"ended"}) \in Nat /\ At(Busy) \in Nat /\ At({"joined"}) \in Nat
           /\ At({"ended"})' = At({"ended"}) - 1 /\ At(Busy)' = At(Busy) - 1
           /\ At({"joined"})' = At({"joined"}) + 1
  <1>1. /\ "joined" \in Steps
        /\ Change("ended", "joined", {"ended"}) = -1 /\ Change("ended", "joined", Busy) = -1
        /\ Change("ended", "joined", {"joined"}) = 1
    BY DEF Steps, Change, Busy
  <1>2. /\ wbcThread' \in [Files -> Steps]
        /\ \A g \in Files : wbcThread'[g] = IF g = f THEN "joined" ELSE wbcThread[g]
        /\ At({"ended"}) \in Nat /\ At(Busy) \in Nat /\ At({"joined"}) \in Nat
        /\ At({"ended"})' = At({"ended"}) + (-1) /\ At(Busy)' = At(Busy) + (-1)
        /\ At({"joined"})' = At({"joined"}) + 1
    BY <1>1, Moves
  <1> HIDE DEF At
  <1> QED
    BY <1>2

LEMMA JoinAnyKeeps ==
    ASSUME WbcInv, WbcJoinAny
    PROVE  WbcInv'
  <1>1. /\ wbcProg = "web01" /\ wbcMain = "wait" /\ wbcMain' = "fill"
        /\ wbcNconn' = wbcNconn - 1 /\ wbcToRead' = wbcToRead - 1
        /\ UNCHANGED <<wbcProg, wbcAt, wbcFlags, wbcNdone>>
    BY DEF WbcJoinAny, WbcOneLess
  <1>2. PICK f \in Files : /\ wbcThread[f] = "ended"
                           /\ wbcThread' = [wbcThread EXCEPT ![f] = "joined"]
    BY DEF WbcJoinAny, Files
  <1>3. /\ wbcThread' \in [Files -> Steps]
        /\ \A g \in Files : wbcThread'[g] = IF g = f THEN "joined" ELSE wbcThread[g]
        /\ At({"ended"}) \in Nat /\ At(Busy) \in Nat /\ At({"joined"}) \in Nat
        /\ At({"ended"})' = At({"ended"}) - 1 /\ At(Busy)' = At(Busy) - 1
        /\ At({"joined"})' = At({"joined"}) + 1
    BY <1>2, JoinMoves DEF WbcInv
  <1>4. WbcTypes'
    BY <1>1, <1>3 DEF WbcInv, WbcTypes
  <1>5. WbcPlaces'
    BY <1>1, <1>2, <1>3 DEF WbcInv, WbcPlaces
  <1>6. WbcCounters'
    <2> HIDE DEF At
    <2>1. /\ wbcNconn = At(Busy) /\ wbcNconn <= WbcMaxConn
          /\ wbcToRead = WbcFiles - At({"joined"})
      BY <1>1 DEF WbcInv, WbcCounters, Threaded
    <2>2. /\ wbcNconn' = At(Busy)' /\ wbcNconn' <= WbcMaxConn
          /\ wbcToRead' = WbcFiles - At({"joined"})'
      BY <1>1, <1>3, <2>1, WbcFilesAssumption
    <2> QED
      BY <1>1, <2>2 DEF WbcCounters
  <1> QED
    BY <1>1, <1>4, <1>5, <1>6 DEF WbcInv

LEMMA ScanKeeps ==
    ASSUME WbcInv, WbcScan
    PROVE  WbcInv'
  <1>0. wbcMain = "scan" /\ wbcProg \in {"web02", "web03"} /\ UNCHANGED wbcProg
    BY DEF WbcScan, WbcInv, WbcPlaces
  <1>1. CASE UNCHANGED <<wbcThread, wbcFlags, wbcNconn, wbcToRead, wbcNdone>>
    <2>1. /\ wbcMain' \in {"scan", "fill"}
          /\ wbcAt' \in Nat \ {0}
      BY <1>0 DEF WbcScan, WbcInv, WbcTypes
    <2>2. WbcTypes' /\ WbcPlaces'
      BY <1>0, <1>1, <2>1 DEF WbcInv, WbcTypes, WbcPlaces
    <2>3. WbcCounters'
      BY <1>0, <1>1, Stays DEF WbcInv, WbcCounters
    <2> QED
      BY <2>1, <2>2, <2>3 DEF WbcInv
  <1>2. CASE ~ UNCHANGED <<wbcThread, wbcFlags, wbcNconn, wbcToRead, wbcNdone>>
    <2>1. /\ wbcAt <= WbcFiles /\ wbcAt' = wbcAt + 1
          /\ wbcThread[wbcAt] = "ended"
          /\ wbcThread' = [wbcThread EXCEPT ![wbcAt] = "joined"]
          /\ wbcFlags' = [wbcFlags EXCEPT ![wbcAt] = "joined"]
          /\ wbcNdone' = wbcNdone - 1 /\ wbcNconn' = wbcNconn - 1 /\ wbcToRead' = wbcToRead - 1
          /\ UNCHANGED wbcMain
      BY <1>2 DEF WbcScan, WbcCounted, WbcOneLess
    <2>2. wbcAt \in Files /\ wbcAt' \in Nat \ {0}
      BY <2>1, WbcFilesAssumption DEF WbcInv, WbcTypes, Files
    <2>3. /\ wbcThread' \in [Files -> Steps]
          /\ \A g \in Files : wbcThread'[g] = IF g = wbcAt THEN "joined" ELSE wbcThread[g]
          /\ At({"ended"}) \in Nat /\ At(Busy) \in Nat /\ At({"joined"}) \in Nat
          /\ At({"ended"})' = At({"ended"}) - 1 /\ At(Busy)' = At(Busy) - 1
          /\ At({"joined"})' = At({"joined"}) + 1
      BY <2>1, <2>2, JoinMoves DEF WbcInv
    <2>4. /\ DOMAIN wbcFlags' = Files
          /\ \A g \in Files : wbcFlags'[g] = IF g = wbcAt THEN "joined" ELSE wbcFlags[g]
      BY <2>1, <2>2 DEF WbcInv, WbcTypes
    <2>5. WbcTypes'
      BY <1>0, <2>1, <2>2, <2>3, <2>4 DEF WbcInv, WbcTypes
    <2>6. WbcPlaces'
      BY <1>0, <2>1, <2>3, <2>4 DEF WbcInv, WbcPlaces
    <2>7. WbcCounters'
      <3> HIDE DEF At
      <3>1. /\ wbcNdone = At({"ended"})
            /\ wbcNconn = At(Busy) /\ wbcNconn <= WbcMaxConn
            /\ wbcToRead = WbcFiles - At({"joined"})
        BY <1>0 DEF WbcInv, WbcCounters, Threaded
      <3>2. /\ wbcNdone' = At({"ended"})'
            /\ wbcNconn' = At(Busy)' /\ wbcNconn' <= WbcMaxConn
            /\ wbcToRead' = WbcFiles - At({"joined"})'
        BY <2>1, <2>3, <3>1, WbcFilesAssumption
      <3> QED
        BY <1>0, <3>2 DEF WbcCounters
    <2> QED
      BY <1>0, <2>1, <2>5, <2>6, <2>7 DEF WbcInv
  <1> QED
    BY <1>1, <1>2

\* A thread's connect and its GET command, or the error that ends the program.
LEMMA GetKeeps ==
    ASSUME WbcInv, NEW f \in Files, WbcGet(f)
    PROVE  WbcInv'
  <1>0. /\ wbcProg # "nonb" /\ wbcMain \notin {"exit", "error"} /\ wbcThread[f] = "connect"
        /\ UNCHANGED <<wbcProg, wbcAt, wbcNconn, wbcToRead, wbcNdone>>
    BY DEF WbcGet
  <1>1. wbcProg # "off"
    BY <1>0 DEF WbcInv, WbcPlaces
  <1>2. CASE wbcMain' = "error" /\ UNCHANGED <<wbcThread, wbcFlags>>
    <2>1. WbcTypes' /\ WbcPlaces'
      BY <1>0, <1>1, <1>2 DEF WbcInv, WbcTypes, WbcPlaces
    <2>2. WbcCounters'
      BY <1>0, <1>2, Stays DEF WbcInv, WbcCounters
    <2> QED
      BY <1>2, <2>1, <2>2 DEF WbcInv
  <1>3. CASE write_get_cmd(f) /\ UNCHANGED wbcMain
    <2>1. /\ wbcThread' = [wbcThread EXCEPT ![f] = "read"]
          /\ wbcFlags' = [wbcFlags EXCEPT ![f] = "reading"]
          /\ UNCHANGED wbcMain
      BY <1>3 DEF write_get_cmd
    <2>2. /\ "read" \in Steps
          /\ Change("connect", "read", {"ended"}) = 0 /\ Change("connect", "read", Busy) = 0
          /\ Change("connect", "read", {"joined"}) = 0
      BY DEF Steps, Change, Busy
    <2>3. /\ wbcThread' \in [Files -> Steps]
          /\ \A g \in Files : wbcThread'[g] = IF g = f THEN "read" ELSE wbcThread[g]
          /\ At({"ended"}) \in Nat /\ At(Busy) \in Nat /\ At({"joined"}) \in Nat
          /\ At({"ended"})' = At({"ended"}) + 0 /\ At(Busy)' = At(Busy) + 0
          /\ At({"joined"})' = At({"joined"}) + 0
      BY <1>0, <2>1, <2>2, Moves DEF WbcInv
    <2>4. /\ DOMAIN wbcFlags' = Files
          /\ \A g \in Files : wbcFlags'[g] = IF g = f THEN "reading" ELSE wbcFlags[g]
      BY <2>1 DEF WbcInv, WbcTypes
    <2>5. WbcTypes'
      BY <1>0, <2>1, <2>3, <2>4 DEF WbcInv, WbcTypes
    <2>6. WbcPlaces'
      BY <1>0, <1>1, <2>1, <2>3, <2>4 DEF WbcInv, WbcPlaces
    <2>7. WbcCounters'
      <3> HIDE DEF At
      <3>1. /\ At({"ended"})' = At({"ended"}) /\ At(Busy)' = At(Busy)
            /\ At({"joined"})' = At({"joined"})
        BY <2>3
      <3> QED
        BY <1>0, <3>1 DEF WbcInv, WbcCounters
    <2> QED
      BY <1>0, <2>1, <2>5, <2>6, <2>7 DEF WbcInv
  <1> QED
    BY <1>2, <1>3 DEF WbcGet

\* The end of a thread's reply.
LEMMA ReadKeeps ==
    ASSUME WbcInv, NEW f \in Files, WbcRead(f)
    PROVE  WbcInv'
  <1> DEFINE w == IF wbcProg = "web01" THEN "ended" ELSE "report"
  <1>0. /\ wbcProg # "nonb" /\ wbcMain \notin {"exit", "error"} /\ wbcThread[f] = "read"
        /\ wbcFlags' = [wbcFlags EXCEPT ![f] = "done"]
        /\ wbcThread' = [wbcThread EXCEPT ![f] = w]
        /\ UNCHANGED <<wbcProg, wbcMain, wbcAt, wbcNconn, wbcToRead, wbcNdone>>
    BY DEF WbcRead
  <1>1. wbcProg # "off"
    BY <1>0 DEF WbcInv, WbcPlaces
  <1>2. /\ w \in Steps
        /\ wbcProg # "web01" => Change("read", w, {"ended"}) = 0
        /\ Change("read", w, Busy) = 0 /\ Change("read", w, {"joined"}) = 0
    BY DEF Steps, Change, Busy
  <1> HIDE DEF w
  <1>3. /\ wbcThread' \in [Files -> Steps]
        /\ \A g \in Files : wbcThread'[g] = IF g = f THEN w ELSE wbcThread[g]
        /\ At({"ended"}) \in Nat /\ At(Busy) \in Nat /\ At({"joined"}) \in Nat
        /\ wbcProg # "web01" => At({"ended"})' = At({"ended"}) + 0
        /\ At(Busy)' = At(Busy) + 0 /\ At({"joined"})' = At({"joined"}) + 0
    <2>1. WbcTypes
      BY DEF WbcInv
    <2> QED
      BY <1>0, <1>2, <2>1, Moves
  <1>4. /\ DOMAIN wbcFlags' = Files
        /\ \A g \in Files : wbcFlags'[g] = IF g = f THEN "done" ELSE wbcFlags[g]
    BY <1>0 DEF WbcInv, WbcTypes
  <1>5. WbcTypes'
    BY <1>0, <1>3, <1>4 DEF WbcInv, WbcTypes
  <1>6. WbcPlaces'
    BY <1>0, <1>1, <1>3, <1>4 DEF WbcInv, WbcPlaces
  <1>7. WbcCounters'
    <2> HIDE DEF At
    <2>1. /\ wbcProg # "web01" => At({"ended"})' = At({"ended"})
          /\ At(Busy)' = At(Busy) /\ At({"joined"})' = At({"joined"})
      BY <1>3
    <2> QED
      BY <1>0, <2>1 DEF WbcInv, WbcCounters
  <1> QED
    BY <1>0, <1>5, <1>6, <1>7 DEF WbcInv

\* A thread of web02 or web03 counts itself.
LEMMA ReportKeeps ==
    ASSUME WbcInv, NEW f \in Files, WbcReport(f)
    PROVE  WbcInv'
  <1>0. /\ wbcMain \notin {"exit", "error"} /\ wbcThread[f] = "report"
        /\ wbcThread' = [wbcThread EXCEPT ![f] = "ended"] /\ wbcNdone' = wbcNdone + 1
        /\ UNCHANGED <<wbcProg, wbcMain, wbcAt, wbcFlags, wbcNconn, wbcToRead>>
    BY DEF WbcReport
  <1>1. wbcProg \in Threaded
    BY <1>0 DEF WbcInv, WbcTypes, WbcPlaces
  <1>2. /\ "ended" \in Steps /\ Change("report", "ended", {"ended"}) = 1
        /\ Change("report", "ended", Busy) = 0 /\ Change("report", "ended", {"joined"}) = 0
    BY DEF Steps, Change, Busy
  <1>3. /\ wbcThread' \in [Files -> Steps]
        /\ \A g \in Files : wbcThread'[g] = IF g = f THEN "ended" ELSE wbcThread[g]
        /\ At({"ended"}) \in Nat /\ At(Busy) \in Nat /\ At({"joined"}) \in Nat
        /\ At({"ended"})' = At({"ended"}) + 1
        /\ At(Busy)' = At(Busy) + 0 /\ At({"joined"})' = At({"joined"}) + 0
    BY <1>0, <1>2, Moves DEF WbcInv
  <1>4. WbcTypes'
    BY <1>0, <1>3 DEF WbcInv, WbcTypes
  <1>5. WbcPlaces'
    BY <1>0, <1>1, <1>3 DEF WbcInv, WbcPlaces, Threaded
  <1>6. WbcCounters'
    <2> HIDE DEF At
    <2>1. At(Busy)' = At(Busy) /\ At({"joined"})' = At({"joined"})
      BY <1>3
    <2> QED
      BY <1>0, <1>1, <1>3, <2>1 DEF WbcInv, WbcCounters, Threaded
  <1> QED
    BY <1>0, <1>4, <1>5, <1>6 DEF WbcInv

\* A turn of the select loop of nonblock/web.c.
LEMMA SelectedKeeps ==
    ASSUME WbcInv, NEW f \in Files, WbcSelected(f)
    PROVE  WbcInv'
  <1>0. /\ wbcProg = "nonb" /\ wbcMain = "wait" /\ UNCHANGED <<wbcProg, wbcAt, wbcNdone>>
    BY DEF WbcSelected
  <1>1. CASE /\ wbcFlags[f] = "connecting" /\ wbcMain' = "error"
             /\ UNCHANGED <<wbcThread, wbcFlags, wbcNconn, wbcToRead>>
    <2>1. WbcTypes' /\ WbcPlaces'
      BY <1>0, <1>1 DEF WbcInv, WbcTypes, WbcPlaces
    <2>2. WbcCounters'
      BY <1>0, <1>1, Stays DEF WbcInv, WbcCounters
    <2> QED
      BY <1>1, <2>1, <2>2 DEF WbcInv
  <1>2. CASE /\ wbcFlags[f] = "connecting" /\ write_get_cmd(f) /\ wbcMain' = "fill"
             /\ UNCHANGED <<wbcNconn, wbcToRead>>
    <2>1. /\ wbcThread[f] = "connect" /\ wbcThread' = [wbcThread EXCEPT ![f] = "read"]
          /\ wbcFlags' = [wbcFlags EXCEPT ![f] = "reading"]
      BY <1>0, <1>2 DEF write_get_cmd, WbcInv, WbcPlaces
    <2>2. "read" \in Steps /\ Change("connect", "read", {"ended"}) = 0
      BY DEF Steps, Change
    <2>3. /\ wbcThread' \in [Files -> Steps]
          /\ \A g \in Files : wbcThread'[g] = IF g = f THEN "read" ELSE wbcThread[g]
          /\ At({"ended"}) \in Nat /\ At({"ended"})' = At({"ended"}) + 0
      BY <2>1, <2>2, Moves DEF WbcInv
    <2>4. /\ DOMAIN wbcFlags' = Files
          /\ \A g \in Files : wbcFlags'[g] = IF g = f THEN "reading" ELSE wbcFlags[g]
      BY <2>1 DEF WbcInv, WbcTypes
    <2>5. WbcTypes'
      BY <1>0, <1>2, <2>3, <2>4 DEF WbcInv, WbcTypes
    <2>6. WbcPlaces'
      BY <1>0, <1>2, <2>3, <2>4 DEF WbcInv, WbcPlaces
    <2>7. WbcCounters'
      <3> HIDE DEF At
      <3>1. At({"ended"})' = At({"ended"})
        BY <2>3
      <3> QED
        BY <1>0, <1>2, <3>1 DEF WbcInv, WbcCounters, Threaded
    <2> QED
      BY <1>2, <2>5, <2>6, <2>7 DEF WbcInv
  <1>3. CASE /\ wbcFlags[f] = "reading" /\ wbcMain' = "fill"
             /\ wbcThread' = [wbcThread EXCEPT ![f] = "ended"]
             /\ wbcFlags' = [wbcFlags EXCEPT ![f] = "done"]
             /\ wbcToRead' = wbcToRead - 1
    <2>1. wbcThread[f] = "read"
      BY <1>0, <1>3 DEF WbcInv, WbcPlaces
    <2>2. "ended" \in Steps /\ Change("read", "ended", {"ended"}) = 1
      BY DEF Steps, Change
    <2>3. /\ wbcThread' \in [Files -> Steps]
          /\ \A g \in Files : wbcThread'[g] = IF g = f THEN "ended" ELSE wbcThread[g]
          /\ At({"ended"}) \in Nat /\ At({"ended"})' = At({"ended"}) + 1
      BY <1>3, <2>1, <2>2, Moves DEF WbcInv
    <2>4. /\ DOMAIN wbcFlags' = Files
          /\ \A g \in Files : wbcFlags'[g] = IF g = f THEN "done" ELSE wbcFlags[g]
      BY <1>3 DEF WbcInv, WbcTypes
    <2>5. WbcTypes'
      BY <1>0, <1>3, <2>3, <2>4 DEF WbcInv, WbcTypes
    <2>6. WbcPlaces'
      BY <1>0, <1>3, <2>3, <2>4 DEF WbcInv, WbcPlaces
    <2>7. WbcCounters'
      <3> HIDE DEF At
      <3>1. wbcToRead = WbcFiles - At({"ended"})
        BY <1>0 DEF WbcInv, WbcCounters
      <3>2. wbcToRead' = WbcFiles - At({"ended"})'
        BY <1>3, <2>3, <3>1, WbcFilesAssumption
      <3> QED
        BY <1>0, <3>2 DEF WbcCounters, Threaded
    <2> QED
      BY <1>3, <2>5, <2>6, <2>7 DEF WbcInv
  <1> QED
    BY <1>1, <1>2, <1>3 DEF WbcSelected, WbcOneLess

LEMMA WbcInvNext == WbcInv /\ [WbcNext]_wbcVars => WbcInv'
  <1> SUFFICES ASSUME WbcInv, [WbcNext]_wbcVars PROVE WbcInv'
    OBVIOUS
  <1>1. CASE UNCHANGED wbcVars
    <2>1. UNCHANGED <<wbcProg, wbcMain, wbcAt, wbcThread, wbcFlags, wbcNconn, wbcToRead, wbcNdone>>
      BY <1>1 DEF wbcVars
    <2>2. WbcTypes' /\ WbcPlaces'
      BY <2>1 DEF WbcInv, WbcTypes, WbcPlaces
    <2>3. WbcCounters'
      BY <2>1, Stays DEF WbcInv, WbcCounters
    <2> QED
      BY <2>1, <2>2, <2>3 DEF WbcInv
  <1>2. ASSUME NEW p \in {"web01", "web02", "web03", "nonb"}, WbcStart(p)
        PROVE  WbcInv'
    BY <1>2, StartKeeps DEF Threaded
  <1>3. CASE WbcMainStep
    BY <1>3, FillKeeps, MainKeeps, JoinAnyKeeps, ScanKeeps DEF WbcMainStep
  <1>4. ASSUME NEW f \in Files, WbcThreadStep(f)
        PROVE  WbcInv'
    BY <1>4, GetKeeps, ReadKeeps, ReportKeeps, SelectedKeeps DEF WbcThreadStep
  <1> QED
    BY <1>1, <1>2, <1>3, <1>4 DEF WbcNext, Files

\* For any number of files and any maxnconn, and whatever the order in which
\* threads connect, read, report and are joined: ndone counts the ended threads
\* of web02.c and web03.c that main has not joined, nconn the connections in
\* use, never above maxnconn, and no client's main leaves its loop before all
\* the files are read.
THEOREM WbcCountsCorrect == WbcSpec => []WbcCountsAgree
  <1>1. WbcInv => WbcCountsAgree
    <2> SUFFICES ASSUME WbcInv PROVE WbcCountsAgree
      OBVIOUS
    <2>1. \A S : Cardinality({f \in 1 .. WbcFiles : wbcThread[f] \in S}) = At(S)
      BY DEF At, AtSteps, Files
    <2>2. /\ wbcProg \in {"web02", "web03"} => wbcNdone = At({"ended"})
          /\ wbcProg \in {"web01", "web02", "web03"} =>
                wbcNconn = At({"connect", "read", "report", "ended"}) /\ wbcNconn <= WbcMaxConn
          /\ wbcMain = "exit" => \A f \in 1 .. WbcFiles : wbcThread[f] \in {"ended", "joined"}
      BY DEF WbcInv, WbcCounters, Threaded, Busy, Files
    <2> HIDE DEF At
    <2> QED
      BY <2>1, <2>2 DEF WbcCountsAgree
  <1> QED
    BY <1>1, WbcInvInit, WbcInvNext, PTL DEF WbcSpec

-----------------------------------------------------------------------------
(* The web server.                                                         *)

WebPieces == {"200", "301", "403", "404", "501", "type", "body"}

WebTypes ==
    /\ webMode \in {"off", "http", "https"}
    /\ webQueue \in Seq(WebConns)
    /\ webClient \in [WebConns -> {"idle", "open", "secure", "sent", "closed", "reset"}]
    /\ webChild \in [WebConns -> {"none", "recv", "send", "close", "done", "spin"}]
    /\ webRequest \in [WebConns -> WebRequests \cup {<<>>}]
    /\ webStep \in [WebConns -> Nat]
    /\ webReply \in [WebConns -> Seq(WebPieces)]

\* The parent has a connection in its hands and no child for it yet.
WebHolding == webParent[1] \in {"handshake", "fork"}

\* A connection is in one place of the queue or in the parent's hands, and then
\* has no child: it is given to one child only.
WebOnce ==
    /\ \A i \in 1 .. Len(webQueue) :
          /\ webClient[webQueue[i]] # "idle" /\ webChild[webQueue[i]] = "none"
          /\ WebHolding => webQueue[i] # webParent[2]
          /\ \A j \in 1 .. Len(webQueue) : i # j => webQueue[i] # webQueue[j]
    /\ WebHolding => /\ webParent[2] \in WebConns
                     /\ webClient[webParent[2]] # "idle" /\ webChild[webParent[2]] = "none"

\* What has come is the beginning of the answer, over TCP all that was sent.
WebSoFar(c, answer) ==
    /\ Len(webReply[c]) <= webStep[c] /\ webStep[c] <= Len(answer)
    /\ \A i \in 1 .. Len(webReply[c]) : webReply[c][i] = answer[i]
    /\ webMode = "http" => Len(webReply[c]) = webStep[c]
    /\ webChild[c] = "send" => webStep[c] < Len(answer)
    /\ webChild[c] # "send" => webStep[c] = Len(answer)

WebServed(c) ==
    /\ webClient[c] = "sent" => webRequest[c] \in WebRequests
    /\ webClient[c] = "idle" \/ webMode = "off" => webChild[c] = "none" /\ webClient[c] = "idle"
    /\ webChild[c] = "send" => webClient[c] = "sent"
    /\ webChild[c] \in {"none", "recv"} => webStep[c] = 0 /\ webReply[c] = <<>>
    /\ webChild[c] \in {"close", "done", "spin"} => webClient[c] \in {"sent", "closed", "reset"}
    /\ webChild[c] = "spin" => webClient[c] # "sent"
    /\ webChild[c] \in {"send", "close", "done"} /\ webClient[c] = "sent"
          => WebSoFar(c, WebAnswer(webRequest[c]))

WebInv == WebTypes /\ WebOnce /\ \A c \in WebConns : WebServed(c)

LEMMA WebRequestKinds ==
    ASSUME NEW r \in WebRequests
    PROVE  (r.get = TRUE /\ r.path \in WebPaths) \/ r.get = FALSE
  <1>1. CASE r \in [get : {TRUE}, path : WebPaths]
    BY <1>1
  <1>2. CASE r = [get |-> FALSE, path |-> CHOOSE p \in WebPaths : TRUE]
    BY <1>2
  <1> QED
    BY <1>1, <1>2 DEF WebRequests

LEMMA WebFilePieces ==
    /\ <<"200">> \o <<>> = <<"200">>
    /\ <<"200">> \o <<"type">> \o <<"body">> = <<"200", "type", "body">>
  <1> DEFINE P == {"200", "type", "body"}
             s == <<"200">> \o <<"type">>
             t == s \o <<"body">>
             u == <<"200", "type", "body">>
  <1>2. s \in Seq(P) /\ Len(s) = 2 /\ s[1] = "200" /\ s[2] = "type"
    OBVIOUS
  <1>3. u \in Seq(P) /\ Len(u) = 3 /\ u[1] = "200" /\ u[2] = "type" /\ u[3] = "body"
    OBVIOUS
  <1>4. t = u
    <2> DEFINE b == <<"body">>
    <2>1. b \in Seq(P) /\ Len(b) = 1 /\ b[1] = "body"
      OBVIOUS
    <2>2. t = s \o b
      OBVIOUS
    <2> HIDE DEF s, b, t, u, P
    <2>3. /\ t \in Seq(P) /\ Len(t) = Len(s) + Len(b)
          /\ \A i \in 1 .. Len(s) + Len(b) : t[i] = IF i <= Len(s) THEN s[i] ELSE b[i - Len(s)]
      BY <1>2, <2>1, <2>2, ConcatProperties
    <2>4. Len(t) = 3 /\ t[1] = s[1] /\ t[2] = s[2] /\ t[3] = b[1]
      BY <1>2, <2>1, <2>3
    <2>5. \A i \in 1 .. 3 : t[i] = u[i]
      BY <1>2, <1>3, <2>1, <2>4
    <2> QED
      BY <1>3, <2>3, <2>4, <2>5, SeqEqual
  <1>5. <<"200">> \o <<>> = <<"200">>
    <2> DEFINE v == <<"200">>
               w == v \o <<>>
    <2>1. v \in Seq(P) /\ Len(v) = 1 /\ v[1] = "200"
      OBVIOUS
    <2>2. w \in Seq(P) /\ Len(w) = 1 /\ w[1] = "200"
      OBVIOUS
    <2> HIDE DEF v, w, P
    <2>3. v \in [1 .. 1 -> P] /\ w \in [1 .. 1 -> P]
      BY <2>1, <2>2
    <2>4. v = w
      BY <2>1, <2>2, <2>3
    <2> QED
      BY <2>4 DEF v, w
  <1> QED
    BY <1>4, <1>5

\* An answer has at least one piece.
LEMMA WebAnswerPieces ==
    ASSUME NEW r \in WebRequests
    PROVE  WebAnswer(r) \in Seq(WebPieces) /\ Len(WebAnswer(r)) >= 1
  <1>1. <<>> \in Seq(WebPieces) /\ \A x \in WebPieces : <<x>> \in Seq(WebPieces) /\ Len(<<x>>) = 1
    OBVIOUS
  <1>2. \A b : WebWhen(b, "404") \in Seq(WebPieces) /\ WebWhen(b, "type") \in Seq(WebPieces)
               /\ WebWhen(b, "body") \in Seq(WebPieces)
    <2>1. {"404", "type", "body"} \subseteq WebPieces
      BY DEF WebPieces
    <2>2. \A b, x : WebWhen(b, x) = <<x>> \/ WebWhen(b, x) = <<>>
      BY DEF WebWhen
    <2> QED
      BY <1>1, <2>1, <2>2
  <1>3. \A s, t \in Seq(WebPieces) : s \o t \in Seq(WebPieces) /\ Len(s \o t) >= Len(s)
    <2> TAKE s \in Seq(WebPieces), t \in Seq(WebPieces)
    <2>1. Len(s) \in Nat /\ Len(t) \in Nat
      OBVIOUS
    <2> QED
      BY <2>1
  <1>4. \A x \in WebPieces : <<x>> \in Seq(WebPieces) /\ Len(<<x>>) = 1
    BY <1>1
  <1>5. \A p : WebDirAnswer(p) \in Seq(WebPieces) /\ Len(WebDirAnswer(p)) >= 1
    <2>1. "301" \in WebPieces /\ "403" \in WebPieces
      BY DEF WebPieces
    <2>2. \A p : WebDirAnswer(p) = <<"301">> \/ WebDirAnswer(p) = <<"403">>
      BY DEF WebDirAnswer
    <2>3. <<"301">> \in Seq(WebPieces) /\ Len(<<"301">>) >= 1
      BY <1>1, <2>1
    <2>4. <<"403">> \in Seq(WebPieces) /\ Len(<<"403">>) >= 1
      BY <1>1, <2>1
    <2> QED
      BY <2>2, <2>3, <2>4
  <1>6. \A p : WebDecodedAnswer(p) \in Seq(WebPieces) /\ Len(WebDecodedAnswer(p)) >= 1
    <2> TAKE p
    <2> DEFINE a == <<"200">>
               b == a \o WebWhen(~p.decoded, "404")
               c == b \o WebWhen(p.decoded /\ p.type, "type")
               d == c \o WebWhen(p.decoded /\ ~p.dir, "body")
    <2>1. a \in Seq(WebPieces) /\ Len(a) = 1
      BY <1>4 DEF WebPieces
    <2>2. b \in Seq(WebPieces) /\ Len(b) >= Len(a)
      BY <1>2, <1>3, <2>1
    <2>3. c \in Seq(WebPieces) /\ Len(c) >= Len(b)
      <3> HIDE DEF b
      <3> QED
        BY <1>2, <1>3, <2>2
    <2>4. d \in Seq(WebPieces) /\ Len(d) >= Len(c)
      <3> HIDE DEF c
      <3> QED
        BY <1>2, <1>3, <2>3
    <2>5. WebDecodedAnswer(p) = d
      BY DEF WebDecodedAnswer
    <2> HIDE DEF a, b, c, d
    <2>6. Len(a) \in Nat /\ Len(b) \in Nat /\ Len(c) \in Nat /\ Len(d) \in Nat
      BY <2>1, <2>2, <2>3, <2>4
    <2> QED
      BY <2>1, <2>2, <2>3, <2>4, <2>5, <2>6
  <1>7. \A p : WebPlainAnswer(p) \in Seq(WebPieces) /\ Len(WebPlainAnswer(p)) >= 1
    <2> TAKE p
    <2> DEFINE a == <<"200">>
               b == a \o WebWhen(p.type, "type")
               c == b \o WebWhen(p.found /\ ~p.dir, "body")
    <2>1. a \in Seq(WebPieces) /\ Len(a) = 1
      BY <1>4 DEF WebPieces
    <2>2. b \in Seq(WebPieces) /\ Len(b) >= Len(a)
      BY <1>2, <1>3, <2>1
    <2>3. c \in Seq(WebPieces) /\ Len(c) >= Len(b)
      <3> HIDE DEF b
      <3> QED
        BY <1>2, <1>3, <2>2
    <2>4. WebPlainAnswer(p) = c
      BY DEF WebPlainAnswer
    <2> HIDE DEF a, b, c
    <2>5. Len(a) \in Nat /\ Len(b) \in Nat /\ Len(c) \in Nat
      BY <2>1, <2>2, <2>3
    <2> QED
      BY <2>1, <2>2, <2>3, <2>4, <2>5
  <1>8. \A p \in WebPaths : WebServeFile(p) \in Seq(WebPieces) /\ Len(WebServeFile(p)) >= 1
    <2>1. <<"404">> \in Seq(WebPieces) /\ Len(<<"404">>) >= 1
      BY <1>4 DEF WebPieces
    <2> QED
      BY <1>5, <1>6, <1>7, <2>1 DEF WebServeFile
  <1>9. <<"501">> \in Seq(WebPieces) /\ Len(<<"501">>) >= 1
    BY <1>4 DEF WebPieces
  <1>10. r.get => r.path \in WebPaths
    BY WebRequestKinds
  <1> QED
    BY <1>8, <1>9, <1>10 DEF WebAnswer, WebServeFileTls

\* serve_file answers the requests of the tests as the tests expect.
LEMMA WebAnswerExpected ==
    ASSUME NEW r \in WebRequests, WebTested(r.path)
    PROVE  WebAnswer(r) = WebExpected(r)
  <1>1. CASE ~r.get
    BY <1>1 DEF WebAnswer, WebExpected
  <1>2. CASE r.get
    <2> DEFINE p == r.path
    <2>1. /\ p.found \in BOOLEAN /\ p.dir \in BOOLEAN /\ p.dot \in BOOLEAN /\ p.slash \in BOOLEAN
          /\ p.pct \in BOOLEAN /\ p.slashpct \in BOOLEAN /\ p.type \in BOOLEAN /\ p.decoded \in BOOLEAN
      <3>1. p \in WebPaths
        BY <1>2, WebRequestKinds
      <3> QED
        BY <3>1, WebPathsAssumption
    <2>2. WebAnswer(r) = WebServeFile(p)
      BY <1>2 DEF WebAnswer, WebServeFileTls
    <2>3. WebExpected(r) = CASE ~p.decoded -> <<"404">>
                             [] p.decoded /\ p.dir -> <<IF p.slash THEN "403" ELSE "301">>
                             [] OTHER -> <<"200", "type", "body">>
      BY <1>2 DEF WebExpected
    <2>4. WebTested(p)
      OBVIOUS
    <2> HIDE DEF p
    <2>5. CASE ~p.decoded
      BY <2>1, <2>2, <2>3, <2>4, <2>5 DEF WebTested, WebServeFile
    <2>6. CASE p.decoded /\ p.dir
      <3>1. WebServeFile(p) = WebDirAnswer(p) /\ p.found
        BY <2>1, <2>4, <2>6 DEF WebTested, WebServeFile
      <3> QED
        BY <2>1, <2>2, <2>3, <2>6, <3>1 DEF WebDirAnswer
    <2>7. CASE p.decoded /\ ~p.dir
      <3>1. <<"200">> \o <<>> \o <<"type">> \o <<"body">> = <<"200", "type", "body">>
        BY WebFilePieces
      <3>2. <<"200">> \o <<"type">> \o <<"body">> = <<"200", "type", "body">>
        BY WebFilePieces
      <3>3. p.dot /\ p.type
        BY <2>1, <2>4, <2>7 DEF WebTested
      <3>4. CASE p.pct
        <4>1. WebServeFile(p) = WebDecodedAnswer(p)
          BY <2>1, <2>4, <2>7, <3>3, <3>4 DEF WebTested, WebServeFile
        <4>2. WebDecodedAnswer(p) = <<"200">> \o <<>> \o <<"type">> \o <<"body">>
          BY <2>1, <2>7, <3>3 DEF WebDecodedAnswer, WebWhen
        <4> QED
          BY <2>2, <2>3, <2>7, <3>1, <4>1, <4>2
      <3>5. CASE ~p.pct
        <4>1. WebServeFile(p) = WebPlainAnswer(p) /\ p.found
          BY <2>1, <2>4, <2>7, <3>3, <3>5 DEF WebTested, WebServeFile
        <4>2. WebPlainAnswer(p) = <<"200">> \o <<"type">> \o <<"body">>
          BY <2>1, <2>7, <3>3, <4>1 DEF WebPlainAnswer, WebWhen
        <4> QED
          BY <2>2, <2>3, <2>7, <3>2, <4>1, <4>2
      <3> QED
        BY <3>4, <3>5
    <2> QED
      BY <2>1, <2>5, <2>6, <2>7
  <1> QED
    BY <1>1, <1>2

-----------------------------------------------------------------------------
\* A connection that no step touches stays served as it was.
LEMMA WebOther ==
    ASSUME NEW d \in WebConns, WebServed(d), webMode' = webMode,
           webClient'[d] = webClient[d], webChild'[d] = webChild[d],
           webRequest'[d] = webRequest[d], webStep'[d] = webStep[d], webReply'[d] = webReply[d]
    PROVE  WebServed(d)'
  <1>1. \A a : WebSoFar(d, a) => WebSoFar(d, a)'
    BY DEF WebSoFar
  <1>2. WebAnswer(webRequest[d])' = WebAnswer(webRequest[d])
    BY DEF WebAnswer
  <1> QED
    BY <1>1, <1>2 DEF WebServed

LEMMA WebListenKeeps ==
    ASSUME WebInv, NEW m \in {"http", "https"}, NEW n, WebListen(m, n)
    PROVE  WebInv'
  <1>1. webMode = "off" /\ webMode' = m
        /\ UNCHANGED <<webQueue, webParent, webClient, webRequest, webChild, webStep, webReply>>
    BY DEF WebListen
  <1>2. WebTypes' /\ WebOnce'
    BY <1>1 DEF WebInv, WebTypes, WebOnce, WebHolding
  <1>3. ASSUME NEW d \in WebConns
        PROVE  WebServed(d)'
    BY <1>1 DEF WebInv, WebServed
  <1> QED
    BY <1>2, <1>3 DEF WebInv

LEMMA WebConnectKeeps ==
    ASSUME WebInv, NEW c \in WebConns, WebConnect(c)
    PROVE  WebInv'
  <1>1. /\ webMode # "off" /\ webClient[c] = "idle" /\ webClient' = [webClient EXCEPT ![c] = "open"]
        /\ webQueue' = Append(webQueue, c)
        /\ UNCHANGED <<webMode, webParent, webRequest, webChild, webStep, webReply>>
    BY DEF WebConnect
  <1>2. /\ webQueue \in Seq(WebConns) /\ Len(webQueue) \in Nat
        /\ \A d \in WebConns : webClient'[d] = IF d = c THEN "open" ELSE webClient[d]
    BY <1>1 DEF WebInv, WebTypes
  <1>3. WebTypes'
    BY <1>1 DEF WebInv, WebTypes
  <1>4. /\ Len(webQueue') = Len(webQueue) + 1 /\ webQueue'[Len(webQueue) + 1] = c
        /\ \A i \in 1 .. Len(webQueue) : webQueue'[i] = webQueue[i] /\ webQueue[i] \in WebConns
    BY <1>1, <1>2
  <1>5. webChild[c] = "none"
    BY <1>1 DEF WebInv, WebServed
  <1>6. \A i \in 1 .. Len(webQueue) : webQueue[i] # c
    BY <1>1 DEF WebInv, WebOnce
  <1>7. WebOnce'
    <2>1. ASSUME NEW i \in 1 .. Len(webQueue')
          PROVE  /\ webClient'[webQueue'[i]] # "idle" /\ webChild'[webQueue'[i]] = "none"
                 /\ WebHolding' => webQueue'[i] # webParent'[2]
      <3>1. CASE i \in 1 .. Len(webQueue)
        BY <1>1, <1>2, <1>4, <3>1 DEF WebInv, WebOnce, WebHolding
      <3>2. CASE i = Len(webQueue) + 1
        BY <1>1, <1>2, <1>4, <1>5, <3>2 DEF WebInv, WebOnce, WebHolding
      <3> QED
        BY <1>2, <1>4, <3>1, <3>2
    <2>2. ASSUME NEW i \in 1 .. Len(webQueue'), NEW j \in 1 .. Len(webQueue'), i # j
          PROVE  webQueue'[i] # webQueue'[j]
      <3>1. CASE i \in 1 .. Len(webQueue) /\ j \in 1 .. Len(webQueue)
        BY <1>4, <2>2, <3>1 DEF WebInv, WebOnce
      <3>2. CASE i = Len(webQueue) + 1 \/ j = Len(webQueue) + 1
        <4>1. i \in 1 .. Len(webQueue) \/ j \in 1 .. Len(webQueue)
          BY <1>2, <1>4, <2>2, <3>2
        <4> QED
          BY <1>2, <1>4, <1>6, <3>2, <4>1
      <3> QED
        BY <1>2, <1>4, <3>1, <3>2
    <2>3. WebHolding' => /\ webParent'[2] \in WebConns
                         /\ webClient'[webParent'[2]] # "idle" /\ webChild'[webParent'[2]] = "none"
      BY <1>1, <1>2 DEF WebInv, WebOnce, WebHolding
    <2> QED
      BY <2>1, <2>2, <2>3 DEF WebOnce, WebHolding
  <1>8. ASSUME NEW d \in WebConns
        PROVE  WebServed(d)'
    <2>1. CASE d = c
      BY <1>1, <1>2, <1>5, <2>1 DEF WebInv, WebServed
    <2>2. CASE d # c
      BY <1>1, <1>2, <2>2, WebOther DEF WebInv
    <2> QED
      BY <2>1, <2>2
  <1> QED
    BY <1>3, <1>7, <1>8 DEF WebInv

LEMMA WebSendRequestKeeps ==
    ASSUME WebInv, NEW c \in WebConns, NEW r \in WebRequests, WebSendRequest(c, r)
    PROVE  WebInv'
  <1>1. /\ webClient[c] \in {"open", "secure"} /\ webClient' = [webClient EXCEPT ![c] = "sent"]
        /\ webRequest' = [webRequest EXCEPT ![c] = r]
        /\ UNCHANGED <<webMode, webQueue, webParent, webChild, webStep, webReply>>
    BY DEF WebSendRequest
  <1>2. /\ \A d \in WebConns : webClient'[d] = IF d = c THEN "sent" ELSE webClient[d]
        /\ \A d \in WebConns : webRequest'[d] = IF d = c THEN r ELSE webRequest[d]
        /\ \A i \in 1 .. Len(webQueue) : webQueue[i] \in WebConns
    BY <1>1 DEF WebInv, WebTypes
  <1>3. WebTypes'
    BY <1>1 DEF WebInv, WebTypes
  <1>4. WebOnce'
    BY <1>1, <1>2 DEF WebInv, WebOnce, WebHolding
  <1>5. ASSUME NEW d \in WebConns
        PROVE  WebServed(d)'
    <2>1. CASE d = c
      <3>1. webChild[c] \in {"none", "recv"}
        BY <1>1 DEF WebInv, WebTypes, WebServed
      <3> QED
        BY <1>1, <1>2, <2>1, <3>1 DEF WebInv, WebServed
    <2>2. CASE d # c
      BY <1>1, <1>2, <2>2, WebOther DEF WebInv
    <2> QED
      BY <2>1, <2>2
  <1> QED
    BY <1>3, <1>4, <1>5 DEF WebInv

LEMMA WebLeaveKeeps ==
    ASSUME WebInv, NEW c \in WebConns, NEW how \in {"closed", "reset"}, WebLeave(c, how)
    PROVE  WebInv'
  <1>1. /\ webClient[c] \in {"open", "secure"} /\ webClient' = [webClient EXCEPT ![c] = how]
        /\ UNCHANGED <<webMode, webQueue, webParent, webRequest, webChild, webStep, webReply>>
    BY DEF WebLeave
  <1>2. /\ \A d \in WebConns : webClient'[d] = IF d = c THEN how ELSE webClient[d]
        /\ \A i \in 1 .. Len(webQueue) : webQueue[i] \in WebConns
    BY <1>1 DEF WebInv, WebTypes
  <1>3. WebTypes'
    BY <1>1 DEF WebInv, WebTypes
  <1>4. WebOnce'
    BY <1>1, <1>2 DEF WebInv, WebOnce, WebHolding
  <1>5. ASSUME NEW d \in WebConns
        PROVE  WebServed(d)'
    <2>1. CASE d = c
      BY <1>1, <1>2, <2>1 DEF WebInv, WebServed
    <2>2. CASE d # c
      BY <1>1, <1>2, <2>2, WebOther DEF WebInv
    <2> QED
      BY <2>1, <2>2
  <1> QED
    BY <1>3, <1>4, <1>5 DEF WebInv

LEMMA WebAcceptKeeps ==
    ASSUME WebInv, WebAccept
    PROVE  WebInv'
  <1>1. /\ webQueue # <<>> /\ webQueue' = Tail(webQueue) /\ webParent'[2] = Head(webQueue)
        /\ UNCHANGED <<webMode, webClient, webRequest, webChild, webStep, webReply>>
    BY DEF WebAccept
  <1>2. webQueue \in Seq(WebConns) /\ Len(webQueue) \in Nat
    BY DEF WebInv, WebTypes
  <1>3. /\ webQueue' \in Seq(WebConns) /\ Len(webQueue) >= 1 /\ Len(webQueue') = Len(webQueue) - 1
        /\ \A i \in 1 .. Len(webQueue) - 1 : webQueue'[i] = webQueue[i + 1]
        /\ webParent'[2] = webQueue[1] /\ webQueue[1] \in WebConns
    BY <1>1, <1>2
  <1>4. WebTypes'
    BY <1>1, <1>3 DEF WebInv, WebTypes
  <1>5. \A i \in 1 .. Len(webQueue') : i + 1 \in 1 .. Len(webQueue) /\ i + 1 # 1 /\ webQueue'[i] = webQueue[i + 1]
    BY <1>2, <1>3
  <1>6. 1 \in 1 .. Len(webQueue)
    BY <1>2, <1>3
  <1>7. WebOnce'
    <2>1. ASSUME NEW i \in 1 .. Len(webQueue')
          PROVE  /\ webClient'[webQueue'[i]] # "idle" /\ webChild'[webQueue'[i]] = "none"
                 /\ webQueue'[i] # webParent'[2]
      BY <1>1, <1>3, <1>5, <1>6 DEF WebInv, WebOnce
    <2>2. ASSUME NEW i \in 1 .. Len(webQueue'), NEW j \in 1 .. Len(webQueue'), i # j
          PROVE  webQueue'[i] # webQueue'[j]
      <3>1. i + 1 # j + 1
        BY <2>2
      <3> QED
        BY <1>5, <3>1 DEF WebInv, WebOnce
    <2>3. /\ webParent'[2] \in WebConns
          /\ webClient'[webParent'[2]] # "idle" /\ webChild'[webParent'[2]] = "none"
      BY <1>1, <1>3, <1>6 DEF WebInv, WebOnce
    <2> QED
      BY <2>1, <2>2, <2>3 DEF WebOnce
  <1>8. \A d \in WebConns : WebServed(d)'
    BY <1>1, WebOther DEF WebInv
  <1> QED
    BY <1>4, <1>7, <1>8 DEF WebInv

LEMMA WebHandshakeKeeps ==
    ASSUME WebInv, WebHandshake
    PROVE  WebInv'
  <1> DEFINE c == webParent[2]
  <1>1. /\ webParent[1] = "handshake"
        /\ UNCHANGED <<webMode, webQueue, webRequest, webChild, webStep, webReply>>
    BY DEF WebHandshake
  <1>2. /\ c \in WebConns /\ webChild[c] = "none" /\ \A i \in 1 .. Len(webQueue) : webQueue[i] # c
        /\ \A i \in 1 .. Len(webQueue) : webQueue[i] \in WebConns
    BY <1>1 DEF WebInv, WebOnce, WebHolding, WebTypes
  <1>3. CASE /\ webClient[c] = "open" /\ webClient' = [webClient EXCEPT ![c] = "secure"]
             /\ webParent' = <<"fork", c>>
    <2>1. \A d \in WebConns : webClient'[d] = IF d = c THEN "secure" ELSE webClient[d]
      BY <1>3 DEF WebInv, WebTypes
    <2>2. WebTypes'
      BY <1>1, <1>3 DEF WebInv, WebTypes
    <2>3. webParent'[2] = c
      BY <1>3
    <2>4. WebOnce'
      BY <1>1, <1>2, <2>1, <2>3 DEF WebInv, WebOnce
    <2>5. ASSUME NEW d \in WebConns
          PROVE  WebServed(d)'
      <3>1. CASE d = c
        BY <1>1, <1>2, <1>3, <2>1, <3>1 DEF WebInv, WebServed
      <3>2. CASE d # c
        BY <1>1, <2>1, <3>2, WebOther DEF WebInv
      <3> QED
        BY <3>1, <3>2
    <2> QED
      BY <2>2, <2>4, <2>5 DEF WebInv
  <1>4. CASE webParent' = <<"accept", 0>> /\ UNCHANGED webClient
    <2>1. WebTypes' /\ ~WebHolding'
      BY <1>1, <1>4 DEF WebInv, WebTypes, WebHolding
    <2>2. WebOnce'
      BY <1>1, <1>4, <2>1 DEF WebInv, WebOnce
    <2>3. \A d \in WebConns : WebServed(d)'
      BY <1>1, <1>4, WebOther DEF WebInv
    <2> QED
      BY <2>1, <2>2, <2>3 DEF WebInv
  <1> QED
    BY <1>3, <1>4 DEF WebHandshake

LEMMA WebForkKeeps ==
    ASSUME WebInv, WebFork
    PROVE  WebInv'
  <1> DEFINE c == webParent[2]
  <1>1. /\ webParent[1] = "fork" /\ webMode # "off"
        /\ UNCHANGED <<webMode, webQueue, webClient, webRequest, webStep, webReply>>
    BY DEF WebFork
  <1>2. /\ c \in WebConns /\ webChild[c] = "none" /\ webClient[c] # "idle"
        /\ \A i \in 1 .. Len(webQueue) : webQueue[i] # c /\ webQueue[i] \in WebConns
    BY <1>1 DEF WebInv, WebOnce, WebHolding, WebTypes
  <1>3. ~WebHolding'
    BY DEF WebFork, WebAfterFork, WebHolding
  <1>4. CASE webChild' = [webChild EXCEPT ![c] = "recv"]
    <2>1. \A d \in WebConns : webChild'[d] = IF d = c THEN "recv" ELSE webChild[d]
      BY <1>4 DEF WebInv, WebTypes
    <2>2. WebTypes'
      BY <1>1, <1>4 DEF WebInv, WebTypes
    <2>3. WebOnce'
      BY <1>1, <1>2, <1>3, <2>1 DEF WebInv, WebOnce
    <2>4. ASSUME NEW d \in WebConns
          PROVE  WebServed(d)'
      <3>1. CASE d = c
        BY <1>1, <1>2, <2>1, <3>1 DEF WebInv, WebServed
      <3>2. CASE d # c
        BY <1>1, <2>1, <3>2, WebOther DEF WebInv
      <3> QED
        BY <3>1, <3>2
    <2> QED
      BY <2>2, <2>3, <2>4 DEF WebInv
  <1>5. CASE UNCHANGED webChild
    <2>1. WebTypes'
      BY <1>1, <1>5 DEF WebInv, WebTypes
    <2>2. WebOnce'
      BY <1>1, <1>3, <1>5 DEF WebInv, WebOnce
    <2>3. \A d \in WebConns : WebServed(d)'
      BY <1>1, <1>5, WebOther DEF WebInv
    <2> QED
      BY <2>1, <2>2, <2>3 DEF WebInv
  <1> QED
    BY <1>4, <1>5 DEF WebFork

LEMMA WebParentShutdownKeeps ==
    ASSUME WebInv, WebParentShutdown
    PROVE  WebInv'
  <1>1. /\ webParent' = <<"accept", 0>>
        /\ UNCHANGED <<webMode, webQueue, webClient, webRequest, webChild, webStep, webReply>>
    BY DEF WebParentShutdown
  <1>2. WebTypes' /\ ~WebHolding'
    BY <1>1 DEF WebInv, WebTypes, WebHolding
  <1>3. WebOnce'
    BY <1>1, <1>2 DEF WebInv, WebOnce
  <1>4. \A d \in WebConns : WebServed(d)'
    BY <1>1, WebOther DEF WebInv
  <1> QED
    BY <1>2, <1>3, <1>4 DEF WebInv

\* A child's step leaves the queue, the parent and the clients alone.
LEMMA WebChildFrame ==
    ASSUME WebInv, NEW c \in WebConns, webChild[c] # "none",
           NEW s \in {"recv", "send", "close", "done", "spin"}, webChild' = [webChild EXCEPT ![c] = s],
           UNCHANGED <<webMode, webQueue, webParent, webClient, webRequest>>
    PROVE  WebOnce' /\ \A d \in WebConns : webChild'[d] = IF d = c THEN s ELSE webChild[d]
  <1>1. /\ \A d \in WebConns : webChild'[d] = IF d = c THEN s ELSE webChild[d]
        /\ \A i \in 1 .. Len(webQueue) : webQueue[i] \in WebConns
    BY DEF WebInv, WebTypes
  <1> QED
    BY <1>1 DEF WebInv, WebOnce, WebHolding

LEMMA WebRecvKeeps ==
    ASSUME WebInv, NEW c \in WebConns, WebRecv(c)
    PROVE  WebInv'
  <1>1. /\ webChild[c] = "recv"
        /\ UNCHANGED <<webMode, webQueue, webParent, webClient, webRequest, webStep, webReply>>
    BY DEF WebRecv
  <1>2. PICK s \in {"send", "close", "done", "spin"} :
           /\ webChild' = [webChild EXCEPT ![c] = s]
           /\ s = "send" => webClient[c] = "sent"
           /\ s # "send" => webClient[c] \in {"closed", "reset"}
    BY DEF WebRecv
  <1>3. WebOnce' /\ \A d \in WebConns : webChild'[d] = IF d = c THEN s ELSE webChild[d]
    <2>1. s \in {"recv", "send", "close", "done", "spin"} /\ webChild[c] # "none"
      BY <1>1
    <2> QED
      BY <1>1, <1>2, <2>1, WebChildFrame
  <1>4. WebTypes'
    BY <1>1, <1>2 DEF WebInv, WebTypes
  <1>5. ASSUME NEW d \in WebConns
        PROVE  WebServed(d)'
    <2>1. CASE d = c /\ s # "send"
      BY <1>1, <1>2, <1>3, <2>1 DEF WebInv, WebServed
    <2>2. CASE d = c /\ s = "send"
      <3>1. /\ webRequest[c] \in WebRequests /\ webStep[c] = 0 /\ webReply[c] = <<>>
            /\ webClient[c] = "sent" /\ webMode # "off"
        BY <1>1, <1>2, <2>2 DEF WebInv, WebServed
      <3>2. /\ WebAnswer(webRequest[c])' = WebAnswer(webRequest[c])
            /\ Len(WebAnswer(webRequest[c])) \in Nat /\ Len(WebAnswer(webRequest[c])) >= 1
        BY <1>1, <3>1, WebAnswerPieces DEF WebAnswer
      <3>3. WebSoFar(c, WebAnswer(webRequest[c]))'
        BY <1>1, <1>3, <2>2, <3>1, <3>2 DEF WebSoFar
      <3> QED
        BY <1>1, <1>3, <2>2, <3>1, <3>3 DEF WebServed
    <2>3. CASE d # c
      BY <1>1, <1>3, <2>3, WebOther DEF WebInv
    <2> QED
      BY <2>1, <2>2, <2>3
  <1> QED
    BY <1>3, <1>4, <1>5 DEF WebInv

LEMMA WebCloseKeeps ==
    ASSUME WebInv, NEW c \in WebConns, WebClose(c)
    PROVE  WebInv'
  <1>1. /\ webChild[c] = "close" /\ webChild' = [webChild EXCEPT ![c] = "done"]
        /\ UNCHANGED <<webMode, webQueue, webParent, webClient, webRequest, webStep, webReply>>
    BY DEF WebClose
  <1>2. WebOnce' /\ \A d \in WebConns : webChild'[d] = IF d = c THEN "done" ELSE webChild[d]
    BY <1>1, WebChildFrame
  <1>3. WebTypes'
    BY <1>1 DEF WebInv, WebTypes
  <1>4. ASSUME NEW d \in WebConns
        PROVE  WebServed(d)'
    <2>1. CASE d = c
      <3>1. WebAnswer(webRequest[c])' = WebAnswer(webRequest[c])
        BY <1>1 DEF WebAnswer
      <3>2. \A a : WebSoFar(c, a) => WebSoFar(c, a)'
        BY <1>1, <1>2 DEF WebSoFar
      <3> QED
        BY <1>1, <1>2, <2>1, <3>1, <3>2 DEF WebInv, WebServed
    <2>2. CASE d # c
      BY <1>1, <1>2, <2>2, WebOther DEF WebInv
    <2> QED
      BY <2>1, <2>2
  <1> QED
    BY <1>2, <1>3, <1>4 DEF WebInv

LEMMA WebSendKeeps ==
    ASSUME WebInv, NEW c \in WebConns, WebSend(c)
    PROVE  WebInv'
  <1>1. PICK a : a = WebAnswer(webRequest[c])
    OBVIOUS
  <1>2. PICK n : n = webStep[c]
    OBVIOUS
  <1>3. PICK s : s = IF n + 1 = Len(a) THEN "close" ELSE "send"
    OBVIOUS
  <1>4. /\ webChild[c] = "send" /\ WebGets(c, n, a[n + 1])
        /\ webStep' = [webStep EXCEPT ![c] = n + 1] /\ webChild' = [webChild EXCEPT ![c] = s]
        /\ UNCHANGED <<webMode, webQueue, webParent, webClient, webRequest>>
    BY <1>1, <1>2, <1>3 DEF WebSend
  <1>5. /\ webClient[c] = "sent" /\ webRequest[c] \in WebRequests /\ WebSoFar(c, a)
        /\ webMode # "off" /\ n \in Nat /\ webReply[c] \in Seq(WebPieces) /\ Len(webReply[c]) \in Nat
    BY <1>1, <1>2, <1>4 DEF WebInv, WebServed, WebTypes
  <1>6. a \in Seq(WebPieces) /\ Len(a) \in Nat
    BY <1>1, <1>5, WebAnswerPieces
  <1>7. /\ Len(webReply[c]) <= n /\ n < Len(a)
        /\ \A i \in 1 .. Len(webReply[c]) : webReply[c][i] = a[i]
        /\ webMode = "http" => Len(webReply[c]) = n
    BY <1>2, <1>4, <1>5 DEF WebSoFar
  <1>8. a[n + 1] \in WebPieces
    BY <1>5, <1>6, <1>7
  <1>9. s \in {"recv", "send", "close", "done", "spin"}
    BY <1>3
  <1>10. WebOnce' /\ \A d \in WebConns : webChild'[d] = IF d = c THEN s ELSE webChild[d]
    BY <1>4, <1>9, WebChildFrame
  <1>11. \A d \in WebConns : webStep'[d] = IF d = c THEN n + 1 ELSE webStep[d]
    BY <1>4 DEF WebInv, WebTypes
  \* What the client has got then: one piece more, or over TLS no more.
  <1>12. /\ webReply' \in [WebConns -> Seq(WebPieces)]
         /\ \A d \in WebConns : d # c => webReply'[d] = webReply[d]
         /\ Len(webReply'[c]) <= n + 1
         /\ \A i \in 1 .. Len(webReply'[c]) : webReply'[c][i] = a[i]
         /\ webMode = "http" => Len(webReply'[c]) = n + 1
    <2>1. CASE webReply' = [webReply EXCEPT ![c] = Append(@, a[n + 1])] /\ n = Len(webReply[c])
      <3>1. webReply'[c] = Append(webReply[c], a[n + 1]) /\ \A d \in WebConns : d # c => webReply'[d] = webReply[d]
        BY <2>1 DEF WebInv, WebTypes
      <3>2. /\ Append(webReply[c], a[n + 1]) \in Seq(WebPieces) /\ Len(Append(webReply[c], a[n + 1])) = n + 1
            /\ \A i \in 1 .. n : Append(webReply[c], a[n + 1])[i] = webReply[c][i]
            /\ Append(webReply[c], a[n + 1])[n + 1] = a[n + 1]
        BY <1>5, <1>8, <2>1
      <3>3. webReply' \in [WebConns -> Seq(WebPieces)]
        BY <2>1, <3>2 DEF WebInv, WebTypes
      <3> QED
        BY <1>5, <1>7, <2>1, <3>1, <3>2, <3>3
    <2>2. CASE UNCHANGED webReply /\ webMode # "http"
      BY <1>5, <1>7, <2>2 DEF WebInv, WebTypes
    <2>3. \/ UNCHANGED webReply /\ webMode = "https"
          \/ webReply' = [webReply EXCEPT ![c] = Append(@, a[n + 1])] /\ (webMode = "https" => n = Len(webReply[c]))
      BY <1>4 DEF WebGets
    <2>4. webMode \in {"http", "https"}
      BY <1>5 DEF WebInv, WebTypes
    <2> QED
      BY <1>7, <2>1, <2>2, <2>3, <2>4
  <1>13. WebTypes'
    <2>1. webStep' \in [WebConns -> Nat]
      BY <1>4, <1>5 DEF WebInv, WebTypes
    <2>2. webChild' \in [WebConns -> {"none", "recv", "send", "close", "done", "spin"}]
      BY <1>4, <1>9 DEF WebInv, WebTypes
    <2> QED
      BY <1>4, <1>12, <2>1, <2>2 DEF WebInv, WebTypes
  <1>14. ASSUME NEW d \in WebConns
         PROVE  WebServed(d)'
    <2>1. CASE d = c
      <3>1. WebAnswer(webRequest[c])' = a
        BY <1>1, <1>4 DEF WebAnswer
      <3>2. WebSoFar(c, a)'
        BY <1>3, <1>4, <1>5, <1>6, <1>7, <1>10, <1>11, <1>12 DEF WebSoFar
      <3> QED
        BY <1>3, <1>4, <1>5, <1>10, <2>1, <3>1, <3>2 DEF WebServed
    <2>2. CASE d # c
      BY <1>4, <1>10, <1>11, <1>12, <2>2, WebOther DEF WebInv
    <2> QED
      BY <2>1, <2>2
  <1> QED
    BY <1>10, <1>13, <1>14 DEF WebInv

\* WebReplyRight holds of every behaviour of server.c and server_https.c, for
\* any connections, requests and limit of processes: a child that has finished
\* with a request of the tests has sent what they expect, and over TLS its
\* client has got a beginning of it, wherever the parent's SSL_shutdown came.
THEOREM WebReplyCorrect == WebSpec => []WebReplyRight
  <1>1. WebInit => WebInv
    <2> SUFFICES ASSUME WebInit
                 PROVE  WebInv
      OBVIOUS
    <2>1. WebTypes /\ Len(webQueue) = 0 /\ ~WebHolding
      BY DEF WebInit, WebTypes, WebHolding
    <2>2. WebOnce
      BY <2>1 DEF WebOnce
    <2>3. \A c \in WebConns : WebServed(c)
      BY DEF WebInit, WebServed
    <2> QED
      BY <2>1, <2>2, <2>3 DEF WebInv
  <1>2. WebInv /\ [WebNext]_webVars => WebInv'
    <2> SUFFICES ASSUME WebInv, [WebNext]_webVars
                 PROVE  WebInv'
      OBVIOUS
    <2>1. ASSUME NEW m \in {"http", "https"}, NEW n \in WebLimits, WebListen(m, n)
          PROVE  WebInv'
      BY <2>1, WebListenKeeps
    <2>2. ASSUME NEW c \in WebConns, WebConnect(c)
          PROVE  WebInv'
      BY <2>2, WebConnectKeeps
    <2>3. ASSUME NEW c \in WebConns, NEW r \in WebRequests, WebSendRequest(c, r)
          PROVE  WebInv'
      BY <2>3, WebSendRequestKeeps
    <2>4. ASSUME NEW c \in WebConns, WebLeave(c, "closed") \/ WebLeave(c, "reset")
          PROVE  WebInv'
      BY <2>4, WebLeaveKeeps
    <2>5. CASE WebParentStep
      BY <2>5, WebAcceptKeeps, WebHandshakeKeeps, WebForkKeeps, WebParentShutdownKeeps DEF WebParentStep
    <2>6. ASSUME NEW c \in WebConns, WebChildStep(c)
          PROVE  WebInv'
      BY <2>6, WebRecvKeeps, WebSendKeeps, WebCloseKeeps DEF WebChildStep
    <2>7. CASE UNCHANGED webVars
      <3>1. UNCHANGED <<webMode, webQueue, webParent, webClient, webRequest, webChild, webStep, webReply>>
        BY <2>7 DEF webVars
      <3>2. WebTypes' /\ WebOnce'
        BY <3>1 DEF WebInv, WebTypes, WebOnce, WebHolding
      <3>3. \A d \in WebConns : WebServed(d)'
        BY <3>1, WebOther DEF WebInv
      <3> QED
        BY <3>2, <3>3 DEF WebInv
    <2> QED
      BY <2>1, <2>2, <2>3, <2>4, <2>5, <2>6, <2>7 DEF WebNext
  <1>3. WebInv => WebReplyRight
    <2> SUFFICES ASSUME WebInv, NEW c \in WebConns, webChild[c] = "done", webClient[c] = "sent",
                        WebTested(webRequest[c].path)
                 PROVE  /\ webMode = "http" => webReply[c] = WebExpected(webRequest[c])
                        /\ webMode # "http" => IsPrefix(webReply[c], WebExpected(webRequest[c]))
      BY DEF WebReplyRight
    <2> DEFINE a == WebExpected(webRequest[c])
               s == webReply[c]
    <2>1. webRequest[c] \in WebRequests /\ WebSoFar(c, WebAnswer(webRequest[c]))
      BY DEF WebInv, WebServed
    <2>2. WebSoFar(c, a) /\ a \in Seq(WebPieces)
      BY <2>1, WebAnswerExpected, WebAnswerPieces
    <2>3. s \in Seq(WebPieces) /\ webStep[c] \in Nat
      BY DEF WebInv, WebTypes
    <2>4. /\ Len(s) \in Nat /\ Len(a) \in Nat /\ Len(s) <= Len(a)
          /\ \A i \in 1 .. Len(s) : s[i] = a[i]
          /\ webMode = "http" => Len(s) = Len(a)
      BY <2>2, <2>3 DEF WebSoFar
    <2> HIDE DEF a, s
    <2>5. webMode = "http" => s = a
      BY <2>2, <2>3, <2>4, SeqEqual
    <2>6. SubSeq(s, 1, Len(s)) = SubSeq(a, 1, Len(s))
      BY <2>2, <2>3, <2>4
    <2>7. IsPrefix(s, a)
      BY <2>4, <2>6 DEF IsPrefix
    <2> QED
      BY <2>5, <2>7 DEF a, s
  <1> QED
    BY <1>1, <1>2, <1>3, PTL DEF WebSpec
=============================================================================
