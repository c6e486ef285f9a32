------------------------------ MODULE WebClient ------------------------------
(***************************************************************************)
(* The web clients of unpv13e that fetch a home page and then several      *)
(* files over at most maxnconn connections at a time: threads/web01.c,     *)
(* web02.c and web03.c with a thread per file, and nonblock/web.c with     *)
(* nonblocking connects and one select loop ("nonb").                      *)
(*                                                                         *)
(* A thread is at "none", "connect" (Tcp_connect, then the GET command),   *)
(* "read" (until the server closes), "report" (f_flags is F_DONE, ndone is *)
(* not counted yet), "ended" or "joined"; in nonblock/web.c the same words *)
(* stand for the connection.                                               *)
(***************************************************************************)
EXTENDS Integers, FiniteSets

CONSTANTS WbcFiles, WbcMaxConn

ASSUME WbcFilesAssumption == WbcFiles \in Nat \ {0} /\ WbcMaxConn \in Nat \ {0}

VARIABLES
    wbcProg,        \* "off", "web01", "web02", "web03", "nonb"
    wbcMain,        \* "fill", "mark", "wait", "scan", "exit", "error"
    wbcAt,          \* index of main's loop over the files
    wbcThread, wbcFlags,
    wbcNconn, wbcToConn, wbcToRead, wbcNdone,
    wbcLock         \* ndone_mutex is held by main

wbcVars == <<wbcProg, wbcMain, wbcAt, wbcThread, wbcFlags, wbcNconn, wbcToConn,
             wbcToRead, wbcNdone, wbcLock>>

WbcInit ==
    /\ wbcProg = "off" /\ wbcMain = "fill" /\ wbcAt = 1
    /\ wbcThread = [f \in 1 .. WbcFiles |-> "none"]
    /\ wbcFlags = [f \in 1 .. WbcFiles |-> "0"]
    /\ wbcNconn = 0 /\ wbcToConn = WbcFiles /\ wbcToRead = WbcFiles /\ wbcNdone = 0
    /\ wbcLock = FALSE

\* home_page: the home page is read over a connection of its own, or an error
\* ends the program.
home_page == wbcMain' \in {"fill", "error"}

\* main up to its loop.
WbcStart(prog) ==
    /\ wbcProg = "off"
    /\ wbcProg' = prog
    /\ home_page
    /\ UNCHANGED <<wbcAt, wbcThread, wbcFlags, wbcNconn, wbcToConn, wbcToRead,
                   wbcNdone, wbcLock>>

\* write_get_cmd: the command goes out and the reply may come.
write_get_cmd(f) ==
    /\ wbcThread' = [wbcThread EXCEPT ![f] = "read"]
    /\ wbcFlags' = [wbcFlags EXCEPT ![f] = "reading"]

\* start_connect of nonblock/web.c: connect is in progress, or already done.
start_connect(f) ==
    \/ /\ wbcThread' = [wbcThread EXCEPT ![f] = "connect"]
       /\ wbcFlags' = [wbcFlags EXCEPT ![f] = "connecting"]
    \/ write_get_cmd(f)

\* The inner while: a connection for the first file nobody has begun, with a
\* thread or with start_connect.  web02 sets the flag only after it has created the thread.
WbcFill ==
    /\ wbcProg # "off"
    /\ wbcMain = "fill"
    /\ wbcToRead > 0 /\ wbcNconn < WbcMaxConn /\ wbcToConn > 0
    /\ LET free == {f \in 1 .. WbcFiles : wbcFlags[f] = "0"}
       IN  IF free = {}
           THEN wbcMain' = "error"
                   /\ UNCHANGED <<wbcAt, wbcThread, wbcFlags, wbcNconn, wbcToConn>>
           ELSE LET f == CHOOSE g \in free : \A h \in free : g <= h
                IN  /\ wbcAt' = f
                    /\ wbcNconn' = wbcNconn + 1 /\ wbcToConn' = wbcToConn - 1
                    /\ wbcMain' = IF wbcProg = "web02" THEN "mark" ELSE "fill"
                    /\ \/ wbcProg = "nonb" /\ start_connect(f)
                       \/ /\ wbcProg # "nonb"
                          /\ wbcThread' = [wbcThread EXCEPT ![f] = "connect"]
                          /\ wbcFlags' = IF wbcProg = "web02" THEN wbcFlags
                                         ELSE [wbcFlags EXCEPT ![f] = "connecting"]
    /\ UNCHANGED <<wbcProg, wbcToRead, wbcNdone, wbcLock>>

\* web02: file[i].f_flags = F_CONNECTING
WbcMark ==
    /\ wbcMain = "mark"
    /\ wbcFlags' = [wbcFlags EXCEPT ![wbcAt] = "connecting"]
    /\ wbcMain' = "fill"
    /\ UNCHANGED <<wbcProg, wbcAt, wbcThread, wbcNconn, wbcToConn, wbcToRead, wbcNdone, wbcLock>>

\* All connections there may be are there; or everything has been read.
WbcFilled ==
    /\ wbcProg # "off"
    /\ wbcMain = "fill"
    /\ wbcToRead = 0 \/ wbcNconn >= WbcMaxConn \/ wbcToConn = 0
    /\ wbcMain' = IF wbcToRead = 0 THEN "exit" ELSE "wait"
    /\ UNCHANGED <<wbcProg, wbcAt, wbcThread, wbcFlags, wbcNconn, wbcToConn, wbcToRead,
                   wbcNdone, wbcLock>>

\* nlefttoread--
WbcOneLess(n) == n - 1

\* web01: thr_join of whichever thread ends.
WbcJoinAny ==
    /\ wbcProg = "web01"
    /\ wbcMain = "wait"
    /\ \E f \in 1 .. WbcFiles :
          /\ wbcThread[f] = "ended"
          /\ wbcThread' = [wbcThread EXCEPT ![f] = "joined"]
    /\ wbcNconn' = wbcNconn - 1 /\ wbcToRead' = WbcOneLess(wbcToRead)
    /\ wbcMain' = "fill"
    /\ UNCHANGED <<wbcProg, wbcAt, wbcFlags, wbcToConn, wbcNdone, wbcLock>>

\* web02 looks whether ndone > 0 and goes on at once, web03 waits for it on
\* the condition; the loop over the files is run with the mutex held.
WbcLook ==
    /\ wbcProg \in {"web02", "web03"}
    /\ wbcMain = "wait"
    /\ \/ /\ wbcNdone > 0
          /\ wbcMain' = "scan" /\ wbcAt' = 1 /\ wbcLock' = TRUE
       \/ /\ wbcNdone = 0 /\ wbcProg = "web02"
          /\ wbcMain' = "fill" /\ UNCHANGED <<wbcAt, wbcLock>>
    /\ UNCHANGED <<wbcProg, wbcThread, wbcFlags, wbcNconn, wbcToConn, wbcToRead, wbcNdone>>

\* Mutant: a joined thread stays in ndone.
WbcCountedKeeps(n) == n

\* ndone--
WbcCounted(n) == n - 1

\* One turn of that loop; pthread_join waits for the thread to end.
WbcScan ==
    /\ wbcMain = "scan"
    /\ \/ /\ wbcAt > WbcFiles
          /\ wbcMain' = "fill" /\ wbcLock' = FALSE
          /\ UNCHANGED <<wbcAt, wbcThread, wbcFlags, wbcNconn, wbcToRead, wbcNdone>>
       \/ /\ wbcAt <= WbcFiles
          /\ wbcAt' = wbcAt + 1
          /\ IF wbcFlags[wbcAt] = "done"
             THEN /\ wbcThread[wbcAt] = "ended"
                  /\ wbcThread' = [wbcThread EXCEPT ![wbcAt] = "joined"]
                  /\ wbcFlags' = [wbcFlags EXCEPT ![wbcAt] = "joined"]
                  /\ wbcNdone' = WbcCounted(wbcNdone)
                  /\ wbcNconn' = wbcNconn - 1
                  /\ wbcToRead' = WbcOneLess(wbcToRead)
             ELSE UNCHANGED <<wbcThread, wbcFlags, wbcNconn, wbcToRead, wbcNdone>>
          /\ UNCHANGED <<wbcMain, wbcLock>>
    /\ UNCHANGED <<wbcProg, wbcToConn>>

\* nonblock/web.c: select reports connection f: it has been made (write_get_cmd),
\* it has failed (the write then ends the program), or its reply has ended.
WbcSelected(f) ==
    /\ wbcProg = "nonb"
    /\ wbcMain = "wait"
    /\ \/ /\ wbcFlags[f] = "connecting" /\ write_get_cmd(f)
          /\ wbcMain' = "fill"
          /\ UNCHANGED <<wbcNconn, wbcToRead>>
       \/ /\ wbcFlags[f] = "connecting"
          /\ wbcMain' = "error"
          /\ UNCHANGED <<wbcThread, wbcFlags, wbcNconn, wbcToRead>>
       \/ /\ wbcFlags[f] = "reading"
          /\ wbcThread' = [wbcThread EXCEPT ![f] = "ended"]
          /\ wbcFlags' = [wbcFlags EXCEPT ![f] = "done"]
          /\ wbcNconn' = wbcNconn - 1 /\ wbcToRead' = WbcOneLess(wbcToRead)
          /\ wbcMain' = "fill"
    /\ UNCHANGED <<wbcProg, wbcAt, wbcToConn, wbcNdone, wbcLock>>

\* do_get_read, up to and with write_get_cmd; a refused connection ends the
\* program.
WbcGet(f) ==
    /\ wbcProg # "nonb" /\ wbcMain \notin {"exit", "error"}
    /\ wbcThread[f] = "connect"
    /\ \/ write_get_cmd(f) /\ UNCHANGED wbcMain
       \/ wbcMain' = "error" /\ UNCHANGED <<wbcThread, wbcFlags>>
    /\ UNCHANGED <<wbcProg, wbcAt, wbcNconn, wbcToConn, wbcToRead, wbcNdone, wbcLock>>

\* do_get_read: the end of the reply.
WbcRead(f) ==
    /\ wbcProg # "nonb" /\ wbcMain \notin {"exit", "error"}
    /\ wbcThread[f] = "read"
    /\ wbcFlags' = [wbcFlags EXCEPT ![f] = "done"]
    /\ wbcThread' = [wbcThread EXCEPT ![f] = IF wbcProg = "web01" THEN "ended" ELSE "report"]
    /\ UNCHANGED <<wbcProg, wbcMain, wbcAt, wbcNconn, wbcToConn, wbcToRead, wbcNdone, wbcLock>>

\* web02, web03: ndone++ under the mutex.
WbcReport(f) ==
    /\ wbcThread[f] = "report" /\ wbcMain \notin {"exit", "error"}
    /\ ~wbcLock
    /\ wbcNdone' = wbcNdone + 1
    /\ wbcThread' = [wbcThread EXCEPT ![f] = "ended"]
    /\ UNCHANGED <<wbcProg, wbcMain, wbcAt, wbcFlags, wbcNconn, wbcToConn, wbcToRead, wbcLock>>

WbcMainStep == WbcFill \/ WbcMark \/ WbcFilled \/ WbcJoinAny \/ WbcLook \/ WbcScan
WbcThreadStep(f) == WbcGet(f) \/ WbcRead(f) \/ WbcReport(f) \/ WbcSelected(f)
WbcNext ==
    \/ \E p \in {"web01", "web02", "web03", "nonb"} : WbcStart(p)
    \/ WbcMainStep
    \/ \E f \in 1 .. WbcFiles : WbcThreadStep(f)

\* The threads run, servers answer; web02 yields in every turn of its loop.
WbcFairness ==
    /\ WF_wbcVars(WbcMainStep)
    /\ \A f \in 1 .. WbcFiles : WF_wbcVars(WbcThreadStep(f))
WbcSpec == WbcInit /\ [][WbcNext]_wbcVars /\ WbcFairness
-----------------------------------------------------------------------------
\* The counters that main and the threads share agree with the threads: ndone
\* counts the threads that have ended and are not joined, nconn and
\* nlefttoread the files in progress and to come, and main exits with all of
\* them read.
WbcCountsAgree ==
    LET at(steps) == Cardinality({f \in 1 .. WbcFiles : wbcThread[f] \in steps})
    IN  /\ wbcProg \in {"web02", "web03"} => wbcNdone = at({"ended"})
        /\ wbcProg \in {"web01", "web02", "web03"} =>
              wbcNconn = at({"connect", "read", "report", "ended"}) /\ wbcNconn <= WbcMaxConn
        /\ wbcMain = "exit" => \A f \in 1 .. WbcFiles : wbcThread[f] \in {"ended", "joined"}

\* web02, web03: main, with the mutex, waits for a thread that waits for the
\* mutex to report its end.
WbcDeadlocked ==
    /\ wbcMain = "scan" /\ wbcAt <= WbcFiles
    /\ wbcFlags[wbcAt] = "done" /\ wbcThread[wbcAt] = "report"

\* web02: main has overwritten the F_DONE of a thread that was faster, and will
\* not find it.
WbcOverlooked ==
    \E f \in 1 .. WbcFiles : wbcThread[f] = "ended" /\ wbcFlags[f] = "connecting"

\* Every client that has begun reads all the files, whatever the order in which
\* connections and threads end, unless a connection fails or one of the two
\* races above bites: the join with the mutex held in web02 and web03, and the
\* flag set after pthread_create in web02.
WbcEnds ==
    (wbcProg # "off") ~> \/ wbcMain \in {"exit", "error"}
                         \/ wbcProg \in {"web02", "web03"} /\ WbcDeadlocked
                         \/ wbcProg = "web02" /\ WbcOverlooked
=============================================================================
