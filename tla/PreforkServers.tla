--------------------------- MODULE PreforkServers ---------------------------
(***************************************************************************)
(* The server designs of unpv13e/server: iterative (serv00), a process per *)
(* connection (serv01), preforked children that call accept (serv02), with *)
(* a lock around it (serv03, serv04), children that get descriptors from   *)
(* the parent (serv05), a thread per connection (serv06), prethreaded      *)
(* servers with a lock (serv07), with a ring the main thread fills         *)
(* (serv08), and without a lock (serv09).                                  *)
(*                                                                         *)
(* A client sends one request line, asking for a size web_child accepts    *)
(* ("good") or one it does not ("bad"), and closes; web_child then answers *)
(* and returns, or calls err_quit.                                         *)
(***************************************************************************)
EXTENDS Integers, Sequences, FiniteSets

CONSTANTS
    SrvConns,       \* connections, a set of positive numbers
    SrvWorkers,     \* number of children or threads started in advance
    SrvMaxNcli,     \* MAXNCLI, the size of the ring
    SrvMessage      \* bound: bytes of an error message

ASSUME SrvAssumption ==
    /\ SrvConns \subseteq Nat \ {0} /\ IsFiniteSet(SrvConns)
    /\ SrvWorkers \in Nat \ {0} /\ SrvMaxNcli \in Nat \ {0} /\ SrvMessage \in Nat

\* The programs: how a worker gets a connection, whether it is a process (if
\* not, its err_quit takes the program with it), how many start in advance.
serv00 == [how |-> "accept", process |-> FALSE, pool |-> 1]
serv01 == [how |-> "fork",   process |-> TRUE,  pool |-> 0]
serv02 == [how |-> "accept", process |-> TRUE,  pool |-> SrvWorkers]
serv02m == serv02     \* and counts the connections of each child
serv03 == [how |-> "lock",   process |-> TRUE,  pool |-> SrvWorkers]  \* fcntl
serv03m == serv03
serv04 == [how |-> "lock",   process |-> TRUE,  pool |-> SrvWorkers]  \* shared mutex
serv05 == [how |-> "pass",   process |-> TRUE,  pool |-> SrvWorkers]
serv06 == [how |-> "fork",   process |-> FALSE, pool |-> 0]
serv07 == [how |-> "lock",   process |-> FALSE, pool |-> SrvWorkers]
serv08 == [how |-> "ring",   process |-> FALSE, pool |-> SrvWorkers]
serv09 == [how |-> "accept", process |-> FALSE, pool |-> SrvWorkers]

SrvPrograms ==
    {serv00, serv01, serv02, serv02m, serv03, serv03m, serv04, serv05, serv06, serv07,
     serv08, serv09}

\* A worker started for a connection has its number.
SrvIds == SrvConns \cup (1 .. SrvWorkers)

VARIABLES
    srvProg,
    srvEnded,       \* "no", or why the program has ended
    srvConn,        \* "idle", "good", "bad" (sent), "answered", "dropped"
    srvQueue,       \* connections the kernel has completed, in order
    srvHand,        \* connfd of the main program, 0: none
    srvWork,        \* step and connection of every worker
    srvLock,        \* the worker that holds the lock around accept, 0: none
    srvRing,        \* serv08: clifd, iget, iput
    srvParent,      \* serv05: child_status, navail, what is in the pipes
    srvChld         \* serv01: zombies, SIGCHLD pending, sig_chld running

srvVars == <<srvProg, srvEnded, srvConn, srvQueue, srvHand, srvWork, srvLock,
             srvRing, srvParent, srvChld>>

SrvInit ==
    /\ srvProg = [how |-> "off", process |-> FALSE, pool |-> 0]
    /\ srvEnded = "no"
    /\ srvConn = [c \in SrvConns |-> "idle"]
    /\ srvQueue = <<>>
    /\ srvHand = 0
    /\ srvWork = [w \in SrvIds |-> [step |-> "none", conn |-> 0]]
    /\ srvLock = 0
    /\ srvRing = [clifd |-> [i \in 0 .. SrvMaxNcli - 1 |-> 0], iget |-> 0, iput |-> 0]
    /\ srvParent = [status |-> [w \in SrvIds |-> 0], navail |-> SrvWorkers,
                    passed |-> [w \in SrvIds |-> 0], bytes |-> [w \in SrvIds |-> 0]]
    /\ srvChld = [zombies |-> {}, pending |-> FALSE, running |-> FALSE]

\* main up to its loop: listen and start the workers.
SrvStart(prog) ==
    /\ srvProg.how = "off"
    /\ srvProg' = prog
    /\ srvWork' = [w \in SrvIds |->
          [step |-> IF w \in 1 .. prog.pool THEN "ready" ELSE "none", conn |-> 0]]
    /\ UNCHANGED <<srvEnded, srvConn, srvQueue, srvHand, srvLock, srvRing, srvParent, srvChld>>

\* client.c: connect and send the request.
SrvClient(c, request) ==
    /\ srvProg.how # "off"
    /\ srvEnded = "no"
    /\ srvConn[c] = "idle"
    /\ srvConn' = [srvConn EXCEPT ![c] = request]
    /\ srvQueue' = Append(srvQueue, c)
    /\ UNCHANGED <<srvProg, srvEnded, srvHand, srvWork, srvLock, srvRing, srvParent, srvChld>>
-----------------------------------------------------------------------------
(* The main program.                                                       *)

\* accept by the main program of serv01, serv05, serv06 and serv08.  The
\* parent of serv05 looks at the listening socket only while navail > 0; a
\* handler that interrupts accept delays it only.
SrvMainAccept ==
    /\ srvEnded = "no"
    /\ srvProg.how \in {"fork", "pass", "ring"}
    /\ srvProg.how = "pass" => srvParent.navail > 0
    /\ ~srvChld.running
    /\ srvHand = 0
    /\ srvQueue # <<>>
    /\ srvHand' = Head(srvQueue)
    /\ srvQueue' = Tail(srvQueue)
    /\ UNCHANGED <<srvProg, srvEnded, srvConn, srvWork, srvLock, srvRing, srvParent, srvChld>>

\* fork or pthread_create; the parent closes its copy of connfd.
SrvFork ==
    /\ srvEnded = "no"
    /\ srvProg.how = "fork"
    /\ ~srvChld.running
    /\ srvHand # 0
    /\ srvWork' = [srvWork EXCEPT ![srvHand] = [step |-> "serving", conn |-> srvHand]]
    /\ srvHand' = 0
    /\ UNCHANGED <<srvProg, srvEnded, srvConn, srvQueue, srvLock, srvRing, srvParent, srvChld>>

SrvIdle == {w \in 1 .. srvProg.pool : srvParent.status[w] = 0}

\* navail--
SrvTaken(n) == n - 1

\* serv05: the first child marked idle gets the descriptor.  Write_fd to a
\* child that has died raises SIGPIPE.
SrvPassFd ==
    /\ srvEnded = "no"
    /\ srvProg.how = "pass"
    /\ srvHand # 0
    /\ IF SrvIdle = {}
       THEN srvEnded' = "no available children" /\ UNCHANGED <<srvHand, srvParent>>
       ELSE LET w == CHOOSE v \in SrvIdle : \A u \in SrvIdle : v <= u
            IN  /\ srvEnded' = IF srvWork[w].step = "dead" THEN "sigpipe" ELSE "no"
                /\ srvParent' = [srvParent EXCEPT !.status[w] = 1, !.navail = SrvTaken(@),
                                                  !.passed[w] = srvHand]
                /\ srvHand' = 0
    /\ UNCHANGED <<srvProg, srvConn, srvQueue, srvWork, srvLock, srvRing, srvChld>>

\* err_quit("child %d terminated unexpectedly")
SrvAtEof == "child terminated"

\* serv05: a byte from child w makes it available; the end of its pipe ends
\* the server.
SrvParentRead(w) ==
    /\ srvEnded = "no"
    /\ srvProg.how = "pass"
    /\ srvHand = 0
    /\ \/ /\ srvParent.bytes[w] > 0
          /\ srvParent' = [srvParent EXCEPT !.bytes[w] = @ - 1, !.status[w] = 0, !.navail = @ + 1]
          /\ UNCHANGED srvEnded
       \/ /\ srvParent.bytes[w] = 0
          /\ srvWork[w].step = "dead"
          /\ srvEnded' = SrvAtEof
          /\ UNCHANGED srvParent
    /\ UNCHANGED <<srvProg, srvConn, srvQueue, srvHand, srvWork, srvLock, srvRing, srvChld>>

SrvWrap(i) == (i + 1) % SrvMaxNcli

\* pthread_cond_signal: one of the threads that wait, if any, goes on.
SrvSignal ==
    LET waiting == {w \in SrvIds : srvWork[w].step = "waiting"}
    IN  IF waiting = {} THEN srvWork' = srvWork
        ELSE \E w \in waiting : srvWork' = [srvWork EXCEPT ![w].step = "woken"]

\* serv08: main puts the descriptor into the ring, under the mutex.
SrvPut ==
    /\ srvEnded = "no"
    /\ srvProg.how = "ring"
    /\ srvHand # 0
    /\ LET iput == SrvWrap(srvRing.iput)
       IN  /\ srvRing' = [srvRing EXCEPT !.clifd[srvRing.iput] = srvHand, !.iput = iput]
           /\ IF iput = srvRing.iget
              THEN srvEnded' = "iput = iget" /\ UNCHANGED srvWork
              ELSE SrvSignal /\ UNCHANGED srvEnded
    /\ srvHand' = 0
    /\ UNCHANGED <<srvProg, srvConn, srvQueue, srvLock, srvParent, srvChld>>

\* serv01: SIGCHLD is delivered.
SrvChldStart ==
    /\ srvEnded = "no"
    /\ srvChld.pending
    /\ ~srvChld.running
    /\ srvChld' = [srvChld EXCEPT !.pending = FALSE, !.running = TRUE]
    /\ UNCHANGED <<srvProg, srvEnded, srvConn, srvQueue, srvHand, srvWork, srvLock,
                   srvRing, srvParent>>

\* The while of sig_chld goes on as long as waitpid finds a dead child.
SrvGoesOn(zombies) == zombies # {}

\* sig_chld: one waitpid with WNOHANG.
SrvChldWait ==
    /\ srvEnded = "no"
    /\ srvChld.running
    /\ \/ /\ srvChld.zombies = {}
          /\ srvChld' = [srvChld EXCEPT !.running = FALSE]
       \/ \E z \in srvChld.zombies :
             srvChld' = [srvChld EXCEPT !.zombies = @ \ {z},
                                        !.running = SrvGoesOn(srvChld.zombies)]
    /\ UNCHANGED <<srvProg, srvEnded, srvConn, srvQueue, srvHand, srvWork, srvLock,
                   srvRing, srvParent>>

\* sig_int: preforked children are killed and waited for, threads end with the
\* process, the children of serv01 go on.
SrvInterrupt ==
    /\ srvEnded = "no"
    /\ srvProg.how # "off"
    /\ srvEnded' = "interrupted"
    /\ srvWork' = [w \in SrvIds |->
          IF srvProg.how = "fork" /\ srvProg.process THEN srvWork[w]
          ELSE [step |-> "dead", conn |-> 0]]
    /\ UNCHANGED <<srvProg, srvConn, srvQueue, srvHand, srvLock, srvRing, srvParent, srvChld>>
-----------------------------------------------------------------------------
(* The workers.                                                            *)

\* Children of a server that has ended go on if they are processes.
SrvRuns == srvEnded = "no" \/ srvProg.process

\* my_lock_wait, pthread_mutex_lock
SrvLockWait(w) ==
    /\ SrvRuns
    /\ srvProg.how = "lock"
    /\ srvWork[w].step = "ready"
    /\ srvLock = 0
    /\ srvLock' = w
    /\ srvWork' = [srvWork EXCEPT ![w].step = "locked"]
    /\ UNCHANGED <<srvProg, srvEnded, srvConn, srvQueue, srvHand, srvRing, srvParent, srvChld>>

\* Mutant: the lock is not released.
SrvReleasedNot(w) == srvLock

\* my_lock_release, pthread_mutex_unlock
SrvReleased(w) == 0

\* accept in a worker, and the release of the lock.
SrvAccept(w) ==
    /\ SrvRuns
    /\ \/ srvProg.how = "accept" /\ srvWork[w].step = "ready"
       \/ srvProg.how = "lock" /\ srvWork[w].step = "locked"
    /\ srvQueue # <<>>
    /\ srvQueue' = Tail(srvQueue)
    /\ srvWork' = [srvWork EXCEPT ![w] = [step |-> "serving", conn |-> Head(srvQueue)]]
    /\ srvLock' = SrvReleased(w)
    /\ UNCHANGED <<srvProg, srvEnded, srvConn, srvHand, srvRing, srvParent, srvChld>>

\* serv05: Read_fd gets a descriptor, or the end of the pipe.
SrvReadFd(w) ==
    /\ SrvRuns
    /\ srvProg.how = "pass"
    /\ srvWork[w].step = "ready"
    /\ \/ /\ srvParent.passed[w] # 0
          /\ srvWork' = [srvWork EXCEPT ![w] = [step |-> "serving", conn |-> srvParent.passed[w]]]
          /\ srvParent' = [srvParent EXCEPT !.passed[w] = 0]
       \/ /\ srvParent.passed[w] = 0
          /\ srvEnded # "no"
          /\ srvWork' = [srvWork EXCEPT ![w].step = "dead"]
          /\ UNCHANGED srvParent
    /\ UNCHANGED <<srvProg, srvEnded, srvConn, srvQueue, srvHand, srvLock, srvRing, srvChld>>

\* Mutant: a thread that was woken does not look at the ring again.
SrvMustWaitOnce(step) == srvRing.iget = srvRing.iput /\ step # "woken"

\* while (iget == iput)
SrvMustWait(step) == srvRing.iget = srvRing.iput

\* serv08: a thread has the mutex; it waits, or takes the next descriptor.
SrvGet(w) ==
    /\ srvEnded = "no"
    /\ srvProg.how = "ring"
    /\ srvWork[w].step \in {"ready", "woken"}
    /\ IF SrvMustWait(srvWork[w].step)
       THEN srvWork' = [srvWork EXCEPT ![w].step = "waiting"] /\ UNCHANGED srvRing
       ELSE /\ srvWork' = [srvWork EXCEPT ![w] = [step |-> "serving",
                                                  conn |-> srvRing.clifd[srvRing.iget]]]
            /\ srvRing' = [srvRing EXCEPT !.iget = SrvWrap(@)]
    /\ UNCHANGED <<srvProg, srvEnded, srvConn, srvQueue, srvHand, srvLock, srvParent, srvChld>>

\* What a worker's end does: SIGCHLD for serv01, the text of err_quit in the
\* pipe of serv05, where the child's stderr is.
SrvDies(w, text) ==
    /\ srvWork' = [srvWork EXCEPT ![w] = [step |-> "dead", conn |-> 0]]
    /\ srvParent' = [srvParent EXCEPT !.bytes[w] =
          IF srvProg.how = "pass" /\ text THEN @ + SrvMessage ELSE @]
    /\ srvChld' = IF srvProg.how = "fork" /\ srvProg.process
                  THEN [srvChld EXCEPT !.zombies = @ \cup {w}, !.pending = TRUE] ELSE srvChld

\* web_child of a good request, Close, and what the worker does next.
SrvAnswer(w) ==
    /\ SrvRuns
    /\ srvWork[w].step = "serving"
    /\ srvConn[srvWork[w].conn] = "good"
    /\ srvConn' = [srvConn EXCEPT ![srvWork[w].conn] = "answered"]
    /\ IF srvProg.how = "fork" \/ (srvProg.how = "pass" /\ srvEnded # "no")
       THEN SrvDies(w, FALSE)
       ELSE /\ srvWork' = [srvWork EXCEPT ![w] = [step |-> "ready", conn |-> 0]]
            /\ srvParent' = [srvParent EXCEPT !.bytes[w] = IF srvProg.how = "pass" THEN @ + 1 ELSE @]
            /\ UNCHANGED srvChld
    /\ UNCHANGED <<srvProg, srvEnded, srvQueue, srvHand, srvLock, srvRing>>

\* web_child of a bad request: err_quit.
SrvQuit(w) ==
    /\ SrvRuns
    /\ srvWork[w].step = "serving"
    /\ srvConn[srvWork[w].conn] = "bad"
    /\ srvConn' = [srvConn EXCEPT ![srvWork[w].conn] = "dropped"]
    /\ SrvDies(w, TRUE)
    /\ srvEnded' = IF srvEnded = "no" /\ ~srvProg.process THEN "bad request" ELSE srvEnded
    /\ UNCHANGED <<srvProg, srvQueue, srvHand, srvLock, srvRing>>

SrvMainStep == SrvMainAccept \/ SrvFork \/ SrvPassFd \/ SrvPut
SrvHandlerStep == SrvChldStart \/ SrvChldWait
SrvWorkerStep(w) ==
    SrvLockWait(w) \/ SrvAccept(w) \/ SrvReadFd(w) \/ SrvGet(w) \/ SrvAnswer(w) \/ SrvQuit(w)

SrvNext ==
    \/ \E p \in SrvPrograms : SrvStart(p)
    \/ \E c \in SrvConns : SrvClient(c, "good") \/ SrvClient(c, "bad")
    \/ SrvMainStep \/ SrvHandlerStep \/ SrvInterrupt
    \/ \E w \in SrvIds : SrvParentRead(w) \/ SrvWorkerStep(w)

\* Every process and thread runs, and the parent's select loop serves every
\* descriptor that stays ready.
SrvFairness ==
    /\ WF_srvVars(SrvMainStep) /\ WF_srvVars(SrvHandlerStep)
    /\ \A w \in SrvIds : WF_srvVars(SrvWorkerStep(w)) /\ WF_srvVars(SrvParentRead(w))

SrvSpec == SrvInit /\ [][SrvNext]_srvVars /\ SrvFairness
-----------------------------------------------------------------------------
\* The positions of the ring that hold descriptors not yet taken.
SrvFilled ==
    {i \in 0 .. SrvMaxNcli - 1 :
        (i - srvRing.iget) % SrvMaxNcli < (srvRing.iput - srvRing.iget) % SrvMaxNcli}

\* While the server runs, a connection whose request is open is in exactly one
\* place on its way from the listen queue through the main program, a pipe or
\* the ring to one worker: neither passing descriptors nor the ring shared by
\* the threads loses one or hands it out twice.
SrvOnePlace ==
    srvEnded = "no" => \A c \in SrvConns :
        LET places == Cardinality({i \in DOMAIN srvQueue : srvQueue[i] = c})
                    + (IF srvHand = c THEN 1 ELSE 0)
                    + Cardinality({i \in SrvFilled : srvRing.clifd[i] = c})
                    + Cardinality({w \in SrvIds : srvParent.passed[w] = c})
                    + Cardinality({w \in SrvIds : srvWork[w].conn = c})
        IN  places = IF srvConn[c] \in {"good", "bad"} THEN 1 ELSE 0

\* As long as no child of serv05 has died, navail and child_status, which the
\* parent learns from single bytes on the pipes, never promise a child that is
\* not there: navail is the number of children marked idle, such a child waits
\* in read_fd with an empty pipe, and the parent never finds none.
SrvAvailable ==
    (srvProg.how = "pass" /\ \A w \in SrvIds : srvWork[w].step # "dead") =>
        /\ srvParent.navail = Cardinality(SrvIdle)
        /\ srvEnded # "no available children"
        /\ \A w \in SrvIdle : srvWork[w].step = "ready" /\ srvParent.passed[w] = 0
                                 /\ srvParent.bytes[w] = 0

\* A good request is answered while the server and, where workers were started
\* in advance, one of them are alive.
SrvServed ==
    \A c \in SrvConns :
        (srvConn[c] = "good") ~> \/ srvConn[c] = "answered" \/ srvEnded # "no"
                                 \/ srvProg.pool > 0
                                       /\ \A w \in 1 .. srvProg.pool : srvWork[w].step = "dead"

\* serv01 leaves no dead child behind, although SIGCHLD of several children
\* that end together is delivered once.
SrvReaped ==
    \A w \in SrvIds : (w \in srvChld.zombies) ~> (w \notin srvChld.zombies \/ srvEnded # "no")

\* A child of serv05 that dies (a bad request) ends the server: the parent
\* reaches the end of its pipe, after the bytes of the error message have made
\* it take the child for available.
SrvNoticed ==
    \A w \in SrvIds :
        (srvProg.how = "pass" /\ srvWork[w].step = "dead") ~> (srvEnded # "no")

\* Handing connections over: each is in one place, and the parent of serv05
\* knows its children.
SrvSafe ==
    /\ SrvOnePlace
    /\ SrvAvailable
=============================================================================
