----------------------------- MODULE MCServers ------------------------------
(***************************************************************************)
(* The servers on small instances: the web server of the first homework,   *)
(* and the preforked, prethreaded and echo servers and the ICMP daemon of  *)
(* unpv13e. A behaviour is of one program.                                 *)
(***************************************************************************)
EXTENDS WebServer, PreforkServers, EchoServers, Icmpd, TLC

VARIABLE program    \* the program this behaviour is of

mcVars == <<program, webVars, srvVars, esvVars, icdVars>>

MCPath(found, dir, dot, slash, pct, slashpct, type, decoded) ==
    [found |-> found, dir |-> dir, dot |-> dot, slash |-> slash, pct |-> pct,
     slashpct |-> slashpct, type |-> type, decoded |-> decoded]

\* A file; a directory without and with its slash; a missing name; names with a
\* percent sign that decode to a file and to nothing; a name that is not found.
MCWebPaths ==
    {MCPath(TRUE, FALSE, TRUE, FALSE, FALSE, FALSE, TRUE, TRUE),
     MCPath(TRUE, TRUE, FALSE, FALSE, FALSE, FALSE, FALSE, TRUE),
     MCPath(TRUE, TRUE, FALSE, TRUE, FALSE, FALSE, FALSE, TRUE),
     MCPath(FALSE, FALSE, FALSE, FALSE, FALSE, FALSE, FALSE, FALSE),
     MCPath(FALSE, FALSE, TRUE, FALSE, TRUE, TRUE, TRUE, TRUE),
     MCPath(FALSE, FALSE, TRUE, FALSE, FALSE, FALSE, TRUE, FALSE),
     MCPath(FALSE, FALSE, TRUE, FALSE, TRUE, TRUE, TRUE, FALSE)}

\* Three clients for a table of two; the third asks for a port the first had.
MCIcdAddr == 1 :> <<4, 1>> @@ 2 :> <<6, 1>> @@ 3 :> <<4, 1>>
MCIcdPass == 1 :> "fd" @@ 2 :> "bare" @@ 3 :> "byte"

-----------------------------------------------------------------------------
Init ==
    /\ program \in {"webserver", "prefork", "echoservers", "icmpd"}
    /\ WebInit /\ SrvInit /\ EsvInit /\ IcdInit

\* A step of one program leaves the variables of the others alone.
WebServerOnly ==
    /\ program = "webserver"
    /\ UNCHANGED <<program, srvVars, esvVars, icdVars>>

PreforkServersOnly ==
    /\ program = "prefork"
    /\ UNCHANGED <<program, webVars, esvVars, icdVars>>

EchoServersOnly ==
    /\ program = "echoservers"
    /\ UNCHANGED <<program, webVars, srvVars, icdVars>>

IcmpdOnly ==
    /\ program = "icmpd"
    /\ UNCHANGED <<program, webVars, srvVars, esvVars>>

Next ==
    \/ WebServerOnly /\ WebNext
    \/ PreforkServersOnly /\ SrvNext
    \/ EchoServersOnly /\ EsvNext
    \/ IcmpdOnly /\ IcdNext

\* Each program is scheduled as its module says.
Fairness ==
    /\ WF_webVars(program = "webserver" /\ (WebAccept \/ WebFork \/ WebParentShutdown))
    /\ \A c \in WebConns :
          /\ WF_webVars(program = "webserver" /\ WebChildStep(c))
    /\ WF_srvVars(program = "prefork" /\ SrvMainStep)
    /\ WF_srvVars(program = "prefork" /\ SrvHandlerStep)
    /\ \A w \in SrvIds :
          /\ WF_srvVars(program = "prefork" /\ SrvWorkerStep(w))
          /\ WF_srvVars(program = "prefork" /\ SrvParentRead(w))
    /\ WF_esvVars(program = "echoservers" /\ EsvMainStep)
    /\ \A c \in EsvConns :
          /\ WF_esvVars(program = "echoservers" /\ EsvWorkerStep(c))
    /\ WF_icdVars(program = "icmpd" /\ IcdDaemonStep)
    /\ \A c \in IcdClients :
          /\ WF_icdVars(program = "icmpd" /\ IcdClientStep(c))

Spec == Init /\ [][Next]_mcVars /\ Fairness

\* Every server goes on serving: requests are answered and ICMP errors passed
\* on, unless the server has ended for the reasons its module names; dead
\* children are noticed and reaped, and process slots last as long as they
\* should.
EveryoneServed ==
    /\ WebSlots
    /\ WebAnswered
    /\ SrvServed
    /\ SrvReaped
    /\ SrvNoticed
    /\ EsvServed
    /\ EsvReaped
    /\ IcdNoneMissed
    /\ IcdAnswered
=============================================================================
