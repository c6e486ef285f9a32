------------------------------ MODULE WebServer ------------------------------
(***************************************************************************)
(* The static web server of hw1: server.c, and server_https.c, the same    *)
(* program over TLS.  The parent accepts connections and forks a child for *)
(* each; nobody waits for the children, so every one keeps its process     *)
(* slot for ever.                                                          *)
(*                                                                         *)
(* A requested path is a record of what serve_file asks about it: whether  *)
(* it can be opened (found) and is a directory (dir), has a dot, ends in a *)
(* slash, contains a percent sign (pct), one after a slash (slashpct), has *)
(* an extension with a content type (type), and can be opened after        *)
(* url_decode (decoded).  An answer is the sequence of pieces the child    *)
(* sends.  After fork the two processes own a copy each of the TLS session *)
(* with its own record counter, over one connection.                       *)
(***************************************************************************)
EXTENDS Integers, Sequences, FiniteSets, SequencesExt

CONSTANTS
    WebConns,       \* connections
    WebPaths,       \* requested paths
    WebLimits       \* numbers of processes the server may be allowed to start

ASSUME WebPathsAssumption ==
    WebPaths \subseteq [found : BOOLEAN, dir : BOOLEAN, dot : BOOLEAN, slash : BOOLEAN,
                        pct : BOOLEAN, slashpct : BOOLEAN, type : BOOLEAN, decoded : BOOLEAN]

VARIABLES
    webMode,        \* "off", "http" or "https"
    webLimit,
    webQueue,       \* connections not yet accepted, in order
    webParent,      \* <<step, connection>>: where the parent is; "exited"
    webClient,      \* "idle", "open", "secure", "sent", "closed", "reset"
    webRequest,     \* what a client has asked for
    webChild,       \* "none", "recv", "send", "close", "done", "spin"
    webStep,        \* records the child has sent
    webReply,       \* pieces the client has got
    webTlsEnd       \* the client has seen close_notify or a bad record

webVars == <<webMode, webLimit, webQueue, webParent, webClient, webRequest,
             webChild, webStep, webReply, webTlsEnd>>

\* The path of a request that is not a GET is not looked at.
WebRequests ==
    [get : {TRUE}, path : WebPaths] \cup {[get |-> FALSE, path |-> CHOOSE p \in WebPaths : TRUE]}

WebInit ==
    /\ webMode = "off"
    /\ webLimit = 0
    /\ webQueue = <<>>
    /\ webParent = <<"accept", 0>>
    /\ webClient = [c \in WebConns |-> "idle"]
    /\ webRequest = [c \in WebConns |-> <<>>]
    /\ webChild = [c \in WebConns |-> "none"]
    /\ webStep = [c \in WebConns |-> 0]
    /\ webReply = [c \in WebConns |-> <<>>]
    /\ webTlsEnd = [c \in WebConns |-> FALSE]
-----------------------------------------------------------------------------
WebWhen(b, piece) == IF b THEN <<piece>> ELSE <<>>

\* Mutant: the slash at the end of a directory is not looked at.
WebDirAnswerNoSlash(p) == IF p.found THEN <<"301">> ELSE <<"403">>

\* A directory, with or without its slash, or a name "/%...", without a dot.
WebDirAnswer(p) == IF p.found /\ ~p.slash THEN <<"301">> ELSE <<"403">>

\* A name with a percent sign: the status line comes before the open of the
\* decoded name.
WebDecodedAnswer(p) ==
    <<"200">> \o WebWhen(~p.decoded, "404")
              \o WebWhen(p.decoded /\ p.type, "type") \o WebWhen(p.decoded /\ ~p.dir, "body")

\* A name with a dot: the status line is sent whether or not it was opened.
WebPlainAnswer(p) ==
    <<"200">> \o WebWhen(p.type, "type") \o WebWhen(p.found /\ ~p.dir, "body")

\* serve_file: the answer for a GET of path p.
WebServeFile(p) ==
    CASE ~p.dot /\ (p.found \/ p.slashpct) -> WebDirAnswer(p)
      [] p.pct /\ (p.dot \/ (~p.found /\ ~p.slashpct)) -> WebDecodedAnswer(p)
      [] p.dot /\ ~p.pct -> WebPlainAnswer(p)
      [] OTHER -> <<"404">>

\* serve_file of server_https.c is a copy, with SSL_write for send.
WebServeFileTls(p) == WebServeFile(p)

WebAnswer(r) ==
    IF ~r.get THEN <<"501">>
    ELSE IF webMode = "https" THEN WebServeFileTls(r.path) ELSE WebServeFile(r.path)

\* Process slots in use: zombies are never reaped.
WebProcs == Cardinality({c \in WebConns : webChild[c] # "none"})

\* fork succeeds
WebForks == WebProcs < webLimit

\* What the parent does after fork.
WebAfterFork(c) == IF webMode = "https" THEN <<"shutdown", c>> ELSE <<"accept", 0>>

\* A client gets record number n of a TLS session, or any bytes over TCP.
WebGets(c, n, piece) ==
    IF webMode = "https" /\ (webTlsEnd[c] \/ n # Len(webReply[c]))
    THEN /\ webTlsEnd' = [webTlsEnd EXCEPT ![c] = TRUE]
         /\ UNCHANGED webReply
    ELSE /\ webReply' = [webReply EXCEPT ![c] = Append(@, piece)]
         /\ UNCHANGED webTlsEnd
-----------------------------------------------------------------------------
(* The clients.                                                            *)

WebConnect(c) ==
    /\ webMode # "off" /\ webParent[1] # "exited"
    /\ webClient[c] = "idle"
    /\ webClient' = [webClient EXCEPT ![c] = "open"]
    /\ webQueue' = Append(webQueue, c)
    /\ UNCHANGED <<webMode, webLimit, webParent, webRequest, webChild, webStep,
                   webReply, webTlsEnd>>

WebSendRequest(c, r) ==
    /\ webClient[c] = IF webMode = "https" THEN "secure" ELSE "open"
    /\ webClient' = [webClient EXCEPT ![c] = "sent"]
    /\ webRequest' = [webRequest EXCEPT ![c] = r]
    /\ UNCHANGED <<webMode, webLimit, webQueue, webParent, webChild, webStep,
                   webReply, webTlsEnd>>

WebLeave(c, how) ==
    /\ webClient[c] \in {"open", "secure"}
    /\ webClient' = [webClient EXCEPT ![c] = how]
    /\ UNCHANGED <<webMode, webLimit, webQueue, webParent, webRequest, webChild,
                   webStep, webReply, webTlsEnd>>
-----------------------------------------------------------------------------
(* The parent.                                                             *)

\* main up to listen.
WebListen(mode, limit) ==
    /\ webMode = "off"
    /\ webMode' = mode
    /\ webLimit' = limit
    /\ UNCHANGED <<webQueue, webParent, webClient, webRequest, webChild, webStep,
                   webReply, webTlsEnd>>

\* accept; with TLS the parent itself waits for the handshake.
WebAccept ==
    /\ webMode # "off" /\ webParent[1] = "accept"
    /\ webQueue # <<>>
    /\ webQueue' = Tail(webQueue)
    /\ webParent' = <<IF webMode = "https" THEN "handshake" ELSE "fork", Head(webQueue)>>
    /\ UNCHANGED <<webMode, webLimit, webClient, webRequest, webChild, webStep,
                   webReply, webTlsEnd>>

\* SSL_accept returns: the client takes part, or has left.
WebHandshake ==
    /\ webMode = "https"
    /\ webParent[1] = "handshake"
    /\ LET c == webParent[2]
       IN  \/ /\ webClient[c] = "open"
              /\ webClient' = [webClient EXCEPT ![c] = "secure"]
              /\ webParent' = <<"fork", c>>
           \/ /\ webClient[c] \in {"closed", "reset"}
              /\ webParent' = <<"accept", 0>>
              /\ UNCHANGED webClient
    /\ UNCHANGED <<webMode, webLimit, webQueue, webRequest, webChild, webStep,
                   webReply, webTlsEnd>>

\* fork; when it fails the server exits.
WebFork ==
    /\ webMode # "off" /\ webParent[1] = "fork"
    /\ LET c == webParent[2]
       IN  IF WebForks
           THEN /\ webChild' = [webChild EXCEPT ![c] = "recv"]
                /\ webParent' = WebAfterFork(c)
           ELSE webParent' = <<"exited", c>> /\ UNCHANGED webChild
    /\ UNCHANGED <<webMode, webLimit, webQueue, webClient, webRequest, webStep, webReply, webTlsEnd>>

\* The parent's SSL_shutdown: close_notify as record 0 of its copy.
WebParentShutdown ==
    /\ webMode = "https"
    /\ webParent[1] = "shutdown"
    /\ webTlsEnd' = [webTlsEnd EXCEPT ![webParent[2]] = TRUE]
    /\ webParent' = <<"accept", 0>>
    /\ UNCHANGED <<webMode, webLimit, webQueue, webClient, webRequest, webChild,
                   webStep, webReply>>
-----------------------------------------------------------------------------
(* A child.                                                                *)

\* recv.  After an orderly close the request buffer is uninitialized: the
\* child crashes, or finds some method that is not GET.  After a reset it goes
\* back to accept on the listening socket it has closed, again and again.
WebRecv(c) ==
    /\ webChild[c] = "recv"
    /\ \/ /\ webClient[c] = "sent"
          /\ webChild' = [webChild EXCEPT ![c] = "send"]
       \/ /\ webClient[c] = "closed"
          /\ \E s \in {"done", "close"} : webChild' = [webChild EXCEPT ![c] = s]
       \/ /\ webClient[c] = "reset"
          /\ webChild' = [webChild EXCEPT ![c] = "spin"]
    /\ UNCHANGED <<webMode, webLimit, webQueue, webParent, webClient, webRequest,
                   webStep, webReply, webTlsEnd>>

WebSend(c) ==
    /\ webChild[c] = "send"
    /\ LET answer == WebAnswer(webRequest[c])
       IN  /\ WebGets(c, webStep[c], answer[webStep[c] + 1])
           /\ webStep' = [webStep EXCEPT ![c] = @ + 1]
           /\ webChild' = [webChild EXCEPT ![c] =
                              IF webStep[c] + 1 = Len(answer) THEN "close" ELSE "send"]
    /\ UNCHANGED <<webMode, webLimit, webQueue, webParent, webClient, webRequest>>

\* SSL_shutdown where there is one, close and exit.
WebClose(c) ==
    /\ webChild[c] = "close"
    /\ webChild' = [webChild EXCEPT ![c] = "done"]
    /\ webTlsEnd' = [webTlsEnd EXCEPT ![c] = webMode = "https"]
    /\ UNCHANGED <<webMode, webLimit, webQueue, webParent, webClient, webRequest,
                   webStep, webReply>>

WebParentStep == WebAccept \/ WebHandshake \/ WebFork \/ WebParentShutdown
WebChildStep(c) == WebRecv(c) \/ WebSend(c) \/ WebClose(c)

WebNext ==
    \/ \E m \in {"http", "https"}, n \in WebLimits : WebListen(m, n)
    \/ \E c \in WebConns :
          \/ WebConnect(c)
          \/ \E r \in WebRequests : WebSendRequest(c, r)
          \/ WebLeave(c, "closed") \/ WebLeave(c, "reset")
    \/ WebParentStep
    \/ \E c \in WebConns : WebChildStep(c)

\* The processes run; the clients need not do anything.
WebFairness ==
    /\ WF_webVars(WebAccept \/ WebFork \/ WebParentShutdown)
    /\ \A c \in WebConns : WF_webVars(WebChildStep(c))

WebSpec == WebInit /\ [][WebNext]_webVars /\ WebFairness
-----------------------------------------------------------------------------
\* The requests of the kinds testcase/run.sh makes: files are opened under the
\* name asked for or under its decoded form and have a known extension;
\* directories are asked for by their plain names; directories and missing
\* names have no dot; no name has a plus sign, which url_decode would replace.
WebTested(p) ==
    /\ p.dir => p.found
    /\ p.found => p.decoded
    /\ p.dot <=> (p.decoded /\ ~p.dir)
    /\ p.dot => p.type
    /\ p.pct <=> p.decoded /\ ~p.found
    /\ p.slashpct => p.pct

\* What 200.py, 301.py, NNN.py and 501.py expect of such a request.
WebExpected(r) ==
    IF ~r.get THEN <<"501">>
    ELSE CASE ~r.path.decoded -> <<"404">>
           [] r.path.decoded /\ r.path.dir -> <<IF r.path.slash THEN "403" ELSE "301">>
           [] OTHER -> <<"200", "type", "body">>

\* A finished child of server.c has given its client exactly what the tests
\* expect, whatever the other children, the parent and the other clients did
\* in between. Over TLS the parent's SSL_shutdown may come first and cut the
\* answer short (the tests expect it whole with https, too), but what has come
\* is the beginning of the right answer.
WebReplyRight ==
    \A c \in WebConns :
        (webChild[c] = "done" /\ webClient[c] = "sent" /\ WebTested(webRequest[c].path))
        => IF webMode = "http" THEN webReply[c] = WebExpected(webRequest[c])
           ELSE IsPrefix(webReply[c], WebExpected(webRequest[c]))

\* Over TCP a client that sends its request is answered, unless the server has
\* used up its processes and exited; children that never end (recv failed) and
\* clients that never ask do not keep others from being served.
WebAnswered ==
    \A c \in WebConns :
        (webMode = "http" /\ webClient[c] = "sent") ~> (webChild[c] = "done" \/ webParent[1] = "exited")

\* The server gives up only after as many connections as it may have
\* processes, and until then accepts everyone, also when all the children so
\* far have ended: over TCP a connection is in a child's hands or the server
\* has exited with all its slots taken.
WebSlots ==
    \A c \in WebConns :
        (webMode = "http" /\ webClient[c] # "idle")
            ~> (webChild[c] # "none" \/ (webParent[1] = "exited" /\ WebProcs = webLimit))
=============================================================================
