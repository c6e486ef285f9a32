---------------------------- MODULE MCPrograms -----------------------------
(***************************************************************************)
(* The programs that are mostly a computation, on small instances: the     *)
(* queens solvers, the maze clients, the binary decoder, the flag client,  *)
(* the content filter and the wire format of the chat, the copy loop of    *)
(* sock, getaddrinfo and the texts of addresses. They do not interact, so  *)
(* a behaviour is of one program.                                          *)
(***************************************************************************)
EXTENDS Queens, MazePrograms, BinFlag, ChatFilter, UdpFlag, ChatWire, SockLoop,
        GetAddrInfo, InetText, TLC

VARIABLE program    \* the program this behaviour is of

mcVars == <<program, queVars, mcfVars, mapVars, wlkVars, binVars, fltVars, flagVars, wireVars,
             lopVars, gaiVars, itxVars>>

MCMapViews == {<<2, 3>>, <<4, 2>>}
MCMapEnds == <<{<<1, 1>>, <<3, 3>>}, {<<1, 1>>, <<3, 3>>}, {<<3, 3>>}>>

\* Corridors with every pattern of holes beside them, a spine with every pattern
\* of ribs, a ring with a tail, and a bend.
MCWlkMazes ==
    {({1} \X (1 .. 7)) \cup S : S \in SUBSET ({2} \X (1 .. 7))}
    \cup {((2 .. 6) \X {2}) \cup S : S \in SUBSET ({2, 4, 6} \X {1, 3})}
    \cup {({1, 3} \X (1 .. 5)) \cup {<<2, 5>>, <<2, 1>>, <<4, 4>>, <<5, 4>>},
          {<<1, 2>>, <<1, 3>>, <<3, 3>>, <<3, 4>>}}

MCBinData == <<1, 0, 0, 1, 1>>
MCFltKeywords == <<<<1, 2>>, <<0, 0>>>>

MCWireLines ==
    {<<"login", "a", "b">>, <<"login", "a">>, <<"logout">>, <<"hi">>, <<"/pin">>, <<"/pin", "x">>, <<>>}

MCLopCommand(u, s, c, h, p, r) ==
    [udp |-> u, server |-> s, connectudp |-> c, halfclose |-> h, peek |-> p, crlf |-> r]
MCLopCommands ==
    {MCLopCommand(FALSE, FALSE, TRUE, h, p, r) : h, p, r \in BOOLEAN}
    \cup {MCLopCommand(TRUE, s, c, FALSE, p, FALSE) : s, c, p \in BOOLEAN}
MCLopStdin == {<<>>, <<"n", "x">>, <<"x", "n", "n">>, <<"r", "n">>}
MCLopPeer == {<<>>, <<"x", "r", "n">>, <<"r", "n", "r", "n">>}

MCGaiNames ==
    [h \in {"localhost", "name"} |->
        IF h = "name" THEN [inet |-> <<"a", "b">>, inet6 |-> <<"c">>]
        ELSE [inet |-> <<"lo">>, inet6 |-> <<>>]]
MCGaiCalls ==
    [lib : {"gai", "free"}, host : {"none", "v4", "v6", "name", "path", "unknown"},
     serv : {"none", "num", "both", "dgram", "bad", "path"},
     family : {"unspec", "inet", "inet6", "local", "other"},
     type : {"stream"}, passive : {FALSE}, canon : {FALSE}]
    \cup
    [lib : {"gai", "free"}, host : {"none", "v4", "name", "path"}, serv : {"num", "both", "path"},
     family : {"unspec", "inet"}, type : {"0", "stream", "raw"}, passive : BOOLEAN,
     canon : BOOLEAN]

MCItxTokens == {<<1>>, <<15, 15, 15, 15>>, <<0, 15, 15, 15, 15>>, <<1, 0, 0, 0, 0>>}
MCItxNumbers == {<<>>, <<0>>, <<2, 5, 5>>, <<2, 5, 6>>, <<0, 0, 7>>}

-----------------------------------------------------------------------------
Init ==
    /\ program \in {"queens", "minconflict", "mazemap", "mazewalk", "binflag", "chatfilter",
                    "udpflag", "chatwire", "sockloop", "getaddrinfo", "inettext"}
    /\ QueInit /\ McfInit /\ MapInit /\ WlkInit /\ BinInit /\ FltInit /\ FlagInit /\
       WireInit /\ LopInit /\ GaiInit /\ ItxInit

\* A step of one program leaves the variables of the others alone.
QueensOnly ==
    /\ program = "queens"
    /\ UNCHANGED <<program, mcfVars, mapVars, wlkVars, binVars, fltVars, flagVars, wireVars,
                  lopVars, gaiVars, itxVars>>

MinConflictOnly ==
    /\ program = "minconflict"
    /\ UNCHANGED <<program, queVars, mapVars, wlkVars, binVars, fltVars, flagVars, wireVars,
                  lopVars, gaiVars, itxVars>>

MazeMapOnly ==
    /\ program = "mazemap"
    /\ UNCHANGED <<program, queVars, mcfVars, wlkVars, binVars, fltVars, flagVars, wireVars,
                  lopVars, gaiVars, itxVars>>

MazeWalkOnly ==
    /\ program = "mazewalk"
    /\ UNCHANGED <<program, queVars, mcfVars, mapVars, binVars, fltVars, flagVars, wireVars,
                  lopVars, gaiVars, itxVars>>

BinFlagOnly ==
    /\ program = "binflag"
    /\ UNCHANGED <<program, queVars, mcfVars, mapVars, wlkVars, fltVars, flagVars, wireVars,
                  lopVars, gaiVars, itxVars>>

ChatFilterOnly ==
    /\ program = "chatfilter"
    /\ UNCHANGED <<program, queVars, mcfVars, mapVars, wlkVars, binVars, flagVars, wireVars,
                  lopVars, gaiVars, itxVars>>

UdpFlagOnly ==
    /\ program = "udpflag"
    /\ UNCHANGED <<program, queVars, mcfVars, mapVars, wlkVars, binVars, fltVars, wireVars,
                  lopVars, gaiVars, itxVars>>

ChatWireOnly ==
    /\ program = "chatwire"
    /\ UNCHANGED <<program, queVars, mcfVars, mapVars, wlkVars, binVars, fltVars, flagVars,
                  lopVars, gaiVars, itxVars>>

SockLoopOnly ==
    /\ program = "sockloop"
    /\ UNCHANGED <<program, queVars, mcfVars, mapVars, wlkVars, binVars, fltVars, flagVars,
                  wireVars, gaiVars, itxVars>>

GetAddrInfoOnly ==
    /\ program = "getaddrinfo"
    /\ UNCHANGED <<program, queVars, mcfVars, mapVars, wlkVars, binVars, fltVars, flagVars,
                  wireVars, lopVars, itxVars>>

InetTextOnly ==
    /\ program = "inettext"
    /\ UNCHANGED <<program, queVars, mcfVars, mapVars, wlkVars, binVars, fltVars, flagVars,
                  wireVars, lopVars, gaiVars>>

Next ==
    \/ QueensOnly /\ QueNext
    \/ MinConflictOnly /\ McfNext
    \/ MazeMapOnly /\ MapNext
    \/ MazeWalkOnly /\ WlkNext
    \/ BinFlagOnly /\ BinNextStep
    \/ ChatFilterOnly /\ FltNext
    \/ UdpFlagOnly /\ FlagNext
    \/ ChatWireOnly /\ WireNext
    \/ SockLoopOnly /\ LopNext
    \/ GetAddrInfoOnly /\ GaiNext
    \/ InetTextOnly /\ ItxNext

Spec == Init /\ [][Next]_mcVars

\* The names and addresses of unpv13e: getaddrinfo() returns the entries it
\* should and frees its own memory, and the texts of addresses mean what they say,
\* all but in the cases named.
NamesRight ==
    /\ GaiSafe
    /\ ItxSafe
=============================================================================
