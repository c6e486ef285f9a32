------------------------------ MODULE ChatWire ------------------------------
(***************************************************************************)
(* How the chat server of hw2 turns bytes into commands: the recv() of     *)
(* handle_client, and the strtok() calls of handle_command, in the threads *)
(* of several clients.  What the commands do is module ChatServer.         *)
(*                                                                         *)
(* A line is a sequence of words, a stream a sequence of words and line    *)
(* ends; a recv() returns any part of it from its front, up to WireBuffer  *)
(* symbols.  strtok() keeps its place in ONE static pointer for the whole  *)
(* process, modelled by wireRest: what is left of the line of the last     *)
(* thread that started one.                                                *)
(***************************************************************************)
EXTENDS Integers, Sequences, FiniteSets

CONSTANTS
    WireClients,
    WireLines,      \* the lines clients send
    WireBuffer,     \* BUFFER_SIZE, in symbols
    WireMaxLines    \* bound: lines sent by all clients

NL == "\n"
WireNone == <<"none">>      \* nullptr

\* Lines are words; a line end is not one, nor is what stands for nullptr.
ASSUME WireLinesAssumption ==
    \A l \in WireLines : l \in Seq(STRING) /\ \A i \in DOMAIN l : l[i] \notin {NL, "none"}
ASSUME WireBoundsAssumption == WireBuffer \in Nat /\ WireMaxLines \in Nat

VARIABLES
    wireSent,       \* lines each client has sent
    wireStream,     \* symbols each client's socket holds
    wireTok,        \* the first token of the command a thread is in, <<>> outside
    wireRest,       \* the static pointer of strtok()
    wireLog,        \* commands each thread has carried out: token and arguments
    wireClean,      \* clients whose every recv() was one whole line, and whose
                    \* commands were not overlapped by another thread's
    wireDead        \* an exception has ended the process

wireVars == <<wireSent, wireStream, wireTok, wireRest, wireLog, wireClean, wireDead>>

WireInit ==
    /\ wireSent = [c \in WireClients |-> <<>>]
    /\ wireStream = [c \in WireClients |-> <<>>]
    /\ wireTok = [c \in WireClients |-> <<>>]
    /\ wireRest = <<>>
    /\ wireLog = [c \in WireClients |-> <<>>]
    /\ wireClean = WireClients /\ wireDead = FALSE

WireSend(c) ==
    /\ ~wireDead
    /\ Cardinality({p \in WireClients \X (1 .. WireMaxLines) : p[2] <= Len(wireSent[p[1]])})
           < WireMaxLines
    /\ \E l \in WireLines :
          /\ wireSent' = [wireSent EXCEPT ![c] = Append(@, l)]
          /\ wireStream' = [wireStream EXCEPT ![c] = @ \o Append(l, NL)]
    /\ UNCHANGED <<wireTok, wireRest, wireLog, wireClean, wireDead>>

\* The string from its first symbol that is not a line end.
WireSkip(s) ==
    IF \A i \in DOMAIN s : s[i] = NL THEN <<>>
    ELSE LET i == CHOOSE j \in DOMAIN s : s[j] # NL /\ \A k \in 1 .. j - 1 : s[k] = NL
         IN  SubSeq(s, i, Len(s))

\* strtok(_, " \n") and what it leaves: the delimiter after the word is eaten.
WireWord(s) == IF WireSkip(s) = <<>> THEN WireNone ELSE <<Head(WireSkip(s))>>

WireAfterWord(s) ==
    LET r == IF WireSkip(s) = <<>> THEN <<>> ELSE Tail(WireSkip(s))
    IN  IF r # <<>> /\ r[1] = NL THEN Tail(r) ELSE r

\* strtok(_, "\n"): the words up to the next line end.
WireText(s) ==
    LET t == WireSkip(s)
        ends == {i \in DOMAIN t : t[i] = NL}
        n == IF ends = {} THEN Len(t) ELSE (CHOOSE i \in ends : \A j \in ends : i <= j) - 1
    IN  IF t = <<>> THEN WireNone ELSE SubSeq(t, 1, n)

\* recv() and the first strtok().  Other threads may be in a command.  A recv()
\* that fills the buffer is left out: it writes the final '\0' behind it.
WireRecv(c) ==
    /\ ~wireDead /\ wireTok[c] = <<>> /\ wireStream[c] # <<>>
    /\ \E n \in 1 .. Len(wireStream[c]) :
          LET chunk == SubSeq(wireStream[c], 1, n)
              done == Len(wireLog[c])
              whole == done < Len(wireSent[c]) /\ chunk = Append(wireSent[c][done + 1], NL)
              busy == {d \in WireClients : wireTok[d] # <<>>}
          IN  /\ n < WireBuffer
              /\ wireStream' = [wireStream EXCEPT ![c] = SubSeq(@, n + 1, Len(@))]
              /\ wireTok' = [wireTok EXCEPT ![c] = WireWord(chunk)]
              /\ wireRest' = WireAfterWord(chunk)
              /\ wireClean' = (wireClean \ (IF c \in wireClean /\ whole THEN {} ELSE {c}))
                              \ (IF busy = {} THEN {} ELSE busy \cup {c})
    /\ UNCHANGED <<wireSent, wireLog, wireDead>>

\* Mutant: the second argument is looked for from the start again.
WireArgsTwice(tok, s) ==
    IF tok = "login" THEN WireWord(s) \o WireWord(s) ELSE WireText(s)

\* The arguments of a command, from the static pointer: two words after
\* register and login, a word after the commands that take one (or should
\* have none), the rest of the line for a chat line and for /pin.
WireArgs(tok, s) ==
    CASE tok = "login" -> WireWord(s) \o WireWord(WireAfterWord(s))
      [] tok = "logout" -> WireWord(s)
      [] OTHER -> WireText(s)

\* The rest of handle_command; string(nullptr) throws in /pin.
WireHandle(c) ==
    /\ ~wireDead /\ wireTok[c] # <<>>
    /\ LET tok == wireTok[c][1]
           args == WireArgs(tok, wireRest)
       IN  /\ wireDead' = (tok = "/pin" /\ args = WireNone)
           /\ wireLog' = [wireLog EXCEPT ![c] =
                             Append(@, IF wireTok[c] = WireNone THEN WireNone ELSE <<tok>> \o args)]
    /\ wireTok' = [wireTok EXCEPT ![c] = <<>>]
    /\ wireRest' = <<>>
    /\ UNCHANGED <<wireSent, wireStream, wireClean>>

WireNext == \E c \in WireClients : WireSend(c) \/ WireRecv(c) \/ WireHandle(c)

WireSpec == WireInit /\ [][WireNext]_wireVars

\* What a line asks for: a command that takes one word or two has these, or
\* nullptr for what the line does not say; the others take the rest of it.
WireMeaning(l) ==
    LET word(k) == IF k <= Len(l) THEN <<l[k]>> ELSE WireNone
    IN  CASE l = <<>> -> WireNone
          [] l # <<>> /\ l[1] = "login" -> word(1) \o word(2) \o word(3)
          [] l # <<>> /\ l[1] = "logout" -> word(1) \o word(2)
          [] OTHER -> IF Len(l) = 1 THEN l \o WireNone ELSE l

(***************************************************************************)
(* A client whose lines arrive one by one, each whole, while no other      *)
(* thread is in a command, has exactly its lines carried out, in order,    *)
(* with their own arguments.                                               *)
(***************************************************************************)
WireOneToOne ==
    \A c \in wireClean : \A i \in DOMAIN wireLog[c] :
        wireLog[c][i] = WireMeaning(wireSent[c][i])

(***************************************************************************)
(* As long as all clients are so lucky, the process dies of a /pin without *)
(* text only.                                                              *)
(***************************************************************************)
WireDeathExplained ==
    wireDead /\ wireClean = WireClients =>
        \E c \in WireClients : \E i \in DOMAIN wireSent[c] : wireSent[c][i] = <<"/pin">>

\* The way of a line through handle_client and handle_command, as far as the
\* stream and the other threads let it be undisturbed.
WireSafe ==
    /\ WireDeathExplained
    /\ WireOneToOne
=============================================================================
