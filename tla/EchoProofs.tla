----------------------------- MODULE EchoProofs -----------------------------
(***************************************************************************)
(* Proofs about the echo servers, the echo clients, the sock program, its  *)
(* opening and its copy loops, and the two getaddrinfo() of unpv13e, for   *)
(* any connections, lines, table sizes, options, texts, buffers and names. *)
(***************************************************************************)
EXTENDS EchoServers, EchoClients, SockProgram, SockLoop, GetAddrInfo,
        SequenceTheorems, FiniteSetTheorems, WellFoundedInduction, TLAPS

-----------------------------------------------------------------------------
(* The echo servers.                                                       *)

EsvLine == EsvConns \X Nat

EsvTypes ==
    /\ esvProg \in EsvPrograms \cup {EsvOff}
    /\ DOMAIN esvCli = EsvConns /\ esvSent \in [EsvConns -> Nat]
    /\ DOMAIN esvIn = EsvConns /\ DOMAIN esvEcho = EsvConns

\* What is received continues what is answered; a client that can still send
\* goes on where that ends.
EsvInLine(c) ==
    /\ esvIn[c] \in Seq(EsvLine) /\ esvEcho[c] \in Seq(EsvLine)
    /\ \A k \in 1 .. Len(esvEcho[c]) : esvEcho[c][k] = <<c, k>>
    /\ \A k \in 1 .. Len(esvIn[c]) : esvIn[c][k] = <<c, Len(esvEcho[c]) + k>>
    /\ esvCli[c] \in {"new", "open"} => Len(esvEcho[c]) + Len(esvIn[c]) = esvSent[c]

EsvInv ==
    /\ EsvTypes
    /\ esvProg # tcpservselect03 => \A c \in EsvConns : EsvInLine(c)
    /\ esvProg = EsvOff => esvUp = "up"
    /\ EsvSurvives

\* The programs, where their differences matter.
LEMMA EsvKinds ==
    /\ EsvOff # tcpservselect03 /\ EsvOff.kind = "none"
    /\ tcpservpoll01.kind = "loop" /\ tcpservpoll01.reset = "close"
    /\ \A p \in EsvPrograms : p # EsvOff /\ (p.input = "static" => p = tcpservselect03)
  BY DEF EsvPrograms, EsvOff, EsvProgram, tcpserv01, tcpserv02, tcpserv03, tcpserv04, tcpserv08,
         tcpserv09, stdio02, threads01, threads02, tcpservselect01, tcpservpoll01, tcpservselect03

\* The lines read, the first n that were received, are answered in order.
LEMMA EsvCut ==
    ASSUME NEW c \in EsvConns, NEW in \in Seq(EsvLine), NEW echo \in Seq(EsvLine),
           NEW n \in 0 .. Len(in),
           \A k \in 1 .. Len(echo) : echo[k] = <<c, k>>,
           \A k \in 1 .. Len(in) : in[k] = <<c, Len(echo) + k>>
    PROVE  LET new == echo \o SubSeq(in, 1, n)
               rest == SubSeq(in, n + 1, Len(in))
           IN  /\ new \in Seq(EsvLine) /\ rest \in Seq(EsvLine)
               /\ \A k \in 1 .. Len(new) : new[k] = <<c, k>>
               /\ \A k \in 1 .. Len(rest) : rest[k] = <<c, Len(new) + k>>
               /\ Len(new) + Len(rest) = Len(echo) + Len(in)
  <1> DEFINE new == echo \o SubSeq(in, 1, n)
             rest == SubSeq(in, n + 1, Len(in))
  <1>1. Len(in) \in Nat /\ Len(echo) \in Nat
    OBVIOUS
  <1>2. /\ SubSeq(in, 1, n) \in Seq(EsvLine) /\ Len(SubSeq(in, 1, n)) = n
        /\ \A k \in 1 .. n : SubSeq(in, 1, n)[k] = in[k]
    BY <1>1
  <1>3. /\ rest \in Seq(EsvLine) /\ Len(rest) = Len(in) - n
        /\ \A k \in 1 .. Len(in) - n : rest[k] = in[n + k]
    BY <1>1
  <1>4. /\ new \in Seq(EsvLine) /\ Len(new) = Len(echo) + n
        /\ \A k \in 1 .. Len(echo) + n :
              new[k] = IF k <= Len(echo) THEN echo[k] ELSE in[k - Len(echo)]
    BY <1>1, <1>2
  <1> HIDE DEF new, rest
  <1>5. \A k \in 1 .. Len(new) : new[k] = <<c, k>>
    <2> TAKE k \in 1 .. Len(new)
    <2>1. CASE k <= Len(echo)
      BY <1>1, <1>4, <2>1
    <2>2. CASE ~(k <= Len(echo))
      <3>1. k - Len(echo) \in 1 .. Len(in) /\ Len(echo) + (k - Len(echo)) = k
        BY <1>1, <1>4, <2>2
      <3>2. new[k] = in[k - Len(echo)]
        BY <1>1, <1>4, <2>2
      <3>3. in[k - Len(echo)] = <<c, Len(echo) + (k - Len(echo))>>
        BY <3>1
      <3> QED
        BY <3>1, <3>2, <3>3
    <2> QED
      BY <2>1, <2>2
  <1>6. \A k \in 1 .. Len(rest) : rest[k] = <<c, Len(new) + k>>
    <2> TAKE k \in 1 .. Len(rest)
    <2>1. n + k \in 1 .. Len(in) /\ Len(echo) + (n + k) = Len(new) + k
      BY <1>1, <1>3, <1>4
    <2>2. rest[k] = in[n + k]
      BY <1>1, <1>3
    <2>3. in[n + k] = <<c, Len(echo) + (n + k)>>
      BY <2>1
    <2> QED
      BY <2>1, <2>2, <2>3
  <1>7. Len(new) + Len(rest) = Len(echo) + Len(in)
    BY <1>1, <1>3, <1>4
  <1>8. new \in Seq(EsvLine) /\ rest \in Seq(EsvLine)
    BY <1>3, <1>4
  <1> QED
    BY <1>5, <1>6, <1>7, <1>8 DEF new, rest

\* The line sent next continues those received.
LEMMA EsvGrow ==
    ASSUME NEW c \in EsvConns, NEW in \in Seq(EsvLine), NEW echo \in Seq(EsvLine),
           NEW sent \in Nat, Len(echo) + Len(in) = sent,
           \A k \in 1 .. Len(in) : in[k] = <<c, Len(echo) + k>>
    PROVE  LET new == Append(in, <<c, sent + 1>>)
           IN  /\ new \in Seq(EsvLine)
               /\ \A k \in 1 .. Len(new) : new[k] = <<c, Len(echo) + k>>
               /\ Len(echo) + Len(new) = sent + 1
  <1> DEFINE line == <<c, sent + 1>>
             new == Append(in, line)
  <1>1. Len(in) \in Nat /\ Len(echo) \in Nat
    OBVIOUS
  <1>2. line \in EsvLine
    BY DEF EsvLine
  <1>3. Len(echo) + (Len(in) + 1) = sent + 1
    BY <1>1
  <1>4. line = <<c, Len(echo) + (Len(in) + 1)>>
    BY <1>3
  <1> HIDE DEF line
  <1>5. /\ new \in Seq(EsvLine) /\ Len(new) = Len(in) + 1
        /\ \A k \in 1 .. Len(in) : new[k] = in[k]
        /\ new[Len(in) + 1] = line
    BY <1>2
  <1> HIDE DEF new
  <1>6. \A k \in 1 .. Len(new) : k \in 1 .. Len(in) \/ k = Len(in) + 1
    BY <1>1, <1>5
  <1>7. \A k \in 1 .. Len(new) : new[k] = <<c, Len(echo) + k>>
    BY <1>4, <1>5, <1>6
  <1> QED
    BY <1>3, <1>5, <1>7 DEF new, line

LEMMA EsvInvInit == EsvInit => EsvInv
  <1> SUFFICES ASSUME EsvInit PROVE EsvInv
    OBVIOUS
  <1>1. /\ esvProg = EsvOff /\ esvUp = "up"
        /\ esvCli = [c \in EsvConns |-> "new"] /\ esvSent = [c \in EsvConns |-> 0]
        /\ esvIn = [c \in EsvConns |-> <<>>] /\ esvEcho = [c \in EsvConns |-> <<>>]
    BY DEF EsvInit
  <1>2. EsvTypes
    BY <1>1 DEF EsvTypes
  <1>3. ASSUME NEW c \in EsvConns PROVE EsvInLine(c)
    <2>1. esvIn[c] = <<>> /\ esvEcho[c] = <<>> /\ esvSent[c] = 0
      BY <1>1
    <2> QED
      BY <2>1 DEF EsvInLine
  <1>4. EsvSurvives
    BY <1>1 DEF EsvSurvives
  <1> QED
    BY <1>1, <1>2, <1>3, <1>4 DEF EsvInv

\* Steps that leave the lines alone keep them in line; a client cannot become
\* able to send.
LEMMA EsvLinesKept ==
    ASSUME NEW c, EsvInLine(c), UNCHANGED <<esvIn[c], esvEcho[c], esvSent[c]>>,
           esvCli[c]' \in {"new", "open"} => esvCli[c] \in {"new", "open"}
    PROVE  EsvInLine(c)'
  <1>1. esvIn'[c] = esvIn[c] /\ esvEcho'[c] = esvEcho[c] /\ esvSent'[c] = esvSent[c]
    OBVIOUS
  <1> QED
    BY <1>1 DEF EsvInLine

\* The clients and the network.
LEMMA EsvClientSide ==
    ASSUME EsvInv, NEW c \in EsvConns, EsvConnect(c) \/ EsvSend(c) \/ EsvFinish(c)
    PROVE  EsvInv'
  <1>1. UNCHANGED <<esvProg, esvUp, esvEcho, esvSlot>>
    BY DEF EsvConnect, EsvSend, EsvFinish, esvTable
  <1>2. EsvSurvives'
    BY <1>1 DEF EsvInv, EsvSurvives, EsvSize
  <1>3. EsvTypes'
    <2>1. CASE EsvConnect(c)
      BY <1>1, <2>1 DEF EsvInv, EsvTypes, EsvConnect
    <2>2. CASE EsvSend(c)
      BY <1>1, <2>2 DEF EsvInv, EsvTypes, EsvSend
    <2>3. CASE EsvFinish(c)
      BY <1>1, <2>3 DEF EsvInv, EsvTypes, EsvFinish
    <2> QED
      BY <2>1, <2>2, <2>3
  <1>4. ASSUME esvProg' # tcpservselect03, NEW d \in EsvConns
        PROVE  EsvInLine(d)'
    <2>0. EsvInLine(d)
      BY <1>1, <1>4 DEF EsvInv
    <2>1. CASE EsvConnect(c)
      <3>1. /\ esvIn' = esvIn /\ esvSent' = esvSent /\ esvCli[c] = "new"
            /\ esvCli' = [esvCli EXCEPT ![c] = "open"]
        BY <2>1 DEF EsvConnect
      <3>2. esvCli'[d] = IF d = c THEN "open" ELSE esvCli[d]
        BY <3>1 DEF EsvInv, EsvTypes
      <3> QED
        BY <1>1, <2>0, <3>1, <3>2, EsvLinesKept
    <2>2. CASE EsvSend(c) /\ d # c
      <3>1. /\ esvSent' = [esvSent EXCEPT ![c] = @ + 1] /\ esvCli' = esvCli
            /\ esvIn' = [esvIn EXCEPT ![c] = Append(@, <<c, esvSent[c] + 1>>)]
        BY <2>2 DEF EsvSend
      <3>2. esvSent'[d] = esvSent[d] /\ esvIn'[d] = esvIn[d]
        BY <2>2, <3>1 DEF EsvInv, EsvTypes
      <3> QED
        BY <1>1, <2>0, <3>1, <3>2, EsvLinesKept
    <2>3. CASE EsvSend(c) /\ d = c
      <3> DEFINE line == <<c, esvSent[c] + 1>>
      <3>1. /\ esvSent' = [esvSent EXCEPT ![c] = @ + 1] /\ esvCli' = esvCli /\ esvCli[c] = "open"
            /\ esvIn' = [esvIn EXCEPT ![c] = Append(@, line)]
        BY <2>3 DEF EsvSend
      <3>2. /\ esvSent[c] \in Nat /\ esvSent'[c] = esvSent[c] + 1
            /\ esvIn'[c] = Append(esvIn[c], line) /\ esvEcho'[c] = esvEcho[c]
        BY <1>1, <3>1 DEF EsvInv, EsvTypes
      <3>3. EsvInLine(c)
        BY <2>0, <2>3
      <3>4. /\ esvIn[c] \in Seq(EsvLine) /\ esvEcho[c] \in Seq(EsvLine)
            /\ Len(esvEcho[c]) + Len(esvIn[c]) = esvSent[c]
            /\ \A k \in 1 .. Len(esvIn[c]) : esvIn[c][k] = <<c, Len(esvEcho[c]) + k>>
        BY <3>1, <3>3 DEF EsvInLine
      <3> DEFINE new == Append(esvIn[c], line)
      <3>5. /\ new \in Seq(EsvLine)
            /\ \A k \in 1 .. Len(new) : new[k] = <<c, Len(esvEcho[c]) + k>>
            /\ Len(esvEcho[c]) + Len(new) = esvSent[c] + 1
        BY <3>2, <3>4, EsvGrow
      <3>6. esvIn'[c] = new
        BY <3>2
      <3> HIDE DEF new
      <3>8. \A k \in 1 .. Len(esvEcho'[c]) : esvEcho'[c][k] = <<c, k>>
        BY <3>2, <3>3 DEF EsvInLine
      <3> QED
        BY <2>3, <3>2, <3>4, <3>5, <3>6, <3>8 DEF EsvInLine
    <2>4. CASE EsvFinish(c) /\ esvIn' = esvIn
      <3>1. esvSent' = esvSent /\ (d # c => esvCli'[d] = esvCli[d]) /\ esvCli'[c] \in {"fin", "reset"}
        BY <2>4 DEF EsvFinish, EsvInv, EsvTypes
      <3> QED
        BY <1>1, <2>0, <2>4, <3>1, EsvLinesKept
    <2>5. CASE EsvFinish(c) /\ esvIn' = [esvIn EXCEPT ![c] = <<>>] /\ esvIn' # esvIn
      <3>1. esvSent' = esvSent /\ (d # c => esvCli'[d] = esvCli[d]) /\ esvCli'[c] = "reset"
        BY <2>5 DEF EsvFinish, EsvInv, EsvTypes
      <3>2. esvIn'[c] = <<>> /\ (d # c => esvIn'[d] = esvIn[d])
        BY <2>5 DEF EsvInv, EsvTypes
      <3>3. CASE d # c
        BY <1>1, <2>0, <3>1, <3>2, <3>3, EsvLinesKept
      <3>4. CASE d = c
        <4>1. esvEcho'[c] = esvEcho[c] /\ EsvInLine(c)
          BY <1>1, <2>0, <3>4
        <4>2. esvIn'[c] \in Seq(EsvLine) /\ Len(esvIn'[c]) = 0
          BY <3>2
        <4> QED
          BY <3>1, <3>4, <4>1, <4>2 DEF EsvInLine
      <3> QED
        BY <3>3, <3>4
    <2>6. EsvFinish(c) => esvIn' = esvIn \/ esvIn' = [esvIn EXCEPT ![c] = <<>>]
      BY DEF EsvFinish
    <2> QED
      BY <2>1, <2>2, <2>3, <2>4, <2>5, <2>6
  <1> QED
    BY <1>1, <1>2, <1>3, <1>4 DEF EsvInv

\* Reading some of what was received and answering it.
LEMMA EsvEchoes ==
    ASSUME NEW c \in EsvConns, EsvInLine(c), NEW n \in 0 .. Len(esvIn[c]),
           esvEcho'[c] = esvEcho[c] \o SubSeq(esvIn[c], 1, n),
           esvIn'[c] = SubSeq(esvIn[c], n + 1, Len(esvIn[c])),
           UNCHANGED <<esvSent[c], esvCli[c]>>
    PROVE  EsvInLine(c)'
  <1> DEFINE in == esvIn[c]
             echo == esvEcho[c]
             new == echo \o SubSeq(in, 1, n)
             rest == SubSeq(in, n + 1, Len(in))
  <1>1. /\ in \in Seq(EsvLine) /\ echo \in Seq(EsvLine) /\ n \in 0 .. Len(in)
        /\ \A k \in 1 .. Len(echo) : echo[k] = <<c, k>>
        /\ \A k \in 1 .. Len(in) : in[k] = <<c, Len(echo) + k>>
        /\ esvCli[c] \in {"new", "open"} => Len(echo) + Len(in) = esvSent[c]
    BY DEF EsvInLine
  <1>2. /\ esvEcho'[c] = new /\ esvIn'[c] = rest
        /\ esvSent'[c] = esvSent[c] /\ esvCli'[c] = esvCli[c]
    OBVIOUS
  <1> HIDE DEF in, echo
  <1>3. /\ new \in Seq(EsvLine) /\ rest \in Seq(EsvLine)
        /\ \A k \in 1 .. Len(new) : new[k] = <<c, k>>
        /\ \A k \in 1 .. Len(rest) : rest[k] = <<c, Len(new) + k>>
        /\ Len(new) + Len(rest) = Len(echo) + Len(in)
    BY ONLY <1>1, c \in EsvConns, EsvCut, Zenon
  <1> HIDE DEF new, rest
  <1> QED
    BY <1>1, <1>2, <1>3 DEF EsvInLine

\* Children and threads, accept and select.
LEMMA EsvWorkers ==
    ASSUME EsvInv,
           \/ EsvAccept \/ sig_chld \/ EsvSelect
           \/ \E c \in EsvConns : EsvChildEnds(c) \/ EsvThreadEnds(c)
    PROVE  EsvInv'
  <1>1. UNCHANGED <<esvProg, esvCli, esvSent, esvIn, esvEcho, esvSlot>>
    BY DEF EsvAccept, sig_chld, EsvSelect, EsvChildEnds, EsvThreadEnds, esvClients, esvTable
  <1>2. \/ esvUp' = esvUp
        \/ esvUp' = "reset" /\ esvUp = "up" /\ esvProg.kind = "thread"
    BY DEF EsvAccept, sig_chld, EsvSelect, EsvChildEnds, EsvThreadEnds, EsvRunning
  <1>3. EsvSurvives'
    BY <1>1, <1>2, EsvKinds DEF EsvInv, EsvSurvives, EsvSize
  <1>4. EsvTypes'
    BY <1>1 DEF EsvInv, EsvTypes
  <1>5. esvProg' = EsvOff => esvUp' = "up"
    BY <1>1, <1>2, EsvKinds DEF EsvInv
  <1>6. ASSUME esvProg' # tcpservselect03, NEW d \in EsvConns PROVE EsvInLine(d)'
    BY <1>1, <1>6, EsvLinesKept DEF EsvInv
  <1> QED
    BY <1>3, <1>4, <1>5, <1>6 DEF EsvInv

LEMMA EsvStrEcho ==
    ASSUME EsvInv, NEW c \in EsvConns, str_echo(c)
    PROVE  EsvInv'
  <1>1. UNCHANGED <<esvProg, esvUp, esvCli, esvSent, esvSlot>>
    BY DEF str_echo, esvClients, esvTable
  <1>2. PICK n \in 1 .. Len(esvIn[c]) :
          /\ esvEcho' = [esvEcho EXCEPT ![c] = @ \o SubSeq(esvIn[c], 1, n)]
          /\ esvIn' = [esvIn EXCEPT ![c] = SubSeq(@, n + 1, Len(@))]
    BY DEF str_echo
  <1>3. /\ DOMAIN esvEcho' = EsvConns /\ DOMAIN esvIn' = EsvConns
        /\ esvEcho'[c] = esvEcho[c] \o SubSeq(esvIn[c], 1, n)
        /\ esvIn'[c] = SubSeq(esvIn[c], n + 1, Len(esvIn[c]))
        /\ \A d \in EsvConns \ {c} : esvEcho'[d] = esvEcho[d] /\ esvIn'[d] = esvIn[d]
    BY <1>2 DEF EsvInv, EsvTypes
  <1>4. ASSUME esvProg' # tcpservselect03, NEW d \in EsvConns PROVE EsvInLine(d)'
    <2>0. EsvInLine(d)
      BY <1>1, <1>4 DEF EsvInv
    <2>1. CASE d = c
      <3>1. n \in 0 .. Len(esvIn[c])
        BY <2>0, <2>1 DEF EsvInLine
      <3> QED
        BY <1>1, <1>3, <2>0, <2>1, <3>1, EsvEchoes
    <2>2. CASE d # c
      BY <1>1, <1>3, <2>0, <2>2, EsvLinesKept
    <2> QED
      BY <2>1, <2>2
  <1>5. EsvTypes'
    BY <1>1, <1>3 DEF EsvInv, EsvTypes
  <1>6. EsvSurvives'
    BY <1>1 DEF EsvInv, EsvSurvives, EsvSize
  <1> QED
    BY <1>1, <1>4, <1>5, <1>6 DEF EsvInv

LEMMA EsvListen ==
    ASSUME EsvInv, EsvNewClient
    PROVE  EsvInv'
  <1>1. /\ UNCHANGED <<esvProg, esvCli, esvSent, esvIn, esvEcho>>
        /\ esvUp = "up" /\ esvProg.kind = "loop"
    BY DEF EsvNewClient, EsvTurn, EsvRunning, esvClients
  <1>2. \/ esvUp' = "up"
        \/ esvUp' = "full" /\ esvSlot' = esvSlot /\ {i \in 1 .. EsvSize : esvSlot[i] = 0} = {}
    BY <1>1 DEF EsvNewClient
  <1>3. EsvSurvives'
    BY <1>1, <1>2 DEF EsvInv, EsvSurvives, EsvSize
  <1>4. EsvTypes' /\ esvProg' # EsvOff
    BY <1>1, EsvKinds DEF EsvInv, EsvTypes
  <1>5. ASSUME esvProg' # tcpservselect03, NEW d \in EsvConns PROVE EsvInLine(d)'
    BY <1>1, <1>5, EsvLinesKept DEF EsvInv
  <1> QED
    BY <1>3, <1>4, <1>5 DEF EsvInv

LEMMA EsvSlotServed ==
    ASSUME EsvInv, NEW i \in 1 .. EsvSlots, EsvClientReady(i)
    PROVE  EsvInv'
  <1> DEFINE c == esvSlot[i]
  <1>1. /\ UNCHANGED <<esvProg, esvSent>>
        /\ esvUp = "up" /\ esvProg.kind = "loop"
        /\ \/ esvUp' = "up" \/ esvUp' = "write"
           \/ esvUp' = "reset" /\ esvProg.reset = "end"
    BY DEF EsvClientReady, EsvTurn, EsvRunning
  <1>2. EsvSurvives'
    BY <1>1, EsvKinds DEF EsvSurvives
  <1>3. esvProg' # EsvOff
    BY <1>1, EsvKinds
  <1>4. /\ DOMAIN esvCli' = EsvConns
        /\ \A d \in EsvConns : esvCli'[d] = esvCli[d] \/ esvCli'[d] = "reset"
    BY DEF EsvClientReady, EsvInv, EsvTypes
  <1>5. \/ esvIn' = esvIn /\ esvEcho' = esvEcho
        \/ EsvRead(c) /\ esvCli' = esvCli
        \/ Readline(c) /\ esvProg.input = "static"
    BY DEF EsvClientReady
  <1>6. DOMAIN esvIn' = EsvConns /\ DOMAIN esvEcho' = EsvConns
    BY <1>5 DEF EsvRead, Readline, EsvInv, EsvTypes
  <1>7. EsvTypes'
    BY <1>1, <1>4, <1>6 DEF EsvInv, EsvTypes
  <1>8. ASSUME esvProg' # tcpservselect03, NEW d \in EsvConns PROVE EsvInLine(d)'
    <2>0. EsvInLine(d) /\ esvProg.input # "static"
      BY <1>1, <1>3, <1>8, EsvKinds DEF EsvInv, EsvTypes
    <2>1. CASE esvIn' = esvIn /\ esvEcho' = esvEcho
      BY <1>1, <1>4, <2>0, <2>1, EsvLinesKept
    <2>2. CASE EsvRead(c) /\ esvCli' = esvCli /\ d # c
      <3>1. esvIn'[d] = esvIn[d] /\ esvEcho'[d] = esvEcho[d]
        BY <2>2 DEF EsvRead, EsvInv, EsvTypes
      <3> QED
        BY <1>1, <2>0, <2>2, <3>1, EsvLinesKept
    <2>3. CASE EsvRead(c) /\ esvCli' = esvCli /\ d = c
      <3> DEFINE n == Len(esvIn[d])
      <3>1. /\ esvIn'[d] = <<>> /\ esvEcho'[d] = esvEcho[d] \o esvIn[d]
        BY <2>3 DEF EsvRead, EsvInv, EsvTypes
      <3>2. esvIn[d] \in Seq(EsvLine) /\ n \in Nat
        BY <2>0 DEF EsvInLine
      <3>3. SubSeq(esvIn[d], 1, n) = esvIn[d] /\ SubSeq(esvIn[d], n + 1, n) = <<>>
        BY <3>2
      <3>4. n \in 0 .. Len(esvIn[d])
        BY <3>2
      <3> QED
        BY <1>1, <2>0, <2>3, <3>1, <3>3, <3>4, EsvEchoes
    <2> QED
      BY <1>5, <2>0, <2>1, <2>2, <2>3
  <1> QED
    BY <1>2, <1>3, <1>7, <1>8 DEF EsvInv

\* For any connections, lines and table sizes: every connection gets its own
\* lines back in order, and one client's reset ends no server but those named.
THEOREM EsvSafeCorrect == EsvSpec => []EsvSafe
  <1>1. EsvInv /\ [EsvNext]_esvVars => EsvInv'
    <2> SUFFICES ASSUME EsvInv, [EsvNext]_esvVars PROVE EsvInv'
      OBVIOUS
    <2>1. CASE EsvStart
      <3>1. /\ esvProg = EsvOff /\ esvProg' \in EsvPrograms /\ esvUp = "up"
            /\ UNCHANGED <<esvUp, esvCli, esvSent, esvIn, esvEcho, esvSlot>>
        BY <2>1 DEF EsvStart, esvClients, esvTable, EsvInv
      <3>2. EsvTypes' /\ EsvSurvives' /\ esvProg' # EsvOff
        BY <3>1, EsvKinds DEF EsvInv, EsvTypes, EsvSurvives
      <3>3. ASSUME NEW d \in EsvConns PROVE EsvInLine(d)'
        BY <3>1, EsvLinesKept, EsvKinds DEF EsvInv
      <3> QED
        BY <3>2, <3>3 DEF EsvInv
    <2>2. CASE UNCHANGED esvVars
      <3>1. UNCHANGED <<esvProg, esvUp, esvCli, esvSent, esvIn, esvEcho, esvSlot>>
        BY <2>2 DEF esvVars, esvClients, esvTable
      <3>2. EsvTypes' /\ EsvSurvives'
        BY <3>1 DEF EsvInv, EsvTypes, EsvSurvives, EsvSize
      <3>3. ASSUME esvProg' # tcpservselect03, NEW d \in EsvConns PROVE EsvInLine(d)'
        BY <3>1, <3>3, EsvLinesKept DEF EsvInv
      <3> QED
        BY <3>1, <3>2, <3>3 DEF EsvInv
    <2> QED
      BY <2>1, <2>2, EsvClientSide, EsvWorkers, EsvStrEcho, EsvListen, EsvSlotServed
      DEF EsvNext, EsvMainStep, EsvWorkerStep
  <1>2. EsvInv => EsvSafe
    BY DEF EsvInv, EsvInLine, EsvSafe, EsvOwnEcho
  <1> QED
    BY EsvInvInit, <1>1, <1>2, PTL DEF EsvSpec

-----------------------------------------------------------------------------
(* The echo clients.                                                       *)

EcKnown == EcPrograms \cup {EcOff}

\* What the kinds of programs have in common.
LEMMA EcKinds ==
    ASSUME NEW p \in EcKnown
    PROVE  /\ p.early = "premature" => p.atEof = "return"
           /\ p.early = "done" => p = strclithread2
           /\ p.early = "done" => p.atEof = "shutdown" /\ p.loop = "both"
           /\ p.atEof = "return" => p.early = "premature"
           /\ p.atEof = "return" => p.loop = "turn" \/ p = strcliselect01
           /\ p.loop = "nonb" => p = strclinonb /\ p.early = "stdineof" /\ p.input = "read"
           /\ p.loop \in {"turn", "both"} => p.input = "line"
           /\ p.loop # "none" => p # EcOff
           /\ p.loop = "none" => p = EcOff
           /\ p.loop = "nonb" => p.atEof = "shutdown"
           /\ p.loop # "none" /\ p.atEof # "return" => p.atEof = "shutdown"
  BY DEF EcKnown, EcPrograms, EcOff, EcProgram, str_cli, strcliselect01, strcliselect02,
         str_cli_select02, str_cli_poll03, str_cli_kqueue04, strclifork, strclithread,
         strclithread2, strclinonb

EcTypes ==
    /\ ecProg \in EcKnown
    /\ ecAt \in [EcPlaces -> Nat] /\ ecTyped \in Nat /\ ecToi \in Nat /\ ecFri \in Nat
    /\ ecInput \in {"open", "eof"} /\ ecEof \in {"no", "shut", "yes"}
    /\ ecServer \in {"up", "closed", "ended"}
    /\ ecState \in {"run", "done", "premature", "sigpipe", "enotconn"}

\* Lines are neither lost nor made up.
EcConserved ==
    ecAt["typed"] + ecAt["stdio"] + ecAt["to"] + ecAt["wire"] + ecAt["back"]
        + ecAt["rbuf"] + ecAt["fr"] + ecAt["shown"] = ecTyped

\* The FIN follows all that was typed, and the server closes after the FIN
\* with nothing left to echo.  The two stdio buffers and the two of strclinonb
\* are used by their own programs only.
EcInv ==
    /\ EcTypes
    /\ EcConserved
    /\ ecProg = EcOff => ecState = "run" /\ ecEof = "no" /\ ecAt["stdio"] = 0
    /\ ecProg.loop # "nonb" => ecAt["to"] = 0 /\ ecAt["fr"] = 0
    /\ ecProg.input = "read" => ecAt["stdio"] = 0
    /\ ecEof # "no" => ecInput = "eof" /\ ecAt["typed"] = 0 /\ ecAt["stdio"] = 0
    /\ ecFin => ecEof # "no" /\ ecAt["to"] = 0 /\ ecProg.atEof = "shutdown"
    /\ ecEof = "shut" => ecProg.early = "done"
    /\ ecServer = "closed" => ecFin /\ ecAt["wire"] = 0
    /\ (ecState = "done" /\ ecServer # "ended" /\ ecProg # strcliselect01) =>
          /\ ecInput = "eof"
          /\ \A p \in EcPlaces \ {"fr", "shown"} : ecAt[p] = 0
    /\ EcTrueVerdict

\* n lines go from one place to another.
LEMMA EcMove ==
    ASSUME NEW at \in [EcPlaces -> Nat], NEW a \in EcPlaces, NEW b \in EcPlaces, a # b,
           NEW n \in 0 .. at[a], NEW new, new = [at EXCEPT ![a] = @ - n, ![b] = @ + n]
    PROVE  /\ new \in [EcPlaces -> Nat]
           /\ new[a] = at[a] - n /\ new[b] = at[b] + n
           /\ \A p \in EcPlaces \ {a, b} : new[p] = at[p]
  <1>1. /\ new[a] = at[a] - n /\ new[b] = at[b] + n
        /\ \A p \in EcPlaces \ {a, b} : new[p] = at[p]
    OBVIOUS
  <1>2. at[a] - n \in Nat /\ at[b] + n \in Nat
    OBVIOUS
  <1>3. new \in [EcPlaces -> Nat]
    BY <1>2
  <1> QED
    BY <1>1, <1>3

\* The places that lines move between.
LEMMA EcPairs ==
    /\ {"typed", "to", "wire", "back", "rbuf", "fr", "shown"} \subseteq EcPlaces
    /\ "rbuf" # "shown" /\ "typed" # "to" /\ "back" # "fr" /\ "fr" # "shown" /\ "to" # "wire"
  BY DEF EcPlaces

LEMMA EcInvInit == EcInit => EcInv
  <1> SUFFICES ASSUME EcInit PROVE EcInv
    OBVIOUS
  <1>1. /\ ecProg = EcOff /\ ecTyped = 0 /\ ecInput = "open" /\ ecEof = "no" /\ ~ecFin
        /\ ecServer = "up" /\ ecState = "run" /\ ecAt = [p \in EcPlaces |-> 0]
        /\ ecToi = 0 /\ ecFri = 0
    BY DEF EcInit
  <1>2. EcOff \in EcKnown
    BY DEF EcKnown
  <1>3. EcTypes
    BY <1>1, <1>2 DEF EcTypes
  <1>4. \A p \in EcPlaces : ecAt[p] = 0
    BY <1>1
  <1>5. EcConserved
    BY <1>1, <1>4 DEF EcConserved, EcPlaces
  <1>6. ecAt["to"] = 0 /\ ecAt["fr"] = 0 /\ ecAt["stdio"] = 0
    BY <1>4 DEF EcPlaces
  <1> QED
    BY <1>1, <1>3, <1>5, <1>6 DEF EcInv, EcTrueVerdict

\* The user and the server.
LEMMA EcOutside ==
    ASSUME EcInv, EcStart \/ EcType \/ EcServerEchoes \/ EcServerEnds
    PROVE  EcInv'
  <1> USE DEF EcInv, EcTypes, EcConserved, EcPlaces, EcTrueVerdict
  <1>1. CASE EcStart
    <2>1. /\ ecProg' \in EcKnown /\ ecState = "run" /\ ecEof = "no" /\ ecAt["stdio"] = 0
          /\ ecAt["to"] = 0 /\ ecAt["fr"] = 0
          /\ UNCHANGED <<ecAt, ecTyped, ecInput, ecEof, ecFin, ecServer, ecToi, ecFri, ecState>>
      BY <1>1 DEF EcStart, EcKnown, EcOff, EcProgram
    <2>2. ~ecFin
      BY <2>1
    <2> QED
      BY <2>1, <2>2
  <1>2. CASE EcType
    <2>1. CASE ecInput' = ecInput
      <3>1. /\ ecInput = "open" /\ ecTyped' = ecTyped + 1
            /\ ecAt' = [ecAt EXCEPT !["typed"] = @ + 1]
            /\ UNCHANGED <<ecProg, ecInput, ecEof, ecFin, ecServer, ecToi, ecFri, ecState>>
        BY <1>2, <2>1 DEF EcType
      <3>2. /\ ecAt'["typed"] = ecAt["typed"] + 1
            /\ \A p \in EcPlaces \ {"typed"} : ecAt'[p] = ecAt[p]
            /\ ecAt' \in [EcPlaces -> Nat]
        BY <3>1
      <3>3. EcConserved'
        BY <3>1, <3>2
      <3> QED
        BY <3>1, <3>2, <3>3
    <2>2. CASE ecInput' # ecInput
      BY <1>2, <2>2 DEF EcType
    <2> QED
      BY <2>1, <2>2
  <1>3. CASE EcServerEchoes
    <2>1. CASE ecServer' = ecServer
      <3>1. /\ ecServer = "up" /\ ecAt["wire"] > 0
            /\ ecAt' = [ecAt EXCEPT !["wire"] = 0, !["back"] = @ + ecAt["wire"]]
            /\ UNCHANGED <<ecProg, ecTyped, ecInput, ecEof, ecFin, ecToi, ecFri, ecState>>
        BY <1>3, <2>1 DEF EcServerEchoes
      <3>2. /\ ecAt'["wire"] = 0 /\ ecAt'["back"] = ecAt["back"] + ecAt["wire"]
            /\ \A p \in EcPlaces \ {"wire", "back"} : ecAt'[p] = ecAt[p]
            /\ ecAt' \in [EcPlaces -> Nat]
        BY <3>1
      <3>3. EcConserved'
        BY <3>1, <3>2
      <3> QED
        BY <2>1, <3>1, <3>2, <3>3
    <2>2. CASE ecServer' # ecServer
      BY <1>3, <2>2 DEF EcServerEchoes
    <2> QED
      BY <2>1, <2>2
  <1>4. CASE EcServerEnds
    BY <1>4 DEF EcServerEnds
  <1> QED
    BY <1>1, <1>2, <1>3, <1>4

\* From standard input to the server.
LEMMA EcSends ==
    ASSUME EcInv, EcSendLine \/ EcSendAll
    PROVE  EcInv'
  <1> USE DEF EcInv, EcTypes, EcConserved, EcPlaces, EcTrueVerdict
  <1>1. /\ ecState = "run" /\ ecEof = "no" /\ ecProg.loop \in {"turn", "select", "both"}
        /\ UNCHANGED <<ecProg, ecTyped, ecInput, ecEof, ecFin, ecServer, ecToi, ecFri>>
        /\ ecState' \in {"run", "sigpipe"}
    BY DEF EcSendLine, EcSendAll, EcRuns, EcWrite
  <1>2. ~ecFin /\ ecServer # "closed"
    BY <1>1
  <1>3. /\ ecAt' \in [EcPlaces -> Nat] /\ EcConserved'
        /\ ecAt'["to"] = 0 /\ ecAt'["fr"] = 0
        /\ ecProg.input = "read" => ecAt'["stdio"] = 0
    <2>1. CASE EcWrite("none", 0, 1, "wire") /\ ecAt["stdio"] > 0
      <3>1. /\ ecAt'["stdio"] = ecAt["stdio"] - 1 /\ ecAt'["wire"] = ecAt["wire"] + 1
            /\ \A p \in EcPlaces \ {"stdio", "wire"} : ecAt'[p] = ecAt[p]
            /\ DOMAIN ecAt' = EcPlaces
        BY <2>1 DEF EcWrite
      <3>2. ecAt' \in [EcPlaces -> Nat]
        <4>1. ecAt' = [p \in EcPlaces |-> ecAt'[p]]
          BY <2>1 DEF EcWrite
        <4>2. \A p \in EcPlaces : ecAt'[p] \in Nat
          BY <2>1, <3>1
        <4> QED
          BY <4>1, <4>2
      <3> QED
        BY <1>1, <2>1, <3>1, <3>2
    <2>2. CASE EcWrite("typed", ecAt["typed"], 1, "wire") /\ ecAt["typed"] > 0
               /\ ecProg.input = "line"
      <3>1. /\ ecAt'["typed"] = 0 /\ ecAt'["stdio"] = ecAt["stdio"] + ecAt["typed"] - 1
            /\ ecAt'["wire"] = ecAt["wire"] + 1
            /\ \A p \in EcPlaces \ {"typed", "stdio", "wire"} : ecAt'[p] = ecAt[p]
            /\ DOMAIN ecAt' = EcPlaces
        BY <2>2 DEF EcWrite
      <3>2. ecAt' \in [EcPlaces -> Nat]
        <4>1. ecAt' = [p \in EcPlaces |-> ecAt'[p]]
          BY <2>2 DEF EcWrite
        <4>2. \A p \in EcPlaces : ecAt'[p] \in Nat
          BY <2>2, <3>1
        <4> QED
          BY <4>1, <4>2
      <3> QED
        BY <1>1, <2>2, <3>1, <3>2
    <2>3. CASE EcWrite("typed", ecAt["typed"], ecAt["typed"], "wire")
      <3>1. /\ ecAt'["typed"] = 0
            /\ ecAt'["stdio"] = ecAt["stdio"] + ecAt["typed"] - ecAt["typed"]
            /\ ecAt'["wire"] = ecAt["wire"] + ecAt["typed"]
            /\ \A p \in EcPlaces \ {"typed", "stdio", "wire"} : ecAt'[p] = ecAt[p]
            /\ DOMAIN ecAt' = EcPlaces
        BY <2>3 DEF EcWrite
      <3>2. ecAt' \in [EcPlaces -> Nat]
        <4>1. ecAt' = [p \in EcPlaces |-> ecAt'[p]]
          BY <2>3 DEF EcWrite
        <4>2. ecAt["typed"] \in Nat /\ ecAt["stdio"] \in Nat /\ ecAt["wire"] \in Nat
          OBVIOUS
        <4>3. ecAt'["stdio"] = ecAt["stdio"] /\ ecAt'["wire"] \in Nat
          BY <3>1, <4>2
        <4>4. \A p \in EcPlaces : ecAt'[p] \in Nat
          <5>1. \A p \in EcPlaces \ {"typed", "stdio", "wire"} : ecAt'[p] \in Nat
            BY <3>1
          <5>2. ecAt'["typed"] = 0
            BY <3>1
          <5> QED
            BY <4>2, <4>3, <5>1, <5>2
        <4> QED
          BY <4>1, <4>4
      <3> QED
        BY <1>1, <3>1, <3>2
    <2> QED
      BY <2>1, <2>2, <2>3 DEF EcSendLine, EcSendAll
  <1>4. EcTypes' /\ ~ecFin' /\ ecServer' # "closed" /\ ecEof' = "no" /\ ecProg' # EcOff
    BY <1>1, <1>2, <1>3, EcKinds
  <1>5. EcTrueVerdict' /\ ecState' # "done"
    BY <1>1
  <1> HIDE DEF EcTypes, EcConserved, EcTrueVerdict
  <1> QED
    BY <1>1, <1>3, <1>4, <1>5

\* The end of standard input, where it is not strclinonb's.
LEMMA EcInputEnd ==
    ASSUME EcInv, EcInputEnds \/ EcSetDone \/ EcShutAgain
    PROVE  EcInv'
  <1> USE DEF EcInv, EcTypes, EcConserved, EcPlaces, EcTrueVerdict
  <1>1. CASE EcInputEnds
    <2>1. /\ ecState = "run" /\ ecProg.loop \in {"turn", "select", "both"} /\ ecEof = "no"
          /\ ecInput = "eof" /\ ecAt["typed"] = 0 /\ ecAt["stdio"] = 0
          /\ (ecProg.loop = "turn") => ~EcOwed
          /\ UNCHANGED <<ecProg, ecAt, ecTyped, ecInput, ecServer, ecToi, ecFri>>
      BY <1>1 DEF EcInputEnds, EcRuns
    <2>2. ecAt["to"] = 0 /\ ecAt["fr"] = 0 /\ ~ecFin /\ ecServer # "closed"
      BY <2>1
    <2>3. CASE ecProg.atEof = "return"
      <3>1. ecState' = "done" /\ UNCHANGED <<ecEof, ecFin>>
        BY <1>1, <2>3 DEF EcInputEnds
      <3>2. ecProg.loop = "turn" \/ ecProg = strcliselect01
        BY <2>3, EcKinds
      <3>3. ecProg.loop = "turn" => ecAt["wire"] = 0 /\ ecAt["back"] = 0 /\ ecAt["rbuf"] = 0
        <4>1. ecAt["wire"] \in Nat /\ ecAt["back"] \in Nat /\ ecAt["rbuf"] \in Nat
          OBVIOUS
        <4> HIDE DEF EcInv
        <4> QED
          BY <2>1, <4>1 DEF EcOwed
      <3>4. ecProg # EcOff
        BY <2>1, EcKinds
      <3> QED
        BY <2>1, <2>2, <3>1, <3>2, <3>3, <3>4
    <2>4. CASE ecProg.atEof # "return"
      <3>1. /\ ecEof' = (IF ecProg.early = "done" THEN "shut" ELSE "yes")
            /\ ecFin' = TRUE /\ UNCHANGED ecState
        BY <1>1, <2>4 DEF EcInputEnds
      <3>2. ecProg.atEof = "shutdown" /\ ecProg # EcOff
        <4>1. ecProg \in EcKnown /\ ecProg.loop # "none"
          BY <2>1
        <4> QED
          BY ONLY <2>4, <4>1, EcKinds
      <3> QED
        BY <2>1, <2>2, <3>1, <3>2
    <2> QED
      BY <2>3, <2>4
  <1>2. CASE EcSetDone
    BY <1>2, EcKinds DEF EcSetDone, EcRuns
  <1>3. CASE EcShutAgain
    BY <1>3, EcKinds DEF EcShutAgain, EcRuns
  <1> QED
    BY <1>1, <1>2, <1>3

\* From the server to standard output.
LEMMA EcReceives ==
    ASSUME EcInv, EcReceiveLine \/ EcReceiveAll \/ EcSocketEof
    PROVE  EcInv'
  <1> USE DEF EcInv, EcTypes, EcConserved, EcPlaces, EcTrueVerdict
  <1>1. CASE EcReceiveLine \/ EcReceiveAll
    <2>1. /\ ecState = "run" /\ ecProg.loop # "nonb" /\ ecProg # EcOff
          /\ UNCHANGED <<ecProg, ecTyped, ecInput, ecEof, ecFin, ecServer, ecToi, ecFri, ecState>>
      BY <1>1, EcKinds DEF EcReceiveLine, EcReceiveAll, EcRuns
    <2>2. /\ \A p \in EcPlaces \ {"back", "rbuf", "shown"} : ecAt'[p] = ecAt[p]
          /\ ecAt' \in [EcPlaces -> Nat]
          /\ ecAt'["back"] + ecAt'["rbuf"] + ecAt'["shown"]
                = ecAt["back"] + ecAt["rbuf"] + ecAt["shown"]
      <3>1. CASE ecAt' = [ecAt EXCEPT !["rbuf"] = @ - 1, !["shown"] = @ + 1] /\ ecAt["rbuf"] > 0
        <4>1. ecAt \in [EcPlaces -> Nat] /\ 1 \in 0 .. ecAt["rbuf"]
          BY <3>1
        <4>2. /\ ecAt' \in [EcPlaces -> Nat]
              /\ ecAt'["rbuf"] = ecAt["rbuf"] - 1 /\ ecAt'["shown"] = ecAt["shown"] + 1
              /\ \A p \in EcPlaces \ {"rbuf", "shown"} : ecAt'[p] = ecAt[p]
          <5> HIDE DEF EcInv, EcPlaces
          <5> QED
            BY <3>1, <4>1, EcMove, EcPairs, Zenon
        <4> QED
          BY <4>1, <4>2
      <3>2. CASE /\ ecAt' = [ecAt EXCEPT !["rbuf"] = ecAt["back"] - 1, !["back"] = 0,
                                         !["shown"] = @ + 1]
                 /\ ecAt["rbuf"] = 0 /\ ecAt["back"] > 0
        BY <3>2
      <3>3. CASE ecAt' = [ecAt EXCEPT !["back"] = 0, !["shown"] = @ + ecAt["back"]]
        <4>1. ecAt["back"] \in Nat /\ ecAt["shown"] \in Nat /\ ecAt["rbuf"] \in Nat
          OBVIOUS
        <4>2. /\ ecAt'["back"] = 0 /\ ecAt'["shown"] = ecAt["shown"] + ecAt["back"]
              /\ \A p \in EcPlaces \ {"back", "shown"} : ecAt'[p] = ecAt[p]
          BY <3>3
        <4>3. ecAt["shown"] + ecAt["back"] \in Nat
          BY ONLY <4>1
        <4>4. ecAt' \in [EcPlaces -> Nat]
          BY <3>3, <4>3
        <4>5. /\ ecAt'["rbuf"] = ecAt["rbuf"]
              /\ \A p \in EcPlaces \ {"back", "rbuf", "shown"} : ecAt'[p] = ecAt[p]
          BY ONLY <4>2 DEF EcPlaces
        <4>6. ecAt'["back"] + ecAt'["rbuf"] + ecAt'["shown"]
                = ecAt["back"] + ecAt["rbuf"] + ecAt["shown"]
          BY ONLY <4>1, <4>2, <4>5
        <4> QED
          BY <4>4, <4>5, <4>6
      <3> QED
        BY <1>1, <3>1, <3>2, <3>3 DEF EcReceiveLine, EcReceiveAll
    <2>3. EcConserved'
      BY <2>1, <2>2
    <2> QED
      BY <2>1, <2>2, <2>3
  <1>2. CASE EcSocketEof
    <2>1. /\ ecState = "run" /\ ecServer # "up" /\ ecAt["back"] = 0 /\ ecAt["rbuf"] = 0
          /\ ecState' = EcVerdict /\ ecProg # EcOff
          /\ UNCHANGED <<ecProg, ecAt, ecTyped, ecInput, ecEof, ecFin, ecServer, ecToi, ecFri>>
      BY <1>2, EcKinds DEF EcSocketEof, EcRuns, EcServerEof
    <2>2. ecState' \in {"done", "premature"}
      BY <2>1 DEF EcVerdict
    <2>3. ecServer # "ended" =>
            /\ ecFin /\ ecEof # "no" /\ ecInput = "eof"
            /\ \A p \in EcPlaces \ {"fr", "shown"} : ecAt[p] = 0
      BY <2>1
    <2>4. ecServer # "ended" /\ ecState' = "premature" => ecProg = strclithread2 /\ ecEof = "shut"
      <3>1. ecProg.atEof = "shutdown" => ecProg.early # "premature"
        BY EcKinds
      <3>2. ecServer # "ended" /\ ecState' = "premature" => ecEof = "shut"
        BY <2>1, <2>3, <3>1 DEF EcVerdict
      <3> QED
        BY <3>2, EcKinds
    <2> QED
      BY <2>1, <2>2, <2>3, <2>4
  <1> QED
    BY <1>1, <1>2

\* strclinonb.
LEMMA EcNonb ==
    ASSUME EcInv, EcNonbInput \/ EcNonbSocket \/ EcNonbShow \/ EcNonbFlush
    PROVE  EcInv'
  <1> USE DEF EcInv, EcTypes, EcConserved, EcPlaces, EcTrueVerdict
  <1>0. /\ ecState = "run" /\ ecProg.loop = "nonb" /\ ecProg.input = "read" /\ ecProg # EcOff
        /\ ecProg.atEof = "shutdown" /\ ecState' \in {"run", "sigpipe"}
        /\ UNCHANGED <<ecProg, ecTyped, ecInput, ecServer>>
    BY EcKinds DEF EcNonbInput, EcNonbSocket, EcNonbShow, EcNonbFlush, EcRuns
  <1>1. CASE EcNonbInput
    <2>1. CASE ecEof' = ecEof
      <3> DEFINE n == EcFewer(ecAt["typed"], EcMaxline - ecToi)
      <3>1. /\ n > 0 /\ ecAt' = [ecAt EXCEPT !["typed"] = @ - n, !["to"] = @ + n]
            /\ ecEof = "no" /\ ecToi < EcMaxline /\ UNCHANGED <<ecEof, ecFin>>
            /\ ecToi' = ecToi + n
        BY <1>1, <2>1 DEF EcNonbInput
      <3>2. n \in Nat /\ n <= ecAt["typed"]
        <4>1. ecAt["typed"] \in Nat /\ ecToi \in Nat /\ EcMaxline \in Nat
          BY EcAssumption
        <4> HIDE DEF EcInv
        <4> QED
          BY <3>1, <4>1 DEF EcFewer
      <3>3. ~ecFin /\ ecServer # "closed"
        BY <3>1
      <3> HIDE DEF n
      <3>4. /\ ecAt'["typed"] = ecAt["typed"] - n /\ ecAt'["to"] = ecAt["to"] + n
            /\ \A p \in EcPlaces \ {"typed", "to"} : ecAt'[p] = ecAt[p]
            /\ ecAt' \in [EcPlaces -> Nat]
        <4>1. ecAt \in [EcPlaces -> Nat] /\ n \in 0 .. ecAt["typed"]
          BY <3>2
        <4> HIDE DEF EcInv, EcPlaces
        <4> QED
          BY <3>1, <4>1, EcMove, EcPairs, Zenon
      <3>5. EcConserved'
        BY <1>0, <3>2, <3>4
      <3>6. ecToi' \in Nat /\ ecFri' \in Nat
        BY <1>1, <3>1, <3>2 DEF EcNonbInput
      <3> QED
        BY <1>0, <3>1, <3>3, <3>4, <3>5, <3>6
    <2>2. CASE ecEof' # ecEof
      <3>1. /\ ecInput = "eof" /\ ecAt["typed"] = 0 /\ ecEof' = "yes" /\ ecEof = "no"
            /\ ecFin' = (ecAt["to"] = 0) /\ UNCHANGED <<ecAt, ecToi, ecFri>>
        BY <1>1, <2>2 DEF EcNonbInput
      <3> QED
        BY <1>0, <3>1
    <2> QED
      BY <2>1, <2>2
  <1>2. CASE EcNonbSocket
    <2> DEFINE n == EcFewer(ecAt["back"], EcMaxline - ecFri)
    <2>1. /\ n > 0 /\ ecAt' = [ecAt EXCEPT !["back"] = @ - n, !["fr"] = @ + n]
          /\ ecFri < EcMaxline /\ ecFri' = ecFri + n /\ UNCHANGED <<ecEof, ecFin, ecState>>
      BY <1>2 DEF EcNonbSocket
    <2>2. n \in Nat /\ n <= ecAt["back"]
      <3>1. ecAt["back"] \in Nat /\ ecFri \in Nat /\ EcMaxline \in Nat
        BY EcAssumption
      <3> HIDE DEF EcInv
      <3> QED
        BY <2>1, <3>1 DEF EcFewer
    <2> HIDE DEF n
    <2>3. /\ ecAt'["back"] = ecAt["back"] - n /\ ecAt'["fr"] = ecAt["fr"] + n
          /\ \A p \in EcPlaces \ {"back", "fr"} : ecAt'[p] = ecAt[p]
          /\ ecAt' \in [EcPlaces -> Nat]
      <3>1. ecAt \in [EcPlaces -> Nat] /\ n \in 0 .. ecAt["back"]
        BY <2>2
      <3> HIDE DEF EcInv, EcPlaces
      <3> QED
        BY <2>1, <3>1, EcMove, EcPairs, Zenon
    <2>4. EcConserved'
      BY <1>0, <2>2, <2>3
    <2> QED
      BY <1>0, <1>2, <2>1, <2>2, <2>3, <2>4 DEF EcNonbSocket
  <1>3. CASE EcNonbShow
    <2>1. PICK n \in 1 .. ecAt["fr"] :
            ecAt' = [ecAt EXCEPT !["fr"] = @ - n, !["shown"] = @ + n]
      BY <1>3 DEF EcNonbShow
    <2>2. UNCHANGED <<ecEof, ecFin, ecState>>
      BY <1>3 DEF EcNonbShow
    <2>3. /\ ecAt'["fr"] = ecAt["fr"] - n /\ ecAt'["shown"] = ecAt["shown"] + n
          /\ \A p \in EcPlaces \ {"fr", "shown"} : ecAt'[p] = ecAt[p]
          /\ ecAt' \in [EcPlaces -> Nat]
      <3>1. ecAt \in [EcPlaces -> Nat] /\ n \in 0 .. ecAt["fr"]
        OBVIOUS
      <3> HIDE DEF EcInv, EcPlaces
      <3> QED
        BY <2>1, <3>1, EcMove, EcPairs, Zenon
    <2>4. EcConserved'
      BY <1>0, <2>3
    <2> QED
      BY <1>0, <1>3, <2>2, <2>3, <2>4 DEF EcNonbShow
  <1>4. CASE EcNonbFlush
    <2>1. PICK n \in 1 .. ecAt["to"] :
            /\ ecAt' = [ecAt EXCEPT !["to"] = @ - n, !["wire"] = @ + n]
            /\ ecFin' = EcFlushedFin(n)
      BY <1>4 DEF EcNonbFlush
    <2>2. ~ecFin /\ ecServer # "closed" /\ ecEof' = ecEof /\ ecAt["to"] \in Nat
      <3>1. ecAt["to"] # 0 /\ ecAt["to"] \in Nat
        OBVIOUS
      <3>2. ecEof' = ecEof
        BY <1>4 DEF EcNonbFlush
      <3> QED
        BY <3>1, <3>2
    <2>3. /\ ecAt'["to"] = ecAt["to"] - n /\ ecAt'["wire"] = ecAt["wire"] + n
          /\ \A p \in EcPlaces \ {"to", "wire"} : ecAt'[p] = ecAt[p]
          /\ ecAt' \in [EcPlaces -> Nat]
      <3>1. ecAt \in [EcPlaces -> Nat] /\ n \in 0 .. ecAt["to"]
        OBVIOUS
      <3> HIDE DEF EcInv, EcPlaces
      <3> QED
        BY <2>1, <3>1, EcMove, EcPairs, Zenon
    <2>4. EcConserved'
      BY <1>0, <2>3
    <2>5. ecFin' => ecEof = "yes" /\ ecAt'["to"] = 0
      <3>1. ecFin' => n = ecAt["to"] /\ ecEof = "yes"
        BY <2>1, <2>2 DEF EcFlushedFin
      <3>2. n = ecAt["to"] => ecAt["to"] - n = 0
        BY <2>2
      <3> QED
        BY <2>3, <3>1, <3>2
    <2>6. ecToi' \in Nat /\ ecFri' \in Nat
      BY <1>4 DEF EcNonbFlush
    <2>7. EcTypes'
      BY <1>0, <2>2, <2>3, <2>6
    <2>8. /\ ecAt'["stdio"] = 0 /\ ecAt'["typed"] = ecAt["typed"]
          /\ ecState' # "done" /\ EcTrueVerdict'
      BY <1>0, <2>3
    <2> HIDE DEF EcTypes, EcConserved, EcTrueVerdict
    <2> QED
      BY <1>0, <2>2, <2>4, <2>5, <2>7, <2>8
  <1> QED
    BY <1>1, <1>2, <1>3, <1>4

\* For any number of lines and any buffer: a client that ends normally has
\* shown all echoes or has them in fr[], and no server is called premature that
\* was not, but by strclithread2.
THEOREM EcHonestCorrect == EcSpec => []EcHonest
  <1>1. EcInv /\ [EcNext]_ecVars => EcInv'
    <2>1. EcInv /\ UNCHANGED ecVars => EcInv'
      BY DEF ecVars, EcInv, EcTypes, EcConserved, EcTrueVerdict
    <2> QED
      BY <2>1, EcOutside, EcSends, EcInputEnd, EcReceives, EcNonb DEF EcNext, EcFairStep
  <1>2. EcInv => EcHonest
    <2> SUFFICES ASSUME EcInv PROVE EcHonest
      OBVIOUS
    <2>1. EcAllShown
      <3> SUFFICES ASSUME ecState = "done", ecServer # "ended", ecProg # strcliselect01
                   PROVE  /\ ecAt["shown"] + ecAt["fr"] = ecTyped
                          /\ ecAt["fr"] > 0 => ecProg = strclinonb
        BY DEF EcAllShown
      <3>1. \A p \in EcPlaces \ {"fr", "shown"} : ecAt[p] = 0
        BY DEF EcInv
      <3>2. ecAt["shown"] + ecAt["fr"] = ecTyped
        BY <3>1 DEF EcInv, EcTypes, EcConserved, EcPlaces
      <3>3. ecAt["fr"] > 0 => ecProg.loop = "nonb"
        BY DEF EcInv
      <3> QED
        BY <3>2, <3>3, EcKinds DEF EcInv, EcTypes
    <2> QED
      BY <2>1 DEF EcInv, EcHonest
  <1> QED
    BY EcInvInit, <1>1, <1>2, PTL DEF EcSpec

-----------------------------------------------------------------------------
(* sock: the source and the sink.                                          *)

\* What is under way and counted is what was written: all of it over TCP, and
\* never more over UDP.
SrcTcpKept ==
    \/ srcWire = <<>> /\ snkCount = srcSent
    \/ /\ Len(srcWire) = 1 /\ srcWire[1] \in Nat \ {0}
       /\ snkCount + srcWire[1] = srcSent
SrcUdpKept ==
    /\ \A i \in 1 .. Len(srcWire) : srcWire[i] = SrcWritelen
    /\ snkCount + Len(srcWire) * SrcWritelen <= srcSent

SrcInv ==
    /\ srcSent \in Nat /\ snkCount \in Nat
    /\ srcWire \in Seq(Nat)
    /\ srcPc = "main" => srcWire = <<>> /\ srcSent = 0 /\ snkCount = 0 /\ snkPc = "read"
    /\ snkPc = "closed" => ~srcCmd.udp /\ srcWire = <<>> /\ srcPc \in {"closed", "exit"}
    /\ ~srcCmd.udp => SrcTcpKept
    /\ srcCmd.udp => SrcUdpKept

LEMMA SrcInvInit == SrcInit => SrcInv
  <1>1. <<>> \in Seq(Nat) /\ Len(<<>>) = 0
    OBVIOUS
  <1> QED
    BY <1>1 DEF SrcInit, SrcInv, SrcTcpKept, SrcUdpKept

LEMMA SrcMainStep == ASSUME SrcInv, SrcMain PROVE SrcInv'
  <1>1. srcWire = <<>> /\ srcSent = 0 /\ snkCount = 0 /\ snkPc = "read" /\ Len(<<>>) = 0
    BY DEF SrcInv, SrcTcpKept, SrcUdpKept, SrcMain
  <1> QED
    BY <1>1, SrcLengthsAssumption DEF SrcInv, SrcTcpKept, SrcUdpKept, SrcMain

LEMMA SrcPutStep ==
    ASSUME SrcInv, srcPc = "write", ~srcCmd.udp, snkPc # "closed",
           NEW n \in Nat \ {0}, SrcPut(n), srcPc' \in {"write", "exit"},
           UNCHANGED <<srcCmd, snkPc, snkPeeked, snkCount>>
    PROVE  SrcInv'
  <1>1. srcSent' = srcSent + n /\ srcSent \in Nat /\ snkCount \in Nat
    BY DEF SrcPut, SrcInv
  <1>2. CASE srcWire = <<>>
    <2>1. snkCount = srcSent /\ Len(<<>>) = 0
      BY <1>2 DEF SrcInv, SrcTcpKept
    <2>2. srcWire' = <<n>>
      BY <1>2 DEF SrcPut
    <2>3. srcWire' \in Seq(Nat) /\ Len(srcWire') = 1 /\ srcWire'[1] = n
      BY <2>2
    <2> QED
      BY <1>1, <2>1, <2>3 DEF SrcInv, SrcTcpKept
  <1>3. CASE srcWire # <<>>
    <2>1. PICK w : w = srcWire[1]
      OBVIOUS
    <2>2. w \in Nat /\ w # 0 /\ snkCount + w = srcSent
      BY <1>3, <2>1 DEF SrcInv, SrcTcpKept
    <2>3. srcWire' = <<w + n>>
      BY <1>3, <2>1 DEF SrcPut
    <2>4. srcWire' \in Seq(Nat) /\ Len(srcWire') = 1 /\ srcWire'[1] = w + n
      BY <2>2, <2>3
    <2>5. srcSent' \in Nat /\ w + n \in Nat \ {0} /\ snkCount + (w + n) = srcSent'
      BY ONLY <1>1, <2>2, n \in Nat \ {0}
    <2>6. SrcTcpKept'
      BY <2>4, <2>5 DEF SrcTcpKept
    <2> QED
      BY <1>1, <2>4, <2>5, <2>6 DEF SrcInv
  <1> QED
    BY <1>2, <1>3

LEMMA SrcTcpStep == ASSUME SrcInv, SrcTcp PROVE SrcInv'
  <1>1. /\ srcPc = "write" /\ ~srcCmd.udp /\ snkPc # "closed"
        /\ UNCHANGED <<srcCmd, snkPc, snkPeeked, snkCount>>
    BY DEF SrcTcp, SrcInv, SrcTcpKept
  <1>2. CASE SrcUrgentFails \/ SrcWriteFails
    <2>1. UNCHANGED <<srcWire, srcSent>> /\ srcPc' \in {"write", "exit"}
      BY <1>1, <1>2 DEF SrcWriteFails, SrcWriteError, SrcUrgentFails
    <2> QED
      BY <1>1, <2>1 DEF SrcInv, SrcTcpKept
  <1>3. CASE SrcPut(SrcWritelen) /\ UNCHANGED srcPc
    BY <1>1, <1>3, SrcPutStep, SrcLengthsAssumption
  <1>4. CASE \E n \in 1 .. SrcWritelen - 1 : SrcPut(n) /\ SrcWriteError
    <2>1. PICK n \in 1 .. SrcWritelen - 1 : SrcPut(n) /\ SrcWriteError
      BY <1>4
    <2>2. n \in Nat \ {0}
      BY <2>1, SrcLengthsAssumption
    <2>3. srcPc' \in {"write", "exit"}
      BY <1>1, <2>1 DEF SrcWriteError
    <2> QED
      BY <1>1, <2>1, <2>2, <2>3, SrcPutStep
  <1> QED
    BY <1>2, <1>3, <1>4 DEF SrcTcp

LEMMA SrcUdpStep == ASSUME SrcInv, SrcUdp PROVE SrcInv'
  <1>1. /\ srcPc = "write" /\ srcCmd.udp /\ snkPc # "closed"
        /\ UNCHANGED <<srcCmd, srcUrgent, snkPc, snkPeeked, snkCount>>
    BY DEF SrcUdp, SrcInv, SrcUdpKept
  <1>2. CASE SrcWriteError /\ UNCHANGED <<srcWire, srcSent>>
    <2>1. UNCHANGED <<srcWire, srcSent>> /\ srcPc' \in {"write", "exit"}
      BY <1>1, <1>2 DEF SrcWriteError
    <2> QED
      BY <1>1, <2>1 DEF SrcInv, SrcUdpKept
  <1>3. CASE /\ srcSent' = srcSent + SrcWritelen
             /\ srcWire' \in {srcWire, Append(srcWire, SrcWritelen)}
             /\ UNCHANGED srcPc
    <2>1. SrcWritelen \in Nat
      BY SrcLengthsAssumption
    <2>2. PICK n, a : n = Len(srcWire) /\ a = n * SrcWritelen
      OBVIOUS
    <2>3. n \in Nat /\ a \in Nat /\ snkCount + a <= srcSent /\ (n + 1) * SrcWritelen = a + SrcWritelen
      BY <1>1, <2>1, <2>2 DEF SrcInv, SrcUdpKept
    <2>4. CASE srcWire' = srcWire
      BY <1>1, <1>3, <2>1, <2>2, <2>3, <2>4 DEF SrcInv, SrcUdpKept
    <2>5. CASE srcWire' = Append(srcWire, SrcWritelen)
      <3>1. /\ srcWire' \in Seq(Nat) /\ Len(srcWire') = n + 1 /\ srcWire'[n + 1] = SrcWritelen
            /\ \A i \in 1 .. n : srcWire'[i] = srcWire[i]
        BY <2>1, <2>2, <2>5, AppendProperties DEF SrcInv, SrcUdpKept
      <3>2. \A i \in 1 .. Len(srcWire') : srcWire'[i] = SrcWritelen
        <4> SUFFICES ASSUME NEW i \in 1 .. n + 1 PROVE srcWire'[i] = SrcWritelen
          BY <3>1
        <4>1. i = n + 1 \/ i \in 1 .. n
          BY <2>3
        <4> QED
          BY <1>1, <2>2, <3>1, <4>1 DEF SrcInv, SrcUdpKept
      <3>3. snkCount' + Len(srcWire') * SrcWritelen <= srcSent'
        BY <1>1, <1>3, <2>1, <2>3, <3>1 DEF SrcInv, SrcUdpKept
      <3>4. SrcUdpKept'
        BY <3>2, <3>3 DEF SrcUdpKept
      <3>5. srcSent' \in Nat
        BY <1>3, <2>1 DEF SrcInv
      <3> QED
        BY <1>1, <1>3, <3>1, <3>4, <3>5 DEF SrcInv
    <2> QED
      BY <1>3, <2>4, <2>5
  <1> QED
    BY <1>2, <1>3 DEF SrcUdp

LEMMA SnkTcpStep == ASSUME SrcInv, SnkTcp PROVE SrcInv'
  <1>1. /\ ~srcCmd.udp /\ srcPc # "main" /\ snkPc \in {"read", "again"}
        /\ UNCHANGED <<srcPc, srcCmd, srcI, srcSent, srcUrgent>>
    BY DEF SnkTcp
  <1>2. CASE /\ srcWire = <<>> /\ srcPc \in {"closed", "exit"}
             /\ snkPc' = "closed" /\ UNCHANGED <<srcWire, snkPeeked, snkCount>>
    BY <1>1, <1>2 DEF SrcInv, SrcTcpKept
  <1>3. CASE /\ srcWire # <<>>
             /\ LET n == SrcFit(srcWire[1])
                    look == SnkLook
                IN  /\ snkCount' = SnkCounted(n, look)
                    /\ snkPc' = IF look THEN "again" ELSE "read"
                    /\ srcWire' = IF look THEN srcWire
                                  ELSE IF srcWire[1] = n THEN <<>> ELSE <<srcWire[1] - n>>
    <2>1. PICK w, n : w = srcWire[1] /\ n = SrcFit(w)
      OBVIOUS
    <2>2. w \in Nat \ {0} /\ snkCount + w = srcSent /\ Len(srcWire) = 1
      BY <1>1, <1>3, <2>1 DEF SrcInv, SrcTcpKept
    <2>3. n \in Nat /\ n <= w
      BY <2>1, <2>2, SrcLengthsAssumption DEF SrcFit
    <2>4. CASE SnkLook
      <3>1. snkCount' = snkCount /\ srcWire' = srcWire /\ snkPc' = "again"
        BY <1>3, <2>1, <2>4 DEF SnkCounted
      <3> QED
        BY <1>1, <3>1 DEF SrcInv, SrcTcpKept
    <2>5. CASE ~SnkLook
      <3>1. /\ snkCount' = snkCount + n /\ snkPc' = "read"
            /\ srcWire' = IF w = n THEN <<>> ELSE <<w - n>>
        BY <1>3, <2>1, <2>5 DEF SnkCounted
      <3>2. CASE w = n
        <4>1. srcWire' = <<>> /\ <<>> \in Seq(Nat)
          BY <3>1, <3>2
        <4> QED
          BY <1>1, <2>2, <2>3, <3>1, <3>2, <4>1 DEF SrcInv, SrcTcpKept
      <3>3. CASE w # n
        <4>1. w - n \in Nat \ {0}
          BY <2>2, <2>3, <3>3
        <4>2. srcWire' \in Seq(Nat) /\ Len(srcWire') = 1 /\ srcWire'[1] = w - n
          BY <3>1, <3>3, <4>1
        <4> QED
          BY <1>1, <2>2, <2>3, <3>1, <4>1, <4>2 DEF SrcInv, SrcTcpKept
      <3> QED
        BY <3>2, <3>3
    <2> QED
      BY <2>4, <2>5
  <1>4. CASE SnkFails
    BY <1>1, <1>4 DEF SnkFails, SrcInv, SrcTcpKept
  <1> QED
    BY <1>2, <1>3, <1>4 DEF SnkTcp

LEMMA SnkUdpReads ==
    ASSUME SrcInv, SnkUdp, ~SnkFails PROVE SrcInv'
  <1>1. /\ srcCmd.udp /\ srcWire # <<>> /\ srcPc # "main"
        /\ UNCHANGED <<srcPc, srcCmd, srcI, srcSent, srcUrgent>>
    BY DEF SnkUdp, SrcInv, SrcUdpKept
  <1>2. PICK w, n : w = SrcFit(srcWire[1]) /\ n = Len(srcWire)
    OBVIOUS
  <1>3. PICK t : t = Tail(srcWire)
    OBVIOUS
  <1>4. SrcWritelen \in Nat /\ SrcReadlen \in Nat
    BY SrcLengthsAssumption
  <1>5. /\ n \in Nat \ {0} /\ srcWire[1] = SrcWritelen
        /\ t \in Seq(Nat) /\ Len(t) = n - 1 /\ \A i \in 1 .. Len(t) : t[i] = srcWire[i + 1]
    <2>1. srcWire \in Seq(Nat) /\ n \in Nat \ {0}
      BY <1>1, <1>2 DEF SrcInv, SrcUdpKept
    <2>2. 1 \in 1 .. n
      BY <2>1
    <2> QED
      BY <1>1, <1>2, <1>3, <2>1, <2>2, HeadTailProperties DEF SrcInv, SrcUdpKept
  <1>6. \A i \in 1 .. Len(t) : t[i] = SrcWritelen
    <2> SUFFICES ASSUME NEW i \in 1 .. Len(t) PROVE t[i] = SrcWritelen
      OBVIOUS
    <2>1. i + 1 \in 1 .. n
      BY <1>5
    <2> QED
      BY <1>1, <1>2, <1>5, <2>1 DEF SrcInv, SrcUdpKept
  <1>7. w \in Nat /\ w <= SrcWritelen
    BY <1>2, <1>4, <1>5 DEF SrcFit
  <1>8. PICK a : a = n * SrcWritelen
    OBVIOUS
  <1>9. /\ a \in Nat /\ snkCount + a <= srcSent /\ (n - 1) * SrcWritelen = a - SrcWritelen
        /\ snkCount \in Nat /\ srcSent \in Nat
    BY <1>1, <1>2, <1>4, <1>5, <1>8 DEF SrcInv, SrcUdpKept
  <1>10. CASE SnkLook
    <2>1. snkCount' = snkCount /\ srcWire' = srcWire /\ snkPc' = "again"
      BY <1>10 DEF SnkUdp, SnkCounted
    <2> QED
      BY <1>1, <2>1 DEF SrcInv, SrcUdpKept
  <1>11. CASE ~SnkLook
    <2>1. snkCount' = snkCount + w /\ srcWire' = t /\ snkPc' = "read"
      BY <1>2, <1>3, <1>11 DEF SnkUdp, SnkCounted
    <2>2. snkCount' + Len(srcWire') * SrcWritelen <= srcSent'
      <3>1. Len(srcWire') = n - 1 /\ srcSent' = srcSent
        BY <1>1, <1>5, <2>1
      <3>2. Len(srcWire') * SrcWritelen = a - SrcWritelen
        BY ONLY <1>9, <3>1, Zenon
      <3> QED
        BY ONLY <1>4, <1>7, <1>9, <2>1, <3>1, <3>2
    <2>3. SrcUdpKept'
      BY ONLY <1>6, <2>1, <2>2 DEF SrcUdpKept
    <2>4. srcSent' \in Nat /\ snkCount' \in Nat /\ srcWire' \in Seq(Nat)
      <3>1. srcSent' = srcSent
        BY <1>1
      <3> QED
        BY ONLY <1>5, <1>7, <1>9, <2>1, <3>1
    <2>5. srcCmd'.udp /\ srcPc' # "main" /\ snkPc' # "closed"
      <3>1. snkPc' = "read" /\ srcCmd' = srcCmd /\ srcPc' = srcPc
        BY <1>1, <2>1
      <3> QED
        BY ONLY <1>1, <3>1
    <2> QED
      BY ONLY <2>3, <2>4, <2>5 DEF SrcInv
  <1> QED
    BY <1>10, <1>11

LEMMA SnkUdpStep == ASSUME SrcInv, SnkUdp PROVE SrcInv'
  <1>1. CASE SnkFails
    <2>1. /\ srcCmd.udp /\ snkPc' = "failed" /\ srcPc # "main"
          /\ UNCHANGED <<srcPc, srcCmd, srcWire, srcSent, snkCount>>
      BY <1>1 DEF SnkUdp, SnkFails
    <2> QED
      BY <2>1 DEF SrcInv, SrcUdpKept
  <1> QED
    BY <1>1, SnkUdpReads

\* Without -W nothing but whole buffers is sent.
SrcWhole ==
    /\ srcI \in 1 .. SrcNbuf + 1
    /\ srcPc = "main" => srcI = 1 /\ srcSent = 0
    /\ srcPc = "closed" => srcI = SrcNbuf + 1
    /\ ~srcCmd.ignorewerr /\ srcPc # "exit" => srcSent = (srcI - 1) * SrcWritelen

LEMMA SrcWholeStep == ASSUME SrcWhole, SrcInv, SrcNext PROVE SrcWhole'
  <1>1. SrcNbuf \in Nat /\ SrcWritelen \in Nat /\ srcI \in Nat /\ srcI >= 1
        /\ srcI <= SrcNbuf + 1 /\ srcSent \in Nat
    BY SrcLengthsAssumption DEF SrcWhole, SrcInv
  <1>2. CASE SrcMain
    <2>1. srcI' = 1 /\ srcSent' = 0 /\ srcPc' = "write"
      BY <1>2 DEF SrcMain, SrcWhole
    <2> QED
      BY <1>1, <2>1 DEF SrcWhole
  <1>3. CASE SrcTcp \/ SrcUdp
    <2>1. srcPc = "write" /\ srcI <= SrcNbuf /\ srcCmd' = srcCmd
      BY <1>3 DEF SrcTcp, SrcUdp
    <2>2. \/ srcI' = srcI + 1 /\ srcSent' = srcSent + SrcWritelen /\ srcPc' = srcPc
          \/ srcCmd.ignorewerr /\ srcI' = srcI + 1 /\ srcPc' = srcPc
          \/ srcI' = srcI /\ srcPc' = "exit"
      <3>1. CASE SrcTcp
        BY <3>1 DEF SrcTcp, SrcUrgentFails, SrcPut, SrcWriteFails, SrcWriteError
      <3>2. CASE SrcUdp
        BY <3>2 DEF SrcUdp, SrcWriteError
      <3> QED
        BY <1>3, <3>1, <3>2
    <2>3. CASE srcI' = srcI + 1 /\ srcSent' = srcSent + SrcWritelen /\ srcPc' = srcPc
      <3>1. PICK a : a = (srcI - 1) * SrcWritelen
        OBVIOUS
      <3>2. a \in Nat /\ ((srcI + 1) - 1) * SrcWritelen = a + SrcWritelen
        BY ONLY <1>1, <3>1
      <3>3. ~srcCmd.ignorewerr => srcSent' = (srcI' - 1) * SrcWritelen
        BY <2>1, <2>3, <3>1, <3>2 DEF SrcWhole
      <3> QED
        BY <1>1, <2>1, <2>3, <3>3 DEF SrcWhole
    <2>4. CASE srcCmd.ignorewerr /\ srcI' = srcI + 1 /\ srcPc' = srcPc
      BY <1>1, <2>1, <2>4 DEF SrcWhole
    <2>5. CASE srcI' = srcI /\ srcPc' = "exit"
      BY <1>1, <2>1, <2>5 DEF SrcWhole
    <2> QED
      BY <2>2, <2>3, <2>4, <2>5
  <1>4. CASE SrcClose
    <2>1. srcPc = "write" /\ srcI = SrcNbuf + 1
      BY <1>1, <1>4 DEF SrcClose
    <2> QED
      BY <1>4, <2>1 DEF SrcClose, SrcWhole
  <1>5. CASE SnkTcp \/ SnkUdp
    <2>1. UNCHANGED <<srcPc, srcCmd, srcI, srcSent>>
      BY <1>5 DEF SnkTcp, SnkUdp
    <2> QED
      BY <2>1 DEF SrcWhole
  <1> QED
    BY <1>2, <1>3, <1>4, <1>5 DEF SrcNext

LEMMA SrcCountedCorrect == SrcSpec => []SrcAllCounted
  <1>1. SrcInv /\ [SrcNext]_srcVars => SrcInv'
    <2>1. SrcInv /\ UNCHANGED srcVars => SrcInv'
      BY DEF SrcInv, SrcTcpKept, SrcUdpKept, srcVars
    <2>2. SrcInv /\ SrcClose => SrcInv'
      BY DEF SrcInv, SrcTcpKept, SrcUdpKept, SrcClose
    <2> QED
      BY <2>1, <2>2, SrcMainStep, SrcTcpStep, SrcUdpStep, SnkTcpStep, SnkUdpStep DEF SrcNext
  <1>2. SrcInit => SrcWhole
    BY SrcLengthsAssumption DEF SrcInit, SrcWhole
  <1>3. SrcWhole /\ SrcInv /\ [SrcNext]_srcVars => SrcWhole'
    <2>1. SrcWhole /\ UNCHANGED srcVars => SrcWhole'
      BY DEF SrcWhole, srcVars
    <2> QED
      BY <2>1, SrcWholeStep
  <1>4. SrcInv /\ SrcWhole => SrcAllCounted
    <2> SUFFICES ASSUME SrcInv, SrcWhole PROVE SrcAllCounted
      OBVIOUS
    <2>1. snkCount <= srcSent /\ (snkPc = "closed" => snkCount = srcSent)
      <3>1. CASE ~srcCmd.udp
        <4>1. Len(<<>>) = 0
          OBVIOUS
        <4> QED
          BY <3>1, <4>1 DEF SrcInv, SrcTcpKept, SrcUdpKept
      <3>2. CASE srcCmd.udp
        <4>1. Len(srcWire) \in Nat /\ SrcWritelen \in Nat
          BY SrcLengthsAssumption DEF SrcInv, SrcTcpKept, SrcUdpKept
        <4>2. Len(srcWire) * SrcWritelen \in Nat
          BY <4>1
        <4> QED
          BY <3>2, <4>2 DEF SrcInv, SrcTcpKept, SrcUdpKept
      <3> QED
        BY <3>1, <3>2
    <2>2. srcPc = "closed" /\ ~srcCmd.ignorewerr => srcSent = SrcNbuf * SrcWritelen
      <3> SUFFICES ASSUME srcPc = "closed", ~srcCmd.ignorewerr
                   PROVE  srcSent = SrcNbuf * SrcWritelen
        OBVIOUS
      <3>1. srcI = SrcNbuf + 1 /\ srcSent = (srcI - 1) * SrcWritelen
        BY DEF SrcWhole
      <3>2. srcI - 1 = SrcNbuf
        BY <3>1, SrcLengthsAssumption
      <3> QED
        BY <3>1, <3>2, Zenon
    <2> QED
      BY <2>1, <2>2 DEF SrcAllCounted
  <1> QED
    BY SrcInvInit, <1>1, <1>2, <1>3, <1>4, PTL DEF SrcSpec

-----------------------------------------------------------------------------
(* sock: the options, in the order of sockopts().  FlattenSeq is given by  *)
(* a recursive function; the least k for which a fact about its first k    *)
(* values is false leads to a contradiction.                               *)

LEMMA LeastElement ==
    ASSUME NEW S, S \subseteq Nat, S # {}
    PROVE  \E x \in S : \A y \in S : x <= y
  <1> DEFINE less == OpToRel(<, Nat)
  <1>1. IsWellFoundedOn(less, Nat)
    BY NatLessThanWellFounded
  <1> HIDE DEF less
  <1>2. PICK x \in S : \A y \in S : ~(<<y, x>> \in less)
    BY <1>1, WFMin
  <1> USE DEF less
  <1>3. \A y \in S : ~(y < x)
    BY <1>2 DEF OpToRel
  <1> QED
    BY <1>3

\* g[k] is the concatenation of the first k elements of s.
FlatRuns(g, s, n) ==
    /\ g = [k \in 1 .. n |-> g[k]]
    /\ \A k \in 1 .. n : g[k] = IF k = 1 THEN s[k] ELSE g[k - 1] \o s[k]

LEMMA FlatRunsExist ==
    ASSUME NEW s, NEW n \in Nat \ {0}
    PROVE  \E g : FlatRuns(g, s, n)
  <1> DEFINE bad == {m \in Nat \ {0} : ~ \E g : FlatRuns(g, s, m)}
  <1>1. SUFFICES ASSUME n \in bad PROVE FALSE
    OBVIOUS
  <1>2. PICK m \in bad : \A k \in bad : m <= k
    <2>1. bad \subseteq Nat /\ bad # {}
      BY <1>1
    <2> QED
      BY <2>1, LeastElement
  <1>3. m \in Nat \ {0} /\ ~ \E g : FlatRuns(g, s, m)
    BY <1>2
  <1>4. m # 1
    <2>1. FlatRuns([j \in 1 .. 1 |-> s[1]], s, 1)
      BY DEF FlatRuns
    <2> QED
      BY <1>3, <2>1
  <1>5. m - 1 \in Nat \ {0} /\ m - 1 \notin bad
    BY <1>2, <1>3, <1>4
  <1>6. PICK g : FlatRuns(g, s, m - 1)
    BY <1>5
  <1> DEFINE h == [j \in 1 .. m |-> IF j = m THEN g[m - 1] \o s[m] ELSE g[j]]
  <1>7. \A j \in 1 .. m : h[j] = IF j = 1 THEN s[j] ELSE h[j - 1] \o s[j]
    <2> SUFFICES ASSUME NEW j \in 1 .. m
                 PROVE  h[j] = IF j = 1 THEN s[j] ELSE h[j - 1] \o s[j]
      OBVIOUS
    <2>1. CASE j = m
      <3>1. m - 1 \in 1 .. m /\ m - 1 # m
        BY <1>3, <1>4
      <3>2. h[m - 1] = g[m - 1] /\ h[j] = g[m - 1] \o s[m]
        BY <2>1, <3>1
      <3> QED
        BY <1>4, <2>1, <3>2
    <2>2. CASE j # m
      <3>1. j \in 1 .. m - 1 /\ (j # 1 => j - 1 \in 1 .. m /\ j - 1 # m)
        BY <1>3, <2>2
      <3>2. h[j] = g[j] /\ (j # 1 => h[j - 1] = g[j - 1])
        BY <2>2, <3>1
      <3>3. g[j] = IF j = 1 THEN s[j] ELSE g[j - 1] \o s[j]
        BY <1>6, <3>1 DEF FlatRuns
      <3> HIDE DEF h
      <3> QED
        BY <3>2, <3>3
    <2> QED
      BY <2>1, <2>2
  <1>8. FlatRuns(h, s, m)
    BY <1>7 DEF FlatRuns
  <1> QED
    BY <1>3, <1>8

LEMMA FlattenIs ==
    ASSUME NEW s, NEW n \in Nat \ {0}, Len(s) = n
    PROVE  \E g : FlatRuns(g, s, n) /\ FlattenSeq(s) = g[n]
  <1> DEFINE F(f) == [k \in 1 .. n |-> IF k = 1 THEN s[k] ELSE f[k - 1] \o s[k]]
             h == CHOOSE f : f = F(f)
  <1>1. FlattenSeq(s) = h[n]
    BY DEF FlattenSeq
  <1>2. PICK g : FlatRuns(g, s, n)
    BY FlatRunsExist
  <1>3. g = F(g)
    BY <1>2 DEF FlatRuns
  <1>4. h = F(h)
    <2> HIDE DEF F
    <2> QED
      BY <1>3
  <1>5. FlatRuns(h, s, n)
    <2> HIDE DEF h
    <2> QED
      BY <1>4 DEF FlatRuns
  <1> QED
    BY <1>1, <1>5

\* The elements of a concatenation.
LEMMA SckJoinRange ==
    ASSUME NEW C, NEW P \in Seq(C), NEW Q \in Seq(C)
    PROVE  /\ P \o Q \in Seq(C) /\ Range(P \o Q) = Range(P) \cup Range(Q)
           /\ \A i \in DOMAIN (P \o Q) :
                 \/ i \in DOMAIN P /\ (P \o Q)[i] = P[i]
                 \/ i > Len(P) /\ (P \o Q)[i] \in Range(Q)
           /\ \A i \in DOMAIN P : i \in DOMAIN (P \o Q) /\ i \in 1 .. Len(P) /\ (P \o Q)[i] = P[i]
  <1>1. PICK s, m, n : s = P \o Q /\ m = Len(P) /\ n = Len(Q)
    OBVIOUS
  <1>2. /\ s \in Seq(C) /\ Len(s) = m + n /\ m \in Nat /\ n \in Nat
        /\ \A i \in 1 .. m + n : s[i] = IF i <= m THEN P[i] ELSE Q[i - m]
    BY <1>1, ConcatProperties
  <1>3. DOMAIN P = 1 .. m /\ DOMAIN Q = 1 .. n /\ DOMAIN s = 1 .. m + n
    BY <1>1, <1>2
  <1>4. \A i \in 1 .. m : i \in 1 .. m + n /\ s[i] = P[i]
    BY <1>2
  <1>5. \A j \in 1 .. n : m + j \in 1 .. m + n /\ s[m + j] = Q[j]
    <2> SUFFICES ASSUME NEW j \in 1 .. n PROVE m + j \in 1 .. m + n /\ s[m + j] = Q[j]
      OBVIOUS
    <2>1. m + j \in 1 .. m + n /\ ~(m + j <= m) /\ (m + j) - m = j
      BY <1>2
    <2>2. s[m + j] = Q[(m + j) - m]
      BY <1>2, <2>1
    <2> QED
      BY <2>1, <2>2
  <1>6. ASSUME NEW i \in 1 .. m + n, i \notin 1 .. m
        PROVE  i > m /\ i - m \in 1 .. n /\ s[i] = Q[i - m]
    <2>1. i > m /\ i - m \in 1 .. n /\ ~(i <= m)
      BY <1>2, <1>6
    <2> QED
      BY <1>2, <2>1
  <1>7. \A i \in 1 .. m + n : i \in 1 .. m \/ (i > m /\ s[i] \in Range(Q))
    BY <1>3, <1>6 DEF Range
  <1>8. Range(s) = Range(P) \cup Range(Q)
    <2>1. Range(s) \subseteq Range(P) \cup Range(Q)
      BY <1>3, <1>4, <1>7 DEF Range
    <2>2. Range(P) \subseteq Range(s) /\ Range(Q) \subseteq Range(s)
      BY <1>3, <1>4, <1>5 DEF Range
    <2> QED
      BY <2>1, <2>2
  <1> QED
    BY <1>1, <1>2, <1>3, <1>4, <1>7, <1>8

\* SckChosen keeps what it should.
LEMMA SckChosenIs ==
    ASSUME NEW A, NEW list \in Seq(A), NEW S
    PROVE  SckChosen(list, S) \in Seq(A) /\ Range(SckChosen(list, S)) = Range(list) \cap S
  <1> DEFINE n == Len(list)
             one(i) == IF list[i] \in S THEN <<list[i]>> ELSE <<>>
  <1>1. PICK s : s = [i \in 1 .. n |-> one(i)]
    OBVIOUS
  <1>2. DOMAIN list = 1 .. n /\ n \in Nat
    OBVIOUS
  <1>3. SckChosen(list, S) = FlattenSeq(s)
    BY <1>1, <1>2 DEF SckChosen
  <1>4. Len(s) = n /\ \A i \in 1 .. n : s[i] = one(i)
    BY <1>1, <1>2
  <1>5. \A i \in 1 .. n : s[i] \in Seq(A) /\ Range(s[i]) = {list[i]} \cap S
    <2> SUFFICES ASSUME NEW i \in 1 .. n PROVE s[i] \in Seq(A) /\ Range(s[i]) = {list[i]} \cap S
      OBVIOUS
    <2>1. list[i] \in A
      BY ElementOfSeq
    <2>2. CASE list[i] \in S
      <3>1. s[i] = <<list[i]>>
        BY <1>4, <2>2
      <3>2. DOMAIN <<list[i]>> = 1 .. 1 /\ <<list[i]>>[1] = list[i] /\ <<list[i]>> \in Seq(A)
        BY <2>1
      <3> QED
        BY <2>2, <3>1, <3>2 DEF Range
    <2>3. CASE list[i] \notin S
      <3>1. s[i] = <<>>
        BY <1>4, <2>3
      <3>2. DOMAIN <<>> = {} /\ <<>> \in Seq(A)
        OBVIOUS
      <3> QED
        BY <2>3, <3>1, <3>2 DEF Range
    <2> QED
      BY <2>2, <2>3
  <1> HIDE DEF one
  <1>6. CASE n = 0
    <2>1. s = <<>> /\ FlattenSeq(s) = s
      BY <1>1, <1>4, <1>6 DEF FlattenSeq
    <2>2. DOMAIN <<>> = {} /\ DOMAIN list = {} /\ <<>> \in Seq(A)
      BY <1>2, <1>6
    <2> QED
      BY <1>3, <2>1, <2>2 DEF Range
  <1>7. CASE n # 0
    <2>1. PICK g : FlatRuns(g, s, n) /\ FlattenSeq(s) = g[n]
      <3>1. n \in Nat \ {0}
        BY <1>2, <1>7
      <3> QED
        BY ONLY <1>4, <3>1, FlattenIs
    <2> DEFINE Good(k) == g[k] \in Seq(A) /\ Range(g[k]) = {list[i] : i \in 1 .. k} \cap S
               bad == {k \in 1 .. n : ~Good(k)}
    <2>2. SUFFICES ASSUME n \in bad PROVE FALSE
      <3>1. n \in 1 .. n /\ Range(list) = {list[i] : i \in 1 .. n}
        BY <1>2, <1>7 DEF Range
      <3> QED
        BY <1>3, <2>1, <3>1
    <2>3. PICK m \in bad : \A k \in bad : m <= k
      <3> HIDE DEF Good
      <3>1. bad \subseteq Nat /\ bad # {}
        BY <1>2, <2>2
      <3> HIDE DEF bad
      <3> QED
        BY ONLY <3>1, LeastElement
    <2>4. m \in 1 .. n /\ ~Good(m)
      BY <2>3
    <2>5. g[m] = IF m = 1 THEN s[m] ELSE g[m - 1] \o s[m]
      BY <2>1, <2>4 DEF FlatRuns
    <2>6. CASE m = 1
      <3>1. {list[i] : i \in 1 .. 1} = {list[1]}
        OBVIOUS
      <3> QED
        BY <1>5, <2>4, <2>5, <2>6, <3>1
    <2>7. CASE m # 1
      <3>1. m - 1 \in 1 .. n /\ ~(m <= m - 1)
        BY <1>2, <2>4, <2>7
      <3>2. Good(m - 1)
        <4> HIDE DEF Good
        <4> QED
          BY <2>3, <3>1
      <3>3. s[m] \in Seq(A) /\ Range(s[m]) = {list[m]} \cap S
        BY <1>5, <2>4
      <3>4. g[m - 1] \o s[m] \in Seq(A) /\ Range(g[m - 1] \o s[m]) = Range(g[m - 1]) \cup Range(s[m])
        BY <3>2, <3>3, SckJoinRange
      <3>5. {list[i] : i \in 1 .. m} = {list[i] : i \in 1 .. m - 1} \cup {list[m]}
        <4>1. \A i : i \in 1 .. m <=> i \in 1 .. m - 1 \/ i = m
          BY <2>4
        <4> QED
          BY <4>1
      <3> QED
        BY <2>4, <2>5, <2>7, <3>2, <3>3, <3>4, <3>5
    <2> QED
      BY <2>6, <2>7
  <1> QED
    BY <1>6, <1>7

-----------------------------------------------------------------------------
(* sock: sequences of calls on the sockets, and which calls come before    *)
(* which.                                                                  *)

SckFds == {"fd", "newfd"}
SckEarlyKinds == {"D", "Y", "H", "J", "X", "g", "B", "2", "j"}
SckLateKinds == {"t", "K", "N", "L", "x", "y", "E", "I"}
SckKinds == SckEarlyKinds \cup SckLateKinds
            \cup {"A", "T", "m", "R", "S", "buffers", "bind", "connect", "listen"}
SckAllCalls == Seq(SckKinds \X SckFds)

\* Every call of X comes before every call of Y.
SckBefore(s, X, Y) == \A i, j \in DOMAIN s : s[i] \in X /\ s[j] \in Y => i < j

\* No call of Y comes before a call of E that is made at all was made.
SckAfter(s, E, Y) ==
    \A e \in E \cap Range(s) : \A j \in DOMAIN s : s[j] \in Y => \E k \in 1 .. j : s[k] = e

LEMMA SckBeforeNone ==
    ASSUME NEW s, NEW X, NEW Y, Range(s) \cap X = {} \/ Range(s) \cap Y = {}
    PROVE  SckBefore(s, X, Y)
  BY DEF Range, SckBefore

LEMMA SckBeforeJoin ==
    ASSUME NEW P \in SckAllCalls, NEW Q \in SckAllCalls, NEW X, NEW Y,
           SckBefore(P, X, Y), Range(Q) \cap X = {}
    PROVE  SckBefore(P \o Q, X, Y)
  <1>1. PICK s : s = P \o Q
    OBVIOUS
  <1>2. /\ \A i \in DOMAIN s : \/ i \in DOMAIN P /\ s[i] = P[i]
                               \/ i > Len(P) /\ s[i] \in Range(Q)
        /\ \A i \in DOMAIN P : i \in 1 .. Len(P)
    BY <1>1, SckJoinRange DEF SckAllCalls
  <1>3. Len(P) \in Nat /\ DOMAIN s \subseteq Nat
    <2>1. s \in Seq(SckKinds \X SckFds) /\ P \in Seq(SckKinds \X SckFds)
      BY <1>1, SckJoinRange DEF SckAllCalls
    <2> QED
      BY <2>1
  <1> SUFFICES ASSUME NEW i \in DOMAIN s, NEW j \in DOMAIN s, s[i] \in X, s[j] \in Y
               PROVE  i < j
    BY <1>1 DEF SckBefore
  <1>4. i \in DOMAIN P /\ s[i] = P[i]
    BY <1>2
  <1>5. CASE j \in DOMAIN P /\ s[j] = P[j]
    BY <1>4, <1>5 DEF SckBefore
  <1>6. CASE j > Len(P)
    BY <1>2, <1>3, <1>4, <1>6
  <1> QED
    BY <1>2, <1>5, <1>6

LEMMA SckAfterFirst ==
    ASSUME NEW P \in SckAllCalls, NEW Q \in SckAllCalls, NEW E, NEW Y,
           Range(P) \cap Y = {}, Range(Q) \cap E = {}
    PROVE  SckAfter(P \o Q, E, Y)
  <1>1. PICK s : s = P \o Q
    OBVIOUS
  <1>2. /\ Range(s) = Range(P) \cup Range(Q)
        /\ \A i \in DOMAIN s : \/ i \in DOMAIN P /\ s[i] = P[i]
                               \/ i > Len(P) /\ s[i] \in Range(Q)
        /\ \A i \in DOMAIN P : i \in DOMAIN s /\ i \in 1 .. Len(P) /\ s[i] = P[i]
    BY <1>1, SckJoinRange DEF SckAllCalls
  <1>3. Len(P) \in Nat /\ DOMAIN s \subseteq Nat
    <2>1. s \in Seq(SckKinds \X SckFds) /\ P \in Seq(SckKinds \X SckFds)
      BY <1>1, SckJoinRange DEF SckAllCalls
    <2> QED
      BY <2>1
  <1> SUFFICES ASSUME NEW e \in E \cap Range(s), NEW j \in DOMAIN s, s[j] \in Y
               PROVE  \E k \in 1 .. j : s[k] = e
    BY <1>1 DEF SckAfter
  <1>4. PICK k \in DOMAIN P : P[k] = e
    BY <1>2 DEF Range
  <1>5. j > Len(P)
    BY <1>2 DEF Range
  <1>6. k \in 1 .. j /\ s[k] = e
    BY <1>2, <1>3, <1>4, <1>5
  <1> QED
    BY <1>6

LEMMA SckAfterJoin ==
    ASSUME NEW P \in SckAllCalls, NEW Q \in SckAllCalls, NEW E, NEW Y,
           SckAfter(P, E, Y), Range(Q) \cap Y = {}, Range(Q) \cap E \subseteq Range(P)
    PROVE  SckAfter(P \o Q, E, Y)
  <1>1. PICK s : s = P \o Q
    OBVIOUS
  <1>2. /\ Range(s) = Range(P) \cup Range(Q)
        /\ \A i \in DOMAIN s : \/ i \in DOMAIN P /\ s[i] = P[i]
                               \/ i > Len(P) /\ s[i] \in Range(Q)
        /\ \A i \in DOMAIN P : i \in DOMAIN s /\ i \in 1 .. Len(P) /\ s[i] = P[i]
    BY <1>1, SckJoinRange DEF SckAllCalls
  <1> SUFFICES ASSUME NEW e \in E \cap Range(s), NEW j \in DOMAIN s, s[j] \in Y
               PROVE  \E k \in 1 .. j : s[k] = e
    BY <1>1 DEF SckAfter
  <1>3. e \in E \cap Range(P)
    BY <1>2
  <1>4. j \in DOMAIN P /\ P[j] \in Y
    BY <1>2
  <1>5. PICK k \in 1 .. j : P[k] = e
    BY <1>3, <1>4 DEF SckAfter
  <1>6. k \in DOMAIN P
    <2>1. DOMAIN P = 1 .. Len(P) /\ Len(P) \in Nat
      BY DEF SckAllCalls
    <2> QED
      BY <1>4, <1>5, <2>1
  <1> QED
    BY <1>2, <1>5, <1>6

\* Calls on a socket.
LEMMA SckOnIs ==
    ASSUME NEW s \in SckFds, NEW list \in Seq(SckKinds)
    PROVE  SckOn(s, list) \in SckAllCalls /\ Range(SckOn(s, list)) = Range(list) \X {s}
  <1>1. PICK n, f : n = Len(list) /\ f = SckOn(s, list)
    OBVIOUS
  <1>2. DOMAIN list = 1 .. n /\ n \in Nat /\ \A i \in 1 .. n : list[i] \in SckKinds
    BY <1>1, ElementOfSeq
  <1>3. f = [i \in 1 .. n |-> <<list[i], s>>]
    BY <1>1, <1>2 DEF SckOn
  <1>4. f \in SckAllCalls
    BY <1>2, <1>3 DEF SckAllCalls
  <1>5. Range(f) = Range(list) \X {s}
    BY <1>2, <1>3 DEF Range
  <1> QED
    BY <1>1, <1>4, <1>5

LEMMA SckListsAre ==
    /\ SckEarly \in Seq(SckKinds) /\ Range(SckEarly) = SckEarlyKinds
    /\ SckLate \in Seq(SckKinds) /\ Range(SckLate) = SckLateKinds
    /\ <<"R", "S">> \in Seq(SckKinds) /\ Range(<<"R", "S">>) = {"R", "S"}
    /\ <<"A", "T">> \in Seq(SckKinds) /\ Range(<<"A", "T">>) = {"A", "T"}
    /\ <<"m">> \in Seq(SckKinds) /\ Range(<<"m">>) = {"m"}
    /\ <<"buffers">> \in Seq(SckKinds) /\ Range(<<"buffers">>) = {"buffers"}
    /\ <<"bind">> \in Seq(SckKinds) /\ Range(<<"bind">>) = {"bind"}
    /\ <<"connect">> \in Seq(SckKinds) /\ Range(<<"connect">>) = {"connect"}
    /\ <<"listen">> \in Seq(SckKinds) /\ Range(<<"listen">>) = {"listen"}
    /\ <<>> \in SckAllCalls /\ Range(<<>>) = {}
  <1>1. \A x \in SckKinds : <<x>> \in Seq(SckKinds) /\ Range(<<x>>) = {x}
    <2> SUFFICES ASSUME NEW x \in SckKinds PROVE <<x>> \in Seq(SckKinds) /\ Range(<<x>>) = {x}
      OBVIOUS
    <2>1. DOMAIN <<x>> = 1 .. 1 /\ <<x>>[1] = x
      OBVIOUS
    <2> QED
      BY <2>1 DEF Range
  <1>2. \A x, y \in SckKinds : <<x, y>> \in Seq(SckKinds) /\ Range(<<x, y>>) = {x, y}
    <2> SUFFICES ASSUME NEW x \in SckKinds, NEW y \in SckKinds
                 PROVE  <<x, y>> \in Seq(SckKinds) /\ Range(<<x, y>>) = {x, y}
      OBVIOUS
    <2>1. DOMAIN <<x, y>> = 1 .. 2 /\ <<x, y>>[1] = x /\ <<x, y>>[2] = y
      OBVIOUS
    <2>2. 1 .. 2 = {1, 2}
      OBVIOUS
    <2> QED
      BY <2>1, <2>2 DEF Range
  <1>3. <<>> \in SckAllCalls /\ Range(<<>>) = {}
    <2>1. DOMAIN <<>> = {}
      OBVIOUS
    <2> QED
      BY <2>1 DEF Range, SckAllCalls
  <1>4. /\ {"R", "S", "A", "T", "m", "buffers", "bind", "connect", "listen"} \subseteq SckKinds
        /\ SckEarlyKinds \subseteq SckKinds /\ SckLateKinds \subseteq SckKinds
    BY DEF SckKinds
  <1>5. SckEarly \in Seq(SckKinds) /\ Range(SckEarly) = SckEarlyKinds
    <2>1. PICK f : f = SckEarly
      OBVIOUS
    <2>2. /\ Len(f) = 9 /\ DOMAIN f = 1 .. 9 /\ f[1] = "D" /\ f[2] = "Y" /\ f[3] = "H"
          /\ f[4] = "J" /\ f[5] = "X" /\ f[6] = "g" /\ f[7] = "B" /\ f[8] = "2" /\ f[9] = "j"
      BY <2>1 DEF SckEarly
    <2>3. 1 .. 9 = {1, 2, 3, 4, 5, 6, 7, 8, 9}
      OBVIOUS
    <2>4. Range(f) = SckEarlyKinds
      BY <2>2, <2>3 DEF Range, SckEarlyKinds
    <2>5. f \in Seq(SckEarlyKinds)
      <3>1. \A i \in 1 .. 9 : f[i] \in SckEarlyKinds
        BY <2>2, <2>4 DEF Range
      <3>2. f = [i \in 1 .. 9 |-> f[i]]
        BY <2>1 DEF SckEarly
      <3> QED
        BY <3>1, <3>2
    <2> QED
      BY <1>4, <2>1, <2>4, <2>5, SeqMonotonic
  <1>6. SckLate \in Seq(SckKinds) /\ Range(SckLate) = SckLateKinds
    <2>1. PICK f : f = SckLate
      OBVIOUS
    <2>2. /\ Len(f) = 8 /\ DOMAIN f = 1 .. 8 /\ f[1] = "t" /\ f[2] = "K" /\ f[3] = "N"
          /\ f[4] = "L" /\ f[5] = "x" /\ f[6] = "y" /\ f[7] = "E" /\ f[8] = "I"
      BY <2>1 DEF SckLate
    <2>3. 1 .. 8 = {1, 2, 3, 4, 5, 6, 7, 8}
      OBVIOUS
    <2>4. Range(f) = SckLateKinds
      BY <2>2, <2>3 DEF Range, SckLateKinds
    <2>5. f \in Seq(SckLateKinds)
      <3>1. \A i \in 1 .. 8 : f[i] \in SckLateKinds
        BY <2>2, <2>4 DEF Range
      <3>2. f = [i \in 1 .. 8 |-> f[i]]
        BY <2>1 DEF SckLate
      <3> QED
        BY <3>1, <3>2
    <2> QED
      BY <1>4, <2>1, <2>4, <2>5, SeqMonotonic
  <1> QED
    BY <1>1, <1>2, <1>3, <1>4, <1>5, <1>6

\* The options that a call of sockopts() sets.
SckSet(doall, route) ==
    (SckEarlyKinds \cap {o \in sckOpts : SckEarlySet(o, doall, route)})
    \cup (SckLateKinds \cap {o \in sckOpts : SckLateSet(o, doall)})

LEMMA SckSockopts ==
    ASSUME NEW s \in SckFds, NEW doall, NEW route
    PROVE  /\ sockopts(s, doall, route) \in SckAllCalls
           /\ Range(sockopts(s, doall, route)) = SckSet(doall, route) \X {s}
  <1>1. PICK a : a = SckChosen(SckEarly, {o \in sckOpts : SckEarlySet(o, doall, route)})
    OBVIOUS
  <1>2. PICK b : b = SckChosen(SckLate, {o \in sckOpts : SckLateSet(o, doall)})
    OBVIOUS
  <1>3. /\ a \in Seq(SckKinds)
        /\ Range(a) = SckEarlyKinds \cap {o \in sckOpts : SckEarlySet(o, doall, route)}
    BY <1>1, SckListsAre, SckChosenIs
  <1>4. /\ b \in Seq(SckKinds)
        /\ Range(b) = SckLateKinds \cap {o \in sckOpts : SckLateSet(o, doall)}
    BY <1>2, SckListsAre, SckChosenIs
  <1>5. a \o b \in Seq(SckKinds) /\ Range(a \o b) = Range(a) \cup Range(b)
    BY <1>3, <1>4, SckJoinRange
  <1>6. Range(a \o b) = SckSet(doall, route)
    BY <1>3, <1>4, <1>5 DEF SckSet
  <1>7. sockopts(s, doall, route) = SckOn(s, a \o b)
    BY <1>1, <1>2 DEF sockopts
  <1> QED
    BY <1>5, <1>6, <1>7, SckOnIs

LEMMA SckOtherCalls ==
    /\ SckReuse \in SckAllCalls /\ Range(SckReuse) = ({"A", "T"} \cap sckOpts) \X {"fd"}
    /\ join_mcast \in SckAllCalls /\ Range(join_mcast) = ({"m"} \cap sckOpts) \X {"fd"}
    /\ \A s \in SckFds : /\ buffers(s) \in SckAllCalls
                         /\ Range(buffers(s)) = ({"buffers"} \cup ({"R", "S"} \cap sckOpts)) \X {s}
    /\ \A k \in {"bind", "connect", "listen"} :
          SckOn("fd", <<k>>) \in SckAllCalls /\ Range(SckOn("fd", <<k>>)) = {k} \X {"fd"}
  <1>1. PICK f : f = "fd"
    OBVIOUS
  <1>2. f \in SckFds
    BY <1>1 DEF SckFds
  <1>3. SckReuse \in SckAllCalls /\ Range(SckReuse) = ({"A", "T"} \cap sckOpts) \X {"fd"}
    <2>1. PICK l : l = <<"A", "T">>
      OBVIOUS
    <2>2. PICK a : a = SckChosen(l, sckOpts)
      OBVIOUS
    <2>3. l \in Seq(SckKinds) /\ Range(l) = {"A", "T"}
      BY <2>1, SckListsAre
    <2>4. a \in Seq(SckKinds) /\ Range(a) = {"A", "T"} \cap sckOpts
      BY ONLY <2>2, <2>3, SckChosenIs
    <2>5. SckOn(f, a) \in SckAllCalls /\ Range(SckOn(f, a)) = Range(a) \X {f}
      BY ONLY <1>2, <2>4, SckOnIs
    <2>6. SckReuse = SckOn(f, a)
      BY <1>1, <2>1, <2>2 DEF SckReuse
    <2> QED
      BY <1>1, <2>4, <2>5, <2>6
  <1>4. join_mcast \in SckAllCalls /\ Range(join_mcast) = ({"m"} \cap sckOpts) \X {"fd"}
    <2>1. PICK l : l = <<"m">>
      OBVIOUS
    <2>2. PICK a : a = SckChosen(l, sckOpts)
      OBVIOUS
    <2>3. l \in Seq(SckKinds) /\ Range(l) = {"m"}
      BY <2>1, SckListsAre
    <2>4. a \in Seq(SckKinds) /\ Range(a) = {"m"} \cap sckOpts
      BY ONLY <2>2, <2>3, SckChosenIs
    <2>5. SckOn(f, a) \in SckAllCalls /\ Range(SckOn(f, a)) = Range(a) \X {f}
      BY ONLY <1>2, <2>4, SckOnIs
    <2>6. join_mcast = SckOn(f, a)
      BY <1>1, <2>1, <2>2 DEF join_mcast
    <2> QED
      BY <1>1, <2>4, <2>5, <2>6
  <1>5. ASSUME NEW s \in SckFds
        PROVE  /\ buffers(s) \in SckAllCalls
               /\ Range(buffers(s)) = ({"buffers"} \cup ({"R", "S"} \cap sckOpts)) \X {s}
    <2>1. PICK l, m : l = <<"R", "S">> /\ m = <<"buffers">>
      OBVIOUS
    <2>2. PICK a : a = SckChosen(l, sckOpts)
      OBVIOUS
    <2>3. l \in Seq(SckKinds) /\ Range(l) = {"R", "S"} /\ m \in Seq(SckKinds) /\ Range(m) = {"buffers"}
      BY <2>1, SckListsAre
    <2>4. a \in Seq(SckKinds) /\ Range(a) = {"R", "S"} \cap sckOpts
      BY ONLY <2>2, <2>3, SckChosenIs
    <2>5. PICK b : b = m \o a
      OBVIOUS
    <2>6. b \in Seq(SckKinds) /\ Range(b) = Range(m) \cup Range(a)
      BY ONLY <2>3, <2>4, <2>5, SckJoinRange
    <2>7. s \in SckFds
      OBVIOUS
    <2>8. SckOn(s, b) \in SckAllCalls /\ Range(SckOn(s, b)) = Range(b) \X {s}
      BY ONLY <2>6, <2>7, SckOnIs
    <2>9. buffers(s) = SckOn(s, b)
      BY <2>1, <2>2, <2>5 DEF buffers
    <2> QED
      BY <2>3, <2>4, <2>6, <2>8, <2>9
  <1>6. ASSUME NEW k \in {"bind", "connect", "listen"}
        PROVE  SckOn("fd", <<k>>) \in SckAllCalls /\ Range(SckOn("fd", <<k>>)) = {k} \X {"fd"}
    <2>1. PICK l : l = <<k>>
      OBVIOUS
    <2>2. l \in Seq(SckKinds) /\ Range(l) = {k}
      BY <2>1, SckListsAre
    <2>3. SckOn(f, l) \in SckAllCalls /\ Range(SckOn(f, l)) = Range(l) \X {f}
      BY ONLY <1>2, <2>2, SckOnIs
    <2> QED
      BY <1>1, <2>1, <2>2, <2>3
  <1> QED
    BY <1>3, <1>4, <1>5, <1>6

-----------------------------------------------------------------------------
(* sock: the sockets that cliopen() and servopen() make.                   *)

\* SckOrder for a sequence of calls, of a UDP or a TCP socket.
SckOrdered(s, udp) ==
    /\ SckBefore(s, {"A", "T"} \X SckFds, {"bind"} \X SckFds)
    /\ ~udp => SckAfter(s, {"R", "S", "X", "H", "g"} \X {"fd"}, {"connect", "listen"} \X SckFds)
    /\ SckBefore(s, {"connect", "listen"} \X SckFds, {"K", "N", "L"} \X {"fd"})

\* Every option of S was set on some socket.
SckDone(S, s) == \A o \in S : \E c \in Range(s) : c[1] = o

\* The options that only a connection can have.
SckOfConnection == {"K", "N", "L", "x", "y"}

SckInv ==
    /\ sckCalls \in SckAllCalls
    /\ sckPc \in {"main", "open", "usage"} => sckCalls = <<>>
    /\ SckOrdered(sckCalls, SckUdp)
    /\ sckPc \in {"listen", "accept", "test", "suspend", "sleep"} =>
          /\ ~SckUdp /\ SckGiven("s")
          /\ SckDone(SckAsked \ SckOfConnection, sckCalls)
    /\ SckAllSet

LEMMA SckApart ==
    ASSUME NEW K, NEW L, K \cap L = {}, NEW S, NEW T
    PROVE  (K \X S) \cap (L \X T) = {}
  OBVIOUS

LEMMA SckNoneOf ==
    ASSUME NEW R, NEW K, NEW L, NEW S, NEW T, R \subseteq K \X S, K \cap L = {}
    PROVE  R \cap (L \X T) = {}
  OBVIOUS

\* What a call of sockopts() sets and what it does not.
LEMMA SckSetIs ==
    ASSUME NEW r \in BOOLEAN
    PROVE  /\ \A d \in BOOLEAN : SckSet(d, r) \subseteq SckEarlyKinds \cup SckLateKinds
           /\ SckSet(FALSE, r) \cap SckOfConnection = {}
           /\ SckSet(TRUE, r) \cap {"H", "J"} = {}
           /\ SckSet(TRUE, FALSE) \cap {"g"} = {}
           /\ SckUdp => SckSet(TRUE, r) \cap {"K", "N", "L"} = {}
           /\ ~SckUdp /\ "X" \in SckSet(TRUE, FALSE) => "X" \in SckSet(FALSE, r)
           /\ r => SckAsked \ (SckOfConnection \cup {"A", "T", "R", "S"}) \subseteq SckSet(FALSE, r)
           /\ r => SckAsked \ {"A", "T", "R", "S", "H", "J"} \subseteq SckSet(TRUE, r)
           /\ SckAsked \cap SckOfConnection \subseteq SckSet(TRUE, r)
           /\ SckAsked \subseteq sckOpts
  <1>1. /\ \A d \in BOOLEAN : SckSet(d, r) \subseteq SckEarlyKinds \cup SckLateKinds
        /\ SckAsked \subseteq sckOpts
    BY DEF SckSet, SckAsked
  <1>2. SckSet(FALSE, r) \cap SckOfConnection = {}
    BY DEF SckSet, SckOfConnection, SckEarlyKinds, SckLateSet
  <1>3. SckSet(TRUE, r) \cap {"H", "J"} = {}
    BY DEF SckSet, SckLateKinds, SckEarlySet
  <1>4. SckSet(TRUE, FALSE) \cap {"g"} = {}
    BY DEF SckSet, SckLateKinds, SckEarlySet
  <1>5. SckUdp => SckSet(TRUE, r) \cap {"K", "N", "L"} = {}
    BY DEF SckSet, SckEarlyKinds, SckLateSet
  <1>6. ~SckUdp /\ "X" \in SckSet(TRUE, FALSE) => "X" \in SckSet(FALSE, r)
    BY DEF SckSet, SckEarlyKinds, SckLateKinds, SckEarlySet
  <1>7. Range(SckEarly \o SckLate \o <<"A", "T", "R", "S">>)
          = SckEarlyKinds \cup SckLateKinds \cup {"A", "T", "R", "S"}
    <2>1. PICK a, b, c : a = SckEarly /\ b = SckLate /\ c = <<"A", "T", "R", "S">>
      OBVIOUS
    <2>2. a \in Seq(SckKinds) /\ Range(a) = SckEarlyKinds /\ b \in Seq(SckKinds) /\ Range(b) = SckLateKinds
      BY <2>1, SckListsAre
    <2>3. c \in Seq(SckKinds) /\ Range(c) = {"A", "T", "R", "S"}
      <3>1. /\ Len(c) = 4 /\ DOMAIN c = 1 .. 4
            /\ c[1] = "A" /\ c[2] = "T" /\ c[3] = "R" /\ c[4] = "S"
        BY <2>1
      <3>2. 1 .. 4 = {1, 2, 3, 4}
        OBVIOUS
      <3>3. Range(c) = {"A", "T", "R", "S"}
        BY <3>1, <3>2 DEF Range
      <3>4. \A i \in 1 .. 4 : c[i] \in SckKinds
        BY <3>1, <3>2 DEF SckKinds
      <3>5. c = [i \in 1 .. 4 |-> c[i]]
        BY <2>1
      <3> QED
        BY <3>3, <3>4, <3>5
    <2>4. a \o b \in Seq(SckKinds) /\ Range(a \o b) = Range(a) \cup Range(b)
      BY ONLY <2>2, SckJoinRange
    <2>5. PICK e : e = a \o b
      OBVIOUS
    <2>6. e \in Seq(SckKinds)
      BY <2>4, <2>5
    <2>7. Range(e \o c) = Range(e) \cup Range(c)
      BY ONLY <2>3, <2>6, SckJoinRange
    <2> QED
      BY <2>1, <2>2, <2>3, <2>4, <2>5, <2>7
  <1>8. SckAsked = {o \in sckOpts \cap (SckEarlyKinds \cup SckLateKinds \cup {"A", "T", "R", "S"}) :
                      /\ o \in {"X", "K", "N", "L"} => ~SckUdp
                      /\ o = "E" => SckUdp
                      /\ o = "2" => SckGiven("B")}
    BY <1>7 DEF SckAsked
  <1>9. ASSUME r, NEW o \in SckAsked, o \notin {"A", "T", "R", "S"}, NEW d \in BOOLEAN,
               ~d => o \notin SckOfConnection, d => o \notin {"H", "J"}
        PROVE  o \in SckSet(d, r)
    <2>1. o \in sckOpts /\ (o \in SckEarlyKinds \/ o \in SckLateKinds)
      BY <1>8, <1>9
    <2>2. CASE o \in SckEarlyKinds
      <3>1. SckEarlySet(o, d, r)
        BY <1>8, <1>9, <2>2 DEF SckEarlySet, SckEarlyKinds
      <3> QED
        BY <2>1, <2>2, <3>1 DEF SckSet
    <2>3. CASE o \in SckLateKinds
      <3>1. SckLateSet(o, d)
        BY <1>8, <1>9, <2>3 DEF SckLateSet, SckLateKinds, SckOfConnection
      <3> QED
        BY <2>1, <2>3, <3>1 DEF SckSet
    <2> QED
      BY <2>1, <2>2, <2>3
  <1>10. SckAsked \cap SckOfConnection \subseteq SckSet(TRUE, r)
    <2> SUFFICES ASSUME NEW o \in SckAsked, o \in SckOfConnection PROVE o \in SckSet(TRUE, r)
      OBVIOUS
    <2>1. o \in sckOpts /\ o \in SckLateKinds
      BY DEF SckAsked, SckOfConnection, SckLateKinds
    <2>2. SckLateSet(o, TRUE)
      BY <1>8 DEF SckLateSet, SckOfConnection
    <2> QED
      BY <2>1, <2>2 DEF SckSet
  <1> QED
    BY <1>1, <1>2, <1>3, <1>4, <1>5, <1>6, <1>9, <1>10

\* The common beginning: -A and -T, bind() and the buffers.
LEMMA SckFirstCalls ==
    ASSUME NEW b \in SckAllCalls, Range(b) \subseteq {"bind", "m"} \X {"fd"}
    PROVE  \E q : /\ q = SckReuse \o b \o buffers("fd") /\ q \in SckAllCalls
                  /\ Range(q) \subseteq {"A", "T", "bind", "m", "buffers", "R", "S"} \X {"fd"}
                  /\ SckBefore(q, {"A", "T"} \X SckFds, {"bind"} \X SckFds)
                  /\ SckDone(sckOpts \cap {"A", "T", "R", "S"}, q)
  <1>1. PICK a, c : a = SckReuse /\ c = buffers("fd")
    OBVIOUS
  <1>2. /\ a \in SckAllCalls /\ Range(a) = ({"A", "T"} \cap sckOpts) \X {"fd"}
        /\ c \in SckAllCalls /\ Range(c) = ({"buffers"} \cup ({"R", "S"} \cap sckOpts)) \X {"fd"}
    <2>1. "fd" \in SckFds
      BY DEF SckFds
    <2> QED
      BY <1>1, <2>1, SckOtherCalls
  <1>3. PICK e : e = a \o b
    OBVIOUS
  <1>4. e \in SckAllCalls /\ Range(e) = Range(a) \cup Range(b)
    BY ONLY <1>2, <1>3, b \in SckAllCalls, SckJoinRange DEF SckAllCalls
  <1>5. PICK q : q = e \o c
    OBVIOUS
  <1>6. q \in SckAllCalls /\ Range(q) = Range(e) \cup Range(c)
    BY ONLY <1>2, <1>4, <1>5, SckJoinRange DEF SckAllCalls
  <1>7. Range(a) \cap ({"bind"} \X SckFds) = {}
    BY <1>2
  <1>8. Range(b) \cap ({"A", "T"} \X SckFds) = {} /\ Range(c) \cap ({"A", "T"} \X SckFds) = {}
    BY <1>2
  <1>9. PICK X, Y : X = {"A", "T"} \X SckFds /\ Y = {"bind"} \X SckFds
    OBVIOUS
  <1>10. SckBefore(q, X, Y)
    <2>1. SckBefore(a, X, Y)
      BY ONLY <1>7, <1>9, SckBeforeNone
    <2>2. Range(b) \cap X = {} /\ Range(c) \cap X = {}
      BY <1>8, <1>9
    <2>3. SckBefore(a \o b, X, Y)
      BY ONLY <1>2, <2>1, <2>2, b \in SckAllCalls, SckBeforeJoin
    <2>4. SckBefore(e, X, Y)
      BY <1>3, <2>3
    <2> QED
      BY ONLY <1>2, <1>4, <1>5, <2>2, <2>4, SckBeforeJoin
  <1>11. SckDone(sckOpts \cap {"A", "T", "R", "S"}, q)
    <2> SUFFICES ASSUME NEW o \in sckOpts \cap {"A", "T", "R", "S"} PROVE \E k \in Range(q) : k[1] = o
      BY DEF SckDone
    <2>1. <<o, "fd">> \in Range(q)
      BY <1>2, <1>4, <1>6
    <2> QED
      BY <2>1
  <1>12. Range(q) \subseteq {"A", "T", "bind", "m", "buffers", "R", "S"} \X {"fd"}
    BY <1>2, <1>4, <1>6
  <1> QED
    BY <1>1, <1>3, <1>5, <1>6, <1>9, <1>10, <1>11, <1>12

\* ... then the options that sockopts() sets when it is called without doall.
LEMMA SckEarlyCalls ==
    ASSUME NEW q \in SckAllCalls,
           Range(q) \subseteq {"A", "T", "bind", "m", "buffers", "R", "S"} \X {"fd"},
           SckBefore(q, {"A", "T"} \X SckFds, {"bind"} \X SckFds),
           SckDone(sckOpts \cap {"A", "T", "R", "S"}, q)
    PROVE  \E e : /\ e = q \o sockopts("fd", FALSE, TRUE) /\ e \in SckAllCalls
                  /\ SckBefore(e, {"A", "T"} \X SckFds, {"bind"} \X SckFds)
                  /\ Range(e) \cap ({"connect", "listen", "K", "N", "L"} \X SckFds) = {}
                  /\ SckSet(FALSE, TRUE) \X {"fd"} \subseteq Range(e)
                  /\ SckDone(SckAsked \ SckOfConnection, e)
  <1>1. PICK p : p = sockopts("fd", FALSE, TRUE)
    OBVIOUS
  <1>2. p \in SckAllCalls /\ Range(p) = SckSet(FALSE, TRUE) \X {"fd"}
    <2>1. PICK f : f = "fd"
      OBVIOUS
    <2>2. f \in SckFds
      BY <2>1 DEF SckFds
    <2> QED
      BY <1>1, <2>1, <2>2, SckSockopts
  <1>3. PICK e : e = q \o p
    OBVIOUS
  <1>4. e \in SckAllCalls /\ Range(e) = Range(q) \cup Range(p)
    <2>1. p \in SckAllCalls
      BY <1>2
    <2> QED
      BY ONLY <1>3, <2>1, q \in SckAllCalls, SckJoinRange DEF SckAllCalls
  <1>5. /\ SckSet(FALSE, TRUE) \subseteq SckEarlyKinds \cup SckLateKinds
        /\ SckSet(FALSE, TRUE) \cap SckOfConnection = {}
        /\ SckAsked \ (SckOfConnection \cup {"A", "T", "R", "S"}) \subseteq SckSet(FALSE, TRUE)
        /\ SckAsked \subseteq sckOpts
    BY SckSetIs
  <1>6. /\ SckSet(FALSE, TRUE) \cap {"A", "T"} = {}
        /\ SckSet(FALSE, TRUE) \cap {"connect", "listen", "K", "N", "L"} = {}
    BY <1>5 DEF SckEarlyKinds, SckLateKinds, SckOfConnection
  <1>7. PICK X, Y : X = {"A", "T"} \X SckFds /\ Y = {"bind"} \X SckFds
    OBVIOUS
  <1>8. SckBefore(e, X, Y)
    <2>1. Range(p) \cap X = {}
      BY <1>2, <1>6, <1>7
    <2>2. SckBefore(q, X, Y)
      BY <1>7
    <2> QED
      BY ONLY <1>2, <1>3, <2>1, <2>2, q \in SckAllCalls, SckBeforeJoin
  <1>9. Range(e) \cap ({"connect", "listen", "K", "N", "L"} \X SckFds) = {}
    <2>1. Range(q) \cap ({"connect", "listen", "K", "N", "L"} \X SckFds) = {}
      OBVIOUS
    <2>2. Range(p) \cap ({"connect", "listen", "K", "N", "L"} \X SckFds) = {}
      BY <1>2, <1>6
    <2> QED
      BY <1>4, <2>1, <2>2
  <1>10. SckDone(SckAsked \ SckOfConnection, e)
    <2> SUFFICES ASSUME NEW o \in SckAsked, o \notin SckOfConnection PROVE \E c \in Range(e) : c[1] = o
      BY DEF SckDone
    <2>1. CASE o \in {"A", "T", "R", "S"}
      <3>1. o \in sckOpts
        BY <1>5
      <3>2. PICK c \in Range(q) : c[1] = o
        BY <2>1, <3>1 DEF SckDone
      <3> QED
        BY <1>4, <3>2
    <2>2. CASE o \notin {"A", "T", "R", "S"}
      <3>1. <<o, "fd">> \in Range(e)
        BY <1>2, <1>4, <1>5, <2>2
      <3> QED
        BY <3>1
    <2> QED
      BY <2>1, <2>2
  <1> QED
    BY <1>1, <1>2, <1>3, <1>4, <1>7, <1>8, <1>9, <1>10

\* One more call, that starts the connection, in order.
LEMMA SckConnecting ==
    ASSUME NEW e \in SckAllCalls, NEW c \in SckAllCalls,
           SckBefore(e, {"A", "T"} \X SckFds, {"bind"} \X SckFds),
           Range(e) \cap ({"connect", "listen", "K", "N", "L"} \X SckFds) = {},
           Range(c) \subseteq {"connect", "listen"} \X {"fd"}
    PROVE  e \o c \in SckAllCalls /\ Range(e \o c) = Range(e) \cup Range(c) /\ SckOrdered(e \o c, FALSE)
  <1>1. PICK s : s = e \o c
    OBVIOUS
  <1>2. s \in SckAllCalls /\ Range(s) = Range(e) \cup Range(c)
    BY ONLY <1>1, e \in SckAllCalls, c \in SckAllCalls, SckJoinRange DEF SckAllCalls
  <1>3. PICK X, Y, E, C, F : /\ X = {"A", "T"} \X SckFds /\ Y = {"bind"} \X SckFds
                             /\ E = {"R", "S", "X", "H", "g"} \X {"fd"}
                             /\ C = {"connect", "listen"} \X SckFds
                             /\ F = {"K", "N", "L"} \X {"fd"}
    OBVIOUS
  <1>4. SckBefore(s, X, Y)
    <2>1. Range(c) \cap X = {}
      BY <1>3
    <2>2. SckBefore(e, X, Y)
      BY <1>3
    <2> QED
      BY ONLY <1>1, <2>1, <2>2, e \in SckAllCalls, c \in SckAllCalls, SckBeforeJoin
  <1>5. SckAfter(s, E, C)
    <2>1. Range(e) \cap C = {}
      BY <1>3
    <2>2. Range(c) \cap E = {}
      BY <1>3
    <2> QED
      BY ONLY <1>1, <2>1, <2>2, e \in SckAllCalls, c \in SckAllCalls, SckAfterFirst
  <1>6. SckBefore(s, C, F)
    <2>1. Range(s) \cap F = {}
      <3>1. Range(e) \cap F = {}
        BY <1>3 DEF SckFds
      <3>2. Range(c) \cap F = {}
        BY <1>3
      <3> QED
        BY <1>2, <3>1, <3>2
    <2> QED
      BY <2>1, SckBeforeNone
  <1> QED
    BY <1>1, <1>2, <1>3, <1>4, <1>5, <1>6 DEF SckOrdered

\* More calls that set options, in order: of those that had to come before
\* the connection there is none that was not made before.
LEMMA SckMore ==
    ASSUME NEW s \in SckAllCalls, NEW p \in SckAllCalls, NEW udp \in BOOLEAN, SckOrdered(s, udp),
           Range(p) \cap ({"A", "T", "connect", "listen"} \X SckFds) = {},
           ~udp => Range(p) \cap ({"R", "S", "X", "H", "g"} \X {"fd"}) \subseteq Range(s)
    PROVE  s \o p \in SckAllCalls /\ Range(s \o p) = Range(s) \cup Range(p) /\ SckOrdered(s \o p, udp)
  <1>1. PICK t : t = s \o p
    OBVIOUS
  <1>2. t \in SckAllCalls /\ Range(t) = Range(s) \cup Range(p)
    BY ONLY <1>1, s \in SckAllCalls, p \in SckAllCalls, SckJoinRange DEF SckAllCalls
  <1>3. PICK X, Y, E, C, F : /\ X = {"A", "T"} \X SckFds /\ Y = {"bind"} \X SckFds
                             /\ E = {"R", "S", "X", "H", "g"} \X {"fd"}
                             /\ C = {"connect", "listen"} \X SckFds
                             /\ F = {"K", "N", "L"} \X {"fd"}
    OBVIOUS
  <1>4. SckBefore(s, X, Y) /\ SckBefore(s, C, F) /\ (~udp => SckAfter(s, E, C))
    BY <1>3 DEF SckOrdered
  <1>5. Range(p) \cap X = {} /\ Range(p) \cap C = {}
    BY <1>3
  <1>6. SckBefore(t, X, Y)
    BY ONLY <1>1, <1>4, <1>5, s \in SckAllCalls, p \in SckAllCalls, SckBeforeJoin
  <1>7. SckBefore(t, C, F)
    BY ONLY <1>1, <1>4, <1>5, s \in SckAllCalls, p \in SckAllCalls, SckBeforeJoin
  <1>8. ASSUME ~udp PROVE SckAfter(t, E, C)
    <2>1. Range(p) \cap E \subseteq Range(s)
      BY <1>3, <1>8
    <2>2. SckAfter(s, E, C)
      BY <1>4, <1>8
    <2> QED
      BY ONLY <1>1, <1>5, <2>1, <2>2, s \in SckAllCalls, p \in SckAllCalls, SckAfterJoin
  <1> QED
    BY <1>1, <1>2, <1>3, <1>6, <1>7, <1>8 DEF SckOrdered

LEMMA SckCliCalls ==
    ASSUME NEW b \in SckAllCalls, Range(b) \subseteq {"bind"} \X {"fd"},
           NEW c \in SckAllCalls, Range(c) \subseteq {"connect"} \X {"fd"},
           NEW s, s = SckReuse \o b \o buffers("fd") \o sockopts("fd", FALSE, TRUE)
                      \o c \o sockopts("fd", TRUE, FALSE)
    PROVE  s \in SckAllCalls /\ SckOrdered(s, SckUdp) /\ SckDone(SckAsked, s)
  <1>1. PICK e : /\ e = SckReuse \o b \o buffers("fd") \o sockopts("fd", FALSE, TRUE)
                 /\ e \in SckAllCalls
                 /\ SckBefore(e, {"A", "T"} \X SckFds, {"bind"} \X SckFds)
                 /\ Range(e) \cap ({"connect", "listen", "K", "N", "L"} \X SckFds) = {}
                 /\ SckSet(FALSE, TRUE) \X {"fd"} \subseteq Range(e)
                 /\ SckDone(SckAsked \ SckOfConnection, e)
    <2>1. Range(b) \subseteq {"bind", "m"} \X {"fd"}
      OBVIOUS
    <2>2. PICK q : /\ q = SckReuse \o b \o buffers("fd") /\ q \in SckAllCalls
                   /\ Range(q) \subseteq {"A", "T", "bind", "m", "buffers", "R", "S"} \X {"fd"}
                   /\ SckBefore(q, {"A", "T"} \X SckFds, {"bind"} \X SckFds)
                   /\ SckDone(sckOpts \cap {"A", "T", "R", "S"}, q)
      BY <2>1, SckFirstCalls
    <2>3. PICK e : /\ e = q \o sockopts("fd", FALSE, TRUE) /\ e \in SckAllCalls
                   /\ SckBefore(e, {"A", "T"} \X SckFds, {"bind"} \X SckFds)
                   /\ Range(e) \cap ({"connect", "listen", "K", "N", "L"} \X SckFds) = {}
                   /\ SckSet(FALSE, TRUE) \X {"fd"} \subseteq Range(e)
                   /\ SckDone(SckAsked \ SckOfConnection, e)
      BY ONLY <2>2, SckEarlyCalls
    <2> QED
      BY <2>2, <2>3
  <1>2. PICK p : p = sockopts("fd", TRUE, FALSE)
    OBVIOUS
  <1>3. p \in SckAllCalls /\ Range(p) = SckSet(TRUE, FALSE) \X {"fd"}
    <2>1. PICK f : f = "fd"
      OBVIOUS
    <2>2. f \in SckFds
      BY <2>1 DEF SckFds
    <2> QED
      BY <1>2, <2>1, <2>2, SckSockopts
  <1>4. /\ SckSet(TRUE, FALSE) \subseteq SckEarlyKinds \cup SckLateKinds
        /\ SckSet(TRUE, FALSE) \cap {"H", "J", "g"} = {}
        /\ ~SckUdp /\ "X" \in SckSet(TRUE, FALSE) => "X" \in SckSet(FALSE, TRUE)
        /\ SckAsked \cap SckOfConnection \subseteq SckSet(TRUE, FALSE)
    <2>1. /\ SckSet(TRUE, FALSE) \subseteq SckEarlyKinds \cup SckLateKinds
          /\ SckSet(TRUE, FALSE) \cap {"H", "J"} = {}
          /\ SckSet(TRUE, FALSE) \cap {"g"} = {}
          /\ SckAsked \cap SckOfConnection \subseteq SckSet(TRUE, FALSE)
      BY SckSetIs
    <2>2. ~SckUdp /\ "X" \in SckSet(TRUE, FALSE) => "X" \in SckSet(FALSE, TRUE)
      BY SckSetIs
    <2> QED
      BY <2>1, <2>2
  <1>5. PICK d : d = e \o c
    OBVIOUS
  <1>6. d \in SckAllCalls /\ Range(d) = Range(e) \cup Range(c) /\ SckOrdered(d, FALSE)
    <2>1. Range(c) \subseteq {"connect", "listen"} \X {"fd"}
      OBVIOUS
    <2> QED
      BY ONLY <1>1, <1>5, <2>1, c \in SckAllCalls, SckConnecting
  <1>7. PICK udp \in BOOLEAN : udp = SckUdp
    <2>1. SckUdp \in BOOLEAN
      BY DEF SckUdp, SckGiven
    <2> QED
      BY ONLY <2>1, Zenon
  <1>8. SckOrdered(d, udp)
    BY <1>6 DEF SckOrdered
  <1>9. Range(p) \cap ({"A", "T", "connect", "listen"} \X SckFds) = {}
    <2>1. SckSet(TRUE, FALSE) \cap {"A", "T", "connect", "listen"} = {}
      BY <1>4 DEF SckEarlyKinds, SckLateKinds
    <2> QED
      BY <1>3, <2>1
  <1>10. ~udp => Range(p) \cap ({"R", "S", "X", "H", "g"} \X {"fd"}) \subseteq Range(d)
    <2> SUFFICES ASSUME ~SckUdp, NEW x \in Range(p), x \in {"R", "S", "X", "H", "g"} \X {"fd"}
                 PROVE  x \in Range(d)
      BY <1>7
    <2>1. x[1] \in SckSet(TRUE, FALSE) /\ x = <<x[1], "fd">>
      <3>1. PICK K, f : K = SckSet(TRUE, FALSE) /\ f = "fd"
        OBVIOUS
      <3>2. x \in K \X {f}
        BY <1>3, <3>1, Zenon
      <3>3. x[1] \in K /\ x = <<x[1], f>>
        BY ONLY <3>2
      <3> QED
        BY <3>1, <3>3, Zenon
    <2>2. x[1] \in SckEarlyKinds \cup SckLateKinds /\ x[1] \notin {"R", "S"}
      BY <1>4, <2>1 DEF SckEarlyKinds, SckLateKinds
    <2>3. x[1] = "X"
      BY <1>4, <2>1, <2>2
    <2>4. x \in SckSet(FALSE, TRUE) \X {"fd"}
      BY <1>4, <2>1, <2>3
    <2> QED
      BY <1>1, <1>6, <2>4
  <1>11. PICK t : t = d \o p
    OBVIOUS
  <1>12. t \in SckAllCalls /\ Range(t) = Range(d) \cup Range(p) /\ SckOrdered(t, udp)
    <2>1. p \in SckAllCalls /\ d \in SckAllCalls /\ udp \in BOOLEAN
      BY <1>3, <1>6
    <2> QED
      BY ONLY <1>8, <1>9, <1>10, <1>11, <2>1, SckMore
  <1>13. SckDone(SckAsked, t)
    <2> SUFFICES ASSUME NEW o \in SckAsked PROVE \E x \in Range(t) : x[1] = o
      BY DEF SckDone
    <2>1. CASE o \in SckOfConnection
      <3>1. <<o, "fd">> \in Range(t)
        BY <1>3, <1>4, <1>12, <2>1
      <3> QED
        BY <3>1
    <2>2. CASE o \notin SckOfConnection
      <3>1. PICK x \in Range(e) : x[1] = o
        BY <1>1, <2>2 DEF SckDone
      <3> QED
        BY <1>6, <1>12, <3>1
    <2> QED
      BY <2>1, <2>2
  <1>14. s = t
    BY <1>1, <1>2, <1>5, <1>11
  <1> QED
    BY <1>7, <1>12, <1>13, <1>14

LEMMA SckListenCalls ==
    ASSUME NEW b \in SckAllCalls, Range(b) \subseteq {"bind", "m"} \X {"fd"}, ~SckUdp,
           NEW s, s = SckReuse \o b \o buffers("fd") \o sockopts("fd", FALSE, TRUE) \o SckOn("fd", <<"listen">>)
    PROVE  s \in SckAllCalls /\ SckOrdered(s, SckUdp) /\ SckDone(SckAsked \ SckOfConnection, s)
  <1>1. PICK e : /\ e = SckReuse \o b \o buffers("fd") \o sockopts("fd", FALSE, TRUE)
                 /\ e \in SckAllCalls
                 /\ SckBefore(e, {"A", "T"} \X SckFds, {"bind"} \X SckFds)
                 /\ Range(e) \cap ({"connect", "listen", "K", "N", "L"} \X SckFds) = {}
                 /\ SckDone(SckAsked \ SckOfConnection, e)
    <2>1. PICK q : /\ q = SckReuse \o b \o buffers("fd") /\ q \in SckAllCalls
                   /\ Range(q) \subseteq {"A", "T", "bind", "m", "buffers", "R", "S"} \X {"fd"}
                   /\ SckBefore(q, {"A", "T"} \X SckFds, {"bind"} \X SckFds)
                   /\ SckDone(sckOpts \cap {"A", "T", "R", "S"}, q)
      BY SckFirstCalls
    <2>2. PICK e : /\ e = q \o sockopts("fd", FALSE, TRUE) /\ e \in SckAllCalls
                   /\ SckBefore(e, {"A", "T"} \X SckFds, {"bind"} \X SckFds)
                   /\ Range(e) \cap ({"connect", "listen", "K", "N", "L"} \X SckFds) = {}
                   /\ SckDone(SckAsked \ SckOfConnection, e)
      BY ONLY <2>1, SckEarlyCalls
    <2> QED
      BY <2>1, <2>2
  <1>2. PICK c : c = SckOn("fd", <<"listen">>)
    OBVIOUS
  <1>3. c \in SckAllCalls /\ Range(c) \subseteq {"connect", "listen"} \X {"fd"}
    BY <1>2, SckOtherCalls
  <1>4. PICK d : d = e \o c
    OBVIOUS
  <1>5. d \in SckAllCalls /\ Range(d) = Range(e) \cup Range(c) /\ SckOrdered(d, FALSE)
    BY ONLY <1>1, <1>3, <1>4, SckConnecting
  <1>6. SckDone(SckAsked \ SckOfConnection, d) /\ SckOrdered(d, SckUdp)
    BY <1>1, <1>5 DEF SckDone, SckOrdered
  <1>7. s = d
    BY <1>1, <1>2, <1>4
  <1> QED
    BY <1>5, <1>6, <1>7

LEMMA SckServUdpCalls ==
    ASSUME NEW b \in SckAllCalls, Range(b) \subseteq {"bind", "m"} \X {"fd"}, SckUdp,
           NEW c \in SckAllCalls, Range(c) \subseteq {"connect"} \X {"fd"},
           NEW s, s = SckReuse \o b \o buffers("fd") \o c \o sockopts("fd", TRUE, TRUE)
    PROVE  s \in SckAllCalls /\ SckOrdered(s, SckUdp) /\ SckDone(SckAsked \ {"H", "J"}, s)
  <1>1. PICK q : /\ q = SckReuse \o b \o buffers("fd") /\ q \in SckAllCalls
                 /\ Range(q) \subseteq {"A", "T", "bind", "m", "buffers", "R", "S"} \X {"fd"}
                 /\ SckBefore(q, {"A", "T"} \X SckFds, {"bind"} \X SckFds)
                 /\ SckDone(sckOpts \cap {"A", "T", "R", "S"}, q)
    BY SckFirstCalls
  <1>2. PICK p : p = sockopts("fd", TRUE, TRUE)
    OBVIOUS
  <1>3. p \in SckAllCalls /\ Range(p) = SckSet(TRUE, TRUE) \X {"fd"}
    <2>1. PICK f : f = "fd"
      OBVIOUS
    <2>2. f \in SckFds
      BY <2>1 DEF SckFds
    <2> QED
      BY <1>2, <2>1, <2>2, SckSockopts
  <1>4. PICK d : d = q \o c
    OBVIOUS
  <1>5. d \in SckAllCalls /\ Range(d) = Range(q) \cup Range(c) /\ SckOrdered(d, FALSE)
    <2>1. /\ Range(q) \cap ({"connect", "listen", "K", "N", "L"} \X SckFds) = {}
          /\ Range(c) \subseteq {"connect", "listen"} \X {"fd"}
      BY <1>1
    <2> QED
      BY ONLY <1>1, <1>4, <2>1, c \in SckAllCalls, SckConnecting
  <1>6. SckOrdered(d, TRUE)
    BY <1>5 DEF SckOrdered
  <1>7. Range(p) \cap ({"A", "T", "connect", "listen"} \X SckFds) = {}
    <2>1. SckSet(TRUE, TRUE) \subseteq SckEarlyKinds \cup SckLateKinds
      BY SckSetIs
    <2>2. SckSet(TRUE, TRUE) \cap {"A", "T", "connect", "listen"} = {}
      BY <2>1 DEF SckEarlyKinds, SckLateKinds
    <2> QED
      BY <1>3, <2>2
  <1>8. PICK t : t = d \o p
    OBVIOUS
  <1>9. t \in SckAllCalls /\ Range(t) = Range(d) \cup Range(p) /\ SckOrdered(t, TRUE)
    <2>1. p \in SckAllCalls /\ d \in SckAllCalls
      BY <1>3, <1>5
    <2>2. PICK udp \in BOOLEAN : udp = TRUE
      OBVIOUS
    <2>3. SckOrdered(d, udp) /\ (~udp => Range(p) \cap ({"R", "S", "X", "H", "g"} \X {"fd"}) \subseteq Range(d))
      BY <1>6, <2>2
    <2>4. t \in SckAllCalls /\ Range(t) = Range(d) \cup Range(p) /\ SckOrdered(t, udp)
      BY ONLY <1>7, <1>8, <2>1, <2>3, SckMore
    <2> QED
      BY <2>2, <2>4
  <1>10. SckDone(SckAsked \ {"H", "J"}, t)
    <2> SUFFICES ASSUME NEW o \in SckAsked, o \notin {"H", "J"} PROVE \E x \in Range(t) : x[1] = o
      BY DEF SckDone
    <2>1. SckAsked \ {"A", "T", "R", "S", "H", "J"} \subseteq SckSet(TRUE, TRUE) /\ SckAsked \subseteq sckOpts
      BY SckSetIs
    <2>2. CASE o \in {"A", "T", "R", "S"}
      <3>1. PICK x \in Range(q) : x[1] = o
        BY <1>1, <2>1, <2>2 DEF SckDone
      <3> QED
        BY <1>5, <1>9, <3>1
    <2>3. CASE o \notin {"A", "T", "R", "S"}
      <3>1. <<o, "fd">> \in Range(t)
        BY <1>3, <1>9, <2>1, <2>3
      <3> QED
        BY <3>1
    <2> QED
      BY <2>2, <2>3
  <1>11. s = t
    BY <1>1, <1>2, <1>4, <1>8
  <1>12. SckOrdered(t, SckUdp)
    BY <1>9 DEF SckOrdered
  <1> QED
    BY <1>9, <1>10, <1>11, <1>12

\* The options of an accepted connection.
LEMMA SckAcceptCalls ==
    ASSUME NEW d \in SckAllCalls, SckOrdered(d, SckUdp), ~SckUdp, NEW r \in BOOLEAN,
           SckDone(SckAsked \ SckOfConnection, d),
           NEW s, s = d \o (buffers("newfd") \o sockopts("newfd", TRUE, r))
    PROVE  s \in SckAllCalls /\ SckOrdered(s, SckUdp) /\ SckDone(SckAsked, s)
  <1>1. PICK f : f = "newfd"
    OBVIOUS
  <1>2. PICK a, p : a = buffers(f) /\ p = sockopts(f, TRUE, r)
    OBVIOUS
  <1>3. f \in SckFds
    BY <1>1 DEF SckFds
  <1>4. /\ a \in SckAllCalls /\ Range(a) = ({"buffers"} \cup ({"R", "S"} \cap sckOpts)) \X {f}
        /\ p \in SckAllCalls /\ Range(p) = SckSet(TRUE, r) \X {f}
    <2>1. a \in SckAllCalls /\ Range(a) = ({"buffers"} \cup ({"R", "S"} \cap sckOpts)) \X {f}
      BY <1>2, <1>3, SckOtherCalls
    <2>2. p \in SckAllCalls /\ Range(p) = SckSet(TRUE, r) \X {f}
      BY <1>2, <1>3, SckSockopts
    <2> QED
      BY <2>1, <2>2
  <1>5. PICK e : e = a \o p
    OBVIOUS
  <1>6. e \in SckAllCalls /\ Range(e) = Range(a) \cup Range(p)
    <2>1. a \in SckAllCalls /\ p \in SckAllCalls
      BY <1>4
    <2> QED
      BY ONLY <1>5, <2>1, SckJoinRange DEF SckAllCalls
  <1>7. Range(e) \cap ({"A", "T", "connect", "listen"} \X SckFds) = {}
    <2>1. SckSet(TRUE, r) \subseteq SckEarlyKinds \cup SckLateKinds
      BY SckSetIs
    <2>2. SckSet(TRUE, r) \cap {"A", "T", "connect", "listen"} = {}
      BY <2>1 DEF SckEarlyKinds, SckLateKinds
    <2>3. Range(p) \cap ({"A", "T", "connect", "listen"} \X SckFds) = {}
      BY <1>4, <2>2
    <2>4. Range(a) \cap ({"A", "T", "connect", "listen"} \X SckFds) = {}
      BY <1>4
    <2> QED
      BY <1>6, <2>3, <2>4
  <1>8. Range(e) \cap ({"R", "S", "X", "H", "g"} \X {"fd"}) \subseteq Range(d)
    BY <1>1, <1>4, <1>6
  <1>9. PICK udp \in BOOLEAN : udp = SckUdp
    <2>1. SckUdp \in BOOLEAN
      BY DEF SckUdp, SckGiven
    <2> QED
      BY ONLY <2>1, Zenon
  <1>10. PICK t : t = d \o e
    OBVIOUS
  <1>11. t \in SckAllCalls /\ Range(t) = Range(d) \cup Range(e) /\ SckOrdered(t, udp)
    <2>1. e \in SckAllCalls /\ SckOrdered(d, udp) /\ udp \in BOOLEAN
      BY <1>6, <1>9
    <2>2. ~udp => Range(e) \cap ({"R", "S", "X", "H", "g"} \X {"fd"}) \subseteq Range(d)
      BY <1>8
    <2> QED
      BY ONLY <1>7, <1>10, <2>1, <2>2, d \in SckAllCalls, SckMore
  <1>12. SckDone(SckAsked, t)
    <2> SUFFICES ASSUME NEW o \in SckAsked PROVE \E x \in Range(t) : x[1] = o
      BY DEF SckDone
    <2>1. CASE o \in SckOfConnection
      <3>1. o \in SckSet(TRUE, r)
        BY <2>1, SckSetIs
      <3>2. <<o, f>> \in Range(t)
        BY <1>4, <1>6, <1>11, <3>1
      <3> QED
        BY <3>2
    <2>2. CASE o \notin SckOfConnection
      <3>1. PICK x \in Range(d) : x[1] = o
        BY <2>2 DEF SckDone
      <3> QED
        BY <1>11, <3>1
    <2> QED
      BY <2>1, <2>2
  <1>13. s = t
    BY <1>1, <1>2, <1>5, <1>10
  <1> QED
    BY <1>9, <1>11, <1>12, <1>13

LEMMA SckDoKeeps ==
    ASSUME SckInv, NEW calls, NEW pc \in {"ready", "listen"}, SckDo(calls, pc), sckOpts' = sckOpts,
           sckCalls \o calls \in SckAllCalls, SckOrdered(sckCalls \o calls, SckUdp),
           pc = "listen" => /\ ~SckUdp /\ SckGiven("s")
                            /\ SckDone(SckAsked \ SckOfConnection, sckCalls \o calls),
           pc = "ready" => \/ SckDone(SckAsked, sckCalls \o calls)
                           \/ SckUdp /\ SckGiven("s") /\ SckDone(SckAsked \ {"H", "J"}, sckCalls \o calls)
    PROVE  SckInv'
  <1>1. PICK s : s = sckCalls \o calls
    OBVIOUS
  <1>2. sckCalls' = s /\ sckPc' \in {"exit", pc}
    BY <1>1 DEF SckDo
  <1>3. SckAsked' = SckAsked /\ SckUdp' = SckUdp /\ SckGiven("s")' = SckGiven("s")
    BY DEF SckAsked, SckUdp, SckGiven
  <1>4. sckPc' = "ready" => pc = "ready"
    BY <1>2
  <1>5. SckAllSet'
    <2> SUFFICES ASSUME sckPc' = "ready", NEW o \in SckAsked,
                        ~(o \in {"H", "J"} /\ SckUdp /\ SckGiven("s"))
                 PROVE  \E c \in Range(sckCalls') : c[1] = o
      BY <1>3 DEF SckAllSet, SckUdp, SckGiven
    <2> QED
      BY <1>1, <1>2, <1>4 DEF SckDone
  <1>6. sckPc' \notin {"main", "open", "usage"}
    BY <1>2
  <1>7. sckCalls' \in SckAllCalls /\ SckOrdered(sckCalls', SckUdp')
    BY <1>1, <1>2, <1>3
  <1>8. ASSUME sckPc' \in {"listen", "accept", "test", "suspend", "sleep"}
        PROVE  ~SckUdp' /\ SckGiven("s")' /\ SckDone(SckAsked' \ SckOfConnection, sckCalls')
    <2>1. pc = "listen"
      BY <1>2, <1>8
    <2> QED
      BY <1>1, <1>2, <1>3, <2>1
  <1> QED
    BY <1>5, <1>6, <1>7, <1>8 DEF SckInv

LEMMA SckNoCalls ==
    ASSUME NEW calls \in SckAllCalls
    PROVE  <<>> \o calls = calls
  <1>1. PICK e : e = <<>>
    OBVIOUS
  <1>2. calls \in Seq(SckKinds \X SckFds)
    BY DEF SckAllCalls
  <1>3. <<>> \o calls = calls
    BY ONLY <1>2, ConcatEmptySeq
  <1> QED
    BY <1>3

LEMMA SckCliOpenStep == ASSUME SckInv, SckCliOpen PROVE SckInv'
  <1> DEFINE bind == SckGiven("b") \/ SckGiven("l") \/ SckUdp
             connect == ~SckUdp \/ ~SckGiven("o")
  <1>1. PICK b, c : /\ b = IF bind THEN SckOn("fd", <<"bind">>) ELSE <<>>
                    /\ c = IF connect THEN SckOn("fd", <<"connect">>) ELSE <<>>
    OBVIOUS
  <1>2. sckCalls = <<>> /\ sckOpts' = sckOpts /\ SckRouteLeft = TRUE
    <2>1. sckCalls = <<>> /\ sckOpts' = sckOpts
      BY DEF SckInv, SckCliOpen
    <2>2. Range(sckCalls) = {}
      BY <2>1, SckListsAre
    <2> QED
      BY <2>1, <2>2 DEF SckRouteLeft
  <1>3. PICK s : s = SckReuse \o b \o buffers("fd") \o sockopts("fd", FALSE, TRUE)
                     \o c \o sockopts("fd", TRUE, FALSE)
    OBVIOUS
  <1>4. SckDo(s, "ready")
    BY <1>1, <1>2, <1>3 DEF SckCliOpen
  <1>5. /\ b \in SckAllCalls /\ Range(b) \subseteq {"bind"} \X {"fd"}
        /\ c \in SckAllCalls /\ Range(c) \subseteq {"connect"} \X {"fd"}
    <2>1. <<>> \in SckAllCalls /\ Range(<<>>) = {}
      BY SckListsAre
    <2>2. /\ SckOn("fd", <<"bind">>) \in SckAllCalls /\ Range(SckOn("fd", <<"bind">>)) = {"bind"} \X {"fd"}
          /\ SckOn("fd", <<"connect">>) \in SckAllCalls
          /\ Range(SckOn("fd", <<"connect">>)) = {"connect"} \X {"fd"}
      BY SckOtherCalls
    <2>3. b = <<>> \/ b = SckOn("fd", <<"bind">>)
      BY <1>1
    <2>4. c = <<>> \/ c = SckOn("fd", <<"connect">>)
      BY <1>1
    <2> QED
      BY ONLY <2>1, <2>2, <2>3, <2>4
  <1>6. s \in SckAllCalls /\ SckOrdered(s, SckUdp) /\ SckDone(SckAsked, s)
    BY ONLY <1>3, <1>5, SckCliCalls
  <1>7. sckCalls \o s = s
    BY <1>2, <1>6, SckNoCalls
  <1> QED
    BY <1>2, <1>4, <1>6, <1>7, SckDoKeeps

\* bind() and the multicast group of a server.
LEMMA SckServBind ==
    /\ SckOn("fd", <<"bind">>) \o join_mcast \in SckAllCalls
    /\ Range(SckOn("fd", <<"bind">>) \o join_mcast) \subseteq {"bind", "m"} \X {"fd"}
  <1>1. PICK a, b : a = SckOn("fd", <<"bind">>) /\ b = join_mcast
    OBVIOUS
  <1>2. a \in SckAllCalls /\ b \in SckAllCalls
    BY <1>1, SckOtherCalls
  <1>3. Range(a) = {"bind"} \X {"fd"} /\ Range(b) = ({"m"} \cap sckOpts) \X {"fd"}
    BY <1>1, SckOtherCalls
  <1>4. a \o b \in SckAllCalls /\ Range(a \o b) = Range(a) \cup Range(b)
    BY ONLY <1>2, SckJoinRange DEF SckAllCalls
  <1> QED
    BY <1>1, <1>3, <1>4

LEMMA SckCatAssoc ==
    ASSUME NEW a \in SckAllCalls, NEW b \in SckAllCalls, NEW c \in SckAllCalls
    PROVE  a \o b \o c = a \o (b \o c)
  BY ConcatAssociative DEF SckAllCalls

LEMMA SckServOpenUdpStep == ASSUME SckInv, SckServOpenUdp PROVE SckInv'
  <1>1. PICK b, c : /\ b = SckOn("fd", <<"bind">>) \o join_mcast
                    /\ c = IF SckGiven("f") THEN SckOn("fd", <<"connect">>) ELSE <<>>
    OBVIOUS
  <1>2. sckCalls = <<>> /\ sckOpts' = sckOpts /\ SckRouteLeft = TRUE /\ SckUdp /\ SckGiven("s")
    <2>1. sckCalls = <<>> /\ sckOpts' = sckOpts /\ SckUdp /\ SckGiven("s")
      BY DEF SckInv, SckServOpenUdp
    <2>2. Range(sckCalls) = {}
      BY <2>1, SckListsAre
    <2> QED
      BY <2>1, <2>2 DEF SckRouteLeft
  <1>3. PICK s : s = SckReuse \o b \o buffers("fd") \o c \o sockopts("fd", TRUE, TRUE)
    OBVIOUS
  <1>4. /\ SckOn("fd", <<"bind">>) \in SckAllCalls /\ join_mcast \in SckAllCalls
        /\ SckReuse \in SckAllCalls
    BY SckOtherCalls
  <1>5. SckReuse \o SckOn("fd", <<"bind">>) \o join_mcast = SckReuse \o b
    BY <1>1, <1>4, SckCatAssoc
  <1>6. SckDo(s, "ready")
    BY <1>1, <1>2, <1>3, <1>5 DEF SckServOpenUdp
  <1>7. /\ b \in SckAllCalls /\ Range(b) \subseteq {"bind", "m"} \X {"fd"}
        /\ c \in SckAllCalls /\ Range(c) \subseteq {"connect"} \X {"fd"}
    <2>1. <<>> \in SckAllCalls /\ Range(<<>>) = {}
      BY SckListsAre
    <2>2. /\ SckOn("fd", <<"connect">>) \in SckAllCalls
          /\ Range(SckOn("fd", <<"connect">>)) = {"connect"} \X {"fd"}
      BY SckOtherCalls
    <2>3. c = <<>> \/ c = SckOn("fd", <<"connect">>)
      BY <1>1
    <2>4. c \in SckAllCalls /\ Range(c) \subseteq {"connect"} \X {"fd"}
      BY ONLY <2>1, <2>2, <2>3
    <2> QED
      BY <1>1, <2>4, SckServBind
  <1>8. s \in SckAllCalls /\ SckOrdered(s, SckUdp) /\ SckDone(SckAsked \ {"H", "J"}, s)
    BY ONLY <1>2, <1>3, <1>7, SckServUdpCalls
  <1>9. sckCalls \o s = s
    BY <1>2, <1>8, SckNoCalls
  <1> QED
    BY <1>2, <1>6, <1>8, <1>9, SckDoKeeps

LEMMA SckServOpenTcpStep == ASSUME SckInv, SckServOpenTcp PROVE SckInv'
  <1>1. PICK b : b = SckOn("fd", <<"bind">>) \o join_mcast
    OBVIOUS
  <1>2. sckCalls = <<>> /\ sckOpts' = sckOpts /\ SckRouteLeft = TRUE /\ ~SckUdp /\ SckGiven("s")
    <2>1. sckCalls = <<>> /\ sckOpts' = sckOpts /\ ~SckUdp /\ SckGiven("s")
      BY DEF SckInv, SckServOpenTcp
    <2>2. Range(sckCalls) = {}
      BY <2>1, SckListsAre
    <2> QED
      BY <2>1, <2>2 DEF SckRouteLeft
  <1>3. PICK s : s = SckReuse \o b \o buffers("fd") \o sockopts("fd", FALSE, TRUE) \o SckOn("fd", <<"listen">>)
    OBVIOUS
  <1>4. /\ SckOn("fd", <<"bind">>) \in SckAllCalls /\ join_mcast \in SckAllCalls
        /\ SckReuse \in SckAllCalls
    BY SckOtherCalls
  <1>5. SckReuse \o SckOn("fd", <<"bind">>) \o join_mcast = SckReuse \o b
    BY <1>1, <1>4, SckCatAssoc
  <1>6. SckDo(s, "listen")
    BY <1>1, <1>2, <1>3, <1>5 DEF SckServOpenTcp
  <1>7. b \in SckAllCalls /\ Range(b) \subseteq {"bind", "m"} \X {"fd"}
    BY <1>1, SckServBind
  <1>8. s \in SckAllCalls /\ SckOrdered(s, SckUdp) /\ SckDone(SckAsked \ SckOfConnection, s)
    BY ONLY <1>2, <1>3, <1>7, SckListenCalls
  <1>9. sckCalls \o s = s
    BY <1>2, <1>8, SckNoCalls
  <1> QED
    BY <1>2, <1>6, <1>8, <1>9, SckDoKeeps

LEMMA SckAcceptStep == ASSUME SckInv, SckAccept PROVE SckInv'
  <1>1. PICK r \in BOOLEAN : r = SckRouteLeft
    <2>1. SckRouteLeft \in BOOLEAN
      BY DEF SckRouteLeft
    <2> QED
      BY ONLY <2>1, Zenon
  <1>2. PICK q : q = buffers("newfd") \o sockopts("newfd", TRUE, r)
    OBVIOUS
  <1>3. PICK s : s = sckCalls \o q
    OBVIOUS
  <1>4. SckDo(q, "ready") /\ sckOpts' = sckOpts
    BY <1>1, <1>2 DEF SckAccept
  <1>5. /\ sckCalls \in SckAllCalls /\ SckOrdered(sckCalls, SckUdp) /\ ~SckUdp
        /\ SckDone(SckAsked \ SckOfConnection, sckCalls)
    BY DEF SckInv, SckAccept
  <1>6. s = sckCalls \o (buffers("newfd") \o sockopts("newfd", TRUE, r)) /\ r \in BOOLEAN
    BY <1>2, <1>3
  <1>7. s \in SckAllCalls /\ SckOrdered(s, SckUdp) /\ SckDone(SckAsked, s)
    BY ONLY <1>5, <1>6, SckAcceptCalls
  <1> QED
    BY <1>3, <1>4, <1>7, SckDoKeeps

\* The steps of the forking server make no call on the socket.
LEMMA SckQuietStep ==
    ASSUME SckInv, UNCHANGED <<sckOpts, sckCalls>>, sckPc \notin {"main", "open", "usage"},
           \/ sckPc' = "exit"
           \/ /\ sckPc' \in {"listen", "accept", "test", "suspend", "sleep"}
              /\ sckPc \in {"listen", "accept", "test", "suspend", "sleep"}
           \/ sckPc' = sckPc
    PROVE  SckInv'
  <1>1. SckAsked' = SckAsked /\ SckUdp' = SckUdp /\ SckGiven("s")' = SckGiven("s")
    BY DEF SckAsked, SckUdp, SckGiven
  <1>2. SckAllSet'
    <2>1. sckPc' = "ready" => sckPc = "ready"
      OBVIOUS
    <2> SUFFICES ASSUME sckPc = "ready", NEW o \in SckAsked,
                        ~(o \in {"H", "J"} /\ SckUdp /\ SckGiven("s"))
                 PROVE  \E c \in Range(sckCalls) : c[1] = o
      BY <1>1, <2>1 DEF SckAllSet, SckUdp, SckGiven
    <2> QED
      BY DEF SckInv, SckAllSet
  <1> QED
    BY <1>1, <1>2 DEF SckInv

LEMMA SckEmptyOrdered == \A udp : SckOrdered(<<>>, udp)
  <1>1. Range(<<>>) = {} /\ DOMAIN <<>> = {}
    BY SckListsAre
  <1> QED
    BY <1>1 DEF SckOrdered, SckBefore, SckAfter

SckFresh == sckCalls = <<>> /\ sckPc \in {"main", "open", "usage", "exit"}

LEMMA SckFirstStates == SckFresh => SckInv
  <1> SUFFICES ASSUME SckFresh PROVE SckInv
    OBVIOUS
  <1>1. <<>> \in SckAllCalls
    BY SckListsAre
  <1>2. SckOrdered(sckCalls, SckUdp)
    BY SckEmptyOrdered DEF SckFresh
  <1>3. SckAllSet
    BY DEF SckAllSet, SckFresh
  <1> QED
    BY <1>1, <1>2, <1>3 DEF SckInv, SckFresh

LEMMA SckFirstStatesNext == SckFresh' => SckInv'
  BY SckFirstStates, PTL

LEMMA SckNextKeeps == SckInv /\ [SckNext]_sckVars => SckInv'
  <1> SUFFICES ASSUME SckInv, [SckNext]_sckVars PROVE SckInv'
    OBVIOUS
  <1>1. CASE SckMain
    <2>1. sckCalls' = <<>> /\ sckPc' \in {"open", "usage"}
      BY <1>1 DEF SckMain, SckInv
    <2> QED
      BY <2>1, SckFirstStatesNext DEF SckFresh
  <1>2. CASE SckListening
    BY <1>2, SckQuietStep DEF SckListening
  <1>3. CASE SckAcceptFork
    BY <1>3, SckQuietStep DEF SckAcceptFork
  <1>4. CASE SckTellParent
    <2>1. CASE sckPc \notin {"main", "open", "usage"}
      <3>1. UNCHANGED <<sckOpts, sckCalls>> /\ (sckPc' = sckPc \/ (sckPc = "sleep" /\ sckPc' = "test"))
        BY <1>4 DEF SckTellParent
      <3> QED
        BY <2>1, <3>1, SckQuietStep
    <2>2. CASE sckPc \in {"main", "open", "usage"}
      <3>1. sckCalls' = <<>> /\ sckPc' = sckPc
        BY <1>4, <2>2 DEF SckTellParent, SckInv
      <3> QED
        BY <2>2, <3>1, SckFirstStatesNext DEF SckFresh
    <2> QED
      BY <2>1, <2>2
  <1>5. CASE SckWaitTest
    <2>1. UNCHANGED <<sckOpts, sckCalls>> /\ sckPc = "test" /\ sckPc' \in {"accept", "suspend"}
      BY <1>5 DEF SckWaitTest
    <2> QED
      BY <2>1, SckQuietStep
  <1>6. CASE SckSuspend
    <2>1. UNCHANGED <<sckOpts, sckCalls>> /\ sckPc = "suspend" /\ sckPc' \in {"test", "sleep"}
      BY <1>6 DEF SckSuspend
    <2> QED
      BY <2>1, SckQuietStep
  <1>7. CASE SckFail
    <2>1. CASE sckPc = "open"
      <3>1. sckCalls' = <<>> /\ sckPc' = "exit"
        BY <1>7, <2>1 DEF SckFail, SckInv
      <3> QED
        BY <3>1, SckFirstStatesNext DEF SckFresh
    <2>2. CASE sckPc = "accept"
      BY <1>7, <2>2, SckQuietStep DEF SckFail
    <2> QED
      BY <1>7, <2>1, <2>2 DEF SckFail
  <1>8. CASE UNCHANGED sckVars
    <2>1. UNCHANGED <<sckPc, sckOpts, sckCalls>>
      BY <1>8 DEF sckVars
    <2>2. CASE sckPc \notin {"main", "open", "usage"}
      BY <2>1, <2>2, SckQuietStep
    <2>3. CASE sckPc \in {"main", "open", "usage"}
      <3>1. sckCalls' = <<>> /\ sckPc' = sckPc
        BY <2>1, <2>3 DEF SckInv
      <3> QED
        BY <2>3, <3>1, SckFirstStatesNext DEF SckFresh
    <2> QED
      BY <2>2, <2>3
  <1> QED
    BY <1>1, <1>2, <1>3, <1>4, <1>5, <1>6, <1>7, <1>8,
       SckCliOpenStep, SckServOpenUdpStep, SckServOpenTcpStep, SckAcceptStep DEF SckNext, SckFairStep

LEMMA SckInvOrder == SckInv => SckOrder
  <1> SUFFICES ASSUME SckInv, NEW i \in DOMAIN sckCalls, NEW j \in DOMAIN sckCalls
               PROVE  LET a == sckCalls[i][1]
                          b == sckCalls[j][1]
                      IN  /\ a \in {"A", "T"} /\ b = "bind" => i < j
                          /\ sckCalls[i][2] = "fd" /\ ~SckUdp /\ a \in {"R", "S", "X", "H", "g"}
                             /\ b \in {"connect", "listen"} =>
                                \E k \in 1 .. j : sckCalls[k] = sckCalls[i]
                          /\ a \in {"K", "N", "L"} /\ b \in {"listen", "connect"} =>
                                sckCalls[i][2] = "newfd" \/ j < i
    BY DEF SckOrder
  <1>1. PICK x, y : x = sckCalls[i] /\ y = sckCalls[j]
    OBVIOUS
  <1>2. /\ x \in SckKinds \X SckFds /\ y \in SckKinds \X SckFds
        /\ x = <<x[1], x[2]>> /\ y = <<y[1], y[2]>>
    <2>1. sckCalls \in Seq(SckKinds \X SckFds)
      BY DEF SckInv, SckAllCalls
    <2>2. x \in SckKinds \X SckFds /\ y \in SckKinds \X SckFds
      BY <1>1, <2>1
    <2> QED
      BY ONLY <2>2
  <1>3. x[2] \in {"fd", "newfd"} /\ y[2] \in SckFds /\ x[2] \in SckFds
    BY <1>2 DEF SckFds
  <1>4. SckOrdered(sckCalls, SckUdp)
    BY DEF SckInv
  <1>5. ASSUME x[1] \in {"A", "T"}, y[1] = "bind" PROVE i < j
    <2>1. x \in {"A", "T"} \X SckFds /\ y \in {"bind"} \X SckFds
      BY <1>2, <1>3, <1>5
    <2> QED
      BY <1>1, <1>4, <2>1 DEF SckOrdered, SckBefore
  <1>6. ASSUME x[2] = "fd", ~SckUdp, x[1] \in {"R", "S", "X", "H", "g"}, y[1] \in {"connect", "listen"}
        PROVE  \E k \in 1 .. j : sckCalls[k] = x
    <2>1. x \in {"R", "S", "X", "H", "g"} \X {"fd"} /\ y \in {"connect", "listen"} \X SckFds
      BY <1>2, <1>3, <1>6
    <2>2. x \in Range(sckCalls)
      BY <1>1 DEF Range
    <2> QED
      BY <1>1, <1>4, <1>6, <2>1, <2>2 DEF SckOrdered, SckAfter
  <1>7. ASSUME x[1] \in {"K", "N", "L"}, y[1] \in {"listen", "connect"} PROVE x[2] = "newfd" \/ j < i
    <2>1. y \in {"connect", "listen"} \X SckFds
      BY <1>2, <1>3, <1>7
    <2>2. CASE x[2] = "fd"
      <3>1. x \in {"K", "N", "L"} \X {"fd"}
        BY <1>2, <1>7, <2>2
      <3> QED
        BY <1>1, <1>4, <2>1, <3>1 DEF SckOrdered, SckBefore
    <2> QED
      BY <1>3, <2>2
  <1> QED
    BY <1>1, <1>5, <1>6, <1>7

LEMMA SckOpenCorrect == SckSpec => [](SckAllSet /\ SckOrder)
  <1>1. SckInit => SckInv
    BY SckFirstStates DEF SckInit, SckFresh
  <1>2. SckInv => SckAllSet /\ SckOrder
    BY SckInvOrder DEF SckInv
  <1> QED
    BY <1>1, <1>2, SckNextKeeps, PTL DEF SckSpec

\* The sock program sets every option asked for at a time when the kernel
\* takes it, for any sets of options on the command line, and its sink
\* counts every byte written once, for buffers of any length.
THEOREM SockRightCorrect == SockSpec => []SockRight
  <1>1. SckAllSet /\ SckOrder /\ SrcAllCounted => SockRight
    BY DEF SockRight
  <1> QED
    BY <1>1, SckOpenCorrect, SrcCountedCorrect, PTL DEF SockSpec

-----------------------------------------------------------------------------
(* The copy loops of sock.  A conversion of bytes is a map LopMap(f, s)     *)
(* that puts f[c] in the place of each byte c: -c forth is LopAddOne, back *)
(* LopStripOne, and the read part of standard output LopRealOne.  On TCP,  *)
(* what was read, has come and is still to come make up, as standard       *)
(* output shows it, one text of the peer (LopWhole); between a look and    *)
(* the read that follows, the piece looked at begins what will be read     *)
(* (LopLooked).                                                            *)

\* Induction over sequences that grow at their end, as a fact about sets.
LEMMA AppendInduction ==
    ASSUME NEW S, NEW G \in SUBSET Seq(S), <<>> \in G, \A s \in G, e \in S : Append(s, e) \in G
    PROVE  \A s \in Seq(S) : s \in G
  <1> SUFFICES ASSUME NEW t \in Seq(S), t \notin G PROVE FALSE
    OBVIOUS
  <1> DEFINE bad == {Len(s) : s \in Seq(S) \ G}
  <1>1. PICK m \in bad : \A k \in bad : m <= k
    <2>1. bad \subseteq Nat /\ bad # {}
      BY EmptySeq
    <2> HIDE DEF bad
    <2> QED
      BY ONLY <2>1, LeastElement
  <1>2. PICK s \in Seq(S) : s \notin G /\ Len(s) = m
    BY <1>1
  <1>3. PICK u \in Seq(S), e \in S : s = Append(u, e)
    BY <1>2, SequenceEmptyOrAppend
  <1>4. Len(u) \in Nat /\ m = Len(u) + 1
    BY <1>2, <1>3, AppendProperties
  <1>5. Len(u) \notin bad
    <2>1. ~(m <= Len(u))
      BY <1>4
    <2> HIDE DEF bad
    <2> QED
      BY <1>1, <2>1
  <1> QED
    BY <1>2, <1>3, <1>5

LEMMA FlattenNone == FlattenSeq(<<>>) = <<>>
  <1>1. PICK s : s = <<>>
    OBVIOUS
  <1>2. Len(s) = 0 /\ FlattenSeq(s) = s
    BY <1>1 DEF FlattenSeq
  <1> QED
    BY <1>1, <1>2

LEMMA FlattenAppend ==
    ASSUME NEW T, NEW s \in Seq(Seq(T)), NEW x \in Seq(T)
    PROVE  FlattenSeq(Append(s, x)) = FlattenSeq(s) \o x
  <1>1. PICK n, t : n = Len(s) /\ t = Append(s, x)
    OBVIOUS
  <1>2. n \in Nat /\ Len(t) = n + 1 /\ t[n + 1] = x /\ \A i \in 1 .. n : t[i] = s[i]
    BY <1>1, AppendProperties
  <1>3. PICK h : FlatRuns(h, t, n + 1) /\ FlattenSeq(t) = h[n + 1]
    <2>1. n + 1 \in Nat \ {0}
      BY <1>2
    <2> QED
      BY ONLY <1>2, <2>1, FlattenIs
  <1>4. \A k \in 1 .. n + 1 : h[k] = IF k = 1 THEN t[k] ELSE h[k - 1] \o t[k]
    BY <1>3 DEF FlatRuns
  <1>5. CASE n = 0
    <2>1. s = <<>>
      BY <1>1, <1>5, EmptySeq
    <2>2. FlattenSeq(s) \o x = x
      BY <2>1, FlattenNone, ConcatEmptySeq
    <2>3. h[1] = t[1]
      BY <1>4, <1>5
    <2> QED
      BY <1>1, <1>2, <1>3, <1>5, <2>2, <2>3
  <1>6. CASE n # 0
    <2>1. n \in Nat \ {0}
      BY <1>2, <1>6
    <2>2. PICK g : FlatRuns(g, s, n) /\ FlattenSeq(s) = g[n]
      BY ONLY <1>1, <2>1, FlattenIs
    <2>3. \A k \in 1 .. n : g[k] = IF k = 1 THEN s[k] ELSE g[k - 1] \o s[k]
      BY <2>2 DEF FlatRuns
    <2> DEFINE bad == {k \in 1 .. n : g[k] # h[k]}
    <2>4. bad = {}
      <3> SUFFICES ASSUME bad # {} PROVE FALSE
        OBVIOUS
      <3>1. PICK m \in bad : \A k \in bad : m <= k
        <4>1. bad \subseteq Nat
          BY <1>2
        <4> HIDE DEF bad
        <4> QED
          BY <4>1, LeastElement
      <3>2. m \in 1 .. n /\ g[m] # h[m] /\ m \in 1 .. n + 1
        BY <1>2, <3>1
      <3>3. s[m] = t[m]
        BY <1>2, <3>2
      <3>4. CASE m = 1
        BY <1>4, <2>3, <3>2, <3>3, <3>4
      <3>5. CASE m # 1
        <4>1. m - 1 \in 1 .. n /\ ~(m <= m - 1)
          BY <2>1, <3>2, <3>5
        <4>2. g[m - 1] = h[m - 1]
          BY <3>1, <4>1
        <4>3. g[m] = g[m - 1] \o s[m] /\ h[m] = h[m - 1] \o t[m]
          BY <1>4, <2>3, <3>2, <3>5
        <4> QED
          BY <3>2, <3>3, <4>2, <4>3
      <3> QED
        BY <3>4, <3>5
    <2>5. g[n] = h[n]
      <3>1. n \in 1 .. n
        BY <2>1
      <3> QED
        BY <2>4, <3>1
    <2>6. h[n + 1] = h[n] \o t[n + 1]
      <3>1. n + 1 \in 1 .. n + 1 /\ n + 1 # 1 /\ (n + 1) - 1 = n
        BY <2>1
      <3> QED
        BY <1>4, <3>1
    <2> QED
      BY <1>1, <1>2, <1>3, <2>2, <2>5, <2>6
  <1> QED
    BY <1>5, <1>6

\* What a conversion, byte by byte, makes of a sequence.
LopMap(f, s) == FlattenSeq([i \in DOMAIN s |-> f[s[i]]])

LopFits(f, S, T) == f \in [S -> Seq(T)]

LEMMA LopMapNone == ASSUME NEW f PROVE LopMap(f, <<>>) = <<>>
  <1>1. [i \in DOMAIN <<>> |-> f[<<>>[i]]] = <<>>
    OBVIOUS
  <1> QED
    BY <1>1, FlattenNone DEF LopMap

LEMMA LopMapAppend ==
    ASSUME NEW S, NEW T, NEW f \in [S -> Seq(T)], NEW s \in Seq(S), NEW e \in S
    PROVE  LopMap(f, Append(s, e)) = LopMap(f, s) \o f[e]
  <1>1. PICK n, t : n = Len(s) /\ t = Append(s, e)
    OBVIOUS
  <1>2. /\ n \in Nat /\ t \in Seq(S) /\ Len(t) = n + 1 /\ t[n + 1] = e
        /\ \A i \in 1 .. n : t[i] = s[i]
    BY <1>1, AppendProperties
  <1>3. PICK p : p = [i \in 1 .. n |-> f[s[i]]]
    OBVIOUS
  <1>4. PICK q : q = [i \in 1 .. n + 1 |-> f[t[i]]]
    OBVIOUS
  <1>5. \A i \in 1 .. n : s[i] \in S
    BY <1>1, ElementOfSeq
  <1>6. \A i \in 1 .. n + 1 : t[i] \in S
    BY <1>2, ElementOfSeq
  <1>7. p \in Seq(Seq(T)) /\ Len(p) = n
    <2>1. p \in [1 .. n -> Seq(T)]
      BY <1>3, <1>5
    <2> QED
      BY <1>2, <2>1
  <1>8. q \in Seq(Seq(T)) /\ Len(q) = n + 1
    <2>1. q \in [1 .. n + 1 -> Seq(T)] /\ n + 1 \in Nat
      BY <1>2, <1>4, <1>6
    <2> QED
      BY <2>1
  <1>9. q = Append(p, f[e])
    <2>1. f[e] \in Seq(T)
      OBVIOUS
    <2>2. PICK x : x = f[e]
      OBVIOUS
    <2>3. /\ Append(p, x) \in Seq(Seq(T)) /\ Len(Append(p, x)) = n + 1
          /\ \A i \in 1 .. n : Append(p, x)[i] = p[i]
          /\ Append(p, x)[n + 1] = x
      BY <1>7, <2>1, <2>2, AppendProperties
    <2>4. \A i \in 1 .. n + 1 : i \in 1 .. n \/ i = n + 1
      BY <1>2
    <2>5. \A i \in 1 .. n + 1 : q[i] = Append(p, x)[i]
      <3> SUFFICES ASSUME NEW i \in 1 .. n + 1 PROVE q[i] = Append(p, x)[i]
        OBVIOUS
      <3>1. CASE i \in 1 .. n
        <4>1. q[i] = f[t[i]] /\ p[i] = f[s[i]]
          BY <1>3, <1>4, <3>1
        <4> QED
          BY <1>2, <2>3, <3>1, <4>1
      <3>2. CASE i = n + 1
        BY <1>2, <1>4, <2>2, <2>3, <3>2
      <3> QED
        BY <2>4, <3>1, <3>2
    <2> HIDE DEF LopMap
    <2> QED
      BY <1>8, <2>2, <2>3, <2>5, SeqEqual
  <1>10. DOMAIN s = 1 .. n /\ DOMAIN t = 1 .. n + 1
    BY <1>1, <1>2
  <1>11. LopMap(f, s) = FlattenSeq(p) /\ LopMap(f, t) = FlattenSeq(q)
    BY <1>3, <1>4, <1>10 DEF LopMap
  <1>12. f[e] \in Seq(T)
    OBVIOUS
  <1> QED
    BY <1>1, <1>7, <1>9, <1>11, <1>12, FlattenAppend

LEMMA LopMapType ==
    ASSUME NEW S, NEW T, NEW f \in [S -> Seq(T)], NEW s \in Seq(S)
    PROVE  LopMap(f, s) \in Seq(T)
  <1> DEFINE G == {u \in Seq(S) : LopMap(f, u) \in Seq(T)}
  <1>1. <<>> \in G
    BY LopMapNone, EmptySeq
  <1>2. ASSUME NEW u \in G, NEW e \in S PROVE Append(u, e) \in G
    <2>1. u \in Seq(S) /\ LopMap(f, u) \in Seq(T) /\ f[e] \in Seq(T)
      BY <1>2
    <2>2. LopMap(f, Append(u, e)) = LopMap(f, u) \o f[e]
      BY <2>1, LopMapAppend
    <2>3. LopMap(f, Append(u, e)) \in Seq(T)
      <3>1. PICK a, b : a = LopMap(f, u) /\ b = f[e]
        OBVIOUS
      <3>2. a \o b \in Seq(T)
        BY <2>1, <3>1, ConcatProperties
      <3> QED
        BY <2>2, <3>1, <3>2
    <2>4. Append(u, e) \in Seq(S)
      BY <2>1, AppendProperties
    <2> QED
      BY <2>3, <2>4
  <1>3. G \in SUBSET Seq(S)
    OBVIOUS
  <1>4. s \in G
    <2> HIDE DEF G
    <2> QED
      BY <1>1, <1>2, <1>3, AppendInduction
  <1> QED
    BY <1>4

LEMMA LopMapJoin ==
    ASSUME NEW S, NEW T, NEW f, LopFits(f, S, T), NEW s \in Seq(S), NEW t \in Seq(S)
    PROVE  LopMap(f, s \o t) = LopMap(f, s) \o LopMap(f, t)
  <1>0. f \in [S -> Seq(T)]
    BY DEF LopFits
  <1> DEFINE G == {u \in Seq(S) : LopMap(f, s \o u) = LopMap(f, s) \o LopMap(f, u)}
  <1>1. <<>> \in G
    <2>1. LopMap(f, s) \in Seq(T)
      BY <1>0, LopMapType
    <2> QED
      BY <2>1, LopMapNone, ConcatEmptySeq
  <1>2. ASSUME NEW u \in G, NEW e \in S PROVE Append(u, e) \in G
    <2>1. u \in Seq(S) /\ LopMap(f, s \o u) = LopMap(f, s) \o LopMap(f, u)
      BY <1>2
    <2>2. s \o Append(u, e) = Append(s \o u, e)
      <3>1. Append(u, e) = u \o <<e>> /\ <<e>> \in Seq(S) /\ s \o u \in Seq(S)
        BY <2>1, AppendIsConcat, ConcatProperties
      <3>2. Append(s \o u, e) = (s \o u) \o <<e>>
        BY <3>1, AppendIsConcat
      <3> QED
        BY <2>1, <3>1, <3>2, ConcatAssociative
    <2>3. s \o u \in Seq(S) /\ Append(u, e) \in Seq(S)
      BY <2>1, ConcatProperties, AppendProperties
    <2>4. LopMap(f, Append(s \o u, e)) = LopMap(f, s \o u) \o f[e]
      BY <1>0, <2>3, LopMapAppend
    <2>5. LopMap(f, Append(u, e)) = LopMap(f, u) \o f[e]
      BY <1>0, <2>1, LopMapAppend
    <2>6. LopMap(f, s) \in Seq(T) /\ LopMap(f, u) \in Seq(T) /\ f[e] \in Seq(T)
      BY <1>0, <2>1, LopMapType
    <2>7. (LopMap(f, s) \o LopMap(f, u)) \o f[e] = LopMap(f, s) \o (LopMap(f, u) \o f[e])
      <3>1. PICK a, b, c : a = LopMap(f, s) /\ b = LopMap(f, u) /\ c = f[e]
        OBVIOUS
      <3>2. a \in Seq(T) /\ b \in Seq(T) /\ c \in Seq(T)
        BY <2>6, <3>1
      <3>3. (a \o b) \o c = a \o (b \o c)
        BY <3>2, ConcatAssociative
      <3> QED
        BY <3>1, <3>3
    <2> QED
      BY <2>1, <2>2, <2>3, <2>4, <2>5, <2>7
  <1>3. G \in SUBSET Seq(S)
    OBVIOUS
  <1>4. t \in G
    <2> HIDE DEF G
    <2> QED
      BY <1>1, <1>2, <1>3, AppendInduction
  <1> QED
    BY <1>4

LopAddOne == [c \in LopBytes |-> IF c = "n" THEN <<"r", "n">> ELSE <<c>>]
LopStripOne == [c \in LopBytes |-> IF c = "r" THEN <<>> ELSE <<c>>]

LEMMA LopOnesTypes ==
    LopAddOne \in [LopBytes -> Seq(LopBytes)] /\ LopStripOne \in [LopBytes -> Seq(LopBytes)]
  <1>1. <<"r", "n">> \in Seq(LopBytes) /\ <<>> \in Seq(LopBytes) /\ \A c \in LopBytes : <<c>> \in Seq(LopBytes)
    BY DEF LopBytes
  <1> QED
    BY <1>1 DEF LopAddOne, LopStripOne

LEMMA LopOnesType ==
    ASSUME NEW s \in Seq(LopBytes)
    PROVE  LopMap(LopAddOne, s) \in Seq(LopBytes) /\ LopMap(LopStripOne, s) \in Seq(LopBytes)
  <1>1. PICK B, f, g : B = LopBytes /\ f = LopAddOne /\ g = LopStripOne
    OBVIOUS
  <1>2. f \in [B -> Seq(B)] /\ g \in [B -> Seq(B)] /\ s \in Seq(B)
    BY <1>1, LopOnesTypes
  <1>3. LopMap(f, s) \in Seq(B) /\ LopMap(g, s) \in Seq(B)
    BY ONLY <1>2, LopMapType
  <1> QED
    BY <1>1, <1>3

LEMMA LopAddIs ==
    ASSUME NEW s \in Seq(LopBytes)
    PROVE  FlattenSeq([i \in DOMAIN s |-> IF s[i] = "n" THEN <<"r", "n">> ELSE <<s[i]>>])
           = LopMap(LopAddOne, s)
  <1>1. \A i \in DOMAIN s : s[i] \in LopBytes
    OBVIOUS
  <1>2. [i \in DOMAIN s |-> IF s[i] = "n" THEN <<"r", "n">> ELSE <<s[i]>>]
        = [i \in DOMAIN s |-> LopAddOne[s[i]]]
    BY <1>1 DEF LopAddOne
  <1> QED
    BY <1>2 DEF LopMap

LEMMA LopNoReturnsIs ==
    ASSUME NEW s \in Seq(LopBytes)
    PROVE  LopNoReturns(s) = LopMap(LopStripOne, s) /\ LopNoReturns(s) \in Seq(LopBytes)
  <1>1. \A i \in DOMAIN s : s[i] \in LopBytes
    OBVIOUS
  <1>2. [i \in DOMAIN s |-> IF s[i] = "r" THEN <<>> ELSE <<s[i]>>]
        = [i \in DOMAIN s |-> LopStripOne[s[i]]]
    BY <1>1 DEF LopStripOne
  <1>3. LopNoReturns(s) = LopMap(LopStripOne, s)
    BY <1>2 DEF LopMap, LopNoReturns
  <1> QED
    BY <1>3, LopOnesType

LEMMA LopMapOne ==
    ASSUME NEW S, NEW T, NEW f \in [S -> Seq(T)], NEW e \in S
    PROVE  LopMap(f, <<e>>) = f[e]
  <1>1. Append(<<>>, e) = <<e>> /\ <<>> \in Seq(S) /\ f[e] \in Seq(T)
    OBVIOUS
  <1>2. LopMap(f, Append(<<>>, e)) = LopMap(f, <<>>) \o f[e]
    BY <1>1, LopMapAppend
  <1> QED
    BY <1>1, <1>2, LopMapNone, ConcatEmptySeq

\* Stripping what was added, and all returns, is stripping all returns.
LEMMA LopStripAdded ==
    ASSUME NEW s \in Seq(LopBytes)
    PROVE  LopMap(LopStripOne, LopMap(LopAddOne, s)) = LopMap(LopStripOne, s)
  <1> DEFINE G == {u \in Seq(LopBytes) :
                     LopMap(LopStripOne, LopMap(LopAddOne, u)) = LopMap(LopStripOne, u)}
  <1>1. <<>> \in G
    BY LopMapNone, EmptySeq
  <1>2. ASSUME NEW e \in LopBytes PROVE LopMap(LopStripOne, LopAddOne[e]) = LopStripOne[e]
    <2>1. CASE e = "n"
      <3>1. LopAddOne[e] = Append(<<"r">>, "n") /\ LopStripOne["r"] = <<>> /\ LopStripOne["n"] = <<"n">>
        BY <2>1 DEF LopAddOne, LopStripOne, LopBytes
      <3>2. "r" \in LopBytes /\ "n" \in LopBytes /\ <<"r">> \in Seq(LopBytes)
        BY DEF LopBytes
      <3>3. LopMap(LopStripOne, <<"r">>) = LopStripOne["r"]
        BY <3>2, LopMapOne, LopOnesTypes
      <3>4. LopMap(LopStripOne, Append(<<"r">>, "n")) = LopMap(LopStripOne, <<"r">>) \o LopStripOne["n"]
        BY <3>2, LopMapAppend, LopOnesTypes
      <3>5. <<>> \o <<"n">> = <<"n">>
        OBVIOUS
      <3> QED
        BY <2>1, <3>1, <3>3, <3>4, <3>5
    <2>2. CASE e # "n"
      <3>1. LopAddOne[e] = <<e>>
        BY <2>2 DEF LopAddOne
      <3> QED
        BY <3>1, LopMapOne, LopOnesTypes
    <2> QED
      BY <2>1, <2>2
  <1>3. ASSUME NEW u \in G, NEW e \in LopBytes PROVE Append(u, e) \in G
    <2>1. u \in Seq(LopBytes) /\ LopMap(LopStripOne, LopMap(LopAddOne, u)) = LopMap(LopStripOne, u)
      BY <1>3
    <2>2. LopMap(LopAddOne, u) \in Seq(LopBytes) /\ LopAddOne[e] \in Seq(LopBytes)
      BY <2>1, LopOnesType, LopOnesTypes
    <2>3. LopMap(LopAddOne, Append(u, e)) = LopMap(LopAddOne, u) \o LopAddOne[e]
      BY <2>1, LopMapAppend, LopOnesTypes
    <2>4. LopMap(LopStripOne, LopMap(LopAddOne, u) \o LopAddOne[e])
          = LopMap(LopStripOne, LopMap(LopAddOne, u)) \o LopMap(LopStripOne, LopAddOne[e])
      <3>1. PICK B, f, v, x : B = LopBytes /\ f = LopStripOne /\ v = LopMap(LopAddOne, u) /\ x = LopAddOne[e]
        OBVIOUS
      <3>2. LopFits(f, B, B) /\ v \in Seq(B) /\ x \in Seq(B)
        BY <2>2, <3>1, LopOnesTypes DEF LopFits
      <3>3. LopMap(f, v \o x) = LopMap(f, v) \o LopMap(f, x)
        BY ONLY <3>2, LopMapJoin
      <3> QED
        BY <3>1, <3>3
    <2>5. LopMap(LopStripOne, Append(u, e)) = LopMap(LopStripOne, u) \o LopStripOne[e]
      BY <2>1, LopMapAppend, LopOnesTypes
    <2>6. Append(u, e) \in Seq(LopBytes)
      BY <2>1, AppendProperties
    <2> QED
      BY <1>2, <2>1, <2>3, <2>4, <2>5, <2>6
  <1>4. G \in SUBSET Seq(LopBytes)
    OBVIOUS
  <1>5. s \in G
    <2> HIDE DEF G
    <2> QED
      BY <1>1, <1>3, <1>4, AppendInduction
  <1> QED
    BY <1>5

\* Each newline of w follows a return.
LopFollows(w) == \A i \in DOMAIN w : w[i] = "n" => i > 1 /\ w[i - 1] = "r"

LEMMA LopFollowsJoin ==
    ASSUME NEW w \in Seq(LopBytes), LopFollows(w), NEW x \in Seq(LopBytes), LopFollows(x)
    PROVE  LopFollows(w \o x)
  <1>1. PICK v, m, n : v = w \o x /\ m = Len(w) /\ n = Len(x)
    OBVIOUS
  <1>2. /\ v \in Seq(LopBytes) /\ Len(v) = m + n /\ m \in Nat /\ n \in Nat
        /\ \A i \in 1 .. m + n : v[i] = IF i <= m THEN w[i] ELSE x[i - m]
    BY <1>1, ConcatProperties
  <1>3. DOMAIN w = 1 .. m /\ DOMAIN x = 1 .. n /\ DOMAIN v = 1 .. m + n
    BY <1>1, <1>2
  <1>4. ASSUME NEW i \in 1 .. m + n, v[i] = "n" PROVE i > 1 /\ v[i - 1] = "r"
    <2>1. CASE i <= m
      <3>1. i \in 1 .. m /\ w[i] = "n"
        BY <1>2, <1>4, <2>1
      <3>2. i > 1 /\ w[i - 1] = "r"
        BY <1>3, <3>1 DEF LopFollows
      <3>3. i - 1 \in 1 .. m + n /\ i - 1 <= m
        BY <1>2, <2>1, <3>2
      <3> QED
        BY <1>2, <3>2, <3>3
    <2>2. CASE ~(i <= m)
      <3>1. i - m \in 1 .. n /\ x[i - m] = "n"
        BY <1>2, <1>4, <2>2
      <3>2. i - m > 1 /\ x[i - m - 1] = "r"
        BY <1>3, <3>1 DEF LopFollows
      <3>3. i - 1 \in 1 .. m + n /\ ~(i - 1 <= m) /\ (i - 1) - m = i - m - 1 /\ i > 1
        BY <1>2, <2>2, <3>2
      <3>4. v[i - 1] = x[(i - 1) - m]
        BY <1>2, <3>3
      <3> QED
        BY <3>2, <3>3, <3>4
    <2> QED
      BY <2>1, <2>2
  <1> QED
    BY <1>1, <1>3, <1>4 DEF LopFollows

LEMMA LopAddedFollows ==
    ASSUME NEW s \in Seq(LopBytes)
    PROVE  LopFollows(LopMap(LopAddOne, s))
  <1> DEFINE G == {u \in Seq(LopBytes) : LopFollows(LopMap(LopAddOne, u))}
  <1>1. <<>> \in G
    <2>1. LopFollows(<<>>)
      BY DEF LopFollows
    <2> QED
      BY <2>1, LopMapNone, EmptySeq
  <1>2. ASSUME NEW e \in LopBytes PROVE LopFollows(LopAddOne[e])
    <2>1. CASE e = "n"
      <3>1. LopAddOne[e] = <<"r", "n">>
        BY <2>1 DEF LopAddOne
      <3>2. DOMAIN <<"r", "n">> = 1 .. 2 /\ <<"r", "n">>[1] = "r" /\ <<"r", "n">>[2] = "n"
        OBVIOUS
      <3>3. \A i \in 1 .. 2 : i = 1 \/ i = 2
        OBVIOUS
      <3> QED
        BY <3>1, <3>2, <3>3 DEF LopFollows
    <2>2. CASE e # "n"
      <3>1. LopAddOne[e] = <<e>>
        BY <2>2 DEF LopAddOne
      <3>2. DOMAIN <<e>> = 1 .. 1 /\ <<e>>[1] = e
        OBVIOUS
      <3> QED
        BY <2>2, <3>1, <3>2 DEF LopFollows
    <2> QED
      BY <2>1, <2>2
  <1>3. ASSUME NEW u \in G, NEW e \in LopBytes PROVE Append(u, e) \in G
    <2>1. u \in Seq(LopBytes) /\ LopFollows(LopMap(LopAddOne, u))
      BY <1>3
    <2>2. LopMap(LopAddOne, u) \in Seq(LopBytes) /\ LopAddOne[e] \in Seq(LopBytes)
      BY <2>1, LopOnesType, LopOnesTypes
    <2>3. LopMap(LopAddOne, Append(u, e)) = LopMap(LopAddOne, u) \o LopAddOne[e]
      BY <2>1, LopMapAppend, LopOnesTypes
    <2>4. LopFollows(LopMap(LopAddOne, u) \o LopAddOne[e])
      BY <1>2, <2>1, <2>2, LopFollowsJoin
    <2>5. Append(u, e) \in Seq(LopBytes)
      BY <2>1, AppendProperties
    <2> QED
      BY <2>3, <2>4, <2>5
  <1>4. G \in SUBSET Seq(LopBytes)
    OBVIOUS
  <1>5. s \in G
    <2> HIDE DEF G
    <2> QED
      BY <1>1, <1>3, <1>4, AppendInduction
  <1> QED
    BY <1>5

LEMMA LopStripShortens ==
    ASSUME NEW s \in Seq(LopBytes)
    PROVE  Len(LopMap(LopStripOne, s)) <= Len(s)
  <1> DEFINE G == {u \in Seq(LopBytes) : Len(LopMap(LopStripOne, u)) <= Len(u)}
  <1>1. <<>> \in G
    <2>1. Len(<<>>) <= Len(<<>>)
      OBVIOUS
    <2> QED
      BY <2>1, LopMapNone, EmptySeq
  <1>2. ASSUME NEW e \in LopBytes PROVE Len(LopStripOne[e]) <= 1 /\ LopStripOne[e] \in Seq(LopBytes)
    <2>1. Len(<<>>) = 0 /\ Len(<<e>>) = 1
      OBVIOUS
    <2>2. LopStripOne[e] = <<>> \/ LopStripOne[e] = <<e>>
      BY DEF LopStripOne
    <2> QED
      <3>1. LopStripOne[e] \in Seq(LopBytes)
        BY LopOnesTypes
      <3>2. CASE LopStripOne[e] = <<>>
        BY ONLY <2>1, <3>1, <3>2
      <3>3. CASE LopStripOne[e] = <<e>>
        BY ONLY <2>1, <3>1, <3>3
      <3> QED
        BY <2>2, <3>2, <3>3
  <1>3. ASSUME NEW u \in G, NEW e \in LopBytes PROVE Append(u, e) \in G
    <2>1. u \in Seq(LopBytes) /\ Len(LopMap(LopStripOne, u)) <= Len(u)
      BY <1>3
    <2>2. PICK a, b : a = LopMap(LopStripOne, u) /\ b = LopStripOne[e]
      OBVIOUS
    <2>3. a \in Seq(LopBytes) /\ b \in Seq(LopBytes) /\ Len(b) <= 1 /\ Len(a) <= Len(u)
      BY <1>2, <2>1, <2>2, LopMapType, LopOnesTypes
    <2>4. Len(a \o b) = Len(a) + Len(b) /\ Len(a) \in Nat /\ Len(b) \in Nat
      BY <2>3, ConcatProperties
    <2>5. LopMap(LopStripOne, Append(u, e)) = a \o b
      BY <2>1, <2>2, LopMapAppend, LopOnesTypes
    <2>6. Append(u, e) \in Seq(LopBytes) /\ Len(Append(u, e)) = Len(u) + 1 /\ Len(u) \in Nat
      BY <2>1, AppendProperties
    <2>7. Len(LopMap(LopStripOne, Append(u, e))) <= Len(Append(u, e))
      <3>1. PICK x, y, z : x = Len(a) /\ y = Len(b) /\ z = Len(u)
        OBVIOUS
      <3>2. x + y <= z + 1
        BY <2>3, <2>4, <2>6, <3>1
      <3> QED
        BY <2>4, <2>5, <2>6, <3>1, <3>2
    <2> QED
      BY <2>6, <2>7
  <1>4. G \in SUBSET Seq(LopBytes)
    OBVIOUS
  <1>5. s \in G
    <2> HIDE DEF G
    <2> QED
      BY <1>1, <1>3, <1>4, AppendInduction
  <1> QED
    BY <1>5

\* crlf_add() and crlf_strip() are inverse but for returns, for any text.
LEMMA LopCrlfHolds == LopCrlfInverse
  <1> SUFFICES ASSUME NEW s \in LopStdin, NEW w, w = crlf_add(LopWritelen, s), w # LopQuits
               PROVE  /\ Len(w) <= LopWritelen /\ LopFollows(w)
                      /\ crlf_strip(LopWritelen + 1, w) = LopNoReturns(s)
    BY DEF LopCrlfInverse, LopFollows
  <1>1. s \in Seq(LopBytes) /\ LopWritelen \in Nat
    BY LopTextsAssumption, LopSizesAssumption
  <1>2. w = LopMap(LopAddOne, s) /\ ~(Len(s) > LopWritelen) /\ ~(Len(w) > Len(s) /\ Len(w) >= LopWritelen)
    BY <1>1, LopAddIs DEF crlf_add
  <1>3. w \in Seq(LopBytes)
    BY <1>1, <1>2, LopOnesType
  <1>4. Len(w) \in Nat /\ Len(s) \in Nat
    BY <1>1, <1>3
  <1>5. Len(w) <= LopWritelen
    BY <1>1, <1>2, <1>4
  <1>6. LopNoReturns(w) = LopMap(LopStripOne, w) /\ LopNoReturns(s) = LopMap(LopStripOne, s)
        /\ LopNoReturns(w) \in Seq(LopBytes)
    BY <1>1, <1>3, LopNoReturnsIs
  <1>7. LopNoReturns(w) = LopNoReturns(s)
    BY <1>1, <1>2, <1>6, LopStripAdded
  <1>8. Len(LopNoReturns(w)) <= Len(w) /\ Len(LopNoReturns(w)) \in Nat
    BY <1>3, <1>6, LopStripShortens
  <1>9. ~(Len(LopNoReturns(w)) >= LopWritelen + 1)
    BY <1>1, <1>4, <1>5, <1>8
  <1> QED
    BY <1>1, <1>2, <1>5, <1>7, <1>9, LopAddedFollows DEF crlf_strip

LEMMA LopSplit ==
    ASSUME NEW C, NEW s \in Seq(C), NEW n \in Nat
    PROVE  /\ LopFirst(n, s) \in Seq(C) /\ LopAfter(n, s) \in Seq(C)
           /\ LopFirst(n, s) \o LopAfter(n, s) = s
           /\ n # 0 /\ s # <<>> => LopFirst(n, s) # <<>>
  <1>1. PICK m : m = Len(s)
    OBVIOUS
  <1>2. m \in Nat /\ \A i \in 1 .. m : s[i] \in C
    BY <1>1, LenProperties, ElementOfSeq
  <1>3. CASE n < m
    <2>1. LopFirst(n, s) = SubSeq(s, 1, n) /\ LopAfter(n, s) = SubSeq(s, n + 1, m)
      BY <1>1, <1>3 DEF LopFirst, LopAfter
    <2>2. SubSeq(s, 1, n) \in Seq(C) /\ Len(SubSeq(s, 1, n)) = IF 1 <= n THEN n - 1 + 1 ELSE 0
      <3>1. 1 \in Int /\ n \in Int /\ \A i \in 1 .. n : s[i] \in C
        BY <1>2, <1>3
      <3> QED
        BY ONLY <3>1, SubSeqProperties
    <2>3. SubSeq(s, n + 1, m) \in Seq(C)
      <3>1. n + 1 \in Int /\ m \in Int /\ \A i \in n + 1 .. m : s[i] \in C
        BY <1>2, <1>3
      <3> QED
        BY ONLY <3>1, SubSeqProperties
    <2>4. SubSeq(s, 1, n) \o SubSeq(s, n + 1, m) = SubSeq(s, 1, m)
      <3>1. 1 \in 1 .. m + 1 /\ n \in 1 - 1 .. m /\ m \in n .. m
        BY <1>2, <1>3
      <3> QED
        BY ONLY <1>1, <3>1, s \in Seq(C), ConcatAdjacentSubSeq
    <2>5. SubSeq(s, 1, m) = s
      BY <1>1, SubSeqFull
    <2>6. n # 0 => SubSeq(s, 1, n) # <<>>
      <3>1. n # 0 => Len(SubSeq(s, 1, n)) # 0
        BY <2>2
      <3>2. Len(<<>>) = 0
        OBVIOUS
      <3> QED
        BY <3>1, <3>2
    <2> QED
      BY <2>1, <2>2, <2>3, <2>4, <2>5, <2>6
  <1>4. CASE ~(n < m)
    <2>1. LopFirst(n, s) = SubSeq(s, 1, m)
      BY <1>1, <1>4 DEF LopFirst
    <2>2. SubSeq(s, 1, m) = s
      BY <1>1, SubSeqFull
    <2>3. LopAfter(n, s) = <<>>
      <3>1. n + 1 \in Int /\ m \in Int /\ m < n + 1
        BY <1>2, <1>4
      <3>2. SubSeq(s, n + 1, m) = <<>>
        BY ONLY <3>1, SubSeqEmpty
      <3> QED
        BY <1>1, <3>2 DEF LopAfter
    <2>4. s \o <<>> = s /\ <<>> \in Seq(C)
      BY ConcatEmptySeq, EmptySeq
    <2> QED
      BY <2>1, <2>2, <2>3, <2>4
  <1> QED
    BY <1>3, <1>4

\* What the next read takes only grows when more comes.
LopGrows(C, s, t, n) == \E w \in Seq(C) : LopFirst(n, s \o t) = LopFirst(n, s) \o w

LEMMA LopFirstGrows ==
    ASSUME NEW C, NEW s \in Seq(C), NEW t \in Seq(C), NEW n \in Nat
    PROVE  LopGrows(C, s, t, n)
  <1>1. PICK m, u, k : m = Len(s) /\ u = s \o t /\ k = Len(t)
    OBVIOUS
  <1>2. u \in Seq(C) /\ Len(u) = m + k /\ m \in Nat /\ k \in Nat
    BY <1>1, ConcatProperties
  <1>3. PICK a, b : a = (IF n < m THEN n ELSE m) /\ b = IF n < m + k THEN n ELSE m + k
    OBVIOUS
  <1>4. a \in Nat /\ b \in Nat /\ a <= b /\ a <= m /\ b <= m + k
    BY <1>2, <1>3
  <1>5. LopFirst(n, s) = SubSeq(s, 1, a) /\ LopFirst(n, u) = SubSeq(u, 1, b)
    BY <1>1, <1>2, <1>3 DEF LopFirst
  <1>6. SubSeq(u, 1, a) = SubSeq(s, 1, a)
    <2>1. CASE a = 0
      <3>1. 1 \in Int /\ a \in Int /\ a < 1
        BY <2>1
      <3>2. SubSeq(u, 1, a) = <<>> /\ SubSeq(s, 1, a) = <<>>
        BY ONLY <3>1, SubSeqEmpty
      <3> QED
        BY <3>2
    <2>2. CASE a # 0
      <3>1. 1 \in 1 .. Len(s) /\ a \in 1 .. Len(s)
        BY <1>1, <1>2, <1>4, <2>2
      <3>2. SubSeq(s \o t, 1, a) = SubSeq(s, 1, a)
        BY ONLY <3>1, s \in Seq(C), t \in Seq(C), SubSeqOfConcat1
      <3> QED
        BY <1>1, <3>2
    <2> QED
      BY <2>1, <2>2
  <1>7. SubSeq(u, 1, a) \o SubSeq(u, a + 1, b) = SubSeq(u, 1, b)
    <2>1. 1 \in 1 .. Len(u) + 1 /\ a \in 1 - 1 .. Len(u) /\ b \in a .. Len(u)
      BY <1>2, <1>4
    <2> QED
      BY ONLY <1>2, <2>1, ConcatAdjacentSubSeq
  <1>8. SubSeq(u, a + 1, b) \in Seq(C)
    <2>1. a + 1 \in Int /\ b \in Int /\ \A i \in a + 1 .. b : u[i] \in C
      BY <1>2, <1>4, ElementOfSeq
    <2> QED
      BY ONLY <2>1, SubSeqProperties
  <1> QED
    BY <1>1, <1>5, <1>6, <1>7, <1>8 DEF LopGrows

LEMMA LopIsPrefix ==
    ASSUME NEW C, NEW s \in Seq(C), NEW w \in Seq(C)
    PROVE  IsPrefix(s, s \o w)
  <1>1. PICK m, u, k : m = Len(s) /\ u = s \o w /\ k = Len(w)
    OBVIOUS
  <1>2. u \in Seq(C) /\ Len(u) = m + k /\ m \in Nat /\ k \in Nat
    BY <1>1, ConcatProperties
  <1>3. SubSeq(u, 1, m) = SubSeq(s, 1, m)
    <2>1. CASE m = 0
      <3>1. 1 \in Int /\ m \in Int /\ m < 1
        BY <2>1
      <3>2. SubSeq(u, 1, m) = <<>> /\ SubSeq(s, 1, m) = <<>>
        BY ONLY <3>1, SubSeqEmpty
      <3> QED
        BY <3>2
    <2>2. CASE m # 0
      <3>1. 1 \in 1 .. Len(s) /\ m \in 1 .. Len(s)
        BY <1>1, <1>2, <2>2
      <3>2. SubSeq(s \o w, 1, m) = SubSeq(s, 1, m)
        BY ONLY <3>1, s \in Seq(C), w \in Seq(C), SubSeqOfConcat1
      <3> QED
        BY <1>1, <3>2
    <2> QED
      BY <2>1, <2>2
  <1>4. m <= m + k
    BY <1>2
  <1> QED
    BY <1>1, <1>2, <1>3, <1>4 DEF IsPrefix

\* dowrite(): a product, step by step.
LEMMA LopTimes == ASSUME NEW i \in Nat, NEW c \in Nat PROVE i * c \in Nat /\ (i + 1) * c = i * c + c
  OBVIOUS

LEMMA LopChunkEnough ==
    ASSUME NEW n \in Nat \ {0}
    PROVE  LopChunk(n) \in Nat \ {0} /\ LopMaxIov * LopChunk(n) >= n
  <1>1. PICK M, q, r : M = LopMaxIov /\ q = n \div M /\ r = n % M
    OBVIOUS
  <1>2. M \in Nat \ {0}
    BY <1>1, LopSizesAssumption
  <1>3. q \in Nat /\ r \in Nat /\ r < M /\ n = M * q + r
    BY <1>1, <1>2
  <1>4. LopChunk(n) = IF q <= 0 THEN 1 ELSE q + (IF r # 0 THEN 1 ELSE 0)
    BY <1>1 DEF LopChunk
  <1>5. CASE q <= 0
    <2>1. LopChunk(n) = 1 /\ M * 1 = M /\ M * 0 = 0 /\ q = 0
      BY <1>2, <1>3, <1>4, <1>5
    <2> QED
      BY <1>1, <1>2, <1>3, <2>1
  <1>6. CASE ~(q <= 0) /\ r = 0
    <2>1. LopChunk(n) = q /\ M * q = n
      BY <1>2, <1>3, <1>4, <1>6
    <2> QED
      BY <1>1, <1>3, <1>6, <2>1
  <1>7. CASE ~(q <= 0) /\ r # 0
    <2>1. LopChunk(n) = q + 1
      BY <1>4, <1>7
    <2>2. M * (q + 1) = M * q + M
      BY <1>2, <1>3
    <2>3. M * q \in Nat
      BY <1>2, <1>3
    <2> QED
      BY <1>1, <1>2, <1>3, <2>1, <2>2, <2>3
  <1> QED
    BY <1>5, <1>6, <1>7

LEMMA LopCovers ==
    ASSUME NEW n \in Nat \ {0}, NEW iov, iov = dowrite(n)
    PROVE  \E k \in DOMAIN iov :
              /\ DOMAIN iov = 1 .. k
              /\ iov[1].base = 0 /\ iov[k].base + iov[k].len = n
              /\ \A i \in 1 .. k - 1 : iov[i + 1].base = iov[i].base + iov[i].len
  <1>1. PICK M, c : M = LopMaxIov /\ c = LopChunk(n)
    OBVIOUS
  <1>2. M \in Nat \ {0} /\ c \in Nat \ {0} /\ M * c >= n
    BY <1>1, LopSizesAssumption, LopChunkEnough
  <1>3. PICK at : at = [i \in Nat |-> i * c]
    OBVIOUS
  <1>4. \A i \in Nat : at[i] \in Nat /\ at[i + 1] = at[i] + c
    BY <1>2, <1>3, LopTimes
  <1>5. at[0] = 0 /\ at[M] >= n
    BY <1>2, <1>3
  <1>6. DOMAIN iov = {i \in 1 .. M : n - at[i - 1] > 0}
    BY <1>1, <1>2, <1>3 DEF dowrite
  <1>7. \A i \in DOMAIN iov : /\ iov[i].base = at[i - 1]
                              /\ iov[i].len = IF n - at[i - 1] >= c THEN c ELSE n - at[i - 1]
    BY <1>1, <1>2, <1>3 DEF dowrite
  <1> DEFINE done == {i \in 1 .. M : at[i] >= n}
  <1>8. PICK k \in done : \A i \in done : k <= i
    <2>1. done \subseteq Nat /\ done # {}
      BY <1>2, <1>5
    <2> HIDE DEF done
    <2> QED
      BY ONLY <2>1, LeastElement
  <1>9. k \in 1 .. M /\ at[k] >= n
    BY <1>8
  <1>10. \A i \in 1 .. M : i < k => at[i] < n
    <2> SUFFICES ASSUME NEW i \in 1 .. M, i < k PROVE at[i] < n
      OBVIOUS
    <2>1. i \notin done
      <3>1. ~(k <= i)
        BY <1>9
      <3> HIDE DEF done
      <3> QED
        BY <1>8, <3>1
    <2>2. at[i] \in Nat
      BY <1>4
    <2> QED
      BY <2>1, <2>2
  <1>11. \A i \in 1 .. k : n - at[i - 1] > 0
    <2> SUFFICES ASSUME NEW i \in 1 .. k PROVE n - at[i - 1] > 0
      OBVIOUS
    <2>1. CASE i = 1
      BY <1>5, <2>1
    <2>2. CASE i # 1
      <3>1. i - 1 \in 1 .. M /\ i - 1 < k /\ i - 1 \in Nat
        BY <1>2, <1>9, <2>2
      <3>2. at[i - 1] < n /\ at[i - 1] \in Nat
        BY <1>4, <1>10, <3>1
      <3> QED
        BY <3>2
    <2> QED
      BY <2>1, <2>2
  <1>12. \A i, j \in Nat : i <= j => at[i] <= at[j]
    <2> SUFFICES ASSUME NEW i \in Nat, NEW j \in Nat, i <= j PROVE at[i] <= at[j]
      OBVIOUS
    <2>1. at[j] = at[i] + (j - i) * c /\ (j - i) * c \in Nat
      BY <1>2, <1>3
    <2> QED
      BY <1>4, <2>1
  <1>13. \A i \in 1 .. M : i > k => ~(n - at[i - 1] > 0)
    <2> SUFFICES ASSUME NEW i \in 1 .. M, i > k PROVE ~(n - at[i - 1] > 0)
      OBVIOUS
    <2>1. k \in Nat /\ i - 1 \in Nat /\ k <= i - 1
      BY <1>9
    <2>2. at[k] <= at[i - 1] /\ at[k] \in Nat /\ at[i - 1] \in Nat
      BY <1>4, <1>12, <2>1
    <2> QED
      BY <1>9, <2>2
  <1>14. DOMAIN iov = 1 .. k /\ k \in DOMAIN iov /\ 1 \in DOMAIN iov
    <2>1. \A i : i \in 1 .. k <=> i \in 1 .. M /\ ~(i > k)
      BY <1>2, <1>9
    <2>2. DOMAIN iov = 1 .. k
      BY <1>6, <1>11, <1>13, <2>1
    <2> QED
      BY <1>9, <2>2
  <1>15. iov[1].base = 0
    BY <1>5, <1>7, <1>14
  <1>16. iov[k].base + iov[k].len = n
    <2>1. k - 1 \in Nat /\ (k - 1) + 1 = k
      BY <1>9
    <2>2. at[k] = at[k - 1] + c /\ at[k - 1] \in Nat
      BY <1>4, <2>1
    <2>3. iov[k].base = at[k - 1] /\ iov[k].len = IF n - at[k - 1] >= c THEN c ELSE n - at[k - 1]
      BY <1>7, <1>14
    <2> QED
      BY <1>2, <1>9, <2>2, <2>3
  <1>17. ASSUME NEW i \in 1 .. k - 1 PROVE iov[i + 1].base = iov[i].base + iov[i].len
    <2>1. i \in 1 .. k /\ i + 1 \in 1 .. k /\ i - 1 \in Nat /\ (i - 1) + 1 = i /\ (i + 1) - 1 = i
          /\ i \in Nat
      BY <1>9
    <2>2. iov[i + 1].base = at[i]
      BY <1>7, <1>14, <2>1
    <2>3. iov[i].base = at[i - 1] /\ iov[i].len = IF n - at[i - 1] >= c THEN c ELSE n - at[i - 1]
      BY <1>7, <1>14, <2>1
    <2>4. at[i] = at[i - 1] + c /\ at[i - 1] \in Nat
      BY <1>4, <2>1
    <2>5. n - at[i] > 0
      <3>1. n - at[(i + 1) - 1] > 0
        BY <1>11, <2>1
      <3> QED
        BY <2>1, <3>1
    <2> QED
      BY <1>2, <2>2, <2>3, <2>4, <2>5
  <1> QED
    BY <1>14, <1>15, <1>16, <1>17

LEMMA LopChunksHold == LopChunksCover
  <1> SUFFICES ASSUME NEW n \in 1 .. 4 * LopMaxIov + 1
               PROVE  LET iov == dowrite(n)
                      IN  \E k \in DOMAIN iov :
                            /\ DOMAIN iov = 1 .. k
                            /\ iov[1].base = 0 /\ iov[k].base + iov[k].len = n
                            /\ \A i \in 1 .. k - 1 : iov[i + 1].base = iov[i].base + iov[i].len
    BY DEF LopChunksCover
  <1>1. n \in Nat \ {0}
    OBVIOUS
  <1>2. PICK iov : iov = dowrite(n)
    OBVIOUS
  <1> QED
    BY <1>1, <1>2, LopCovers

LopShow(crlf, s) == IF crlf THEN LopNoReturns(s) ELSE s

LEMMA LopShowType ==
    ASSUME NEW crlf, NEW s \in Seq(LopBytes)
    PROVE  LopShow(crlf, s) \in Seq(LopBytes)
  BY LopNoReturnsIs DEF LopShow

LEMMA LopShowNone == ASSUME NEW crlf PROVE LopShow(crlf, <<>>) = <<>>
  <1>1. <<>> \in Seq(LopBytes)
    OBVIOUS
  <1> QED
    BY <1>1, LopNoReturnsIs, LopMapNone DEF LopShow

LEMMA LopShowJoin ==
    ASSUME NEW crlf, NEW s \in Seq(LopBytes), NEW t \in Seq(LopBytes)
    PROVE  LopShow(crlf, s \o t) = LopShow(crlf, s) \o LopShow(crlf, t)
  <1>1. PICK B, f, u : B = LopBytes /\ f = LopStripOne /\ u = s \o t
    OBVIOUS
  <1>2. LopFits(f, B, B) /\ s \in Seq(B) /\ t \in Seq(B)
    BY <1>1, LopOnesTypes DEF LopFits
  <1>3. LopMap(f, s \o t) = LopMap(f, s) \o LopMap(f, t)
    BY ONLY <1>2, LopMapJoin
  <1>4. u \in Seq(LopBytes)
    BY <1>1, ConcatProperties
  <1>5. /\ LopNoReturns(u) = LopMap(f, u) /\ LopNoReturns(s) = LopMap(f, s)
        /\ LopNoReturns(t) = LopMap(f, t)
    BY <1>1, <1>4, LopNoReturnsIs
  <1> QED
    BY <1>1, <1>3, <1>5 DEF LopShow

\* The pieces of standard output, and the one function of them.
LopPieces == BOOLEAN \X Seq(LopBytes)
LopRealOne == [p \in LopPieces |-> IF p[1] THEN <<>> ELSE p[2]]
LopReadOf(o) == FlattenSeq([i \in DOMAIN o |-> IF o[i][1] THEN <<>> ELSE o[i][2]])

LEMMA LopRealFits == LopRealOne \in [LopPieces -> Seq(LopBytes)]
  <1>1. <<>> \in Seq(LopBytes) /\ \A p \in LopPieces : p[2] \in Seq(LopBytes)
    BY DEF LopPieces
  <1> QED
    BY <1>1 DEF LopRealOne

LEMMA LopReadIs ==
    ASSUME NEW o \in Seq(LopPieces)
    PROVE  LopReadOf(o) = LopMap(LopRealOne, o) /\ LopReadOf(o) \in Seq(LopBytes)
  <1>1. \A i \in DOMAIN o : o[i] \in LopPieces
    OBVIOUS
  <1>2. [i \in DOMAIN o |-> IF o[i][1] THEN <<>> ELSE o[i][2]] = [i \in DOMAIN o |-> LopRealOne[o[i]]]
    BY <1>1 DEF LopRealOne
  <1>3. LopReadOf(o) = LopMap(LopRealOne, o)
    BY <1>2 DEF LopMap, LopReadOf
  <1>4. PICK S, B, f : S = LopPieces /\ B = LopBytes /\ f = LopRealOne
    OBVIOUS
  <1>5. f \in [S -> Seq(B)] /\ o \in Seq(S)
    BY <1>4, LopRealFits
  <1>6. LopMap(f, o) \in Seq(B)
    BY ONLY <1>5, LopMapType
  <1> QED
    BY <1>3, <1>4, <1>6

LEMMA LopReadAppend ==
    ASSUME NEW o \in Seq(LopPieces), NEW peek \in BOOLEAN, NEW x \in Seq(LopBytes)
    PROVE  /\ Append(o, <<peek, x>>) \in Seq(LopPieces)
           /\ LopReadOf(Append(o, <<peek, x>>)) = IF peek THEN LopReadOf(o) ELSE LopReadOf(o) \o x
  <1>1. PICK e, u : e = <<peek, x>> /\ u = Append(o, e)
    OBVIOUS
  <1>2. e \in LopPieces /\ e[1] = peek /\ e[2] = x
    BY <1>1 DEF LopPieces
  <1>3. u \in Seq(LopPieces)
    BY <1>1, <1>2, AppendProperties
  <1>4. LopMap(LopRealOne, u) = LopMap(LopRealOne, o) \o LopRealOne[e]
    <2>1. PICK S, B, f : S = LopPieces /\ B = LopBytes /\ f = LopRealOne
      OBVIOUS
    <2>2. f \in [S -> Seq(B)] /\ o \in Seq(S) /\ e \in S
      BY <1>2, <2>1, LopRealFits
    <2>3. LopMap(f, Append(o, e)) = LopMap(f, o) \o f[e]
      BY ONLY <2>2, LopMapAppend
    <2> QED
      BY <1>1, <2>1, <2>3
  <1>5. LopRealOne[e] = IF peek THEN <<>> ELSE x
    BY <1>2 DEF LopRealOne
  <1>6. LopReadOf(u) = LopMap(LopRealOne, u) /\ LopReadOf(o) = LopMap(LopRealOne, o)
        /\ LopReadOf(o) \in Seq(LopBytes)
    BY <1>3, LopReadIs
  <1>7. LopReadOf(o) \o <<>> = LopReadOf(o)
    BY <1>6, ConcatEmptySeq
  <1>8. LopReadOf(u) = IF peek THEN LopReadOf(o) ELSE LopReadOf(o) \o x
    BY <1>4, <1>5, <1>6, <1>7
  <1> QED
    BY <1>1, <1>3, <1>8

LopText(s) == s \in Seq(LopBytes)
LopCat(s, t) == s \o t

LEMMA LopCatText ==
    ASSUME NEW x, NEW y, LopText(x), LopText(y)
    PROVE  LopText(LopCat(x, y))
  BY ConcatProperties DEF LopCat, LopText

LEMMA LopCatJoins ==
    ASSUME NEW x, NEW y, NEW z, LopText(x), LopText(y), LopText(z)
    PROVE  LopCat(LopCat(x, y), z) = LopCat(x, LopCat(y, z))
  BY ConcatAssociative DEF LopCat, LopText

LEMMA LopTextGrows ==
    ASSUME NEW s, NEW t, LopText(s), LopText(t), NEW n, n \in Nat
    PROVE  \E v : LopText(v) /\ LopFirst(n, LopCat(s, t)) = LopCat(LopFirst(n, s), v)
  <1>1. s \in Seq(LopBytes) /\ t \in Seq(LopBytes)
    BY DEF LopText
  <1>2. \E v \in Seq(LopBytes) : LopFirst(n, s \o t) = LopFirst(n, s) \o v
    <2>1. PICK B : B = LopBytes
      OBVIOUS
    <2>2. s \in Seq(B) /\ t \in Seq(B)
      BY <1>1, <2>1
    <2>3. LopGrows(B, s, t, n)
      BY ONLY <2>2, n \in Nat, LopFirstGrows
    <2> QED
      BY <2>1, <2>3 DEF LopGrows
  <1> QED
    BY <1>2 DEF LopCat, LopText

\* What has been read, what has come, and what is still to come are together
\* what the peer sends.
LopWholeOf(crlf, out, in, peer) ==
    \E s \in LopPeer :
        LopReadOf(out) \o (LopShow(crlf, in) \o LopShow(crlf, peer)) = LopShow(crlf, s)

LEMMA LopWholeMoves ==
    ASSUME NEW crlf, NEW out \in Seq(LopPieces), NEW in \in Seq(LopBytes),
           NEW a \in Seq(LopBytes), NEW b \in Seq(LopBytes)
    PROVE  LopWholeOf(crlf, out, in, a \o b) => LopWholeOf(crlf, out, in \o a, b)
  <1>1. PICK x, y, z : x = LopShow(crlf, in) /\ y = LopShow(crlf, a) /\ z = LopShow(crlf, b)
    OBVIOUS
  <1>2. LopText(x) /\ LopText(y) /\ LopText(z)
    BY <1>1, LopShowType DEF LopText
  <1>3. LopShow(crlf, a \o b) = LopCat(y, z) /\ LopShow(crlf, in \o a) = LopCat(x, y)
    BY <1>1, LopShowJoin DEF LopCat
  <1>4. LopCat(LopCat(x, y), z) = LopCat(x, LopCat(y, z))
    BY ONLY <1>2, LopCatJoins
  <1>5. PICK r : r = LopReadOf(out)
    OBVIOUS
  <1>6. /\ LopWholeOf(crlf, out, in, a \o b)
           <=> \E s \in LopPeer : r \o LopCat(x, LopCat(y, z)) = LopShow(crlf, s)
        /\ LopWholeOf(crlf, out, in \o a, b)
           <=> \E s \in LopPeer : r \o LopCat(LopCat(x, y), z) = LopShow(crlf, s)
    <2>1. /\ LopCat(x, LopCat(y, z)) = LopShow(crlf, in) \o LopShow(crlf, a \o b)
          /\ LopCat(LopCat(x, y), z) = LopShow(crlf, in \o a) \o LopShow(crlf, b)
      BY <1>1, <1>3 DEF LopCat
    <2> QED
      BY <1>5, <2>1 DEF LopWholeOf
  <1> QED
    BY <1>4, <1>6

LEMMA LopWholeRead ==
    ASSUME NEW crlf, NEW out \in Seq(LopPieces), NEW got \in Seq(LopBytes),
           NEW rest \in Seq(LopBytes), NEW peer \in Seq(LopBytes)
    PROVE  LopWholeOf(crlf, out, got \o rest, peer)
           => LopWholeOf(crlf, Append(out, <<FALSE, LopShow(crlf, got)>>), rest, peer)
  <1>1. PICK r, x, y, z : /\ r = LopReadOf(out) /\ x = LopShow(crlf, got)
                          /\ y = LopShow(crlf, rest) /\ z = LopShow(crlf, peer)
    OBVIOUS
  <1>2. LopText(x) /\ LopText(y) /\ LopText(z) /\ LopText(r)
    BY <1>1, LopShowType, LopReadIs DEF LopText
  <1>3. LopShow(crlf, got \o rest) = LopCat(x, y)
    BY <1>1, LopShowJoin DEF LopCat
  <1>4. LopReadOf(Append(out, <<FALSE, x>>)) = LopCat(r, x)
    BY <1>1, <1>2, LopReadAppend DEF LopCat, LopText
  <1>5. LopCat(LopCat(r, x), LopCat(y, z)) = LopCat(r, LopCat(LopCat(x, y), z))
    <2>1. LopCat(LopCat(x, y), z) = LopCat(x, LopCat(y, z))
      BY ONLY <1>2, LopCatJoins
    <2>2. LopText(LopCat(y, z))
      BY ONLY <1>2, LopCatText
    <2>3. LopCat(LopCat(r, x), LopCat(y, z)) = LopCat(r, LopCat(x, LopCat(y, z)))
      BY ONLY <1>2, <2>2, LopCatJoins
    <2> QED
      BY ONLY <2>1, <2>3
  <1>6. /\ LopWholeOf(crlf, out, got \o rest, peer)
           <=> \E s \in LopPeer : LopCat(r, LopCat(LopCat(x, y), z)) = LopShow(crlf, s)
        /\ LopWholeOf(crlf, Append(out, <<FALSE, x>>), rest, peer)
           <=> \E s \in LopPeer : LopCat(LopCat(r, x), LopCat(y, z)) = LopShow(crlf, s)
    <2>1. /\ LopCat(r, LopCat(LopCat(x, y), z))
             = LopReadOf(out) \o (LopShow(crlf, got \o rest) \o LopShow(crlf, peer))
          /\ LopCat(LopCat(r, x), LopCat(y, z))
             = LopReadOf(Append(out, <<FALSE, x>>)) \o (LopShow(crlf, rest) \o LopShow(crlf, peer))
      BY <1>1, <1>3, <1>4 DEF LopCat
    <2> QED
      BY <2>1 DEF LopWholeOf
  <1> QED
    BY <1>1, <1>5, <1>6

LopNextRead == LopFirst(LopReadlen, IF lopCmd.udp THEN lopIn[1] ELSE lopIn)

LopTypes ==
    /\ lopPc \in {"main", "select", "once", "exit", "closed"}
    /\ lopCmd \in [udp : BOOLEAN, server : BOOLEAN, connectudp : BOOLEAN,
                   halfclose : BOOLEAN, peek : BOOLEAN, crlf : BOOLEAN]
    /\ lopPeer \in Seq(LopBytes) /\ lopOut \in Seq(LopPieces)
    /\ lopClosed \in BOOLEAN /\ lopStdineof \in BOOLEAN
    /\ IF lopCmd.udp THEN lopIn \in Seq(Seq(LopBytes)) /\ ~lopClosed ELSE lopIn \in Seq(LopBytes)
    /\ lopPc = "main" => lopPeer = <<>> /\ lopIn = <<>> /\ lopOut = <<>> /\ ~lopClosed

LopWhole ==
    ~lopCmd.udp => /\ lopPc \notin {"main", "exit"} => LopWholeOf(lopCmd.crlf, lopOut, lopIn, lopPeer)
                   /\ lopClosed => lopPeer = <<>>
                   /\ lopPc = "closed" /\ lopCmd.halfclose => lopClosed /\ lopIn = <<>>

\* Between a look and the read, the piece looked at begins what will be read.
LopLooked ==
    /\ LopPeekThenRead
    /\ lopPc = "select" => \A i \in DOMAIN lopOut : i = Len(lopOut) => ~lopOut[i][1]
    /\ lopPc = "once" =>
          /\ lopIn # <<>> /\ lopOut # <<>>
          /\ \E x, w \in Seq(LopBytes) : /\ lopOut[Len(lopOut)][2] = LopShow(lopCmd.crlf, x)
                                         /\ LopNextRead = x \o w

LopEnded ==
    lopPc = "closed" /\ lopCmd.udp /\ ~lopStdineof =>
        lopCmd.connectudp /\ ~lopCmd.server /\ lopIn # <<>> /\ lopIn[1] = <<>>

LopInv == LopTypes /\ LopWhole /\ LopLooked /\ LopEnded

LEMMA LopInitInv == LopInit => LopInv
  <1> SUFFICES ASSUME LopInit PROVE LopInv
    OBVIOUS
  <1>1. <<>> \in Seq(LopBytes) /\ <<>> \in Seq(LopPieces) /\ DOMAIN <<>> = {}
    OBVIOUS
  <1>2. lopCmd = LopNone /\ ~lopCmd.udp
    BY DEF LopInit, LopNone
  <1>3. LopTypes
    BY <1>1 DEF LopInit, LopNone, LopTypes
  <1>4. LopWhole
    BY DEF LopInit, LopWhole
  <1>5. LopLooked
    BY <1>1 DEF LopInit, LopLooked, LopPeekThenRead
  <1>6. LopEnded
    BY <1>2 DEF LopEnded
  <1> QED
    BY <1>3, <1>4, <1>5, <1>6 DEF LopInv

LEMMA LopCmdTypes ==
    ASSUME LopTypes
    PROVE  /\ lopCmd.udp \in BOOLEAN /\ lopCmd.server \in BOOLEAN /\ lopCmd.connectudp \in BOOLEAN
           /\ lopCmd.halfclose \in BOOLEAN /\ lopCmd.peek \in BOOLEAN /\ lopCmd.crlf \in BOOLEAN
  BY DEF LopTypes

LEMMA LopMainStep == ASSUME LopInv, LopMain PROVE LopInv'
  <1>1. /\ lopPc = "main" /\ lopPc' = "select" /\ lopCmd' \in LopCommands /\ lopPeer' \in LopPeer
        /\ lopStdineof' = lopStdineof /\ lopIn' = lopIn /\ lopClosed' = lopClosed /\ lopOut' = lopOut
    BY DEF LopMain
  <1>2. lopIn = <<>> /\ lopOut = <<>> /\ ~lopClosed /\ lopClosed \in BOOLEAN /\ lopStdineof \in BOOLEAN
    BY <1>1 DEF LopInv, LopTypes
  <1>3. /\ lopCmd' \in [udp : BOOLEAN, server : BOOLEAN, connectudp : BOOLEAN,
                        halfclose : BOOLEAN, peek : BOOLEAN, crlf : BOOLEAN]
        /\ lopPeer' \in Seq(LopBytes)
    BY <1>1, LopCommandsAssumption, LopTextsAssumption
  <1>4. <<>> \in Seq(LopBytes) /\ <<>> \in Seq(Seq(LopBytes)) /\ <<>> \in Seq(LopPieces) /\ DOMAIN <<>> = {}
    OBVIOUS
  <1>5. LopTypes'
    <2>1. lopPc' \in {"main", "select", "once", "exit", "closed"} /\ lopPc' # "main"
      BY <1>1
    <2> QED
      BY <1>1, <1>2, <1>3, <1>4, <2>1 DEF LopTypes
  <1>6. LopWhole'
    <2>1. PICK c, p : c = lopCmd'.crlf /\ p = lopPeer'
      OBVIOUS
    <2>2. LopShow(c, p) \in Seq(LopBytes)
      BY <1>3, <2>1, LopShowType
    <2>3. LopReadOf(<<>>) = <<>>
      BY <1>4, LopReadIs, LopMapNone
    <2>4. <<>> \o (<<>> \o LopShow(c, p)) = LopShow(c, p)
      BY <2>2, ConcatEmptySeq
    <2>5. LopWholeOf(c, <<>>, <<>>, p)
      BY <1>1, <2>1, <2>3, <2>4, LopShowNone DEF LopWholeOf
    <2> QED
      BY <1>1, <1>2, <2>1, <2>5 DEF LopWhole
  <1>7. LopLooked'
    BY <1>1, <1>2, <1>4 DEF LopLooked, LopPeekThenRead
  <1>8. LopEnded'
    BY <1>1 DEF LopEnded
  <1> QED
    BY <1>5, <1>6, <1>7, <1>8 DEF LopInv

LEMMA LopPeerSendsStep == ASSUME LopInv, LopPeerSends PROVE LopInv'
  <1>1. /\ lopPeer # <<>> /\ lopPc' = lopPc /\ lopCmd' = lopCmd /\ lopStdineof' = lopStdineof
        /\ lopClosed' = lopClosed /\ lopOut' = lopOut
    BY DEF LopPeerSends
  <1>2. PICK n \in Nat : /\ lopPeer' = LopAfter(n, lopPeer)
                         /\ lopIn' = IF lopCmd.udp THEN Append(lopIn, LopFirst(n, lopPeer))
                                     ELSE lopIn \o LopFirst(n, lopPeer)
    <2>1. CASE lopCmd.udp
      <3>1. PICK n \in 0 .. Len(lopPeer) : /\ lopIn' = Append(lopIn, LopFirst(n, lopPeer))
                                           /\ lopPeer' = LopAfter(n, lopPeer)
        BY <2>1 DEF LopPeerSends
      <3>2. n \in Nat
        OBVIOUS
      <3> QED
        BY <2>1, <3>1, <3>2
    <2>2. CASE ~lopCmd.udp
      <3>1. PICK n \in 1 .. Len(lopPeer) : /\ lopIn' = lopIn \o LopFirst(n, lopPeer)
                                           /\ lopPeer' = LopAfter(n, lopPeer)
        BY <2>2 DEF LopPeerSends
      <3>2. n \in Nat
        OBVIOUS
      <3> QED
        BY <2>2, <3>1, <3>2
    <2> QED
      BY <2>1, <2>2
  <1>3. PICK a, b, p : a = LopFirst(n, lopPeer) /\ b = LopAfter(n, lopPeer) /\ p = lopPeer
    OBVIOUS
  <1>4. a \in Seq(LopBytes) /\ b \in Seq(LopBytes) /\ a \o b = p
    <2>1. p \in Seq(LopBytes)
      BY <1>3 DEF LopInv, LopTypes
    <2>2. PICK B : B = LopBytes
      OBVIOUS
    <2>3. p \in Seq(B) /\ n \in Nat
      BY <2>1, <2>2
    <2>4. LopFirst(n, p) \in Seq(B) /\ LopAfter(n, p) \in Seq(B) /\ LopFirst(n, p) \o LopAfter(n, p) = p
      BY ONLY <2>3, LopSplit
    <2> QED
      BY <1>3, <2>2, <2>4
  <1>5. /\ lopPc # "main" /\ lopOut \in Seq(LopPieces)
        /\ lopPc \in {"select", "once", "exit", "closed"}
        /\ lopCmd \in [udp : BOOLEAN, server : BOOLEAN, connectudp : BOOLEAN,
                       halfclose : BOOLEAN, peek : BOOLEAN, crlf : BOOLEAN]
        /\ lopClosed \in BOOLEAN /\ lopStdineof \in BOOLEAN
    BY <1>1 DEF LopInv, LopTypes
  <1>6. CASE lopCmd.udp
    <2>1. lopIn \in Seq(Seq(LopBytes)) /\ ~lopClosed
      BY <1>6 DEF LopInv, LopTypes
    <2>2. lopIn' = Append(lopIn, a)
      BY <1>2, <1>3, <1>6
    <2>3. /\ lopIn' \in Seq(Seq(LopBytes))
          /\ lopIn # <<>> => lopIn' # <<>> /\ lopIn'[1] = lopIn[1]
      <3>1. PICK C, s : C = Seq(LopBytes) /\ s = lopIn
        OBVIOUS
      <3>2. s \in Seq(C) /\ a \in C
        BY <1>4, <2>1, <3>1
      <3>3. /\ Append(s, a) \in Seq(C) /\ Append(s, a) # <<>>
            /\ \A i \in 1 .. Len(s) : Append(s, a)[i] = s[i]
        BY ONLY <3>2, AppendProperties
      <3>4. s # <<>> => 1 \in 1 .. Len(s)
        BY <3>2, EmptySeq
      <3> QED
        BY <2>2, <3>1, <3>3, <3>4
    <2>4. LopTypes'
      BY <1>1, <1>2, <1>3, <1>4, <1>5, <1>6, <2>1, <2>3 DEF LopTypes
    <2>5. LopWhole'
      BY <1>1, <1>6 DEF LopWhole
    <2>6. LopLooked'
      <3>1. lopPc = "once" => LopNextRead' = LopNextRead
        BY <1>1, <1>6, <2>3 DEF LopInv, LopLooked, LopNextRead
      <3> QED
        BY <1>1, <2>3, <3>1 DEF LopInv, LopLooked, LopPeekThenRead
    <2>7. LopEnded'
      BY <1>1, <2>3 DEF LopInv, LopEnded
    <2> QED
      BY <2>4, <2>5, <2>6, <2>7 DEF LopInv
  <1>7. CASE ~lopCmd.udp
    <2>1. lopIn \in Seq(LopBytes)
      BY <1>7 DEF LopInv, LopTypes
    <2>2. PICK s, t : s = lopIn /\ t = lopIn'
      OBVIOUS
    <2>3. t = s \o a
      BY <1>2, <1>3, <1>7, <2>2
    <2>4. t \in Seq(LopBytes) /\ (s # <<>> => t # <<>>)
      <3>1. PICK B : B = LopBytes
        OBVIOUS
      <3>2. s \in Seq(B) /\ a \in Seq(B)
        BY <1>4, <2>1, <2>2, <3>1
      <3>3. s \o a \in Seq(B) /\ (s \o a = <<>> <=> s = <<>> /\ a = <<>>)
        BY ONLY <3>2, ConcatProperties, ConcatEqualIffEmpty
      <3> QED
        BY <2>3, <3>1, <3>3
    <2>5. LopTypes'
      BY <1>1, <1>2, <1>3, <1>4, <1>5, <1>7, <2>2, <2>4 DEF LopTypes
    <2>6. lopClosed = FALSE
      BY <1>1, <1>5, <1>7 DEF LopInv, LopWhole
    <2>7. LopWhole'
      <3>1. lopPc # "exit" => LopWholeOf(lopCmd.crlf, lopOut, s, a \o b)
        BY <1>3, <1>4, <1>5, <1>7, <2>2 DEF LopInv, LopWhole
      <3>2. lopPc # "exit" => LopWholeOf(lopCmd.crlf, lopOut, t, b)
        <4>1. PICK c, o : c = lopCmd.crlf /\ o = lopOut
          OBVIOUS
        <4>2. o \in Seq(LopPieces) /\ s \in Seq(LopBytes) /\ a \in Seq(LopBytes) /\ b \in Seq(LopBytes)
          BY <1>4, <1>5, <2>1, <2>2, <4>1
        <4>3. LopWholeOf(c, o, s, a \o b) => LopWholeOf(c, o, s \o a, b)
          BY ONLY <4>2, LopWholeMoves
        <4> QED
          BY <2>3, <3>1, <4>1, <4>3
      <3>3. ~(lopPc = "closed" /\ lopCmd.halfclose)
        BY <1>7, <2>6 DEF LopInv, LopWhole
      <3> QED
        BY <1>1, <1>2, <1>3, <2>2, <2>6, <3>2, <3>3 DEF LopWhole
    <2>8. LopLooked'
      <3>1. ASSUME lopPc = "once"
            PROVE  \E x, w \in Seq(LopBytes) : /\ lopOut'[Len(lopOut')][2] = LopShow(lopCmd'.crlf, x)
                                               /\ LopNextRead' = x \o w
        <4>1. PICK x \in Seq(LopBytes), w \in Seq(LopBytes) :
                 /\ lopOut[Len(lopOut)][2] = LopShow(lopCmd.crlf, x) /\ LopNextRead = x \o w
          BY <3>1 DEF LopInv, LopLooked
        <4>2. LopNextRead = LopFirst(LopReadlen, s) /\ LopNextRead' = LopFirst(LopReadlen, s \o a)
          BY <1>1, <1>7, <2>2, <2>3 DEF LopNextRead
        <4>3. PICK v \in Seq(LopBytes) : LopFirst(LopReadlen, s \o a) = LopFirst(LopReadlen, s) \o v
          <5>1. PICK r : r = LopReadlen
            OBVIOUS
          <5>2. LopText(s) /\ LopText(a) /\ r \in Nat
            BY <1>4, <2>1, <2>2, <5>1, LopSizesAssumption DEF LopText
          <5>3. \E v : LopText(v) /\ LopFirst(r, LopCat(s, a)) = LopCat(LopFirst(r, s), v)
            BY ONLY <5>2, LopTextGrows
          <5> QED
            BY <5>1, <5>3 DEF LopCat, LopText
        <4>4. LopCat(LopCat(x, w), v) = LopCat(x, LopCat(w, v)) /\ LopText(LopCat(w, v))
          <5>1. LopText(x) /\ LopText(w) /\ LopText(v)
            BY DEF LopText
          <5> QED
            BY ONLY <5>1, LopCatJoins, LopCatText
        <4>5. LopNextRead' = LopCat(LopCat(x, w), v)
          BY <4>1, <4>2, <4>3 DEF LopCat
        <4>6. LopNextRead' = x \o LopCat(w, v) /\ LopCat(w, v) \in Seq(LopBytes)
          BY <4>4, <4>5 DEF LopCat, LopText
        <4> QED
          BY <1>1, <4>1, <4>6
      <3>2. lopPc = "once" => lopIn' # <<>>
        BY <2>2, <2>4 DEF LopInv, LopLooked
      <3>3. LopPeekThenRead'
        BY <1>1 DEF LopInv, LopLooked, LopPeekThenRead
      <3> QED
        BY <1>1, <3>1, <3>2, <3>3 DEF LopInv, LopLooked
    <2>9. LopEnded'
      BY <1>1, <1>7 DEF LopEnded
    <2> QED
      BY <2>5, <2>7, <2>8, <2>9 DEF LopInv
  <1> QED
    BY <1>6, <1>7

LEMMA LopPeerClosesStep == ASSUME LopInv, LopPeerCloses PROVE LopInv'
  <1>1. /\ lopPc # "main" /\ lopPeer = <<>> /\ ~lopCmd.udp /\ lopClosed' = TRUE
        /\ UNCHANGED <<lopPc, lopCmd, lopStdineof, lopPeer, lopIn, lopOut>>
    BY DEF LopPeerCloses
  <1>2. LopTypes'
    BY <1>1 DEF LopInv, LopTypes
  <1>3. LopWhole'
    BY <1>1 DEF LopInv, LopWhole
  <1>4. LopLooked'
    BY <1>1 DEF LopInv, LopLooked, LopPeekThenRead, LopNextRead
  <1>5. LopEnded'
    BY <1>1 DEF LopEnded
  <1> QED
    BY <1>2, <1>3, <1>4, <1>5 DEF LopInv

LEMMA LopStdinStep == ASSUME LopInv, LopStdinReady PROVE LopInv'
  <1>1. lopPc = "select" /\ UNCHANGED <<lopCmd, lopPeer, lopIn, lopClosed, lopOut>>
    BY DEF LopStdinReady
  <1>2. \/ lopPc' = "select" /\ lopStdineof' \in BOOLEAN
        \/ lopPc' = "exit" /\ lopStdineof' \in BOOLEAN
        \/ lopPc' = "closed" /\ lopStdineof' = TRUE /\ ~lopCmd.halfclose
    BY DEF LopInv, LopTypes, LopStdinReady, LopOnEof
  <1>3. LopTypes'
    BY <1>1, <1>2 DEF LopInv, LopTypes
  <1>4. LopWhole'
    BY <1>1, <1>2 DEF LopInv, LopWhole
  <1>5. LopLooked'
    BY <1>1, <1>2 DEF LopInv, LopLooked, LopPeekThenRead
  <1>6. LopEnded'
    BY <1>1, <1>2 DEF LopEnded
  <1> QED
    BY <1>3, <1>4, <1>5, <1>6 DEF LopInv

\* What LopPut() does with the bytes of a read.
LEMMA LopPutIs ==
    ASSUME NEW peek \in BOOLEAN, NEW bytes, LopPut(peek, bytes)
    PROVE  \/ lopPc' = "exit" /\ lopOut' = lopOut
           \/ /\ lopOut' = Append(lopOut, <<peek, LopShow(lopCmd.crlf, bytes)>>)
              /\ lopPc' = IF peek THEN "once" ELSE "select"
  <1> DEFINE text == IF lopCmd.crlf THEN crlf_strip(LopWritelen, bytes) ELSE bytes
  <1>1. IF text = LopQuits THEN lopPc' = "exit" /\ lopOut' = lopOut
        ELSE /\ lopOut' = Append(lopOut, <<peek, text>>)
             /\ lopPc' = IF peek THEN "once" ELSE "select"
    BY DEF LopPut
  <1>2. CASE text = LopQuits
    BY <1>1, <1>2
  <1>3. CASE text # LopQuits
    <2>1. text = LopShow(lopCmd.crlf, bytes)
      BY <1>3 DEF crlf_strip, LopShow
    <2> HIDE DEF text
    <2> QED
      BY <1>1, <1>3, <2>1
  <1> QED
    BY <1>2, <1>3

\* A look, or a read that follows no look or its own: standard output stays in order.
LEMMA LopShownInOrder ==
    ASSUME LopInv, NEW peek \in BOOLEAN, NEW got \in Seq(LopBytes),
           lopPc = "once" => ~peek /\ got = LopNextRead,
           lopPc \in {"select", "once"},
           lopOut' = Append(lopOut, <<peek, LopShow(lopCmd.crlf, got)>>)
    PROVE  /\ LopPeekThenRead'
           /\ Len(lopOut') = Len(lopOut) + 1 /\ Len(lopOut) \in Nat /\ lopOut' # <<>>
           /\ DOMAIN lopOut' = 1 .. Len(lopOut) + 1
           /\ lopOut'[Len(lopOut) + 1] = <<peek, LopShow(lopCmd.crlf, got)>>
  <1>1. PICK o, e, n, c : o = lopOut /\ e = <<peek, LopShow(lopCmd.crlf, got)>> /\ n = Len(o) /\ c = lopCmd.crlf
    OBVIOUS
  <1>2. PICK P, u : P = LopPieces /\ u = lopOut'
    OBVIOUS
  <1>3. LopShow(c, got) \in Seq(LopBytes)
    BY LopShowType
  <1>4. o \in Seq(P) /\ e \in P /\ e[1] = peek /\ e[2] = LopShow(c, got)
    BY <1>1, <1>2, <1>3 DEF LopInv, LopTypes, LopPieces
  <1>5. u = Append(o, e)
    BY <1>1, <1>2
  <1>6. /\ u \in Seq(P) /\ u # <<>> /\ Len(u) = Len(o) + 1
        /\ \A i \in 1 .. Len(o) : u[i] = o[i]
        /\ u[Len(o) + 1] = e
    BY ONLY <1>4, <1>5, AppendProperties
  <1>7. n \in Nat /\ DOMAIN o = 1 .. n /\ DOMAIN u = 1 .. n + 1
    BY <1>1, <1>4, <1>6, LenProperties
  <1>8. /\ \A i \in DOMAIN o : o[i][1] /\ i < n => ~o[i + 1][1] /\ IsPrefix(o[i][2], o[i + 1][2])
        /\ lopPc = "select" => \A i \in DOMAIN o : i = n => ~o[i][1]
        /\ lopPc = "once" => \E x, w \in Seq(LopBytes) : o[n][2] = LopShow(c, x) /\ LopNextRead = x \o w
    BY <1>1 DEF LopInv, LopLooked, LopPeekThenRead
  <1>9. ASSUME NEW i \in 1 .. n + 1, u[i][1], i < n + 1
        PROVE  ~u[i + 1][1] /\ IsPrefix(u[i][2], u[i + 1][2])
    <2>1. i \in 1 .. n /\ u[i] = o[i] /\ i + 1 \in 1 .. n + 1
      BY <1>1, <1>6, <1>7, <1>9
    <2>2. CASE i < n
      <3>1. i + 1 \in 1 .. n /\ u[i + 1] = o[i + 1]
        BY <1>1, <1>6, <1>7, <2>1, <2>2
      <3> QED
        BY <1>7, <1>8, <1>9, <2>1, <2>2, <3>1
    <2>3. CASE i = n
      <3>1. u[i + 1] = e
        BY <1>1, <1>6, <2>3
      <3>2. lopPc = "once"
        BY <1>7, <1>8, <1>9, <2>1, <2>3
      <3>3. PICK x \in Seq(LopBytes), w \in Seq(LopBytes) : o[n][2] = LopShow(c, x) /\ LopNextRead = x \o w
        BY <1>8, <3>2
      <3>4. got = x \o w /\ ~peek
        BY <3>2, <3>3
      <3>5. PICK y, z : y = LopShow(c, x) /\ z = LopShow(c, w)
        OBVIOUS
      <3>6. LopShow(c, got) = y \o z
        BY <3>4, <3>5, LopShowJoin
      <3>7. IsPrefix(y, y \o z)
        <4>1. PICK B : B = LopBytes
          OBVIOUS
        <4>2. y \in Seq(B) /\ z \in Seq(B)
          BY <3>5, <4>1, LopShowType
        <4> QED
          BY ONLY <4>2, LopIsPrefix
      <3>8. u[i][2] = y
        BY <2>1, <2>3, <3>3, <3>5
      <3>9. u[i + 1][2] = y \o z
        BY <1>4, <3>1, <3>6
      <3>10. ~u[i + 1][1]
        BY <1>4, <3>1, <3>4
      <3> QED
        BY <3>7, <3>8, <3>9, <3>10
    <2> QED
      BY <1>7, <2>1, <2>2, <2>3
  <1>10. LopPeekThenRead'
    BY <1>1, <1>2, <1>6, <1>7, <1>9 DEF LopPeekThenRead
  <1> QED
    BY <1>1, <1>2, <1>6, <1>7, <1>10

LEMMA LopSocketStep == ASSUME LopInv, LopSocketReady PROVE LopInv'
  <1> DEFINE udp == lopCmd.udp
             peek == LopPeeks /\ lopPc = "select"
             src == IF udp THEN lopIn[1] ELSE lopIn
             got == IF lopIn = <<>> THEN <<>> ELSE LopFirst(LopReadlen, src)
             rest == IF udp THEN Tail(lopIn) ELSE LopAfter(LopReadlen, lopIn)
  <1>1. /\ lopPc \in {"select", "once"} /\ (lopIn # <<>> \/ lopClosed)
        /\ UNCHANGED <<lopCmd, lopStdineof, lopPeer, lopClosed>>
        /\ IF got = <<>> /\ LopZeroIsEnd
           THEN lopPc' = "closed" /\ lopOut' = lopOut /\ lopIn' = lopIn
           ELSE LopPut(peek, got) /\ lopIn' = LopRest(peek, rest)
    BY DEF LopSocketReady
  <1>2. /\ udp \in BOOLEAN /\ peek \in BOOLEAN /\ lopCmd.server \in BOOLEAN
        /\ lopCmd.connectudp \in BOOLEAN /\ lopCmd.peek \in BOOLEAN
    BY LopCmdTypes DEF LopInv, LopPeeks
  <1>3. /\ udp => lopIn \in Seq(Seq(LopBytes)) /\ ~lopClosed
        /\ ~udp => lopIn \in Seq(LopBytes)
        /\ lopOut \in Seq(LopPieces) /\ lopPeer \in Seq(LopBytes)
    BY DEF LopInv, LopTypes
  <1>4. udp => lopIn # <<>> /\ lopIn[1] \in Seq(LopBytes)
    BY <1>1, <1>3
  <1>5. lopIn # <<>> => /\ src \in Seq(LopBytes) /\ got \in Seq(LopBytes)
                        /\ LopFirst(LopReadlen, src) \o LopAfter(LopReadlen, src) = src
                        /\ LopAfter(LopReadlen, src) \in Seq(LopBytes)
                        /\ (src # <<>> => got # <<>>)
    <2> SUFFICES ASSUME lopIn # <<>>
                 PROVE  /\ src \in Seq(LopBytes) /\ got \in Seq(LopBytes)
                        /\ LopFirst(LopReadlen, src) \o LopAfter(LopReadlen, src) = src
                        /\ LopAfter(LopReadlen, src) \in Seq(LopBytes)
                        /\ (src # <<>> => got # <<>>)
      OBVIOUS
    <2>1. PICK B, r, s : B = LopBytes /\ r = LopReadlen /\ s = src
      OBVIOUS
    <2>2. r \in Nat /\ r # 0 /\ s \in Seq(B)
      BY <1>3, <1>4, <2>1, LopSizesAssumption
    <2>3. /\ LopFirst(r, s) \in Seq(B) /\ LopAfter(r, s) \in Seq(B)
          /\ LopFirst(r, s) \o LopAfter(r, s) = s
          /\ r # 0 /\ s # <<>> => LopFirst(r, s) # <<>>
      BY ONLY <2>2, LopSplit
    <2>4. got = LopFirst(r, s)
      BY <2>1
    <2> HIDE DEF src, got
    <2> QED
      BY <2>1, <2>2, <2>3, <2>4
  <1>6. got \in Seq(LopBytes)
    <2>1. CASE lopIn = <<>>
      BY <2>1, EmptySeq
    <2>2. CASE lopIn # <<>>
      <3> HIDE DEF got, src
      <3> QED
        BY <1>5, <2>2
    <2> QED
      BY <2>1, <2>2
  <1>7. CASE got = <<>> /\ LopZeroIsEnd
    <2>1. lopPc' = "closed" /\ lopOut' = lopOut /\ lopIn' = lopIn
      BY <1>1, <1>7
    <2>2. LopTypes'
      BY <1>1, <2>1 DEF LopInv, LopTypes
    <2>3. LopWhole'
      <3>1. ~udp => lopIn = <<>> /\ lopClosed
        BY <1>1, <1>5, <1>7
      <3> QED
        BY <1>1, <2>1, <3>1 DEF LopInv, LopWhole
    <2>4. LopLooked'
      BY <1>1, <2>1 DEF LopInv, LopLooked, LopPeekThenRead
    <2>5. LopEnded'
      <3>1. udp => lopIn # <<>> /\ lopIn[1] = <<>>
        BY <1>4, <1>5, <1>7
      <3>2. udp => lopCmd.connectudp /\ ~lopCmd.server
        BY <1>7 DEF LopZeroIsEnd
      <3> QED
        BY <1>1, <2>1, <3>1, <3>2 DEF LopEnded
    <2> QED
      BY <2>2, <2>3, <2>4, <2>5 DEF LopInv
  <1>8. CASE ~(got = <<>> /\ LopZeroIsEnd)
    <2>1. LopPut(peek, got) /\ lopIn' = LopRest(peek, rest)
      BY <1>1, <1>8
    <2>2. \/ lopPc' = "exit" /\ lopOut' = lopOut
          \/ /\ lopOut' = Append(lopOut, <<peek, LopShow(lopCmd.crlf, got)>>)
             /\ lopPc' = IF peek THEN "once" ELSE "select"
      <3> HIDE DEF peek, got
      <3> QED
        BY <1>2, <2>1, LopPutIs
    <2>3. lopIn # <<>>
      BY <1>4, <1>8 DEF LopZeroIsEnd
    <2>4. got = LopNextRead
      BY <2>3 DEF LopNextRead
    <2>5. peek => got # <<>> /\ lopPc = "select"
      BY <1>8 DEF LopPeeks, LopZeroIsEnd
    <2>6. lopIn' = IF peek THEN lopIn ELSE rest
      BY <2>1 DEF LopRest
    <2>7. IF udp THEN lopIn' \in Seq(Seq(LopBytes)) ELSE lopIn' \in Seq(LopBytes)
      <3>1. CASE udp
        <4>1. Tail(lopIn) \in Seq(Seq(LopBytes))
          BY <1>3, <2>3, <3>1, HeadTailProperties
        <4> QED
          BY <1>3, <2>6, <3>1, <4>1
      <3>2. CASE ~udp
        <4>1. rest = LopAfter(LopReadlen, src)
          BY <3>2
        <4>2. rest \in Seq(LopBytes)
          <5> HIDE DEF rest, src, got
          <5> QED
            BY <1>5, <2>3, <4>1
        <4> QED
          BY <1>3, <2>6, <3>2, <4>2
      <3> QED
        BY <3>1, <3>2
    <2>8. CASE lopPc' = "exit" /\ lopOut' = lopOut
      <3>1. LopTypes'
        BY <1>1, <1>3, <2>7, <2>8 DEF LopInv, LopTypes
      <3>2. LopWhole'
        BY <1>1, <2>8 DEF LopInv, LopWhole
      <3>3. LopLooked'
        BY <1>1, <2>8 DEF LopInv, LopLooked, LopPeekThenRead
      <3>4. LopEnded'
        BY <2>8 DEF LopEnded
      <3> QED
        BY <3>1, <3>2, <3>3, <3>4 DEF LopInv
    <2>9. CASE /\ lopOut' = Append(lopOut, <<peek, LopShow(lopCmd.crlf, got)>>)
               /\ lopPc' = IF peek THEN "once" ELSE "select"
      <3>1. PICK k, g : k = peek /\ g = got
        OBVIOUS
      <3>2. /\ k \in BOOLEAN /\ g \in Seq(LopBytes) /\ (lopPc = "once" => ~k /\ g = LopNextRead)
            /\ lopOut' = Append(lopOut, <<k, LopShow(lopCmd.crlf, g)>>)
            /\ lopPc' = IF k THEN "once" ELSE "select"
        BY <1>2, <1>6, <2>4, <2>5, <2>9, <3>1
      <3>3. /\ LopPeekThenRead'
            /\ Len(lopOut') = Len(lopOut) + 1 /\ Len(lopOut) \in Nat /\ lopOut' # <<>>
            /\ DOMAIN lopOut' = 1 .. Len(lopOut) + 1
            /\ lopOut'[Len(lopOut) + 1] = <<k, LopShow(lopCmd.crlf, g)>>
        BY <1>1, <3>2, LopShownInOrder
      <3>4. lopOut' \in Seq(LopPieces)
        <4>1. LopShow(lopCmd.crlf, g) \in Seq(LopBytes)
          BY <3>2, LopShowType
        <4> QED
          BY <1>3, <3>2, <4>1, LopReadAppend
      <3>5. LopTypes'
        <4>1. lopPc' \in {"main", "select", "once", "exit", "closed"} /\ lopPc' # "main"
          BY <3>2
        <4> QED
          BY <1>1, <1>3, <2>7, <3>4, <4>1 DEF LopInv, LopTypes
      <3>6. LopWhole'
        <4>1. ASSUME ~udp PROVE LopWholeOf(lopCmd.crlf, lopOut', lopIn', lopPeer)
          <5>1. PICK c, o, i, p, a : /\ c = lopCmd.crlf /\ o = lopOut /\ i = lopIn /\ p = lopPeer
                                     /\ a = LopAfter(LopReadlen, lopIn)
            OBVIOUS
          <5>2. LopWholeOf(c, o, i, p)
            BY <1>1, <4>1, <5>1 DEF LopInv, LopWhole
          <5>3. /\ o \in Seq(LopPieces) /\ i \in Seq(LopBytes) /\ p \in Seq(LopBytes)
                /\ g \in Seq(LopBytes)
            BY <1>3, <3>2, <4>1, <5>1
          <5>4. a \in Seq(LopBytes) /\ g \o a = i
            <6>1. src = lopIn /\ got = LopFirst(LopReadlen, src)
              BY <2>3, <4>1
            <6> HIDE DEF src, got
            <6> QED
              BY <1>5, <2>3, <3>1, <5>1, <6>1
          <5>5. CASE k
            <6>1. lopOut' = Append(o, <<TRUE, LopShow(c, g)>>) /\ lopIn' = i
              BY <2>6, <3>1, <3>2, <5>1, <5>5
            <6>2. LopShow(c, g) \in Seq(LopBytes)
              BY <5>3, LopShowType
            <6>3. LopReadOf(Append(o, <<TRUE, LopShow(c, g)>>)) = LopReadOf(o)
              BY <5>3, <6>2, LopReadAppend
            <6> QED
              BY <5>1, <5>2, <6>1, <6>3 DEF LopWholeOf
          <5>6. CASE ~k
            <6>1. lopOut' = Append(o, <<FALSE, LopShow(c, g)>>) /\ lopIn' = a
              BY <2>6, <3>1, <3>2, <4>1, <5>1, <5>6
            <6>2. LopWholeOf(c, o, g \o a, p) => LopWholeOf(c, Append(o, <<FALSE, LopShow(c, g)>>), a, p)
              BY ONLY <5>3, <5>4, LopWholeRead
            <6> QED
              BY <5>1, <5>2, <5>4, <6>1, <6>2
          <5> QED
            BY <5>5, <5>6
        <4>2. lopPc' # "closed"
          BY <3>2
        <4> QED
          BY <1>1, <4>1, <4>2 DEF LopInv, LopWhole
      <3>7. LopLooked'
        <4>1. ASSUME lopPc' = "select" PROVE \A i \in DOMAIN lopOut' : i = Len(lopOut') => ~lopOut'[i][1]
          <5>1. ~k
            BY <3>2, <4>1
          <5> QED
            BY <3>3, <5>1
        <4>2. ASSUME lopPc' = "once"
              PROVE  /\ lopIn' # <<>> /\ lopOut' # <<>>
                     /\ \E x, w \in Seq(LopBytes) :
                           /\ lopOut'[Len(lopOut')][2] = LopShow(lopCmd'.crlf, x)
                           /\ LopNextRead' = x \o w
          <5>1. k /\ peek
            BY <3>1, <3>2, <4>2
          <5>2. lopIn' = lopIn
            BY <2>6, <5>1
          <5>3. LopNextRead' = g
            BY <1>1, <2>4, <3>1, <5>2 DEF LopNextRead
          <5>4. g \o <<>> = g /\ <<>> \in Seq(LopBytes)
            BY <3>2, ConcatEmptySeq, EmptySeq
          <5>5. lopOut'[Len(lopOut')][2] = LopShow(lopCmd'.crlf, g)
            BY <1>1, <3>3
          <5> QED
            BY <2>3, <3>2, <3>3, <5>2, <5>3, <5>4, <5>5
        <4> QED
          BY <3>3, <4>1, <4>2 DEF LopLooked
      <3>8. LopEnded'
        BY <3>2 DEF LopEnded
      <3> QED
        BY <3>5, <3>6, <3>7, <3>8 DEF LopInv
    <2> QED
      BY <2>2, <2>8, <2>9
  <1> QED
    BY <1>7, <1>8

LEMMA LopStepInv == LopInv /\ [LopNext]_lopVars => LopInv'
  <1> SUFFICES ASSUME LopInv, [LopNext]_lopVars PROVE LopInv'
    OBVIOUS
  <1>1. CASE LopMain
    BY <1>1, LopMainStep
  <1>2. CASE LopPeerSends
    BY <1>2, LopPeerSendsStep
  <1>3. CASE LopPeerCloses
    BY <1>3, LopPeerClosesStep
  <1>4. CASE LopStdinReady
    BY <1>4, LopStdinStep
  <1>5. CASE LopSocketReady
    BY <1>5, LopSocketStep
  <1>6. CASE UNCHANGED lopVars
    <2>1. /\ lopPc' = lopPc /\ lopCmd' = lopCmd /\ lopStdin' = lopStdin /\ lopStdineof' = lopStdineof
          /\ lopSent' = lopSent /\ lopPeer' = lopPeer /\ lopIn' = lopIn /\ lopClosed' = lopClosed
          /\ lopOut' = lopOut
      BY <1>6 DEF lopVars
    <2>2. LopTypes'
      BY <2>1 DEF LopInv, LopTypes
    <2>3. LopWhole'
      BY <2>1 DEF LopInv, LopWhole
    <2>4. LopLooked'
      BY <2>1 DEF LopInv, LopLooked, LopPeekThenRead, LopNextRead
    <2>5. LopEnded'
      BY <2>1 DEF LopInv, LopEnded
    <2> QED
      BY <2>2, <2>3, <2>4, <2>5 DEF LopInv
  <1> QED
    BY <1>1, <1>2, <1>3, <1>4, <1>5, <1>6 DEF LopNext

LEMMA LopInvSafe == LopInv => LopSafe
  <1> SUFFICES ASSUME LopInv PROVE LopSafe
    OBVIOUS
  <1>1. LopAnswerWhole
    <2> SUFFICES ASSUME lopPc = "closed", lopCmd.halfclose, ~lopCmd.udp
                 PROVE  \E s \in LopPeer : LopRead = LopShown(s) /\ lopClosed /\ lopPeer = <<>> /\ lopIn = <<>>
      BY DEF LopAnswerWhole
    <2>1. lopClosed /\ lopIn = <<>> /\ lopPeer = <<>> /\ LopWholeOf(lopCmd.crlf, lopOut, lopIn, lopPeer)
      BY DEF LopInv, LopWhole
    <2>2. PICK s \in LopPeer : LopReadOf(lopOut) \o (<<>> \o <<>>) = LopShow(lopCmd.crlf, s)
      BY <2>1, LopShowNone DEF LopWholeOf
    <2>3. LopReadOf(lopOut) \o (<<>> \o <<>>) = LopReadOf(lopOut)
      <3>1. LopReadOf(lopOut) \in Seq(LopBytes)
        BY LopReadIs DEF LopInv, LopTypes
      <3>2. <<>> \o <<>> = <<>>
        OBVIOUS
      <3> QED
        BY <3>1, <3>2, ConcatEmptySeq
    <2>4. LopRead = LopReadOf(lopOut) /\ LopShown(s) = LopShow(lopCmd.crlf, s)
      BY DEF LopRead, LopReadOf, LopShown, LopShow
    <2> QED
      BY <2>1, <2>2, <2>3, <2>4
  <1>2. LopUdpEnds
    BY DEF LopInv, LopEnded, LopUdpEnds, LopTypes
  <1>3. LopPeekThenRead
    BY DEF LopInv, LopLooked
  <1> QED
    BY <1>1, <1>2, <1>3, LopCrlfHolds, LopChunksHold DEF LopSafe

\* sock, loop_tcp() and loop_udp(): whatever the options, the pieces in which
\* bytes come and the sizes of the buffers, the answer is shown whole, a look
\* shows what is read next, the conversions are inverse, the chunks of
\* dowrite() cover its bytes, and only an empty datagram ends a UDP client.
THEOREM LopSafeCorrect == LopSpec => []LopSafe
  BY LopInitInv, LopStepInv, LopInvSafe, PTL DEF LopSpec

-----------------------------------------------------------------------------
(* getaddrinfo().                                                          *)

\* Strings, with those that the code itself names.
GaiText ==
    STRING \cup {"0", "stream", "dgram", "path", "localhost", "0.0.0.0", "0::0", "0::1"}

\* Addresses of entries.
GaiPlaces == {"inet", "inet6", "local"} \X GaiText

GaiEntries ==
    [addr : GaiPlaces, type : GaiText, clone : BOOLEAN, port : GaiText,
     canon : BOOLEAN, sa : BOOLEAN]

\* A list with the canonical name, or without; all entries have their socket
\* address, or all but the last.
GaiKept(list, named, short) ==
    /\ list \in Seq(GaiEntries)
    /\ named \/ short => Len(list) >= 1
    /\ \A i \in 1 .. Len(list) :
          /\ list[i].sa = ~(short /\ i = Len(list))
          /\ list[i].canon = (named /\ i = 1)

\* The allocations of such a list.
GaiCost(list, named, short) ==
    2 * Len(list) + (IF named THEN 1 ELSE 0) - (IF short THEN 1 ELSE 0)

GaiSavedCost == IF gaiSaved THEN 1 ELSE 0

\* A list as the loops over addresses build it.
GaiFresh(list, c) ==
    \A i \in 1 .. Len(list) : list[i].type = c.type /\ list[i].clone = (c.type = "0")

GaiAddrOf(list) == [i \in 1 .. Len(list) |-> list[i].addr]

\* The addresses of one search.
GaiFound(search) ==
    LET host == search[1]
        family == search[2]
        names == IF GaiLiteral4(host) THEN (IF family = "inet" THEN <<host>> ELSE <<>>)
                 ELSE IF GaiLiteral6(host) THEN (IF family = "inet6" THEN <<host>> ELSE <<>>)
                 ELSE GaiLookup(host, family)
    IN  [j \in DOMAIN names |-> <<family, names[j]>>]

\* The addresses of the searches still to do.
GaiToFind(searches) ==
    IF Len(searches) = 0 THEN <<>>
    ELSE IF Len(searches) = 1 THEN GaiFound(searches[1])
    ELSE GaiFound(searches[1]) \o GaiFound(searches[2])

\* What is in the heap and the list, and what is owed to the call.
GaiHeapRight(named, short) ==
    /\ GaiKept(gaiList, named, short)
    /\ gaiHeap = GaiCost(gaiList, named, short) + GaiSavedCost

GaiName(c) == c.canon /\ (c.host # "none" \/ c.lib = "free")

\* libfree has set aihead before it makes an entry.
GaiStarted == gaiInit \in BOOLEAN /\ (~gaiInit => gaiCall.lib = "free" /\ gaiList = <<>> /\ gaiAddrs = <<>>)

\* Searches that libgai makes.
GaiSearches == GaiText \X {"inet", "inet6"}

\* libgai: the addresses so far, of this search, and of the searches left are those
\* of the host; a name saved before is one that has addresses.
GaiSearchesLeft ==
    /\ gaiSearch \in Seq(GaiSearches) /\ Len(gaiSearch) <= 2 /\ (Len(gaiSearch) = 2 => gaiTwo)
    /\ gaiCall.host # "none" => \A i \in 1 .. Len(gaiSearch) : gaiSearch[i][1] = gaiCall.host
    /\ (GaiAddrOf(gaiList) \o gaiAddrs) \o GaiToFind(gaiSearch) = GaiAddresses(gaiCall)
    /\ gaiSaved => /\ gaiCall.canon /\ gaiCall.host # "none"
                   /\ ~GaiLiteral4(gaiCall.host) /\ ~GaiLiteral6(gaiCall.host)
                   /\ gaiList # <<>> \/ gaiAddrs # <<>>
                   /\ gaiTwo \/ gaiSearch = <<>>

GafSearchesLeft == gaiSaved = FALSE /\ gaiSearch \in Seq(GaiText \X GaiText)

\* Before the checks.
GaiClean ==
    /\ gaiList = <<>> /\ gaiAddrs = <<>> /\ gaiSearch = <<>> /\ gaiHeap = 0 /\ gaiSaved = FALSE
    /\ gaiFreed = "none" /\ gaiRc = "ok"

GaiSearching ==
    /\ gaiRc = "ok" /\ gaiFreed = "none" /\ gaiSaved \in BOOLEAN
    /\ GaiHeapRight(FALSE, FALSE) /\ GaiFresh(gaiList, gaiCall) /\ GaiStarted
    /\ gaiAddrs \in Seq(GaiPlaces)
    /\ gaiPc = "search" => gaiAddrs = <<>>
    /\ gaiCall.lib = "gai" => GaiSearchesLeft
    /\ gaiCall.lib = "free" => GafSearchesLeft

GaiServing ==
    /\ gaiRc = "ok" /\ gaiFreed = "none" /\ gaiSaved = FALSE
    /\ GaiHeapRight(GaiName(gaiCall), FALSE) /\ GaiFresh(gaiList, gaiCall)
    /\ gaiList # <<>> /\ GaiStarted /\ gaiCall.serv # "none"
    /\ gaiCall.lib = "gai" => GaiAddrOf(gaiList) = GaiAddresses(gaiCall)

GaiAtUnix ==
    /\ gaiRc = "ok" /\ gaiFreed = "none" /\ gaiSaved = FALSE
    /\ GaiHeapRight(FALSE, FALSE)
    /\ gaiCall.lib = "gai" => gaiCall.host = "path"

GaiFailing ==
    /\ gaiRc # "ok" /\ gaiFreed = "none" /\ gaiSaved \in BOOLEAN
    /\ \E named, short \in BOOLEAN : GaiHeapRight(named, short)
    /\ GaiStarted /\ (gaiSaved => gaiFailed)

GaiInv ==
    /\ gaiPc \in {"idle", "check", "search", "struct", "serv", "unix", "bad", "done", "quit"}
    /\ gaiPc # "idle" => gaiCall \in GaiCalls
    /\ gaiPc \in {"idle", "check"} => GaiClean
    /\ gaiPc = "check" => gaiInit = GaiStarts(gaiCall.lib)
    /\ gaiPc \in {"search", "struct"} => GaiSearching
    /\ gaiPc = "serv" => GaiServing
    /\ gaiPc = "unix" => GaiAtUnix
    /\ gaiPc = "bad" => GaiFailing
    /\ gaiPc = "quit" => gaiFreed = "none"
    /\ gaiFreed # "garbage" \/ gaiPc = "done"
    /\ GaiSafe

\* A function on 1 .. n into C is a sequence of length n.
LEMMA GaiIsSeq ==
    ASSUME NEW C, NEW n \in Nat, NEW f, f = [i \in 1 .. n |-> f[i]], \A i \in 1 .. n : f[i] \in C
    PROVE  f \in Seq(C) /\ Len(f) = n
  <1>1. f \in [1 .. n -> C]
    OBVIOUS
  <1>2. f \in Seq(C)
    BY <1>1, SeqDef
  <1> QED
    BY <1>1, <1>2, LenProperties

\* Elements of a, each a sequence of one, put together.
LEMMA FlattenOnes ==
    ASSUME NEW C, NEW n \in Nat, NEW a \in Seq(C), Len(a) = n
    PROVE  FlattenSeq([i \in 1 .. n |-> <<a[i]>>]) = a
  <1>1. PICK s : s = [i \in 1 .. n |-> <<a[i]>>]
    OBVIOUS
  <1>2. /\ a = [i \in 1 .. n |-> a[i]] /\ \A i \in 1 .. n : a[i] \in C /\ s[i] = <<a[i]>>
        /\ s \in Seq(Seq(C)) /\ Len(s) = n
    <2>1. \A i \in 1 .. n : a[i] \in C /\ s[i] = <<a[i]>>
      BY <1>1, ElementOfSeq
    <2>2. \A i \in 1 .. n : <<a[i]>> \in Seq(C)
      BY <2>1
    <2>3. s = [i \in 1 .. n |-> s[i]] /\ \A i \in 1 .. n : s[i] \in Seq(C)
      BY <1>1, <2>1, <2>2
    <2>4. s \in Seq(Seq(C)) /\ Len(s) = n
      BY ONLY <2>3, n \in Nat, GaiIsSeq
    <2> QED
      BY <2>1, <2>4, LenProperties
  <1>3. CASE n = 0
    <2>1. a = <<>> /\ s = <<>>
      BY <1>2, <1>3, EmptySeq
    <2> QED
      BY <1>1, <2>1, FlattenNone
  <1>4. CASE n # 0
    <2>1. n \in Nat \ {0}
      BY <1>4
    <2>2. PICK g : FlatRuns(g, s, n) /\ FlattenSeq(s) = g[n]
      BY ONLY <1>2, <2>1, FlattenIs
    <2>3. \A k \in 1 .. n : g[k] = IF k = 1 THEN s[k] ELSE g[k - 1] \o s[k]
      BY <2>2 DEF FlatRuns
    <2> DEFINE bad == {k \in 1 .. n : g[k] # [i \in 1 .. k |-> a[i]]}
    <2>4. bad = {}
      <3>1. SUFFICES ASSUME bad # {} PROVE FALSE
        OBVIOUS
      <3>2. bad \subseteq Nat
        OBVIOUS
      <3>3. PICK k \in bad : \A j \in bad : k <= j
        BY ONLY <3>1, <3>2, LeastElement
      <3>4. k \in 1 .. n /\ g[k] # [i \in 1 .. k |-> a[i]]
        BY <3>3
      <3>5. k # 1
        <4>1. s[1] = [i \in 1 .. 1 |-> a[i]]
          <5>1. PICK u : u = s[1]
            OBVIOUS
          <5>2. u = <<a[1]>> /\ a[1] \in C
            <6>1. 1 \in 1 .. n
              BY <2>1
            <6> QED
              BY ONLY <1>2, <5>1, <6>1
          <5>3. u \in Seq(C) /\ Len(u) = 1 /\ u[1] = a[1]
            BY ONLY <5>2
          <5>4. u = [i \in 1 .. 1 |-> u[i]]
            BY ONLY <5>3, LenProperties
          <5> QED
            BY <5>1, <5>3, <5>4
        <4> QED
          BY <2>1, <2>3, <3>4, <4>1
      <3>6. k - 1 \in 1 .. n /\ k - 1 \notin bad
        BY <3>3, <3>4, <3>5
      <3>7. g[k - 1] = [i \in 1 .. k - 1 |-> a[i]] /\ g[k] = g[k - 1] \o <<a[k]>>
        BY <1>2, <2>3, <3>4, <3>5, <3>6
      <3>8. [i \in 1 .. k - 1 |-> a[i]] \o <<a[k]>> = [i \in 1 .. k |-> a[i]]
        <4>1. PICK p : p = [i \in 1 .. k - 1 |-> a[i]]
          OBVIOUS
        <4>2. k - 1 \in Nat /\ \A i \in 1 .. k - 1 : i \in 1 .. n
          BY <3>4
        <4>3. p \in Seq(C) /\ Len(p) = k - 1 /\ a[k] \in C
          <5>1. \A i \in 1 .. k - 1 : p[i] \in C
            BY <1>2, <4>1, <4>2
          <5>2. p = [i \in 1 .. k - 1 |-> p[i]]
            BY <4>1
          <5>3. p \in Seq(C) /\ Len(p) = k - 1
            BY ONLY <4>2, <5>1, <5>2, GaiIsSeq
          <5> QED
            BY <1>2, <3>4, <5>3
        <4>4. /\ p \o <<a[k]>> = [i \in 1 .. k |-> (p \o <<a[k]>>)[i]]
              /\ \A i \in 1 .. k : (p \o <<a[k]>>)[i] = IF i <= k - 1 THEN p[i] ELSE <<a[k]>>[i - (k - 1)]
          <5>1. <<a[k]>> \in Seq(C) /\ Len(<<a[k]>>) = 1 /\ (k - 1) + 1 = k
            BY <3>4, <4>3
          <5>2. PICK q, r : q = <<a[k]>> /\ r = p \o q
            OBVIOUS
          <5>3. r \in Seq(C) /\ Len(r) = k /\ \A i \in 1 .. k : r[i] = IF i <= k - 1 THEN p[i] ELSE q[i - (k - 1)]
            BY <4>3, <5>1, <5>2, ConcatProperties
          <5> QED
            BY <5>2, <5>3, LenProperties
        <4>5. \A i \in 1 .. k : (p \o <<a[k]>>)[i] = a[i]
          <5> SUFFICES ASSUME NEW i \in 1 .. k PROVE (p \o <<a[k]>>)[i] = a[i]
            OBVIOUS
          <5>1. CASE i <= k - 1
            BY <3>4, <4>1, <4>4, <5>1
          <5>2. CASE ~(i <= k - 1)
            <6>1. i = k /\ i - (k - 1) = 1
              BY <3>4, <5>2
            <6> QED
              BY <4>4, <5>2, <6>1
          <5> QED
            BY <5>1, <5>2
        <4> QED
          BY <4>1, <4>4, <4>5
      <3> QED
        BY <3>4, <3>7, <3>8
    <2>5. g[n] = [i \in 1 .. n |-> a[i]]
      BY <2>1, <2>4
    <2> QED
      BY <1>1, <1>2, <2>2, <2>5
  <1> QED
    BY <1>3, <1>4

\* r has the elements of p and q in turn.
GaiTwos(r, C, p, q, n) ==
    /\ r \in Seq(C) /\ Len(r) = 2 * n
    /\ \A i \in 1 .. n : r[2 * i - 1] = p[i] /\ r[2 * i] = q[i]

\* One pair more.
LEMMA GaiTwosMore ==
    ASSUME NEW C, NEW p, NEW q, NEW k \in Nat, NEW u, GaiTwos(u, C, p, q, k), NEW v \in Seq(C), Len(v) = 2,
           v[1] = p[k + 1], v[2] = q[k + 1]
    PROVE  GaiTwos(u \o v, C, p, q, k + 1)
  <1>1. PICK r : r = u \o v
    OBVIOUS
  <1>2. u \in Seq(C) /\ Len(u) = 2 * k /\ \A i \in 1 .. k : u[2 * i - 1] = p[i] /\ u[2 * i] = q[i]
    BY DEF GaiTwos
  <1>3. /\ r \in Seq(C) /\ Len(r) = 2 * k + 2
        /\ \A i \in 1 .. 2 * k + 2 : r[i] = IF i <= 2 * k THEN u[i] ELSE v[i - 2 * k]
    <2>1. PICK m : m = 2 * k
      OBVIOUS
    <2>2. u \in Seq(C) /\ v \in Seq(C) /\ Len(u) = m /\ Len(v) = 2
      BY <1>2, <2>1
    <2>3. /\ r \in Seq(C) /\ Len(r) = m + 2
          /\ \A i \in 1 .. m + 2 : r[i] = IF i <= m THEN u[i] ELSE v[i - m]
      <3>1. /\ u \o v \in Seq(C) /\ Len(u \o v) = Len(u) + Len(v)
            /\ \A i \in 1 .. Len(u) + Len(v) : (u \o v)[i] = IF i <= Len(u) THEN u[i] ELSE v[i - Len(u)]
        BY ONLY <2>2, ConcatProperties
      <3> QED
        BY ONLY <1>1, <2>2, <3>1
    <2> QED
      BY ONLY <2>1, <2>3
  <1>4. ASSUME NEW i \in 1 .. k + 1 PROVE r[2 * i - 1] = p[i] /\ r[2 * i] = q[i]
    <2>1. CASE i \in 1 .. k
      <3>1. /\ 2 * i - 1 \in 1 .. 2 * k + 2 /\ 2 * i - 1 <= 2 * k
            /\ 2 * i \in 1 .. 2 * k + 2 /\ 2 * i <= 2 * k
        BY <2>1
      <3>2. r[2 * i - 1] = u[2 * i - 1] /\ r[2 * i] = u[2 * i]
        BY <1>3, <3>1
      <3> QED
        BY <1>2, <2>1, <3>2
    <2>2. CASE i \notin 1 .. k
      <3>1. i = k + 1
        BY <2>2
      <3>2. /\ 2 * k + 1 \in 1 .. 2 * k + 2 /\ ~(2 * k + 1 <= 2 * k) /\ (2 * k + 1) - 2 * k = 1
            /\ 2 * k + 2 \in 1 .. 2 * k + 2 /\ ~(2 * k + 2 <= 2 * k) /\ (2 * k + 2) - 2 * k = 2
        OBVIOUS
      <3>3. r[2 * k + 1] = v[1] /\ r[2 * k + 2] = v[2]
        BY <1>3, <3>2
      <3>4. 2 * i - 1 = 2 * k + 1 /\ 2 * i = 2 * k + 2
        BY <3>1
      <3> QED
        BY <3>1, <3>3, <3>4
    <2> QED
      BY <2>1, <2>2
  <1>5. Len(r) = 2 * (k + 1)
    BY <1>3
  <1> QED
    BY <1>1, <1>3, <1>4, <1>5 DEF GaiTwos

\* Pairs put together.
LEMMA FlattenTwos ==
    ASSUME NEW C, NEW n \in Nat \ {0}, NEW p \in Seq(C), NEW q \in Seq(C), Len(p) = n, Len(q) = n
    PROVE  GaiTwos(FlattenSeq([i \in 1 .. n |-> <<p[i], q[i]>>]), C, p, q, n)
  <1>1. PICK s : s = [i \in 1 .. n |-> <<p[i], q[i]>>]
    OBVIOUS
  <1>2. \A i \in 1 .. n : p[i] \in C /\ q[i] \in C
    BY ElementOfSeq
  <1>3. \A i \in 1 .. n : s[i] \in Seq(C) /\ Len(s[i]) = 2 /\ s[i][1] = p[i] /\ s[i][2] = q[i]
    <2> SUFFICES ASSUME NEW i \in 1 .. n
                 PROVE  s[i] \in Seq(C) /\ Len(s[i]) = 2 /\ s[i][1] = p[i] /\ s[i][2] = q[i]
      OBVIOUS
    <2>1. PICK v : v = <<p[i], q[i]>>
      OBVIOUS
    <2>2. p[i] \in C /\ q[i] \in C /\ s[i] = v
      BY <1>1, <1>2, <2>1
    <2>3. v \in Seq(C) /\ Len(v) = 2 /\ v[1] = p[i] /\ v[2] = q[i]
      BY ONLY <2>1, <2>2
    <2> QED
      BY <2>2, <2>3
  <1>4. s \in Seq(Seq(C)) /\ Len(s) = n
    <2>1. s = [i \in 1 .. n |-> s[i]] /\ n \in Nat
      BY <1>1
    <2>2. \A i \in 1 .. n : s[i] \in Seq(C)
      BY <1>3
    <2> QED
      BY ONLY <2>1, <2>2, GaiIsSeq
  <1>5. PICK g : FlatRuns(g, s, n) /\ FlattenSeq(s) = g[n]
    BY ONLY <1>4, n \in Nat \ {0}, FlattenIs
  <1>6. \A k \in 1 .. n : g[k] = IF k = 1 THEN s[k] ELSE g[k - 1] \o s[k]
    BY <1>5 DEF FlatRuns
  <1> DEFINE bad == {k \in 1 .. n : ~GaiTwos(g[k], C, p, q, k)}
  <1>7. bad = {}
    <2>1. SUFFICES ASSUME bad # {} PROVE FALSE
      OBVIOUS
    <2>2. bad \subseteq Nat
      OBVIOUS
    <2>3. PICK k \in bad : \A j \in bad : k <= j
      BY ONLY <2>1, <2>2, LeastElement
    <2>4. k \in 1 .. n /\ ~GaiTwos(g[k], C, p, q, k)
      BY <2>3
    <2>5. CASE k = 1
      <3>1. s[1] \in Seq(C) /\ Len(s[1]) = 2 /\ s[1][1] = p[1] /\ s[1][2] = q[1] /\ g[1] = s[1]
        BY <1>3, <1>6, <2>4, <2>5
      <3>2. GaiTwos(s[1], C, p, q, 1)
        BY <3>1 DEF GaiTwos
      <3> QED
        BY <2>4, <2>5, <3>1, <3>2
    <2>6. CASE k # 1
      <3>1. k - 1 \in 1 .. n /\ k - 1 \notin bad /\ k - 1 \in Nat /\ (k - 1) + 1 = k
        BY <2>3, <2>4, <2>6
      <3>2. GaiTwos(g[k - 1], C, p, q, k - 1) /\ g[k] = g[k - 1] \o s[k]
        BY <1>6, <2>4, <2>6, <3>1
      <3>3. s[k] \in Seq(C) /\ Len(s[k]) = 2 /\ s[k][1] = p[k] /\ s[k][2] = q[k]
        BY <1>3, <2>4
      <3>4. PICK j, u, v : j = k - 1 /\ u = g[k - 1] /\ v = s[k]
        OBVIOUS
      <3>5. /\ GaiTwos(u, C, p, q, j) /\ v \in Seq(C) /\ Len(v) = 2 /\ v[1] = p[j + 1] /\ v[2] = q[j + 1]
            /\ j \in Nat
        BY <3>1, <3>2, <3>3, <3>4
      <3>6. GaiTwos(u \o v, C, p, q, j + 1)
        BY ONLY <3>5, GaiTwosMore
      <3> QED
        BY <2>4, <3>1, <3>2, <3>4, <3>6
    <2> QED
      BY <2>5, <2>6
  <1>8. n \notin bad /\ n \in 1 .. n
    BY <1>7
  <1> QED
    BY <1>1, <1>5, <1>8

\* Every place is one of a pair.
LEMMA GaiTwosPlace ==
    ASSUME NEW n \in Nat, NEW m \in 1 .. 2 * n
    PROVE  \E i \in 1 .. n : m = 2 * i - 1 \/ m = 2 * i
  <1>1. PICK i : i = (m + 1) \div 2
    OBVIOUS
  <1>2. i \in 1 .. n /\ (m = 2 * i - 1 \/ m = 2 * i)
    BY <1>1
  <1> QED
    BY <1>2

\* What freeaddrinfo() frees.
LEMMA GaiFrees ==
    ASSUME NEW list, NEW named \in BOOLEAN, NEW short \in BOOLEAN, GaiKept(list, named, short)
    PROVE  freeaddrinfo(list) = GaiCost(list, named, short) /\ GaiCost(list, named, short) \in Nat
  <1>1. PICK n : n = Len(list)
    OBVIOUS
  <1>2. /\ n \in Nat /\ DOMAIN list = 1 .. n /\ (named \/ short => n >= 1)
        /\ \A i \in 1 .. n : /\ list[i].sa = ~(short /\ i = n)
                             /\ list[i].canon = (named /\ i = 1)
    BY <1>1, LenProperties DEF GaiKept
  <1>3. Cardinality({i \in DOMAIN list : list[i].sa}) = IF short THEN n - 1 ELSE n
    <2>1. {i \in DOMAIN list : list[i].sa} = IF short THEN 1 .. n - 1 ELSE 1 .. n
      <3>1. {i \in DOMAIN list : list[i].sa} = {i \in 1 .. n : ~(short /\ i = n)}
        BY <1>2, Zenon
      <3>2. {i \in 1 .. n : ~(short /\ i = n)} = IF short THEN 1 .. n - 1 ELSE 1 .. n
        BY <1>2
      <3> QED
        BY <3>1, <3>2
    <2>2. Cardinality(1 .. n) = n /\ (n >= 1 => Cardinality(1 .. n - 1) = n - 1)
      BY <1>2, FS_Interval
    <2> QED
      BY <1>2, <2>1, <2>2
  <1>4. Cardinality({i \in DOMAIN list : list[i].canon}) = IF named THEN 1 ELSE 0
    <2>1. {i \in DOMAIN list : list[i].canon} = IF named THEN {1} ELSE {}
      <3>1. {i \in DOMAIN list : list[i].canon} = {i \in 1 .. n : named /\ i = 1}
        BY <1>2, Zenon
      <3>2. {i \in 1 .. n : named /\ i = 1} = IF named THEN {1} ELSE {}
        BY <1>2
      <3> QED
        BY <3>1, <3>2
    <2> QED
      BY <2>1, FS_EmptySet, FS_Singleton
  <1>5. freeaddrinfo(list) = n + (IF short THEN n - 1 ELSE n) + (IF named THEN 1 ELSE 0)
    BY <1>1, <1>3, <1>4 DEF freeaddrinfo
  <1>6. GaiCost(list, named, short) = 2 * n + (IF named THEN 1 ELSE 0) - (IF short THEN 1 ELSE 0)
    BY <1>1 DEF GaiCost
  <1>7. n \in Nat /\ (short => n >= 1)
    BY <1>2
  <1>8. CASE short
    <2>1. freeaddrinfo(list) = n + (n - 1) + (IF named THEN 1 ELSE 0)
      BY <1>5, <1>8
    <2>2. GaiCost(list, named, short) = 2 * n + (IF named THEN 1 ELSE 0) - 1
      BY <1>6, <1>8
    <2>3. PICK x : x = IF named THEN 1 ELSE 0
      OBVIOUS
    <2>4. x \in Nat
      BY <2>3
    <2>5. freeaddrinfo(list) = n + (n - 1) + x /\ GaiCost(list, named, short) = 2 * n + x - 1 /\ n >= 1
      BY <1>7, <1>8, <2>1, <2>2, <2>3
    <2> QED
      BY ONLY <1>7, <2>4, <2>5
  <1>9. CASE ~short
    <2>1. freeaddrinfo(list) = n + n + (IF named THEN 1 ELSE 0)
      BY <1>5, <1>9
    <2>2. GaiCost(list, named, short) = 2 * n + (IF named THEN 1 ELSE 0) - 0
      BY <1>6, <1>9
    <2> QED
      BY ONLY <1>7, <2>1, <2>2
  <1> QED
    BY <1>8, <1>9

\* ga_aistruct() keeps the account of the allocations.
LEMMA GaiStructKeeps ==
    ASSUME NEW addr \in GaiPlaces, NEW type \in GaiText, NEW n \in 0 .. 2, ga_aistruct(addr, type, n),
           GaiHeapRight(FALSE, FALSE), gaiSaved' = gaiSaved
    PROVE  /\ GaiHeapRight(FALSE, n = 1)'
           /\ n = 0 => gaiList' = gaiList
           /\ n # 0 => /\ gaiList' = Append(gaiList, gaiList'[Len(gaiList) + 1])
                       /\ gaiList'[Len(gaiList) + 1].addr = addr
                       /\ gaiList'[Len(gaiList) + 1].type = type
                       /\ gaiList'[Len(gaiList) + 1].clone = (type = "0")
                       /\ gaiList'[Len(gaiList) + 1] \in GaiEntries
           /\ n < 2 => gaiFailed'
  <1>1. PICK l, k : l = gaiList /\ k = Len(gaiList)
    OBVIOUS
  <1>2. /\ l \in Seq(GaiEntries) /\ k \in Nat /\ Len(l) = k
        /\ \A i \in 1 .. k : l[i].sa = ~(FALSE /\ i = k) /\ l[i].canon = (FALSE /\ i = 1)
    BY <1>1 DEF GaiHeapRight, GaiKept
  <1>3. gaiHeap = 2 * k + GaiSavedCost /\ GaiSavedCost' = GaiSavedCost /\ GaiSavedCost \in Nat
    BY <1>1 DEF GaiHeapRight, GaiCost, GaiSavedCost
  <1>4. gaiHeap' = gaiHeap + n /\ (n < 2 => gaiFailed')
    <2>1. gaiHeap' = gaiHeap + n /\ gaiFailed' = (gaiFailed \/ n < 2)
      BY DEF ga_aistruct
    <2>2. n < 2 => gaiFailed'
      BY <2>1, Zenon
    <2> QED
      BY <2>1, <2>2
  <1>5. CASE n = 0
    <2>1. gaiList' = gaiList
      BY <1>5 DEF ga_aistruct
    <2>2. GaiKept(gaiList', FALSE, FALSE)
      BY <2>1 DEF GaiHeapRight
    <2>3. gaiHeap' = GaiCost(gaiList', FALSE, FALSE) + GaiSavedCost'
      BY <1>1, <1>2, <1>3, <1>4, <1>5, <2>1 DEF GaiCost
    <2>4. (n = 1) = FALSE
      BY <1>5
    <2> QED
      BY <1>4, <1>5, <2>1, <2>2, <2>3, <2>4 DEF GaiHeapRight
  <1>6. CASE n # 0
    <2>1. PICK e : e = [addr |-> addr, type |-> type, clone |-> type = "0",
                        port |-> "0", canon |-> FALSE, sa |-> n = 2]
      OBVIOUS
    <2>2. gaiList' = Append(l, e)
      BY <1>1, <1>6, <2>1 DEF ga_aistruct
    <2>3. e \in GaiEntries
      <3>1. PICK b \in BOOLEAN, d \in BOOLEAN : b = (type = "0") /\ d = (n = 2)
        OBVIOUS
      <3>2. e = [addr |-> addr, type |-> type, clone |-> b, port |-> "0", canon |-> FALSE, sa |-> d]
        BY <2>1, <3>1
      <3> QED
        <4>1. "0" \in GaiText
          BY DEF GaiText
        <4> QED
          BY <3>2, <4>1 DEF GaiEntries
    <2>4. PICK m : m = Append(l, e)
      OBVIOUS
    <2>5. m \in Seq(GaiEntries) /\ Len(m) = k + 1 /\ m[k + 1] = e /\ \A i \in 1 .. k : m[i] = l[i]
      BY <1>2, <2>3, <2>4, AppendProperties
    <2>6. e.addr = addr /\ e.type = type /\ e.clone = (type = "0") /\ e.canon = FALSE /\ e.sa = (n = 2)
      BY <2>1
    <2>7. GaiKept(m, FALSE, n = 1)
      <3>1. ASSUME NEW i \in 1 .. k + 1
            PROVE  m[i].sa = ~((n = 1) /\ i = k + 1) /\ m[i].canon = (FALSE /\ i = 1)
        <4>1. CASE i = k + 1
          <5>1. (n = 2) = ~(n = 1)
            BY <1>6
          <5> QED
            BY <2>5, <2>6, <4>1, <5>1
        <4>2. CASE i # k + 1
          <5>1. i \in 1 .. k
            BY <1>2, <4>2
          <5> QED
            BY <1>2, <2>5, <4>2, <5>1
        <4> QED
          BY <4>1, <4>2
      <3>2. Len(m) >= 1
        BY <1>2, <2>5
      <3> QED
        BY <2>5, <3>1, <3>2 DEF GaiKept
    <2>8. gaiHeap' = GaiCost(m, FALSE, n = 1) + GaiSavedCost'
      <3>1. GaiCost(m, FALSE, n = 1) = 2 * (k + 1) + 0 - (IF n = 1 THEN 1 ELSE 0)
        BY <2>5 DEF GaiCost
      <3>2. (IF n = 1 THEN 1 ELSE 0) = 2 - n
        BY <1>6
      <3>3. PICK g, h, x : g = GaiSavedCost /\ h = GaiSavedCost' /\ x = GaiCost(m, FALSE, n = 1)
        OBVIOUS
      <3>4. g \in Nat /\ h = g /\ gaiHeap' = (2 * k + g) + n /\ x = 2 * (k + 1) + 0 - (2 - n)
        BY <1>3, <1>4, <3>1, <3>2, <3>3
      <3>5. (2 * k + g) + n = x + h
        BY ONLY <1>2, <3>4, n \in 0 .. 2
      <3> QED
        BY ONLY <3>3, <3>4, <3>5
    <2>9. GaiHeapRight(FALSE, n = 1)'
      BY <2>2, <2>4, <2>7, <2>8 DEF GaiHeapRight
    <2> QED
      BY <1>1, <1>4, <1>6, <2>2, <2>3, <2>4, <2>5, <2>6, <2>9
  <1> QED
    BY <1>5, <1>6

\* The canonical name in the first entry.
LEMMA GaiNames1 ==
    ASSUME NEW list, GaiKept(list, FALSE, FALSE), Len(list) >= 1,
           NEW m, m = [list EXCEPT ![1].canon = TRUE]
    PROVE  /\ GaiKept(m, TRUE, FALSE) /\ Len(m) = Len(list)
           /\ \A i \in 1 .. Len(list) :
                 m[i].addr = list[i].addr /\ m[i].type = list[i].type /\ m[i].clone = list[i].clone
  <1>1. PICK n : n = Len(list)
    OBVIOUS
  <1>2. /\ list \in Seq(GaiEntries) /\ n \in Nat /\ n >= 1 /\ DOMAIN list = 1 .. n
        /\ \A i \in 1 .. n : /\ list[i] \in GaiEntries
                             /\ list[i].sa = ~(FALSE /\ i = n) /\ list[i].canon = (FALSE /\ i = 1)
    BY <1>1, LenProperties DEF GaiKept
  <1>3. \A i \in 1 .. n : m[i] = IF i = 1 THEN [list[1] EXCEPT !.canon = TRUE] ELSE list[i]
    BY <1>2
  <1>4. ASSUME NEW e \in GaiEntries, NEW f, f = [e EXCEPT !.canon = TRUE]
        PROVE  f \in GaiEntries /\ f.canon = TRUE /\ f.sa = e.sa /\ f.addr = e.addr /\ f.type = e.type /\ f.clone = e.clone
    BY <1>4 DEF GaiEntries
  <1>5. ASSUME NEW i \in 1 .. n
        PROVE  /\ m[i] \in GaiEntries /\ m[i].sa = ~(FALSE /\ i = n) /\ m[i].canon = (TRUE /\ i = 1)
               /\ m[i].addr = list[i].addr /\ m[i].type = list[i].type /\ m[i].clone = list[i].clone
    <2>1. CASE i = 1
      <3>1. PICK e, f : e = list[1] /\ f = [e EXCEPT !.canon = TRUE]
        OBVIOUS
      <3>2. e \in GaiEntries /\ m[1] = f /\ e.sa = ~(FALSE /\ 1 = n)
        BY <1>2, <1>3, <2>1, <3>1
      <3>3. f \in GaiEntries /\ f.canon = TRUE /\ f.sa = e.sa /\ f.addr = e.addr /\ f.type = e.type /\ f.clone = e.clone
        BY <1>4, <3>1, <3>2
      <3> QED
        BY <2>1, <3>1, <3>2, <3>3
    <2>2. CASE i # 1
      BY <1>2, <1>3, <2>2
    <2> QED
      BY <2>1, <2>2
  <1>6. m \in Seq(GaiEntries) /\ Len(m) = n
    <2>1. m = [i \in 1 .. n |-> m[i]]
      BY <1>2
    <2> QED
      BY ONLY <1>2, <1>5, <2>1, GaiIsSeq
  <1>7. GaiKept(m, TRUE, FALSE)
    <2>1. \A i \in 1 .. Len(m) : /\ m[i].sa = ~(FALSE /\ i = Len(m))
                                  /\ m[i].canon = (TRUE /\ i = 1)
      <3>1. \A i \in 1 .. n : m[i].sa = ~(FALSE /\ i = n) /\ m[i].canon = (TRUE /\ i = 1)
        BY <1>5
      <3>2. Len(m) = n
        BY <1>6
      <3> QED
        BY ONLY <3>1, <3>2, Zenon
    <2>2. m \in Seq(GaiEntries) /\ Len(m) >= 1
      BY <1>2, <1>6
    <2> QED
      BY ONLY <2>1, <2>2 DEF GaiKept
  <1> QED
    BY <1>1, <1>5, <1>6, <1>7

\* An entry for socket type t, and the copy that ga_clone() makes of one.
GaiFilled(e, t, port) == [e EXCEPT !.type = t, !.port = port]
GaiCopy(e, t, port) == [e EXCEPT !.type = t, !.port = port, !.canon = FALSE, !.clone = FALSE]

LEMMA GaiFilledIs ==
    ASSUME NEW e \in GaiEntries, NEW t \in GaiText, NEW port \in GaiText
    PROVE  /\ GaiFilled(e, t, port) \in GaiEntries
           /\ GaiFilled(e, t, port).addr = e.addr /\ GaiFilled(e, t, port).type = t
           /\ GaiFilled(e, t, port).clone = e.clone
           /\ GaiFilled(e, t, port).canon = e.canon /\ GaiFilled(e, t, port).sa = e.sa
  BY DEF GaiFilled, GaiEntries

LEMMA GaiCopyIs ==
    ASSUME NEW e \in GaiEntries, NEW t \in GaiText, NEW port \in GaiText
    PROVE  /\ GaiCopy(e, t, port) \in GaiEntries
           /\ GaiCopy(e, t, port).addr = e.addr /\ GaiCopy(e, t, port).type = t
           /\ GaiCopy(e, t, port).sa = e.sa
  BY DEF GaiCopy, GaiEntries

LEMMA GaiCopyNameless ==
    ASSUME NEW e \in GaiEntries, NEW t \in GaiText, NEW port \in GaiText
    PROVE  ~GaiCopy(e, t, port).canon
  BY DEF GaiCopy, GaiEntries

\* ga_port() of libfree is the one of libgai.
LEMMA GafPortIs ==
    ASSUME NEW list, NEW t, NEW port
    PROVE  getaddrinfo_port(list, t, port) = ga_port(list, t, port)
  <1>1. ASSUME NEW e
        PROVE  (IF e.clone /\ e.type # "0" THEN getaddrinfo_clone(e, t, port) ELSE GaiPorted(e, t, port))
                   = GaiPorted(e, t, port)
    BY DEF getaddrinfo_clone, GaiPorted
  <1>2. [i \in DOMAIN list |-> IF list[i].clone /\ list[i].type # "0" THEN getaddrinfo_clone(list[i], t, port)
                              ELSE GaiPorted(list[i], t, port)]
        = [i \in DOMAIN list |-> GaiPorted(list[i], t, port)]
    BY <1>1
  <1> QED
    BY <1>2 DEF getaddrinfo_port, ga_port

\* ga_port() fills the entry in for socket type t.
GaiMayFill(e, t) == IF e.clone THEN e.type = "0" ELSE e.type = t

\* The first port: the entries are filled in.
LEMMA GaiPortFirst ==
    ASSUME NEW list \in Seq(GaiEntries), NEW n, Len(list) = n, NEW t \in GaiText, NEW port \in GaiText,
           \A i \in 1 .. n : GaiMayFill(list[i], t)
    PROVE  /\ ga_port(list, t, port) \in Seq(GaiEntries) /\ Len(ga_port(list, t, port)) = n
           /\ \A i \in 1 .. n : ga_port(list, t, port)[i] = GaiFilled(list[i], t, port)
  <1>1. n \in Nat /\ DOMAIN list = 1 .. n /\ \A i \in 1 .. n : list[i] \in GaiEntries
    BY LenProperties
  <1>2. PICK a : a = [i \in 1 .. n |-> GaiFilled(list[i], t, port)]
    OBVIOUS
  <1>3. \A i \in 1 .. n : a[i] \in GaiEntries /\ a[i] = GaiFilled(list[i], t, port)
    BY <1>1, <1>2, GaiFilledIs
  <1>4. a \in Seq(GaiEntries) /\ Len(a) = n
    <2>1. a = [i \in 1 .. n |-> a[i]]
      BY <1>2
    <2> QED
      BY ONLY <1>1, <1>3, <2>1, GaiIsSeq
  <1>5. ASSUME NEW i \in 1 .. n PROVE GaiPorted(list[i], t, port) = <<a[i]>>
    BY <1>3 DEF GaiPorted, GaiFilled, GaiMayFill
  <1>6. [i \in DOMAIN list |-> GaiPorted(list[i], t, port)] = [i \in 1 .. n |-> <<a[i]>>]
    BY <1>1, <1>5
  <1>7. FlattenSeq([i \in 1 .. n |-> <<a[i]>>]) = a
    BY ONLY <1>1, <1>4, FlattenOnes
  <1>8. ga_port(list, t, port) = a
    BY <1>6, <1>7 DEF ga_port
  <1> QED
    BY <1>3, <1>4, <1>8

\* The second port: each entry gets a copy after it.
LEMMA GaiPortSecond ==
    ASSUME NEW list \in Seq(GaiEntries), NEW n \in Nat \ {0}, Len(list) = n, NEW t \in GaiText, NEW port \in GaiText,
           \A i \in 1 .. n : list[i].clone /\ list[i].type # "0"
    PROVE  GaiTwos(ga_port(list, t, port), GaiEntries, list, [i \in 1 .. n |-> GaiCopy(list[i], t, port)], n)
  <1>1. DOMAIN list = 1 .. n /\ \A i \in 1 .. n : list[i] \in GaiEntries
    BY LenProperties
  <1>2. PICK a : a = [i \in 1 .. n |-> GaiCopy(list[i], t, port)]
    OBVIOUS
  <1>3. \A i \in 1 .. n : a[i] \in GaiEntries /\ a[i] = GaiCopy(list[i], t, port)
    BY <1>1, <1>2, GaiCopyIs
  <1>4. a \in Seq(GaiEntries) /\ Len(a) = n
    <2>1. a = [i \in 1 .. n |-> a[i]] /\ n \in Nat
      BY <1>2
    <2> QED
      BY ONLY <1>3, <2>1, GaiIsSeq
  <1>5. ASSUME NEW i \in 1 .. n PROVE GaiPorted(list[i], t, port) = <<list[i], a[i]>>
    BY <1>3 DEF GaiPorted, GaiCopy, ga_clone
  <1>6. [i \in DOMAIN list |-> GaiPorted(list[i], t, port)] = [i \in 1 .. n |-> <<list[i], a[i]>>]
    BY <1>1, <1>5
  <1>7. GaiTwos(FlattenSeq([i \in 1 .. n |-> <<list[i], a[i]>>]), GaiEntries, list, a, n)
    BY ONLY <1>4, list \in Seq(GaiEntries), Len(list) = n, n \in Nat \ {0}, FlattenTwos
  <1>8. ga_port(list, t, port) = FlattenSeq([i \in 1 .. n |-> <<list[i], a[i]>>])
    BY <1>6 DEF ga_port
  <1> QED
    BY <1>2, <1>7, <1>8

\* The socket types that have the service: at most two, and two only when none
\* was asked for.
LEMMA GaiTypesAre ==
    ASSUME NEW c, c.type \in GaiText
    PROVE  /\ GaiTypes(c) \in Seq(GaiText) /\ Len(GaiTypes(c)) \in 0 .. 2
           /\ GaiTypes(c) # <<>> => Len(GaiTypes(c)) # 0
           /\ \A i \in 1 .. Len(GaiTypes(c)) :
                 GaiTypes(c)[i] \in GaiText /\ IF c.type = "0" THEN GaiTypes(c)[i] # "0" ELSE GaiTypes(c)[i] = c.type
           /\ Len(GaiTypes(c)) = 2 => c.type = "0"
  <1>1. "stream" \in GaiText /\ "dgram" \in GaiText
    BY DEF GaiText
  <1>2. PICK s : s = GaiTypes(c)
    OBVIOUS
  <1>3. PICK a, b : a = <<"stream">> /\ b = <<"dgram">>
    OBVIOUS
  <1>4. a \in Seq(GaiText) /\ b \in Seq(GaiText) 
        /\ a \o b \in Seq(GaiText) /\ Len(a \o b) = 2 /\ (a \o b)[1] = "stream" /\ (a \o b)[2] = "dgram"
        /\ a \o <<>> = a /\ <<>> \o b = b
    <2>1. a \in Seq(GaiText) /\ b \in Seq(GaiText)
      BY <1>1, <1>3
    <2>2. a \o <<>> = a /\ <<>> \o b = b
      BY <2>1, ConcatEmptySeq
    <2>3. PICK r : r = a \o b
      OBVIOUS
    <2>4. Len(a) = 1 /\ Len(b) = 1 /\ a[1] = "stream" /\ b[1] = "dgram"
      BY <1>3
    <2>5. r \in Seq(GaiText) /\ Len(r) = 2 /\ r[1] = a[1] /\ r[2] = b[2 - 1]
      <3>1. /\ r \in Seq(GaiText) /\ Len(r) = Len(a) + Len(b)
            /\ \A i \in 1 .. Len(a) + Len(b) : r[i] = IF i <= Len(a) THEN a[i] ELSE b[i - Len(a)]
        BY ONLY <2>1, <2>3, ConcatProperties
      <3> QED
        BY <2>4, <3>1
    <2> QED
      BY <2>1, <2>2, <2>3, <2>4, <2>5
  <1>5. \/ s = <<>> \/ (c.type # "0" /\ s = <<c.type>>)
        \/ (c.type = "0" /\ (s = a \/ s = b \/ s = a \o b))
    <2>1. CASE c.type # "0"
      BY <1>2, <2>1 DEF GaiTypes
    <2>2. CASE c.type = "0"
      <3>1. s = (IF GaiFinds(c, "stream") THEN a ELSE <<>>) \o (IF GaiFinds(c, "dgram") THEN b ELSE <<>>)
        BY <1>2, <1>3, <2>2 DEF GaiTypes
      <3>2. <<>> \o <<>> = <<>>
        OBVIOUS
      <3> QED
        BY <1>4, <2>2, <3>1, <3>2
    <2> QED
      BY <2>1, <2>2
  <1>6. CASE s = <<>>
    BY <1>2, <1>6
  <1>7. CASE c.type # "0" /\ s = <<c.type>>
    BY <1>2, <1>7
  <1>8. CASE c.type = "0" /\ s = a
    BY <1>1, <1>2, <1>3, <1>8
  <1>9. CASE c.type = "0" /\ s = b
    BY <1>1, <1>2, <1>3, <1>9
  <1>10. CASE c.type = "0" /\ s = a \o b
    BY <1>1, <1>2, <1>4, <1>10
  <1> QED
    BY <1>5, <1>6, <1>7, <1>8, <1>9, <1>10

\* Functions that are sequences of one or two elements.
LEMMA GaiOneIs ==
    ASSUME NEW x, NEW f, f = [j \in 1 .. 1 |-> f[j]], f[1] = x
    PROVE  f = <<x>>
  <1>1. PICK C, u : C = {x} /\ u = <<x>>
    OBVIOUS
  <1>2. u \in Seq(C) /\ Len(u) = 1 /\ u[1] = x
    BY <1>1
  <1>3. u = [j \in 1 .. 1 |-> u[j]]
    BY ONLY <1>2, LenProperties
  <1> QED
    BY <1>1, <1>2, <1>3

LEMMA GaiTwoIs ==
    ASSUME NEW x, NEW y, NEW f, f = [j \in 1 .. 2 |-> f[j]], f[1] = x, f[2] = y
    PROVE  f = <<x, y>>
  <1>1. PICK C, u : C = {x, y} /\ u = <<x, y>>
    OBVIOUS
  <1>2. u \in Seq(C) /\ Len(u) = 2 /\ u[1] = x /\ u[2] = y
    BY <1>1
  <1>3. u = [j \in 1 .. 2 |-> u[j]]
    BY ONLY <1>2, LenProperties
  <1>4. \A j \in 1 .. 2 : f[j] = u[j]
    <2>1. \A j \in 1 .. 2 : j = 1 \/ j = 2
      OBVIOUS
    <2> QED
      BY <1>2, <2>1
  <1> QED
    BY <1>1, <1>3, <1>4

\* A sequence is known by its pairs.
LEMMA GaiTwosSame ==
    ASSUME NEW C, NEW p, NEW q, NEW n \in Nat, NEW r, NEW s, GaiTwos(r, C, p, q, n), GaiTwos(s, C, p, q, n)
    PROVE  r = s
  <1>1. /\ r \in Seq(C) /\ Len(r) = 2 * n /\ s \in Seq(C) /\ Len(s) = 2 * n
        /\ \A i \in 1 .. n : r[2 * i - 1] = p[i] /\ r[2 * i] = q[i]
        /\ \A i \in 1 .. n : s[2 * i - 1] = p[i] /\ s[2 * i] = q[i]
    BY DEF GaiTwos
  <1>2. ASSUME NEW m \in 1 .. 2 * n PROVE r[m] = s[m]
    <2>1. PICK i \in 1 .. n : m = 2 * i - 1 \/ m = 2 * i
      BY GaiTwosPlace
    <2> QED
      BY <1>1, <2>1
  <1>3. r = [m \in 1 .. 2 * n |-> r[m]] /\ s = [m \in 1 .. 2 * n |-> s[m]]
    BY <1>1, LenProperties
  <1> QED
    BY <1>2, <1>3

\* The loop of ga_serv() over the types that have the service.
GaiAll(list, types, port) ==
    LET one == ga_port(list, types[1], port)
    IN  IF Len(types) = 1 THEN one ELSE ga_port(one, types[2], port)

\* m has an entry for each entry of list and each type.
GaiForTypes(m, list, n, types, k) ==
    /\ Len(m) = IF k = 1 THEN n ELSE 2 * n
    /\ k = 1 => \A i \in 1 .. n : m[i].addr = list[i].addr /\ m[i].type = types[1]
    /\ k = 2 => \A i \in 1 .. n : /\ m[2 * i - 1].addr = list[i].addr /\ m[2 * i - 1].type = types[1]
                                  /\ m[2 * i].addr = list[i].addr /\ m[2 * i].type = types[2]

\* Types that ga_serv() may try for a list made for call c.
GaiTypesOk(types, k, c) ==
    /\ types \in Seq(GaiText) /\ Len(types) = k /\ k \in 1 .. 2
    /\ \A i \in 1 .. k : types[i] \in GaiText /\ IF c.type = "0" THEN types[i] # "0" ELSE types[i] = c.type
    /\ k = 2 => c.type = "0"

LEMMA GaiAllIs ==
    ASSUME NEW list, NEW named \in BOOLEAN, GaiKept(list, named, FALSE), NEW n \in Nat \ {0}, Len(list) = n,
           NEW c, GaiFresh(list, c), NEW types, NEW k, GaiTypesOk(types, k, c), NEW port \in GaiText
    PROVE  /\ GaiKept(GaiAll(list, types, port), named, FALSE)
           /\ GaiForTypes(GaiAll(list, types, port), list, n, types, k)
  <1>1. /\ list \in Seq(GaiEntries) /\ DOMAIN list = 1 .. n
        /\ \A i \in 1 .. n : /\ list[i] \in GaiEntries /\ list[i].sa = TRUE /\ list[i].canon = (named /\ i = 1)
                             /\ list[i].type = c.type /\ list[i].clone = (c.type = "0")
    <2>1. list \in Seq(GaiEntries)
      BY DEF GaiKept
    <2>2. \A i \in 1 .. n : list[i].type = c.type /\ list[i].clone = (c.type = "0")
      BY DEF GaiFresh
    <2>3. \A i \in 1 .. n : list[i].sa = ~(FALSE /\ i = n) /\ list[i].canon = (named /\ i = 1)
      BY DEF GaiKept
    <2>4. \A i \in 1 .. n : list[i].sa = TRUE
      BY <2>3
    <2> QED
      BY <2>1, <2>2, <2>3, <2>4, LenProperties
  <1>2. /\ types[1] \in GaiText /\ Len(types) = k /\ (k = 1 \/ k = 2)
        /\ IF c.type = "0" THEN types[1] # "0" ELSE types[1] = c.type
        /\ k = 2 => types[2] \in GaiText /\ c.type = "0"
    BY DEF GaiTypesOk
  <1>3. PICK one : one = ga_port(list, types[1], port)
    OBVIOUS
  <1>4. \A i \in 1 .. n : GaiMayFill(list[i], types[1])
    BY <1>1, <1>2 DEF GaiMayFill
  <1>5. one \in Seq(GaiEntries) /\ Len(one) = n /\ \A i \in 1 .. n : one[i] = GaiFilled(list[i], types[1], port)
    <2>1. PICK t, r : t = types[1] /\ r = ga_port(list, t, port)
      OBVIOUS
    <2>2. /\ list \in Seq(GaiEntries) /\ Len(list) = n /\ t \in GaiText /\ port \in GaiText /\ r = one
          /\ \A i \in 1 .. n : GaiMayFill(list[i], t)
      BY <1>1, <1>2, <1>3, <1>4, <2>1
    <2>3. r \in Seq(GaiEntries) /\ Len(r) = n /\ \A i \in 1 .. n : r[i] = GaiFilled(list[i], t, port)
      <3>1. /\ ga_port(list, t, port) \in Seq(GaiEntries) /\ Len(ga_port(list, t, port)) = n
            /\ \A i \in 1 .. n : ga_port(list, t, port)[i] = GaiFilled(list[i], t, port)
        BY ONLY <2>2, GaiPortFirst
      <3> QED
        BY ONLY <2>1, <3>1
    <2> QED
      BY ONLY <2>1, <2>2, <2>3
  <1>6. \A i \in 1 .. n : /\ one[i] \in GaiEntries /\ one[i].addr = list[i].addr /\ one[i].type = types[1]
                          /\ one[i].clone = list[i].clone /\ one[i].canon = list[i].canon /\ one[i].sa = list[i].sa
    BY <1>1, <1>2, <1>5, GaiFilledIs
  <1>7. \A i \in 1 .. n : one[i].sa = TRUE /\ one[i].canon = (named /\ i = 1) /\ one[i].clone = (c.type = "0")
    BY <1>1, <1>6
  <1>8. CASE k = 1
    <2>1. GaiAll(list, types, port) = one
      BY <1>2, <1>3, <1>8 DEF GaiAll
    <2>2. GaiForTypes(one, list, n, types, k)
      BY <1>5, <1>6, <1>8 DEF GaiForTypes
    <2>3. GaiKept(one, named, FALSE)
      <3>1. \A i \in 1 .. n : one[i].sa = ~(FALSE /\ i = n) /\ one[i].canon = (named /\ i = 1)
        BY <1>7
      <3> QED
        BY <1>5, <3>1 DEF GaiKept
    <2> QED
      BY <2>1, <2>2, <2>3
  <1>9. CASE k = 2
    <2>1. PICK two : two = ga_port(one, types[2], port)
      OBVIOUS
    <2>2. GaiAll(list, types, port) = two
      BY <1>2, <1>3, <1>9, <2>1 DEF GaiAll
    <2>3. \A i \in 1 .. n : one[i].clone /\ one[i].type # "0"
      BY <1>2, <1>6, <1>7, <1>9
    <2>4. PICK q : q = [i \in 1 .. n |-> GaiCopy(one[i], types[2], port)]
      OBVIOUS
    <2>5. GaiTwos(two, GaiEntries, one, q, n)
      BY <1>2, <1>5, <1>9, <2>1, <2>3, <2>4, GaiPortSecond
    <2>6. /\ two \in Seq(GaiEntries) /\ Len(two) = 2 * n
          /\ \A i \in 1 .. n : two[2 * i - 1] = one[i] /\ two[2 * i] = q[i]
      BY <2>5 DEF GaiTwos
    <2>7. \A i \in 1 .. n : q[i].addr = one[i].addr /\ q[i].type = types[2] /\ q[i].canon = FALSE /\ q[i].sa = one[i].sa
      <3>1. PICK t : t = types[2] /\ t \in GaiText
        BY <1>2, <1>9
      <3>2. ASSUME NEW i \in 1 .. n
            PROVE  q[i].addr = one[i].addr /\ q[i].type = t /\ q[i].canon = FALSE /\ q[i].sa = one[i].sa
        <4>1. PICK e : e = one[i] /\ e \in GaiEntries
          BY <1>6
        <4>2. q[i] = GaiCopy(e, t, port)
          BY <2>4, <3>1, <4>1
        <4>3. GaiCopy(e, t, port).addr = e.addr /\ GaiCopy(e, t, port).type = t
              /\ GaiCopy(e, t, port).canon = FALSE /\ GaiCopy(e, t, port).sa = e.sa
          <5>1. t \in GaiText /\ e \in GaiEntries
            BY <3>1, <4>1
          <5>2. GaiCopy(e, t, port).canon = FALSE
            BY <5>1, GaiCopyNameless
          <5> QED
            BY <5>1, <5>2, GaiCopyIs
        <4> QED
          BY <4>1, <4>2, <4>3
      <3> QED
        BY <3>1, <3>2
    <2>8. GaiForTypes(two, list, n, types, k)
      <3>1. ASSUME NEW i \in 1 .. n
            PROVE  /\ two[2 * i - 1].addr = list[i].addr /\ two[2 * i - 1].type = types[1]
                   /\ two[2 * i].addr = list[i].addr /\ two[2 * i].type = types[2]
        <4>1. two[2 * i - 1] = one[i] /\ two[2 * i] = q[i]
          BY <2>6
        <4>2. one[i].addr = list[i].addr /\ one[i].type = types[1] /\ q[i].addr = one[i].addr /\ q[i].type = types[2]
          BY <1>6, <2>7
        <4> QED
          BY ONLY <4>1, <4>2
      <3>2. Len(two) = 2 * n /\ k # 1
        BY <1>9, <2>6
      <3> QED
        BY ONLY <3>1, <3>2 DEF GaiForTypes
    <2>9. ASSUME NEW m \in 1 .. 2 * n PROVE two[m].sa = ~(FALSE /\ m = 2 * n) /\ two[m].canon = (named /\ m = 1)
      <3>1. PICK i \in 1 .. n : m = 2 * i - 1 \/ m = 2 * i
        BY GaiTwosPlace
      <3>2. CASE m = 2 * i - 1
        <4>1. two[m].sa = TRUE /\ two[m].canon = (named /\ i = 1)
          BY <1>7, <2>6, <3>2
        <4>2. (i = 1) = (m = 1)
          BY <3>2
        <4> QED
          BY <4>1, <4>2
      <3>3. CASE m = 2 * i
        <4>1. two[m].sa = TRUE /\ two[m].canon = FALSE
          BY <1>7, <2>6, <2>7, <3>3
        <4>2. m # 1
          BY <3>3
        <4> QED
          BY <4>1, <4>2
      <3> QED
        BY <3>1, <3>2, <3>3
    <2>10. GaiKept(two, named, FALSE)
      <3>1. Len(two) >= 1
        BY <2>6
      <3>2. \A m \in 1 .. Len(two) : two[m].sa = ~(FALSE /\ m = Len(two)) /\ two[m].canon = (named /\ m = 1)
        BY <2>6, <2>9
      <3> QED
        BY <2>6, <3>1, <3>2 DEF GaiKept
    <2> QED
      BY <2>2, <2>8, <2>10
  <1> QED
    BY <1>2, <1>8, <1>9

\* What GaiListRight asks for.
GaiPairs(m) == [i \in DOMAIN m |-> <<m[i].addr, m[i].type>>]
GaiProduct(addrs, types) ==
    FlattenSeq([i \in DOMAIN addrs |-> [j \in DOMAIN types |-> <<addrs[i], types[j]>>]])

LEMMA GaiPairsRight ==
    ASSUME NEW list, NEW n, NEW addrs, NEW types, NEW k, NEW m,
           n \in Nat \ {0}, list \in Seq(GaiEntries), Len(list) = n, addrs = GaiAddrOf(list),
           k \in 1 .. 2, DOMAIN types = 1 .. k, \A j \in 1 .. k : types[j] \in GaiText,
           m \in Seq(GaiEntries), GaiForTypes(m, list, n, types, k)
    PROVE  GaiPairs(m) = GaiProduct(addrs, types)
  <1>1. PICK C : C = GaiPlaces \X GaiText
    OBVIOUS
  <1>2. DOMAIN addrs = 1 .. n /\ \A i \in 1 .. n : addrs[i] = list[i].addr /\ list[i].addr \in GaiPlaces
    <2>1. \A i \in 1 .. n : list[i] \in GaiEntries
      BY ElementOfSeq
    <2> QED
      BY <2>1 DEF GaiAddrOf, GaiEntries
  <1>3. PICK p : p = [i \in 1 .. n |-> <<addrs[i], types[1]>>]
    OBVIOUS
  <1>4. p \in Seq(C) /\ Len(p) = n /\ \A i \in 1 .. n : p[i] = <<addrs[i], types[1]>>
    <2>1. p = [i \in 1 .. n |-> p[i]] /\ n \in Nat
      BY <1>3
    <2>2. \A i \in 1 .. n : p[i] = <<addrs[i], types[1]>> /\ p[i] \in C
      <3>1. types[1] \in GaiText
        OBVIOUS
      <3> QED
        BY <1>1, <1>2, <1>3, <3>1
    <2>3. p \in Seq(C) /\ Len(p) = n
      BY ONLY <2>1, <2>2, GaiIsSeq
    <2> QED
      BY <2>2, <2>3
  <1>5. CASE k = 1
    <2>1. ASSUME NEW i \in 1 .. n PROVE [j \in DOMAIN types |-> <<addrs[i], types[j]>>] = <<p[i]>>
      <3>1. PICK f : f = [j \in 1 .. 1 |-> <<addrs[i], types[j]>>]
        OBVIOUS
      <3>2. f = [j \in 1 .. 1 |-> f[j]] /\ f[1] = p[i]
        BY <1>4, <3>1
      <3>3. f = <<p[i]>>
        BY ONLY <3>2, GaiOneIs
      <3> QED
        BY <1>5, <3>1, <3>3
    <2>2. GaiProduct(addrs, types) = FlattenSeq([i \in 1 .. n |-> <<p[i]>>])
      BY <1>2, <2>1 DEF GaiProduct
    <2>3. FlattenSeq([i \in 1 .. n |-> <<p[i]>>]) = p
      BY ONLY <1>4, n \in Nat \ {0}, FlattenOnes
    <2>4. Len(m) = n /\ \A i \in 1 .. n : m[i].addr = list[i].addr /\ m[i].type = types[1]
      BY <1>5 DEF GaiForTypes
    <2>5. DOMAIN m = 1 .. n
      BY <2>4, LenProperties
    <2>6. GaiPairs(m) = p
      BY <1>2, <1>3, <2>4, <2>5 DEF GaiPairs
    <2> QED
      BY <2>2, <2>3, <2>6
  <1>6. CASE k = 2
    <2>1. PICK q : q = [i \in 1 .. n |-> <<addrs[i], types[2]>>]
      OBVIOUS
    <2>2. q \in Seq(C) /\ Len(q) = n /\ \A i \in 1 .. n : q[i] = <<addrs[i], types[2]>>
      <3>1. q = [i \in 1 .. n |-> q[i]] /\ n \in Nat
        BY <2>1
      <3>2. \A i \in 1 .. n : q[i] = <<addrs[i], types[2]>> /\ q[i] \in C
        <4>1. types[2] \in GaiText
          BY <1>6
        <4> QED
          BY <1>1, <1>2, <2>1, <4>1
      <3>3. q \in Seq(C) /\ Len(q) = n
        BY ONLY <3>1, <3>2, GaiIsSeq
      <3> QED
        BY <3>2, <3>3
    <2>3. ASSUME NEW i \in 1 .. n PROVE [j \in DOMAIN types |-> <<addrs[i], types[j]>>] = <<p[i], q[i]>>
      <3>1. PICK f : f = [j \in 1 .. 2 |-> <<addrs[i], types[j]>>]
        OBVIOUS
      <3>2. f = [j \in 1 .. 2 |-> f[j]] /\ f[1] = p[i] /\ f[2] = q[i]
        BY <1>4, <2>2, <3>1
      <3>3. f = <<p[i], q[i]>>
        BY ONLY <3>2, GaiTwoIs
      <3> QED
        BY <1>6, <3>1, <3>3
    <2>4. GaiProduct(addrs, types) = FlattenSeq([i \in 1 .. n |-> <<p[i], q[i]>>])
      BY <1>2, <2>3 DEF GaiProduct
    <2>5. GaiTwos(FlattenSeq([i \in 1 .. n |-> <<p[i], q[i]>>]), C, p, q, n)
      BY ONLY <1>4, <2>2, n \in Nat \ {0}, FlattenTwos
    <2>6. /\ Len(m) = 2 * n
          /\ \A i \in 1 .. n : /\ m[2 * i - 1].addr = list[i].addr /\ m[2 * i - 1].type = types[1]
                               /\ m[2 * i].addr = list[i].addr /\ m[2 * i].type = types[2]
      BY <1>6 DEF GaiForTypes
    <2>7. PICK r : r = GaiPairs(m)
      OBVIOUS
    <2>8. DOMAIN m = 1 .. 2 * n /\ r = [i \in 1 .. 2 * n |-> r[i]] /\ \A i \in 1 .. 2 * n : r[i] = <<m[i].addr, m[i].type>>
      BY <2>6, <2>7, LenProperties DEF GaiPairs
    <2>9. \A i \in 1 .. n : r[2 * i - 1] = p[i] /\ r[2 * i] = q[i]
      <3> SUFFICES ASSUME NEW i \in 1 .. n PROVE r[2 * i - 1] = p[i] /\ r[2 * i] = q[i]
        OBVIOUS
      <3>1. 2 * i - 1 \in 1 .. 2 * n /\ 2 * i \in 1 .. 2 * n
        OBVIOUS
      <3>2. /\ r[2 * i - 1] = <<m[2 * i - 1].addr, m[2 * i - 1].type>>
            /\ r[2 * i] = <<m[2 * i].addr, m[2 * i].type>>
        BY <2>8, <3>1
      <3>3. /\ m[2 * i - 1].addr = addrs[i] /\ m[2 * i - 1].type = types[1]
            /\ m[2 * i].addr = addrs[i] /\ m[2 * i].type = types[2]
        BY <1>2, <2>6
      <3>4. p[i] = <<addrs[i], types[1]>> /\ q[i] = <<addrs[i], types[2]>>
        BY <1>4, <2>2
      <3> QED
        BY ONLY <3>2, <3>3, <3>4
    <2>10. r \in Seq(C) /\ Len(r) = 2 * n
      <3>1. \A i \in 1 .. 2 * n : r[i] \in C
        <4>1. ASSUME NEW j \in 1 .. 2 * n PROVE r[j] \in C
          <5>1. PICK i \in 1 .. n : j = 2 * i - 1 \/ j = 2 * i
            BY GaiTwosPlace
          <5>2. p[i] \in C /\ q[i] \in C
            BY <1>4, <2>2, ElementOfSeq
          <5> QED
            BY <2>9, <5>1, <5>2
        <4> QED
          BY <4>1
      <3>2. 2 * n \in Nat
        OBVIOUS
      <3> QED
        BY ONLY <2>8, <3>1, <3>2, GaiIsSeq
    <2>11. GaiTwos(r, C, p, q, n)
      BY <2>9, <2>10 DEF GaiTwos
    <2> QED
      BY <2>4, <2>5, <2>7, <2>11, GaiTwosSame
  <1> QED
    BY <1>5, <1>6

LEMMA GaiCallIs ==
    ASSUME NEW c \in GaiCalls
    PROVE  /\ c.lib \in {"gai", "free"} /\ c.canon \in BOOLEAN
           /\ c.host \in GaiText /\ c.serv \in GaiText /\ c.family \in GaiText /\ c.type \in GaiText
  BY GaiCallsAssumption DEF GaiText

\* What the resolver answers.
LEMMA GaiLookupIs ==
    ASSUME NEW host, NEW family \in {"inet", "inet6"}
    PROVE  GaiLookup(host, family) \in Seq(GaiText)
  <1>1. CASE host \in DOMAIN GaiNames
    <2>1. GaiNames[host] \in [{"inet", "inet6"} -> Seq(STRING)]
      BY <1>1, GaiNamesAssumption
    <2>2. GaiNames[host][family] \in Seq(STRING)
      BY <2>1
    <2>3. STRING \subseteq GaiText
      BY DEF GaiText
    <2>4. GaiNames[host][family] \in Seq(GaiText)
      BY <2>2, <2>3, SeqMonotonic
    <2> QED
      BY <1>1, <2>4 DEF GaiLookup
  <1>2. CASE host \notin DOMAIN GaiNames
    BY <1>2 DEF GaiLookup
  <1> QED
    BY <1>1, <1>2

\* A family before each name.
GaiOfFamily(family, names) == [j \in DOMAIN names |-> <<family, names[j]>>]

LEMMA GaiOfFamilyIs ==
    ASSUME NEW family \in {"inet", "inet6"}, NEW names \in Seq(GaiText)
    PROVE  /\ GaiOfFamily(family, names) \in Seq(GaiPlaces)
           /\ GaiOfFamily(family, names) = <<>> <=> names = <<>>
           /\ \A h \in GaiText : names = <<h>> => GaiOfFamily(family, names) = <<<<family, h>>>>
  <1>1. PICK n, f : n = Len(names) /\ f = GaiOfFamily(family, names)
    OBVIOUS
  <1>2. n \in Nat /\ DOMAIN names = 1 .. n /\ \A j \in 1 .. n : names[j] \in GaiText
    BY <1>1, LenProperties, ElementOfSeq
  <1>3. f = [j \in 1 .. n |-> <<family, names[j]>>]
    BY <1>1, <1>2 DEF GaiOfFamily
  <1>4. f \in Seq(GaiPlaces) /\ Len(f) = n
    <2>1. f = [j \in 1 .. n |-> f[j]]
      BY <1>3
    <2>2. \A j \in 1 .. n : f[j] \in GaiPlaces
      BY <1>2, <1>3 DEF GaiPlaces
    <2> QED
      BY ONLY <1>2, <2>1, <2>2, GaiIsSeq
  <1>5. f = <<>> <=> names = <<>>
    BY <1>1, <1>4, EmptySeq
  <1>6. ASSUME NEW h \in GaiText, names = <<h>> PROVE f = <<<<family, h>>>>
    <2>1. PICK x : x = <<family, h>>
      OBVIOUS
    <2>2. n = 1 /\ names[1] = h
      BY <1>1, <1>6
    <2>3. f = [j \in 1 .. 1 |-> f[j]] /\ f[1] = x
      BY <1>3, <2>1, <2>2
    <2>4. f = <<x>>
      BY ONLY <2>3, GaiOneIs
    <2> QED
      BY <2>1, <2>4
  <1> QED
    BY <1>1, <1>4, <1>5, <1>6

\* What one search finds.
LEMMA GaiFoundIs ==
    ASSUME NEW s \in GaiSearches, NEW host, NEW family, host = s[1], family = s[2]
    PROVE  /\ GaiFound(s) \in Seq(GaiPlaces) /\ host \in GaiText /\ family \in {"inet", "inet6"}
           /\ GaiLiteral4(host) => GaiFound(s) = IF family = "inet" THEN <<<<family, host>>>> ELSE <<>>
           /\ GaiLiteral6(host) => GaiFound(s) = IF family = "inet6" THEN <<<<family, host>>>> ELSE <<>>
           /\ ~GaiLiteral4(host) /\ ~GaiLiteral6(host) => GaiFound(s) = GaiOfFamily(family, GaiLookup(host, family))
           /\ ~(GaiLiteral4(host) /\ GaiLiteral6(host))
  <1>1. host \in GaiText /\ family \in {"inet", "inet6"}
    BY DEF GaiSearches
  <1>2. ~(GaiLiteral4(host) /\ GaiLiteral6(host))
    BY DEF GaiLiteral4, GaiLiteral6
  <1>3. PICK one, none : one = <<host>> /\ none = <<>>
    OBVIOUS
  <1>4. one \in Seq(GaiText) /\ none \in Seq(GaiText) /\ GaiLookup(host, family) \in Seq(GaiText)
    BY <1>1, <1>3, GaiLookupIs
  <1>5. GaiFound(s) = GaiOfFamily(family,
            IF GaiLiteral4(host) THEN (IF family = "inet" THEN one ELSE none)
            ELSE IF GaiLiteral6(host) THEN (IF family = "inet6" THEN one ELSE none)
            ELSE GaiLookup(host, family))
    BY <1>3 DEF GaiFound, GaiOfFamily
  <1>6. GaiOfFamily(family, one) = <<<<family, host>>>> /\ GaiOfFamily(family, none) = <<>>
    BY <1>1, <1>3, <1>4, GaiOfFamilyIs
  <1>7. GaiFound(s) \in Seq(GaiPlaces)
    BY <1>1, <1>4, <1>5, GaiOfFamilyIs
  <1> QED
    BY <1>1, <1>2, <1>5, <1>6, <1>7

\* The first search and the others.
LEMMA GaiToFindIs ==
    ASSUME NEW s \in Seq(GaiSearches), Len(s) <= 2
    PROVE  /\ GaiToFind(s) \in Seq(GaiPlaces)
           /\ s # <<>> => /\ GaiToFind(s) = GaiFound(s[1]) \o GaiToFind(Tail(s)) /\ s[1] \in GaiSearches
                          /\ Tail(s) \in Seq(GaiSearches) /\ Len(Tail(s)) = Len(s) - 1
                          /\ \A i \in 1 .. Len(s) - 1 : Tail(s)[i] = s[i + 1]
                          /\ GaiToFind(Tail(s)) \in Seq(GaiPlaces)
  <1>0. Len(s) \in Nat /\ \A i \in 1 .. Len(s) : s[i] \in GaiSearches /\ GaiFound(s[i]) \in Seq(GaiPlaces)
    <2>1. \A i \in 1 .. Len(s) : s[i] \in GaiSearches
      BY ElementOfSeq
    <2> QED
      BY <2>1, GaiFoundIs
  <1>1. CASE s = <<>>
    <2>1. GaiToFind(s) = <<>>
      BY <1>1 DEF GaiToFind
    <2>2. GaiToFind(s) \in Seq(GaiPlaces)
      BY <2>1, EmptySeq
    <2> QED
      BY <1>1, <2>2
  <1>2. CASE s # <<>>
    <2>1. Len(s) = 1 \/ Len(s) = 2
      <3>1. Len(s) # 0
        BY <1>2, EmptySeq
      <3>2. PICK k : k = Len(s)
        OBVIOUS
      <3>3. k \in Nat /\ k <= 2 /\ k # 0
        BY <1>0, <3>1, <3>2
      <3> QED
        BY <3>2, <3>3
    <2>2. PICK t : t = Tail(s)
      OBVIOUS
    <2>3. t \in Seq(GaiSearches) /\ Len(t) = Len(s) - 1 /\ \A i \in 1 .. Len(s) - 1 : t[i] = s[i + 1]
      BY <1>2, <2>2, HeadTailProperties
    <2>4. CASE Len(s) = 1
      <3>1. GaiToFind(s) = GaiFound(s[1]) /\ GaiToFind(t) = <<>> /\ GaiFound(s[1]) \in Seq(GaiPlaces)
        BY <1>0, <2>3, <2>4 DEF GaiToFind
      <3>2. GaiFound(s[1]) \o <<>> = GaiFound(s[1])
        BY <3>1, ConcatEmptySeq
      <3> QED
        BY <1>0, <2>2, <2>3, <2>4, <3>1, <3>2
    <2>5. CASE Len(s) = 2
      <3>1. /\ GaiToFind(s) = GaiFound(s[1]) \o GaiFound(s[2]) /\ GaiToFind(t) = GaiFound(t[1]) /\ t[1] = s[2]
            /\ GaiFound(s[1]) \in Seq(GaiPlaces) /\ GaiFound(s[2]) \in Seq(GaiPlaces)
        BY <1>0, <2>3, <2>5 DEF GaiToFind
      <3>2. GaiFound(s[1]) \o GaiFound(s[2]) \in Seq(GaiPlaces)
        BY <3>1, ConcatProperties
      <3>3. GaiToFind(s) = GaiFound(s[1]) \o GaiToFind(t)
        BY <3>1
      <3>4. s[1] \in GaiSearches /\ GaiToFind(s) \in Seq(GaiPlaces) /\ GaiToFind(t) \in Seq(GaiPlaces)
        BY <1>0, <2>5, <3>1, <3>2
      <3> QED
        BY <2>2, <2>3, <3>3, <3>4
    <2> QED
      BY <2>1, <2>4, <2>5
  <1> QED
    BY <1>1, <1>2

\* The searches of a call, and that they find its addresses.
LEMMA GaiNsearchIs ==
    ASSUME NEW c \in GaiCalls, NEW s, s = ga_nsearch(c)
    PROVE  /\ s \in Seq(GaiSearches) /\ Len(s) <= 2
           /\ c.host # "none" => \A i \in 1 .. Len(s) : s[i][1] = c.host
           /\ GaiAddresses(c) = GaiToFind(s)
  <1>1. PICK host6 : host6 = IF c.host # "none" THEN c.host ELSE IF c.passive THEN "0::0" ELSE "0::1"
    OBVIOUS
  <1>2. PICK host4 : host4 = IF c.host # "none" THEN c.host ELSE IF c.passive THEN "0.0.0.0" ELSE "localhost"
    OBVIOUS
  <1>3. host6 \in GaiText /\ host4 \in GaiText /\ (c.host # "none" => host6 = c.host /\ host4 = c.host)
    <2>1. c.host \in GaiText
      BY GaiCallIs
    <2>2. "0::0" \in GaiText /\ "0::1" \in GaiText /\ "0.0.0.0" \in GaiText /\ "localhost" \in GaiText
      BY DEF GaiText
    <2> QED
      BY <1>1, <1>2, <2>1, <2>2
  <1>4. PICK x, y : x = <<host6, "inet6">> /\ y = <<host4, "inet">>
    OBVIOUS
  <1>5. x \in GaiSearches /\ y \in GaiSearches /\ x[1] = host6 /\ y[1] = host4
    BY <1>3, <1>4 DEF GaiSearches
  <1>6. PICK p, q : /\ p = IF c.family \in {"inet6", "unspec"} THEN <<x>> ELSE <<>>
                    /\ q = IF c.family \in {"inet", "unspec"} THEN <<y>> ELSE <<>>
    OBVIOUS
  <1>7. s = p \o q
    BY <1>1, <1>2, <1>4, <1>6 DEF ga_nsearch
  <1>8. /\ p \in Seq(GaiSearches) /\ q \in Seq(GaiSearches)
        /\ Len(p) <= 1 /\ Len(q) <= 1 /\ Len(p) \in Nat /\ Len(q) \in Nat
        /\ \A i \in 1 .. Len(p) : p[i][1] = host6
        /\ \A i \in 1 .. Len(q) : q[i][1] = host4
    <2>1. PICK u, v, e : u = <<x>> /\ v = <<y>> /\ e = <<>>
      OBVIOUS
    <2>2. /\ u \in Seq(GaiSearches) /\ Len(u) = 1 /\ u[1] = x
          /\ v \in Seq(GaiSearches) /\ Len(v) = 1 /\ v[1] = y
          /\ e \in Seq(GaiSearches) /\ Len(e) = 0
      BY <1>5, <2>1
    <2>3. (p = u \/ p = e) /\ (q = v \/ q = e)
      BY <1>6, <2>1
    <2>4. \A i \in 1 .. 1 : i = 1
      OBVIOUS
    <2>5. p \in Seq(GaiSearches) /\ Len(p) \in {0, 1} /\ \A i \in 1 .. Len(p) : p[i] = x
      <3>1. CASE p = u
        BY <2>2, <2>4, <3>1
      <3>2. CASE p = e
        BY <2>2, <3>2
      <3> QED
        BY <2>3, <3>1, <3>2
    <2>6. q \in Seq(GaiSearches) /\ Len(q) \in {0, 1} /\ \A i \in 1 .. Len(q) : q[i] = y
      <3>1. CASE q = v
        BY <2>2, <2>4, <3>1
      <3>2. CASE q = e
        BY <2>2, <3>2
      <3> QED
        BY <2>3, <3>1, <3>2
    <2> QED
      BY <1>5, <2>5, <2>6
  <1>9. /\ s \in Seq(GaiSearches) /\ Len(s) = Len(p) + Len(q)
        /\ \A i \in 1 .. Len(p) + Len(q) : s[i] = IF i <= Len(p) THEN p[i] ELSE q[i - Len(p)]
    BY <1>7, <1>8, ConcatProperties
  <1>10. ASSUME c.host # "none", NEW i \in 1 .. Len(s) PROVE s[i][1] = c.host
    <2>1. CASE i <= Len(p)
      BY <1>3, <1>8, <1>9, <1>10, <2>1
    <2>2. CASE ~(i <= Len(p))
      <3>1. i - Len(p) \in 1 .. Len(q)
        BY <1>8, <1>9, <2>2
      <3> QED
        BY <1>3, <1>8, <1>9, <1>10, <2>2, <3>1
    <2> QED
      BY <2>1, <2>2
  <1>11. Len(s) \in Nat /\ Len(s) <= 2
    BY <1>8, <1>9
  <1>12. PICK f, n : f = [i \in DOMAIN s |-> GaiFound(s[i])] /\ n = Len(s)
    OBVIOUS
  <1>13. GaiAddresses(c) = FlattenSeq(f)
    BY <1>12 DEF GaiAddresses, GaiFound
  <1>14. f = [i \in 1 .. n |-> f[i]] /\ n \in Nat /\ \A i \in 1 .. n : f[i] = GaiFound(s[i]) /\ f[i] \in Seq(GaiPlaces)
    <2>1. DOMAIN s = 1 .. n /\ n \in Nat /\ \A i \in 1 .. n : s[i] \in GaiSearches
      BY <1>9, <1>12, LenProperties, ElementOfSeq
    <2>2. f = [i \in 1 .. n |-> GaiFound(s[i])]
      BY <1>12, <2>1
    <2> QED
      BY <2>1, <2>2, GaiFoundIs
  <1>15. f \in Seq(Seq(GaiPlaces)) /\ Len(f) = n
    BY ONLY <1>14, GaiIsSeq
  <1>16. FlattenSeq(f) = GaiToFind(s)
    <2>1. CASE n = 0
      <3>1. f = <<>> /\ GaiToFind(s) = <<>>
        BY <1>12, <1>15, <2>1, EmptySeq DEF GaiToFind
      <3> QED
        BY <3>1, FlattenNone
    <2>2. CASE n # 0
      <3>1. n \in Nat \ {0}
        BY <1>14, <2>2
      <3>2. PICK g : FlatRuns(g, f, n) /\ FlattenSeq(f) = g[n]
        BY ONLY <1>15, <3>1, FlattenIs
      <3>3. \A k \in 1 .. n : g[k] = IF k = 1 THEN f[k] ELSE g[k - 1] \o f[k]
        BY <3>2 DEF FlatRuns
      <3>4. CASE n = 1
        BY <1>12, <1>14, <3>2, <3>3, <3>4 DEF GaiToFind
      <3>5. CASE n = 2
        <4>1. 1 \in 1 .. n /\ 2 \in 1 .. n /\ 2 - 1 = 1
          BY <3>5
        <4>2. g[2] = f[1] \o f[2]
          <5>1. g[1] = f[1]
            BY <3>3, <4>1
          <5>2. g[2] = g[2 - 1] \o f[2]
            <6>1. g[2] = IF 2 = 1 THEN f[2] ELSE g[2 - 1] \o f[2]
              BY <3>3, <4>1, Zenon
            <6> QED
              BY <6>1
          <5> QED
            BY <4>1, <5>1, <5>2
        <4>3. f[1] = GaiFound(s[1]) /\ f[2] = GaiFound(s[2])
          BY <1>14, <4>1
        <4>4. GaiToFind(s) = GaiFound(s[1]) \o GaiFound(s[2])
          BY <1>12, <3>5 DEF GaiToFind
        <4> QED
          BY <3>2, <3>5, <4>2, <4>3, <4>4
      <3> QED
        BY <1>11, <1>12, <2>2, <3>4, <3>5
    <2> QED
      BY <2>1, <2>2
  <1> QED
    BY <1>9, <1>10, <1>11, <1>13, <1>16

\* While nothing is returned and nothing freed that is not the call's own.
LEMMA GaiUnreturned ==
    ASSUME gaiPc' # "done", gaiFreed' = "none"
    PROVE  GaiSafe'
  BY DEF GaiSafe, GaiListRight, GaiFreesOwn, GaiLeaks

\* The invariant at each place of the program.
LEMMA GaiToSearching ==
    ASSUME gaiPc' \in {"search", "struct"}, gaiCall' \in GaiCalls, GaiSearching'
    PROVE  GaiInv'
  <1>1. gaiFreed' = "none" /\ gaiPc' # "done"
    BY DEF GaiSearching
  <1>2. GaiSafe'
    BY <1>1, GaiUnreturned
  <1> QED
    BY <1>1, <1>2 DEF GaiInv

LEMMA GaiToServing ==
    ASSUME gaiPc' = "serv", gaiCall' \in GaiCalls, GaiServing'
    PROVE  GaiInv'
  <1>1. gaiFreed' = "none" /\ gaiPc' # "done"
    BY DEF GaiServing
  <1>2. GaiSafe'
    BY <1>1, GaiUnreturned
  <1> QED
    BY <1>1, <1>2 DEF GaiInv

LEMMA GaiToUnix ==
    ASSUME gaiPc' = "unix", gaiCall' \in GaiCalls, GaiAtUnix'
    PROVE  GaiInv'
  <1>1. gaiFreed' = "none" /\ gaiPc' # "done"
    BY DEF GaiAtUnix
  <1>2. GaiSafe'
    BY <1>1, GaiUnreturned
  <1> QED
    BY <1>1, <1>2 DEF GaiInv

LEMMA GaiToBad ==
    ASSUME gaiPc' = "bad", gaiCall' \in GaiCalls, GaiFailing'
    PROVE  GaiInv'
  <1>1. gaiFreed' = "none" /\ gaiPc' # "done"
    BY DEF GaiFailing
  <1>2. GaiSafe'
    BY <1>1, GaiUnreturned
  <1> QED
    BY <1>1, <1>2 DEF GaiInv

LEMMA GaiToDone ==
    ASSUME gaiPc' = "done", gaiCall' \in GaiCalls, GaiSafe'
    PROVE  GaiInv'
  BY DEF GaiInv

\* Nothing is in the list, and nothing in the heap.
LEMMA GaiNothing ==
    ASSUME gaiList' = <<>>, gaiHeap' = 0, gaiSaved' = FALSE
    PROVE  GaiHeapRight(FALSE, FALSE)'
  <1>1. PICK l : l = gaiList'
    OBVIOUS
  <1>2. l \in Seq(GaiEntries) /\ Len(l) = 0
    BY <1>1, EmptySeq
  <1>3. GaiKept(l, FALSE, FALSE)
    BY <1>2 DEF GaiKept
  <1>4. GaiSavedCost' = 0
    BY DEF GaiSavedCost
  <1>5. GaiKept(gaiList', FALSE, FALSE)
    BY <1>1, <1>3
  <1>6. gaiHeap' = GaiCost(gaiList', FALSE, FALSE) + GaiSavedCost'
    BY <1>1, <1>2, <1>4 DEF GaiCost
  <1> QED
    BY <1>5, <1>6 DEF GaiHeapRight

LEMMA GaiEnterInv ==
    ASSUME GaiInv, GaiEnter
    PROVE  GaiInv'
  <1>1. GaiClean /\ gaiCall' \in GaiCalls /\ gaiInit' = GaiStarts(gaiCall'.lib) /\ gaiPc' = "check"
        /\ UNCHANGED <<gaiSearch, gaiTwo, gaiAddrs, gaiList, gaiSaved, gaiHeap, gaiRc, gaiFreed, gaiFailed>>
    BY DEF GaiInv, GaiEnter
  <1>2. GaiClean' /\ gaiFreed' = "none"
    BY <1>1 DEF GaiClean
  <1>3. GaiSafe'
    BY <1>1, <1>2, GaiUnreturned
  <1> QED
    BY <1>1, <1>2, <1>3 DEF GaiInv

LEMMA GaiCheckInv ==
    ASSUME GaiInv, GaiCheck
    PROVE  GaiInv'
  <1>1. PICK c, todo : c = gaiCall /\ todo = ga_nsearch(c)
    OBVIOUS
  <1>2. /\ gaiPc = "check" /\ c.lib = "gai" /\ c \in GaiCalls /\ GaiClean /\ gaiInit = GaiStarts(c.lib)
        /\ UNCHANGED <<gaiCall, gaiAddrs, gaiList, gaiInit, gaiSaved, gaiHeap, gaiFreed, gaiFailed>>
    BY <1>1 DEF GaiInv, GaiCheck
  <1>3. gaiInit' = TRUE /\ gaiCall' = c /\ gaiList' = <<>> /\ gaiAddrs' = <<>> /\ gaiHeap' = 0 /\ gaiSaved' = FALSE
        /\ gaiFreed' = "none" /\ gaiRc = "ok"
    BY <1>1, <1>2 DEF GaiClean, GaiStarts
  <1>4. GaiHeapRight(FALSE, FALSE)'
    BY <1>3, GaiNothing
  <1>5. GaiStarted'
    BY <1>3 DEF GaiStarted
  <1>6. CASE ga_echeck(c) # "ok" /\ GaiError(ga_echeck(c))
    <2>1. gaiPc' = "bad" /\ gaiRc' # "ok"
      BY <1>6 DEF GaiError
    <2>2. GaiFailing'
      BY <1>3, <1>4, <1>5, <2>1 DEF GaiFailing
    <2> QED
      BY <1>2, <1>3, <2>1, <2>2, GaiToBad
  <1>7. CASE c.host = "path" /\ gaiPc' = "unix" /\ UNCHANGED gaiRc
    <2>1. GaiAtUnix'
      BY <1>3, <1>4, <1>7 DEF GaiAtUnix
    <2> QED
      BY <1>2, <1>3, <1>7, <2>1, GaiToUnix
  <1>8. CASE /\ gaiPc' = IF todo = <<>> THEN "quit" ELSE "search"
             /\ gaiSearch' = todo /\ gaiTwo' = (Len(todo) = 2) /\ UNCHANGED gaiRc
    <2>1. CASE todo = <<>>
      <3>1. gaiPc' = "quit"
        BY <1>8, <2>1
      <3>2. GaiSafe'
        BY <1>3, <3>1, GaiUnreturned
      <3> QED
        BY <1>2, <1>3, <3>1, <3>2 DEF GaiInv
    <2>2. CASE todo # <<>>
      <3>1. gaiPc' = "search"
        BY <1>8, <2>2
      <3>2. /\ todo \in Seq(GaiSearches) /\ Len(todo) <= 2 /\ GaiAddresses(c) = GaiToFind(todo)
            /\ c.host # "none" => \A i \in 1 .. Len(todo) : todo[i][1] = c.host
            /\ GaiToFind(todo) \in Seq(GaiPlaces)
        BY <1>1, <1>2, GaiNsearchIs, GaiToFindIs
      <3>3. (GaiAddrOf(gaiList') \o gaiAddrs') \o GaiToFind(todo) = GaiAddresses(c)
        <4>1. PICK l, a : l = gaiList' /\ a = GaiAddrOf(l)
          OBVIOUS
        <4>2. a = <<>>
          BY <1>3, <4>1 DEF GaiAddrOf
        <4>3. <<>> \o <<>> = <<>> /\ <<>> \o GaiToFind(todo) = GaiToFind(todo)
          BY <3>2, ConcatEmptySeq
        <4> QED
          BY <1>3, <3>2, <4>1, <4>2, <4>3
      <3>4. GaiSearchesLeft'
        BY <1>3, <1>8, <3>2, <3>3 DEF GaiSearchesLeft
      <3>5. GaiFresh(gaiList', c)
        BY <1>3 DEF GaiFresh
      <3>6. gaiAddrs' \in Seq(GaiPlaces)
        BY <1>3
      <3>7. GaiSearching'
        BY <1>2, <1>3, <1>4, <1>5, <1>8, <3>4, <3>5, <3>6 DEF GaiSearching
      <3> QED
        BY <1>2, <1>3, <3>1, <3>7, GaiToSearching
    <2> QED
      BY <2>1, <2>2
  <1>9. \/ ga_echeck(c) # "ok" /\ GaiError(ga_echeck(c))
        \/ c.host = "path" /\ gaiPc' = "unix" /\ UNCHANGED gaiRc
        \/ /\ gaiPc' = IF todo = <<>> THEN "quit" ELSE "search"
           /\ gaiSearch' = todo /\ gaiTwo' = (Len(todo) = 2) /\ UNCHANGED gaiRc
    BY <1>1 DEF GaiCheck
  <1> QED
    BY <1>6, <1>7, <1>8, <1>9

LEMMA GafCheckInv ==
    ASSUME GaiInv, GafCheck
    PROVE  GaiInv'
  <1>1. PICK c : c = gaiCall
    OBVIOUS
  <1>2. /\ gaiPc = "check" /\ c.lib = "free" /\ c \in GaiCalls /\ GaiClean /\ gaiInit = GaiStarts(c.lib)
        /\ UNCHANGED <<gaiCall, gaiTwo, gaiAddrs, gaiList, gaiInit, gaiSaved, gaiHeap, gaiFreed, gaiFailed>>
    BY <1>1 DEF GaiInv, GafCheck
  <1>3. gaiInit' = FALSE /\ gaiCall' = c /\ gaiList' = <<>> /\ gaiAddrs' = <<>> /\ gaiHeap' = 0 /\ gaiSaved' = FALSE
        /\ gaiFreed' = "none" /\ gaiRc = "ok"
    BY <1>1, <1>2 DEF GaiClean, GaiStarts
  <1>4. GaiHeapRight(FALSE, FALSE)'
    BY <1>3, GaiNothing
  <1>5. GaiStarted'
    BY <1>2, <1>3 DEF GaiStarted
  <1>6. CASE GafError(c) # "ok" /\ GaiError(GafError(c))
    <2>1. gaiPc' = "bad" /\ gaiRc' # "ok"
      BY <1>6 DEF GaiError
    <2>2. GaiFailing'
      BY <1>3, <1>4, <1>5, <2>1 DEF GaiFailing
    <2> QED
      BY <1>2, <1>3, <2>1, <2>2, GaiToBad
  <1>7. CASE gaiPc' = "unix" /\ UNCHANGED gaiRc
    <2>1. GaiAtUnix'
      BY <1>2, <1>3, <1>4, <1>7 DEF GaiAtUnix
    <2> QED
      BY <1>2, <1>3, <1>7, <2>1, GaiToUnix
  <1>8. CASE gaiPc' = "search" /\ gaiSearch' = <<<<GafHost(c), c.family>>>> /\ UNCHANGED gaiRc
    <2>1. GafHost(c) \in GaiText /\ c.family \in GaiText
      <3>1. c.host \in GaiText /\ c.family \in GaiText
        BY <1>2, GaiCallIs
      <3>2. "localhost" \in GaiText /\ "0.0.0.0" \in GaiText /\ "path" \in GaiText
        BY DEF GaiText
      <3> QED
        BY <3>1, <3>2 DEF GafHost
    <2>2. gaiSearch' \in Seq(GaiText \X GaiText)
      <3>1. PICK x : x = <<GafHost(c), c.family>>
        OBVIOUS
      <3>2. x \in GaiText \X GaiText
        BY <2>1, <3>1
      <3>3. <<x>> \in Seq(GaiText \X GaiText)
        BY <3>2
      <3> QED
        BY <1>8, <3>1, <3>3
    <2>3. GafSearchesLeft'
      BY <1>3, <2>2 DEF GafSearchesLeft
    <2>4. GaiFresh(gaiList', c) /\ gaiAddrs' \in Seq(GaiPlaces)
      BY <1>3 DEF GaiFresh
    <2>5. GaiSearching'
      BY <1>2, <1>3, <1>4, <1>5, <1>8, <2>3, <2>4 DEF GaiSearching
    <2> QED
      BY <1>2, <1>3, <1>8, <2>5, GaiToSearching
  <1>9. \/ GafError(c) # "ok" /\ GaiError(GafError(c))
        \/ gaiPc' = "unix" /\ UNCHANGED gaiRc
        \/ gaiPc' = "search" /\ gaiSearch' = <<<<GafHost(c), c.family>>>> /\ UNCHANGED gaiRc
    BY <1>1 DEF GafCheck
  <1> QED
    BY <1>6, <1>7, <1>8, <1>9

LEMMA GaiAddrOfIs ==
    ASSUME NEW list \in Seq(GaiEntries), NEW n, Len(list) = n
    PROVE  GaiAddrOf(list) \in Seq(GaiPlaces) /\ Len(GaiAddrOf(list)) = n
           /\ \A i \in 1 .. n : GaiAddrOf(list)[i] = list[i].addr
  <1>1. n \in Nat
    BY LenProperties
  <1>2. PICK f : f = [i \in 1 .. n |-> list[i].addr]
    OBVIOUS
  <1>3. f = [i \in 1 .. n |-> f[i]] /\ \A i \in 1 .. n : f[i] = list[i].addr
    BY <1>2
  <1>4. \A i \in 1 .. n : f[i] \in GaiPlaces
    <2> SUFFICES ASSUME NEW i \in 1 .. n PROVE f[i] \in GaiPlaces
      OBVIOUS
    <2>1. list[i] \in GaiEntries
      BY ElementOfSeq
    <2> QED
      BY <1>3, <2>1 DEF GaiEntries
  <1>5. f \in Seq(GaiPlaces) /\ Len(f) = n
    BY ONLY <1>1, <1>3, <1>4, GaiIsSeq
  <1>6. GaiAddrOf(list) = f
    BY <1>2 DEF GaiAddrOf
  <1> QED
    BY <1>3, <1>5, <1>6

\* libgai goes to the next search with the addresses of this one.
LEMMA GaiSearchStep ==
    ASSUME GaiInv, gaiPc = "search", gaiCall.lib = "gai", gaiSearch # <<>>, gaiSearch' = Tail(gaiSearch),
           gaiAddrs' = GaiFound(gaiSearch[1]),
           UNCHANGED <<gaiCall, gaiTwo, gaiList, gaiInit, gaiFreed, gaiRc>>,
           gaiPc' \in {"search", "struct"}, gaiPc' = "search" => gaiAddrs' = <<>>,
           GaiHeapRight(FALSE, FALSE)', gaiSaved' \in BOOLEAN,
           gaiSaved' => \/ gaiSaved
                        \/ /\ gaiCall.canon /\ gaiCall.host # "none" /\ gaiAddrs' # <<>>
                           /\ ~GaiLiteral4(gaiCall.host) /\ ~GaiLiteral6(gaiCall.host)
    PROVE  GaiInv'
  <1>1. GaiSearching /\ gaiCall \in GaiCalls /\ GaiSearchesLeft
    BY DEF GaiInv, GaiSearching
  <1>2. /\ gaiAddrs = <<>> /\ GaiFresh(gaiList, gaiCall) /\ GaiStarted /\ gaiRc = "ok" /\ gaiFreed = "none"
        /\ GaiKept(gaiList, FALSE, FALSE)
    BY <1>1 DEF GaiSearching, GaiHeapRight
  <1>3. PICK c, s, l, a, f, t : /\ c = gaiCall /\ s = gaiSearch /\ l = gaiList /\ a = GaiAddrOf(l)
                                /\ f = GaiFound(s[1]) /\ t = Tail(s)
    OBVIOUS
  <1>4. /\ s \in Seq(GaiSearches) /\ Len(s) <= 2 /\ (Len(s) = 2 => gaiTwo) /\ s # <<>>
        /\ c.host # "none" => \A i \in 1 .. Len(s) : s[i][1] = c.host
        /\ (a \o <<>>) \o GaiToFind(s) = GaiAddresses(c)
        /\ l \in Seq(GaiEntries)
    BY <1>1, <1>2, <1>3 DEF GaiSearchesLeft, GaiKept
  <1>5. a \in Seq(GaiPlaces)
    BY <1>3, <1>4, GaiAddrOfIs
  <1>6. /\ GaiToFind(s) = f \o GaiToFind(t) /\ s[1] \in GaiSearches
        /\ t \in Seq(GaiSearches) /\ Len(t) = Len(s) - 1 /\ \A i \in 1 .. Len(s) - 1 : t[i] = s[i + 1]
        /\ GaiToFind(t) \in Seq(GaiPlaces) /\ Len(s) \in Nat
    BY <1>3, <1>4, GaiToFindIs, LenProperties
  <1>7. f \in Seq(GaiPlaces)
    BY <1>3, <1>6, GaiFoundIs
  <1>8. (a \o f) \o GaiToFind(t) = GaiAddresses(c)
    <2>1. a \o <<>> = a
      BY <1>5, ConcatEmptySeq
    <2>2. (a \o f) \o GaiToFind(t) = a \o (f \o GaiToFind(t))
      <3>1. PICK g : g = GaiToFind(t)
        OBVIOUS
      <3>2. g \in Seq(GaiPlaces)
        BY <1>6, <3>1
      <3>3. (a \o f) \o g = a \o (f \o g)
        BY ONLY <1>5, <1>7, <3>2, ConcatAssociative
      <3> QED
        BY <3>1, <3>3
    <2> QED
      BY <1>4, <1>6, <2>1, <2>2
  <1>9. Len(t) <= 2 /\ ~(Len(t) = 2)
    <2>1. PICK p, q : p = Len(s) /\ q = Len(t)
      OBVIOUS
    <2>2. p \in Nat /\ p <= 2 /\ q = p - 1
      BY <1>4, <1>6, <2>1
    <2>3. q <= 2 /\ q # 2
      BY ONLY <2>2
    <2> QED
      BY <2>1, <2>3
  <1>10. c.host # "none" => \A i \in 1 .. Len(t) : t[i][1] = c.host
    <2> SUFFICES ASSUME c.host # "none", NEW i \in 1 .. Len(t) PROVE t[i][1] = c.host
      OBVIOUS
    <2>1. i \in 1 .. Len(s) - 1 /\ i + 1 \in 1 .. Len(s)
      BY <1>6
    <2> QED
      BY <1>4, <1>6, <2>1
  <1>11. gaiSaved' => /\ c.canon /\ c.host # "none" /\ ~GaiLiteral4(c.host) /\ ~GaiLiteral6(c.host)
                      /\ l # <<>> \/ f # <<>>
    BY <1>1, <1>2, <1>3 DEF GaiSearchesLeft
  <1>12. gaiTwo \/ t = <<>>
    <2>1. CASE Len(s) = 2
      BY <1>4, <2>1
    <2>2. CASE Len(s) # 2
      <3>1. Len(t) = 0
        <4>1. Len(s) # 0
          BY <1>4, EmptySeq
        <4> QED
          BY <1>4, <1>6, <2>2, <4>1
      <3> QED
        BY <1>6, <3>1, EmptySeq
    <2> QED
      BY <2>1, <2>2
  <1>13. GaiSearchesLeft'
    BY <1>3, <1>6, <1>8, <1>9, <1>10, <1>11, <1>12 DEF GaiSearchesLeft
  <1>14. GaiStarted'
    <2>1. gaiInit = TRUE
      BY <1>2 DEF GaiStarted
    <2> QED
      BY <2>1 DEF GaiStarted
  <1>15. GaiFresh(gaiList', gaiCall')
    BY <1>2 DEF GaiFresh
  <1>16. gaiAddrs' \in Seq(GaiPlaces)
    BY <1>3, <1>7
  <1>17. GaiSearching'
    BY <1>2, <1>13, <1>14, <1>15, <1>16 DEF GaiSearching
  <1> QED
    BY <1>1, <1>17, GaiToSearching

\* A step that leaves the list and the heap alone.
LEMMA GaiHeapSame ==
    ASSUME GaiHeapRight(FALSE, FALSE), UNCHANGED <<gaiList, gaiHeap, gaiSaved>>
    PROVE  GaiHeapRight(FALSE, FALSE)'
  <1>1. GaiKept(gaiList, FALSE, FALSE) /\ gaiHeap = GaiCost(gaiList, FALSE, FALSE) + GaiSavedCost
    BY DEF GaiHeapRight
  <1>2. GaiKept(gaiList', FALSE, FALSE)
    BY <1>1
  <1>3. gaiHeap' = GaiCost(gaiList', FALSE, FALSE) + GaiSavedCost'
    BY <1>1 DEF GaiCost, GaiSavedCost
  <1> QED
    BY <1>2, <1>3 DEF GaiHeapRight

\* An error of the searches, after which nothing that was saved is forgotten.
LEMMA GaiSearchFails ==
    ASSUME gaiCall \in GaiCalls, GaiSearching, UNCHANGED <<gaiCall, gaiList, gaiHeap, gaiSaved, gaiInit, gaiAddrs, gaiFreed>>,
           gaiPc' = "bad", gaiRc' # "ok", ~gaiSaved
    PROVE  GaiInv'
  <1>1. GaiHeapRight(FALSE, FALSE)'
    BY GaiHeapSame DEF GaiSearching
  <1>2. GaiStarted'
    BY DEF GaiSearching, GaiStarted
  <1>3. GaiFailing'
    <2>1. \E named, short \in BOOLEAN : GaiHeapRight(named, short)'
      BY <1>1
    <2> QED
      BY <1>2, <2>1 DEF GaiFailing, GaiSearching
  <1> QED
    BY <1>3, GaiToBad

LEMMA GaiSearchNextInv ==
    ASSUME GaiInv, GaiSearchNext
    PROVE  GaiInv'
  <1>1. PICK host, family, literal, found, c, s :
            /\ c = gaiCall /\ s = gaiSearch /\ host = s[1][1] /\ family = s[1][2]
            /\ literal = (IF GaiLiteral4(host) THEN "inet" ELSE "inet6") /\ found = GaiLookup(host, family)
    OBVIOUS
  <1>2. /\ gaiPc = "search" /\ c.lib = "gai" /\ gaiSearch # <<>> /\ gaiSearch' = Tail(gaiSearch)
        /\ UNCHANGED <<gaiCall, gaiTwo, gaiList, gaiInit, gaiFreed>>
    BY <1>1 DEF GaiSearchNext
  <1>3. GaiSearching /\ c \in GaiCalls /\ GaiSearchesLeft
    BY <1>1, <1>2 DEF GaiInv, GaiSearching
  <1>4. gaiAddrs = <<>> /\ gaiRc = "ok" /\ GaiHeapRight(FALSE, FALSE) /\ gaiSaved \in BOOLEAN
    BY <1>2, <1>3 DEF GaiSearching
  <1>5. /\ s \in Seq(GaiSearches) /\ Len(s) <= 2 /\ s # <<>>
        /\ c.host # "none" => \A i \in 1 .. Len(s) : s[i][1] = c.host
    BY <1>1, <1>2, <1>3 DEF GaiSearchesLeft
  <1>6. s[1] \in GaiSearches /\ 1 \in 1 .. Len(s)
    <2>1. Len(s) \in Nat /\ Len(s) # 0
      BY <1>5, LenProperties, EmptySeq
    <2> QED
      BY <1>5, <2>1, ElementOfSeq
  <1>7. PICK f : f = GaiFound(s[1])
    OBVIOUS
  <1>8. /\ f \in Seq(GaiPlaces) /\ host \in GaiText /\ family \in {"inet", "inet6"}
        /\ GaiLiteral4(host) => f = IF family = "inet" THEN <<<<family, host>>>> ELSE <<>>
        /\ GaiLiteral6(host) => f = IF family = "inet6" THEN <<<<family, host>>>> ELSE <<>>
        /\ ~GaiLiteral4(host) /\ ~GaiLiteral6(host) => f = GaiOfFamily(family, found)
        /\ ~(GaiLiteral4(host) /\ GaiLiteral6(host))
    BY <1>1, <1>6, <1>7, GaiFoundIs
  <1>9. found \in Seq(GaiText)
    BY <1>1, <1>8, GaiLookupIs
  <1>10. (c.host # "none" => host = c.host)
    BY <1>1, <1>5, <1>6
  <1>11. gaiSaved => ~GaiLiteral4(host) /\ ~GaiLiteral6(host) /\ gaiTwo
    BY <1>1, <1>2, <1>3, <1>10 DEF GaiSearchesLeft
  <1>12. CASE /\ GaiLiteral4(host) \/ GaiLiteral6(host)
              /\ GaiError("ADDRFAMILY") /\ UNCHANGED <<gaiAddrs, gaiSaved, gaiHeap>>
    <2>1. gaiPc' = "bad" /\ gaiRc' # "ok"
      BY <1>12 DEF GaiError
    <2> QED
      BY <1>1, <1>2, <1>3, <1>11, <1>12, <2>1, GaiSearchFails
  <1>13. CASE /\ GaiLiteral4(host) \/ GaiLiteral6(host)
              /\ IF family = literal THEN gaiAddrs' = <<<<family, host>>>> /\ gaiPc' = "struct"
                 ELSE UNCHANGED <<gaiAddrs, gaiPc>>
              /\ UNCHANGED <<gaiRc, gaiSaved, gaiHeap>>
    <2>1. f = IF family = literal THEN <<<<family, host>>>> ELSE <<>>
      BY <1>1, <1>8, <1>13
    <2>2. gaiAddrs' = f /\ gaiPc' \in {"search", "struct"} /\ (gaiPc' = "search" => gaiAddrs' = <<>>)
      BY <1>2, <1>4, <1>13, <2>1
    <2>3. GaiHeapRight(FALSE, FALSE)'
      BY <1>2, <1>4, <1>13, GaiHeapSame
    <2> QED
      BY <1>1, <1>2, <1>4, <1>7, <1>13, <2>2, <2>3, GaiSearchStep
  <1>14. CASE /\ ~GaiLiteral4(host) /\ ~GaiLiteral6(host) /\ found = <<>>
              /\ gaiTwo /\ UNCHANGED <<gaiPc, gaiRc, gaiAddrs, gaiSaved, gaiHeap>>
    <2>1. GaiOfFamily(family, found) = <<>> <=> found = <<>>
      BY <1>8, <1>9, GaiOfFamilyIs
    <2>3. f = GaiOfFamily(family, found)
      BY <1>8, <1>14
    <2>4. f = <<>>
      BY <1>14, <2>1, <2>3
    <2>2. gaiAddrs' = f /\ gaiPc' \in {"search", "struct"} /\ (gaiPc' = "search" => gaiAddrs' = <<>>)
      BY <1>2, <1>4, <1>14, <2>4
    <2>5. GaiHeapRight(FALSE, FALSE)'
      BY <1>2, <1>4, <1>14, GaiHeapSame
    <2> QED
      BY <1>1, <1>2, <1>4, <1>7, <1>14, <2>2, <2>5, GaiSearchStep
  <1>15. CASE ~gaiTwo /\ GaiError("NONAME") /\ UNCHANGED <<gaiAddrs, gaiSaved, gaiHeap>>
    <2>1. gaiPc' = "bad" /\ gaiRc' # "ok"
      BY <1>15 DEF GaiError
    <2> QED
      BY <1>1, <1>2, <1>3, <1>11, <1>15, <2>1, GaiSearchFails
  <1>16. ASSUME NEW save, save = (gaiCall.host # "none" /\ gaiCall.canon /\ ~gaiSaved),
                ~GaiLiteral4(host), ~GaiLiteral6(host), found # <<>>,
                gaiAddrs' = [i \in DOMAIN found |-> <<family, found[i]>>],
                gaiSaved' = (gaiSaved \/ save), gaiHeap' = gaiHeap + (IF save THEN 1 ELSE 0),
                gaiPc' = "struct", UNCHANGED gaiRc
         PROVE  GaiInv'
    <2>1. f = GaiOfFamily(family, found) /\ f # <<>>
      BY <1>8, <1>9, <1>16, GaiOfFamilyIs
    <2>2. gaiAddrs' = f
      BY <1>16, <2>1 DEF GaiOfFamily
    <2>3. c.canon \in BOOLEAN
      BY <1>3, GaiCallIs
    <2>4. save \in BOOLEAN /\ gaiSaved' \in BOOLEAN /\ (save => ~gaiSaved)
      BY <1>4, <1>16
    <2>5. GaiSavedCost' = GaiSavedCost + (IF save THEN 1 ELSE 0)
      BY <1>4, <1>16, <2>4 DEF GaiSavedCost
    <2>6. GaiKept(gaiList', FALSE, FALSE)
      BY <1>2, <1>4 DEF GaiHeapRight
    <2>7. gaiHeap' = GaiCost(gaiList', FALSE, FALSE) + GaiSavedCost'
      <3>1. PICK k, g, x : k = Len(gaiList) /\ g = GaiSavedCost /\ x = IF save THEN 1 ELSE 0
        OBVIOUS
      <3>2. k \in Nat
        BY <1>4, <3>1, LenProperties DEF GaiHeapRight, GaiKept
      <3>3. g \in Nat
        BY <3>1 DEF GaiSavedCost
      <3>4. x \in Nat
        BY <3>1
      <3>5. gaiHeap = 2 * k + g
        BY <1>4, <3>1, <3>2, <3>3 DEF GaiHeapRight, GaiCost
      <3>6. GaiSavedCost' = g + x /\ gaiHeap' = gaiHeap + x /\ Len(gaiList') = k
        BY <1>2, <1>16, <2>5, <3>1
      <3> QED
        BY <3>2, <3>3, <3>4, <3>5, <3>6 DEF GaiCost
    <2>8. GaiHeapRight(FALSE, FALSE)'
      BY <2>6, <2>7 DEF GaiHeapRight
    <2>9. gaiSaved' => \/ gaiSaved
                       \/ /\ gaiCall.canon /\ gaiCall.host # "none" /\ gaiAddrs' # <<>>
                          /\ ~GaiLiteral4(gaiCall.host) /\ ~GaiLiteral6(gaiCall.host)
      BY <1>1, <1>10, <1>16, <2>1, <2>2
    <2> QED
      BY <1>1, <1>2, <1>7, <1>16, <2>2, <2>4, <2>8, <2>9, GaiSearchStep
  <1>17. CASE ~gaiSaved /\ GaiError("MEMORY") /\ UNCHANGED <<gaiAddrs, gaiSaved, gaiHeap>>
    <2>1. gaiPc' = "bad" /\ gaiRc' # "ok"
      BY <1>17 DEF GaiError
    <2> QED
      BY <1>1, <1>2, <1>3, <1>17, <2>1, GaiSearchFails
  <1>18. PICK save : save = (gaiCall.host # "none" /\ gaiCall.canon /\ ~gaiSaved)
    OBVIOUS
  <1>19. \/ /\ GaiLiteral4(host) \/ GaiLiteral6(host)
            /\ GaiError("ADDRFAMILY") /\ UNCHANGED <<gaiAddrs, gaiSaved, gaiHeap>>
         \/ /\ GaiLiteral4(host) \/ GaiLiteral6(host)
            /\ IF family = literal THEN gaiAddrs' = <<<<family, host>>>> /\ gaiPc' = "struct"
               ELSE UNCHANGED <<gaiAddrs, gaiPc>>
            /\ UNCHANGED <<gaiRc, gaiSaved, gaiHeap>>
         \/ /\ ~GaiLiteral4(host) /\ ~GaiLiteral6(host) /\ found = <<>>
            /\ gaiTwo /\ UNCHANGED <<gaiPc, gaiRc, gaiAddrs, gaiSaved, gaiHeap>>
         \/ ~gaiTwo /\ GaiError("NONAME") /\ UNCHANGED <<gaiAddrs, gaiSaved, gaiHeap>>
         \/ /\ ~GaiLiteral4(host) /\ ~GaiLiteral6(host) /\ found # <<>>
            /\ gaiAddrs' = [i \in DOMAIN found |-> <<family, found[i]>>]
            /\ gaiSaved' = (gaiSaved \/ save) /\ gaiHeap' = gaiHeap + (IF save THEN 1 ELSE 0)
            /\ gaiPc' = "struct" /\ UNCHANGED gaiRc
         \/ ~gaiSaved /\ GaiError("MEMORY") /\ UNCHANGED <<gaiAddrs, gaiSaved, gaiHeap>>
    BY <1>1, <1>18, Zenon DEF GaiSearchNext
  <1> QED
    BY <1>12, <1>13, <1>14, <1>15, <1>16, <1>17, <1>18, <1>19

LEMMA GafSearchInv ==
    ASSUME GaiInv, GafSearch
    PROVE  GaiInv'
  <1>1. PICK host, found, c, s :
            /\ c = gaiCall /\ s = gaiSearch /\ host = s[1][1]
            /\ found = IF GaiLiteral4(host) THEN <<host>> ELSE GaiLookup(host, "inet")
    OBVIOUS
  <1>2. /\ gaiPc = "search" /\ c.lib = "free" /\ gaiSearch # <<>> /\ gaiSearch' = <<>>
        /\ UNCHANGED <<gaiCall, gaiTwo, gaiList, gaiSaved, gaiHeap, gaiFreed, gaiFailed>>
    BY <1>1 DEF GafSearch
  <1>3. GaiSearching /\ c \in GaiCalls /\ GafSearchesLeft /\ gaiSaved = FALSE
    BY <1>1, <1>2 DEF GaiInv, GaiSearching, GafSearchesLeft
  <1>4. CASE /\ gaiPc' = "bad" /\ gaiRc' # "ok" /\ UNCHANGED <<gaiAddrs, gaiInit>>
    BY <1>1, <1>2, <1>3, <1>4, GaiSearchFails
  <1>5. CASE /\ gaiAddrs' = [i \in DOMAIN found |-> <<"inet", found[i]>>]
             /\ gaiInit' = TRUE /\ gaiPc' = "struct" /\ UNCHANGED gaiRc
    <2>1. s[1] \in GaiText \X GaiText
      <3>1. s \in Seq(GaiText \X GaiText) /\ s # <<>>
        BY <1>1, <1>2, <1>3 DEF GafSearchesLeft
      <3>2. Len(s) \in Nat /\ Len(s) # 0
        BY <3>1, LenProperties, EmptySeq
      <3> QED
        BY <3>1, <3>2, ElementOfSeq
    <2>2. host \in GaiText
      BY <1>1, <2>1
    <2>3. found \in Seq(GaiText)
      <3>1. GaiLookup(host, "inet") \in Seq(GaiText)
        BY GaiLookupIs
      <3>2. <<host>> \in Seq(GaiText)
        BY <2>2
      <3> QED
        BY <1>1, <3>1, <3>2
    <2>4. gaiAddrs' \in Seq(GaiPlaces)
      <3>1. gaiAddrs' = GaiOfFamily("inet", found)
        BY <1>5 DEF GaiOfFamily
      <3> QED
        BY <2>3, <3>1, GaiOfFamilyIs
    <2>5. GaiHeapRight(FALSE, FALSE)'
      BY <1>2, <1>3, GaiHeapSame DEF GaiSearching
    <2>6. GaiStarted'
      BY <1>5 DEF GaiStarted
    <2>7. GaiFresh(gaiList', gaiCall')
      BY <1>2, <1>3 DEF GaiSearching
    <2>8. GafSearchesLeft'
      BY <1>2, <1>3 DEF GafSearchesLeft
    <2>9. GaiSearching'
      BY <1>1, <1>2, <1>3, <1>5, <2>4, <2>5, <2>6, <2>7, <2>8 DEF GaiSearching
    <2> QED
      BY <1>1, <1>2, <1>3, <1>5, <2>9, GaiToSearching
  <1>6. \/ /\ gaiPc' = "bad" /\ gaiRc' # "ok" /\ UNCHANGED <<gaiAddrs, gaiInit>>
        \/ /\ gaiAddrs' = [i \in DOMAIN found |-> <<"inet", found[i]>>]
           /\ gaiInit' = TRUE /\ gaiPc' = "struct" /\ UNCHANGED gaiRc
    BY <1>1 DEF GafSearch, GaiError
  <1> QED
    BY <1>4, <1>5, <1>6

\* The first of the addresses to be made entries of.
LEMMA GaiHeadMoves ==
    ASSUME NEW a \in Seq(GaiPlaces), a # <<>>, NEW u \in Seq(GaiPlaces), NEW v,
           v = Append(u, Head(a))
    PROVE  /\ Head(a) \in GaiPlaces /\ Tail(a) \in Seq(GaiPlaces)
           /\ v \o Tail(a) = u \o a
  <1>1. PICK h, t : h = Head(a) /\ t = Tail(a)
    OBVIOUS
  <1>2. Len(a) \in Nat /\ Len(a) # 0 /\ h = a[1] /\ t \in Seq(GaiPlaces)
    BY <1>1, LenProperties, EmptySeq, HeadTailProperties
  <1>3. h \in GaiPlaces
    BY <1>2, ElementOfSeq
  <1>4. PICK x : x = <<h>>
    OBVIOUS
  <1>5. x \in Seq(GaiPlaces)
    BY <1>3, <1>4
  <1>6. a = x \o t
    <2>1. PICK y : y = x \o t
      OBVIOUS
    <2>2. y \in Seq(GaiPlaces) /\ Len(y) = 1 + Len(t)
          /\ \A i \in 1 .. 1 + Len(t) : y[i] = IF i <= 1 THEN x[i] ELSE t[i - 1]
      BY <1>2, <1>4, <1>5, <2>1, ConcatProperties
    <2>3. Len(t) = Len(a) - 1 /\ \A i \in 1 .. Len(t) : t[i] = a[i + 1]
      BY <1>1, <1>2, HeadTailProperties
    <2>4. \A i \in 1 .. Len(a) : y[i] = a[i]
      <3> SUFFICES ASSUME NEW i \in 1 .. Len(a) PROVE y[i] = a[i]
        OBVIOUS
      <3>1. CASE i = 1
        <4>1. x[1] = h
          BY <1>4
        <4> QED
          BY <1>2, <2>2, <2>3, <3>1, <4>1
      <3>2. CASE i # 1
        <4>1. i - 1 \in 1 .. Len(t) /\ i \in 1 .. 1 + Len(t) /\ ~(i <= 1) /\ (i - 1) + 1 = i
          BY <1>2, <2>3, <3>2
        <4>2. y[i] = t[i - 1]
          BY <2>2, <4>1
        <4> QED
          BY <2>3, <4>1, <4>2
      <3> QED
        BY <3>1, <3>2
    <2>5. Len(y) = Len(a)
      BY <1>2, <2>2, <2>3
    <2>6. y = a
      BY <2>2, <2>4, <2>5, SeqEqual
    <2> QED
      BY <2>1, <2>6
  <1>7. v = u \o x
    BY <1>1, <1>3, <1>4, AppendIsConcat
  <1>8. (u \o x) \o t = u \o (x \o t)
    BY <1>2, <1>5, ConcatAssociative
  <1> QED
    BY <1>1, <1>2, <1>3, <1>6, <1>7, <1>8

\* One entry more.
LEMMA GaiOneMore ==
    ASSUME NEW l \in Seq(GaiEntries), NEW e \in GaiEntries, NEW m, m = Append(l, e), NEW c,
           GaiFresh(l, c), e.type = c.type, e.clone = (c.type = "0")
    PROVE  /\ GaiAddrOf(m) = Append(GaiAddrOf(l), e.addr) /\ GaiAddrOf(l) \in Seq(GaiPlaces)
           /\ GaiFresh(m, c) /\ m # <<>>
  <1>1. PICK k : k = Len(l)
    OBVIOUS
  <1>2. /\ k \in Nat /\ m \in Seq(GaiEntries) /\ Len(m) = k + 1 /\ m[k + 1] = e
        /\ \A i \in 1 .. k : m[i] = l[i]
    BY <1>1, AppendProperties, LenProperties
  <1>3. \A i \in 1 .. k : l[i].type = c.type /\ l[i].clone = (c.type = "0")
    BY <1>1 DEF GaiFresh
  <1>4. GaiFresh(m, c)
    <2> SUFFICES ASSUME NEW i \in 1 .. k + 1 PROVE m[i].type = c.type /\ m[i].clone = (c.type = "0")
      BY <1>2 DEF GaiFresh
    <2>1. CASE i = k + 1
      BY <1>2, <2>1
    <2>2. CASE i # k + 1
      <3>1. i \in 1 .. k
        BY <1>2, <2>2
      <3> QED
        BY <1>2, <1>3, <3>1
    <2> QED
      BY <2>1, <2>2
  <1>5. m # <<>>
    BY <1>2, EmptySeq
  <1>6. PICK u, v, d : u = GaiAddrOf(l) /\ v = GaiAddrOf(m) /\ d = e.addr
    OBVIOUS
  <1>7. u \in Seq(GaiPlaces) /\ Len(u) = k /\ \A i \in 1 .. k : u[i] = l[i].addr
    BY <1>1, <1>6, GaiAddrOfIs
  <1>8. v \in Seq(GaiPlaces) /\ Len(v) = k + 1 /\ \A i \in 1 .. k + 1 : v[i] = m[i].addr
    BY <1>2, <1>6, GaiAddrOfIs
  <1>9. d \in GaiPlaces
    BY <1>6 DEF GaiEntries
  <1>10. PICK w : w = Append(u, d)
    OBVIOUS
  <1>11. w \in Seq(GaiPlaces) /\ Len(w) = k + 1 /\ w[k + 1] = d /\ \A i \in 1 .. k : w[i] = u[i]
    BY <1>7, <1>9, <1>10, AppendProperties
  <1>12. \A i \in 1 .. k + 1 : v[i] = w[i]
    <2> SUFFICES ASSUME NEW i \in 1 .. k + 1 PROVE v[i] = w[i]
      OBVIOUS
    <2>1. CASE i = k + 1
      BY <1>2, <1>6, <1>8, <1>11, <2>1
    <2>2. CASE i # k + 1
      <3>1. i \in 1 .. k
        BY <1>2, <2>2
      <3> QED
        BY <1>2, <1>7, <1>8, <1>11, <3>1
    <2> QED
      BY <2>1, <2>2
  <1>13. v = w
    BY <1>8, <1>11, <1>12, SeqEqual
  <1> QED
    BY <1>4, <1>5, <1>6, <1>7, <1>10, <1>13

LEMMA GaiStructInv ==
    ASSUME GaiInv, GaiStruct
    PROVE  GaiInv'
  <1>1. PICK c, a, l : c = gaiCall /\ a = gaiAddrs /\ l = gaiList
    OBVIOUS
  <1>2. /\ gaiPc = "struct"
        /\ UNCHANGED <<gaiCall, gaiSearch, gaiTwo, gaiInit, gaiSaved, gaiFreed>>
    BY DEF GaiStruct
  <1>3. GaiSearching /\ c \in GaiCalls /\ gaiRc = "ok" /\ gaiFreed = "none" /\ gaiSaved \in BOOLEAN
    BY <1>1, <1>2 DEF GaiInv, GaiSearching
  <1>4. /\ GaiHeapRight(FALSE, FALSE) /\ GaiFresh(l, c) /\ GaiStarted /\ a \in Seq(GaiPlaces)
        /\ c.lib = "gai" => GaiSearchesLeft
        /\ c.lib = "free" => GafSearchesLeft
    BY <1>1, <1>3 DEF GaiSearching
  <1>5. CASE gaiAddrs = <<>> /\ gaiPc' = "search" /\ UNCHANGED <<gaiAddrs, gaiList, gaiHeap, gaiFailed, gaiRc>>
    <2>1. GaiHeapRight(FALSE, FALSE)'
      BY <1>2, <1>4, <1>5, GaiHeapSame
    <2>2. GaiStarted' /\ GaiFresh(gaiList', gaiCall')
      BY <1>1, <1>2, <1>4, <1>5 DEF GaiStarted
    <2>3. c.lib = "gai" => GaiSearchesLeft'
      BY <1>1, <1>2, <1>4, <1>5 DEF GaiSearchesLeft
    <2>4. c.lib = "free" => GafSearchesLeft'
      BY <1>1, <1>2, <1>4, <1>5 DEF GafSearchesLeft
    <2>5. GaiSearching'
      BY <1>1, <1>2, <1>3, <1>4, <1>5, <2>1, <2>2, <2>3, <2>4 DEF GaiSearching
    <2> QED
      BY <1>1, <1>2, <1>3, <1>5, <2>5, GaiToSearching
  <1>6. ASSUME NEW n \in 0 .. 2, gaiAddrs # <<>>, ga_aistruct(Head(gaiAddrs), gaiCall.type, n),
               gaiAddrs' = Tail(gaiAddrs),
               IF n < 2 THEN GaiError("MEMORY") ELSE UNCHANGED <<gaiPc, gaiRc>>
        PROVE  GaiInv'
    <2>1. PICK d, t, type : d = Head(a) /\ t = Tail(a) /\ type = c.type
      OBVIOUS
    <2>2. d \in GaiPlaces /\ t \in Seq(GaiPlaces)
      BY <1>1, <1>4, <1>6, <2>1, HeadTailProperties
    <2>3. type \in GaiText
      BY <1>3, <2>1, GaiCallIs
    <2>4. ga_aistruct(d, type, n)
      BY <1>1, <1>6, <2>1
    <2>5. /\ GaiHeapRight(FALSE, n = 1)'
          /\ n # 0 => /\ gaiList' = Append(gaiList, gaiList'[Len(gaiList) + 1])
                      /\ gaiList'[Len(gaiList) + 1].addr = d
                      /\ gaiList'[Len(gaiList) + 1].type = type
                      /\ gaiList'[Len(gaiList) + 1].clone = (type = "0")
                      /\ gaiList'[Len(gaiList) + 1] \in GaiEntries
          /\ n < 2 => gaiFailed'
      BY <1>2, <1>4, <1>6, <2>2, <2>3, <2>4, GaiStructKeeps
    <2>6. gaiInit = TRUE
      BY <1>1, <1>4, <1>6 DEF GaiStarted
    <2>7. GaiStarted'
      BY <1>2, <2>6 DEF GaiStarted
    <2>8. CASE n < 2
      <3>1. gaiPc' = "bad" /\ gaiRc' # "ok" /\ gaiFailed'
        BY <1>6, <2>5, <2>8 DEF GaiError
      <3>2. \E named, short \in BOOLEAN : GaiHeapRight(named, short)'
        BY <2>5
      <3>3. GaiFailing'
        BY <1>2, <1>3, <2>7, <3>1, <3>2 DEF GaiFailing
      <3> QED
        BY <1>1, <1>2, <1>3, <3>1, <3>3, GaiToBad
    <2>9. CASE ~(n < 2)
      <3>1. n = 2 /\ gaiPc' = "struct" /\ gaiRc' = "ok"
        BY <1>2, <1>3, <1>6, <2>9
      <3>2. GaiHeapRight(FALSE, FALSE)'
        <4>1. (n = 1) = FALSE
          BY <3>1
        <4> QED
          BY <2>5, <4>1
      <3>3. PICK e, m : e = gaiList'[Len(gaiList) + 1] /\ m = gaiList'
        OBVIOUS
      <3>4. m = Append(l, e) /\ e.addr = d /\ e.type = c.type /\ e.clone = (c.type = "0") /\ e \in GaiEntries
        BY <1>1, <2>1, <2>5, <3>1, <3>3
      <3>5. l \in Seq(GaiEntries)
        BY <1>1, <1>4 DEF GaiHeapRight, GaiKept
      <3>6. PICK u, v : u = GaiAddrOf(l) /\ v = GaiAddrOf(m)
        OBVIOUS
      <3>7. v = Append(u, d) /\ u \in Seq(GaiPlaces) /\ GaiFresh(m, c) /\ m # <<>>
        BY <1>4, <3>4, <3>5, <3>6, GaiOneMore
      <3>8. v \o t = u \o a
        BY <1>1, <1>4, <1>6, <2>1, <3>7, GaiHeadMoves
      <3>9. c.lib = "gai" => GaiSearchesLeft'
        <4> SUFFICES ASSUME c.lib = "gai" PROVE GaiSearchesLeft'
          OBVIOUS
        <4>1. GaiSearchesLeft
          BY <1>4
        <4>2. (u \o a) \o GaiToFind(gaiSearch) = GaiAddresses(c)
          BY <1>1, <3>6, <4>1 DEF GaiSearchesLeft
        <4>3. (GaiAddrOf(gaiList') \o gaiAddrs') \o GaiToFind(gaiSearch') = GaiAddresses(gaiCall')
          BY <1>1, <1>2, <1>6, <2>1, <3>3, <3>6, <3>8, <4>2
        <4>4. gaiList' # <<>>
          BY <3>3, <3>7
        <4> QED
          BY <1>2, <4>1, <4>3, <4>4 DEF GaiSearchesLeft
      <3>10. c.lib = "free" => GafSearchesLeft'
        BY <1>2, <1>4 DEF GafSearchesLeft
      <3>11. gaiAddrs' \in Seq(GaiPlaces) /\ GaiFresh(gaiList', gaiCall')
        BY <1>1, <1>2, <1>6, <2>1, <2>2, <3>3, <3>7
      <3>12. GaiSearching'
        BY <1>1, <1>2, <1>3, <2>7, <3>1, <3>2, <3>9, <3>10, <3>11 DEF GaiSearching
      <3> QED
        BY <1>1, <1>2, <1>3, <3>1, <3>12, GaiToSearching
    <2> QED
      BY <2>8, <2>9
  <1>7. \/ gaiAddrs = <<>> /\ gaiPc' = "search" /\ UNCHANGED <<gaiAddrs, gaiList, gaiHeap, gaiFailed, gaiRc>>
        \/ gaiAddrs # <<>> /\ \E n \in 0 .. 2 :
              /\ ga_aistruct(Head(gaiAddrs), gaiCall.type, n)
              /\ gaiAddrs' = Tail(gaiAddrs)
              /\ IF n < 2 THEN GaiError("MEMORY") ELSE UNCHANGED <<gaiPc, gaiRc>>
    BY Zenon DEF GaiStruct, GafStruct
  <1> QED
    BY <1>5, <1>6, <1>7

\* The list that is returned: an entry for each address and each type.
LEMMA GaiReturns ==
    ASSUME NEW c \in GaiCalls, NEW list \in Seq(GaiEntries), NEW n \in Nat \ {0}, Len(list) = n,
           NEW types, NEW k \in 1 .. 2, DOMAIN types = 1 .. k, \A j \in 1 .. k : types[j] \in GaiText,
           NEW named \in BOOLEAN, named = GaiName(c),
           NEW m, GaiKept(m, named, FALSE), GaiForTypes(m, list, n, types, k),
           c.lib = "gai" => /\ GaiAddrOf(list) = GaiAddresses(c)
                            /\ types = IF c.serv = "none" THEN <<c.type>> ELSE GaiTypes(c),
           gaiPc' = "done", gaiRc' = "ok", gaiFreed' = "none", gaiCall' = c, gaiList' = m
    PROVE  GaiInv'
  <1>1. m \in Seq(GaiEntries) /\ \A i \in 1 .. Len(m) : m[i].canon = (named /\ i = 1)
    BY DEF GaiKept
  <1>2. GaiPairs(m) = GaiProduct(GaiAddrOf(list), types)
    <2>1. PICK addrs : addrs = GaiAddrOf(list)
      OBVIOUS
    <2>2. GaiPairs(m) = GaiProduct(addrs, types)
      <3>1. /\ n \in Nat \ {0} /\ list \in Seq(GaiEntries) /\ Len(list) = n
            /\ k \in 1 .. 2 /\ DOMAIN types = 1 .. k /\ \A j \in 1 .. k : types[j] \in GaiText
            /\ m \in Seq(GaiEntries) /\ GaiForTypes(m, list, n, types, k)
        BY <1>1
      <3> QED
        BY ONLY <2>1, <3>1, GaiPairsRight
    <2> QED
      BY <2>1, <2>2
  <1>3. GaiListRight'
    <2> SUFFICES ASSUME c.lib = "gai"
                 PROVE  /\ GaiPairs(m) = GaiProduct(GaiAddresses(c), IF c.serv = "none" THEN <<c.type>> ELSE GaiTypes(c))
                        /\ \A i \in DOMAIN m : m[i].canon = (i = 1 /\ c.canon /\ c.host # "none")
      BY DEF GaiListRight, GaiPairs, GaiProduct
    <2>1. GaiPairs(m) = GaiProduct(GaiAddresses(c), IF c.serv = "none" THEN <<c.type>> ELSE GaiTypes(c))
      BY <1>2
    <2>2. c.canon \in BOOLEAN
      BY GaiCallIs
    <2>3. named = (c.canon /\ c.host # "none")
      BY <2>2 DEF GaiName
    <2>4. DOMAIN m = 1 .. Len(m)
      BY <1>1, LenProperties
    <2>5. \A i \in DOMAIN m : m[i].canon = (i = 1 /\ c.canon /\ c.host # "none")
      <3> SUFFICES ASSUME NEW i \in DOMAIN m PROVE m[i].canon = (i = 1 /\ c.canon /\ c.host # "none")
        OBVIOUS
      <3>1. m[i].canon = (named /\ i = 1)
        BY <1>1, <2>4
      <3>2. (named /\ i = 1) = (i = 1 /\ c.canon /\ c.host # "none")
        BY <2>3
      <3> QED
        BY <3>1, <3>2
    <2> QED
      BY <2>1, <2>5
  <1>4. GaiFreesOwn' /\ GaiLeaks'
    BY DEF GaiFreesOwn, GaiLeaks
  <1>5. GaiSafe'
    BY <1>3, <1>4 DEF GaiSafe
  <1> QED
    BY <1>5, GaiToDone

\* With no service to look for, the list is returned; else it is served.
LEMMA GaiToReturn ==
    ASSUME NEW c \in GaiCalls, NEW m, NEW named \in BOOLEAN, named = GaiName(c),
           GaiKept(m, named, FALSE), Len(m) >= 1, GaiFresh(m, c), GaiStarted',
           c.lib = "gai" => GaiAddrOf(m) = GaiAddresses(c),
           gaiHeap' = GaiCost(m, named, FALSE), gaiSaved' = FALSE,
           gaiPc' = IF c.serv = "none" THEN "done" ELSE "serv",
           gaiRc' = "ok", gaiFreed' = "none", gaiCall' = c, gaiList' = m
    PROVE  GaiInv'
  <1>1. PICK n : n = Len(m)
    OBVIOUS
  <1>2. m \in Seq(GaiEntries) /\ n \in Nat \ {0} /\ c.type \in GaiText
    BY <1>1, LenProperties, GaiCallIs DEF GaiKept
  <1>3. CASE c.serv = "none"
    <2>1. PICK types : types = <<c.type>>
      OBVIOUS
    <2>2. types[1] = c.type /\ DOMAIN types = 1 .. 1
      BY <2>1
    <2>3. \A i \in 1 .. n : m[i].type = types[1]
      BY <1>1, <2>2 DEF GaiFresh
    <2>4. GaiForTypes(m, m, n, types, 1)
      BY <1>1, <2>3 DEF GaiForTypes
    <2>5. \A j \in 1 .. 1 : types[j] \in GaiText
      BY <1>2, <2>2
    <2>6. c.lib = "gai" => /\ GaiAddrOf(m) = GaiAddresses(c)
                           /\ types = IF c.serv = "none" THEN <<c.type>> ELSE GaiTypes(c)
      BY <1>3, <2>1
    <2>7. gaiPc' = "done"
      BY <1>3
    <2>8. 1 \in 1 .. 2
      OBVIOUS
    <2> QED
      BY <1>1, <1>2, <2>2, <2>4, <2>5, <2>6, <2>7, <2>8, GaiReturns
  <1>4. CASE c.serv # "none"
    <2>1. gaiPc' = "serv"
      BY <1>4
    <2>2. GaiSavedCost' = 0
      BY DEF GaiSavedCost
    <2>3. gaiHeap' = GaiCost(gaiList', named, FALSE) + GaiSavedCost'
      BY <1>1, <1>2, <2>2 DEF GaiCost
    <2>4. GaiHeapRight(named, FALSE)'
      BY <2>3 DEF GaiHeapRight
    <2>5. m # <<>>
      BY <1>1, <1>2, EmptySeq
    <2>6. GaiHeapRight(GaiName(gaiCall), FALSE)'
      <3>1. GaiName(gaiCall)' = named
        OBVIOUS
      <3> QED
        BY <2>3, <3>1 DEF GaiHeapRight
    <2>7. GaiServing'
      BY <1>4, <2>5, <2>6 DEF GaiServing
    <2> QED
      BY <2>1, <2>7, GaiToServing
  <1> QED
    BY <1>3, <1>4

LEMMA GaiCanonInv ==
    ASSUME GaiInv, GaiCanon
    PROVE  GaiInv'
  <1>1. PICK c, l, named : c = gaiCall /\ l = gaiList /\ named = GaiName(c)
    OBVIOUS
  <1>2. /\ gaiPc = "search" /\ gaiSearch = <<>>
        /\ UNCHANGED <<gaiCall, gaiSearch, gaiTwo, gaiAddrs, gaiInit, gaiFreed>>
    BY DEF GaiCanon
  <1>3. GaiSearching /\ c \in GaiCalls /\ gaiRc = "ok" /\ gaiFreed = "none" /\ gaiSaved \in BOOLEAN
        /\ gaiAddrs = <<>>
    BY <1>1, <1>2 DEF GaiInv, GaiSearching
  <1>4. /\ GaiHeapRight(FALSE, FALSE) /\ GaiFresh(l, c) /\ GaiStarted
        /\ c.lib = "gai" => GaiSearchesLeft
        /\ c.lib = "free" => GafSearchesLeft
    BY <1>1, <1>3 DEF GaiSearching
  <1>5. c.lib \in {"gai", "free"} /\ c.canon \in BOOLEAN
    BY <1>3, GaiCallIs
  <1>6. named \in BOOLEAN
    BY <1>1, <1>5 DEF GaiName
  <1>7. gaiSaved => l # <<>> /\ named
    BY <1>1, <1>3, <1>4, <1>5 DEF GaiSearchesLeft, GafSearchesLeft, GaiName
  <1>8. CASE gaiList = <<>> /\ GaiError("NONAME") /\ UNCHANGED <<gaiList, gaiSaved, gaiHeap>>
    <2>1. gaiPc' = "bad" /\ gaiRc' # "ok"
      BY <1>8 DEF GaiError
    <2> QED
      BY <1>1, <1>2, <1>3, <1>7, <1>8, <2>1, GaiSearchFails
  <1>9. ASSUME gaiList # <<>>, gaiPc' = IF gaiCall.serv = "none" THEN "done" ELSE "serv", UNCHANGED gaiRc,
               \/ /\ named
                  /\ gaiList' = [gaiList EXCEPT ![1].canon = TRUE]
                  /\ gaiHeap' = gaiHeap + (IF gaiSaved THEN 0 ELSE 1) /\ gaiSaved' = FALSE
               \/ ~named /\ UNCHANGED <<gaiList, gaiHeap, gaiSaved>>
        PROVE  GaiInv'
    <2>1. PICK n : n = Len(l)
      OBVIOUS
    <2>2. l \in Seq(GaiEntries) /\ n \in Nat /\ n >= 1 /\ GaiKept(l, FALSE, FALSE)
      <3>1. l \in Seq(GaiEntries) /\ GaiKept(l, FALSE, FALSE)
        BY <1>1, <1>4 DEF GaiHeapRight, GaiKept
      <3>2. n \in Nat /\ n # 0
        BY <1>1, <1>9, <2>1, <3>1, LenProperties, EmptySeq
      <3>3. n >= 1
        BY ONLY <3>2
      <3> QED
        BY <3>1, <3>2, <3>3
    <2>3. gaiHeap = 2 * n + GaiSavedCost
      BY <1>1, <1>4, <2>1, <2>2 DEF GaiHeapRight, GaiCost, GaiSavedCost
    <2>4. c.lib = "gai" => GaiAddrOf(l) = GaiAddresses(c)
      <3> SUFFICES ASSUME c.lib = "gai" PROVE GaiAddrOf(l) = GaiAddresses(c)
        OBVIOUS
      <3>1. PICK a : a = GaiAddrOf(l)
        OBVIOUS
      <3>2. (a \o <<>>) \o GaiToFind(gaiSearch) = GaiAddresses(c)
        BY <1>1, <1>3, <1>4, <3>1 DEF GaiSearchesLeft
      <3>3. GaiToFind(gaiSearch) = <<>>
        BY <1>2, EmptySeq DEF GaiToFind
      <3>4. a \in Seq(GaiPlaces)
        BY <2>1, <2>2, <3>1, GaiAddrOfIs
      <3>5. a \o <<>> = a
        BY <3>4, ConcatEmptySeq
      <3> QED
        BY <3>1, <3>2, <3>3, <3>5
    <2>5. GaiStarted'
      <3>1. gaiInit = TRUE
        BY <1>4, <1>9 DEF GaiStarted
      <3> QED
        BY <1>2, <3>1 DEF GaiStarted
    <2>6. PICK m : m = gaiList'
      OBVIOUS
    <2>7. /\ GaiKept(m, named, FALSE) /\ Len(m) = n /\ gaiSaved' = FALSE
          /\ gaiHeap' = GaiCost(m, named, FALSE)
          /\ \A i \in 1 .. n : m[i].addr = l[i].addr /\ m[i].type = l[i].type /\ m[i].clone = l[i].clone
      <3>1. CASE named = FALSE
        <4>1. m = l /\ gaiHeap' = gaiHeap /\ gaiSaved' = FALSE /\ GaiSavedCost = 0
          BY <1>1, <1>3, <1>7, <1>9, <2>6, <3>1 DEF GaiSavedCost
        <4>2. gaiHeap' = GaiCost(m, named, FALSE)
          BY <2>1, <2>2, <2>3, <3>1, <4>1 DEF GaiCost
        <4> QED
          BY <2>1, <2>2, <3>1, <4>1, <4>2
      <3>2. CASE named = TRUE
        <4>1. m = [l EXCEPT ![1].canon = TRUE] /\ gaiSaved' = FALSE
              /\ gaiHeap' = gaiHeap + (IF gaiSaved THEN 0 ELSE 1)
          BY <1>1, <1>9, <2>6, <3>2
        <4>2. /\ GaiKept(m, TRUE, FALSE) /\ Len(m) = Len(l)
              /\ \A i \in 1 .. Len(l) :
                    m[i].addr = l[i].addr /\ m[i].type = l[i].type /\ m[i].clone = l[i].clone
          <5>1. Len(l) >= 1
            BY <2>1, <2>2
          <5>2. GaiKept(l, FALSE, FALSE) /\ m = [l EXCEPT ![1].canon = TRUE]
            BY <2>2, <4>1
          <5>3. GaiKept(m, TRUE, FALSE)
            BY ONLY <5>1, <5>2, GaiNames1
          <5>4. Len(m) = Len(l)
            BY ONLY <5>1, <5>2, GaiNames1
          <5>5. \A i \in 1 .. Len(l) :
                    m[i].addr = l[i].addr /\ m[i].type = l[i].type /\ m[i].clone = l[i].clone
            BY ONLY <5>1, <5>2, GaiNames1
          <5> QED
            BY ONLY <5>3, <5>4, <5>5
        <4>3. GaiSavedCost + (IF gaiSaved THEN 0 ELSE 1) = 1 /\ GaiSavedCost \in Nat
          BY <1>3 DEF GaiSavedCost
        <4>4. gaiHeap' = 2 * n + 1
          BY <2>2, <2>3, <4>1, <4>3
        <4>5. gaiHeap' = GaiCost(m, named, FALSE)
          BY <2>1, <2>2, <3>2, <4>2, <4>4 DEF GaiCost
        <4>6. GaiKept(m, named, FALSE)
          BY <3>2, <4>2
        <4> QED
          BY <2>1, <4>1, <4>2, <4>5, <4>6
      <3> QED
        BY <1>6, <3>1, <3>2
    <2>8. GaiFresh(m, c)
      BY <1>4, <2>1, <2>7 DEF GaiFresh
    <2>9. GaiAddrOf(m) = GaiAddrOf(l)
      BY <2>1, <2>7 DEF GaiAddrOf
    <2> QED
      BY <1>1, <1>2, <1>3, <1>6, <1>9, <2>2, <2>4, <2>5, <2>6, <2>7, <2>8, <2>9, GaiToReturn
  <1>10. CASE ~gaiSaved /\ GaiError("MEMORY") /\ UNCHANGED <<gaiList, gaiSaved, gaiHeap>>
    <2>1. gaiPc' = "bad" /\ gaiRc' # "ok"
      BY <1>10 DEF GaiError
    <2> QED
      BY <1>1, <1>2, <1>3, <1>10, <2>1, GaiSearchFails
  <1>11. \/ gaiList = <<>> /\ GaiError("NONAME") /\ UNCHANGED <<gaiList, gaiSaved, gaiHeap>>
         \/ /\ gaiList # <<>>
            /\ gaiPc' = IF gaiCall.serv = "none" THEN "done" ELSE "serv"
            /\ UNCHANGED gaiRc
            /\ \/ /\ named
                  /\ gaiList' = [gaiList EXCEPT ![1].canon = TRUE]
                  /\ gaiHeap' = gaiHeap + (IF gaiSaved THEN 0 ELSE 1) /\ gaiSaved' = FALSE
               \/ ~named /\ UNCHANGED <<gaiList, gaiHeap, gaiSaved>>
         \/ ~gaiSaved /\ GaiError("MEMORY") /\ UNCHANGED <<gaiList, gaiSaved, gaiHeap>>
    BY <1>1, Zenon DEF GaiCanon, GaiName
  <1> QED
    BY <1>8, <1>9, <1>10, <1>11

\* The list without the entry that could not be made.
LEMMA GaiFrontKept ==
    ASSUME NEW all, NEW named, NEW long, NEW n, NEW m, named \in BOOLEAN, long \in BOOLEAN, ~long,
           GaiKept(all, named, long),
           Len(all) = n, n >= 2, m = Front(all)
    PROVE  GaiKept(m, named, long) /\ Len(m) = n - 1
  <1>1. /\ all \in Seq(GaiEntries) /\ n \in Nat
        /\ \A i \in 1 .. n : all[i].sa = TRUE /\ all[i].canon = (named /\ i = 1)
    BY LenProperties DEF GaiKept
  <1>2. \A i \in 1 .. n - 1 : all[i] \in GaiEntries
    BY <1>1, ElementOfSeq
  <1>3. m = SubSeq(all, 1, n - 1)
    BY DEF Front
  <1>4. 1 \in Int /\ n - 1 \in Int
    BY <1>1
  <1>5. /\ SubSeq(all, 1, n - 1) \in Seq(GaiEntries)
        /\ Len(SubSeq(all, 1, n - 1)) = (IF 1 <= n - 1 THEN (n - 1) - 1 + 1 ELSE 0)
        /\ \A i \in 1 .. (n - 1) - 1 + 1 : SubSeq(all, 1, n - 1)[i] = all[1 + i - 1]
    BY ONLY <1>2, <1>4, SubSeqProperties
  <1>6. m \in Seq(GaiEntries) /\ Len(m) = n - 1
    BY <1>1, <1>3, <1>5
  <1>7. \A i \in 1 .. n - 1 : m[i] = all[i]
    <2> SUFFICES ASSUME NEW i \in 1 .. n - 1 PROVE m[i] = all[i]
      OBVIOUS
    <2>1. i \in 1 .. (n - 1) - 1 + 1 /\ 1 + i - 1 = i
      BY <1>1
    <2> QED
      BY <1>3, <1>5, <2>1
  <1>8. \A i \in 1 .. Len(m) : m[i].sa = ~(long /\ i = Len(m)) /\ m[i].canon = (named /\ i = 1)
    <2> SUFFICES ASSUME NEW i \in 1 .. Len(m)
                 PROVE  m[i].sa = ~(long /\ i = Len(m)) /\ m[i].canon = (named /\ i = 1)
      OBVIOUS
    <2>1. i \in 1 .. n - 1 /\ i \in 1 .. n
      BY <1>1, <1>6
    <2>2. m[i].sa = TRUE /\ m[i].canon = (named /\ i = 1)
      BY <1>1, <1>7, <2>1
    <2>3. ~(long /\ i = Len(m)) = TRUE
      OBVIOUS
    <2> QED
      BY ONLY <2>2, <2>3, Zenon
  <1>9. Len(m) >= 1
    BY <1>1, <1>6
  <1> QED
    BY <1>6, <1>8, <1>9 DEF GaiKept

\* The list with an entry that has no socket address.
LEMMA GaiShortKept ==
    ASSUME NEW all, NEW named \in BOOLEAN, GaiKept(all, named, FALSE), Len(all) >= 1,
           NEW m, m = [all EXCEPT ![Len(all)].sa = FALSE]
    PROVE  GaiKept(m, named, TRUE) /\ Len(m) = Len(all)
  <1>a. PICK n : n = Len(all)
    OBVIOUS
  <1>b. PICK short \in BOOLEAN : short
    OBVIOUS
  <1>0. n = Len(all) /\ short
    BY <1>a, <1>b
  <1>1. /\ all \in Seq(GaiEntries) /\ n \in Nat /\ DOMAIN all = 1 .. n
        /\ \A i \in 1 .. n : all[i].sa = TRUE /\ all[i].canon = (named /\ i = 1)
    BY <1>0, LenProperties DEF GaiKept
  <1>2. \A i \in 1 .. n : all[i] \in GaiEntries
    BY <1>0, <1>1, ElementOfSeq
  <1>3. /\ m = [i \in 1 .. n |-> m[i]]
        /\ \A i \in 1 .. n : m[i] = IF i = n THEN [all[n] EXCEPT !.sa = FALSE] ELSE all[i]
    BY <1>0, <1>1
  <1>4. ASSUME NEW e \in GaiEntries, NEW f, f = [e EXCEPT !.sa = FALSE]
        PROVE  f \in GaiEntries /\ ~f.sa /\ f.canon = e.canon
    BY <1>4 DEF GaiEntries
  <1>5. ASSUME NEW i \in 1 .. n
        PROVE  m[i] \in GaiEntries /\ m[i].sa = ~(i = n) /\ m[i].canon = (named /\ i = 1)
    <2>1. CASE i = n
      <3>1. PICK e, f : e = all[n] /\ f = [e EXCEPT !.sa = FALSE]
        OBVIOUS
      <3>2. e \in GaiEntries /\ m[i] = f /\ e.canon = (named /\ i = 1)
        BY <1>1, <1>2, <1>3, <2>1, <3>1
      <3>3. f \in GaiEntries /\ ~f.sa /\ f.canon = e.canon
        BY <1>4, <3>1, <3>2
      <3>4. f.sa \in BOOLEAN
        BY <3>3 DEF GaiEntries
      <3>5. m[i].sa = ~(i = n)
        BY <2>1, <3>2, <3>3, <3>4
      <3> QED
        BY <3>2, <3>3, <3>5
    <2>2. CASE i # n
      BY <1>1, <1>2, <1>3, <2>2
    <2> QED
      BY <2>1, <2>2
  <1>6. m \in Seq(GaiEntries) /\ Len(m) = n
    BY ONLY <1>1, <1>3, <1>5, GaiIsSeq
  <1>7. \A i \in 1 .. Len(m) : m[i].sa = ~(short /\ i = Len(m)) /\ m[i].canon = (named /\ i = 1)
    <2> SUFFICES ASSUME NEW i \in 1 .. Len(m)
                 PROVE  m[i].sa = ~(short /\ i = Len(m)) /\ m[i].canon = (named /\ i = 1)
      OBVIOUS
    <2>1. m[i].sa = ~(i = n) /\ m[i].canon = (named /\ i = 1)
      <3>1. i \in 1 .. n
        BY <1>6
      <3> QED
        BY ONLY <1>5, <3>1
    <2>2. ~(short /\ i = Len(m)) = ~(i = n)
      BY <1>0, <1>6
    <2> QED
      BY ONLY <2>1, <2>2, Zenon
  <1>8. Len(m) >= 1
    BY <1>0, <1>1, <1>6
  <1>9. GaiKept(m, named, short)
    BY <1>6, <1>7, <1>8 DEF GaiKept
  <1>10. short = TRUE
    BY <1>0
  <1> QED
    BY <1>0, <1>6, <1>9, <1>10

LEMMA GaiServInv ==
    ASSUME GaiInv, GaiServ
    PROVE  GaiInv'
  <1>1. PICK c, l, named, types, all, n, k :
            /\ c = gaiCall /\ l = gaiList /\ named = GaiName(c)
            /\ types = IF gaiCall.lib = "gai" THEN GaiTypes(gaiCall) ELSE GafTypes(gaiCall)
            /\ all = GaiAll(gaiList, types, gaiCall.serv) /\ n = Len(l) /\ k = Len(types)
    OBVIOUS
  <1>2. gaiPc = "serv" /\ UNCHANGED <<gaiCall, gaiSearch, gaiTwo, gaiAddrs, gaiInit, gaiSaved, gaiFreed>>
    BY DEF GaiServ
  <1>3. GaiServing /\ c \in GaiCalls
    BY <1>1, <1>2 DEF GaiInv
  <1>4. /\ gaiRc = "ok" /\ gaiFreed = "none" /\ gaiSaved = FALSE /\ GaiFresh(l, c) /\ GaiStarted
        /\ gaiCall.serv # "none" /\ gaiList # <<>>
        /\ c.lib = "gai" => GaiAddrOf(l) = GaiAddresses(c)
    BY <1>1, <1>3 DEF GaiServing
  <1>5. GaiKept(l, named, FALSE) /\ gaiHeap = GaiCost(l, named, FALSE) + GaiSavedCost
    BY <1>1, <1>3 DEF GaiServing, GaiHeapRight
  <1>6. named \in BOOLEAN /\ c.type \in GaiText /\ c.serv \in GaiText
    BY <1>1, <1>3, GaiCallIs DEF GaiName
  <1>7. l \in Seq(GaiEntries) /\ n \in Nat \ {0}
    <2>1. l \in Seq(GaiEntries)
      BY <1>5 DEF GaiKept
    <2> QED
      BY <1>1, <1>4, <2>1, LenProperties, EmptySeq
  <1>8. gaiHeap = 2 * n + (IF named THEN 1 ELSE 0)
    BY <1>1, <1>4, <1>5, <1>6, <1>7 DEF GaiCost, GaiSavedCost
  <1>9. gaiInit = TRUE /\ GaiStarted'
    <2>1. gaiInit = TRUE
      BY <1>4 DEF GaiStarted
    <2> QED
      BY <1>2, <2>1 DEF GaiStarted
  <1>10. types # <<>> => types = GaiTypes(c) /\ GaiTypesOk(types, k, c)
    <2> SUFFICES ASSUME types # <<>> PROVE types = GaiTypes(c) /\ GaiTypesOk(types, k, c)
      OBVIOUS
    <2>1. types = GaiTypes(c)
      BY <1>1 DEF GafTypes
    <2>2. /\ types \in Seq(GaiText) /\ k \in 1 .. 2
          /\ \A i \in 1 .. k : types[i] \in GaiText /\ IF c.type = "0" THEN types[i] # "0" ELSE types[i] = c.type
          /\ k = 2 => c.type = "0"
      BY <1>1, <1>6, <2>1, GaiTypesAre
    <2> QED
      BY <1>1, <2>1, <2>2 DEF GaiTypesOk
  <1>11. types # <<>> => GaiKept(all, named, FALSE) /\ GaiForTypes(all, l, n, types, k)
    BY <1>1, <1>4, <1>5, <1>6, <1>7, <1>10, GaiAllIs
  <1>12. CASE /\ types = <<>> /\ gaiPc' = "bad" /\ gaiRc' # "ok"
              /\ UNCHANGED <<gaiList, gaiHeap, gaiFailed>>
    <2>1. GaiKept(gaiList', named, FALSE)
      BY <1>1, <1>5, <1>12
    <2>2. gaiHeap' = GaiCost(gaiList', named, FALSE) + GaiSavedCost'
      BY <1>1, <1>2, <1>4, <1>6, <1>7, <1>8, <1>12 DEF GaiCost, GaiSavedCost
    <2>3. GaiHeapRight(named, FALSE)'
      BY <2>1, <2>2 DEF GaiHeapRight
    <2>4. GaiFailing'
      <3>1. \E x, y \in BOOLEAN : GaiHeapRight(x, y)'
        BY <1>6, <2>3
      <3> QED
        BY <1>2, <1>4, <1>9, <1>12, <3>1 DEF GaiFailing
    <2> QED
      BY <1>1, <1>2, <1>3, <1>12, <2>4, GaiToBad
  <1>13. CASE types # <<>> /\ gaiList' = all /\ gaiPc' = "done" /\ UNCHANGED <<gaiRc, gaiFailed>>
    <2>1. DOMAIN types = 1 .. k /\ k \in 1 .. 2 /\ \A j \in 1 .. k : types[j] \in GaiText
      BY <1>10, <1>13, LenProperties DEF GaiTypesOk
    <2>2. c.lib = "gai" => /\ GaiAddrOf(l) = GaiAddresses(c)
                           /\ types = IF c.serv = "none" THEN <<c.type>> ELSE GaiTypes(c)
      BY <1>1, <1>4, <1>10, <1>13
    <2>3. GaiKept(all, named, FALSE) /\ GaiForTypes(all, l, n, types, k)
      BY <1>11, <1>13
    <2>4. gaiPc' = "done" /\ gaiRc' = "ok" /\ gaiFreed' = "none" /\ gaiCall' = c /\ gaiList' = all
      BY <1>1, <1>2, <1>4, <1>13
    <2> QED
      BY <1>1, <1>3, <1>6, <1>7, <2>1, <2>2, <2>3, <2>4, GaiReturns
  <1>14. ASSUME types # <<>>, Len(all) - Len(gaiList) > 0, NEW x \in 0 .. 1,
                gaiList' = (IF x = 0 THEN Front(all) ELSE [all EXCEPT ![Len(all)].sa = FALSE]),
                gaiHeap' = gaiHeap + 2 * ((Len(all) - Len(gaiList)) - 1) + x,
                gaiPc' = "bad", gaiRc' = "MEMORY"
         PROVE  GaiInv'
    <2>1. PICK p, m : p = Len(all) /\ m = gaiList'
      OBVIOUS
    <2>2. GaiKept(all, named, FALSE)
      BY <1>11, <1>14
    <2>3. all \in Seq(GaiEntries)
      BY <2>2 DEF GaiKept
    <2>4. p \in Nat
      BY <2>1, <2>3, LenProperties
    <2>5. p >= 2 /\ p >= 1
      BY <1>1, <1>7, <1>14, <2>1, <2>4
    <2>6. gaiHeap' = 2 * n + (IF named THEN 1 ELSE 0) + 2 * ((p - n) - 1) + x
      BY <1>1, <1>8, <1>14, <2>1
    <2>7. GaiSavedCost' = 0
      BY <1>2, <1>4 DEF GaiSavedCost
    <2>8. \E y, z \in BOOLEAN : GaiHeapRight(y, z)'
      <3>1. CASE x = 0
        <4>1. m = Front(all)
          BY <1>14, <2>1, <3>1
        <4>2. PICK long \in BOOLEAN : ~long
          OBVIOUS
        <4>3. GaiKept(all, named, long)
          <5>1. long = FALSE
            BY <4>2
          <5> QED
            BY <2>2, <5>1
        <4>4. GaiKept(m, named, long) /\ Len(m) = p - 1
          BY ONLY <1>6, <2>1, <2>5, <4>1, <4>2, <4>3, GaiFrontKept
        <4>5. gaiHeap' = GaiCost(m, named, long) + GaiSavedCost'
          BY <1>6, <1>7, <2>4, <2>6, <2>7, <3>1, <4>2, <4>4 DEF GaiCost
        <4>6. GaiHeapRight(named, long)'
          BY <2>1, <4>4, <4>5 DEF GaiHeapRight
        <4> QED
          BY <1>6, <4>2, <4>6
      <3>2. CASE x = 1
        <4>1. m = [all EXCEPT ![Len(all)].sa = FALSE]
          BY <1>14, <2>1, <3>2
        <4>2. PICK short \in BOOLEAN : short
          OBVIOUS
        <4>3. named \in BOOLEAN /\ Len(all) >= 1 /\ GaiKept(all, named, FALSE)
          BY <1>6, <2>1, <2>2, <2>5
        <4>4. GaiKept(m, named, short) /\ Len(m) = p
          <5>1. GaiKept(m, named, TRUE)
            BY ONLY <4>1, <4>3, GaiShortKept
          <5>2. Len(m) = Len(all)
            BY ONLY <4>1, <4>3, GaiShortKept
          <5>3. short = TRUE
            BY <4>2
          <5> QED
            BY <2>1, <5>1, <5>2, <5>3
        <4>5. gaiHeap' = GaiCost(m, named, short) + GaiSavedCost'
          BY <1>6, <1>7, <2>4, <2>6, <2>7, <3>2, <4>2, <4>4 DEF GaiCost
        <4>6. GaiHeapRight(named, short)'
          BY <2>1, <4>4, <4>5 DEF GaiHeapRight
        <4> QED
          BY <1>6, <4>2, <4>6
      <3> QED
        BY <1>14, <3>1, <3>2
    <2>9. GaiFailing'
      BY <1>2, <1>4, <1>9, <1>14, <2>8 DEF GaiFailing
    <2> QED
      BY <1>1, <1>2, <1>3, <1>14, <2>9, GaiToBad
  <1>15. /\ types # <<>> => all = (IF Len(types) = 1 THEN ga_port(gaiList, types[1], gaiCall.serv)
                                  ELSE ga_port(ga_port(gaiList, types[1], gaiCall.serv), types[2], gaiCall.serv))
         /\ types # <<>> => all = (IF Len(types) = 1 THEN getaddrinfo_port(gaiList, types[1], gaiCall.serv)
                                  ELSE getaddrinfo_port(getaddrinfo_port(gaiList, types[1], gaiCall.serv),
                                                        types[2], gaiCall.serv))
    BY <1>1, GafPortIs DEF GaiAll
  <1>16. \/ /\ types = <<>> /\ gaiPc' = "bad" /\ gaiRc' # "ok"
            /\ UNCHANGED <<gaiList, gaiHeap, gaiFailed>>
         \/ types # <<>> /\ gaiList' = all /\ gaiPc' = "done" /\ UNCHANGED <<gaiRc, gaiFailed>>
         \/ /\ types # <<>> /\ Len(all) - Len(gaiList) > 0
            /\ \E x \in 0 .. 1 :
                 /\ gaiList' = (IF x = 0 THEN Front(all) ELSE [all EXCEPT ![Len(all)].sa = FALSE])
                 /\ gaiHeap' = gaiHeap + 2 * ((Len(all) - Len(gaiList)) - 1) + x
            /\ gaiPc' = "bad" /\ gaiRc' = "MEMORY"
    BY <1>1, <1>15 DEF GaiServ, GaiError
  <1> QED
    BY <1>12, <1>13, <1>14, <1>16

\* What is in the heap, with no name saved, is in the list.
LEMMA GaiHeapInList ==
    ASSUME NEW x \in BOOLEAN, NEW y \in BOOLEAN, GaiHeapRight(x, y)', gaiSaved' = FALSE
    PROVE  gaiHeap' > 0 => gaiList' # <<>>
  <1> SUFFICES ASSUME gaiList' = <<>> PROVE ~(gaiHeap' > 0)
    OBVIOUS
  <1>1. PICK l : l = gaiList'
    OBVIOUS
  <1>2. GaiKept(l, x, y) /\ gaiHeap' = GaiCost(l, x, y) + GaiSavedCost'
    BY <1>1 DEF GaiHeapRight
  <1>3. Len(l) = 0
    BY <1>1, EmptySeq
  <1>4. ~x /\ ~y
    BY <1>2, <1>3 DEF GaiKept
  <1>5. GaiSavedCost' = 0
    BY DEF GaiSavedCost
  <1>6. gaiHeap' = 0
    BY <1>2, <1>3, <1>4, <1>5 DEF GaiCost
  <1> QED
    BY <1>6

\* The end of a call that has returned nothing to check and freed nothing.
LEMMA GaiEnds ==
    ASSUME gaiPc' = "done", gaiCall' \in GaiCalls, gaiFreed' = "none",
           gaiRc' # "ok" \/ gaiCall'.lib = "free" \/ gaiCall'.host = "path",
           gaiRc' = "ok" \/ (gaiHeap' > 0 => gaiList' # <<>>)
    PROVE  GaiInv'
  <1>1. gaiCall'.lib \in {"gai", "free"}
    BY GaiCallsAssumption
  <1>2. GaiListRight'
    BY <1>1 DEF GaiListRight
  <1>3. GaiFreesOwn' /\ GaiLeaks'
    BY DEF GaiFreesOwn, GaiLeaks
  <1> QED
    BY <1>2, <1>3, GaiToDone DEF GaiSafe

LEMMA GaiUnixInv ==
    ASSUME GaiInv, GaiUnix
    PROVE  GaiInv'
  <1>1. PICK c, types : /\ c = gaiCall
                        /\ types = IF gaiCall.type = "0" THEN <<"stream", "dgram">> ELSE <<gaiCall.type>>
    OBVIOUS
  <1>2. gaiPc = "unix" /\ gaiCall.lib = "gai"
        /\ UNCHANGED <<gaiCall, gaiSearch, gaiTwo, gaiAddrs, gaiInit, gaiSaved, gaiFreed>>
    BY DEF GaiUnix
  <1>3. GaiAtUnix /\ c \in GaiCalls
    BY <1>1, <1>2 DEF GaiInv
  <1>4. gaiRc = "ok" /\ gaiFreed = "none" /\ gaiSaved = FALSE /\ GaiHeapRight(FALSE, FALSE) /\ c.host = "path"
        /\ c.type \in GaiText
    BY <1>1, <1>2, <1>3, GaiCallIs DEF GaiAtUnix
  <1>5. CASE gaiPc' = "done" /\ gaiRc' # "ok" /\ UNCHANGED <<gaiList, gaiHeap>>
    <2>1. GaiHeapRight(FALSE, FALSE)'
      BY <1>2, <1>4, <1>5, GaiHeapSame
    <2>2. gaiHeap' > 0 => gaiList' # <<>>
      BY <1>2, <1>4, <2>1, GaiHeapInList
    <2> QED
      BY <1>1, <1>2, <1>3, <1>4, <1>5, <2>2, GaiEnds
  <1>6. ASSUME NEW n \in 0 .. 2, Len(gaiList) < Len(types),
               ga_aistruct(<<"local", "path">>, types[Len(gaiList) + 1], n),
               gaiPc' = IF n < 2 \/ (Len(gaiList) + 1 = Len(types) /\ ~gaiCall.canon) THEN "done" ELSE "unix",
               gaiRc' = IF n < 2 THEN "MEMORY" ELSE "ok"
        PROVE  GaiInv'
    <2>1. PICK d, t : d = <<"local", "path">> /\ t = types[Len(gaiList) + 1]
      OBVIOUS
    <2>2. d \in GaiPlaces
      <3>1. "path" \in GaiText
        BY DEF GaiText
      <3> QED
        BY <2>1, <3>1 DEF GaiPlaces
    <2>3. t \in GaiText
      <3>1. PICK k : k = Len(gaiList)
        OBVIOUS
      <3>2. k \in Nat
        BY <1>4, <3>1, LenProperties DEF GaiHeapRight, GaiKept
      <3>3. "stream" \in GaiText /\ "dgram" \in GaiText
        BY DEF GaiText
      <3>4. CASE gaiCall.type = "0"
        <4>1. Len(types) = 2 /\ types[1] = "stream" /\ types[2] = "dgram"
          BY <1>1, <3>4
        <4>2. k + 1 = 1 \/ k + 1 = 2
          BY <1>6, <3>1, <3>2, <4>1
        <4> QED
          BY <2>1, <3>1, <3>3, <4>1, <4>2
      <3>5. CASE gaiCall.type # "0"
        <4>1. Len(types) = 1 /\ types[1] = c.type
          BY <1>1, <3>5
        <4>2. k + 1 = 1
          BY <1>6, <3>1, <3>2, <4>1
        <4> QED
          BY <1>4, <2>1, <3>1, <4>1, <4>2
      <3> QED
        BY <3>4, <3>5
    <2>4. GaiHeapRight(FALSE, n = 1)'
      <3>1. ga_aistruct(d, t, n) /\ gaiSaved' = gaiSaved
        BY <1>2, <1>6, <2>1
      <3> QED
        BY ONLY <1>4, <2>2, <2>3, <3>1, n \in 0 .. 2, GaiStructKeeps
    <2>5. CASE gaiPc' = "done"
      <3>1. gaiHeap' > 0 => gaiList' # <<>>
        BY <1>2, <1>4, <2>4, GaiHeapInList
      <3> QED
        BY <1>1, <1>2, <1>3, <1>4, <2>5, <3>1, GaiEnds
    <2>6. CASE gaiPc' # "done"
      <3>1. n = 2 /\ gaiPc' = "unix" /\ gaiRc' = "ok"
        BY <1>6, <2>6
      <3>2. GaiHeapRight(FALSE, FALSE)'
        <4>1. (n = 1) = FALSE
          BY <3>1
        <4> QED
          BY <2>4, <4>1
      <3>3. GaiAtUnix'
        BY <1>1, <1>2, <1>4, <3>1, <3>2 DEF GaiAtUnix
      <3> QED
        BY <1>1, <1>2, <1>3, <3>1, <3>3, GaiToUnix
    <2> QED
      BY <2>5, <2>6
  <1>7. CASE gaiPc' = "done" /\ gaiRc' = "ok"
    BY <1>1, <1>2, <1>3, <1>4, <1>7, GaiEnds
  <1>8. \/ gaiPc' = "done" /\ gaiRc' # "ok" /\ UNCHANGED <<gaiList, gaiHeap>>
        \/ /\ Len(gaiList) < Len(types)
           /\ \E n \in 0 .. 2 :
                 /\ ga_aistruct(<<"local", "path">>, types[Len(gaiList) + 1], n)
                 /\ gaiPc' = IF n < 2 \/ (Len(gaiList) + 1 = Len(types) /\ ~gaiCall.canon) THEN "done" ELSE "unix"
                 /\ gaiRc' = IF n < 2 THEN "MEMORY" ELSE "ok"
        \/ gaiPc' = "done" /\ gaiRc' = "ok"
    BY <1>1 DEF GaiUnix
  <1> QED
    BY <1>5, <1>6, <1>7, <1>8

LEMMA GafLocalInv ==
    ASSUME GaiInv, GafLocal
    PROVE  GaiInv'
  <1>1. PICK c : c = gaiCall
    OBVIOUS
  <1>2. gaiPc = "unix" /\ gaiCall.lib = "free" /\ gaiPc' = "done"
        /\ UNCHANGED <<gaiCall, gaiSearch, gaiTwo, gaiAddrs, gaiInit, gaiSaved, gaiFreed>>
    BY DEF GafLocal
  <1>3. GaiAtUnix /\ c \in GaiCalls
    BY <1>1, <1>2 DEF GaiInv
  <1>4. gaiRc = "ok" /\ gaiFreed = "none" /\ gaiSaved = FALSE /\ GaiHeapRight(FALSE, FALSE) /\ c.type \in GaiText
    BY <1>1, <1>2, <1>3, GaiCallIs DEF GaiAtUnix
  <1>5. gaiHeap' > 0 => gaiList' # <<>>
    <2>1. CASE UNCHANGED <<gaiList, gaiHeap>>
      <3>1. GaiHeapRight(FALSE, FALSE)'
        BY <1>2, <1>4, <2>1, GaiHeapSame
      <3> QED
        BY <1>2, <1>4, <3>1, GaiHeapInList
    <2>2. ASSUME NEW n \in 0 .. 2, ga_aistruct(<<"local", "path">>, gaiCall.type, n)
          PROVE  gaiHeap' > 0 => gaiList' # <<>>
      <3>1. PICK d, t : d = <<"local", "path">> /\ t = c.type
        OBVIOUS
      <3>2. d \in GaiPlaces
        <4>1. "path" \in GaiText
          BY DEF GaiText
        <4> QED
          BY <3>1, <4>1 DEF GaiPlaces
      <3>3. ga_aistruct(d, t, n) /\ gaiSaved' = gaiSaved /\ t \in GaiText
        BY <1>1, <1>2, <1>4, <2>2, <3>1
      <3>4. GaiHeapRight(FALSE, n = 1)'
        BY ONLY <1>4, <3>2, <3>3, n \in 0 .. 2, GaiStructKeeps
      <3> QED
        BY <1>2, <1>4, <3>4, GaiHeapInList
    <2>3. \/ UNCHANGED <<gaiList, gaiHeap>>
          \/ \E n \in 0 .. 2 : ga_aistruct(<<"local", "path">>, gaiCall.type, n)
      BY Zenon DEF GafLocal
    <2> QED
      BY <2>1, <2>2, <2>3
  <1> QED
    BY <1>1, <1>2, <1>3, <1>4, <1>5, GaiEnds

LEMMA GaiBadInv ==
    ASSUME GaiInv, GaiBad
    PROVE  GaiInv'
  <1>1. PICK c : c = gaiCall
    OBVIOUS
  <1>2. /\ gaiPc = "bad" /\ gaiFreed' = IF gaiInit THEN "list" ELSE "garbage"
        /\ gaiHeap' = gaiHeap - freeaddrinfo(gaiList) /\ gaiList' = <<>> /\ gaiPc' = "done"
        /\ UNCHANGED <<gaiCall, gaiSearch, gaiTwo, gaiAddrs, gaiInit, gaiSaved, gaiRc, gaiFailed>>
    BY DEF GaiBad
  <1>3. GaiFailing /\ c \in GaiCalls
    BY <1>1, <1>2 DEF GaiInv
  <1>4. gaiRc # "ok" /\ gaiSaved \in BOOLEAN /\ GaiStarted /\ (gaiSaved => gaiFailed)
    BY <1>3 DEF GaiFailing
  <1>5. PICK named \in BOOLEAN, short \in BOOLEAN : GaiHeapRight(named, short)
    BY <1>3 DEF GaiFailing
  <1>6. gaiHeap' = GaiSavedCost
    <2>1. GaiKept(gaiList, named, short) /\ gaiHeap = GaiCost(gaiList, named, short) + GaiSavedCost
      BY <1>5 DEF GaiHeapRight
    <2>2. PICK l : l = gaiList
      OBVIOUS
    <2>3. freeaddrinfo(l) = GaiCost(l, named, short) /\ GaiCost(l, named, short) \in Nat
      BY ONLY <2>1, <2>2, named \in BOOLEAN, short \in BOOLEAN, GaiFrees
    <2>4. GaiSavedCost \in Nat
      BY DEF GaiSavedCost
    <2>5. PICK p, q : p = GaiCost(l, named, short) /\ q = GaiSavedCost
      OBVIOUS
    <2>6. p \in Nat /\ q \in Nat /\ gaiHeap = p + q /\ gaiHeap' = gaiHeap - p
      BY <1>2, <2>1, <2>2, <2>3, <2>4, <2>5
    <2>7. gaiHeap' = q
      BY ONLY <2>6
    <2> QED
      BY <2>5, <2>7
  <1>7. GaiListRight'
    BY <1>2, <1>4 DEF GaiListRight
  <1>8. GaiFreesOwn'
    BY <1>2, <1>4 DEF GaiFreesOwn, GaiStarted
  <1>9. GaiLeaks'
    <2>1. gaiHeap' > 0 => gaiSaved /\ gaiHeap' = 1
      BY <1>4, <1>6 DEF GaiSavedCost
    <2> QED
      BY <1>2, <1>4, <2>1 DEF GaiLeaks
  <1>10. GaiSafe'
    BY <1>7, <1>8, <1>9 DEF GaiSafe
  <1> QED
    BY <1>1, <1>2, <1>3, <1>10, GaiToDone

LEMMA GaiStays ==
    ASSUME GaiInv, UNCHANGED gaiVars
    PROVE  GaiInv'
  BY DEF GaiInv, gaiVars, GaiClean, GaiSearching, GaiServing, GaiAtUnix, GaiFailing, GaiHeapRight, GaiSavedCost,
         GaiFresh, GaiStarted, GaiSearchesLeft, GafSearchesLeft, GaiSafe, GaiListRight, GaiFreesOwn, GaiLeaks

(***************************************************************************)
(* A call of getaddrinfo() as a whole, for any calls, any answers of the   *)
(* resolver and an allocation that fails at any place: libgai returns, for *)
(* each address of the host, IPv6 first, one entry for each socket type    *)
(* that has the service, with the canonical name on the first entry only;  *)
(* libfree frees what it has not built only before its list has begun; and *)
(* a call that fails keeps nothing but a name that no entry had got, or    *)
(* the entries of the Unix domain.                                         *)
(***************************************************************************)
THEOREM GaiSafeCorrect == GaiSpec => []GaiSafe
  <1>1. GaiInit => GaiInv
    BY DEF GaiInit, GaiInv, GaiClean, GaiSafe, GaiListRight, GaiFreesOwn, GaiLeaks
  <1>2. GaiInv /\ [GaiNext]_gaiVars => GaiInv'
    BY GaiEnterInv, GaiCheckInv, GafCheckInv, GaiSearchNextInv, GafSearchInv, GaiStructInv, GaiCanonInv, GaiServInv,
       GaiUnixInv, GafLocalInv, GaiBadInv, GaiStays DEF GaiNext
  <1>3. GaiInv => GaiSafe
    BY DEF GaiInv
  <1> QED
    BY <1>1, <1>2, <1>3, PTL DEF GaiSpec
=============================================================================
