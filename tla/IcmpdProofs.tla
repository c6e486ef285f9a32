----------------------------- MODULE IcmpdProofs -----------------------------
(***************************************************************************)
(* Proofs about the ICMP daemon of unpv13e, for any clients, addresses and *)
(* size of client[].                                                       *)
(***************************************************************************)
EXTENDS Icmpd, TLAPS

Slots == 1 .. IcdSlots
Addrs == {<<0, 0>>} \cup {IcdAddr[c] : c \in IcdClients}
Errnos == {"ECONNREFUSED", "EMSGSIZE", "EHOSTUNREACH"}
Messages == [is : Errnos \cup {"0", "1"}, addr : Addrs]
IcmpMessages == [is : {"short", "echo", "noport", "toobig", "timxceed"}, addr : Addrs]

\* Nothing in s tells the client to go on; all of s is about address a.
NoGo(s) == \A k \in 1 .. Len(s) : s[k].is # "1"
AllAbout(s, a) == \A k \in 1 .. Len(s) : s[k].addr = a

\* The client has been told "1", or will be as soon as it reads.
Told(c) ==
    \/ icdCli[c] \in {"loop", "select"}
    \/ icdCli[c] = "wait" /\ icdOut[c] # <<>> /\ Head(icdOut[c]).is = "1"

-----------------------------------------------------------------------------
(* The inductive invariant.                                                *)

IcdTypes ==
    /\ icdUp \in BOOLEAN
    /\ icdSlot \in [Slots -> [conn : IcdClients \cup {0}, addr : Addrs]]
    /\ icdMaxi \in 0 .. IcdSlots
    /\ icdRset \subseteq Nat
    /\ icdQueue \in Seq(IcdClients)
    /\ icdIn \in [IcdClients -> Seq({"fd", "bare", "byte"})]
    /\ icdRaw \in [{4, 6} -> Seq(IcmpMessages)]
    /\ icdCli \in [IcdClients -> {"new", "conn", "wait", "loop", "select", "gone"}]
    /\ icdOut \in [IcdClients -> Seq(Messages)]

\* A connection is in one slot or in one place of the queue, and a client that
\* has not connected is in none; the slots in use are those select looks at.
IcdPlaced ==
    /\ \A i, j \in Slots : icdSlot[i].conn = icdSlot[j].conn /\ icdSlot[i].conn # 0 => i = j
    /\ \A i \in Slots : icdSlot[i].conn # 0 => i <= icdMaxi
    /\ \A k \in 1 .. Len(icdQueue) :
          /\ \A i \in Slots : icdSlot[i].conn # icdQueue[k]
          /\ \A l \in 1 .. Len(icdQueue) : icdQueue[k] = icdQueue[l] => k = l
          /\ icdCli[icdQueue[k]] # "new"
    /\ \A i \in Slots : icdSlot[i].conn # 0 => icdCli[icdSlot[i].conn] # "new"

\* A connection the round still has to serve is as ready as select found it.
IcdRound ==
    \A i \in Slots : 3 + i \in icdRset =>
        /\ icdSlot[i].conn # 0
        /\ icdIn[icdSlot[i].conn] # <<>> \/ icdCli[icdSlot[i].conn] = "gone"

\* And what the other descriptors of the round were ready with is still there.
IcdSources ==
    /\ 1 \in icdRset => icdQueue # <<>>
    /\ 2 \in icdRset => icdRaw[4] # <<>>
    /\ 3 \in icdRset => icdRaw[6] # <<>>

\* Nobody is told "1" before the daemon has read its descriptor.
IcdUntold ==
    \A c \in IcdClients :
        /\ icdCli[c] \in {"new", "conn"} => icdIn[c] = <<>>
        /\ icdCli[c] \in {"new", "conn"} \/ icdIn[c] # <<>> => NoGo(icdOut[c])

\* Who has been told is registered with its own address, and its connection
\* holds only messages about it.
IcdTold ==
    \A c \in IcdClients : Told(c) =>
        /\ \E i \in Slots : icdSlot[i] = [conn |-> c, addr |-> IcdAddr[c]]
        /\ AllAbout(icdOut[c], IcdAddr[c])
        /\ icdIn[c] = <<>>

IcdInv == IcdTypes /\ IcdPlaced /\ IcdRound /\ IcdSources /\ IcdUntold /\ IcdTold

-----------------------------------------------------------------------------
(* Messages on a connection.                                               *)

\* What one more message leaves.
LEMMA AppendSeq ==
    ASSUME NEW s \in Seq(Messages), NEW m \in Messages
    PROVE  /\ Append(s, m) \in Seq(Messages) /\ Append(s, m) # <<>>
           /\ s # <<>> => Head(Append(s, m)) = Head(s)
           /\ s = <<>> => Head(Append(s, m)) = m
           /\ NoGo(s) /\ m.is # "1" => NoGo(Append(s, m))
           /\ \A a : AllAbout(s, a) /\ m.addr = a => AllAbout(Append(s, m), a)
           /\ Len(Append(s, m)) = Len(s) + 1
  BY DEF NoGo, AllAbout

\* What reading a message leaves.
LEMMA TailSeq ==
    ASSUME NEW s \in Seq(Messages), s # <<>>
    PROVE  /\ Tail(s) \in Seq(Messages)
           /\ NoGo(s) => NoGo(Tail(s))
           /\ \A a : AllAbout(s, a) => AllAbout(Tail(s), a)
  BY DEF NoGo, AllAbout

LEMMA EmptySeq == <<>> \in Seq(Messages) /\ NoGo(<<>>) /\ \A a : AllAbout(<<>>, a)
  BY DEF NoGo, AllAbout

LEMMA NoGoHead ==
    ASSUME NEW s \in Seq(Messages), s # <<>>, NoGo(s)
    PROVE  Head(s).is # "1"
  BY DEF NoGo

-----------------------------------------------------------------------------
(* Init, and the steps of the clients.                                     *)

LEMMA IcdInvInit == IcdInit => IcdInv
  <1> SUFFICES ASSUME IcdInit PROVE IcdInv
    OBVIOUS
  <1>1. icdUp = TRUE
    BY DEF IcdInit
  <1>2. icdUp \in BOOLEAN
    BY <1>1, Zenon
  <1>3. /\ icdMaxi = 0 /\ icdRset = {} /\ icdQueue = <<>>
        /\ icdSlot = [i \in Slots |-> [conn |-> 0, addr |-> <<0, 0>>]]
        /\ icdIn = [c \in IcdClients |-> <<>>]
        /\ icdRaw = [f \in {4, 6} |-> <<>>]
        /\ icdCli = [c \in IcdClients |-> "new"]
        /\ icdOut = [c \in IcdClients |-> <<>>]
    BY DEF IcdInit, Slots
  <1>4. /\ \A i \in Slots : icdSlot[i].conn = 0
        /\ \A c \in IcdClients : icdIn[c] = <<>> /\ icdCli[c] = "new" /\ icdOut[c] = <<>>
    BY <1>3
  <1>5. IcdTypes
    <2>1. icdOut \in [IcdClients -> Seq(Messages)]
      BY <1>3, EmptySeq
    <2>2. icdSlot \in [Slots -> [conn : IcdClients \cup {0}, addr : Addrs]]
      BY <1>3 DEF Addrs
    <2>3. icdIn \in [IcdClients -> Seq({"fd", "bare", "byte"})] /\ icdRaw \in [{4, 6} -> Seq(IcmpMessages)]
      BY <1>3
    <2>4. icdCli \in [IcdClients -> {"new", "conn", "wait", "loop", "select", "gone"}]
      BY <1>3
    <2> QED
      BY <1>2, <1>3, <2>1, <2>2, <2>3, <2>4, IcdAssumption DEF IcdTypes
  <1>6. IcdPlaced
    BY <1>3, <1>4 DEF IcdPlaced
  <1>7. IcdRound /\ IcdSources
    BY <1>3 DEF IcdRound, IcdSources
  <1>8. IcdUntold
    BY <1>4, EmptySeq DEF IcdUntold
  <1>9. IcdTold
    BY <1>4 DEF IcdTold, Told
  <1> QED
    BY <1>5, <1>6, <1>7, <1>8, <1>9 DEF IcdInv

LEMMA ConnectKeeps ==
    ASSUME IcdInv, NEW c \in IcdClients, IcdConnect(c)
    PROVE  IcdInv'
  <1>1. /\ icdCli[c] = "new" /\ icdCli' = [icdCli EXCEPT ![c] = "conn"]
        /\ icdQueue' = Append(icdQueue, c)
        /\ UNCHANGED <<icdUp, icdSlot, icdMaxi, icdRset, icdIn, icdRaw, icdOut>>
    BY DEF IcdConnect
  <1>2. /\ icdCli' \in [IcdClients -> {"new", "conn", "wait", "loop", "select", "gone"}]
        /\ \A d \in IcdClients : icdCli'[d] = IF d = c THEN "conn" ELSE icdCli[d]
    BY <1>1 DEF IcdInv, IcdTypes
  <1>3. /\ icdQueue' \in Seq(IcdClients) /\ Len(icdQueue') = Len(icdQueue) + 1
        /\ Len(icdQueue) \in Nat
        /\ \A k \in 1 .. Len(icdQueue') :
              IF k = Len(icdQueue) + 1 THEN icdQueue'[k] = c
              ELSE k \in 1 .. Len(icdQueue) /\ icdQueue'[k] = icdQueue[k]
    BY <1>1 DEF IcdInv, IcdTypes
  <1>4. IcdTypes'
    BY <1>1, <1>2, <1>3 DEF IcdInv, IcdTypes
  <1>5. \A k \in 1 .. Len(icdQueue) : icdQueue[k] \in IcdClients
    BY DEF IcdInv, IcdTypes
  <1>6. \A i \in Slots : icdSlot[i].conn \in IcdClients \cup {0}
    BY DEF IcdInv, IcdTypes
  <1>7. \A i \in Slots : icdSlot[i].conn # c
    BY <1>1, IcdAssumption DEF IcdInv, IcdPlaced
  <1>8. \A k \in 1 .. Len(icdQueue) : icdQueue[k] # c
    BY <1>1 DEF IcdInv, IcdPlaced
  <1>9. IcdPlaced'
    <2>1. \A k \in 1 .. Len(icdQueue') : /\ \A i \in Slots : icdSlot[i].conn # icdQueue'[k]
                                         /\ icdCli'[icdQueue'[k]] # "new"
      BY <1>2, <1>3, <1>5, <1>7, <1>8 DEF IcdInv, IcdPlaced
    <2>2. \A k, l \in 1 .. Len(icdQueue') : icdQueue'[k] = icdQueue'[l] => k = l
      BY <1>3, <1>8 DEF IcdInv, IcdPlaced
    <2>3. \A i \in Slots : icdSlot[i].conn # 0 => icdCli'[icdSlot[i].conn] # "new"
      BY <1>2, <1>6 DEF IcdInv, IcdPlaced
    <2> QED
      BY <1>1, <2>1, <2>2, <2>3 DEF IcdInv, IcdPlaced
  <1>10. IcdRound'
    BY <1>1, <1>2, <1>6 DEF IcdInv, IcdRound
  <1>11. IcdUntold'
    BY <1>1, <1>2 DEF IcdInv, IcdUntold
  <1>12. IcdTold'
    BY <1>1, <1>2 DEF IcdInv, IcdTold, Told
  <1>13. IcdSources'
    <2>1. icdQueue' # <<>>
      BY <1>3
    <2> QED
      BY <1>1, <2>1 DEF IcdInv, IcdSources
  <1> QED
    BY <1>4, <1>9, <1>10, <1>11, <1>12, <1>13 DEF IcdInv

\* A step of client c alone leaves the connections where they are.
LEMMA ClientMoves ==
    ASSUME IcdInv, NEW c \in IcdClients, NEW w \in {"wait", "loop", "select", "gone"},
           icdCli' = [icdCli EXCEPT ![c] = w], icdCli[c] # "gone",
           UNCHANGED <<icdSlot, icdMaxi, icdQueue, icdRset>>,
           \A d \in IcdClients : icdIn[d] # <<>> => icdIn'[d] # <<>>
    PROVE  /\ icdCli' \in [IcdClients -> {"new", "conn", "wait", "loop", "select", "gone"}]
           /\ \A d \in IcdClients : icdCli'[d] = IF d = c THEN w ELSE icdCli[d]
           /\ IcdPlaced' /\ IcdRound'
  <1>1. /\ icdCli' \in [IcdClients -> {"new", "conn", "wait", "loop", "select", "gone"}]
        /\ \A d \in IcdClients : icdCli'[d] = IF d = c THEN w ELSE icdCli[d]
    BY DEF IcdInv, IcdTypes
  <1>2. /\ \A k \in 1 .. Len(icdQueue) : icdQueue[k] \in IcdClients
        /\ \A i \in Slots : icdSlot[i].conn \in IcdClients \cup {0}
    BY DEF IcdInv, IcdTypes
  <1>3. IcdPlaced'
    <2>1. \A k \in 1 .. Len(icdQueue) : icdCli'[icdQueue[k]] # "new"
      BY <1>1, <1>2 DEF IcdInv, IcdPlaced
    <2>2. \A i \in Slots : icdSlot[i].conn # 0 => icdCli'[icdSlot[i].conn] # "new"
      BY <1>1, <1>2 DEF IcdInv, IcdPlaced
    <2> QED
      BY <2>1, <2>2 DEF IcdInv, IcdPlaced
  <1>4. IcdRound'
    <2> SUFFICES ASSUME NEW i \in Slots, 3 + i \in icdRset
                 PROVE  /\ icdSlot[i].conn # 0
                        /\ icdIn'[icdSlot[i].conn] # <<>> \/ icdCli'[icdSlot[i].conn] = "gone"
      BY DEF IcdRound
    <2>1. /\ icdSlot[i].conn # 0
          /\ icdIn[icdSlot[i].conn] # <<>> \/ icdCli[icdSlot[i].conn] = "gone"
      BY DEF IcdInv, IcdRound
    <2> QED
      BY <1>1, <1>2, <2>1
  <1> QED
    BY <1>1, <1>3, <1>4

LEMMA Write_fdKeeps ==
    ASSUME IcdInv, NEW c \in IcdClients, Write_fd(c)
    PROVE  IcdInv'
  <1>1. /\ icdCli[c] = "conn"
        /\ UNCHANGED <<icdUp, icdSlot, icdMaxi, icdRset, icdQueue, icdRaw, icdOut>>
    BY DEF Write_fd, icdDaemon
  <1>2. icdIn[c] = <<>> /\ NoGo(icdOut[c])
    BY <1>1 DEF IcdInv, IcdUntold
  <1>3. PICK w \in {"wait", "gone"} :
          /\ icdCli' = [icdCli EXCEPT ![c] = w]
          /\ icdIn' = IF w = "wait" THEN [icdIn EXCEPT ![c] = <<IcdPass[c]>>] ELSE icdIn
    BY DEF Write_fd
  <1>4. /\ icdIn' \in [IcdClients -> Seq({"fd", "bare", "byte"})]
        /\ \A d \in IcdClients : d # c => icdIn'[d] = icdIn[d]
        /\ w = "wait" => icdIn'[c] # <<>>
    <2>0. IcdPass[c] \in {"fd", "bare", "byte"}
      BY IcdAssumption
    <2>1. <<IcdPass[c]>> \in Seq({"fd", "bare", "byte"}) /\ <<IcdPass[c]>> # <<>>
      BY <2>0
    <2> QED
      BY <1>3, <2>1 DEF IcdInv, IcdTypes
  <1>5. \A d \in IcdClients : icdIn[d] # <<>> => icdIn'[d] # <<>>
    BY <1>2, <1>4
  <1>6. /\ icdCli' \in [IcdClients -> {"new", "conn", "wait", "loop", "select", "gone"}]
        /\ \A d \in IcdClients : icdCli'[d] = IF d = c THEN w ELSE icdCli[d]
        /\ IcdPlaced' /\ IcdRound'
    <2>1. w \in {"wait", "loop", "select", "gone"} /\ icdCli[c] # "gone"
      BY <1>1
    <2>2. UNCHANGED <<icdSlot, icdMaxi, icdQueue, icdRset>>
      BY <1>1
    <2> QED
      BY <1>3, <1>5, <2>1, <2>2, ClientMoves
  <1>7. IcdTypes'
    BY <1>1, <1>4, <1>6 DEF IcdInv, IcdTypes
  <1>8. IcdUntold'
    BY <1>1, <1>2, <1>4, <1>6 DEF IcdInv, IcdUntold
  <1>9. IcdTold'
    <2>1. ~ Told(c)'
      <3>1. icdOut[c] \in Seq(Messages)
        BY DEF IcdInv, IcdTypes
      <3>2. icdOut[c] # <<>> => Head(icdOut[c]).is # "1"
        BY <1>2, <3>1, NoGoHead
      <3> QED
        BY <1>1, <1>6, <3>2 DEF Told
    <2>2. \A d \in IcdClients : d # c => (Told(d)' <=> Told(d)) /\ icdIn'[d] = icdIn[d]
      BY <1>1, <1>4, <1>6 DEF Told
    <2> HIDE DEF Told
    <2> QED
      BY <1>1, <2>1, <2>2 DEF IcdInv, IcdTold
  <1>10. IcdSources'
    BY <1>1 DEF IcdInv, IcdSources
  <1> QED
    BY <1>6, <1>7, <1>8, <1>9, <1>10 DEF IcdInv

\* The steps of dg_cli after Write_fd: client c goes to w, and may have read one
\* message.
LEMMA ReaderKeeps ==
    ASSUME IcdInv, NEW c \in IcdClients, NEW w \in {"loop", "select", "gone"},
           icdCli[c] \in {"wait", "loop", "select"},
           w # "gone" => Told(c),
           icdCli' = [icdCli EXCEPT ![c] = w],
           \/ UNCHANGED icdOut
           \/ icdOut[c] # <<>> /\ icdOut' = [icdOut EXCEPT ![c] = Tail(@)],
           UNCHANGED <<icdDaemon, icdQueue, icdIn, icdRaw>>
    PROVE  IcdInv'
  <1>1. UNCHANGED <<icdUp, icdSlot, icdMaxi, icdRset, icdQueue, icdIn, icdRaw>>
    BY DEF icdDaemon
  <1>2. /\ icdCli' \in [IcdClients -> {"new", "conn", "wait", "loop", "select", "gone"}]
        /\ \A d \in IcdClients : icdCli'[d] = IF d = c THEN w ELSE icdCli[d]
        /\ IcdPlaced' /\ IcdRound'
    <2>1. w \in {"wait", "loop", "select", "gone"} /\ icdCli[c] # "gone"
      OBVIOUS
    <2>2. /\ UNCHANGED <<icdSlot, icdMaxi, icdQueue, icdRset>>
          /\ \A d \in IcdClients : icdIn[d] # <<>> => icdIn'[d] # <<>>
      BY <1>1
    <2> QED
      BY <2>1, <2>2, ClientMoves
  <1>3. /\ icdOut' \in [IcdClients -> Seq(Messages)]
        /\ \A d \in IcdClients : d # c => icdOut'[d] = icdOut[d]
        /\ icdOut'[c] = icdOut[c] \/ (icdOut[c] # <<>> /\ icdOut'[c] = Tail(icdOut[c]))
    <2>1. icdOut \in [IcdClients -> Seq(Messages)]
      BY DEF IcdInv, IcdTypes
    <2>2. icdOut[c] # <<>> => Tail(icdOut[c]) \in Seq(Messages)
      BY <2>1, TailSeq
    <2>3. CASE UNCHANGED icdOut
      BY <2>1, <2>3
    <2>4. CASE icdOut[c] # <<>> /\ icdOut' = [icdOut EXCEPT ![c] = Tail(icdOut[c])]
      <3> DEFINE t == Tail(icdOut[c])
      <3>1. t \in Seq(Messages) /\ icdOut' = [icdOut EXCEPT ![c] = t]
        BY <2>2, <2>4
      <3> HIDE DEF t
      <3>2. /\ icdOut' \in [IcdClients -> Seq(Messages)] /\ icdOut'[c] = t
            /\ \A d \in IcdClients : d # c => icdOut'[d] = icdOut[d]
        BY <2>1, <3>1
      <3> QED
        BY <2>4, <3>2 DEF t
    <2> QED
      BY <2>3, <2>4
  <1>4. /\ NoGo(icdOut[c]) => NoGo(icdOut'[c])
        /\ \A a : AllAbout(icdOut[c], a) => AllAbout(icdOut'[c], a)
    <2>1. icdOut[c] \in Seq(Messages)
      BY DEF IcdInv, IcdTypes
    <2> QED
      BY <1>3, <2>1, TailSeq
  <1>5. IcdTypes'
    BY <1>1, <1>2, <1>3 DEF IcdInv, IcdTypes
  <1>6. IcdUntold'
    BY <1>1, <1>2, <1>3, <1>4 DEF IcdInv, IcdUntold
  <1>7. IcdTold'
    <2> SUFFICES ASSUME NEW d \in IcdClients, Told(d)'
                 PROVE  /\ \E i \in Slots : icdSlot[i] = [conn |-> d, addr |-> IcdAddr[d]]
                        /\ AllAbout(icdOut'[d], IcdAddr[d])
                        /\ icdIn[d] = <<>>
      BY <1>1 DEF IcdTold
    <2>1. Told(d)
      BY <1>2, <1>3 DEF Told
    <2> HIDE DEF Told
    <2> QED
      BY <1>3, <1>4, <2>1 DEF IcdInv, IcdTold
  <1>8. IcdSources'
    BY <1>1 DEF IcdInv, IcdSources
  <1> QED
    BY <1>2, <1>5, <1>6, <1>7, <1>8 DEF IcdInv

LEMMA ClientKeeps ==
    ASSUME IcdInv, NEW c \in IcdClients,
           IcdReadReply(c) \/ IcdSendLine(c) \/ IcdExit(c) \/ IcdSelectReturns(c)
    PROVE  IcdInv'
  <1>1. UNCHANGED <<icdDaemon, icdQueue, icdIn, icdRaw>>
    BY DEF IcdReadReply, IcdSendLine, IcdExit, IcdSelectReturns
  <1>2. icdCli[c] \in {"wait", "loop", "select"}
    BY DEF IcdReadReply, IcdSendLine, IcdExit, IcdSelectReturns
  <1>3. \/ UNCHANGED icdOut
        \/ icdOut[c] # <<>> /\ icdOut' = [icdOut EXCEPT ![c] = Tail(@)]
    BY DEF IcdReadReply, IcdSendLine, IcdExit, IcdSelectReturns
  <1>4. \E w \in {"loop", "select", "gone"} : /\ icdCli' = [icdCli EXCEPT ![c] = w]
                                              /\ w # "gone" => Told(c)
    BY DEF IcdReadReply, IcdSendLine, IcdExit, IcdSelectReturns, Told
  <1> QED
    BY <1>1, <1>2, <1>3, <1>4, ReaderKeeps

-----------------------------------------------------------------------------
(* The network, select and the handlers.                                   *)

LEMMA AddrIn == \A c \in IcdClients : IcdAddr[c] \in Addrs /\ IcdAddr[c][1] \in {4, 6}
  BY IcdAssumption DEF Addrs

LEMMA ArrivesKeeps ==
    ASSUME IcdInv, IcdArrives
    PROVE  IcdInv'
  <1>1. UNCHANGED <<icdUp, icdSlot, icdMaxi, icdRset, icdQueue, icdIn, icdCli, icdOut>>
    BY DEF IcdArrives, icdDaemon
  <1>2. PICK c \in IcdClients, is \in {"short", "echo", "noport", "toobig", "timxceed"} :
          icdRaw' = [icdRaw EXCEPT ![IcdAddr[c][1]] = Append(@, [is |-> is, addr |-> IcdAddr[c]])]
    BY DEF IcdArrives
  <1>3. /\ icdRaw' \in [{4, 6} -> Seq(IcmpMessages)]
        /\ \A f \in {4, 6} : icdRaw[f] # <<>> => icdRaw'[f] # <<>>
    <2> DEFINE f == IcdAddr[c][1]
               m == [is |-> is, addr |-> IcdAddr[c]]
               s == Append(icdRaw[f], m)
    <2>1. f \in {4, 6} /\ m \in IcmpMessages
      BY AddrIn DEF IcmpMessages
    <2>2. icdRaw \in [{4, 6} -> Seq(IcmpMessages)] /\ icdRaw' = [icdRaw EXCEPT ![f] = s]
      BY <1>2 DEF IcdInv, IcdTypes
    <2> HIDE DEF f, m
    <2>3. s \in Seq(IcmpMessages) /\ s # <<>>
      BY <2>1, <2>2
    <2> HIDE DEF s
    <2> QED
      BY <2>1, <2>2, <2>3
  <1>4. IcdTypes'
    BY <1>1, <1>3 DEF IcdInv, IcdTypes
  <1>5. IcdSources'
    BY <1>1, <1>3 DEF IcdInv, IcdSources
  <1> QED
    BY <1>1, <1>4, <1>5 DEF IcdInv, IcdPlaced, IcdRound, IcdUntold, IcdTold, Told

LEMMA SelectKeeps ==
    ASSUME IcdInv, IcdSelect
    PROVE  IcdInv'
  <1>1. /\ icdRset' = IcdReady
        /\ UNCHANGED <<icdUp, icdSlot, icdMaxi, icdQueue, icdIn, icdRaw, icdCli, icdOut>>
    BY DEF IcdSelect
  <1>2. IcdReady \subseteq Nat
    BY IcdAssumption DEF IcdReady
  <1>3. IcdTypes'
    BY <1>1, <1>2 DEF IcdInv, IcdTypes
  <1>4. IcdRound'
    <2> SUFFICES ASSUME NEW i \in Slots, 3 + i \in IcdReady
                 PROVE  /\ icdSlot[i].conn # 0
                        /\ icdIn[icdSlot[i].conn] # <<>> \/ icdCli[icdSlot[i].conn] = "gone"
      BY <1>1 DEF IcdRound
    <2>1. i \in Nat /\ 3 + i \notin {1, 2, 3}
      BY IcdAssumption DEF Slots
    <2>2. PICK j \in 1 .. IcdSlots :
            /\ 3 + i = 3 + j
            /\ icdSlot[j].conn # 0
            /\ icdIn[icdSlot[j].conn] # <<>> \/ icdCli[icdSlot[j].conn] = "gone"
      BY <2>1 DEF IcdReady
    <2>3. i = j
      BY <2>1, <2>2, IcdAssumption
    <2> QED
      BY <2>2, <2>3
  <1>5. IcdSources'
    <2>1. \A h \in {1, 2, 3} : h \notin {3 + i : i \in {j \in 1 .. IcdSlots :
            LET c == icdSlot[j].conn IN c # 0 /\ (icdIn[c] # <<>> \/ icdCli[c] = "gone")}}
      BY IcdAssumption
    <2> QED
      BY <1>1, <2>1 DEF IcdReady, IcdSources
  <1> QED
    BY <1>1, <1>3, <1>4, <1>5 DEF IcdInv, IcdPlaced, IcdUntold, IcdTold, Told

\* The turn of a handler takes one descriptor out of the round.
LEMMA TurnRset ==
    ASSUME IcdInv, NEW h, IcdTurn(h)
    PROVE  h \in icdRset /\ icdRset' = icdRset \ {h} /\ icdRset' \subseteq Nat
  BY DEF IcdTurn, IcdLooks, IcdInv, IcdTypes

LEMMA ListenKeeps ==
    ASSUME IcdInv, readable_listen
    PROVE  IcdInv'
  <1> DEFINE c == Head(icdQueue)
  <1>0. IcdTurn(1)
    BY DEF readable_listen
  <1>1. /\ icdQueue # <<>> /\ icdQueue' = Tail(icdQueue)
        /\ UNCHANGED <<icdUp, icdIn, icdRaw, icdCli, icdOut>>
        /\ 1 \notin icdRset' /\ icdRset' \subseteq icdRset /\ icdRset' \subseteq Nat
    BY <1>0, TurnRset DEF readable_listen, IcdInv, IcdSources
  <1>2. /\ icdQueue \in Seq(IcdClients) /\ c = icdQueue[1] /\ c \in IcdClients /\ c # 0
        /\ Len(icdQueue) \in Nat \ {0}
        /\ icdQueue' \in Seq(IcdClients) /\ Len(icdQueue') = Len(icdQueue) - 1
        /\ \A k \in 1 .. Len(icdQueue') :
              k + 1 \in 2 .. Len(icdQueue) /\ icdQueue'[k] = icdQueue[k + 1]
    BY <1>1, IcdAssumption DEF IcdInv, IcdTypes
  <1> HIDE DEF c
  <1>3. \A k \in 1 .. Len(icdQueue') : icdQueue'[k] # c
    BY <1>2 DEF IcdInv, IcdPlaced
  <1>4. icdCli[c] # "new" /\ \A i \in Slots : icdSlot[i].conn # c
    BY <1>2 DEF IcdInv, IcdPlaced
  <1>5. ASSUME UNCHANGED <<icdSlot, icdMaxi>>
        PROVE  IcdInv'
    <2>1. IcdTypes'
      BY <1>1, <1>2, <1>5 DEF IcdInv, IcdTypes
    <2>2. IcdPlaced'
      BY <1>1, <1>2, <1>5 DEF IcdInv, IcdPlaced
    <2>3. IcdRound' /\ IcdSources' /\ IcdUntold' /\ IcdTold'
      BY <1>1, <1>5 DEF IcdInv, IcdRound, IcdSources, IcdUntold, IcdTold, Told
    <2> QED
      BY <2>1, <2>2, <2>3 DEF IcdInv
  <1>6. ASSUME NEW i \in Slots, icdSlot[i].conn = 0, icdSlot' = [icdSlot EXCEPT ![i].conn = c],
               icdMaxi' = IcdRaised(i)
        PROVE  IcdInv'
    <2>1. icdSlot \in [Slots -> [conn : IcdClients \cup {0}, addr : Addrs]]
      BY DEF IcdInv, IcdTypes
    <2>2. /\ icdSlot' \in [Slots -> [conn : IcdClients \cup {0}, addr : Addrs]]
          /\ \A j \in Slots : j # i => icdSlot'[j] = icdSlot[j]
          /\ icdSlot'[i].conn = c
      BY <1>2, <1>6, <2>1
    <2>3. icdMaxi' \in 0 .. IcdSlots /\ i <= icdMaxi' /\ icdMaxi <= icdMaxi'
      BY <1>6, IcdAssumption DEF IcdRaised, IcdInv, IcdTypes, Slots
    <2>4. \A j \in Slots : icdSlot[j].conn # 0 => icdSlot'[j] = icdSlot[j]
      BY <1>6, <2>2
    <2>5. IcdTypes'
      BY <1>1, <1>2, <2>2, <2>3 DEF IcdInv, IcdTypes
    <2>6. IcdPlaced'
      <3>1. \A j, k \in Slots : icdSlot'[j].conn = icdSlot'[k].conn /\ icdSlot'[j].conn # 0 => j = k
        BY <1>4, <2>2 DEF IcdInv, IcdPlaced
      <3>2. \A j \in Slots : icdSlot'[j].conn # 0 => j <= icdMaxi'
        <4>1. icdMaxi \in Int /\ icdMaxi' \in Int /\ \A j \in Slots : j \in Int
          BY <2>3, IcdAssumption DEF IcdInv, IcdTypes, Slots
        <4> QED
          BY <2>2, <2>3, <4>1 DEF IcdInv, IcdPlaced
      <3>3. \A k \in 1 .. Len(icdQueue') :
               /\ \A j \in Slots : icdSlot'[j].conn # icdQueue'[k]
               /\ icdCli'[icdQueue'[k]] # "new"
        BY <1>1, <1>2, <1>3, <2>2 DEF IcdInv, IcdPlaced
      <3>4. \A k, l \in 1 .. Len(icdQueue') : icdQueue'[k] = icdQueue'[l] => k = l
        BY <1>2 DEF IcdInv, IcdPlaced
      <3>5. \A j \in Slots : icdSlot'[j].conn # 0 => icdCli'[icdSlot'[j].conn] # "new"
        BY <1>1, <1>4, <2>2 DEF IcdInv, IcdPlaced
      <3> QED
        BY <3>1, <3>2, <3>3, <3>4, <3>5 DEF IcdPlaced
    <2>7. IcdRound' /\ IcdSources'
      BY <1>1, <2>4 DEF IcdInv, IcdRound, IcdSources
    <2>8. IcdUntold'
      BY <1>1 DEF IcdInv, IcdUntold
    <2>9. IcdTold'
      <3> SUFFICES ASSUME NEW d \in IcdClients, Told(d)
                   PROVE  /\ \E j \in Slots : icdSlot'[j] = [conn |-> d, addr |-> IcdAddr[d]]
                          /\ AllAbout(icdOut[d], IcdAddr[d]) /\ icdIn[d] = <<>>
        BY <1>1 DEF IcdTold, Told
      <3>1. PICK j \in Slots : icdSlot[j] = [conn |-> d, addr |-> IcdAddr[d]]
        BY DEF IcdInv, IcdTold
      <3>2. icdSlot[j].conn # 0
        BY <3>1, IcdAssumption
      <3>3. icdSlot'[j] = [conn |-> d, addr |-> IcdAddr[d]]
        BY <2>4, <3>1, <3>2
      <3> QED
        BY <3>3 DEF IcdInv, IcdTold
    <2> QED
      BY <2>5, <2>6, <2>7, <2>8, <2>9 DEF IcdInv
  <1> QED
    BY <1>5, <1>6 DEF readable_listen, Slots, c

\* What the raw sockets' handlers do to the connections: each is left alone, or
\* holds one more error, about the address of its slot.
LEMMA ReadOut ==
    ASSUME IcdInv, NEW f \in {4, 6}, icdRaw[f] # <<>>, IcdRead(f)
    PROVE  /\ icdUp' \in BOOLEAN
           /\ icdOut' \in [IcdClients -> Seq(Messages)]
           /\ \A d \in IcdClients :
                 \/ icdOut'[d] = icdOut[d]
                 \/ \E i \in Slots, m \in Messages :
                       /\ icdSlot[i].conn = d /\ icdSlot[i].addr = m.addr /\ m.is \in Errnos
                       /\ icdOut'[d] = Append(icdOut[d], m)
  <1> DEFINE m == Head(icdRaw[f])
             e == IF f = 4 THEN IcdErrno4(m.is) ELSE IcdErrno6(m.is)
             n == [is |-> e, addr |-> m.addr]
  <1>1. icdUp \in BOOLEAN /\ icdOut \in [IcdClients -> Seq(Messages)]
    BY DEF IcdInv, IcdTypes
  <1>2. CASE m.is = "short"
    <2>1. icdUp' = FALSE /\ icdOut' = icdOut
      BY <1>2 DEF IcdRead
    <2>2. icdUp' \in BOOLEAN
      BY <2>1, Zenon
    <2> QED
      BY <1>1, <2>1, <2>2
  <1>3. CASE m.is = "echo"
    <2>1. icdUp' = icdUp /\ icdOut' = icdOut
      BY <1>3 DEF IcdRead
    <2> QED
      BY <1>1, <2>1, Zenon
  <1>4. CASE m.is \notin {"short", "echo"}
    <2>1. IcdDistribute(m.addr, e)
      BY <1>4 DEF IcdRead
    <2>2. m \in IcmpMessages
      <3>1. icdRaw[f] \in Seq(IcmpMessages)
        BY DEF IcdInv, IcdTypes
      <3> QED
        BY <3>1
    <2>3. n \in Messages /\ n.is \in Errnos /\ n.addr = m.addr
      <3>1. e \in Errnos
        BY DEF IcdErrno4, IcdErrno6, Errnos
      <3> HIDE DEF e
      <3> QED
        BY <2>2, <3>1 DEF Messages, IcmpMessages
    <2> HIDE DEF m, e
    <2> DEFINE named == {i \in 1 .. icdMaxi : IcdQuoted(i, m.addr)}
               ended == {i \in named : icdCli[icdSlot[i].conn] = "gone"}
               got == {icdSlot[i].conn : i \in {j \in named : \A x \in ended : j < x}}
    <2>4. /\ icdUp' = (ended = {})
          /\ icdOut' = [c \in IcdClients |-> IF c \in got THEN Append(icdOut[c], n) ELSE icdOut[c]]
      BY <2>1 DEF IcdDistribute
    <2>5. icdUp' \in BOOLEAN
      <3> HIDE DEF ended
      <3> QED
        BY <2>4, Zenon
    <2>6. 1 .. icdMaxi \subseteq Slots
      BY IcdAssumption DEF IcdInv, IcdTypes, Slots
    <2>7. ASSUME NEW d \in got
          PROVE  \E i \in Slots : icdSlot[i].conn = d /\ icdSlot[i].addr = n.addr
      BY <2>3, <2>6, <2>7 DEF IcdQuoted
    <2> HIDE DEF n, got
    <2>8. icdOut' \in [IcdClients -> Seq(Messages)]
      <3>1. \A c \in IcdClients : Append(icdOut[c], n) \in Seq(Messages)
        BY <1>1, <2>3, AppendSeq
      <3> QED
        BY <1>1, <2>4, <3>1
    <2>9. \A d \in IcdClients : icdOut'[d] = IF d \in got THEN Append(icdOut[d], n) ELSE icdOut[d]
      BY <2>4
    <2> QED
      BY <2>3, <2>5, <2>7, <2>8, <2>9
  <1> QED
    BY <1>2, <1>3, <1>4

LEMMA RawKeeps ==
    ASSUME IcdInv, NEW f \in {4, 6}, NEW h \in {2, 3}, h = 2 <=> f = 4,
           IcdTurn(h), IcdRead(f)
    PROVE  IcdInv'
  <1>1. /\ icdRset' \subseteq icdRset /\ h \notin icdRset' /\ icdRset' \subseteq Nat
        /\ icdRaw[f] # <<>>
    BY TurnRset DEF IcdInv, IcdSources
  <1>2. /\ icdRaw' = [icdRaw EXCEPT ![f] = Tail(icdRaw[f])]
        /\ UNCHANGED <<icdSlot, icdMaxi, icdQueue, icdIn, icdCli>>
    BY DEF IcdRead
  <1>3. /\ icdRaw' \in [{4, 6} -> Seq(IcmpMessages)]
        /\ \A g \in {4, 6} : g # f => icdRaw'[g] = icdRaw[g]
    <2>1. icdRaw \in [{4, 6} -> Seq(IcmpMessages)]
      BY DEF IcdInv, IcdTypes
    <2> DEFINE t == Tail(icdRaw[f])
    <2>2. t \in Seq(IcmpMessages)
      BY <1>1, <2>1
    <2> HIDE DEF t
    <2>3. icdRaw' = [icdRaw EXCEPT ![f] = t]
      BY <1>2 DEF t
    <2> QED
      BY <2>1, <2>2, <2>3
  <1>4. /\ icdUp' \in BOOLEAN
        /\ icdOut' \in [IcdClients -> Seq(Messages)]
        /\ \A d \in IcdClients :
              \/ icdOut'[d] = icdOut[d]
              \/ \E i \in Slots, m \in Messages :
                    /\ icdSlot[i].conn = d /\ icdSlot[i].addr = m.addr /\ m.is \in Errnos
                    /\ icdOut'[d] = Append(icdOut[d], m)
    BY <1>1, ReadOut
  <1>5. IcdTypes'
    <2>1. icdUp' \in BOOLEAN
      BY <1>4
    <2> QED
      BY <1>1, <1>2, <1>3, <1>4, <2>1 DEF IcdInv, IcdTypes
  <1>6. IcdPlaced' /\ IcdRound'
    BY <1>1, <1>2 DEF IcdInv, IcdPlaced, IcdRound
  <1>7. IcdSources'
    BY <1>1, <1>2, <1>3 DEF IcdInv, IcdSources
  <1>8. \A d \in IcdClients : icdOut[d] \in Seq(Messages)
    BY DEF IcdInv, IcdTypes
  <1>9. IcdUntold'
    <2>1. ASSUME NEW d \in IcdClients, NoGo(icdOut[d])
          PROVE  NoGo(icdOut'[d])
      <3>1. CASE icdOut'[d] = icdOut[d]
        BY <2>1, <3>1
      <3>2. CASE icdOut'[d] # icdOut[d]
        <4>1. PICK m \in Messages : m.is \in Errnos /\ icdOut'[d] = Append(icdOut[d], m)
          BY <1>4, <3>2
        <4>2. m.is # "1"
          BY <4>1 DEF Errnos
        <4> QED
          BY <1>8, <2>1, <4>1, <4>2, AppendSeq
      <3> QED
        BY <3>1, <3>2
    <2> QED
      BY <1>2, <2>1 DEF IcdInv, IcdUntold
  <1>10. IcdTold'
    <2> SUFFICES ASSUME NEW d \in IcdClients, Told(d)'
                 PROVE  /\ \E i \in Slots : icdSlot[i] = [conn |-> d, addr |-> IcdAddr[d]]
                        /\ AllAbout(icdOut'[d], IcdAddr[d]) /\ icdIn[d] = <<>>
      BY <1>2 DEF IcdTold
    <2>1. CASE icdOut'[d] = icdOut[d]
      <3>1. Told(d)
        BY <1>2, <2>1 DEF Told
      <3> QED
        BY <2>1, <3>1 DEF IcdInv, IcdTold
    <2>2. CASE icdOut'[d] # icdOut[d]
      <3>1. PICK i \in Slots, m \in Messages :
              /\ icdSlot[i].conn = d /\ icdSlot[i].addr = m.addr /\ m.is \in Errnos
              /\ icdOut'[d] = Append(icdOut[d], m)
        BY <1>4, <2>2
      <3>2. m.is # "1"
        BY <3>1 DEF Errnos
      <3>3. Told(d)
        <4>1. /\ icdOut[d] # <<>> => Head(icdOut'[d]) = Head(icdOut[d])
              /\ icdOut[d] = <<>> => Head(icdOut'[d]) = m
          BY <1>8, <3>1, AppendSeq
        <4> QED
          BY <1>2, <3>2, <4>1 DEF Told
      <3>4. PICK j \in Slots : icdSlot[j] = [conn |-> d, addr |-> IcdAddr[d]]
        BY <3>3 DEF IcdInv, IcdTold
      <3>5. AllAbout(icdOut[d], IcdAddr[d]) /\ icdIn[d] = <<>>
        BY <3>3 DEF IcdInv, IcdTold
      <3>6. i = j
        BY <3>1, <3>4, IcdAssumption DEF IcdInv, IcdPlaced
      <3>7. m.addr = IcdAddr[d]
        BY <3>1, <3>4, <3>6
      <3>8. AllAbout(icdOut'[d], IcdAddr[d])
        BY <1>8, <3>1, <3>5, <3>7, AppendSeq
      <3> QED
        BY <3>4, <3>5, <3>8
    <2> QED
      BY <2>1, <2>2
  <1> QED
    BY <1>5, <1>6, <1>7, <1>9, <1>10 DEF IcdInv

\* The handler of the connection in slot i.
LEMMA ConnKeeps ==
    ASSUME IcdInv, NEW i \in Slots, readable_conn(i)
    PROVE  IcdInv'
  <1> DEFINE c == icdSlot[i].conn
             Answer(a) == [is |-> IF a[1] = 0 THEN "0" ELSE "1", addr |-> a]
  <1>0. IcdTurn(3 + i)
    BY DEF readable_conn
  <1>1. /\ 3 + i \in icdRset /\ 3 + i \notin icdRset'
        /\ icdRset' \subseteq icdRset /\ icdRset' \subseteq Nat
    BY <1>0, TurnRset
  <1>2. /\ icdSlot \in [Slots -> [conn : IcdClients \cup {0}, addr : Addrs]]
        /\ icdIn \in [IcdClients -> Seq({"fd", "bare", "byte"})]
        /\ icdOut \in [IcdClients -> Seq(Messages)]
    BY DEF IcdInv, IcdTypes
  <1>3. c \in IcdClients /\ c # 0 /\ (icdIn[c] # <<>> \/ icdCli[c] = "gone")
    BY <1>1, <1>2 DEF IcdInv, IcdRound
  <1>4. \A j \in Slots : j # i => icdSlot[j].conn # c
    BY <1>3 DEF IcdInv, IcdPlaced
  <1>5. /\ icdIn' = [icdIn EXCEPT ![c] = <<>>]
        /\ UNCHANGED <<icdMaxi, icdQueue, icdRaw, icdCli>>
    BY DEF readable_conn
  <1>6. /\ icdIn' \in [IcdClients -> Seq({"fd", "bare", "byte"})]
        /\ \A d \in IcdClients : icdIn'[d] = IF d = c THEN <<>> ELSE icdIn[d]
    BY <1>2, <1>3, <1>5
  <1>7. \/ /\ icdIn[c] = <<>> /\ UNCHANGED <<icdUp, icdOut>>
           /\ icdSlot' = [icdSlot EXCEPT ![i].conn = 0]
        \/ /\ icdIn[c] # <<>>
           /\ \E a \in {IcdAddr[c], <<0, 0>>} :
                 /\ icdUp' \in BOOLEAN
                 /\ icdOut' = [icdOut EXCEPT ![c] = Append(icdOut[c], Answer(a))]
                 /\ IF a[1] = 0 THEN icdSlot' = [icdSlot EXCEPT ![i].conn = 0]
                    ELSE icdSlot' = [icdSlot EXCEPT ![i].addr = a]
    <2>1. CASE icdIn[c] = <<>>
      BY <2>1 DEF readable_conn, IcdClientDone
    <2>2. CASE icdIn[c] # <<>>
      <3>1. PICK a \in IcdRegistered(c) :
               /\ icdUp' = (icdCli[c] # "gone")
               /\ icdOut' = [icdOut EXCEPT ![c] = Append(icdOut[c], Answer(a))]
               /\ IF a[1] = 0 THEN icdSlot' = [icdSlot EXCEPT ![i].conn = 0]
                  ELSE icdSlot' = [icdSlot EXCEPT ![i].addr = a]
        BY <2>2 DEF readable_conn, IcdClientDone
      <3>2. a \in {IcdAddr[c], <<0, 0>>}
        BY DEF IcdRegistered, sock_bind_wild
      <3>3. icdUp' \in BOOLEAN
        BY <3>1, Zenon
      <3> QED
        BY <2>2, <3>1, <3>2, <3>3
    <2> QED
      BY <2>1, <2>2
  <1> HIDE DEF c
  <1>8. /\ icdUp' \in BOOLEAN
        /\ icdOut' \in [IcdClients -> Seq(Messages)]
        /\ \A d \in IcdClients : d # c => icdOut'[d] = icdOut[d]
    <2>1. CASE UNCHANGED <<icdUp, icdOut>>
      <3>1. icdUp \in BOOLEAN /\ icdUp' = icdUp /\ icdOut' = icdOut
        BY <2>1 DEF IcdInv, IcdTypes
      <3> QED
        BY <1>2, <3>1, Zenon
    <2>2. ASSUME NEW a \in {IcdAddr[c], <<0, 0>>}, icdUp' \in BOOLEAN,
                 icdOut' = [icdOut EXCEPT ![c] = Append(icdOut[c], Answer(a))]
          PROVE  /\ icdUp' \in BOOLEAN
                 /\ icdOut' \in [IcdClients -> Seq(Messages)]
                 /\ \A d \in IcdClients : d # c => icdOut'[d] = icdOut[d]
      <3>1. Answer(a) \in Messages
        BY <1>3, AddrIn DEF Messages, Addrs
      <3> DEFINE s == Append(icdOut[c], Answer(a))
      <3>2. s \in Seq(Messages)
        BY <1>2, <1>3, <3>1, AppendSeq
      <3>3. icdOut' = [icdOut EXCEPT ![c] = s]
        BY <2>2
      <3> HIDE DEF s, Answer
      <3>4. /\ icdOut' \in [IcdClients -> Seq(Messages)]
            /\ \A d \in IcdClients : d # c => icdOut'[d] = icdOut[d]
        BY <1>2, <1>3, <3>2, <3>3
      <3> QED
        BY <2>2, <3>4, Zenon
    <2> QED
      BY <1>7, <2>1, <2>2
  <1>9. /\ icdSlot' \in [Slots -> [conn : IcdClients \cup {0}, addr : Addrs]]
        /\ \A j \in Slots : j # i => icdSlot'[j] = icdSlot[j]
        /\ icdSlot'[i].conn \in {0, c}
    <2>1. CASE icdSlot' = [icdSlot EXCEPT ![i].conn = 0]
      BY <1>2, <2>1
    <2>2. ASSUME NEW a \in {IcdAddr[c], <<0, 0>>}, icdSlot' = [icdSlot EXCEPT ![i].addr = a]
          PROVE  /\ icdSlot' \in [Slots -> [conn : IcdClients \cup {0}, addr : Addrs]]
                 /\ \A j \in Slots : j # i => icdSlot'[j] = icdSlot[j]
                 /\ icdSlot'[i].conn \in {0, c}
      <3>1. a \in Addrs
        BY <1>3, AddrIn DEF Addrs
      <3> QED
        BY <1>2, <2>2, <3>1 DEF c
    <2> QED
      BY <1>7, <2>1, <2>2
  <1>10. IcdTypes'
    <2>1. icdUp' \in BOOLEAN
      BY <1>8
    <2> QED
      BY <1>1, <1>5, <1>6, <1>8, <1>9, <2>1 DEF IcdInv, IcdTypes
  <1>11. IcdPlaced'
    <2>1. \A j, k \in Slots : icdSlot'[j].conn = icdSlot'[k].conn /\ icdSlot'[j].conn # 0 => j = k
      BY <1>4, <1>9 DEF IcdInv, IcdPlaced
    <2>2. \A j \in Slots : icdSlot'[j].conn # 0 => j <= icdMaxi /\ icdCli[icdSlot'[j].conn] # "new"
      BY <1>3, <1>9 DEF IcdInv, IcdPlaced, c
    <2>3. \A k \in 1 .. Len(icdQueue) : \A j \in Slots : icdSlot'[j].conn # icdQueue[k]
      <3>1. \A k \in 1 .. Len(icdQueue) : icdQueue[k] # 0
        BY IcdAssumption DEF IcdInv, IcdTypes
      <3> QED
        BY <1>9, <3>1 DEF IcdInv, IcdPlaced, c
    <2> QED
      BY <1>5, <2>1, <2>2, <2>3 DEF IcdInv, IcdPlaced
  <1>12. IcdRound'
    <2> SUFFICES ASSUME NEW j \in Slots, 3 + j \in icdRset'
                 PROVE  /\ icdSlot'[j].conn # 0
                        /\ icdIn'[icdSlot'[j].conn] # <<>> \/ icdCli[icdSlot'[j].conn] = "gone"
      BY <1>5 DEF IcdRound
    <2>1. j # i /\ icdSlot'[j] = icdSlot[j] /\ icdSlot[j].conn # c
      BY <1>1, <1>4, <1>9
    <2>2. /\ icdSlot[j].conn # 0
          /\ icdIn[icdSlot[j].conn] # <<>> \/ icdCli[icdSlot[j].conn] = "gone"
      BY <1>1 DEF IcdInv, IcdRound
    <2>3. icdSlot[j].conn \in IcdClients
      BY <1>2, <2>2
    <2> QED
      BY <1>6, <2>1, <2>2, <2>3
  <1>13. IcdSources'
    BY <1>1, <1>5 DEF IcdInv, IcdSources
  <1>14. IcdUntold'
    <2>1. icdCli[c] \notin {"new", "conn"}
      BY <1>3 DEF IcdInv, IcdUntold
    <2> QED
      BY <1>5, <1>6, <1>8, <2>1 DEF IcdInv, IcdUntold
  <1>15. IcdTold'
    <2> SUFFICES ASSUME NEW d \in IcdClients, Told(d)'
                 PROVE  /\ \E j \in Slots : icdSlot'[j] = [conn |-> d, addr |-> IcdAddr[d]]
                        /\ AllAbout(icdOut'[d], IcdAddr[d]) /\ icdIn'[d] = <<>>
      BY DEF IcdTold
    <2>1. CASE d # c
      <3>1. Told(d)
        BY <1>5, <1>8, <2>1 DEF Told
      <3>2. PICK j \in Slots : icdSlot[j] = [conn |-> d, addr |-> IcdAddr[d]]
        BY <3>1 DEF IcdInv, IcdTold
      <3>3. j # i
        BY <2>1, <3>2 DEF c
      <3>4. icdSlot'[j] = [conn |-> d, addr |-> IcdAddr[d]]
        BY <1>9, <3>2, <3>3
      <3> QED
        BY <1>6, <1>8, <2>1, <3>1, <3>4 DEF IcdInv, IcdTold
    <2>2. CASE d = c
      <3>1. icdCli[c] # "gone" /\ icdIn[c] # <<>>
        BY <1>3, <1>5, <2>2 DEF Told
      <3>2. ~ Told(c) /\ NoGo(icdOut[c])
        BY <1>3, <3>1 DEF IcdInv, IcdTold, IcdUntold
      <3>3. icdCli[c] = "wait" /\ Head(icdOut'[c]).is = "1"
        BY <1>5, <2>2, <3>2 DEF Told
      <3>4. PICK a \in {IcdAddr[c], <<0, 0>>} :
              /\ icdOut' = [icdOut EXCEPT ![c] = Append(icdOut[c], Answer(a))]
              /\ IF a[1] = 0 THEN icdSlot' = [icdSlot EXCEPT ![i].conn = 0]
                 ELSE icdSlot' = [icdSlot EXCEPT ![i].addr = a]
        BY <1>7, <3>1
      <3> DEFINE m == Answer(a)
      <3>5. m \in Messages /\ m.addr = a /\ (m.is = "1" => a[1] # 0)
        BY <1>3, AddrIn DEF Messages, Addrs
      <3>6. icdOut'[c] = Append(icdOut[c], m)
        BY <1>2, <1>3, <3>4
      <3> HIDE DEF m, Answer
      <3>7. icdOut[c] = <<>> /\ m.is = "1"
        <4>1. icdOut[c] \in Seq(Messages)
          BY <1>2, <1>3
        <4>2. /\ icdOut[c] # <<>> => Head(icdOut'[c]) = Head(icdOut[c])
              /\ icdOut[c] = <<>> => Head(icdOut'[c]) = m
          BY <3>5, <3>6, <4>1, AppendSeq
        <4>3. icdOut[c] # <<>> => Head(icdOut[c]).is # "1"
          BY <3>2, <4>1, NoGoHead
        <4> QED
          BY <3>3, <4>2, <4>3
      <3>8. a[1] # 0 /\ a = IcdAddr[c]
        BY <3>5, <3>7
      <3>9. icdSlot'[i] = [conn |-> c, addr |-> IcdAddr[c]]
        <4>1. icdSlot' = [icdSlot EXCEPT ![i].addr = a]
          BY <3>4, <3>8
        <4> QED
          BY <1>2, <3>8, <4>1 DEF c
      <3>10. AllAbout(icdOut'[c], IcdAddr[c])
        <4>1. icdOut[c] \in Seq(Messages) /\ AllAbout(icdOut[c], IcdAddr[c])
          BY <3>7, EmptySeq
        <4>2. m.addr = IcdAddr[c]
          BY <3>5, <3>8
        <4> QED
          BY <3>5, <3>6, <4>1, <4>2, AppendSeq
      <3> QED
        BY <1>3, <1>6, <2>2, <3>9, <3>10
    <2> QED
      BY <2>1, <2>2
  <1> QED
    BY <1>10, <1>11, <1>12, <1>13, <1>14, <1>15 DEF IcdInv

-----------------------------------------------------------------------------
(* The theorems.                                                           *)

LEMMA IcdInvNext == IcdInv /\ [IcdNext]_icdVars => IcdInv'
  <1> SUFFICES ASSUME IcdInv, [IcdNext]_icdVars PROVE IcdInv'
    OBVIOUS
  <1>1. CASE UNCHANGED icdVars
    <2>1. UNCHANGED <<icdUp, icdSlot, icdMaxi, icdRset, icdQueue, icdIn, icdRaw, icdCli, icdOut>>
      BY <1>1 DEF icdVars
    <2>2. IcdTypes'
      BY <2>1 DEF IcdInv, IcdTypes
    <2> QED
      BY <2>1, <2>2 DEF IcdInv, IcdPlaced, IcdRound, IcdSources, IcdUntold, IcdTold, Told
  <1>2. CASE IcdDaemonStep
    <2>1. CASE readable_v4 \/ readable_v6
      BY <2>1, RawKeeps DEF readable_v4, readable_v6
    <2>2. CASE \E i \in 1 .. IcdSlots : readable_conn(i)
      BY <2>2, ConnKeeps DEF Slots
    <2> QED
      BY <1>2, <2>1, <2>2, SelectKeeps, ListenKeeps DEF IcdDaemonStep
  <1>3. ASSUME NEW c \in IcdClients,
               IcdConnect(c) \/ IcdClientStep(c) \/ IcdSendLine(c) \/ IcdExit(c)
               \/ IcdSelectReturns(c)
        PROVE  IcdInv'
    BY <1>3, ConnectKeeps, Write_fdKeeps, ClientKeeps DEF IcdClientStep
  <1>4. CASE IcdArrives
    BY <1>4, ArrivesKeeps
  <1> QED
    BY <1>1, <1>2, <1>3, <1>4 DEF IcdNext

\* For any clients, any addresses and any size of client[], and whatever the
\* order in which connections, descriptors and ICMP messages arrive, slots are
\* reused and clients end: a client that has been told "1" finds on its
\* connection only errors about its own socket.
THEOREM IcdOwnErrorsCorrect == IcdSpec => []IcdOwnErrors
  <1>1. IcdInv => IcdOwnErrors
    BY DEF IcdInv, IcdTold, IcdOwnErrors, Told, AllAbout
  <1> QED
    BY <1>1, IcdInvInit, IcdInvNext, PTL DEF IcdSpec

\* Only the handler of a raw socket takes a message from it.
LEMMA RawShrinks ==
    ASSUME IcdInv, IcdNext, NEW f \in {4, 6}, Len(icdRaw'[f]) < Len(icdRaw[f])
    PROVE  IcdRead(f) /\ icdRaw[f] # <<>>
  <1>1. icdRaw \in [{4, 6} -> Seq(IcmpMessages)]
    BY DEF IcdInv, IcdTypes
  <1>2. \A g \in {4, 6} : Len(icdRaw[g]) \in Nat
    BY <1>1
  <1>3. icdRaw' # icdRaw
    BY <1>2
  <1>4. CASE IcdArrives
    <2>1. PICK c \in IcdClients, is \in {"short", "echo", "noport", "toobig", "timxceed"} :
            icdRaw' = [icdRaw EXCEPT ![IcdAddr[c][1]] = Append(@, [is |-> is, addr |-> IcdAddr[c]])]
      BY <1>4 DEF IcdArrives
    <2> DEFINE h == IcdAddr[c][1]
               m == [is |-> is, addr |-> IcdAddr[c]]
               s == Append(icdRaw[h], m)
    <2>2. h \in {4, 6} /\ m \in IcmpMessages
      BY AddrIn DEF IcmpMessages
    <2>3. icdRaw' = [icdRaw EXCEPT ![h] = s]
      BY <2>1
    <2> HIDE DEF h, m
    <2>4. Len(s) = Len(icdRaw[h]) + 1
      BY <1>1, <2>2
    <2> HIDE DEF s
    <2>5. \A g \in {4, 6} : icdRaw'[g] = IF g = h THEN s ELSE icdRaw[g]
      BY <1>1, <2>2, <2>3
    <2> QED
      BY <1>2, <2>2, <2>4, <2>5
  <1>5. CASE readable_v4 \/ readable_v6
    <2>1. PICK g \in {4, 6} : IcdRead(g) /\ icdRaw[g] # <<>>
      <3>1. CASE readable_v4
        BY <3>1, TurnRset DEF readable_v4, IcdInv, IcdSources
      <3>2. CASE readable_v6
        BY <3>2, TurnRset DEF readable_v6, IcdInv, IcdSources
      <3> QED
        BY <1>5, <3>1, <3>2
    <2>2. icdRaw' = [icdRaw EXCEPT ![g] = Tail(icdRaw[g])]
      BY <2>1 DEF IcdRead
    <2>3. g # f => icdRaw'[f] = icdRaw[f]
      BY <1>1, <2>2
    <2>4. g = f
      BY <1>2, <2>3
    <2> QED
      BY <2>1, <2>4
  <1>6. IcdArrives \/ readable_v4 \/ readable_v6
    BY <1>3 DEF IcdNext, IcdDaemonStep, IcdClientStep, IcdSelect, readable_listen, readable_conn,
        IcdConnect, Write_fd, IcdReadReply, IcdSendLine, IcdExit, IcdSelectReturns
  <1> QED
    BY <1>4, <1>5, <1>6

\* When the daemon reads an ICMP error and goes on, the client with the quoted
\* address that has been told "1" has one more error to read.
LEMMA ReadReaches ==
    ASSUME IcdInv, NEW f \in {4, 6}, icdRaw[f] # <<>>, IcdRead(f), icdUp',
           Head(icdRaw[f]).is \in {"noport", "toobig", "timxceed"},
           NEW c \in IcdClients, icdCli[c] \in {"loop", "select"},
           IcdAddr[c] = Head(icdRaw[f]).addr
    PROVE  Len(icdOut'[c]) = Len(icdOut[c]) + 1
  <1> DEFINE m == Head(icdRaw[f])
             e == IF f = 4 THEN IcdErrno4(m.is) ELSE IcdErrno6(m.is)
             n == [is |-> e, addr |-> m.addr]
             named == {i \in 1 .. icdMaxi : IcdQuoted(i, m.addr)}
             ended == {i \in named : icdCli[icdSlot[i].conn] = "gone"}
             got == {icdSlot[i].conn : i \in {j \in named : \A x \in ended : j < x}}
  <1>1. /\ icdUp' = (ended = {})
        /\ icdOut' = [d \in IcdClients |-> IF d \in got THEN Append(icdOut[d], n) ELSE icdOut[d]]
    BY DEF IcdRead, IcdDistribute
  <1>2. ended = {}
    <2> HIDE DEF ended
    <2> QED
      BY <1>1, Zenon
  <1>3. PICK i \in Slots : icdSlot[i] = [conn |-> c, addr |-> IcdAddr[c]]
    BY DEF IcdInv, IcdTold, Told
  <1>4. i \in 1 .. icdMaxi
    BY <1>3, IcdAssumption DEF IcdInv, IcdPlaced, IcdTypes, Slots
  <1>5. i \in named
    BY <1>3, <1>4, IcdAssumption DEF IcdQuoted
  <1>6. c \in got
    <2> HIDE DEF named
    <2> QED
      BY <1>2, <1>3, <1>5
  <1> HIDE DEF got, n
  <1>7. icdOut'[c] = Append(icdOut[c], n)
    BY <1>1, <1>6
  <1>8. icdOut[c] \in Seq(Messages)
    BY DEF IcdInv, IcdTypes
  <1>9. Len(Append(icdOut[c], n)) = Len(icdOut[c]) + 1
    BY <1>8
  <1> QED
    BY <1>7, <1>9

\* For any clients, any addresses and any size of client[]: no client that has
\* been told "1" misses an error about its socket that the daemon reads and
\* survives.
THEOREM IcdNoneMissedCorrect == IcdSpec => IcdNoneMissed
  <1> DEFINE Step ==
        \A f \in {4, 6} : (Len(icdRaw'[f]) < Len(icdRaw[f]) /\ icdUp') =>
            LET m == Head(icdRaw[f])
            IN \A c \in IcdClients :
                (icdCli[c] \in {"loop", "select"} /\ IcdAddr[c] = m.addr
                 /\ m.is \in {"noport", "toobig", "timxceed"})
                => Len(icdOut'[c]) = Len(icdOut[c]) + 1
  <1>1. IcdInv /\ [IcdNext]_icdVars => [Step]_icdVars
    <2> SUFFICES ASSUME IcdInv, IcdNext, NEW f \in {4, 6}, Len(icdRaw'[f]) < Len(icdRaw[f]), icdUp',
                        NEW c \in IcdClients, icdCli[c] \in {"loop", "select"},
                        IcdAddr[c] = Head(icdRaw[f]).addr,
                        Head(icdRaw[f]).is \in {"noport", "toobig", "timxceed"}
                 PROVE  Len(icdOut'[c]) = Len(icdOut[c]) + 1
      OBVIOUS
    <2> QED
      BY RawShrinks, ReadReaches
  <1> QED
    BY <1>1, IcdInvInit, IcdInvNext, PTL DEF IcdSpec, IcdNoneMissed

=============================================================================
