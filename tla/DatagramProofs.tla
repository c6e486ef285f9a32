--------------------------- MODULE DatagramProofs ---------------------------
(***************************************************************************)
(* Proofs about datagram programs of unpv13e: the signal-driven echo       *)
(* server, for a ring of any size, the request with retransmission, for    *)
(* any measured round-trip times, the clients with a time limit, and the   *)
(* programs that read whole packets: udpcksum, ping and traceroute.        *)
(***************************************************************************)
EXTENDS SigioEcho, DgSendRecv, TimedWait, RawPrograms, FiniteSetTheorems,
        SequenceTheorems, WellFoundedInduction, TLAPS

-----------------------------------------------------------------------------
(* The signal-driven echo server.                                          *)

\* The buffer j places after iget, for j up to QSIZE.
SgoSlot(j) == IF sgoGet + j >= SgoQsize THEN sgoGet + j - SgoQsize ELSE sgoGet + j

\* The datagrams the main loop is done with; the one sent last counts when
\* iget has moved on.
SgoBase == IF sgoPc = "next" THEN Len(sgoEchoed) - 1 ELSE Len(sgoEchoed)

SgoTypes ==
    /\ sgoArrived \in Nat /\ sgoSocket \in Seq(Nat) /\ sgoPending \in BOOLEAN
    /\ sgoDg \in [0 .. SgoQsize - 1 -> Nat]
    /\ sgoGet \in 0 .. SgoQsize - 1 /\ sgoPut \in 0 .. SgoQsize - 1
    /\ sgoN \in 0 .. SgoQsize
    /\ sgoPc \in {"wait", "send", "next", "quit"}
    /\ sgoEchoed \in Seq(Nat) /\ SgoBase \in Nat

\* The datagrams stand in line, by number: echoed, in the nqueue buffers from
\* iget on, in the socket.
SgoInLine ==
    /\ sgoN < SgoQsize
    /\ sgoPc \in {"send", "next"} => sgoN >= 1
    /\ sgoPut = SgoSlot(sgoN)
    /\ \A j \in 0 .. SgoQsize - 1 : j < sgoN => sgoDg[SgoSlot(j)] = SgoBase + 1 + j
    /\ \A i \in 1 .. Len(sgoSocket) : sgoSocket[i] = SgoBase + sgoN + i
    /\ sgoArrived = SgoBase + sgoN + Len(sgoSocket)

\* Until a full ring ends the program.
SgoInv ==
    /\ SgoTypes
    /\ SgoInOrder
    /\ sgoPc # "quit" => SgoInLine

\* One turn around the ring at most.
LEMMA SgoModulo ==
    ASSUME NEW x \in Nat, x < 2 * SgoQsize
    PROVE  x % SgoQsize = IF x >= SgoQsize THEN x - SgoQsize ELSE x
  <1> USE SgoQsizeAssumption
  <1>1. CASE x < SgoQsize
    BY <1>1
  <1>2. CASE x >= SgoQsize
    BY <1>2
  <1> QED
    BY <1>1, <1>2

\* What the handler reads: all of the socket, or what the ring has room for.
LEMMA SgoReadAll ==
    ASSUME NEW len \in Nat, NEW n \in 0 .. SgoQsize
    PROVE  LET room == {m \in 0 .. len : m = 0 \/ ~SgoFull(n + m - 1)}
           IN  SgoRead(room) = IF len <= SgoQsize - n THEN len ELSE SgoQsize - n
  <1> USE SgoQsizeAssumption
  <1> DEFINE room == {m \in 0 .. len : m = 0 \/ ~SgoFull(n + m - 1)}
             most == IF len <= SgoQsize - n THEN len ELSE SgoQsize - n
  <1>1. most \in room /\ \A m \in room : m <= most
    BY DEF SgoFull
  <1>2. room \subseteq Nat
    OBVIOUS
  <1> HIDE DEF room, most
  <1>3. \A k \in room : (\A m \in room : m <= k) => k = most
    BY <1>1, <1>2
  <1>4. SgoRead(room) = most
    BY <1>1, <1>3 DEF SgoRead
  <1> QED
    BY <1>4 DEF room, most

LEMMA SgoInvInit == SgoInit => SgoInv
  <1> SUFFICES ASSUME SgoInit PROVE SgoInv
    OBVIOUS
  <1> USE SgoQsizeAssumption
  <1>1. /\ sgoArrived = 0 /\ sgoSocket = <<>> /\ sgoPending = FALSE
        /\ sgoGet = 0 /\ sgoPut = 0 /\ sgoN = 0 /\ sgoPc = "wait" /\ sgoEchoed = <<>>
        /\ sgoDg = [i \in 0 .. SgoQsize - 1 |-> 0]
    BY DEF SgoInit
  <1>2. SgoBase = 0 /\ SgoSlot(0) = 0
    BY <1>1 DEF SgoBase, SgoSlot
  <1>3. sgoDg \in [0 .. SgoQsize - 1 -> Nat]
    BY <1>1
  <1>4. SgoTypes
    <2>1. 0 \in 0 .. SgoQsize - 1 /\ 0 \in 0 .. SgoQsize /\ 0 \in Nat
      OBVIOUS
    <2>2. <<>> \in Seq(Nat) /\ FALSE \in BOOLEAN
      OBVIOUS
    <2> QED
      BY <1>1, <1>2, <1>3, <2>1, <2>2 DEF SgoTypes
  <1>5. SgoInOrder
    BY <1>1 DEF SgoInOrder
  <1> QED
    BY <1>1, <1>2, <1>4, <1>5 DEF SgoInv, SgoInLine

LEMMA SgoSigIoStep ==
    ASSUME SgoInv, SgoSigIo
    PROVE  SgoInv'
  <1> USE SgoQsizeAssumption
  <1> DEFINE room == {n \in 0 .. Len(sgoSocket) : n = 0 \/ ~SgoFull(sgoN + n - 1)}
             k == SgoRead(room)
             js(i) == {j \in 1 .. k : (sgoPut + j - 1) % SgoQsize = i}
  <1>1. /\ sgoDg' = [i \in DOMAIN sgoDg |->
                       IF js(i) = {} THEN sgoDg[i]
                       ELSE sgoSocket[CHOOSE j \in js(i) : \A l \in js(i) : l <= j]]
        /\ sgoPut' = (sgoPut + k) % SgoQsize /\ sgoN' = sgoN + k
        /\ sgoSocket' = SubSeq(sgoSocket, k + 1, Len(sgoSocket))
        /\ sgoPc' = IF SgoFull(sgoN + k) THEN "quit" ELSE sgoPc
    BY DEF SgoSigIo
  <1>2. /\ sgoPc \in {"wait", "send", "next"}
        /\ sgoPc = "wait" => sgoN = 0
        /\ sgoPending' = FALSE
        /\ UNCHANGED <<sgoArrived, sgoGet, sgoEchoed>>
        /\ SgoInLine
    BY DEF SgoSigIo, SgoInv
  <1>t. /\ sgoGet \in 0 .. SgoQsize - 1 /\ sgoPut \in 0 .. SgoQsize - 1
        /\ sgoN \in 0 .. SgoQsize /\ sgoPut = SgoSlot(sgoN)
        /\ sgoSocket \in Seq(Nat) /\ Len(sgoSocket) \in Nat
    BY <1>2 DEF SgoInv, SgoTypes, SgoInLine
  <1>3. /\ k \in 0 .. Len(sgoSocket) /\ sgoN + k <= SgoQsize
        /\ sgoN < SgoQsize /\ sgoN \in Nat /\ k <= SgoQsize /\ k \in Nat
    <2>1. k = IF Len(sgoSocket) <= SgoQsize - sgoN THEN Len(sgoSocket) ELSE SgoQsize - sgoN
      BY <1>t, SgoReadAll
    <2> HIDE DEF k
    <2> QED
      BY <1>2, <1>t, <2>1 DEF SgoInLine
  <1> HIDE DEF k
  <1>4. \A j \in 1 .. k : (sgoPut + j - 1) % SgoQsize = SgoSlot(sgoN + j - 1)
    <2> TAKE j \in 1 .. k
    <2> DEFINE x == sgoPut + j - 1
    <2>1. x \in Nat /\ x < 2 * SgoQsize
      BY <1>3, <1>t
    <2> HIDE DEF x
    <2>2. x % SgoQsize = IF x >= SgoQsize THEN x - SgoQsize ELSE x
      BY <2>1, SgoModulo
    <2>3. (IF x >= SgoQsize THEN x - SgoQsize ELSE x) = SgoSlot(sgoN + j - 1)
      BY <1>3, <1>t DEF SgoSlot, x
    <2> QED
      BY <2>2, <2>3 DEF x
  <1>5. \A a, b \in 0 .. SgoQsize - 1 : SgoSlot(a) = SgoSlot(b) => a = b
    BY <1>t DEF SgoSlot
  <1>6. \A a \in 0 .. SgoQsize - 1 : SgoSlot(a) \in 0 .. SgoQsize - 1
    BY <1>t DEF SgoSlot
  <1>7. SgoBase \in Nat /\ SgoBase' \in Nat /\ (sgoPc' # "quit" => SgoBase' = SgoBase)
    <2>1. SgoBase \in Nat /\ Len(sgoEchoed) \in Nat
      BY DEF SgoInv, SgoTypes
    <2> QED
      BY <1>1, <1>2, <2>1 DEF SgoBase
  \* What was waiting in the ring is not touched.
  <1>8. \A j \in 0 .. SgoQsize - 1 : j < sgoN => sgoDg'[SgoSlot(j)] = SgoBase + 1 + j
    <2> SUFFICES ASSUME NEW j \in 0 .. SgoQsize - 1, j < sgoN
                 PROVE  sgoDg'[SgoSlot(j)] = SgoBase + 1 + j
      OBVIOUS
    <2>1. \A l \in 1 .. k : (sgoPut + l - 1) % SgoQsize # SgoSlot(j)
      <3> SUFFICES ASSUME NEW l \in 1 .. k PROVE SgoSlot(sgoN + l - 1) # SgoSlot(j)
        BY <1>4
      <3>1. sgoN + l - 1 \in 0 .. SgoQsize - 1 /\ sgoN + l - 1 # j
        BY <1>3
      <3> QED
        BY <1>5, <3>1
    <2>2. js(SgoSlot(j)) = {}
      BY <2>1
    <2>3. SgoSlot(j) \in DOMAIN sgoDg
      BY <1>6 DEF SgoInv, SgoTypes
    <2>4. sgoDg[SgoSlot(j)] = SgoBase + 1 + j
      BY <1>2 DEF SgoInLine
    <2> HIDE DEF js
    <2> QED
      BY <1>1, <2>2, <2>3, <2>4
  \* What is read goes behind it, in order.
  <1>9. \A l \in 1 .. k : sgoDg'[SgoSlot(sgoN + l - 1)] = SgoBase + sgoN + l
    <2> TAKE l \in 1 .. k
    <2> DEFINE i == SgoSlot(sgoN + l - 1)
    <2>1. sgoN + l - 1 \in 0 .. SgoQsize - 1
      BY <1>3
    <2>2. i \in DOMAIN sgoDg
      BY <1>6, <2>1 DEF SgoInv, SgoTypes
    <2>3. js(i) = {l}
      <3>1. l \in js(i)
        BY <1>4
      <3>2. ASSUME NEW m \in js(i) PROVE m = l
        <4>1. m \in 1 .. k /\ SgoSlot(sgoN + m - 1) = i
          BY <1>4
        <4>2. sgoN + m - 1 \in 0 .. SgoQsize - 1
          BY <1>3, <4>1
        <4>3. sgoN + m - 1 = sgoN + l - 1
          BY <1>5, <2>1, <4>1, <4>2
        <4> QED
          BY <1>3, <4>1, <4>3
      <3> QED
        BY <3>1, <3>2
    <2> HIDE DEF js
    <2>4. (CHOOSE j \in js(i) : \A n \in js(i) : n <= j) = l
      BY <1>3, <2>3
    <2>5. sgoDg'[i] = sgoSocket[l]
      BY <1>1, <2>2, <2>3, <2>4
    <2>6. l \in 1 .. Len(sgoSocket)
      BY <1>3
    <2> QED
      BY <1>2, <2>5, <2>6 DEF SgoInLine
  <1>10. sgoDg' \in [0 .. SgoQsize - 1 -> Nat]
    <2>1. \A i \in DOMAIN sgoDg :
             js(i) # {} => (CHOOSE j \in js(i) : \A l \in js(i) : l <= j) \in 1 .. Len(sgoSocket)
      <3> SUFFICES ASSUME NEW i \in DOMAIN sgoDg, NEW l \in js(i)
                   PROVE  (CHOOSE j \in js(i) : \A n \in js(i) : n <= j) \in 1 .. Len(sgoSocket)
        OBVIOUS
      <3>1. l \in 1 .. k /\ SgoSlot(sgoN + l - 1) = i
        BY <1>4
      <3>2. \A m \in js(i) : m = l
        <4> SUFFICES ASSUME NEW m \in js(i) PROVE m = l
          OBVIOUS
        <4>1. m \in 1 .. k /\ SgoSlot(sgoN + m - 1) = i
          BY <1>4
        <4>2. sgoN + m - 1 \in 0 .. SgoQsize - 1 /\ sgoN + l - 1 \in 0 .. SgoQsize - 1
          BY <1>3, <3>1, <4>1
        <4>3. sgoN + m - 1 = sgoN + l - 1
          BY <1>5, <3>1, <4>1, <4>2
        <4> QED
          BY <1>3, <3>1, <4>1, <4>3
      <3> HIDE DEF js
      <3>3. (CHOOSE j \in js(i) : \A n \in js(i) : n <= j) = l
        <4>1. l \in js(i) /\ \A n \in js(i) : n <= l
          BY <1>3, <3>1, <3>2
        <4> QED
          BY <3>2, <4>1
      <3>4. l \in 1 .. Len(sgoSocket)
        BY <1>3, <1>t, <3>1
      <3> QED
        BY <3>3, <3>4
    <2> HIDE DEF js
    <2>2. \A j \in 1 .. Len(sgoSocket) : sgoSocket[j] \in Nat
      BY DEF SgoInv, SgoTypes
    <2>3. DOMAIN sgoDg = 0 .. SgoQsize - 1 /\ \A i \in DOMAIN sgoDg : sgoDg[i] \in Nat
      BY DEF SgoInv, SgoTypes
    <2>4. \A i \in 0 .. SgoQsize - 1 : sgoDg'[i] \in Nat
      BY <1>1, <2>1, <2>2, <2>3
    <2> QED
      BY <1>1, <2>3, <2>4
  <1>11. sgoPut' = SgoSlot(sgoN + k)
    <2> DEFINE x == sgoPut + k
    <2>0. sgoPut' = x % SgoQsize
      BY <1>1
    <2>1. x \in Nat /\ x < 2 * SgoQsize
      BY <1>3, <1>t
    <2> HIDE DEF x
    <2>2. x % SgoQsize = IF x >= SgoQsize THEN x - SgoQsize ELSE x
      BY <2>1, SgoModulo
    <2>3. (IF x >= SgoQsize THEN x - SgoQsize ELSE x) = SgoSlot(sgoN + k)
      BY <1>3, <1>t DEF SgoSlot, x
    <2> QED
      BY <2>0, <2>2, <2>3
  <1>12. /\ sgoSocket' \in Seq(Nat) /\ Len(sgoSocket') = Len(sgoSocket) - k
         /\ \A i \in 1 .. Len(sgoSocket') : sgoSocket'[i] = SgoBase + (sgoN + k) + i
    <2>1. sgoSocket \in Seq(Nat) /\ Len(sgoSocket) \in Nat
      BY DEF SgoInv, SgoTypes
    <2>2. sgoSocket' \in Seq(Nat) /\ Len(sgoSocket') = Len(sgoSocket) - k
      BY <1>1, <1>3, <2>1
    <2>3. \A i \in 1 .. Len(sgoSocket') : sgoSocket'[i] = sgoSocket[i + k]
      BY <1>1, <1>3, <2>1, <2>2
    <2>4. \A i \in 1 .. Len(sgoSocket') : i + k \in 1 .. Len(sgoSocket)
      BY <1>3, <2>1, <2>2
    <2>5. \A i \in 1 .. Len(sgoSocket) : sgoSocket[i] = SgoBase + sgoN + i
      BY <1>2 DEF SgoInLine
    <2>6. \A i \in 1 .. Len(sgoSocket') : sgoSocket'[i] = SgoBase + sgoN + (i + k)
      BY <2>3, <2>4, <2>5
    <2> QED
      BY <1>3, <1>7, <2>1, <2>2, <2>6
  <1>13. \A j \in 0 .. SgoQsize - 1 : j < sgoN + k => sgoDg'[SgoSlot(j)] = SgoBase + 1 + j
    <2> SUFFICES ASSUME NEW j \in 0 .. SgoQsize - 1, j < sgoN + k
                 PROVE  sgoDg'[SgoSlot(j)] = SgoBase + 1 + j
      OBVIOUS
    <2>1. CASE j < sgoN
      BY <1>8, <2>1
    <2>2. CASE j >= sgoN
      <3> DEFINE l == j - sgoN + 1
      <3>1. l \in 1 .. k /\ sgoN + l - 1 = j /\ SgoBase + sgoN + l = SgoBase + 1 + j
        BY <1>3, <1>7, <2>2
      <3> QED
        BY <1>9, <3>1
    <2> QED
      BY <1>3, <2>1, <2>2
  <1>14. \A j : SgoSlot(j)' = SgoSlot(j)
    BY <1>2 DEF SgoSlot
  <1>15. SgoTypes'
    <2>1. sgoPut' \in 0 .. SgoQsize - 1
      BY <1>3, <1>t, <1>11 DEF SgoSlot
    <2>2. sgoN' \in 0 .. SgoQsize
      BY <1>1, <1>3
    <2>3. sgoPc' \in {"wait", "send", "next", "quit"}
      BY <1>1, <1>2
    <2> QED
      BY <1>2, <1>7, <1>10, <1>12, <2>1, <2>2, <2>3 DEF SgoInv, SgoTypes
  <1>16. SgoInOrder'
    BY <1>2 DEF SgoInv, SgoInOrder
  <1>17. sgoPc' # "quit" => SgoInLine'
    <2> SUFFICES ASSUME sgoPc' # "quit" PROVE SgoInLine'
      OBVIOUS
    <2>1. sgoN' < SgoQsize
      BY <1>1, <1>3 DEF SgoFull
    <2>2. sgoPc' \in {"send", "next"} => sgoN' >= 1
      BY <1>1, <1>2, <1>3 DEF SgoInLine
    <2>3. sgoPut' = SgoSlot(sgoN)'
      BY <1>1, <1>2, <1>11 DEF SgoSlot
    <2>4. \A j \in 0 .. SgoQsize - 1 : j < sgoN' => sgoDg'[SgoSlot(j)'] = SgoBase' + 1 + j
      BY <1>1, <1>7, <1>13, <1>14
    <2>5. \A i \in 1 .. Len(sgoSocket') : sgoSocket'[i] = SgoBase' + sgoN' + i
      BY <1>1, <1>7, <1>12
    <2>6. sgoArrived' = SgoBase' + sgoN' + Len(sgoSocket')
      <3>1. sgoArrived = SgoBase + sgoN + Len(sgoSocket)
        BY <1>2 DEF SgoInLine
      <3>2. sgoN' = sgoN + k /\ sgoArrived' = sgoArrived
        BY <1>1, <1>2
      <3>3. SgoBase' = SgoBase /\ SgoBase \in Nat /\ Len(sgoSocket') = Len(sgoSocket) - k
        BY <1>7, <1>12
      <3> QED
        BY <1>3, <1>t, <3>1, <3>2, <3>3
    <2> QED
      BY <2>1, <2>2, <2>3, <2>4, <2>5, <2>6 DEF SgoInLine
  <1> QED
    BY <1>15, <1>16, <1>17 DEF SgoInv

LEMMA SgoMainStep ==
    ASSUME SgoInv, SgoUnblock \/ SgoSendto \/ SgoBlock
    PROVE  SgoInv'
  <1> USE SgoQsizeAssumption
  <1>0. SgoInLine /\ SgoTypes /\ SgoInOrder
    BY DEF SgoInv, SgoUnblock, SgoSendto, SgoBlock
  <1>1. CASE SgoUnblock
    <2>1. SgoBase' = SgoBase
      BY <1>1 DEF SgoUnblock, SgoBase
    <2>2. \A j : SgoSlot(j)' = SgoSlot(j)
      BY <1>1 DEF SgoUnblock, SgoSlot
    <2>3. sgoPut' = SgoSlot(sgoN)'
      BY <1>0, <1>1 DEF SgoUnblock, SgoSlot, SgoInLine
    <2>4. SgoInLine'
      BY <1>0, <1>1, <2>1, <2>2, <2>3 DEF SgoUnblock, SgoInLine, SgoTypes
    <2> QED
      BY <1>0, <1>1, <2>1, <2>4 DEF SgoUnblock, SgoInv, SgoTypes, SgoInOrder
  <1>2. CASE SgoSendto
    <2>1. /\ SgoBase = Len(sgoEchoed) /\ SgoBase' = SgoBase
          /\ sgoEchoed' = Append(sgoEchoed, sgoDg[sgoGet])
          /\ sgoEchoed \in Seq(Nat) /\ sgoN >= 1 /\ sgoN \in Nat
      BY <1>0, <1>2 DEF SgoSendto, SgoBase, SgoTypes, SgoInLine
    <2>2. \A j : SgoSlot(j)' = SgoSlot(j)
      BY <1>2 DEF SgoSendto, SgoSlot
    <2>3. sgoPut' = SgoSlot(sgoN)'
      BY <1>0, <1>2 DEF SgoSendto, SgoSlot, SgoInLine
    <2>4. SgoInLine'
      BY <1>0, <1>2, <2>1, <2>2, <2>3 DEF SgoSendto, SgoInLine, SgoTypes
    <2>5. SgoSlot(0) = sgoGet /\ 0 \in 0 .. SgoQsize - 1 /\ 0 < sgoN
      BY <1>0, <2>1 DEF SgoSlot, SgoTypes
    <2>6. sgoDg[sgoGet] = SgoBase + 1 + 0
      BY <1>0, <2>5 DEF SgoInLine
    <2>7. sgoDg[sgoGet] = Len(sgoEchoed) + 1
      BY <2>1, <2>6
    <2>8. SgoInOrder' /\ sgoEchoed' \in Seq(Nat)
      BY <1>0, <2>1, <2>7 DEF SgoInOrder
    <2> QED
      BY <1>0, <1>2, <2>1, <2>4, <2>8 DEF SgoSendto, SgoInv, SgoTypes
  <1>3. CASE SgoBlock
    <2>1. /\ sgoGet \in 0 .. SgoQsize - 1 /\ sgoN \in 0 .. SgoQsize /\ sgoN >= 1
          /\ sgoN < SgoQsize /\ sgoPut = SgoSlot(sgoN) /\ Len(sgoEchoed) \in Nat
      BY <1>0, <1>3 DEF SgoTypes, SgoInLine, SgoBlock
    <2>2. /\ sgoGet' = SgoAfter(sgoGet) /\ sgoN' = sgoN - 1
          /\ sgoPc = "next" /\ sgoPc' = "wait"
          /\ UNCHANGED <<sgoArrived, sgoSocket, sgoPending, sgoDg, sgoPut, sgoEchoed>>
      BY <1>3 DEF SgoBlock
    <2>3. SgoBase' = SgoBase + 1 /\ SgoBase \in Nat
      BY <1>0, <2>1, <2>2 DEF SgoBase, SgoTypes
    <2>4. \A j \in 0 .. SgoQsize - 1 : SgoSlot(j)' = SgoSlot(j + 1)
      BY <2>1, <2>2 DEF SgoSlot, SgoAfter
    <2>5. sgoPut' = SgoSlot(sgoN)'
      BY <2>1, <2>2 DEF SgoSlot, SgoAfter
    <2>6. \A j \in 0 .. SgoQsize - 1 : j < sgoN' => sgoDg'[SgoSlot(j)'] = SgoBase' + 1 + j
      <3> SUFFICES ASSUME NEW j \in 0 .. SgoQsize - 1, j < sgoN'
                   PROVE  sgoDg[SgoSlot(j + 1)] = SgoBase + 1 + 1 + j
        BY <2>2, <2>3, <2>4
      <3>1. j + 1 \in 0 .. SgoQsize - 1 /\ j + 1 < sgoN
        BY <2>1, <2>2
      <3>2. sgoDg[SgoSlot(j + 1)] = SgoBase + 1 + (j + 1)
        BY <1>0, <3>1 DEF SgoInLine
      <3> QED
        BY <2>3, <3>2
    <2>7. \A i \in 1 .. Len(sgoSocket') : sgoSocket'[i] = SgoBase' + sgoN' + i
      <3> SUFFICES ASSUME NEW i \in 1 .. Len(sgoSocket)
                   PROVE  sgoSocket[i] = (SgoBase + 1) + (sgoN - 1) + i
        BY <2>2, <2>3
      <3>1. sgoSocket[i] = SgoBase + sgoN + i
        BY <1>0 DEF SgoInLine
      <3> QED
        BY <2>1, <2>3, <3>1
    <2>8. sgoArrived' = SgoBase' + sgoN' + Len(sgoSocket')
      <3>1. sgoArrived = SgoBase + sgoN + Len(sgoSocket) /\ Len(sgoSocket) \in Nat
        BY <1>0 DEF SgoInLine, SgoTypes
      <3> QED
        BY <2>1, <2>2, <2>3, <3>1
    <2>9. sgoGet' \in 0 .. SgoQsize - 1 /\ sgoN' \in 0 .. SgoQsize /\ sgoN' < SgoQsize
      BY <2>1, <2>2 DEF SgoAfter
    <2>10. SgoInLine'
      BY <2>2, <2>5, <2>6, <2>7, <2>8, <2>9 DEF SgoInLine
    <2>11. SgoTypes'
      BY <1>0, <2>2, <2>3, <2>9 DEF SgoTypes
    <2> QED
      BY <1>0, <2>2, <2>10, <2>11 DEF SgoInv, SgoInOrder
  <1> QED
    BY <1>1, <1>2, <1>3

\* The ring may have any size: every datagram is echoed once and in order of
\* arrival, however the handler interrupts the main loop.
THEOREM SgoInOrderCorrect == SgoSpec => []SgoInOrder
  <1>1. SgoInv /\ [SgoNext]_sgoVars => SgoInv'
    <2> SUFFICES ASSUME SgoInv, [SgoNext]_sgoVars PROVE SgoInv'
      OBVIOUS
    <2> USE SgoQsizeAssumption
    <2>1. CASE SgoArrive
      <3>1. /\ sgoArrived' = sgoArrived + 1
            /\ sgoSocket' = Append(sgoSocket, sgoArrived + 1)
            /\ sgoPending' = TRUE
            /\ UNCHANGED <<sgoDg, sgoGet, sgoPut, sgoN, sgoPc, sgoEchoed>>
        BY <2>1 DEF SgoArrive
      <3>2. SgoBase' = SgoBase /\ \A j : SgoSlot(j)' = SgoSlot(j)
        BY <3>1 DEF SgoBase, SgoSlot
      <3>3. SgoTypes /\ SgoInOrder
        BY DEF SgoInv
      <3>4. /\ sgoArrived' \in Nat /\ sgoSocket' \in Seq(Nat)
            /\ Len(sgoSocket') = Len(sgoSocket) + 1
            /\ \A i \in 1 .. Len(sgoSocket') :
                  sgoSocket'[i] = IF i = Len(sgoSocket) + 1 THEN sgoArrived + 1 ELSE sgoSocket[i]
        <4>1. sgoArrived + 1 \in Nat /\ sgoSocket \in Seq(Nat)
          BY <3>3 DEF SgoTypes
        <4> DEFINE n == sgoArrived + 1
        <4> HIDE DEF n
        <4>2. sgoArrived' = n /\ sgoSocket' = Append(sgoSocket, n) /\ n \in Nat
          BY <3>1, <4>1 DEF n
        <4>3. /\ sgoSocket' \in Seq(Nat) /\ Len(sgoSocket') = Len(sgoSocket) + 1
              /\ \A i \in 1 .. Len(sgoSocket') :
                    sgoSocket'[i] = IF i = Len(sgoSocket) + 1 THEN n ELSE sgoSocket[i]
          BY <4>1, <4>2
        <4> QED
          BY <4>2, <4>3 DEF n
      <3>5. SgoTypes'
        BY <3>1, <3>2, <3>3, <3>4 DEF SgoTypes
      <3>6. ASSUME SgoInLine PROVE SgoInLine'
        <4>1. /\ SgoBase \in Nat /\ sgoN \in Nat /\ Len(sgoSocket) \in Nat
              /\ sgoArrived = SgoBase + sgoN + Len(sgoSocket)
              /\ \A i \in 1 .. Len(sgoSocket) : sgoSocket[i] = SgoBase + sgoN + i
          BY <3>3, <3>6 DEF SgoTypes, SgoInLine
        <4>2. sgoArrived' = SgoBase' + sgoN' + Len(sgoSocket')
          BY <3>1, <3>2, <3>4, <4>1
        <4>3. \A i \in 1 .. Len(sgoSocket') : sgoSocket'[i] = SgoBase' + sgoN' + i
          BY <3>1, <3>2, <3>4, <4>1
        <4>4. sgoPut' = SgoSlot(sgoN)'
          BY <3>1, <3>6 DEF SgoSlot, SgoInLine
        <4> QED
          BY <3>1, <3>2, <3>6, <4>2, <4>3, <4>4 DEF SgoInLine
      <3> QED
        BY <3>1, <3>3, <3>5, <3>6 DEF SgoInv, SgoInOrder
    <2>2. CASE UNCHANGED sgoVars
      <3>1. SgoBase' = SgoBase /\ (\A j : SgoSlot(j)' = SgoSlot(j)) /\ SgoSlot(sgoN)' = SgoSlot(sgoN)
        BY <2>2 DEF sgoVars, SgoBase, SgoSlot
      <3> QED
        BY <2>2, <3>1 DEF sgoVars, SgoInv, SgoTypes, SgoInLine, SgoInOrder
    <2> QED
      BY <2>1, <2>2, SgoSigIoStep, SgoMainStep DEF SgoNext
  <1>2. SgoInv => SgoInOrder
    BY DEF SgoInv
  <1> QED
    BY SgoInvInit, <1>1, <1>2, PTL DEF SgoSpec

-----------------------------------------------------------------------------
(* The request with retransmission.                                        *)

\* The limits of the timeout of a copy that follows n unanswered ones.
DgrWithin(rto, n) == RTT_RXTMIN * 2^n <= rto /\ rto <= RTT_RXTMAX * 2^n

DgrTypes ==
    /\ dgrPc \in {"idle", "send", "wait", "stop", "ok", "fail"}
    /\ dgrInit \in BOOLEAN
    /\ dgrSeq \in Nat /\ dgrNrexmt \in Nat
    /\ dgrSrtt \in Int /\ dgrVar \in Int /\ dgrRto \in Int

\* A reply that was kept is the one to this request.  rttinfo is in use while
\* rttinit says so, within rtt_minmax's limits between two calls and within
\* their doublings during one.
DgrInv ==
    /\ DgrTypes
    /\ dgrPc \in {"stop", "ok"} => dgrGot = dgrSeq
    /\ dgrPc \in {"idle", "fail"} => ~dgrInit
    /\ dgrPc = "ok" => DgrWithin(dgrRto, 0)
    /\ dgrPc \in {"send", "wait", "stop"} =>
          dgrNrexmt \in 0 .. RTT_MAXNREXMT /\ DgrWithin(dgrRto, dgrNrexmt)

\* rtt_minmax keeps its limits, and twice a timeout is within twice as wide
\* limits.
LEMMA DgrLimits ==
    /\ \A rto \in Int : rtt_minmax(rto) \in Int /\ DgrWithin(rtt_minmax(rto), 0)
    /\ \A rto \in Int, n \in 0 .. RTT_MAXNREXMT :
          DgrWithin(rto, n) => n + 1 > RTT_MAXNREXMT \/ DgrWithin(rto * 2, n + 1)
  <1>1. 2^0 = 1 /\ 2^1 = 2 /\ 2^2 = 4 /\ 2^3 = 8
    OBVIOUS
  <1>2. \A rto \in Int : rtt_minmax(rto) \in Int /\ DgrWithin(rtt_minmax(rto), 0)
    BY <1>1 DEF rtt_minmax, DgrWithin, RTT_RXTMIN, RTT_RXTMAX
  <1>3. ASSUME NEW rto \in Int, NEW n \in 0 .. RTT_MAXNREXMT, DgrWithin(rto, n)
        PROVE  n + 1 > RTT_MAXNREXMT \/ DgrWithin(rto * 2, n + 1)
    <2>1. CASE n = 0
      BY <1>1, <1>3, <2>1 DEF DgrWithin, RTT_RXTMIN, RTT_RXTMAX
    <2>2. CASE n = 1
      BY <1>1, <1>3, <2>2 DEF DgrWithin, RTT_RXTMIN, RTT_RXTMAX
    <2>3. CASE n = 2
      BY <1>1, <1>3, <2>3 DEF DgrWithin, RTT_RXTMIN, RTT_RXTMAX
    <2>4. CASE n = 3
      BY <2>4 DEF RTT_MAXNREXMT
    <2> QED
      BY <2>1, <2>2, <2>3, <2>4 DEF RTT_MAXNREXMT
  <1> QED
    BY <1>2, <1>3

\* Rounding to seconds stays within limits that are whole seconds.
LEMMA DgrRounded ==
    ASSUME NEW rto \in Int, NEW n \in 0 .. RTT_MAXNREXMT, DgrWithin(rto, n)
    PROVE  DgrWithin(1000 * rtt_start(rto), n)
  <1>1. 2^0 = 1 /\ 2^1 = 2 /\ 2^2 = 4 /\ 2^3 = 8
    OBVIOUS
  <1> USE DEF DgrWithin, RTT_RXTMIN, RTT_RXTMAX, rtt_start
  <1>2. CASE n = 0
    BY <1>1, <1>2
  <1>3. CASE n = 1
    BY <1>1, <1>3
  <1>4. CASE n = 2
    BY <1>1, <1>4
  <1>5. CASE n = 3
    BY <1>1, <1>5
  <1> QED
    BY <1>2, <1>3, <1>4, <1>5 DEF RTT_MAXNREXMT

LEMMA DgrInvInit == DgrInit => DgrInv
  <1> SUFFICES ASSUME DgrInit PROVE DgrInv
    OBVIOUS
  <1>1. DgrTypes
    <2>1. dgrInit \in BOOLEAN
      BY DEF DgrInit
    <2>2. /\ dgrPc = "idle" /\ dgrSeq = 0 /\ dgrNrexmt = 0
          /\ dgrSrtt = 0 /\ dgrVar = 0 /\ dgrRto = 0
      BY DEF DgrInit
    <2> QED
      BY <2>1, <2>2 DEF DgrTypes
  <1> QED
    BY <1>1 DEF DgrInit, DgrInv

LEMMA DgrInvStep == DgrInv /\ [DgrNext]_dgrVars => DgrInv'
  <1> SUFFICES ASSUME DgrInv, [DgrNext]_dgrVars PROVE DgrInv'
    OBVIOUS
  <1> USE DEF DgrInv, DgrTypes
  <1>1. CASE DgrCall
    <2>1. dgrRto' \in Int /\ DgrWithin(dgrRto', 0)
      <3>1. CASE dgrInit
        BY <1>1, <3>1 DEF DgrCall
      <3>2. CASE ~dgrInit
        <4>1. dgrRto' = rtt_minmax(4 * 750) /\ 4 * 750 \in Int
          BY <1>1, <3>2 DEF DgrCall
        <4> QED
          BY <4>1, DgrLimits
      <3> QED
        BY <3>1, <3>2
    <2>2. 0 \in 0 .. RTT_MAXNREXMT
      BY DEF RTT_MAXNREXMT
    <2> QED
      BY <1>1, <2>1, <2>2 DEF DgrCall
  <1>2. CASE DgrSend
    BY <1>2 DEF DgrSend
  <1>3. CASE DgrRecv
    BY <1>3 DEF DgrRecv, DgrForMe
  <1>4. CASE DgrTimeout
    <2>1. /\ dgrPc \in {"wait", "stop"}
          /\ dgrRto' = dgrRto * 2 /\ dgrNrexmt' = dgrNrexmt + 1
          /\ dgrPc' = IF DgrGiveUp(dgrNrexmt + 1) THEN "fail" ELSE "send"
          /\ dgrInit' = (dgrInit /\ ~DgrGiveUp(dgrNrexmt + 1))
          /\ UNCHANGED <<dgrSeq, dgrSrtt, dgrVar, dgrGot>>
      BY <1>4 DEF DgrTimeout, DgrAfterTimeout
    <2>2. dgrNrexmt \in 0 .. RTT_MAXNREXMT /\ DgrWithin(dgrRto, dgrNrexmt)
      BY <2>1
    <2>3. DgrGiveUp(dgrNrexmt + 1) \/ DgrWithin(dgrRto', dgrNrexmt')
      BY <2>1, <2>2, DgrLimits DEF DgrGiveUp
    <2>4. DgrGiveUp(dgrNrexmt + 1) \/ dgrNrexmt' \in 0 .. RTT_MAXNREXMT
      BY <2>1 DEF DgrGiveUp, RTT_MAXNREXMT
    <2>5. dgrRto' \in Int /\ dgrNrexmt' \in Nat /\ dgrInit' \in BOOLEAN
      BY <2>1
    <2> QED
      BY <2>1, <2>3, <2>4, <2>5
  <1>5. CASE DgrStop
    <2>1. PICK ms \in DgrMeasured :
            LET delta == ms - dgrSrtt
                srtt == dgrSrtt + delta \div 8
                var == dgrVar + (DgrAbs(delta) - dgrVar) \div 4
            IN  dgrSrtt' = srtt /\ dgrVar' = var /\ dgrRto' = rtt_minmax(srtt + 4 * var)
      BY <1>5 DEF DgrStop
    <2>2. ms \in Int
      BY DgrAssumption
    <2>3. /\ dgrSrtt' \in Int /\ dgrVar' \in Int
          /\ dgrRto' = rtt_minmax(dgrSrtt' + 4 * dgrVar')
      BY <2>1, <2>2 DEF DgrAbs
    <2>4. dgrRto' \in Int /\ DgrWithin(dgrRto', 0)
      BY <2>3, DgrLimits
    <2>5. /\ dgrPc = "stop" /\ dgrPc' = "ok"
          /\ UNCHANGED <<dgrInit, dgrSeq, dgrNrexmt, dgrNet, dgrGot>>
      BY <1>5 DEF DgrStop
    <2> QED
      BY <2>3, <2>4, <2>5
  <1>6. CASE UNCHANGED dgrVars
    BY <1>6 DEF dgrVars
  <1> QED
    BY <1>1, <1>2, <1>3, <1>4, <1>5, <1>6 DEF DgrNext

\* For any losses, copies and delays: a call that succeeds returns the reply to
\* its own request.
THEOREM DgrReplyCorrect == DgrSpec => []DgrReplyMatches
  <1>1. DgrInv => DgrReplyMatches
    BY DEF DgrInv, DgrReplyMatches
  <1> QED
    BY DgrInvInit, DgrInvStep, <1>1, PTL DEF DgrSpec

\* For any measured round-trip times: the timer of every copy is set within the
\* limits of rtt_minmax, doubled for each copy that went unanswered.
THEOREM DgrTimerCorrect == DgrSpec => DgrTimerArmed
  <1>1. DgrInv /\ [DgrNext]_dgrVars =>
          [dgrPc = "send" /\ dgrPc' = "wait" =>
              /\ dgrAlarm' >= RTT_RXTMIN * 2^dgrNrexmt
              /\ dgrAlarm' <= RTT_RXTMAX * 2^dgrNrexmt]_dgrVars
    <2> SUFFICES ASSUME DgrInv, DgrNext, dgrPc = "send", dgrPc' = "wait"
                 PROVE  DgrWithin(dgrAlarm', dgrNrexmt) /\ dgrAlarm' \in Int
      <3>1. ASSUME NEW a \in Int, NEW n \in 0 .. RTT_MAXNREXMT, DgrWithin(a, n)
            PROVE  a >= RTT_RXTMIN * 2^n /\ a <= RTT_RXTMAX * 2^n
        <4>1. n = 0 \/ n = 1 \/ n = 2 \/ n = 3
          BY DEF RTT_MAXNREXMT
        <4>2. 2^0 = 1 /\ 2^1 = 2 /\ 2^2 = 4 /\ 2^3 = 8
          OBVIOUS
        <4> QED
          BY <3>1, <4>1, <4>2 DEF DgrWithin, RTT_RXTMIN, RTT_RXTMAX
      <3> QED
        BY <3>1 DEF DgrInv
    <2>1. DgrSend
      BY DEF DgrNext, DgrCall, DgrRecv, DgrTimeout, DgrStop
    <2>2. dgrAlarm' = 1000 * rtt_start(dgrRto)
      BY <2>1 DEF DgrSend
    <2>3. /\ dgrRto \in Int /\ dgrNrexmt \in 0 .. RTT_MAXNREXMT
          /\ DgrWithin(dgrRto, dgrNrexmt)
      BY DEF DgrInv, DgrTypes
    <2> QED
      BY <2>2, <2>3, DgrRounded DEF rtt_start
  <1> QED
    BY DgrInvInit, DgrInvStep, <1>1, PTL DEF DgrSpec, DgrTimerArmed

-----------------------------------------------------------------------------
(* The clients with a time limit.                                          *)

TwKnown == TwPrograms \cup {TwOff}

\* The programs that can lose an alarm.
TwLosers == {"bcast1", "bcast2", "bcast3", "mcast1", "timeo3"}

\* What the kinds of programs have in common.
LEMMA TwKinds ==
    ASSUME NEW p \in TwKnown
    PROVE  /\ p.limit = "alarm" => p.handler \in {"return", "jump", "pipe"}
           /\ p.handler \in {"jump", "pipe"} => p.many = TRUE /\ p.mask = "never" /\ p.limit = "alarm"
           /\ p.handler \in {"return", "jump", "pipe", "none"}
           /\ p.handler = "return" /\ p.mask # "pselect" => p.name \in TwLosers
           /\ p.mask = "outside" => p.name \in TwLosers /\ p.handler = "return"
           /\ p.mask = "pselect" => p.handler = "return"
  BY DEF TwKnown, TwPrograms, TwOff, TwProgram, TwLosers, dgclibcast1, dgclibcast2, dgclibcast3,
         dgclibcast4, dgclibcast5, dgclibcast6, dgclimcast1, dgclimcast5, dgclimcast6,
         dgclitimeo, dgclitimeo1, dgclitimeo2, dgclitimeo3

TwTypes ==
    /\ twProg \in TwKnown
    /\ twPc \in {"fgets", "arm", "call", "wait", "read", "both", "pipe", "crash"}
    /\ twLine \in Nat /\ twReplies \in Nat
    /\ twAlarm \in {"off", "armed", "pending"}
    /\ twPipe \in {0, 1}

\* The alarm and the byte in the pipe are one token, and both are gone between
\* two lines.  dgclibcast4 has SIGALRM blocked while its alarm is set; a jump
\* needs the first blocking call behind it.
TwInv ==
    /\ TwTypes
    /\ twPc \in {"fgets", "arm", "crash"} => twAlarm = "off" /\ twPipe = 0
    /\ twPipe = 1 => twProg.handler = "pipe" /\ twAlarm = "off"
    /\ twPc \in {"both", "pipe"} => twPipe = 1
    /\ twAlarm # "off" => twProg.limit = "alarm"
    /\ twProg.mask = "pselect" /\ twAlarm # "off" => twMask
    /\ twProg = TwOff => twPc = "fgets" /\ twLine = 0
    /\ twProg.handler = "jump" =>
          /\ twPc = "fgets" /\ twLine >= 1 => twJmp
          /\ twPc \in {"wait", "read"} => twJmp
          /\ twLine >= 2 => twJmp
          /\ twPc # "fgets" => twLine >= 1
    /\ twPc = "crash" => ~twJmp
    /\ TwNoneLost

LEMMA TwInvInit == TwInit => TwInv
  <1> SUFFICES ASSUME TwInit PROVE TwInv
    OBVIOUS
  <1>1. /\ twProg = TwOff /\ twPc = "fgets" /\ twLine = 0 /\ twAlarm = "off"
        /\ twPipe = 0 /\ twReplies = 0 /\ ~twLost
    BY DEF TwInit
  <1>2. TwOff \in TwKnown /\ TwOff.handler = "none"
    BY DEF TwKnown, TwOff, TwProgram
  <1> QED
    BY <1>1, <1>2 DEF TwInv, TwTypes, TwNoneLost

\* The handler, wherever the alarm finds the program.
LEMMA TwAlarmStep ==
    ASSUME TwInv, TwAlarmFires
    PROVE  TwInv'
  <1> USE DEF TwInv, TwTypes, TwNoneLost
  <1>1. /\ twAlarm # "off" /\ twAlarm \in {"armed", "pending"} /\ twProg.limit = "alarm"
        /\ twPc \in {"call", "wait", "read"} /\ twPipe = 0
        /\ UNCHANGED <<twProg, twLine, twJmp, twReplies, twSent>>
    BY DEF TwAlarmFires
  <1>2. /\ twProg.handler \in {"return", "jump", "pipe"}
        /\ twProg.handler \in {"jump", "pipe"} => twProg.many = TRUE /\ twProg.mask = "never"
        /\ twProg.handler = "return" /\ twProg.mask # "pselect" => twProg.name \in TwLosers
    BY <1>1, TwKinds
  <1>3. CASE ~TwOpen
    BY <1>1, <1>3 DEF TwAlarmFires, TwOpen
  <1>4. CASE TwOpen
    <2>0. twAlarm' = "off" /\ recvfrom_alarm
      BY <1>4 DEF TwAlarmFires
    <2>1. CASE twProg.handler = "pipe"
      <3>1. /\ twPipe' = 1 /\ twPc' = (IF twPc = "wait" THEN "call" ELSE twPc)
            /\ UNCHANGED <<twLost, twMask>>
        BY <1>1, <2>0, <2>1 DEF recvfrom_alarm
      <3> QED
        BY <1>1, <2>0, <2>1, <3>1
    <2>2. CASE twProg.handler = "jump"
      <3>1. /\ twPc' = (IF twJmp THEN "fgets" ELSE "crash")
            /\ UNCHANGED <<twPipe, twLost, twMask>>
        BY <2>0, <2>2 DEF recvfrom_alarm
      <3>2. ~twJmp => twLine = 1
        BY <1>1, <2>2
      <3> QED
        BY <1>1, <2>0, <2>2, <3>1, <3>2
    <2>3. CASE twProg.handler = "return"
      <3>1. /\ IF twPc = "wait" THEN twPc' = "fgets" /\ UNCHANGED twLost
               ELSE twLost' = TRUE /\ UNCHANGED twPc
            /\ UNCHANGED twPipe
        BY <2>0, <2>3 DEF recvfrom_alarm
      <3>2. twPc # "wait" => twProg.name \in TwLosers
        BY <1>1, <1>2, <1>4, <2>3 DEF TwOpen
      <3> QED
        BY <1>1, <2>0, <2>3, <3>1, <3>2 DEF TwLosers
    <2> QED
      BY <1>2, <2>1, <2>2, <2>3
  <1> QED
    BY <1>3, <1>4

LEMMA TwProgramStep ==
    ASSUME TwInv, TwStart \/ TwSendLine \/ TwArm \/ TwUnblock \/ TwEnter \/ TwReply
                  \/ TwPrint \/ TwReadPipe \/ readable_timeo \/ TwArrives
    PROVE  TwInv'
  <1> USE DEF TwInv, TwTypes, TwNoneLost
  <1>0. /\ twProg.limit = "alarm" => twProg.handler \in {"return", "jump", "pipe"}
        /\ twProg.handler \in {"jump", "pipe"} =>
              twProg.many = TRUE /\ twProg.mask = "never" /\ twProg.limit = "alarm"
        /\ twProg.mask = "outside" => twProg.name \in TwLosers /\ twProg.handler = "return"
        /\ twProg.mask = "pselect" => twProg.handler = "return"
    BY TwKinds
  <1>1. CASE TwStart
    <2>1. twProg' \in TwKnown /\ twProg' # TwOff
      <3>1. TwOff.name = "off"
        BY DEF TwOff, TwProgram
      <3>2. \A p \in TwPrograms : p.name # "off"
        BY DEF TwPrograms, TwProgram, dgclibcast1, dgclibcast2, dgclibcast3, dgclibcast4,
               dgclibcast5, dgclibcast6, dgclimcast1, dgclimcast5, dgclimcast6,
               dgclitimeo, dgclitimeo1, dgclitimeo2, dgclitimeo3
      <3> QED
        BY <1>1, <3>1, <3>2 DEF TwStart, TwKnown
    <2>2. /\ twPc = "fgets" /\ twLine = 0 /\ twAlarm = "off" /\ twPipe = 0
          /\ twLost => TwOff.name \in TwLosers
          /\ UNCHANGED <<twPc, twLine, twAlarm, twMask, twPipe, twJmp, twReplies, twSent, twLost>>
      BY <1>1 DEF TwStart, TwLosers
    <2>3. ~twLost
      BY <2>2 DEF TwOff, TwProgram, TwLosers
    <2> QED
      BY <2>1, <2>2, <2>3
  <1>2. CASE TwSendLine
    <2>1. /\ twPc = "fgets" /\ twPc' = "arm" /\ twLine' = twLine + 1 /\ ~twLost'
          /\ UNCHANGED <<twProg, twAlarm, twMask, twPipe, twJmp, twReplies, twSent>>
          /\ twProg # TwOff
      BY <1>2 DEF TwSendLine
    <2> QED
      BY <2>1
  <1>3. CASE TwArm
    <2>1. /\ twPc = "arm" /\ twPc' = "call" /\ twAlarm' = TwArmed
          /\ twProg.mask = "pselect" => twMask'
          /\ UNCHANGED <<twProg, twLine, twPipe, twJmp, twReplies, twSent, twLost>>
      BY <1>3 DEF TwArm
    <2>2. twAlarm' = IF twProg.limit = "alarm" THEN "armed" ELSE "off"
      BY <2>1 DEF TwArmed
    <2> QED
      BY <2>1, <2>2
  <1>4. CASE TwUnblock
    BY <1>0, <1>4 DEF TwUnblock, TwLosers
  <1>5. CASE TwEnter
    BY <1>0, <1>5 DEF TwEnter
  <1>6. CASE TwReply
    <2>1. /\ twPc = "wait" /\ twReplies > 0 /\ twReplies' = twReplies - 1
          /\ twPc' = (IF twPipe > 0 THEN "both" ELSE "read")
          /\ UNCHANGED <<twProg, twLine, twAlarm, twPipe, twJmp, twSent, twLost>>
      BY <1>6 DEF TwReply
    <2>2. twMask => twMask'
      BY <1>6 DEF TwReply, TwMasked
    <2>3. twReplies' \in Nat
      BY <2>1
    <2>4. twPc' \in {"both", "read"} /\ (twPc' = "both" => twPipe = 1)
      BY <2>1
    <2> QED
      BY <2>1, <2>2, <2>3, <2>4
  <1>7. CASE TwPrint
    <2>1. CASE twProg.many
      BY <1>0, <1>7, <2>1 DEF TwPrint
    <2>2. CASE ~twProg.many
      <3>1. twProg.handler \notin {"jump", "pipe"}
        BY <1>0, <2>2
      <3> QED
        BY <1>0, <1>7, <2>2, <3>1 DEF TwPrint
    <2> QED
      BY <2>1, <2>2
  <1>8. CASE TwReadPipe
    <2>1. /\ twPipe = 1 /\ twPipe' = 0 /\ twPc' = "fgets" /\ twPc \in {"pipe", "wait"}
          /\ UNCHANGED <<twProg, twLine, twAlarm, twMask, twJmp, twReplies, twSent, twLost>>
      BY <1>8 DEF TwReadPipe, TwPipeRead
    <2> QED
      BY <2>1
  <1>9. CASE readable_timeo
    BY <1>0, <1>9 DEF readable_timeo
  <1>10. CASE TwArrives
    BY <1>10 DEF TwArrives
  <1> QED
    BY <1>1, <1>2, <1>3, <1>4, <1>5, <1>6, <1>7, <1>8, <1>9, <1>10

\* The alarm of a line is noticed or is used up before the next line, in all
\* the programs that the book calls correct, for any number of lines and
\* answers; a jump without a target can only happen at the first line.
THEOREM TwAlarmCorrect == TwSpec => []TwAlarmKept
  <1>1. TwInv /\ [TwNext]_twVars => TwInv'
    <2>1. TwInv /\ UNCHANGED twVars => TwInv'
      BY DEF twVars, TwInv, TwTypes, TwNoneLost
    <2> QED
      BY <2>1, TwAlarmStep, TwProgramStep DEF TwNext, TwFairStep
  <1>2. TwInv => TwAlarmKept
    BY DEF TwInv, TwAlarmKept, TwNoneLeft
  <1> QED
    BY TwInvInit, <1>1, <1>2, PTL DEF TwSpec

-----------------------------------------------------------------------------
(* udpcksum.                                                               *)

\* The seconds that test_udp() waits after its n-th query.
UckWait(n) == IF n = 1 THEN 3 ELSE IF n = 2 THEN 6 ELSE 12

\* Where the program is says how many queries were sent, whether the alarm is
\* set and may jump, and what has been read.
UckOpening ==
    uckPc \in {"main", "output", "pcap"} =>
        /\ uckNsent = 0 /\ uckTimeout = 3 /\ ~uckAlarm /\ ~uckTaken /\ uckEnd = "no"

UckSending ==
    uckPc = "send" =>
        /\ uckNsent \in 0 .. 2 /\ uckTimeout = UckWait(uckNsent + 1)
        /\ ~uckAlarm /\ uckCanjump /\ (uckTaken => uckRaced)

UckWaiting ==
    uckPc \in {"arm", "read", "got", "off", "report"} =>
        /\ uckNsent \in 1 .. 3 /\ uckTimeout = UckWait(uckNsent)
        /\ uckPc \in {"arm", "report"} => ~uckAlarm
        /\ uckPc \in {"arm", "read"} => (uckTaken => uckRaced)
        /\ uckPc \in {"off", "report"} => ~uckCanjump
        /\ uckPc \in {"got", "off", "report"} => uckTaken /\ udp_check(uckUi)

UckRunning ==
    /\ uckPc \in {"main", "output", "pcap", "send", "arm", "read", "got", "off", "report", "end"}
    /\ uckPc # "end" => uckSaid = "none" /\ uckEnd = "no"
    /\ uckPc \in {"send", "arm", "read", "got", "off", "report"} => ~uckRoot
    /\ uckPc # "main" => uckLocal \in {0, UckHost} /\ uckRest \in UckRests
    /\ uckPc = "main" => uckLocal = 0

UckInv ==
    /\ UckRunning /\ UckOpening /\ UckSending /\ UckWaiting
    /\ UckBackoff /\ UckGivesUp /\ UckReportTrue /\ UckSumRight

LEMMA UckInvInit == UckInit => UckInv
  BY DEF UckInit, UckInv, UckRunning, UckOpening, UckSending, UckWaiting, UckBackoff,
         UckGivesUp, UckReportTrue, UckSumRight

\* The waits, one after the other.
LEMMA UckWaits ==
    /\ UckWait(1) = 3 /\ UckWait(2) = 2 * 3 /\ UckWait(3) = 2 * 6
    /\ \A n \in 1 .. 3 : UckWait(n) = <<3, 6, 12>>[n]
  <1>1. /\ <<3, 6, 12>>[1] = 3 /\ <<3, 6, 12>>[2] = 6 /\ <<3, 6, 12>>[3] = 12
    OBVIOUS
  <1>2. \A n \in 1 .. 3 : n = 1 \/ n = 2 \/ n = 3
    OBVIOUS
  <1> QED
    BY <1>1, <1>2 DEF UckWait

\* A sum of words and its carry.
LEMMA UckSmall == \A s \in Nat : s < 65536 => s % 65536 = s /\ s \div 65536 = 0
  OBVIOUS

LEMMA UckLarge ==
    /\ \A s \in Nat : s >= 65536 /\ s < 131072 => s % 65536 = s - 65536 /\ s \div 65536 = 1
    /\ \A s \in Nat : s >= 131072 /\ s < 196608 => s % 65536 = s - 131072 /\ s \div 65536 = 2
  OBVIOUS

\* The checksum of udp_write() makes the sum of a query all ones, the carries
\* added back, and is never zero.
LEMMA UckSumVerifies ==
    ASSUME NEW a \in Nat, NEW b \in Nat, a > 0, b > 0, a < 65536, b < 65536
    PROVE  LET c == IF UckCksum(a, b) = 0 THEN 65535 ELSE UckCksum(a, b)
           IN  /\ c # 0
               /\ ((a + b + c) % 65536) + ((a + b + c) \div 65536) = 65535
  <1> DEFINE s == a + b
             c == IF UckCksum(a, b) = 0 THEN 65535 ELSE UckCksum(a, b)
  <1>1. s \in Nat /\ s >= 2 /\ s <= 131070
    OBVIOUS
  <1>2. UckCksum(a, b) = 65535 - ((s % 65536) + (s \div 65536))
    BY DEF UckCksum
  <1> SUFFICES c # 0 /\ ((s + c) % 65536) + ((s + c) \div 65536) = 65535
    OBVIOUS
  <1> HIDE DEF s
  <1>3. CASE s < 65536
    <2>1. UckCksum(a, b) = 65535 - s
      BY <1>1, <1>2, <1>3, UckSmall
    <2>2. CASE s = 65535
      <3>1. c = 65535 /\ s + c = 131070
        BY <2>1, <2>2
      <3> HIDE DEF c
      <3> QED
        BY <3>1, UckLarge
    <2>3. CASE s < 65535
      <3>1. c = 65535 - s /\ c # 0 /\ s + c = 65535
        BY <1>1, <2>1, <2>3
      <3> HIDE DEF c
      <3> QED
        BY <3>1, UckSmall
    <2> QED
      BY <1>1, <1>3, <2>2, <2>3
  <1>4. CASE s >= 65536
    <2>1. UckCksum(a, b) = 131070 - s
      BY <1>1, <1>2, <1>4, UckLarge
    <2>2. CASE s = 131070
      <3>1. c = 65535 /\ s + c = 196605
        BY <2>1, <2>2
      <3> HIDE DEF c
      <3> QED
        BY <3>1, UckLarge
    <2>3. CASE s < 131070
      <3>1. c = 131070 - s /\ c # 0 /\ s + c = 131070
        BY <1>1, <2>1, <2>3
      <3> HIDE DEF c
      <3> QED
        BY <3>1, UckLarge
    <2> QED
      BY <1>1, <1>4, <2>2, <2>3
  <1> QED
    BY <1>1, <1>3, <1>4

\* The steps that open the sockets, and the ones that send.
LEMMA UckOpens ==
    ASSUME UckInv, UckMain \/ UckOpenOutput \/ UckOpenPcap
    PROVE  UckInv'
  <1> USE DEF UckInv
  <1>0. UckSumRight'
    <2>1. uckNsent' = 0
      BY DEF UckOpening, UckMain, UckOpenOutput, UckOpenPcap
    <2> QED
      BY <2>1 DEF UckSumRight
  <1> USE DEF UckRunning, UckOpening, UckSending, UckWaiting, UckBackoff, UckGivesUp,
              UckReportTrue, UckQuits, UckGoes, uckSetup, uckNet, uckLast
  <1>1. CASE UckMain
    <2>1. uckPc = "main" /\ uckPc' \in {"output", "end"}
          /\ (uckPc' = "end" => uckEnd' = "no local address")
          /\ (uckPc' = "output" => uckEnd' = uckEnd)
          /\ uckLocal' \in {0, UckHost} /\ uckRest' \in UckRests
          /\ UNCHANGED <<uckNsent, uckTimeout, uckAlarm, uckUi, uckTaken, uckRaced, uckSaid, uckRoot>>
      BY <1>1 DEF UckMain
    <2> QED
      BY <1>0, <2>1
  <1>2. CASE UckOpenOutput
    BY <1>0, <1>2 DEF UckOpenOutput
  <1>3. CASE UckOpenPcap
    <2>1. /\ uckPc = "pcap" /\ UNCHANGED <<uckLocal, uckRest, uckNsent, uckTimeout, uckAlarm, uckUi,
                                           uckTaken, uckRaced, uckSaid>>
          /\ \/ uckPc' = "end" /\ uckEnd' = "pcap"
             \/ uckPc' = "send" /\ uckEnd' = uckEnd /\ ~uckRoot' /\ uckCanjump'
      BY <1>3 DEF UckOpenPcap
    <2>2. uckNsent = 0 /\ uckTimeout = UckWait(uckNsent + 1)
      BY <2>1 DEF UckWait
    <2>3. CASE uckPc' = "end"
      BY <1>0, <2>1, <2>3
    <2>4. CASE uckPc' = "send"
      <3>1. uckNsent' \in 0 .. 2 /\ uckTimeout' = UckWait(uckNsent' + 1)
        BY <2>1, <2>2
      <3> QED
        BY <1>0, <2>1, <2>4, <3>1
    <2> QED
      BY <2>1, <2>3, <2>4
  <1> QED
    BY <1>1, <1>2, <1>3

LEMMA UckSends ==
    ASSUME UckInv, UckSend
    PROVE  UckInv'
  <1> USE DEF UckInv
  <1>1. /\ uckPc = "send" /\ uckPc' = "arm" /\ uckNsent' = uckNsent + 1
        /\ UNCHANGED <<uckZerosum, uckLocal, uckRest, uckLink, uckRoot, uckTimeout, uckCanjump,
                       uckAlarm, uckCaptured, uckCount, uckUi, uckTaken, uckRaced, uckSaid, uckEnd>>
    BY DEF UckSend, UckGoes, uckSetup, uckNet, uckLast
  <1>2. uckWire' = [src |-> IF uckLocal = 0 THEN UckHost ELSE uckLocal, sum |-> udp_write_sum]
    BY DEF UckSend, UckLibnetSum, udp_write_sum
  <1>3. UckSumRight'
    <2> SUFFICES ASSUME uckLocal # 0
                 PROVE  IF uckZerosum THEN uckWire'.sum = 0
                        ELSE /\ uckWire'.sum # 0
                             /\ ((uckWire'.src + uckRest + uckWire'.sum) % 65536)
                                + ((uckWire'.src + uckRest + uckWire'.sum) \div 65536) = 65535
      BY <1>1 DEF UckSumRight
    <2>0. uckLocal \in {0, UckHost} /\ uckRest \in UckRests
      BY <1>1 DEF UckRunning
    <2>1. /\ uckLocal \in Nat /\ uckLocal > 0 /\ uckLocal < 65536
          /\ uckRest \in Nat /\ uckRest > 0 /\ uckRest < 65536
      BY <2>0, UckAssumption
    <2>2. uckWire'.src = uckLocal /\ uckWire'.sum = udp_write_sum
      BY <1>2
    <2>3. CASE uckZerosum
      BY <2>2, <2>3 DEF udp_write_sum
    <2>4. CASE ~uckZerosum
      <3> HIDE DEF UckInv
      <3>1. udp_write_sum = IF UckCksum(uckLocal, uckRest) = 0 THEN 65535
                            ELSE UckCksum(uckLocal, uckRest)
        BY <2>4 DEF udp_write_sum
      <3>2. /\ udp_write_sum # 0
            /\ ((uckLocal + uckRest + udp_write_sum) % 65536)
               + ((uckLocal + uckRest + udp_write_sum) \div 65536) = 65535
        BY <2>1, <3>1, UckSumVerifies
      <3> QED
        BY <2>2, <2>4, <3>2
    <2> QED
      BY <2>3, <2>4
  <1>4. UckRunning' /\ UckOpening' /\ UckSending' /\ UckWaiting' /\ UckBackoff' /\ UckGivesUp'
        /\ UckReportTrue'
    BY <1>1 DEF UckRunning, UckOpening, UckSending, UckWaiting, UckBackoff, UckGivesUp, UckReportTrue
  <1> QED
    BY <1>3, <1>4

\* A step that does not touch the query keeps its checksum.
LEMMA UckSumStays ==
    ASSUME UckSumRight, UNCHANGED <<uckZerosum, uckLocal, uckRest, uckNsent, uckWire>>
    PROVE  UckSumRight'
  BY DEF UckSumRight

LEMMA UckReads ==
    ASSUME UckInv, UckArm \/ UckRead \/ UckNoJump \/ UckAlarmOff \/ UckReport \/ UckCleanup \/ UckArrives
    PROVE  UckInv'
  <1> USE DEF UckInv
  <1>1. UckSumRight'
    BY UckSumStays DEF UckArm, UckRead, UckNoJump, UckAlarmOff, UckReport, UckCleanup, UckArrives, uckSetup
  <1> USE DEF UckRunning, UckOpening, UckSending, UckWaiting, UckBackoff, UckGivesUp,
              UckReportTrue, UckQuits, UckGoes, uckSetup, uckNet, uckLast
  <1>2. CASE UckArm
    BY <1>1, <1>2, UckWaits DEF UckArm
  <1>3. CASE UckRead
    BY <1>1, <1>3 DEF UckRead
  <1>4. CASE UckNoJump
    BY <1>1, <1>4 DEF UckNoJump
  <1>5. CASE UckAlarmOff
    BY <1>1, <1>5 DEF UckAlarmOff
  <1>6. CASE UckReport
    BY <1>1, <1>6 DEF UckReport, UckSum
  <1>7. CASE UckCleanup
    BY <1>1, <1>7 DEF UckCleanup
  <1>8. CASE UckArrives
    BY <1>1, <1>8 DEF UckArrives
  <1> QED
    BY <1>2, <1>3, <1>4, <1>5, <1>6, <1>7, <1>8

LEMMA UckJumps ==
    ASSUME UckInv, UckSigAlrm
    PROVE  UckInv'
  <1> USE DEF UckInv
  <1>1. UckSumRight'
    BY UckSumStays DEF UckSigAlrm, uckSetup
  <1>2. uckNsent \in 1 .. 3 /\ uckTimeout = UckWait(uckNsent) /\ uckPc \in {"read", "got", "off"}
    BY DEF UckSigAlrm, UckRunning, UckOpening, UckSending, UckWaiting, UckBackoff
  <1>6. (uckNsent >= 3 => uckNsent = 3) /\ (~(uckNsent >= 3) => uckNsent \in 0 .. 2)
    BY <1>2
  <1> USE DEF UckRunning, UckOpening, UckSending, UckWaiting, UckBackoff, UckGivesUp,
              UckReportTrue, UckQuits, UckGoes, uckSetup, uckNet, uckLast
  <1>3. CASE uckCanjump /\ uckNsent >= 3
    <2>0. uckNsent = 3
      BY <1>3, <1>6, Zenon
    <2>1. uckNsent = 3 /\ uckTimeout = 12
      BY <1>2, <2>0, UckWaits
    <2>2. uckTaken => uckRaced'
      BY <1>2, <1>3 DEF UckSigAlrm
    <2>3. /\ ~uckAlarm' /\ uckPc' = "end" /\ uckEnd' = "no response"
          /\ UNCHANGED <<uckNsent, uckTimeout, uckLocal, uckRest, uckRoot, uckUi, uckTaken, uckSaid>>
      BY <1>3 DEF UckSigAlrm
    <2> QED
      BY <1>1, <1>2, <2>1, <2>2, <2>3
  <1>4. CASE uckCanjump /\ ~(uckNsent >= 3)
    <2>1. uckTimeout' = UckWait(uckNsent + 1)
      BY <1>2, <1>4 DEF UckSigAlrm, UckWait
    <2>2. uckTaken => uckRaced'
      BY <1>2, <1>4 DEF UckSigAlrm
    <2>3. /\ ~uckAlarm' /\ uckPc' = "send" /\ uckEnd' = uckEnd
          /\ UNCHANGED <<uckNsent, uckLocal, uckRest, uckRoot, uckUi, uckTaken, uckSaid, uckCanjump>>
      BY <1>4 DEF UckSigAlrm
    <2>4. uckNsent' \in 0 .. 2 /\ uckTimeout' = UckWait(uckNsent' + 1)
      BY <1>4, <1>6, <2>1, <2>3, Zenon
    <2> QED
      BY <1>1, <1>2, <1>4, <2>2, <2>3, <2>4
  <1>5. CASE ~uckCanjump
    BY <1>1, <1>2, <1>5 DEF UckSigAlrm
  <1> QED
    BY <1>3, <1>4, <1>5

\* udpcksum waits 3, 6 and 12 seconds and gives up only then, what it prints
\* is true of the packet it has read, and the checksums of its queries are
\* right, for any packets, any address and any time at which the alarm or a
\* signal comes; the cases in which the code breaks this are in UckSafe.
THEOREM UckSafeCorrect == UckSpec => []UckSafe
  <1>1. UckInv /\ [UckNext]_uckVars => UckInv'
    <2>1. UckInv /\ UNCHANGED uckVars => UckInv'
      <3> SUFFICES ASSUME UckInv, UNCHANGED uckVars PROVE UckInv'
        OBVIOUS
      <3>1. UckSumRight'
        BY UckSumStays DEF uckVars, uckSetup, UckInv
      <3> QED
        BY <3>1 DEF uckVars, uckSetup, uckNet, uckLast, UckInv, UckRunning, UckOpening, UckSending,
                    UckWaiting, UckBackoff, UckGivesUp, UckReportTrue
    <2> QED
      BY <2>1, UckOpens, UckSends, UckReads, UckJumps DEF UckNext, UckFairStep
  <1>2. UckInv => UckSafe
    BY DEF UckInv, UckSafe
  <1> QED
    BY UckInvInit, <1>1, <1>2, PTL DEF UckSpec

-----------------------------------------------------------------------------
(* ping: in_cksum.                                                         *)

\* A nonempty set of naturals has a least element: the form in which
\* induction is used in this module.
LEMMA BsdLeast ==
    ASSUME NEW S, S \subseteq Nat, S # {}
    PROVE  \E x \in S : \A y \in S : x <= y
  <1> DEFINE less == OpToRel(<, Nat)
  <1>1. IsWellFoundedOn(less, Nat)
    BY NatLessThanWellFounded
  <1> HIDE DEF less
  <1>2. PICK x \in S : \A y \in S : ~(<<y, x>> \in less)
    BY <1>1, WFMin
  <1> USE DEF less
  <1>3. \A y \in S : ~(y < x)
    BY <1>2 DEF OpToRel
  <1> QED
    BY <1>3

\* g holds the sums of the first words of w, up to n of them.
BsdSums(g, w, n) ==
    /\ g = [i \in 0 .. n |-> g[i]]
    /\ \A i \in 0 .. n : g[i] = IF i = 0 THEN 0 ELSE g[i - 1] + w[i]

\* The sums in_cksum runs through exist.
LEMMA BsdSumsExist ==
    ASSUME NEW w, NEW n \in Nat
    PROVE  \E g : BsdSums(g, w, n)
  <1> DEFINE bad == {m \in Nat : ~ \E g : BsdSums(g, w, m)}
  <1>1. SUFFICES ASSUME n \in bad PROVE FALSE
    OBVIOUS
  <1>2. PICK m \in bad : \A k \in bad : m <= k
    <2>1. bad \subseteq Nat /\ bad # {}
      BY <1>1
    <2> QED
      BY <2>1, BsdLeast
  <1>3. m \in Nat /\ ~ \E g : BsdSums(g, w, m)
    BY <1>2
  <1>4. m # 0
    <2>1. BsdSums([i \in 0 .. 0 |-> 0], w, 0)
      BY DEF BsdSums
    <2> QED
      BY <1>3, <2>1
  <1>5. m - 1 \in Nat /\ m - 1 \notin bad
    BY <1>2, <1>3, <1>4
  <1>6. PICK g : BsdSums(g, w, m - 1)
    BY <1>5
  <1> DEFINE h == [i \in 0 .. m |-> IF i = m THEN g[m - 1] + w[m] ELSE g[i]]
  <1>7. \A i \in 0 .. m : h[i] = IF i = 0 THEN 0 ELSE h[i - 1] + w[i]
    <2> SUFFICES ASSUME NEW i \in 0 .. m PROVE h[i] = IF i = 0 THEN 0 ELSE h[i - 1] + w[i]
      OBVIOUS
    <2>1. CASE i = m
      <3>1. m - 1 \in 0 .. m /\ m - 1 # m
        BY <1>3, <1>4
      <3>2. h[m - 1] = g[m - 1] /\ h[i] = g[m - 1] + w[m]
        BY <2>1, <3>1
      <3> QED
        BY <1>4, <2>1, <3>2
    <2>2. CASE i # m
      <3>1. i \in 0 .. m - 1 /\ (i # 0 => i - 1 \in 0 .. m /\ i - 1 # m)
        BY <1>3, <2>2
      <3>2. h[i] = g[i] /\ (i # 0 => h[i - 1] = g[i - 1])
        BY <2>2, <3>1
      <3>3. g[i] = IF i = 0 THEN 0 ELSE g[i - 1] + w[i]
        BY <1>6, <3>1 DEF BsdSums
      <3> HIDE DEF h
      <3> QED
        BY <3>2, <3>3
    <2> QED
      BY <2>1, <2>2
  <1>8. BsdSums(h, w, m)
    BY <1>7 DEF BsdSums
  <1> QED
    BY <1>3, <1>8

\* Two runs over words that agree on the first n have the same sums there.
LEMMA BsdSumsUnique ==
    ASSUME NEW n \in Nat, NEW m \in Nat, n <= m, NEW v, NEW w,
           \A i \in 1 .. n : v[i] = w[i],
           NEW g, NEW h, BsdSums(g, v, n), BsdSums(h, w, m)
    PROVE  g[n] = h[n]
  <1> DEFINE bad == {k \in 0 .. n : g[k] # h[k]}
  <1>1. SUFFICES ASSUME n \in bad PROVE FALSE
    OBVIOUS
  <1>2. PICK k \in bad : \A j \in bad : k <= j
    <2>1. bad \subseteq Nat /\ bad # {}
      BY <1>1
    <2> QED
      BY <2>1, BsdLeast
  <1>3. k \in 0 .. n /\ k \in 0 .. m /\ g[k] # h[k]
    BY <1>2
  <1>4. /\ g[k] = IF k = 0 THEN 0 ELSE g[k - 1] + v[k]
        /\ h[k] = IF k = 0 THEN 0 ELSE h[k - 1] + w[k]
    BY <1>3 DEF BsdSums
  <1>5. k # 0
    BY <1>3, <1>4
  <1>6. k - 1 \in 0 .. n /\ k - 1 \notin bad /\ k \in 1 .. n
    BY <1>2, <1>3, <1>5
  <1>7. g[k - 1] = h[k - 1] /\ v[k] = w[k]
    BY <1>6
  <1> QED
    BY <1>3, <1>4, <1>5, <1>7

\* The first n of w are words of 16 bits.
Bsd16Bits(w, n) == \A i \in 1 .. n : w[i] \in Nat /\ w[i] <= 65535

\* A sum of n words of 16 bits.
LEMMA BsdSumsBound ==
    ASSUME NEW n \in Nat, NEW w, Bsd16Bits(w, n),
           NEW g, BsdSums(g, w, n)
    PROVE  g[n] \in Nat /\ g[n] <= 65535 * n
  <1> DEFINE bad == {k \in 0 .. n : ~(g[k] \in Nat /\ g[k] <= 65535 * k)}
  <1>1. SUFFICES ASSUME n \in bad PROVE FALSE
    OBVIOUS
  <1>2. PICK k \in bad : \A j \in bad : k <= j
    <2>1. bad \subseteq Nat /\ bad # {}
      BY <1>1
    <2> HIDE DEF bad
    <2> QED
      BY ONLY <2>1, BsdLeast
  <1>3. k \in 0 .. n /\ ~(g[k] \in Nat /\ g[k] <= 65535 * k)
    BY <1>2
  <1>4. g[k] = IF k = 0 THEN 0 ELSE g[k - 1] + w[k]
    <2>1. \A j \in 0 .. n : g[j] = IF j = 0 THEN 0 ELSE g[j - 1] + w[j]
      <3> HIDE DEF bad
      <3>1. BsdSums(g, w, n)
        OBVIOUS
      <3> QED
        BY ONLY <3>1 DEF BsdSums
    <2> QED
      BY ONLY <1>3, <2>1
  <1>5. k # 0
    BY <1>3, <1>4
  <1>6. k - 1 \in 0 .. n /\ k - 1 \notin bad /\ k \in 1 .. n
    BY <1>2, <1>3, <1>5
  <1>7. g[k - 1] \in Nat /\ g[k - 1] <= 65535 * (k - 1) /\ w[k] \in Nat /\ w[k] <= 65535
    BY <1>6 DEF Bsd16Bits
  <1>8. g[k] = g[k - 1] + w[k]
    BY <1>4, <1>5
  <1> QED
    BY <1>3, <1>7, <1>8

\* What in_cksum computes, with the sums made explicit.
LEMMA BsdCksumIs ==
    ASSUME NEW w, Len(w) \in Nat
    PROVE  \E g : BsdSums(g, w, Len(w)) /\ BsdCksum(w) = BsdFold(g[Len(w)])
  <1> DEFINE n == Len(w)
             F(g) == [i \in 0 .. n |-> IF i = 0 THEN 0 ELSE g[i - 1] + w[i]]
             s == CHOOSE g : g = F(g)
  <1>1. \A g : BsdSums(g, w, n) => g = F(g)
    BY DEF BsdSums
  <1>2. \A g : g = F(g) => BsdSums(g, w, n)
    <2>1. \A a, b : a = F(b) => a = [i \in 0 .. n |-> a[i]]
                    /\ \A i \in 0 .. n : a[i] = IF i = 0 THEN 0 ELSE b[i - 1] + w[i]
      OBVIOUS
    <2> HIDE DEF F
    <2> QED
      BY <2>1 DEF BsdSums
  <1>3. BsdCksum(w) = BsdFold(s[n])
    BY DEF BsdCksum
  <1> HIDE DEF F, n
  <1>4. \E g : BsdSums(g, w, n)
    BY BsdSumsExist DEF n
  <1>5. s = F(s)
    BY <1>1, <1>4
  <1> HIDE DEF s
  <1>6. BsdSums(s, w, n)
    BY <1>2, <1>5
  <1> QED
    BY <1>3, <1>6 DEF n

\* The carries of a sum of fewer than 2^16 words: added to the sum, the
\* checksum makes it all ones.
LEMMA BsdFoldVerifies ==
    ASSUME NEW s \in Nat, s <= 65535 * 65535
    PROVE  /\ BsdFold(s) \in Nat /\ BsdFold(s) <= 65535
           /\ BsdFold(s + BsdFold(s)) = 0
  <1> DEFINE h == s \div 65536
             l == s % 65536
             t == h + l
  <1>1. h \in Nat /\ h <= 65534 /\ l \in Nat /\ l < 65536 /\ s = 65536 * h + l
    OBVIOUS
  <1>2. 2^16 = 65536
    OBVIOUS
  <1>3. \A x \in Nat : BsdFold(x) =
            65535 - (((x \div 65536) + (x % 65536)
                       + (((x \div 65536) + (x % 65536)) \div 65536)) % 65536)
    BY <1>2 DEF BsdFold
  <1>4. \A x, y \in Nat : y < 65536 => (65536 * x + y) \div 65536 = x /\ (65536 * x + y) % 65536 = y
    OBVIOUS
  <1>5. \A x \in Nat : x < 65536 => x \div 65536 = 0 /\ x % 65536 = x
    OBVIOUS
  <1>6. BsdFold(s) = 65535 - ((t + (t \div 65536)) % 65536)
    BY <1>3
  <1> HIDE DEF h, l
  <1>7. \A x \in Nat : x <= 65535 => BsdFold(65536 * x + (65535 - x)) = 0
    <2> SUFFICES ASSUME NEW x \in Nat, x <= 65535
                 PROVE  BsdFold(65536 * x + (65535 - x)) = 0
      OBVIOUS
    <2>1. 65535 - x \in Nat /\ 65535 - x < 65536 /\ 65536 * x + (65535 - x) \in Nat
      OBVIOUS
    <2>2. /\ (65536 * x + (65535 - x)) \div 65536 = x
          /\ (65536 * x + (65535 - x)) % 65536 = 65535 - x
      BY <1>4, <2>1
    <2>3. BsdFold(65536 * x + (65535 - x)) =
            65535 - ((x + (65535 - x) + ((x + (65535 - x)) \div 65536)) % 65536)
      BY <1>3, <2>1, <2>2
    <2>4. x + (65535 - x) = 65535 /\ 65535 \div 65536 = 0 /\ (65535 + 0) % 65536 = 65535
      OBVIOUS
    <2> QED
      BY <2>3, <2>4
  <1>8. CASE t < 65536
    <2>1. BsdFold(s) = 65535 - t
      BY <1>1, <1>5, <1>6, <1>8
    <2>2. s + BsdFold(s) = 65536 * h + (65535 - h)
      BY <1>1, <2>1
    <2> QED
      BY <1>1, <1>7, <1>8, <2>1, <2>2
  <1>9. CASE t >= 65536
    <2>1. t \in Nat /\ t = 65536 * 1 + (t - 65536) /\ t - 65536 \in Nat /\ t - 65536 < 65535
      BY <1>1, <1>9
    <2>2. t \div 65536 = 1
      BY <1>4, <2>1
    <2>3. (t + 1) % 65536 = t - 65535
      <3>1. t + 1 = 65536 * 1 + (t - 65535) /\ t - 65535 \in Nat /\ t - 65535 < 65536
        BY <2>1
      <3> QED
        BY <1>4, <3>1
    <2>4. BsdFold(s) = 131070 - t
      BY <1>6, <2>1, <2>2, <2>3
    <2>5. s + BsdFold(s) = 65536 * (h + 1) + (65535 - (h + 1))
      BY <1>1, <2>4
    <2>6. h + 1 \in Nat /\ h + 1 <= 65535
      BY <1>1
    <2>7. BsdFold(65536 * (h + 1) + (65535 - (h + 1))) = 0
      BY <1>7, <2>6
    <2> QED
      BY <1>1, <1>9, <2>1, <2>4, <2>5, <2>7
  <1> QED
    BY <1>1, <1>8, <1>9

\* in_cksum() verifies: the checksum of a packet that carries its checksum in
\* its last word is zero, for every packet of up to 2^15 words.  That is any
\* IP datagram, and the sum stays within the int of bsdping.c.
THEOREM BsdCksumOfAny ==
    ASSUME NEW w, NEW v, Len(w) \in Nat, Len(w) <= 32767, Len(v) = Len(w) + 1,
           \A i \in 1 .. Len(w) : w[i] \in Nat /\ w[i] <= 65535 /\ v[i] = w[i],
           v[Len(v)] = BsdCksum(w)
    PROVE  BsdCksum(v) = 0
  <1> DEFINE n == Len(w)
  <1>1. PICK g : BsdSums(g, w, n) /\ BsdCksum(w) = BsdFold(g[n])
    BY BsdCksumIs
  <1>2. Len(v) \in Nat /\ Len(v) = n + 1
    OBVIOUS
  <1>3. PICK h : BsdSums(h, v, n + 1) /\ BsdCksum(v) = BsdFold(h[n + 1])
    BY <1>2, BsdCksumIs
  <1>4. g[n] = h[n]
    <2>1. \A i \in 1 .. n : w[i] = v[i]
      OBVIOUS
    <2> QED
      <3>1. n \in Nat /\ n + 1 \in Nat /\ n <= n + 1
        OBVIOUS
      <3>2. BsdSums(g, w, n) /\ BsdSums(h, v, n + 1)
        BY <1>1, <1>3
      <3> HIDE DEF n
      <3> QED
        BY ONLY <2>1, <3>1, <3>2, BsdSumsUnique
  <1>5. h[n + 1] = h[n] + v[n + 1]
    <2>1. n + 1 \in 0 .. n + 1 /\ n + 1 # 0 /\ (n + 1) - 1 = n
      OBVIOUS
    <2>2. \A i \in 0 .. n + 1 : h[i] = IF i = 0 THEN 0 ELSE h[i - 1] + v[i]
      BY <1>3 DEF BsdSums
    <2> QED
      BY <2>1, <2>2
  <1>6. h[n + 1] = g[n] + BsdFold(g[n])
    BY <1>1, <1>2, <1>4, <1>5
  <1>7. g[n] \in Nat /\ g[n] <= 65535 * n
    <2>1. n \in Nat
      OBVIOUS
    <2>2. Bsd16Bits(w, n)
      BY DEF Bsd16Bits
    <2>3. BsdSums(g, w, n)
      BY <1>1
    <2> HIDE DEF n
    <2> QED
      BY ONLY <2>1, <2>2, <2>3, BsdSumsBound
  <1>8. PICK s \in Nat : s = g[n] /\ s <= 65535 * 65535
    BY <1>7
  <1> QED
    <2>1. BsdCksum(v) = BsdFold(s + BsdFold(s))
      BY <1>3, <1>6, <1>8
    <2>2. s \in Nat /\ s <= 65535 * 65535
      BY <1>8
    <2>3. BsdFold(s + BsdFold(s)) = 0
      BY ONLY <2>2, BsdFoldVerifies
    <2> QED
      BY <2>1, <2>3

\* The receiver's test succeeds for the packets of four words and a checksum.
THEOREM BsdCksumVerifiesCorrect == BsdSpec => []BsdCksumVerifies
  <1>1. BsdCksumVerifies
    <2> SUFFICES ASSUME NEW a \in BsdWords, NEW b \in BsdWords, NEW c \in BsdWords, NEW d \in BsdWords
                 PROVE  BsdCksum(<<a, b, c, d, BsdCksum(<<a, b, c, d>>)>>) = 0
      BY DEF BsdCksumVerifies
    <2> DEFINE x == BsdCksum(<<a, b, c, d>>)
               w == <<a, b, c, d>>
               v == <<a, b, c, d, x>>
    <2>1. \A e \in BsdWords : e \in Nat /\ e <= 65535
      <3> SUFFICES ASSUME NEW e \in BsdWords PROVE e \in Nat /\ e <= 65535
        OBVIOUS
      <3>1. PICK k : k = 2^16 - 1
        OBVIOUS
      <3>2. k = 65535
        BY <3>1
      <3>3. e \in 0 .. k
        BY ONLY <3>1, BsdWordsAssumption, e \in BsdWords, Zenon
      <3>4. k \in Int
        BY <3>2
      <3>5. e \in Nat /\ e <= k
        BY ONLY <3>3, <3>4
      <3> QED
        BY <3>2, <3>5
    <2> HIDE DEF x
    <2>2. Len(w) = 4 /\ Len(v) = 5
      OBVIOUS
    <2>3. /\ w[1] = a /\ w[2] = b /\ w[3] = c /\ w[4] = d
          /\ v[1] = a /\ v[2] = b /\ v[3] = c /\ v[4] = d /\ v[5] = x
      OBVIOUS
    <2>4. v[Len(v)] = BsdCksum(w)
      BY <2>2, <2>3 DEF x
    <2> HIDE DEF w, v
    <2>5. \A i \in 1 .. Len(w) : w[i] \in Nat /\ w[i] <= 65535 /\ v[i] = w[i]
      <3>1. \A i \in 1 .. 4 : i = 1 \/ i = 2 \/ i = 3 \/ i = 4
        OBVIOUS
      <3> QED
        BY <2>1, <2>2, <2>3, <3>1
    <2>6. Len(w) \in Nat /\ Len(w) <= 32767 /\ Len(v) = Len(w) + 1
      BY <2>2
    <2>7. BsdCksum(v) = 0
      BY ONLY <2>4, <2>5, <2>6, BsdCksumOfAny
    <2> QED
      BY ONLY <2>7 DEF v, w, x
  <1> QED
    BY <1>1, PTL

-----------------------------------------------------------------------------
(* ping: the counts of replies.                                            *)

\* The slots that the requests sent so far use.
BsdUsed == {seq % BsdSlots : seq \in 0 .. bsdTransmitted - 1}

\* The slots whose replies may still count.
BsdUnmarked == BsdUsed \ bsdTbl

\* A slot in use is either marked, and then one reply at least of its
\* requests has been counted, or may let one more be counted.  What stands
\* between the two halves of pr_pack is one count that may be taken back.
BsdInv ==
    /\ bsdPc \in {"args", "setup", "loop", "mark", "end"}
    /\ bsdTransmitted \in Nat /\ bsdReceived \in Int
    /\ bsdRepeats \in Int /\ bsdReads \in Int
    /\ bsdReceived + bsdRepeats = bsdReads
    /\ bsdNet \subseteq 0 .. bsdTransmitted - 1
    /\ bsdPc = "mark" => bsdSeq \in 0 .. bsdTransmitted - 1
    /\ bsdPc \in {"args", "setup", "loop"} =>
           bsdReceived + Cardinality(BsdUnmarked) <= bsdTransmitted
    /\ bsdPc = "mark" => (bsdReceived - 1) + Cardinality(BsdUnmarked) <= bsdTransmitted
    /\ bsdPc = "end" => bsdReceived <= bsdTransmitted + 1
    /\ bsdPrinted[1] \in Int /\ bsdPrinted[2] \in Int
    /\ bsdPrinted[2] <= bsdPrinted[1] + 1

\* The slots are few.
LEMMA BsdUsedFinite ==
    ASSUME BsdInv
    PROVE  /\ IsFiniteSet(BsdUsed) /\ IsFiniteSet(BsdUnmarked)
           /\ Cardinality(BsdUnmarked) \in Nat
  <1>1. \A seq \in Nat : seq % BsdSlots \in 0 .. BsdSlots - 1
    BY BsdSlotsAssumption
  <1>2. BsdUsed \subseteq 0 .. BsdSlots - 1
    BY <1>1 DEF BsdUsed, BsdInv
  <1>3. IsFiniteSet(0 .. BsdSlots - 1)
    BY BsdSlotsAssumption, FS_Interval
  <1>4. IsFiniteSet(BsdUsed)
    BY <1>2, <1>3, FS_Subset
  <1>5. IsFiniteSet(BsdUnmarked)
    BY <1>4, FS_Subset DEF BsdUnmarked
  <1> QED
    BY <1>4, <1>5, FS_CardinalityType

\* pinger() opens one slot at most, and counts one request.
LEMMA BsdPingerStep ==
    ASSUME BsdInv, BsdPinger
    PROVE  /\ bsdTransmitted' = bsdTransmitted + 1
           /\ bsdNet' \subseteq 0 .. bsdTransmitted' - 1
           /\ \A s \in 0 .. bsdTransmitted - 1 : s \in 0 .. bsdTransmitted' - 1
           /\ Cardinality(BsdUnmarked') \in Nat
           /\ Cardinality(BsdUnmarked') <= Cardinality(BsdUnmarked) + 1
  <1> DEFINE new == bsdTransmitted % BsdSlots
  <1>1. bsdTransmitted' = bsdTransmitted + 1 /\ bsdTransmitted \in Nat
    BY DEF BsdPinger, BsdInv
  <1>2. \A s : s \in 0 .. bsdTransmitted' - 1 <=> s \in 0 .. bsdTransmitted - 1 \/ s = bsdTransmitted
    BY <1>1
  <1>3. bsdNet' \subseteq 0 .. bsdTransmitted' - 1
    BY <1>2 DEF BsdPinger, BsdInv
  <1>4. BsdUsed' = BsdUsed \cup {new}
    BY <1>2 DEF BsdUsed
  <1>5. bsdTbl' = bsdTbl \ {new}
    BY DEF BsdPinger, BsdCleared
  <1>6. BsdUnmarked' = BsdUnmarked \cup {new}
    BY <1>4, <1>5 DEF BsdUnmarked
  <1>7. /\ IsFiniteSet(BsdUnmarked \cup {new})
        /\ Cardinality(BsdUnmarked \cup {new}) = Cardinality(BsdUnmarked)
           \/ Cardinality(BsdUnmarked \cup {new}) = Cardinality(BsdUnmarked) + 1
    BY BsdUsedFinite, FS_AddElement
  <1> QED
    BY <1>1, <1>2, <1>3, <1>6, <1>7, BsdUsedFinite

\* The slots of the requests stay when neither the requests nor the table
\* change.
LEMMA BsdUnmarkedStays ==
    ASSUME UNCHANGED <<bsdTransmitted, bsdTbl>>
    PROVE  BsdUnmarked' = BsdUnmarked
  BY DEF BsdUnmarked, BsdUsed

LEMMA BsdInvStep == BsdInv /\ [BsdNext]_bsdVars => BsdInv'
  <1> SUFFICES ASSUME BsdInv, [BsdNext]_bsdVars PROVE BsdInv'
    OBVIOUS
  <1>0. Cardinality(BsdUnmarked) \in Nat
    BY BsdUsedFinite
  <1>1. CASE BsdOptions
    BY <1>1, BsdUnmarkedStays, <1>0 DEF BsdOptions, BsdInv
  <1>2. CASE BsdSetup
    <2>1. CASE BsdPinger
      BY <1>0, <1>2, <2>1, BsdPingerStep DEF BsdSetup, BsdInv
    <2>2. CASE UNCHANGED <<bsdTransmitted, bsdTbl, bsdNet>>
      BY <1>0, <1>2, <2>2, BsdUnmarkedStays DEF BsdSetup, BsdInv
    <2> QED
      BY <1>2, <2>1, <2>2 DEF BsdSetup
  <1>3. CASE BsdOnAlrm
    <2>1. CASE BsdPinger
      BY <1>0, <1>3, <2>1, BsdPingerStep DEF BsdOnAlrm, BsdInv
    <2>2. CASE UNCHANGED <<bsdTransmitted, bsdTbl, bsdNet>>
      BY <1>0, <1>3, <2>2, BsdUnmarkedStays DEF BsdOnAlrm, BsdInv
    <2> QED
      BY <1>3, <2>1, <2>2 DEF BsdOnAlrm
  <1>4. CASE BsdFloodOne
    BY <1>0, <1>4, BsdPingerStep DEF BsdFloodOne, BsdInv
  <1>5. CASE BsdCount
    BY <1>0, <1>5, BsdUnmarkedStays DEF BsdCount, BsdInv
  <1>6. CASE BsdMark
    <2> DEFINE slot == bsdSeq % BsdSlots
    <2>1. bsdPc = "mark" /\ UNCHANGED <<bsdTransmitted, bsdNet, bsdReads>>
      BY <1>6 DEF BsdMark
    <2>2. slot \in BsdUsed
      BY <2>1 DEF BsdInv, BsdUsed
    <2>3. /\ bsdReceived' \in Int /\ bsdRepeats' \in Int
          /\ bsdReceived' + bsdRepeats' = bsdReads
          /\ bsdReceived' + Cardinality(BsdUnmarked') <= bsdTransmitted
          /\ Cardinality(BsdUnmarked') \in Nat
      <3>1. CASE slot \in bsdTbl
        <4>1. /\ bsdReceived' = bsdReceived - 1 /\ bsdRepeats' = bsdRepeats + 1
              /\ UNCHANGED bsdTbl
          BY <1>6, <3>1 DEF BsdMark, BsdRetract
        <4>2. BsdUnmarked' = BsdUnmarked
          BY <2>1, <4>1, BsdUnmarkedStays
        <4> QED
          BY <1>0, <2>1, <4>1, <4>2 DEF BsdInv
      <3>2. CASE slot \notin bsdTbl
        <4>1. bsdTbl' = bsdTbl \cup {slot} /\ UNCHANGED <<bsdReceived, bsdRepeats>>
          BY <1>6, <3>2 DEF BsdMark
        <4>2. BsdUnmarked' = BsdUnmarked \ {slot} /\ slot \in BsdUnmarked
          BY <2>1, <2>2, <3>2, <4>1 DEF BsdUnmarked, BsdUsed
        <4>3. /\ Cardinality(BsdUnmarked \ {slot}) = Cardinality(BsdUnmarked) - 1
              /\ Cardinality(BsdUnmarked \ {slot}) \in Nat
          BY <4>2, BsdUsedFinite, FS_RemoveElement, FS_CardinalityType
        <4> QED
          BY <1>0, <2>1, <4>1, <4>2, <4>3 DEF BsdInv
      <3> QED
        BY <3>1, <3>2
    <2>4. \/ bsdPc' = "loop" /\ UNCHANGED bsdPrinted
          \/ bsdPc' = "end" /\ bsdPrinted' = <<bsdTransmitted, bsdReceived'>>
      BY <1>6 DEF BsdMark, BsdSummary
    <2>5. /\ bsdPrinted'[1] \in Int /\ bsdPrinted'[2] \in Int
          /\ bsdPrinted'[2] <= bsdPrinted'[1] + 1
      <3>1. CASE UNCHANGED bsdPrinted
        BY <3>1 DEF BsdInv
      <3>2. CASE bsdPrinted' = <<bsdTransmitted, bsdReceived'>>
        <4>1. bsdPrinted'[1] = bsdTransmitted /\ bsdPrinted'[2] = bsdReceived'
          BY <3>2
        <4>2. bsdTransmitted \in Nat
          BY DEF BsdInv
        <4> QED
          BY <2>3, <4>1, <4>2
      <3> QED
        BY <2>4, <3>1, <3>2
    <2>6. bsdTransmitted \in Nat /\ bsdNet \subseteq 0 .. bsdTransmitted - 1 /\ bsdReads \in Int
      BY DEF BsdInv
    <2>7. bsdPc' \in {"loop", "end"} /\ bsdPc' # "mark"
      BY <2>4
    <2>8. bsdReceived' <= bsdTransmitted + 1
      BY <2>3, <2>6
    <2> QED
      BY <2>1, <2>3, <2>5, <2>6, <2>7, <2>8 DEF BsdInv
  <1>7. CASE BsdOnInt
    BY <1>0, <1>7, BsdUnmarkedStays DEF BsdOnInt, BsdSummary, BsdInv
  <1>8. CASE BsdOnInfo
    BY <1>0, <1>8, BsdUnmarkedStays DEF BsdOnInfo, BsdSummary, BsdInv
  <1>9. CASE UNCHANGED bsdVars
    BY <1>0, <1>9, BsdUnmarkedStays DEF bsdVars, BsdInv
  <1> QED
    BY <1>1, <1>2, <1>3, <1>4, <1>5, <1>6, <1>7, <1>8, <1>9 DEF BsdNext

\* bsdping counts no reply twice, however many sequence numbers share a slot
\* of its table and whenever a signal comes: what a summary prints is wrong
\* by one at most.
THEOREM BsdCountsBoundedCorrect == BsdSpec => []BsdCountsBounded
  <1>1. BsdInit => BsdInv
    <2> SUFFICES ASSUME BsdInit PROVE BsdInv
      OBVIOUS
    <2>1. 0 .. bsdTransmitted - 1 = {}
      BY DEF BsdInit
    <2>2. BsdUnmarked = {}
      BY <2>1 DEF BsdUnmarked, BsdUsed
    <2>3. Cardinality({}) = 0
      BY FS_EmptySet
    <2> QED
      BY <2>2, <2>3 DEF BsdInit, BsdInv
  <1>2. BsdInv => BsdCountsBounded
    BY BsdUsedFinite DEF BsdInv, BsdCountsBounded
  <1> QED
    BY <1>1, <1>2, BsdInvStep, PTL DEF BsdSpec

-----------------------------------------------------------------------------
(* traceroute.                                                             *)

TrcInv ==
    /\ TrcTrueCode
    /\ trcFamily \in {0, 4, 6}
    /\ trcFamily = 0 => trcPc = "send" /\ trcFrom = TrcNone

\* What recv returns while traceloop waits for the answer to the last probe.
LEMMA TrcRecvStep == TrcInv /\ TrcRecv => TrcInv'
  <1> SUFFICES ASSUME TrcInv, TrcRecv PROVE TrcInv'
    OBVIOUS
  <1> DEFINE m == Head(trcRaw)
  <1>1. trcFamily \in {4, 6} /\ UNCHANGED <<trcFamily, trcSeq>> /\ trcPc = "wait"
    BY DEF TrcInv, TrcRecv
  <1>2. \A code : TrcReturn(code, m) => trcCode' = code /\ trcFrom' = m
    BY DEF TrcReturn
  <1>3. TrcIgnore => trcPc' = "check"
    BY DEF TrcIgnore
  <1>4. CASE trcFamily = 4
    <2>1. recv_v4(m)
      BY <1>4 DEF TrcRecv
    <2>2. trcPc' = "check" \/ (trcCode' = TrcCodeOf(m) /\ trcFrom' = m /\ m.seq = trcSeq)
      BY <1>2, <1>3, <2>1 DEF recv_v4, TrcQuoted
    <2> QED
      BY <1>1, <2>2 DEF TrcInv, TrcTrueCode
  <1>5. CASE trcFamily = 6
    <2>1. recv_v6(m)
      BY <1>5 DEF TrcRecv
    <2>2. \/ trcPc' = "check"
          \/ trcCode' = TrcCodeOf(m) /\ trcFrom' = m /\ m.seq = trcSeq
          \/ trcFrom' = m /\ m.is = "timxceed" /\ m.seq # trcSeq
      <3>1. CASE m.is = "short"
        BY <1>3, <2>1, <3>1 DEF recv_v6
      <3>2. CASE m.is = "timxceed"
        <4>1. PICK ret \in IF TrcQuoted(m) THEN {-2} ELSE {-2, -1, 0} : TrcReturn(ret, m)
          BY <2>1, <3>2 DEF recv_v6
        <4>2. TrcCodeOf(m) = -2
          BY <3>2 DEF TrcCodeOf
        <4> QED
          BY <1>2, <3>2, <4>1, <4>2 DEF TrcQuoted
      <3>3. CASE m.is # "short" /\ m.is # "timxceed"
        BY <1>2, <1>3, <2>1, <3>3 DEF recv_v6, TrcQuoted
      <3> QED
        BY <3>1, <3>2, <3>3
    <2> QED
      BY <1>1, <1>5, <2>2 DEF TrcInv, TrcTrueCode
  <1> QED
    BY <1>1, <1>4, <1>5

\* What recv_v4 and recv_v6 return is about the probe just sent, for any
\* number of probes, hops and messages; recv_v6 makes the one exception.
THEOREM TrcTrueCodeCorrect == TrcSpec => []TrcTrueCode
  <1>1. TrcInit => TrcInv
    BY DEF TrcInit, TrcInv, TrcTrueCode
  <1>2. TrcInv /\ [TrcNext]_trcVars => TrcInv'
    <2> SUFFICES ASSUME TrcInv, [TrcNext]_trcVars PROVE TrcInv'
      OBVIOUS
    <2> USE DEF TrcInv, TrcTrueCode
    <2>1. CASE TrcStart
      BY <2>1 DEF TrcStart
    <2>2. CASE TrcSend
      BY <2>2 DEF TrcSend
    <2>3. CASE TrcCheck
      BY <2>3 DEF TrcCheck, TrcReturn
    <2>4. CASE TrcCall
      BY <2>4 DEF TrcCall
    <2>5. CASE TrcAlarmFires
      BY <2>5 DEF TrcAlarmFires
    <2>6. CASE TrcRecv
      BY <2>6, TrcRecvStep
    <2>7. CASE TrcAnswer
      BY <2>7 DEF TrcAnswer
    <2>8. CASE TrcForeignArrives
      BY <2>8 DEF TrcForeignArrives
    <2>9. CASE UNCHANGED trcVars
      BY <2>9 DEF trcVars
    <2> QED
      BY <2>1, <2>2, <2>3, <2>4, <2>5, <2>6, <2>7, <2>8, <2>9 DEF TrcNext, TrcFairStep
  <1>3. TrcInv => TrcTrueCode
    BY DEF TrcInv
  <1> QED
    BY <1>1, <1>2, <1>3, PTL DEF TrcSpec

-----------------------------------------------------------------------------
(* The three programs together.                                            *)

\* ping, traceroute and udpcksum report what is true of the packets, whatever
\* arrives and whenever a signal comes, all but in the cases named.
THEOREM RawRepliesRightCorrect == RawSpec => []RawRepliesRight
  <1>1. BsdCountsBounded /\ BsdCksumVerifies /\ TrcTrueCode /\ UckSafe => RawRepliesRight
    BY DEF RawRepliesRight
  <1> QED
    BY <1>1, BsdCountsBoundedCorrect, BsdCksumVerifiesCorrect, TrcTrueCodeCorrect,
       UckSafeCorrect, PTL DEF RawSpec
=============================================================================
