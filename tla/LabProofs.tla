------------------------------ MODULE LabProofs ------------------------------
(***************************************************************************)
(* Proofs about seven programs of the labs: the older UDP file transfer of *)
(* np-lab6, for any number of files and fragments; the bandwidth probe of  *)
(* np-lab5, for any number and size of blocks and any buffers; the UDP     *)
(* flag client of np-lab1; the TUN VPN of np-lab8, for any number and      *)
(* sizes of packets and any buffer; the decoder of np-lab2, for any data,  *)
(* blocks and damage; the two N-queens clients of np-lab7, for boards of   *)
(* any size; and the maze clients of np-lab3, for mazes and windows of any *)
(* size.                                                                   *)
(***************************************************************************)
EXTENDS OldTransfer, SpeedProbe, UdpFlag, Tunvpn, BinFlag, Queens, MazePrograms,
        FiniteSetTheorems, FunctionTheorems, SequenceTheorems,
        WellFoundedInduction, TLAPS

-----------------------------------------------------------------------------
(* The older file transfer.                                                *)

OldTypes ==
    /\ oldPc \in {"pass", "recv", "exit"}
    /\ oldAt \in OldFragments
    /\ oldAcked \subseteq OldFragments
    /\ oldData \subseteq OldFragments
    /\ oldAcks \subseteq OldFragments
    /\ oldReceived \subseteq 1 .. OldFiles
    /\ oldRecord \in [1 .. OldFiles -> SUBSET Nat]
    /\ \A f \in 1 .. OldFiles : oldRecord[f] \subseteq 0 .. OldFrags[f] - 1

\* The key of the fragment just sent is in ACKed when the answer is looked at,
\* so send_failed stays empty; an ACK on the way, and one that was credited,
\* is for a fragment in record_list; a file written has them all.
OldInv ==
    /\ OldTypes
    /\ oldPc = "recv" => oldAt \in oldKeys
    /\ OldFailedEmpty
    /\ \A p \in oldAcks : p[2] \in oldRecord[p[1]]
    /\ OldCreditSound
    /\ OldWrittenWhole

\* A fragment is a file with an offset in it.
LEMMA OldFragmentPairs ==
    /\ \A f \in 1 .. OldFiles : \A o \in 0 .. OldFrags[f] - 1 : <<f, o>> \in OldFragments
    /\ \A p \in OldFragments : /\ p[1] \in 1 .. OldFiles
                               /\ p[2] \in 0 .. OldFrags[p[1]] - 1
                               /\ p = <<p[1], p[2]>>
  BY DEF OldFragments

\* The client's loops stay within the files and their fragments.
LEMMA OldNextPlaces ==
    ASSUME NEW p \in OldFragments
    PROVE  OldFollowing(p) \in OldFragments /\ OldNextFile(p) \in OldFragments
  <1>1. /\ p[1] \in 1 .. OldFiles /\ p[2] \in 0 .. OldFrags[p[1]] - 1
    BY OldFragmentPairs
  <1>2. \A f \in 1 .. OldFiles : OldFrags[f] \in Nat \ {0}
    BY OldFragsAssumption
  <1>3. \A f \in 1 .. OldFiles : <<f, 0>> \in OldFragments
    <2> TAKE f \in 1 .. OldFiles
    <2>1. 0 \in 0 .. OldFrags[f] - 1
      BY <1>2
    <2> QED
      BY <2>1, OldFragmentPairs
  <1>4. 1 \in 1 .. OldFiles /\ (p[1] < OldFiles => p[1] + 1 \in 1 .. OldFiles)
    BY <1>1, OldFragsAssumption
  <1>5. p[2] + 1 < OldFrags[p[1]] => p[2] + 1 \in 0 .. OldFrags[p[1]] - 1
    BY <1>1, <1>2
  <1>6. p[2] + 1 < OldFrags[p[1]] => <<p[1], p[2] + 1>> \in OldFragments
    BY <1>1, <1>5, OldFragmentPairs
  <1> QED
    BY <1>3, <1>4, <1>6 DEF OldFollowing, OldNextFile

LEMMA OldInvInit == OldInit => OldInv
  <1> SUFFICES ASSUME OldInit PROVE OldInv
    OBVIOUS
  <1>1. <<1, 0>> \in OldFragments
    <2>1. 1 \in 1 .. OldFiles
      BY OldFragsAssumption
    <2>2. OldFrags[1] \in Nat \ {0}
      BY <2>1, OldFragsAssumption
    <2>3. 0 \in 0 .. OldFrags[1] - 1
      BY <2>2
    <2> QED
      BY <2>1, <2>3, OldFragmentPairs
  <1>2. OldTypes
    BY <1>1 DEF OldInit, OldTypes
  <1> QED
    BY <1>2 DEF OldInit, OldInv, OldFailedEmpty, OldCreditSound, OldWrittenWhole

\* A set of a file's offsets with as many elements as the file has fragments
\* has them all (the test of record_list's size in the server).
LEMMA OldCompleteWhole ==
    ASSUME NEW f \in 1 .. OldFiles, NEW record \in SUBSET (0 .. OldFrags[f] - 1),
           OldComplete(f, record)
    PROVE  record = 0 .. OldFrags[f] - 1
  <1>1. OldFrags[f] \in Nat \ {0}
    BY OldFragsAssumption
  <1> DEFINE last == OldFrags[f] - 1
  <1>2. last \in Int /\ last >= 0 /\ last - 0 + 1 = OldFrags[f] /\ last = OldFrags[f] - 1
    BY <1>1
  <1> HIDE DEF last
  <1>3. IsFiniteSet(0 .. last) /\ Cardinality(0 .. last) = OldFrags[f]
    <2> DEFINE first == 0
    <2>0. first \in Int /\ last \in Int
      BY <1>2
    <2> HIDE DEF first
    <2>1. /\ IsFiniteSet(first .. last)
          /\ Cardinality(first .. last) = IF first > last THEN 0 ELSE last - first + 1
      BY <2>0, FS_Interval, Zenon
    <2> USE DEF first
    <2>2. ~(0 > last)
      BY <1>2
    <2> QED
      BY <1>2, <2>1, <2>2
  <1>4. record \subseteq 0 .. last /\ Cardinality(record) = OldFrags[f]
    BY <1>2 DEF OldComplete
  <1> QED
    BY <1>2, <1>3, <1>4, FS_Subset

LEMMA OldRecordStep ==
    ASSUME OldInv, NEW p \in OldFragments, OldReceive(p),
           ~ UNCHANGED <<oldAcks, oldServerVars>>
    PROVE  OldInv'
  <1> DEFINE f == p[1]
             record == oldRecord[f] \cup {p[2]}
  <1>1. f \in 1 .. OldFiles /\ p[2] \in 0 .. OldFrags[f] - 1
    BY OldFragmentPairs
  <1>2. /\ oldData' = oldData \ {p} /\ oldAcks' = oldAcks \cup {p}
        /\ oldRecord' = [oldRecord EXCEPT ![f] = record]
        /\ \/ oldReceived' = oldReceived
           \/ OldComplete(f, record) /\ oldReceived' = oldReceived \cup {f}
        /\ UNCHANGED <<oldPc, oldAt, oldKeys, oldAcked, oldFailed>>
    BY DEF OldReceive, OldWrite
  <1>3. record \subseteq 0 .. OldFrags[f] - 1 /\ record \subseteq Nat
    <2>1. oldRecord[f] \subseteq 0 .. OldFrags[f] - 1
      BY <1>1 DEF OldInv, OldTypes
    <2>2. OldFrags[f] \in Nat
      BY <1>1, OldFragsAssumption
    <2> QED
      BY <1>1, <2>1, <2>2
  <1> HIDE DEF record
  <1>4. \A g \in 1 .. OldFiles : oldRecord'[g] = IF g = f THEN record ELSE oldRecord[g]
    BY <1>1, <1>2 DEF OldInv, OldTypes
  <1>5. \A g \in 1 .. OldFiles : oldRecord[g] \subseteq oldRecord'[g]
    BY <1>4 DEF record
  <1>6. p[2] \in oldRecord'[f]
    BY <1>1, <1>4 DEF record
  <1>7. OldTypes'
    <2>1. oldRecord' \in [1 .. OldFiles -> SUBSET Nat]
      BY <1>1, <1>2, <1>3 DEF OldInv, OldTypes
    <2>2. \A g \in 1 .. OldFiles : oldRecord'[g] \subseteq 0 .. OldFrags[g] - 1
      BY <1>3, <1>4 DEF OldInv, OldTypes
    <2> QED
      BY <1>1, <1>2, <2>1, <2>2 DEF OldInv, OldTypes
  <1>8. \A q \in OldFragments : q[2] \in oldRecord[q[1]] => q[2] \in oldRecord'[q[1]]
    BY <1>5, OldFragmentPairs
  <1>9. \A q \in oldAcks' : q[2] \in oldRecord'[q[1]]
    BY <1>2, <1>6, <1>8 DEF OldInv, OldTypes
  <1>10. OldCreditSound'
    BY <1>2, <1>8 DEF OldInv, OldTypes, OldCreditSound
  <1>11. OldWrittenWhole'
    <2> SUFFICES ASSUME NEW g \in oldReceived' PROVE oldRecord'[g] = 0 .. OldFrags[g] - 1
      BY DEF OldWrittenWhole
    <2>1. CASE g \in oldReceived
      <3>1. g \in 1 .. OldFiles /\ oldRecord[g] = 0 .. OldFrags[g] - 1
        BY <2>1 DEF OldInv, OldTypes, OldWrittenWhole
      <3> QED
        BY <1>5, <1>7, <3>1 DEF OldTypes
    <2>2. CASE g \notin oldReceived
      <3>1. g = f /\ OldComplete(f, record)
        BY <1>2, <2>2
      <3> QED
        BY <1>1, <1>3, <1>4, <3>1, OldCompleteWhole
    <2> QED
      BY <2>1, <2>2
  <1> QED
    BY <1>2, <1>7, <1>9, <1>10, <1>11 DEF OldInv, OldFailedEmpty

LEMMA OldReceiveStep ==
    ASSUME OldInv, NEW p \in OldFragments, OldReceive(p)
    PROVE  OldInv'
  <1>1. CASE UNCHANGED <<oldAcks, oldServerVars>>
    <2>1. /\ oldData' \subseteq oldData
          /\ UNCHANGED <<oldPc, oldAt, oldKeys, oldAcked, oldFailed, oldAcks, oldRecord,
                         oldReceived>>
      BY <1>1 DEF OldReceive, oldServerVars
    <2> QED
      BY <2>1 DEF OldInv, OldTypes, OldFailedEmpty, OldCreditSound, OldWrittenWhole
  <1> QED
    BY <1>1, OldRecordStep

LEMMA OldClientStep ==
    ASSUME OldInv, OldClient
    PROVE  OldInv'
  <1> USE DEF OldInv, OldTypes, OldFailedEmpty, OldCreditSound, OldWrittenWhole, oldServerVars
  <1>1. CASE OldSkip
    BY <1>1, OldNextPlaces DEF OldSkip, OldGoOn
  <1>2. CASE OldSend
    BY <1>2 DEF OldSend, OldLookedUp
  <1>3. CASE OldRecvAck
    <2>1. PICK ack \in oldAcks :
            /\ oldAcks' = oldAcks \ {ack}
            /\ IF OldCredits(ack)
               THEN /\ oldAcked' = oldAcked \cup {oldAt}
                    /\ OldGoOn(OldNextFile(oldAt)) /\ UNCHANGED oldFailed
               ELSE OldNotAcked
      BY <1>3 DEF OldRecvAck
    <2>2. oldPc = "recv" /\ UNCHANGED <<oldKeys, oldData, oldRecord, oldReceived>>
      BY <1>3 DEF OldRecvAck
    <2>3. CASE OldCredits(ack)
      BY <2>1, <2>2, <2>3, OldNextPlaces DEF OldCredits, OldGoOn
    <2>4. CASE ~OldCredits(ack)
      BY <2>1, <2>2, <2>4, OldNextPlaces DEF OldNotAcked, OldGoOn
    <2> QED
      BY <2>3, <2>4
  <1>4. CASE OldRecvOther
    BY <1>4, OldNextPlaces DEF OldRecvOther, OldNotAcked, OldGoOn
  <1>5. CASE OldRecvTerminate
    BY <1>5 DEF OldRecvTerminate
  <1> QED
    BY <1>1, <1>2, <1>3, <1>4, <1>5 DEF OldClient

\* The older transfer keeps its promises for any files and any loss, delay and
\* reordering: send_failed is never used, a credited fragment is recorded by
\* the server, and a file is written only when complete.
THEOREM OldSafeCorrect == OldSpec => []OldSafe
  <1>1. OldInv /\ [OldNext]_oldVars => OldInv'
    <2> SUFFICES ASSUME OldInv, [OldNext]_oldVars PROVE OldInv'
      OBVIOUS
    <2>1. CASE OldLose
      BY <2>1 DEF OldLose, oldServerVars, OldInv, OldTypes, OldFailedEmpty, OldCreditSound,
                  OldWrittenWhole
    <2>2. CASE UNCHANGED oldVars
      BY <2>2 DEF oldVars, oldServerVars, OldInv, OldTypes, OldFailedEmpty, OldCreditSound,
                  OldWrittenWhole
    <2> QED
      BY <2>1, <2>2, OldClientStep, OldReceiveStep DEF OldNext
  <1>2. OldInv => OldSafe
    BY DEF OldInv, OldSafe
  <1> QED
    BY OldInvInit, <1>1, <1>2, PTL DEF OldSpec

-----------------------------------------------------------------------------
(* The bandwidth probe.                                                    *)

\* What the server has sent on the connection.
ProbeSent ==
    IF probeEof \/ probeServer = "close" THEN ProbeAck + ProbeTotal
    ELSE IF probeServer = "bulk" THEN ProbeAck + ProbeBlock * probeBlocks
    ELSE 0

ProbeTypes ==
    /\ probeClient \in {"connect", "wake", "first", "loop", "done", "gone"}
    /\ probeServer \in {"accept", "recv", "ack", "bulk", "close", "killed"}
    /\ probeBlocks \in 0 .. ProbeBlocks
    /\ probeStream \in Nat /\ probeTook \in Nat /\ probe_byte_all \in Nat
    /\ probeEof \in BOOLEAN

\* Bytes are neither lost nor made up: a client that was not killed has read,
\* or has still to read, what the server has sent.  The acknowledgement and
\* the blocks are all that it ever sends.
ProbeInv ==
    /\ ProbeTypes
    /\ probeEof => probeServer = "accept"
    /\ probeServer \in {"accept", "recv", "ack"} => probeBlocks = 0
    /\ probeServer = "killed" => probeClient = "gone"
    /\ probeClient # "gone" => probeTook + probe_byte_all + probeStream = ProbeSent
    /\ probeClient \in {"connect", "wake", "first"} => probeTook = 0 /\ probe_byte_all = 0
    /\ probeClient = "done" => probe_byte_all >= ProbeTotal

\* The products that ProbeSent speaks about: one block more, never too many.
LEMMA ProbeProducts ==
    /\ ProbeTotal \in Nat
    /\ \A b \in 0 .. ProbeBlocks :
          /\ ProbeBlock * b \in Nat
          /\ ProbeBlock * b <= ProbeTotal
          /\ ProbeBlock * (b + 1) = ProbeBlock * b + ProbeBlock
  <1>1. ProbeBlock \in Nat /\ ProbeBlocks \in Nat
    BY ProbeAssumption
  <1>2. ProbeTotal \in Nat
    BY <1>1 DEF ProbeTotal
  <1> SUFFICES ASSUME NEW b \in 0 .. ProbeBlocks
               PROVE  /\ ProbeBlock * b \in Nat
                      /\ ProbeBlock * b <= ProbeTotal
                      /\ ProbeBlock * (b + 1) = ProbeBlock * b + ProbeBlock
    BY <1>2
  <1>3. b \in Nat /\ ProbeBlocks - b \in Nat
    BY <1>1
  <1>4. ProbeBlock * b \in Nat /\ ProbeBlock * (b + 1) = ProbeBlock * b + ProbeBlock
    BY <1>1, <1>3
  <1>5. ProbeBlock * ProbeBlocks = ProbeBlock * b + ProbeBlock * (ProbeBlocks - b)
    BY <1>1, <1>3
  <1>6. ProbeBlock * (ProbeBlocks - b) \in Nat
    BY <1>1, <1>3
  <1> QED
    BY <1>1, <1>4, <1>5, <1>6 DEF ProbeTotal

\* What is sent is at most the acknowledgement and all blocks.
LEMMA ProbeSentBound ==
    ASSUME ProbeInv
    PROVE  ProbeSent \in Nat /\ ProbeSent <= ProbeAck + ProbeTotal
  BY ProbeProducts, ProbeAssumption DEF ProbeInv, ProbeTypes, ProbeSent

LEMMA ProbeClientKeeps ==
    ASSUME ProbeInv, ProbeClientStep \/ ProbeKill \/ ProbeNextClient
    PROVE  ProbeInv'
  <1> USE DEF ProbeInv, ProbeTypes
  <1>0. ProbeTotal \in Nat
    BY ProbeProducts
  <1>1. CASE ProbeWake
    BY <1>1 DEF ProbeWake, ProbeSent
  <1>2. CASE ProbeFirstRecv
    <2>1. PICK n \in 1 .. probeStream : probeTook' = n /\ probeStream' = probeStream - n
      BY <1>2 DEF ProbeFirstRecv
    <2>2. /\ probeClient = "first" /\ probeClient' = "loop"
          /\ UNCHANGED <<probeServer, probeBlocks, probeEof, probe_byte_all, probeRun>>
      BY <1>2 DEF ProbeFirstRecv
    <2> QED
      BY <2>1, <2>2 DEF ProbeSent
  <1>3. CASE ProbeLoopRecv
    <2>1. PICK n \in 0 .. probeStream :
            /\ probe_byte_all' = probe_byte_all + n
            /\ probeStream' = probeStream - n
            /\ probeClient' = IF ProbeEnough(n) THEN "done" ELSE "loop"
      BY <1>3 DEF ProbeLoopRecv
    <2>2. /\ probeClient = "loop"
          /\ UNCHANGED <<probeServer, probeBlocks, probeEof, probeTook, probeRun>>
      BY <1>3 DEF ProbeLoopRecv
    <2>3. probe_byte_all' \in Nat /\ probeStream' \in Nat
      BY <2>1
    <2>4. probeTook' + probe_byte_all' + probeStream' = probeTook + probe_byte_all + probeStream
      BY <2>1, <2>2
    <2>5. probeClient' = "done" => probe_byte_all' >= ProbeTotal
      BY <2>1 DEF ProbeEnough
    <2> QED
      BY <2>1, <2>2, <2>3, <2>4, <2>5 DEF ProbeSent
  <1>4. CASE ProbeKill
    BY <1>4 DEF ProbeKill, ProbeSent
  <1>5. CASE ProbeNextClient
    <2>1. ProbeSent' = 0
      BY <1>5 DEF ProbeNextClient, ProbeSent
    <2>2. probeTook' + probe_byte_all' + probeStream' = 0
      BY <1>5 DEF ProbeNextClient
    <2> QED
      BY <1>5, <2>1, <2>2 DEF ProbeNextClient
  <1> QED
    BY <1>1, <1>2, <1>3, <1>4, <1>5 DEF ProbeClientStep

LEMMA ProbeServerKeeps ==
    ASSUME ProbeInv, ProbeServerStep
    PROVE  ProbeInv'
  <1> USE DEF ProbeInv, ProbeTypes
  <1>0. ProbeTotal \in Nat /\ ProbeAck \in Nat /\ ProbeBlock \in Nat /\ ProbeBlocks \in Nat \ {0}
    BY ProbeProducts, ProbeAssumption
  <1>1. CASE ProbeAccept
    BY <1>1 DEF ProbeAccept, ProbeSent
  <1>2. CASE ProbeSendAck
    <2>1. ProbeBlock * 0 = 0
      BY <1>0
    <2>2. probeClient # "gone" =>
            /\ probeServer' = "bulk" /\ probeBlocks' = 0
            /\ probeStream' = probeStream + ProbeAck
      BY <1>2 DEF ProbeSendAck, ProbeSendUnits
    <2>3. probeClient = "gone" => probeServer' \in {"bulk", "killed"} /\ UNCHANGED probeStream
      BY <1>2 DEF ProbeSendAck, ProbeSendUnits
    <2>4. /\ probeServer = "ack"
          /\ UNCHANGED <<probeClient, probeBlocks, probeEof, probeTook, probe_byte_all, probeRun>>
      BY <1>2 DEF ProbeSendAck
    <2> QED
      BY <1>0, <2>1, <2>2, <2>3, <2>4 DEF ProbeSent
  <1>3. CASE ProbeSendBlock
    <2> DEFINE next == IF probeBlocks + 1 = ProbeBlocks THEN "close" ELSE "bulk"
               old == ProbeBlock * probeBlocks
               new == ProbeBlock * (probeBlocks + 1)
    <2>1. /\ probeServer = "bulk" /\ probeBlocks < ProbeBlocks
          /\ probeBlocks' = probeBlocks + 1
          /\ UNCHANGED <<probeClient, probeEof, probeTook, probe_byte_all, probeRun>>
      BY <1>3 DEF ProbeSendBlock
    <2>2. probeClient # "gone" =>
            probeServer' = next /\ probeStream' = probeStream + ProbeBlock
      BY <1>3 DEF ProbeSendBlock, ProbeSendUnits
    <2>3. probeClient = "gone" => probeServer' \in {next, "killed"} /\ UNCHANGED probeStream
      BY <1>3 DEF ProbeSendBlock, ProbeSendUnits
    <2>4. old \in Nat /\ new = old + ProbeBlock
      BY ProbeProducts
    <2>5. probeBlocks + 1 = ProbeBlocks => ProbeTotal = new
      BY DEF ProbeTotal
    <2>6. ProbeSent = ProbeAck + old
      BY <2>1 DEF ProbeSent
    <2>7. probeClient # "gone" => ProbeSent' = ProbeAck + new
      <3>1. ProbeBlock * probeBlocks' = new
        BY <2>1
      <3> QED
        BY <2>1, <2>2, <2>5, <3>1 DEF ProbeSent
    <2> HIDE DEF old, new
    <2>8. probeBlocks' \in 0 .. ProbeBlocks /\ probeStream' \in Nat
      BY <1>0, <2>1, <2>2, <2>3
    <2>9. probeServer' \in {"bulk", "close", "killed"} /\ ~probeEof'
      BY <2>1, <2>2, <2>3
    <2>10. probeClient' # "gone" => probeTook' + probe_byte_all' + probeStream' = ProbeSent'
      BY <1>0, <2>1, <2>2, <2>4, <2>6, <2>7
    <2>11. probeServer' = "killed" => probeClient' = "gone"
      BY <2>1, <2>2, <2>3
    <2> QED
      BY <2>1, <2>8, <2>9, <2>10, <2>11
  <1>4. CASE ProbeClose
    BY <1>0, <1>4 DEF ProbeClose, ProbeSent
  <1> QED
    BY <1>1, <1>2, <1>3, <1>4 DEF ProbeServerStep

\* For any number and size of blocks and any buffers: a client ends by itself
\* only if its first recv took no more than the acknowledgement.
THEOREM ProbeJoinedCorrect == ProbeSpec => []ProbeJoinedNeverEnds
  <1>1. ProbeInit => ProbeInv
    <2> SUFFICES ASSUME ProbeInit PROVE ProbeInv
      OBVIOUS
    <2>1. 0 \in 0 .. ProbeBlocks
      BY ProbeAssumption
    <2>2. ProbeSent = 0 /\ probeEof \in BOOLEAN
      BY DEF ProbeInit, ProbeSent
    <2>3. probeTook + probe_byte_all + probeStream = 0
      BY DEF ProbeInit
    <2> QED
      BY <2>1, <2>2, <2>3 DEF ProbeInit, ProbeInv, ProbeTypes
  <1>2. ProbeInv /\ [ProbeNext]_probeVars => ProbeInv'
    <2>1. ProbeInv /\ UNCHANGED probeVars => ProbeInv'
      BY DEF probeVars, ProbeInv, ProbeTypes, ProbeSent
    <2> QED
      BY <2>1, ProbeClientKeeps, ProbeServerKeeps DEF ProbeNext
  <1>3. ProbeInv => ProbeJoinedNeverEnds
    <2> SUFFICES ASSUME ProbeInv, probeClient = "done" PROVE probeTook <= ProbeAck
      BY DEF ProbeJoinedNeverEnds
    <2>1. ProbeTotal \in Nat /\ ProbeAck \in Nat
      BY ProbeProducts, ProbeAssumption
    <2>2. /\ probeTook \in Nat /\ probe_byte_all \in Nat /\ probeStream \in Nat
          /\ probeTook + probe_byte_all + probeStream = ProbeSent
          /\ probe_byte_all >= ProbeTotal
      BY DEF ProbeInv, ProbeTypes
    <2> QED
      BY <2>1, <2>2, ProbeSentBound
  <1> QED
    BY <1>1, <1>2, <1>3, PTL DEF ProbeSpec

-----------------------------------------------------------------------------
(* The UDP flag client, 1.py: the phases.                                  *)

FlagTypes ==
    /\ flagPc \in {"hello", "chals", "drain", "verfy", "done"}
    /\ flagTries \in [FlagKinds -> Nat]
    /\ flagRequests \in [FlagKinds -> Nat]
    /\ flagReplies \in [FlagKinds -> Nat]
    /\ flagHandled \subseteq FlagKinds
    /\ flagCaptured \subseteq FlagNumbers
    /\ flagAnswer \in [FlagKinds -> FlagKinds \cup {"none"}]
    /\ flagLate \in BOOLEAN

\* Each "hello" has at most one datagram on its way, and leaving the first loop
\* has used one up; what answers "chals" comes after the service has seen it;
\* "verfy" is not sent before its loop.
FlagOnTheWay ==
    /\ flagRequests["hello"] + flagReplies["hello"] + (IF flagPc = "hello" THEN 0 ELSE 1)
          <= flagTries["hello"]
    /\ flagReplies["chals"] > 0 => "chals" \in flagHandled
    /\ flagRequests["verfy"] + flagReplies["verfy"] > 0 => flagPc \in {"verfy", "done"}

\* When the silence was not too short, nothing older is on its way.
FlagSilent ==
    flagPc \in {"verfy", "done"} /\ ~flagLate =>
        \A k \in {"hello", "chals"} : flagRequests[k] = 0 /\ flagReplies[k] = 0

FlagInv == FlagTypes /\ FlagOnTheWay /\ FlagSilent /\ FlagPhases

LEMMA FlagSendKeeps ==
    ASSUME FlagInv, NEW k \in FlagKinds, FlagSend(k)
    PROVE  FlagInv'
  <1>1. FlagTypes'
    BY DEF FlagInv, FlagTypes, FlagSend
  <1>2. FlagOnTheWay'
    BY DEF FlagInv, FlagTypes, FlagOnTheWay, FlagSend, FlagKinds
  <1>3. FlagSilent'
    BY DEF FlagInv, FlagTypes, FlagSilent, FlagSend, FlagKinds
  <1>4. FlagPhases'
    BY DEF FlagInv, FlagTypes, FlagPhases, FlagSend, FlagKinds
  <1> QED
    BY <1>1, <1>2, <1>3, <1>4 DEF FlagInv

LEMMA FlagNetworkKeeps ==
    ASSUME FlagInv, NEW k \in FlagKinds, FlagServe(k) \/ FlagLose(k)
    PROVE  FlagInv'
  <1>1. FlagTypes'
    BY DEF FlagInv, FlagTypes, FlagServe, FlagLose
  <1>2. FlagOnTheWay'
    <2>1. CASE FlagServe(k)
      BY <2>1 DEF FlagInv, FlagTypes, FlagOnTheWay, FlagServe, FlagKinds
    <2>2. CASE FlagLose(k)
      BY <2>2 DEF FlagInv, FlagTypes, FlagOnTheWay, FlagLose, FlagKinds
    <2> QED
      BY <2>1, <2>2
  <1>3. FlagSilent'
    BY DEF FlagInv, FlagTypes, FlagSilent, FlagServe, FlagLose, FlagKinds
  <1>4. FlagPhases'
    BY DEF FlagInv, FlagTypes, FlagPhases, FlagServe, FlagLose, FlagKinds
  <1> QED
    BY <1>1, <1>2, <1>3, <1>4 DEF FlagInv

LEMMA FlagRecvKeeps ==
    ASSUME FlagInv, NEW k \in FlagKinds, NEW a \in FlagKinds, FlagRecv(k, a)
    PROVE  FlagInv'
  <1>1. FlagTypes'
    BY DEF FlagInv, FlagTypes, FlagRecv, FlagKinds, FlagAfter
  <1>2. FlagOnTheWay'
    BY DEF FlagInv, FlagTypes, FlagOnTheWay, FlagRecv, FlagKinds, FlagAfter, FlagAccepts
  <1>3. FlagSilent'
    BY DEF FlagInv, FlagTypes, FlagSilent, FlagRecv, FlagKinds, FlagAfter, FlagAccepts
  <1>4. FlagPhases'
    BY DEF FlagInv, FlagTypes, FlagPhases, FlagOnTheWay, FlagSilent, FlagRecv, FlagKinds, FlagAfter,
           FlagAccepts
  <1> QED
    BY <1>1, <1>2, <1>3, <1>4 DEF FlagInv

LEMMA FlagDrainKeeps ==
    ASSUME FlagInv, FlagDrain
    PROVE  FlagInv'
  <1>1. /\ flagPc = "drain"
        /\ UNCHANGED <<flagTries, flagRequests, flagHandled, flagCaptured, flagAnswer>>
    BY DEF FlagDrain
  <1>2. CASE /\ \E a \in FlagKinds :
                   /\ flagReplies[a] > 0
                   /\ flagReplies' = [flagReplies EXCEPT ![a] = @ - 1]
             /\ UNCHANGED <<flagPc, flagLate>>
    <2>1. PICK a \in FlagKinds : flagReplies[a] > 0 /\ flagReplies' = [flagReplies EXCEPT ![a] = @ - 1]
      BY <1>2
    <2>2. FlagTypes'
      BY <1>1, <1>2, <2>1 DEF FlagInv, FlagTypes
    <2>3. FlagOnTheWay'
      BY <1>1, <1>2, <2>1 DEF FlagInv, FlagTypes, FlagOnTheWay, FlagKinds
    <2>4. FlagSilent' /\ FlagPhases'
      BY <1>1, <1>2 DEF FlagInv, FlagSilent, FlagPhases
    <2> QED
      BY <2>2, <2>3, <2>4 DEF FlagInv
  <1>3. CASE /\ flagPc' = "verfy" /\ UNCHANGED flagReplies
             /\ flagLate' = (\E a \in FlagKinds : flagReplies[a] + flagRequests[a] > 0)
    <2>1. flagLate' \in BOOLEAN
      BY <1>3
    <2>2. ~flagLate' => \A a \in FlagKinds : ~(flagReplies[a] + flagRequests[a] > 0)
      BY <1>3
    <2> HIDE <1>3
    <2>3. flagPc' = "verfy" /\ UNCHANGED flagReplies
      BY <1>3
    <2>4. FlagTypes'
      BY <1>1, <2>1, <2>3 DEF FlagInv, FlagTypes
    <2>5. FlagOnTheWay'
      BY <1>1, <2>3 DEF FlagInv, FlagTypes, FlagOnTheWay, FlagKinds
    <2>6. FlagSilent'
      BY <1>1, <2>2, <2>3 DEF FlagInv, FlagTypes, FlagSilent, FlagKinds
    <2>7. FlagPhases'
      BY <1>1, <2>3 DEF FlagInv, FlagPhases
    <2> QED
      BY <2>4, <2>5, <2>6, <2>7 DEF FlagInv
  <1> QED
    BY <1>2, <1>3 DEF FlagDrain

-----------------------------------------------------------------------------
(* parse_packet of 1.py: the places of the flag.                           *)

LEMMA FlagLeast ==
    ASSUME NEW S, S \subseteq Nat, S # {}
    PROVE  \E x \in S : \A y \in S : x <= y
  <1> DEFINE less == OpToRel(<, Nat)
  <1>1. IsWellFoundedOn(less, Nat)
    BY NatLessThanWellFounded
  <1> HIDE DEF less
  <1>2. PICK x \in S : \A y \in S : ~(<<y, x>> \in less)
    BY <1>1, WFMin
  <1> USE DEF less
  <1>3. \A y \in S : ~(y < x)
    BY <1>2 DEF OpToRel
  <1> QED
    BY <1>3

LEMMA FlagGreatest ==
    ASSUME NEW b \in Nat, NEW S, S \subseteq Nat, \A y \in S : y <= b, S # {}
    PROVE  \E x \in S : \A y \in S : y <= x
  <1> DEFINE T == {b - y : y \in S}
  <1>1. T \subseteq Nat
    OBVIOUS
  <1> PICK m \in S : TRUE
    OBVIOUS
  <1> b - m \in T
    OBVIOUS
  <1>2. PICK t \in T : \A u \in T : t <= u
    BY <1>1, FlagLeast
  <1>3. PICK x \in S : t = b - x
    OBVIOUS
  <1>4. \A y \in S : b - x <= b - y
    BY <1>2, <1>3
  <1> QED
    BY <1>4

\* A gap among the packets recorded, and the places it is reported to miss.
FlagGap(S, x, y) ==
    /\ x \in S /\ y \in S /\ y \in 2 .. (FlagLen + 1)
    /\ x + 1 < y /\ \A z \in S : z <= x \/ z >= y

LEMMA FlagMissingPlaces ==
    ASSUME NEW S, S \subseteq FlagNumbers, NEW place
    PROVE  place \in FlagMissing(S) <=>
               \E x, y \in S : FlagGap(S, x, y) /\ \E p \in x .. (y - 1) : place = p - 1
  <1> DEFINE gaps == {g \in S \X (S \cap 2 .. (FlagLen + 1)) :
                         g[1] + 1 < g[2] /\ \A z \in S : z <= g[1] \/ z >= g[2]}
  <1>1. FlagMissing(S) = UNION {{p - 1 : p \in g[1] .. (g[2] - 1)} : g \in gaps}
    BY DEF FlagMissing
  <1>2. ASSUME NEW x \in S, NEW y \in S, FlagGap(S, x, y)
        PROVE  <<x, y>> \in gaps
    BY <1>2 DEF FlagGap
  <1>3. ASSUME NEW g \in gaps
        PROVE  g[1] \in S /\ g[2] \in S /\ FlagGap(S, g[1], g[2])
    BY DEF FlagGap
  <1> HIDE DEF gaps
  <1>4. place \in FlagMissing(S) <=> \E g \in gaps : \E p \in g[1] .. (g[2] - 1) : place = p - 1
    BY <1>1
  <1>5. ASSUME NEW x \in S, NEW y \in S, FlagGap(S, x, y), NEW p \in x .. (y - 1), place = p - 1
        PROVE  place \in FlagMissing(S)
    <2> DEFINE g == <<x, y>>
    <2>1. g \in gaps /\ g[1] = x /\ g[2] = y
      BY <1>2, <1>5
    <2> QED
      BY <1>4, <1>5, <2>1
  <1> QED
    BY <1>3, <1>4, <1>5

LEMMA FlagFilledPlaces ==
    ASSUME NEW S, S \subseteq FlagNumbers, NEW place
    PROVE  place \in FlagFilled(S) <=>
               \E m \in S : m \in 2 .. (FlagLen + 1) /\ m - 1 \in S /\ place = m - 2
  BY DEF FlagFilled

\* For every set of recorded packets with BEGIN and END.
LEMMA FlagPlacesOnce ==
    ASSUME NEW S, S \subseteq FlagNumbers, 1 \in S, FlagLen + 2 \in S,
           NEW last \in S \ {FlagLen + 2}, \A m \in S \ {FlagLen + 2} : m <= last
    PROVE  /\ FlagFilled(S) \cap FlagMissing(S) = {}
           /\ FlagFilled(S) \cup FlagMissing(S) = 0 .. (last - 2)
  <1>1. FlagLen \in Nat /\ S \subseteq Nat /\ \A z \in S : z >= 1 /\ z <= FlagLen + 2
    BY FlagAssumption DEF FlagNumbers
  <1>2. last \in 1 .. FlagLen + 1
    BY <1>1
  <1>3. FlagFilled(S) \cap FlagMissing(S) = {}
    <2> SUFFICES ASSUME NEW place, place \in FlagFilled(S), place \in FlagMissing(S)
                 PROVE  FALSE
      OBVIOUS
    <2>1. PICK m \in S : m \in 2 .. (FlagLen + 1) /\ m - 1 \in S /\ place = m - 2
      BY FlagFilledPlaces
    <2>2. PICK x \in S, y \in S : FlagGap(S, x, y) /\ \E p \in x .. (y - 1) : place = p - 1
      BY FlagMissingPlaces
    <2>3. PICK p \in x .. (y - 1) : place = p - 1
      BY <2>2
    <2>4. m - 1 = p /\ x <= p /\ p < y
      BY <1>1, <2>1, <2>3
    <2>5. m - 1 <= x /\ (m <= x \/ m >= y)
      BY <1>1, <2>1, <2>2, <2>4 DEF FlagGap
    <2> QED
      BY <1>1, <2>2, <2>4, <2>5 DEF FlagGap
  <1>4. FlagFilled(S) \cup FlagMissing(S) \subseteq 0 .. (last - 2)
    <2>1. ASSUME NEW place, place \in FlagFilled(S)
          PROVE  place \in 0 .. (last - 2)
      <3>1. PICK m \in S : m \in 2 .. (FlagLen + 1) /\ m - 1 \in S /\ place = m - 2
        BY <2>1, FlagFilledPlaces
      <3>2. m <= last
        BY <1>1, <3>1
      <3> QED
        BY <1>1, <1>2, <3>1, <3>2
    <2>2. ASSUME NEW place, place \in FlagMissing(S)
          PROVE  place \in 0 .. (last - 2)
      <3>1. PICK x \in S, y \in S : FlagGap(S, x, y) /\ \E p \in x .. (y - 1) : place = p - 1
        BY <2>2, FlagMissingPlaces
      <3>2. y <= last /\ x >= 1
        BY <1>1, <3>1 DEF FlagGap
      <3> QED
        BY <1>1, <1>2, <3>1, <3>2
    <2> QED
      BY <2>1, <2>2
  <1>5. ASSUME NEW place \in 0 .. (last - 2)
        PROVE  place \in FlagFilled(S) \cup FlagMissing(S)
    <2> DEFINE n == place + 2
    <2>1. n \in Nat /\ n >= 2 /\ n <= last /\ n \in 2 .. (FlagLen + 1)
      BY <1>1, <1>2
    <2>2. CASE n \in S /\ n - 1 \in S
      BY <2>1, <2>2, FlagFilledPlaces
    <2>3. CASE ~(n \in S /\ n - 1 \in S)
      <3> DEFINE below == {z \in S : z < n}
                 above == {z \in S : z >= n}
      <3>1. below \subseteq Nat /\ below # {} /\ \A z \in below : z <= n
        <4>1. 1 \in below
          BY <2>1
        <4>2. \A z \in below : z \in Nat /\ z < n
          BY <1>1
        <4> HIDE DEF below, n
        <4> QED
          BY <2>1, <4>1, <4>2
      <3>2. PICK x \in below : \A z \in below : z <= x
        BY <3>1, <2>1, FlagGreatest
      <3>3. above \subseteq Nat /\ above # {}
        BY <1>1, <2>1
      <3>4. PICK y \in above : \A z \in above : y <= z
        BY <3>3, FlagLeast
      <3>5. x < n /\ n <= y /\ y <= last /\ \A z \in S : z <= x \/ z >= y
        BY <1>1, <2>1, <3>2, <3>4
      <3>6. x + 1 < y
        BY <1>1, <2>1, <2>3, <3>2, <3>4, <3>5
      <3>7. FlagGap(S, x, y)
        BY <1>1, <1>2, <2>1, <3>5, <3>6 DEF FlagGap
      <3>8. n - 1 \in x .. (y - 1) /\ place = (n - 1) - 1
        BY <1>1, <2>1, <3>5
      <3> QED
        BY <3>7, <3>8, FlagMissingPlaces
    <2> QED
      BY <2>2, <2>3
  <1> QED
    BY <1>3, <1>4, <1>5

LEMMA FlagPlacesRight == FlagTypes => FlagPlaces
  <1> SUFFICES ASSUME FlagTypes, {1, FlagLen + 2} \subseteq flagCaptured
               PROVE  LET last == CHOOSE n \in flagCaptured \ {FlagLen + 2} :
                                     \A m \in flagCaptured \ {FlagLen + 2} : m <= n
                      IN  /\ FlagFilled(flagCaptured) \cap FlagMissing(flagCaptured) = {}
                          /\ FlagFilled(flagCaptured) \cup FlagMissing(flagCaptured) = 0 .. (last - 2)
    BY DEF FlagPlaces
  <1> DEFINE others == flagCaptured \ {FlagLen + 2}
             last == CHOOSE n \in others : \A m \in others : m <= n
  <1>1. flagCaptured \subseteq FlagNumbers /\ 1 \in flagCaptured /\ FlagLen + 2 \in flagCaptured
    BY DEF FlagTypes
  <1>2. /\ FlagLen + 2 \in Nat /\ others \subseteq Nat /\ others # {}
        /\ \A y \in others : y <= FlagLen + 2
    <2> 1 \in others
      BY <1>1, FlagAssumption
    <2> QED
      BY <1>1, FlagAssumption DEF FlagNumbers
  <1>3. \E n \in others : \A m \in others : m <= n
    <2> HIDE DEF others
    <2> QED
      BY <1>2, FlagGreatest
  <1>4. last \in others /\ \A m \in others : m <= last
    BY <1>3
  <1> HIDE DEF last
  <1>5. /\ FlagFilled(flagCaptured) \cap FlagMissing(flagCaptured) = {}
        /\ FlagFilled(flagCaptured) \cup FlagMissing(flagCaptured) = 0 .. (last - 2)
    BY <1>1, <1>4, FlagPlacesOnce
  <1> QED
    BY <1>5 DEF last

\* For any flag and any loss, delay and reordering of datagrams: left-overs of
\* one phase of 1.py are taken for an answer in another one only in the cases
\* named, and every place of the flag up to the last packet recorded is filled
\* or reported missing, never both.
THEOREM FlagSafeCorrect == FlagSpec => []FlagSafe
  <1>1. FlagInit => FlagInv
    <2> SUFFICES ASSUME FlagInit PROVE FlagInv
      OBVIOUS
    <2>1. FlagTypes
      BY DEF FlagInit, FlagTypes
    <2>2. FlagOnTheWay /\ FlagSilent /\ FlagPhases
      BY DEF FlagInit, FlagOnTheWay, FlagSilent, FlagPhases, FlagKinds
    <2> QED
      BY <2>1, <2>2 DEF FlagInv
  <1>2. FlagInv /\ [FlagNext]_flagVars => FlagInv'
    <2> SUFFICES ASSUME FlagInv, [FlagNext]_flagVars
                 PROVE  FlagInv'
      OBVIOUS
    <2>1. CASE UNCHANGED flagVars
      BY <2>1 DEF flagVars, FlagInv, FlagTypes, FlagOnTheWay, FlagSilent, FlagPhases
    <2> QED
      BY <2>1, FlagSendKeeps, FlagNetworkKeeps, FlagRecvKeeps, FlagDrainKeeps DEF FlagNext
  <1>3. FlagInv => FlagSafe
    BY FlagPlacesRight DEF FlagInv, FlagSafe
  <1> QED
    BY <1>1, <1>2, <1>3, PTL DEF FlagSpec

-----------------------------------------------------------------------------
(* The TUN VPN, tunvpn.cpp.  What is on its way from a sender is in line:  *)
(* the device first, then the connection to the server, then the one to    *)
(* the receiver.                                                           *)

TunPacket == [id : Nat, src : TunNodes, dst : {TunAddr(h) : h \in TunNodes}, size : Nat \ {0}]
TunUnit == [pkt : TunPacket, pos : Nat]

TunIn(s) == {s[i] : i \in 1 .. Len(s)}

\* Unit u was handed to the network before unit v.
TunBefore(u, v) ==
    u.pkt.id < v.pkt.id \/ (u.pkt.id = v.pkt.id /\ u.pos < v.pos)

TunSorted(s) ==
    \A i, j \in 1 .. Len(s) : i < j /\ s[i].pkt.src = s[j].pkt.src => TunBefore(s[i], s[j])

TunFirst(p) == [pkt |-> p, pos |-> 1]

\* Unit u is ahead of what its sender has in its TUN device, and in its
\* connection to the server, and of what comes from that sender to node h.
TunAheadOut(u) == \A q \in TunIn(tunOut[u.pkt.src]) : u.pkt.id < q.id
TunAheadUp(u) == \A c \in TunClients : u.pkt.src = c => \A v \in TunIn(tunUp[c]) : TunBefore(u, v)
TunAheadDown(u, h) ==
    h \in TunClients => \A v \in TunIn(tunDown[h]) : v.pkt.src = u.pkt.src => TunBefore(u, v)

TunTypes ==
    /\ tunOut \in [TunNodes -> Seq(TunPacket)]
    /\ tunUp \in [TunClients -> Seq(TunUnit)]
    /\ tunDown \in [TunClients -> Seq(TunUnit)]
    /\ tunInbox \in [TunNodes -> Seq(TunPacket)]
    /\ tunPeer \in [TunClients -> {"up", "gone", "broken"}]
    /\ tunSent \in Nat

TunOutLine ==
    \A h \in TunNodes :
        /\ \A q \in TunIn(tunOut[h]) : q.src = h /\ q.id <= tunSent
        /\ \A i, j \in 1 .. Len(tunOut[h]) : i < j => tunOut[h][i].id < tunOut[h][j].id

TunUpLine ==
    \A c \in TunClients :
        /\ TunSorted(tunUp[c])
        /\ \A u \in TunIn(tunUp[c]) : u.pkt.src = c /\ u.pkt.id <= tunSent /\ TunAheadOut(u)

TunDownLine ==
    \A c \in TunClients :
        /\ TunSorted(tunDown[c])
        /\ \A u \in TunIn(tunDown[c]) : u.pkt.id <= tunSent /\ TunAheadOut(u) /\ TunAheadUp(u)

\* A packet that a kernel has got back counts as its first unit: the rest of
\* the stream may still hold what a read has cut off.
TunInboxLine ==
    \A h \in TunNodes : \A p \in TunIn(tunInbox[h]) :
        /\ p.id <= tunSent
        /\ TunAheadOut(TunFirst(p)) /\ TunAheadUp(TunFirst(p)) /\ TunAheadDown(TunFirst(p), h)

TunInv == TunTypes /\ TunOutLine /\ TunUpLine /\ TunDownLine /\ TunInboxLine /\ TunInOrder

-----------------------------------------------------------------------------
\* A read cuts a stream in two.
LEMMA TunCut ==
    ASSUME NEW s \in Seq(TunUnit), TunSorted(s), NEW n \in 1 .. Len(s)
    PROVE  LET buf == SubSeq(s, 1, n)
               rest == TunRest(s, n)
           IN  /\ buf \in Seq(TunUnit) /\ rest \in Seq(TunUnit)
               /\ TunSorted(buf) /\ TunSorted(rest)
               /\ TunIn(buf) \subseteq TunIn(s) /\ TunIn(rest) \subseteq TunIn(s)
               /\ buf[1] \in TunIn(buf)
               /\ \A x \in TunIn(buf), y \in TunIn(rest) :
                     x.pkt.src = y.pkt.src => TunBefore(x, y)
  <1> DEFINE buf == SubSeq(s, 1, n)
             rest == TunRest(s, n)
  <1>1. Len(s) \in Nat /\ n \in Nat /\ 1 <= n /\ n <= Len(s)
    OBVIOUS
  <1>2. buf \in Seq(TunUnit) /\ Len(buf) = n /\ \A k \in 1 .. n : buf[k] = s[k]
    BY <1>1
  <1>3. rest \in Seq(TunUnit) /\ Len(rest) = Len(s) - n /\ \A k \in 1 .. Len(s) - n : rest[k] = s[n + k]
    BY <1>1 DEF TunRest
  <1> HIDE DEF buf, rest
  <1>4. TunSorted(buf)
    BY <1>1, <1>2 DEF TunSorted
  <1>5. TunSorted(rest)
    <2> SUFFICES ASSUME NEW i \in 1 .. Len(rest), NEW j \in 1 .. Len(rest), i < j,
                        rest[i].pkt.src = rest[j].pkt.src
                 PROVE  TunBefore(rest[i], rest[j])
      BY DEF TunSorted
    <2>1. n + i \in 1 .. Len(s) /\ n + j \in 1 .. Len(s) /\ n + i < n + j
      BY <1>1, <1>3
    <2>2. rest[i] = s[n + i] /\ rest[j] = s[n + j]
      BY <1>3
    <2> QED
      BY <2>1, <2>2 DEF TunSorted
  <1>6. TunIn(buf) \subseteq TunIn(s)
    BY <1>1, <1>2 DEF TunIn
  <1>7. TunIn(rest) \subseteq TunIn(s)
    <2> SUFFICES ASSUME NEW i \in 1 .. Len(rest)
                 PROVE  rest[i] \in TunIn(s)
      BY DEF TunIn
    <2>1. n + i \in 1 .. Len(s) /\ rest[i] = s[n + i]
      BY <1>1, <1>3
    <2> QED
      BY <2>1 DEF TunIn
  <1>8. buf[1] \in TunIn(buf)
    BY <1>1, <1>2 DEF TunIn
  <1>9. ASSUME NEW x \in TunIn(buf), NEW y \in TunIn(rest), x.pkt.src = y.pkt.src
        PROVE  TunBefore(x, y)
    <2>1. PICK i \in 1 .. Len(buf) : x = buf[i]
      BY DEF TunIn
    <2>2. PICK j \in 1 .. Len(rest) : y = rest[j]
      BY DEF TunIn
    <2>3. i \in 1 .. Len(s) /\ n + j \in 1 .. Len(s) /\ i < n + j /\ x = s[i] /\ y = s[n + j]
      BY <1>1, <1>2, <1>3, <2>1, <2>2
    <2> QED
      BY <1>9, <2>3 DEF TunSorted
  <1> QED
    BY <1>2, <1>3, <1>4, <1>5, <1>6, <1>7, <1>8, <1>9 DEF buf, rest

\* A write appends units to a stream.
LEMMA TunJoin ==
    ASSUME NEW s \in Seq(TunUnit), NEW t \in Seq(TunUnit), TunSorted(s), TunSorted(t),
           \A x \in TunIn(s), y \in TunIn(t) : x.pkt.src = y.pkt.src => TunBefore(x, y)
    PROVE  /\ s \o t \in Seq(TunUnit) /\ TunSorted(s \o t)
           /\ \A x \in TunIn(s \o t) : x \in TunIn(s) \/ x \in TunIn(t)
  <1> DEFINE st == s \o t
  <1>1. Len(s) \in Nat /\ Len(t) \in Nat
    OBVIOUS
  <1>2. /\ st \in Seq(TunUnit) /\ Len(st) = Len(s) + Len(t)
        /\ \A k \in 1 .. Len(st) : st[k] = IF k <= Len(s) THEN s[k] ELSE t[k - Len(s)]
    BY <1>1
  <1> HIDE DEF st
  <1>3. ASSUME NEW k \in 1 .. Len(st)
        PROVE  \/ k \in 1 .. Len(s) /\ st[k] = s[k] /\ s[k] \in TunIn(s)
               \/ k > Len(s) /\ k - Len(s) \in 1 .. Len(t) /\ st[k] = t[k - Len(s)]
                  /\ t[k - Len(s)] \in TunIn(t)
    BY <1>1, <1>2 DEF TunIn
  <1>4. TunSorted(st)
    <2> SUFFICES ASSUME NEW i \in 1 .. Len(st), NEW j \in 1 .. Len(st), i < j,
                        st[i].pkt.src = st[j].pkt.src
                 PROVE  TunBefore(st[i], st[j])
      BY DEF TunSorted
    <2>1. CASE j \in 1 .. Len(s)
      BY <1>1, <1>2, <2>1 DEF TunSorted
    <2>2. CASE i \in 1 .. Len(s) /\ j > Len(s)
      BY <1>1, <1>3, <2>2
    <2>3. CASE i > Len(s) /\ j > Len(s)
      <3>1. /\ i - Len(s) \in 1 .. Len(t) /\ j - Len(s) \in 1 .. Len(t) /\ i - Len(s) < j - Len(s)
            /\ st[i] = t[i - Len(s)] /\ st[j] = t[j - Len(s)]
        BY <1>1, <1>2, <2>3
      <3> QED
        BY <3>1 DEF TunSorted
    <2> QED
      BY <1>1, <1>2, <2>1, <2>2, <2>3
  <1>5. ASSUME NEW x \in TunIn(st)
        PROVE  x \in TunIn(s) \/ x \in TunIn(t)
    <2>1. PICK k \in 1 .. Len(st) : x = st[k]
      BY DEF TunIn
    <2> QED
      BY <1>3, <2>1
  <1> QED
    BY <1>2, <1>4, <1>5 DEF st

\* The units of a packet.
LEMMA TunBytesSorted ==
    ASSUME NEW p \in TunPacket
    PROVE  /\ TunBytes(p) \in Seq(TunUnit) /\ TunSorted(TunBytes(p))
           /\ \A u \in TunIn(TunBytes(p)) : u.pkt = p
           /\ Len(TunBytes(p)) = p.size /\ TunBytes(p)[1] = TunFirst(p)
  <1>1. p.size \in Nat /\ p.size >= 1
    BY DEF TunPacket
  <1> DEFINE b == TunBytes(p)
  <1>2. \A k \in 1 .. p.size : b[k] = [pkt |-> p, pos |-> k] /\ b[k] \in TunUnit
    BY <1>1 DEF TunBytes, TunUnit
  <1>3. b \in Seq(TunUnit) /\ Len(b) = p.size
    <2>1. b \in [1 .. p.size -> TunUnit]
      BY <1>2 DEF TunBytes
    <2> HIDE DEF b
    <2> QED
      BY <1>1, <2>1
  <1> HIDE DEF b
  <1>4. TunSorted(b)
    BY <1>1, <1>2, <1>3 DEF TunSorted, TunBefore, TunPacket
  <1>5. ASSUME NEW u \in TunIn(b)
        PROVE  u.pkt = p
    <2>1. PICK k \in 1 .. p.size : u = b[k]
      BY <1>3 DEF TunIn
    <2>2. u = [pkt |-> p, pos |-> k]
      BY <1>2, <2>1
    <2> QED
      BY <2>2
  <1>6. b[1] = TunFirst(p)
    BY <1>1, <1>2 DEF TunFirst
  <1> QED
    BY <1>3, <1>4, <1>5, <1>6 DEF b

\* A packet the kernel finds at the start of a buffer starts there.
LEMMA TunPrefix ==
    ASSUME NEW buf \in Seq(TunUnit), NEW p \in TunPacket, IsPrefix(TunBytes(p), buf)
    PROVE  buf[1] = TunFirst(p)
  <1> DEFINE b == TunBytes(p)
  <1>1. /\ b \in Seq(TunUnit) /\ Len(b) \in Nat /\ 1 <= Len(b) /\ b[1] = TunFirst(p)
        /\ Len(buf) \in Nat
    BY TunBytesSorted DEF TunPacket
  <1>2. Len(b) <= Len(buf) /\ SubSeq(b, 1, Len(b)) = SubSeq(buf, 1, Len(b))
    BY DEF IsPrefix
  <1> HIDE DEF b
  <1>3. SubSeq(b, 1, Len(b))[1] = b[1] /\ SubSeq(buf, 1, Len(b))[1] = buf[1]
    BY <1>1, <1>2
  <1> QED
    BY <1>1, <1>2, <1>3

\* Taking the first packet out of a device, and putting one in.
LEMMA TunPackets ==
    ASSUME NEW s \in Seq(TunPacket)
    PROVE  /\ s # <<>> => /\ Tail(s) \in Seq(TunPacket) /\ Head(s) = s[1] /\ s[1] \in TunIn(s)
                          /\ Len(Tail(s)) = Len(s) - 1 /\ Len(s) >= 1
                          /\ \A k \in 1 .. Len(s) - 1 : Tail(s)[k] = s[k + 1]
                          /\ TunIn(Tail(s)) \subseteq TunIn(s)
           /\ \A p \in TunPacket :
                 /\ Append(s, p) \in Seq(TunPacket) /\ Len(Append(s, p)) = Len(s) + 1
                 /\ \A k \in 1 .. Len(s) : Append(s, p)[k] = s[k]
                 /\ Append(s, p)[Len(s) + 1] = p
                 /\ \A q \in TunIn(Append(s, p)) : q \in TunIn(s) \/ q = p
  <1>1. Len(s) \in Nat
    OBVIOUS
  <1>2. ASSUME s # <<>>
        PROVE  /\ Tail(s) \in Seq(TunPacket) /\ Head(s) = s[1] /\ s[1] \in TunIn(s)
               /\ Len(Tail(s)) = Len(s) - 1 /\ Len(s) >= 1
               /\ \A k \in 1 .. Len(s) - 1 : Tail(s)[k] = s[k + 1]
               /\ TunIn(Tail(s)) \subseteq TunIn(s)
    <2>1. /\ Tail(s) \in Seq(TunPacket) /\ Head(s) = s[1] /\ Len(s) >= 1
          /\ Len(Tail(s)) = Len(s) - 1 /\ \A k \in 1 .. Len(s) - 1 : Tail(s)[k] = s[k + 1]
      BY <1>1, <1>2
    <2>2. ASSUME NEW k \in 1 .. Len(s) - 1
          PROVE  Tail(s)[k] \in TunIn(s)
      <3>1. k + 1 \in 1 .. Len(s) /\ Tail(s)[k] = s[k + 1]
        BY <1>1, <2>1
      <3> QED
        BY <3>1 DEF TunIn
    <2>3. TunIn(Tail(s)) \subseteq TunIn(s)
      BY <2>1, <2>2 DEF TunIn
    <2> QED
      BY <1>1, <2>1, <2>3 DEF TunIn
  <1>3. ASSUME NEW p \in TunPacket
        PROVE  /\ Append(s, p) \in Seq(TunPacket) /\ Len(Append(s, p)) = Len(s) + 1
               /\ \A k \in 1 .. Len(s) : Append(s, p)[k] = s[k]
               /\ Append(s, p)[Len(s) + 1] = p
               /\ \A q \in TunIn(Append(s, p)) : q \in TunIn(s) \/ q = p
    <2>1. /\ Append(s, p) \in Seq(TunPacket) /\ Len(Append(s, p)) = Len(s) + 1
          /\ \A k \in 1 .. Len(s) : Append(s, p)[k] = s[k]
          /\ Append(s, p)[Len(s) + 1] = p
      BY <1>1
    <2> QED
      BY <1>1, <2>1 DEF TunIn
  <1> QED
    BY <1>2, <1>3

-----------------------------------------------------------------------------
(* The steps of tunvpn.cpp.                                                *)

\* What is on its way, one by one.
LEMMA TunMembers ==
    ASSUME TunInv
    PROVE  /\ \A h \in TunNodes : \A q \in TunIn(tunOut[h]) : q \in TunPacket /\ q.src = h /\ q.id <= tunSent
           /\ \A c \in TunClients : \A u \in TunIn(tunUp[c]) :
                 u \in TunUnit /\ u.pkt.src = c /\ u.pkt.id <= tunSent /\ TunAheadOut(u)
           /\ \A c \in TunClients : \A u \in TunIn(tunDown[c]) :
                 u \in TunUnit /\ u.pkt.id <= tunSent /\ TunAheadOut(u) /\ TunAheadUp(u)
           /\ \A h \in TunNodes : \A p \in TunIn(tunInbox[h]) :
                 /\ p \in TunPacket /\ p.id <= tunSent /\ TunFirst(p) \in TunUnit /\ TunFirst(p).pkt = p
                 /\ TunAheadOut(TunFirst(p)) /\ TunAheadUp(TunFirst(p)) /\ TunAheadDown(TunFirst(p), h)
  <1>1. /\ \A h \in TunNodes : \A q \in TunIn(tunOut[h]) : q \in TunPacket
        /\ \A c \in TunClients : \A u \in TunIn(tunUp[c]) : u \in TunUnit
        /\ \A c \in TunClients : \A u \in TunIn(tunDown[c]) : u \in TunUnit
        /\ \A h \in TunNodes : \A p \in TunIn(tunInbox[h]) : p \in TunPacket
    BY DEF TunInv, TunTypes, TunIn
  <1>2. \A p \in TunPacket : TunFirst(p) \in TunUnit /\ TunFirst(p).pkt = p
    BY DEF TunFirst, TunUnit
  <1> QED
    BY <1>1, <1>2 DEF TunInv, TunOutLine, TunUpLine, TunDownLine, TunInboxLine

\* What is ahead of something stays ahead of less.
LEMMA TunLess ==
    ASSUME NEW u \in TunUnit
    PROVE  /\ (\A h \in TunNodes : TunIn(tunOut'[h]) \subseteq TunIn(tunOut[h])) /\ TunAheadOut(u)
                 => TunAheadOut(u)'
           /\ (\A c \in TunClients : TunIn(tunUp'[c]) \subseteq TunIn(tunUp[c])) /\ TunAheadUp(u)
                 => TunAheadUp(u)'
           /\ \A h : (\A c \in TunClients : TunIn(tunDown'[c]) \subseteq TunIn(tunDown[c])) /\ TunAheadDown(u, h)
                 => TunAheadDown(u, h)'
  <1>1. u.pkt.src \in TunNodes
    BY DEF TunUnit, TunPacket
  <1>2. (\A h \in TunNodes : TunIn(tunOut'[h]) \subseteq TunIn(tunOut[h])) /\ TunAheadOut(u) => TunAheadOut(u)'
    BY <1>1 DEF TunAheadOut
  <1>3. (\A c \in TunClients : TunIn(tunUp'[c]) \subseteq TunIn(tunUp[c])) /\ TunAheadUp(u) => TunAheadUp(u)'
    BY DEF TunAheadUp
  <1>4. \A h : (\A c \in TunClients : TunIn(tunDown'[c]) \subseteq TunIn(tunDown[c])) /\ TunAheadDown(u, h)
                 => TunAheadDown(u, h)'
    BY DEF TunAheadDown
  <1> QED
    BY <1>2, <1>3, <1>4

\* The first packet leaves a TUN device.
LEMMA TunTake ==
    ASSUME TunInv, NEW h \in TunNodes, tunOut[h] # <<>>,
           tunOut' = [tunOut EXCEPT ![h] = Tail(@)], UNCHANGED tunSent
    PROVE  LET p == Head(tunOut[h])
           IN  /\ p \in TunPacket /\ p \in TunIn(tunOut[h]) /\ p.src = h /\ p.id <= tunSent
               /\ tunOut' \in [TunNodes -> Seq(TunPacket)] /\ TunOutLine'
               /\ \A k \in TunNodes : TunIn(tunOut'[k]) \subseteq TunIn(tunOut[k])
               /\ \A q \in TunIn(tunOut'[h]) : p.id < q.id
  <1> DEFINE s == tunOut[h]
  <1>1. s \in Seq(TunPacket) /\ Len(s) \in Nat
    BY DEF TunInv, TunTypes
  <1>2. /\ Tail(s) \in Seq(TunPacket) /\ Head(s) = s[1] /\ s[1] \in TunIn(s)
        /\ Len(Tail(s)) = Len(s) - 1 /\ Len(s) >= 1
        /\ \A k \in 1 .. Len(s) - 1 : Tail(s)[k] = s[k + 1]
        /\ TunIn(Tail(s)) \subseteq TunIn(s)
    BY <1>1, TunPackets
  <1>3. \A k \in TunNodes : tunOut'[k] = IF k = h THEN Tail(s) ELSE tunOut[k]
    BY DEF TunInv, TunTypes
  <1>4. tunOut' \in [TunNodes -> Seq(TunPacket)]
    BY <1>2 DEF TunInv, TunTypes
  <1>5. \A i, j \in 1 .. Len(s) : i < j => s[i].id < s[j].id
    BY DEF TunInv, TunOutLine
  <1>6. \A k \in TunNodes : TunIn(tunOut'[k]) \subseteq TunIn(tunOut[k])
    BY <1>2, <1>3
  <1>7. Head(s) \in TunPacket /\ Head(s).src = h /\ Head(s).id <= tunSent
    BY <1>2, TunMembers
  <1> HIDE DEF s
  <1>8. ASSUME NEW q \in TunIn(Tail(s))
        PROVE  Head(s).id < q.id
    <2>1. PICK k \in 1 .. Len(s) - 1 : q = Tail(s)[k]
      BY <1>2 DEF TunIn
    <2>2. k + 1 \in 1 .. Len(s) /\ 1 \in 1 .. Len(s) /\ 1 < k + 1 /\ q = s[k + 1]
      BY <1>1, <1>2, <2>1
    <2> QED
      BY <1>2, <1>5, <2>2
  <1>9. \A i, j \in 1 .. Len(s) - 1 : i < j => Tail(s)[i].id < Tail(s)[j].id
    <2> TAKE i \in 1 .. Len(s) - 1, j \in 1 .. Len(s) - 1
    <2> HAVE i < j
    <2>1. i + 1 \in 1 .. Len(s) /\ j + 1 \in 1 .. Len(s) /\ i + 1 < j + 1
      BY <1>1
    <2>2. Tail(s)[i] = s[i + 1] /\ Tail(s)[j] = s[j + 1]
      BY <1>2
    <2> QED
      BY <1>5, <2>1, <2>2
  <1>10. TunOutLine'
    <2> SUFFICES ASSUME NEW k \in TunNodes
                 PROVE  /\ \A q \in TunIn(tunOut'[k]) : q.src = k /\ q.id <= tunSent
                        /\ \A i, j \in 1 .. Len(tunOut'[k]) : i < j => tunOut'[k][i].id < tunOut'[k][j].id
      BY DEF TunOutLine
    <2>1. \A q \in TunIn(tunOut'[k]) : q.src = k /\ q.id <= tunSent
      BY <1>6, TunMembers
    <2>2. CASE k = h
      <3>1. tunOut'[k] = Tail(s) /\ Len(tunOut'[k]) = Len(s) - 1
        BY <1>2, <1>3, <2>2
      <3> QED
        BY <1>9, <2>1, <3>1
    <2>3. CASE k # h
      BY <1>3, <2>1, <2>3 DEF TunInv, TunOutLine
    <2> QED
      BY <2>2, <2>3
  <1> QED
    BY <1>2, <1>3, <1>4, <1>6, <1>7, <1>8, <1>10 DEF s

\* write() to the connection of client k, of units that come after those on it.
LEMMA TunWriteKeeps ==
    ASSUME TunInv, NEW k \in TunClients, NEW t \in Seq(TunUnit), TunSorted(t), TunWrite(k, t),
           \A x \in TunIn(tunDown[k]), y \in TunIn(t) : x.pkt.src = y.pkt.src => TunBefore(x, y)
    PROVE  /\ tunDown' \in [TunClients -> Seq(TunUnit)]
           /\ tunPeer' \in [TunClients -> {"up", "gone", "broken"}]
           /\ \A c \in TunClients : TunSorted(tunDown'[c])
           /\ \A c \in TunClients : \A u \in TunIn(tunDown'[c]) :
                 u \in TunIn(tunDown[c]) \/ (c = k /\ u \in TunIn(t))
  <1>1. /\ tunDown \in [TunClients -> Seq(TunUnit)]
        /\ tunPeer \in [TunClients -> {"up", "gone", "broken"}]
        /\ \A c \in TunClients : TunSorted(tunDown[c])
    BY DEF TunInv, TunTypes, TunDownLine
  <1>2. CASE tunPeer[k] = "up"
    <2>1. tunDown' = [tunDown EXCEPT ![k] = @ \o t] /\ UNCHANGED tunPeer
      BY <1>2 DEF TunWrite
    <2>2. /\ tunDown[k] \o t \in Seq(TunUnit) /\ TunSorted(tunDown[k] \o t)
          /\ \A x \in TunIn(tunDown[k] \o t) : x \in TunIn(tunDown[k]) \/ x \in TunIn(t)
      BY <1>1, TunJoin
    <2>3. \A c \in TunClients : tunDown'[c] = IF c = k THEN tunDown[k] \o t ELSE tunDown[c]
      BY <1>1, <2>1
    <2>4. tunDown' \in [TunClients -> Seq(TunUnit)]
      BY <1>1, <2>1, <2>2
    <2> QED
      BY <1>1, <2>1, <2>2, <2>3, <2>4
  <1>3. CASE tunPeer[k] = "gone"
    <2>1. tunPeer' = [tunPeer EXCEPT ![k] = "broken"] /\ UNCHANGED tunDown
      BY <1>3 DEF TunWrite
    <2> QED
      BY <1>1, <2>1
  <1>4. CASE tunPeer[k] = "broken"
    <2>1. UNCHANGED <<tunDown, tunPeer>>
      BY <1>4 DEF TunWrite
    <2> QED
      BY <1>1, <2>1
  <1> QED
    BY <1>1, <1>2, <1>3, <1>4

\* The kernel of node h gets a packet at the start of a buffer, which comes
\* after those it has.
LEMMA TunDeliverKeeps ==
    ASSUME TunInv, NEW h \in TunNodes, NEW buf \in Seq(TunUnit), buf[1] \in TunUnit, TunDeliver(h, buf),
           \A p \in TunIn(tunInbox[h]) : p.src = buf[1].pkt.src => TunBefore(TunFirst(p), buf[1])
    PROVE  /\ tunInbox' \in [TunNodes -> Seq(TunPacket)]
           /\ TunInOrder'
           /\ \A k \in TunNodes : \A q \in TunIn(tunInbox'[k]) :
                 q \in TunIn(tunInbox[k]) \/ (k = h /\ TunFirst(q) = buf[1])
  <1> DEFINE p == buf[1].pkt
             s == tunInbox[h]
  <1>1. p \in TunPacket /\ s \in Seq(TunPacket) /\ Len(s) \in Nat
        /\ tunInbox \in [TunNodes -> Seq(TunPacket)]
    BY DEF TunUnit, TunInv, TunTypes
  <1>2. CASE IsPrefix(TunBytes(p), buf) /\ p.dst = TunAddr(h)
    <2>1. buf[1] = TunFirst(p)
      BY <1>1, <1>2, TunPrefix
    <2>2. tunInbox' = [tunInbox EXCEPT ![h] = Append(@, p)]
      BY <1>2 DEF TunDeliver
    <2>3. \A k \in TunNodes : tunInbox'[k] = IF k = h THEN Append(s, p) ELSE tunInbox[k]
      BY <1>1, <2>2
    <2> HIDE DEF p, s
    <2>4. /\ Append(s, p) \in Seq(TunPacket) /\ Len(Append(s, p)) = Len(s) + 1
          /\ \A k \in 1 .. Len(s) : Append(s, p)[k] = s[k]
          /\ Append(s, p)[Len(s) + 1] = p
          /\ \A q \in TunIn(Append(s, p)) : q \in TunIn(s) \/ q = p
      BY <1>1, TunPackets
    <2>5. tunInbox' \in [TunNodes -> Seq(TunPacket)]
      BY <1>1, <2>2, <2>4 DEF s
    <2>6. \A k \in TunNodes : \A q \in TunIn(tunInbox'[k]) :
              q \in TunIn(tunInbox[k]) \/ (k = h /\ TunFirst(q) = buf[1])
      BY <2>1, <2>3, <2>4 DEF s
    <2>7. ASSUME NEW i \in 1 .. Len(s), s[i].src = p.src
          PROVE  s[i].id < p.id
      <3>1. s[i] \in TunIn(s) /\ s[i] \in TunPacket
        BY <1>1 DEF TunIn
      <3>2. TunBefore(TunFirst(s[i]), TunFirst(p))
        BY <2>1, <2>7, <3>1 DEF s, p
      <3> QED
        BY <1>1, <3>1, <3>2 DEF TunBefore, TunFirst, TunPacket
    <2>8. TunInOrder'
      <3> SUFFICES ASSUME NEW k \in TunNodes, NEW i \in DOMAIN tunInbox'[k], NEW j \in DOMAIN tunInbox'[k]
                   PROVE  /\ tunInbox'[k][i].dst = TunAddr(k)
                          /\ i < j /\ tunInbox'[k][i].src = tunInbox'[k][j].src
                                => tunInbox'[k][i].id < tunInbox'[k][j].id
        BY DEF TunInOrder, TunAddr
      <3>1. CASE k # h
        BY <2>3, <3>1 DEF TunInv, TunInOrder
      <3>2. CASE k = h
        <4>1. \A a, b \in 1 .. Len(s) :
                 /\ s[a].dst = TunAddr(h)
                 /\ a < b /\ s[a].src = s[b].src => s[a].id < s[b].id
          BY <1>1 DEF TunInv, TunInOrder, s
        <4>2. tunInbox'[k] = Append(s, p) /\ i \in 1 .. Len(s) + 1 /\ j \in 1 .. Len(s) + 1
          <5>1. tunInbox'[k] = Append(s, p)
            BY <2>3, <3>2
          <5>2. DOMAIN Append(s, p) = 1 .. Len(s) + 1
            BY <1>1, <2>4
          <5> QED
            BY <5>1, <5>2
        <4>3. Append(s, p)[i].dst = TunAddr(h)
          BY <1>1, <1>2, <2>4, <4>1, <4>2
        <4>4. CASE i < j /\ j = Len(s) + 1
          BY <1>1, <2>4, <2>7, <3>2, <4>2, <4>3, <4>4
        <4>5. CASE i < j /\ j \in 1 .. Len(s)
          BY <1>1, <2>4, <3>2, <4>1, <4>2, <4>3, <4>5
        <4> QED
          BY <1>1, <3>2, <4>2, <4>3, <4>4, <4>5
      <3> QED
        BY <3>1, <3>2
    <2> QED
      BY <2>5, <2>6, <2>8
  <1>3. CASE ~(IsPrefix(TunBytes(p), buf) /\ p.dst = TunAddr(h))
    <2>1. tunInbox' = tunInbox
      BY <1>1, <1>3 DEF TunDeliver
    <2> QED
      BY <1>1, <2>1 DEF TunInv, TunInOrder
  <1> QED
    BY <1>2, <1>3

LEMMA TunKernelKeeps ==
    ASSUME TunInv, NEW h \in TunNodes, NEW g \in TunNodes, NEW size \in TunSizes,
           TunSend(h, TunAddr(g), size)
    PROVE  TunInv'
  <1> DEFINE p == [id |-> tunSent + 1, src |-> h, dst |-> TunAddr(g), size |-> size]
  <1>1. p \in TunPacket
    BY TunSizesAssumption DEF TunPacket, TunInv, TunTypes
  <1>2. /\ tunSent' = tunSent + 1 /\ tunOut' = [tunOut EXCEPT ![h] = Append(@, p)]
        /\ UNCHANGED <<tunUp, tunDown, tunInbox, tunPeer>>
    BY DEF TunSend
  <1>3. p.id = tunSent + 1 /\ p.src = h /\ tunSent \in Nat
    BY DEF TunInv, TunTypes
  <1> HIDE DEF p
  <1>4. \A k \in TunNodes : tunOut[k] \in Seq(TunPacket)
    BY DEF TunInv, TunTypes
  <1>5. TunTypes'
    BY <1>1, <1>2, <1>3, <1>4, TunPackets DEF TunInv, TunTypes
  <1>6. \A k \in TunNodes : tunOut'[k] = IF k = h THEN Append(tunOut[h], p) ELSE tunOut[k]
    BY <1>2 DEF TunInv, TunTypes
  <1>7. \A k \in TunNodes : \A q \in TunIn(tunOut'[k]) : q \in TunIn(tunOut[k]) \/ (q = p /\ k = h)
    BY <1>1, <1>4, <1>6, TunPackets
  <1>8. ASSUME NEW u, u.pkt.src \in TunNodes, u.pkt.id \in Nat, u.pkt.id <= tunSent, TunAheadOut(u)
        PROVE  u.pkt.id <= tunSent' /\ TunAheadOut(u)'
    <2> SUFFICES ASSUME NEW q \in TunIn(tunOut'[u.pkt.src])
                 PROVE  u.pkt.id < q.id
      BY <1>2, <1>3, <1>8 DEF TunAheadOut
    <2>1. CASE q \in TunIn(tunOut[u.pkt.src])
      BY <1>8, <2>1 DEF TunAheadOut
    <2>2. CASE q = p
      BY <1>3, <1>8, <2>2
    <2> QED
      BY <1>7, <1>8, <2>1, <2>2
  <1>9. TunOutLine'
    <2> SUFFICES ASSUME NEW k \in TunNodes
                 PROVE  /\ \A q \in TunIn(tunOut'[k]) : q.src = k /\ q.id <= tunSent'
                        /\ \A i, j \in 1 .. Len(tunOut'[k]) : i < j => tunOut'[k][i].id < tunOut'[k][j].id
      BY DEF TunOutLine
    <2>1. /\ \A q \in TunIn(tunOut[k]) : q \in TunPacket /\ q.src = k /\ q.id <= tunSent
          /\ \A i, j \in 1 .. Len(tunOut[k]) : i < j => tunOut[k][i].id < tunOut[k][j].id
          /\ Len(tunOut[k]) \in Nat
      BY <1>4 DEF TunInv, TunOutLine, TunIn
    <2>2. \A q \in TunIn(tunOut'[k]) : q.src = k /\ q.id <= tunSent'
      BY <1>2, <1>3, <1>7, <2>1 DEF TunPacket
    <2>3. CASE k # h
      BY <1>6, <2>1, <2>2, <2>3
    <2>4. CASE k = h
      <3> SUFFICES ASSUME NEW i \in 1 .. Len(tunOut'[k]), NEW j \in 1 .. Len(tunOut'[k]), i < j
                   PROVE  tunOut'[k][i].id < tunOut'[k][j].id
        BY <2>2
      <3>1. /\ Len(tunOut'[k]) = Len(tunOut[k]) + 1 /\ tunOut'[k][Len(tunOut[k]) + 1] = p
            /\ \A m \in 1 .. Len(tunOut[k]) : tunOut'[k][m] = tunOut[k][m]
        <4>1. tunOut'[k] = Append(tunOut[k], p) /\ tunOut[k] \in Seq(TunPacket)
          BY <1>4, <1>6, <2>4
        <4> QED
          BY <1>1, <4>1, TunPackets
      <3>2. i \in 1 .. Len(tunOut[k]) /\ tunOut'[k][i] = tunOut[k][i] /\ tunOut[k][i] \in TunIn(tunOut[k])
        BY <2>1, <3>1 DEF TunIn
      <3>3. CASE j = Len(tunOut[k]) + 1
        BY <1>3, <2>1, <3>1, <3>2, <3>3 DEF TunPacket
      <3>4. CASE j \in 1 .. Len(tunOut[k])
        BY <2>1, <3>1, <3>2, <3>4
      <3> QED
        BY <2>1, <3>1, <3>3, <3>4
    <2> QED
      BY <2>3, <2>4
  <1>10. TunUpLine'
    <2> SUFFICES ASSUME NEW c \in TunClients, NEW u \in TunIn(tunUp[c])
                 PROVE  u.pkt.src = c /\ u.pkt.id <= tunSent' /\ TunAheadOut(u)'
      BY <1>2 DEF TunInv, TunUpLine
    <2>1. u \in TunUnit
      BY DEF TunInv, TunTypes, TunIn
    <2> QED
      BY <1>8, <2>1 DEF TunInv, TunUpLine, TunUnit, TunPacket
  <1>11. TunDownLine'
    <2> SUFFICES ASSUME NEW c \in TunClients, NEW u \in TunIn(tunDown[c])
                 PROVE  u.pkt.id <= tunSent' /\ TunAheadOut(u)' /\ TunAheadUp(u)'
      BY <1>2 DEF TunInv, TunDownLine
    <2>1. u \in TunUnit
      BY DEF TunInv, TunTypes, TunIn
    <2>2. TunAheadUp(u)'
      BY <1>2 DEF TunInv, TunDownLine, TunAheadUp
    <2> QED
      BY <1>8, <2>1, <2>2 DEF TunInv, TunDownLine, TunUnit, TunPacket
  <1>12. TunInboxLine'
    <2> SUFFICES ASSUME NEW k \in TunNodes, NEW q \in TunIn(tunInbox[k])
                 PROVE  /\ q.id <= tunSent' /\ TunAheadOut(TunFirst(q))'
                        /\ TunAheadUp(TunFirst(q))' /\ TunAheadDown(TunFirst(q), k)'
      BY <1>2 DEF TunInboxLine
    <2>1. q \in TunPacket /\ TunFirst(q).pkt = q
      BY DEF TunInv, TunTypes, TunIn, TunFirst
    <2>2. TunAheadUp(TunFirst(q))' /\ TunAheadDown(TunFirst(q), k)'
      BY <1>2 DEF TunInv, TunInboxLine, TunAheadUp, TunAheadDown
    <2>3. q.id <= tunSent /\ TunAheadOut(TunFirst(q))
      BY DEF TunInv, TunInboxLine
    <2> QED
      BY <1>8, <2>1, <2>2, <2>3 DEF TunPacket
  <1>13. TunInOrder'
    BY <1>2 DEF TunInv, TunInOrder
  <1> QED
    BY <1>5, <1>9, <1>10, <1>11, <1>12, <1>13 DEF TunInv

LEMMA TunClientSendKeeps ==
    ASSUME TunInv, NEW c \in TunClients, TunClientSend(c)
    PROVE  TunInv'
  <1> DEFINE p == Head(tunOut[c])
             t == TunBytes(p)
  <1>1. /\ tunOut[c] # <<>> /\ tunOut' = [tunOut EXCEPT ![c] = Tail(@)]
        /\ tunUp' = [tunUp EXCEPT ![c] = @ \o t]
        /\ UNCHANGED <<tunDown, tunInbox, tunPeer, tunSent>> /\ c \in TunNodes
    BY DEF TunClientSend, TunClients, TunNodes
  <1>2. /\ p \in TunPacket /\ p \in TunIn(tunOut[c]) /\ p.src = c /\ p.id <= tunSent
        /\ tunOut' \in [TunNodes -> Seq(TunPacket)] /\ TunOutLine'
        /\ \A k \in TunNodes : TunIn(tunOut'[k]) \subseteq TunIn(tunOut[k])
        /\ \A q \in TunIn(tunOut'[c]) : p.id < q.id
    BY <1>1, TunTake
  <1> HIDE DEF p
  <1>3. t \in Seq(TunUnit) /\ TunSorted(t) /\ \A u \in TunIn(t) : u \in TunUnit /\ u.pkt = p
    BY <1>2, TunBytesSorted DEF TunIn
  <1> HIDE DEF t
  <1>4. /\ tunUp \in [TunClients -> Seq(TunUnit)] /\ TunSorted(tunUp[c])
        /\ tunInbox \in [TunNodes -> Seq(TunPacket)]
    BY DEF TunInv, TunTypes, TunUpLine
  \* Whatever is ahead of the TUN device is ahead of the units that leave it.
  <1>5. ASSUME NEW u \in TunUnit, TunAheadOut(u), u.pkt.src = c, NEW v \in TunIn(t)
        PROVE  TunBefore(u, v)
    <2>1. u.pkt.id < p.id
      BY <1>2, <1>5 DEF TunAheadOut
    <2> QED
      BY <1>3, <2>1 DEF TunBefore
  <1>6. \A x \in TunIn(tunUp[c]), y \in TunIn(t) : x.pkt.src = y.pkt.src => TunBefore(x, y)
    BY <1>5, TunMembers
  <1>7. /\ tunUp[c] \o t \in Seq(TunUnit) /\ TunSorted(tunUp[c] \o t)
        /\ \A x \in TunIn(tunUp[c] \o t) : x \in TunIn(tunUp[c]) \/ x \in TunIn(t)
    BY <1>3, <1>4, <1>6, TunJoin
  <1>8. /\ \A k \in TunClients : tunUp'[k] = IF k = c THEN tunUp[c] \o t ELSE tunUp[k]
        /\ tunUp' \in [TunClients -> Seq(TunUnit)]
    BY <1>1, <1>4, <1>7
  <1>9. \A k \in TunClients : \A u \in TunIn(tunUp'[k]) :
            u \in TunIn(tunUp[k]) \/ (k = c /\ u \in TunIn(t))
    BY <1>7, <1>8
  <1>10. ASSUME NEW u \in TunUnit, TunAheadOut(u), TunAheadUp(u)
         PROVE  TunAheadOut(u)' /\ TunAheadUp(u)'
    <2>1. TunAheadOut(u)'
      BY <1>2, <1>10, TunLess
    <2>2. TunAheadUp(u)'
      <3> SUFFICES ASSUME NEW k \in TunClients, u.pkt.src = k, NEW v \in TunIn(tunUp'[k])
                   PROVE  TunBefore(u, v)
        BY DEF TunAheadUp
      <3>1. CASE v \in TunIn(tunUp[k])
        BY <1>10, <3>1 DEF TunAheadUp
      <3>2. CASE k = c /\ v \in TunIn(t)
        BY <1>5, <1>10, <3>2
      <3> QED
        BY <1>9, <3>1, <3>2
    <2> QED
      BY <2>1, <2>2
  <1>11. TunTypes'
    BY <1>1, <1>2, <1>8 DEF TunInv, TunTypes
  <1>12. TunUpLine'
    <2>1. \A k \in TunClients : TunSorted(tunUp'[k])
      BY <1>7, <1>8 DEF TunInv, TunUpLine
    <2>2. ASSUME NEW k \in TunClients, NEW u \in TunIn(tunUp'[k])
          PROVE  u.pkt.src = k /\ u.pkt.id <= tunSent' /\ TunAheadOut(u)'
      <3>1. CASE u \in TunIn(tunUp[k])
        BY <1>1, <1>2, <3>1, TunLess, TunMembers
      <3>2. CASE k = c /\ u \in TunIn(t)
        BY <1>1, <1>2, <1>3, <3>2 DEF TunAheadOut
      <3> QED
        BY <1>9, <3>1, <3>2
    <2> QED
      BY <2>1, <2>2 DEF TunUpLine, TunSorted, TunBefore
  <1>13. TunDownLine'
    <2> SUFFICES ASSUME NEW k \in TunClients, NEW u \in TunIn(tunDown[k])
                 PROVE  u.pkt.id <= tunSent /\ TunAheadOut(u)' /\ TunAheadUp(u)'
      BY <1>1 DEF TunInv, TunDownLine
    <2> QED
      BY <1>10, TunMembers
  <1>14. TunInboxLine'
    <2> SUFFICES ASSUME NEW k \in TunNodes, NEW q \in TunIn(tunInbox[k])
                 PROVE  /\ q.id <= tunSent /\ TunAheadOut(TunFirst(q))'
                        /\ TunAheadUp(TunFirst(q))' /\ TunAheadDown(TunFirst(q), k)'
      BY <1>1 DEF TunInboxLine
    <2>1. TunAheadDown(TunFirst(q), k)'
      BY <1>1, TunMembers DEF TunAheadDown
    <2> QED
      BY <1>10, <2>1, TunMembers
  <1>15. TunInOrder'
    BY <1>1 DEF TunInv, TunInOrder
  <1> QED
    BY <1>2, <1>11, <1>12, <1>13, <1>14, <1>15 DEF TunInv

LEMMA TunClientRecvKeeps ==
    ASSUME TunInv, NEW c \in TunClients, TunClientRecv(c)
    PROVE  TunInv'
  <1>1. PICK n \in 1 .. TunBuffer :
          /\ n <= Len(tunDown[c])
          /\ TunDeliver(c, SubSeq(tunDown[c], 1, n))
          /\ tunDown' = [tunDown EXCEPT ![c] = TunRest(@, n)]
    BY DEF TunClientRecv
  <1>2. UNCHANGED <<tunOut, tunUp, tunPeer, tunSent>> /\ c \in TunNodes
    BY DEF TunClientRecv, TunClients, TunNodes
  <1> DEFINE s == tunDown[c]
             buf == SubSeq(s, 1, n)
             rest == TunRest(s, n)
  <1>3. /\ tunDown \in [TunClients -> Seq(TunUnit)] /\ s \in Seq(TunUnit) /\ TunSorted(s)
        /\ n \in 1 .. Len(s)
    BY <1>1, TunSizesAssumption DEF TunInv, TunTypes, TunDownLine
  <1>4. /\ buf \in Seq(TunUnit) /\ rest \in Seq(TunUnit)
        /\ TunSorted(buf) /\ TunSorted(rest)
        /\ TunIn(buf) \subseteq TunIn(s) /\ TunIn(rest) \subseteq TunIn(s)
        /\ buf[1] \in TunIn(buf)
        /\ \A x \in TunIn(buf), y \in TunIn(rest) :
              x.pkt.src = y.pkt.src => TunBefore(x, y)
    BY <1>3, TunCut
  <1>5. /\ \A k \in TunClients : tunDown'[k] = IF k = c THEN rest ELSE tunDown[k]
        /\ tunDown' \in [TunClients -> Seq(TunUnit)]
    BY <1>1, <1>3, <1>4
  <1>6. TunDeliver(c, buf)
    BY <1>1
  <1> HIDE DEF buf, rest
  <1>7. /\ buf[1] \in TunUnit /\ buf[1].pkt.id <= tunSent /\ TunAheadOut(buf[1]) /\ TunAheadUp(buf[1])
    BY <1>4, TunMembers
  <1> PICK b \in TunUnit : b = buf[1]
    BY <1>7
  <1>8. \A p \in TunIn(tunInbox[c]) : p.src = buf[1].pkt.src => TunBefore(TunFirst(p), buf[1])
    <2> TAKE p \in TunIn(tunInbox[c])
    <2>1. TunAheadDown(TunFirst(p), c) /\ TunFirst(p).pkt = p
      BY <1>2, TunMembers
    <2> QED
      BY <1>4, <2>1 DEF TunAheadDown
  <1>9. /\ tunInbox' \in [TunNodes -> Seq(TunPacket)]
        /\ TunInOrder'
        /\ \A k \in TunNodes : \A q \in TunIn(tunInbox'[k]) :
              q \in TunIn(tunInbox[k]) \/ (k = c /\ TunFirst(q) = b)
    BY <1>2, <1>4, <1>6, <1>7, <1>8, TunDeliverKeeps
  <1>10. \A k \in TunClients : TunIn(tunDown'[k]) \subseteq TunIn(tunDown[k])
    BY <1>4, <1>5
  <1>11. \A u : (TunAheadOut(u) => TunAheadOut(u)') /\ (TunAheadUp(u) => TunAheadUp(u)')
    BY <1>2 DEF TunAheadOut, TunAheadUp
  <1>12. TunTypes'
    BY <1>2, <1>5, <1>9 DEF TunInv, TunTypes
  <1>13. TunOutLine' /\ TunUpLine'
    BY <1>2, <1>11 DEF TunInv, TunOutLine, TunUpLine
  <1>14. TunDownLine'
    <2>1. \A k \in TunClients : TunSorted(tunDown'[k])
      BY <1>4, <1>5 DEF TunInv, TunDownLine
    <2>2. ASSUME NEW k \in TunClients, NEW u \in TunIn(tunDown'[k])
          PROVE  u.pkt.id <= tunSent' /\ TunAheadOut(u)' /\ TunAheadUp(u)'
      BY <1>2, <1>10, <1>11, TunMembers
    <2> QED
      BY <2>1, <2>2 DEF TunDownLine, TunSorted, TunBefore
  <1>15. TunInboxLine'
    <2> SUFFICES ASSUME NEW k \in TunNodes, NEW q \in TunIn(tunInbox'[k])
                 PROVE  /\ q.id <= tunSent' /\ TunAheadOut(TunFirst(q))'
                        /\ TunAheadUp(TunFirst(q))' /\ TunAheadDown(TunFirst(q), k)'
      BY DEF TunInboxLine
    <2>1. CASE q \in TunIn(tunInbox[k])
      BY <1>2, <1>10, <1>11, <2>1, TunMembers, TunLess
    <2>2. CASE k = c /\ TunFirst(q) = b
      <3>1. TunFirst(q).pkt = q
        BY DEF TunFirst
      <3>2. TunAheadDown(b, c)'
        BY <1>4, <1>5 DEF TunAheadDown
      <3> QED
        BY <1>2, <1>7, <1>11, <2>2, <3>1, <3>2
    <2> QED
      BY <1>9, <2>1, <2>2
  <1> QED
    BY <1>9, <1>12, <1>13, <1>14, <1>15 DEF TunInv

\* What a write to the connection of client k does to the lines, when what it
\* writes is ahead of its sender's own lines and behind all else.
LEMMA TunWriteLines ==
    ASSUME TunInv, NEW k \in TunClients, NEW t \in Seq(TunUnit), TunSorted(t),
           TunWrite(k, t) \/ UNCHANGED <<tunDown, tunPeer>>,
           UNCHANGED <<tunInbox, tunSent>>,
           \A h \in TunNodes : TunIn(tunOut'[h]) \subseteq TunIn(tunOut[h]),
           \A c \in TunClients : TunIn(tunUp'[c]) \subseteq TunIn(tunUp[c]),
           \A y \in TunIn(t) : y.pkt.id <= tunSent /\ TunAheadOut(y)' /\ TunAheadUp(y)',
           \A x \in TunUnit, y \in TunIn(t) :
              TunAheadOut(x) /\ TunAheadUp(x) /\ x.pkt.src = y.pkt.src => TunBefore(x, y)
    PROVE  /\ tunDown' \in [TunClients -> Seq(TunUnit)]
           /\ tunPeer' \in [TunClients -> {"up", "gone", "broken"}]
           /\ TunDownLine' /\ TunInboxLine' /\ TunInOrder'
  <1>1. \A x \in TunIn(tunDown[k]), y \in TunIn(t) : x.pkt.src = y.pkt.src => TunBefore(x, y)
    BY TunMembers
  <1>2. /\ tunDown' \in [TunClients -> Seq(TunUnit)]
        /\ tunPeer' \in [TunClients -> {"up", "gone", "broken"}]
        /\ \A c \in TunClients : TunSorted(tunDown'[c])
        /\ \A c \in TunClients : \A u \in TunIn(tunDown'[c]) :
              u \in TunIn(tunDown[c]) \/ (c = k /\ u \in TunIn(t))
    <2>1. CASE TunWrite(k, t)
      BY <1>1, <2>1, TunWriteKeeps
    <2>2. CASE UNCHANGED <<tunDown, tunPeer>>
      BY <2>2 DEF TunInv, TunTypes, TunDownLine
    <2> QED
      BY <2>1, <2>2
  <1>3. TunDownLine'
    <2>1. ASSUME NEW c \in TunClients, NEW u \in TunIn(tunDown'[c])
          PROVE  u.pkt.id <= tunSent' /\ TunAheadOut(u)' /\ TunAheadUp(u)'
      <3>1. CASE u \in TunIn(tunDown[c])
        BY <3>1, TunMembers, TunLess
      <3>2. CASE u \in TunIn(t)
        BY <3>2
      <3> QED
        BY <1>2, <3>1, <3>2
    <2> QED
      BY <1>2, <2>1 DEF TunDownLine, TunSorted, TunBefore
  <1>4. TunInboxLine'
    <2> SUFFICES ASSUME NEW h \in TunNodes, NEW q \in TunIn(tunInbox[h])
                 PROVE  /\ q.id <= tunSent /\ TunAheadOut(TunFirst(q))'
                        /\ TunAheadUp(TunFirst(q))' /\ TunAheadDown(TunFirst(q), h)'
      BY DEF TunInboxLine
    <2> DEFINE x == TunFirst(q)
    <2>1. /\ q.id <= tunSent /\ x \in TunUnit
          /\ TunAheadOut(x) /\ TunAheadUp(x) /\ TunAheadDown(x, h)
      BY TunMembers
    <2> HIDE DEF x
    <2>2. TunAheadDown(x, h)'
      <3> SUFFICES ASSUME h \in TunClients, NEW v \in TunIn(tunDown'[h]), v.pkt.src = x.pkt.src
                   PROVE  TunBefore(x, v)
        BY DEF TunAheadDown
      <3>1. CASE v \in TunIn(tunDown[h])
        BY <2>1, <3>1 DEF TunAheadDown
      <3>2. CASE v \in TunIn(t)
        BY <2>1, <3>2
      <3> QED
        BY <1>2, <3>1, <3>2
    <2>3. TunAheadOut(x)' /\ TunAheadUp(x)'
      BY <2>1, TunLess
    <2> QED
      BY <2>1, <2>2, <2>3 DEF x
  <1>5. TunInOrder'
    BY DEF TunInv, TunInOrder
  <1> QED
    BY <1>2, <1>3, <1>4, <1>5

LEMMA TunServerFromTunKeeps ==
    ASSUME TunInv, TunServerFromTun
    PROVE  TunInv'
  <1>1. /\ tunOut[0] # <<>> /\ tunOut' = [tunOut EXCEPT ![0] = Tail(@)]
        /\ UNCHANGED <<tunUp, tunInbox, tunSent>> /\ 0 \in TunNodes
    BY DEF TunServerFromTun, TunNodes
  <1>2. PICK p : p = Head(tunOut[0])
    OBVIOUS
  <1>3. /\ p \in TunPacket /\ p \in TunIn(tunOut[0]) /\ p.src = 0 /\ p.id <= tunSent
        /\ tunOut' \in [TunNodes -> Seq(TunPacket)] /\ TunOutLine'
        /\ \A k \in TunNodes : TunIn(tunOut'[k]) \subseteq TunIn(tunOut[k])
        /\ \A q \in TunIn(tunOut'[0]) : p.id < q.id
    BY <1>1, <1>2, TunTake
  <1>4. PICK t : t = TunBytes(p)
    OBVIOUS
  <1>5. t \in Seq(TunUnit) /\ TunSorted(t) /\ \A u \in TunIn(t) : u.pkt = p
    BY <1>3, <1>4, TunBytesSorted
  <1>6. \E k \in TunClients : TunWrite(k, t) \/ UNCHANGED <<tunDown, tunPeer>>
    BY <1>2, <1>4 DEF TunServerFromTun, TunClients
  <1>7. ASSUME NEW y \in TunIn(t)
        PROVE  y.pkt.id <= tunSent /\ TunAheadOut(y)' /\ TunAheadUp(y)'
    BY <1>3, <1>5 DEF TunAheadOut, TunAheadUp, TunClients
  <1>8. ASSUME NEW x \in TunUnit, NEW y \in TunIn(t),
               TunAheadOut(x), TunAheadUp(x), x.pkt.src = y.pkt.src
        PROVE  TunBefore(x, y)
    BY <1>3, <1>5, <1>8 DEF TunAheadOut, TunBefore
  <1>9. /\ tunDown' \in [TunClients -> Seq(TunUnit)]
        /\ tunPeer' \in [TunClients -> {"up", "gone", "broken"}]
        /\ TunDownLine' /\ TunInboxLine' /\ TunInOrder'
    BY <1>1, <1>3, <1>5, <1>6, <1>7, <1>8, TunWriteLines
  <1>10. TunTypes'
    BY <1>1, <1>3, <1>9 DEF TunInv, TunTypes
  <1>11. TunUpLine'
    <2> SUFFICES ASSUME NEW k \in TunClients, NEW u \in TunIn(tunUp[k])
                 PROVE  u.pkt.src = k /\ u.pkt.id <= tunSent /\ TunAheadOut(u)'
      BY <1>1 DEF TunInv, TunUpLine
    <2> QED
      BY <1>3, TunMembers, TunLess
  <1> QED
    BY <1>3, <1>9, <1>10, <1>11 DEF TunInv

LEMMA TunServerFromClientKeeps ==
    ASSUME TunInv, NEW c \in TunClients, TunServerFromClient(c)
    PROVE  TunInv'
  <1>1. PICK n \in 1 .. TunBuffer :
          LET buf == SubSeq(tunUp[c], 1, n)
          IN  /\ n <= Len(tunUp[c])
              /\ tunUp' = [tunUp EXCEPT ![c] = TunRest(@, n)]
              /\ \/ UNCHANGED <<tunDown, tunInbox, tunPeer>>
                 \/ TunWrite(3 - c, buf) /\ UNCHANGED tunInbox
                 \/ TunDeliver(0, buf) /\ UNCHANGED <<tunDown, tunPeer>>
    BY DEF TunServerFromClient
  <1>2. /\ UNCHANGED <<tunOut, tunSent>> /\ c \in TunNodes /\ 3 - c \in TunClients /\ 0 \in TunNodes
    BY DEF TunServerFromClient, TunClients, TunNodes
  <1>3. PICK s : s = tunUp[c]
    OBVIOUS
  <1>4. PICK buf : buf = SubSeq(s, 1, n)
    OBVIOUS
  <1>5. PICK rest : rest = TunRest(s, n)
    OBVIOUS
  <1>6. /\ tunUp \in [TunClients -> Seq(TunUnit)] /\ s \in Seq(TunUnit) /\ TunSorted(s)
        /\ n \in 1 .. Len(s)
    BY <1>1, <1>3, TunSizesAssumption DEF TunInv, TunTypes, TunUpLine
  <1>7. /\ buf \in Seq(TunUnit) /\ rest \in Seq(TunUnit)
        /\ TunSorted(buf) /\ TunSorted(rest)
        /\ TunIn(buf) \subseteq TunIn(s) /\ TunIn(rest) \subseteq TunIn(s)
        /\ buf[1] \in TunIn(buf)
        /\ \A x \in TunIn(buf), y \in TunIn(rest) :
              x.pkt.src = y.pkt.src => TunBefore(x, y)
    BY <1>4, <1>5, <1>6, TunCut
  <1>8. /\ \A k \in TunClients : tunUp'[k] = IF k = c THEN rest ELSE tunUp[k]
        /\ tunUp' \in [TunClients -> Seq(TunUnit)]
    BY <1>1, <1>3, <1>5, <1>6, <1>7
  <1>9. \A k \in TunClients : TunIn(tunUp'[k]) \subseteq TunIn(tunUp[k])
    BY <1>3, <1>7, <1>8
  <1>10. \A y \in TunIn(buf) : y \in TunUnit /\ y.pkt.src = c /\ y.pkt.id <= tunSent /\ TunAheadOut(y)
    BY <1>3, <1>7, TunMembers
  <1>11. \A h \in TunNodes : TunIn(tunOut'[h]) \subseteq TunIn(tunOut[h])
    BY <1>2
  <1>12. ASSUME NEW y \in TunIn(buf)
         PROVE  y.pkt.id <= tunSent /\ TunAheadOut(y)' /\ TunAheadUp(y)'
    <2>1. TunAheadUp(y)'
      <3> SUFFICES ASSUME NEW v \in TunIn(tunUp'[c])
                   PROVE  TunBefore(y, v)
        BY <1>10 DEF TunAheadUp
      <3>1. v \in TunIn(rest) /\ v.pkt.src = c
        BY <1>3, <1>7, <1>8, TunMembers
      <3> QED
        BY <1>7, <1>10, <3>1
    <2> QED
      BY <1>10, <1>11, <2>1, TunLess
  <1>13. ASSUME NEW x \in TunUnit, NEW y \in TunIn(buf),
                TunAheadOut(x), TunAheadUp(x), x.pkt.src = y.pkt.src
         PROVE  TunBefore(x, y)
    BY <1>3, <1>7, <1>10, <1>13 DEF TunAheadUp
  <1>14. TunOutLine' /\ TunUpLine'
    <2>1. TunOutLine'
      BY <1>2 DEF TunInv, TunOutLine
    <2>2. \A k \in TunClients : TunSorted(tunUp'[k])
      BY <1>7, <1>8 DEF TunInv, TunUpLine
    <2>3. ASSUME NEW k \in TunClients, NEW u \in TunIn(tunUp'[k])
          PROVE  u.pkt.src = k /\ u.pkt.id <= tunSent' /\ TunAheadOut(u)'
      BY <1>2, <1>9, <1>11, TunMembers, TunLess
    <2> QED
      BY <2>1, <2>2, <2>3 DEF TunUpLine, TunSorted, TunBefore
  <1>15. ASSUME TunWrite(3 - c, buf) \/ UNCHANGED <<tunDown, tunPeer>>, UNCHANGED tunInbox
         PROVE  TunInv'
    <2>1. /\ tunDown' \in [TunClients -> Seq(TunUnit)]
          /\ tunPeer' \in [TunClients -> {"up", "gone", "broken"}]
          /\ TunDownLine' /\ TunInboxLine' /\ TunInOrder'
      BY <1>2, <1>7, <1>9, <1>11, <1>12, <1>13, <1>15, TunWriteLines
    <2> QED
      BY <1>2, <1>8, <1>14, <1>15, <2>1 DEF TunInv, TunTypes
  <1>16. ASSUME TunDeliver(0, buf), UNCHANGED <<tunDown, tunPeer>>
         PROVE  TunInv'
    <2>1. PICK b \in TunUnit : b = buf[1]
      BY <1>7, <1>10
    <2>2. \A p \in TunIn(tunInbox[0]) : p.src = buf[1].pkt.src => TunBefore(TunFirst(p), buf[1])
      BY <1>2, <1>7, <1>13, TunMembers
    <2>3. /\ tunInbox' \in [TunNodes -> Seq(TunPacket)]
          /\ TunInOrder'
          /\ \A k \in TunNodes : \A q \in TunIn(tunInbox'[k]) :
                q \in TunIn(tunInbox[k]) \/ (k = 0 /\ TunFirst(q) = b)
      BY <1>2, <1>7, <1>16, <2>1, <2>2, TunDeliverKeeps
    <2>4. TunTypes'
      BY <1>2, <1>8, <1>16, <2>3 DEF TunInv, TunTypes
    <2>5. TunDownLine'
      <3> SUFFICES ASSUME NEW k \in TunClients, NEW u \in TunIn(tunDown[k])
                   PROVE  u.pkt.id <= tunSent /\ TunAheadOut(u)' /\ TunAheadUp(u)'
        BY <1>2, <1>16 DEF TunInv, TunDownLine
      <3> QED
        BY <1>9, <1>11, TunMembers, TunLess
    <2>6. TunInboxLine'
      <3> SUFFICES ASSUME NEW k \in TunNodes, NEW q \in TunIn(tunInbox'[k])
                   PROVE  /\ q.id <= tunSent /\ TunAheadOut(TunFirst(q))'
                          /\ TunAheadUp(TunFirst(q))' /\ TunAheadDown(TunFirst(q), k)'
        BY <1>2 DEF TunInboxLine
      <3>1. CASE q \in TunIn(tunInbox[k])
        BY <1>9, <1>11, <1>16, <3>1, TunMembers, TunLess
      <3>2. CASE k = 0 /\ TunFirst(q) = b
        <4>1. TunFirst(q).pkt = q
          BY DEF TunFirst
        <4>2. TunAheadDown(TunFirst(q), 0)'
          BY DEF TunAheadDown, TunClients
        <4> QED
          BY <1>7, <1>12, <2>1, <3>2, <4>1, <4>2
      <3> QED
        BY <2>3, <3>1, <3>2
    <2> QED
      BY <1>14, <2>3, <2>4, <2>5, <2>6 DEF TunInv
  <1> QED
    BY <1>1, <1>3, <1>4, <1>15, <1>16

\* A dying client takes its TUN device and what was coming to it along.
LEMMA TunClientDiesKeeps ==
    ASSUME TunInv, NEW c \in TunClients, TunClientDies(c)
    PROVE  TunInv'
  <1>1. /\ tunPeer' = [tunPeer EXCEPT ![c] = "gone"]
        /\ tunOut' = [tunOut EXCEPT ![c] = <<>>] /\ tunDown' = [tunDown EXCEPT ![c] = <<>>]
        /\ UNCHANGED <<tunUp, tunInbox, tunSent>> /\ c \in TunNodes
    BY DEF TunClientDies, TunClients, TunNodes
  <1>2. TunTypes'
    BY <1>1 DEF TunInv, TunTypes
  <1>3. /\ \A h \in TunNodes : tunOut'[h] = IF h = c THEN <<>> ELSE tunOut[h]
        /\ \A k \in TunClients : tunDown'[k] = IF k = c THEN <<>> ELSE tunDown[k]
    BY <1>1 DEF TunInv, TunTypes
  <1>4. TunIn(<<>>) = {}
    BY DEF TunIn
  <1>5. /\ \A h \in TunNodes : TunIn(tunOut'[h]) \subseteq TunIn(tunOut[h])
        /\ \A k \in TunClients : TunIn(tunDown'[k]) \subseteq TunIn(tunDown[k])
        /\ \A k \in TunClients : TunIn(tunUp'[k]) \subseteq TunIn(tunUp[k])
    BY <1>1, <1>3, <1>4
  <1>6. TunOutLine'
    BY <1>1, <1>3, <1>4 DEF TunInv, TunOutLine
  <1>7. TunUpLine'
    <2> SUFFICES ASSUME NEW k \in TunClients, NEW u \in TunIn(tunUp[k])
                 PROVE  u.pkt.src = k /\ u.pkt.id <= tunSent /\ TunAheadOut(u)'
      BY <1>1 DEF TunInv, TunUpLine
    <2> QED
      BY <1>5, TunMembers, TunLess
  <1>8. TunDownLine'
    <2>1. \A k \in TunClients : TunSorted(tunDown'[k])
      BY <1>3 DEF TunInv, TunDownLine, TunSorted
    <2>2. ASSUME NEW k \in TunClients, NEW u \in TunIn(tunDown'[k])
          PROVE  u.pkt.id <= tunSent' /\ TunAheadOut(u)' /\ TunAheadUp(u)'
      BY <1>1, <1>5, TunMembers, TunLess
    <2> QED
      BY <2>1, <2>2 DEF TunDownLine, TunSorted, TunBefore
  <1>9. TunInboxLine'
    <2> SUFFICES ASSUME NEW k \in TunNodes, NEW q \in TunIn(tunInbox[k])
                 PROVE  /\ q.id <= tunSent /\ TunAheadOut(TunFirst(q))'
                        /\ TunAheadUp(TunFirst(q))' /\ TunAheadDown(TunFirst(q), k)'
      BY <1>1 DEF TunInboxLine
    <2> QED
      BY <1>5, TunMembers, TunLess
  <1>10. TunInOrder'
    BY <1>1 DEF TunInv, TunInOrder
  <1> QED
    BY <1>2, <1>6, <1>7, <1>8, <1>9, <1>10 DEF TunInv

LEMMA TunStutterKeeps ==
    ASSUME TunInv, UNCHANGED <<tunOut, tunUp, tunDown, tunInbox, tunPeer, tunSent>>
    PROVE  TunInv'
  <1>1. TunTypes' /\ TunOutLine' /\ TunInOrder'
    BY DEF TunInv, TunTypes, TunOutLine, TunInOrder
  <1>2. \A u : /\ TunAheadOut(u) => TunAheadOut(u)'
               /\ TunAheadUp(u) => TunAheadUp(u)'
               /\ \A h : TunAheadDown(u, h) => TunAheadDown(u, h)'
    BY DEF TunAheadOut, TunAheadUp, TunAheadDown
  <1>3. TunUpLine' /\ TunDownLine' /\ TunInboxLine'
    BY <1>2 DEF TunInv, TunUpLine, TunDownLine, TunInboxLine
  <1> QED
    BY <1>1, <1>3 DEF TunInv

\* TunInOrder holds of every behaviour of tunvpn.cpp: however read() cuts the
\* two TCP streams, whatever the sizes of packets, header and buffer, however
\* many packets are sent, and whichever client dies, no kernel gets a packet of
\* one sender twice or before an earlier one, and none gets one for another
\* node.
THEOREM TunInOrderCorrect == TunSpec => []TunInOrder
  <1>1. TunInit => TunInv
    <2> SUFFICES ASSUME TunInit
                 PROVE  TunInv
      OBVIOUS
    <2>1. TunTypes
      BY DEF TunInit, TunTypes
    <2>2. /\ \A h \in TunNodes : tunOut[h] = <<>> /\ tunInbox[h] = <<>>
          /\ \A c \in TunClients : tunUp[c] = <<>> /\ tunDown[c] = <<>>
      BY DEF TunInit
    <2>3. TunIn(<<>>) = {} /\ TunSorted(<<>>)
      BY DEF TunIn, TunSorted
    <2>4. TunOutLine /\ TunUpLine /\ TunDownLine /\ TunInboxLine
      BY <2>2, <2>3 DEF TunOutLine, TunUpLine, TunDownLine, TunInboxLine
    <2>5. TunInOrder
      BY <2>2 DEF TunInOrder
    <2> QED
      BY <2>1, <2>4, <2>5 DEF TunInv
  <1>2. TunInv /\ [TunNext]_tunVars => TunInv'
    <2> SUFFICES ASSUME TunInv, [TunNext]_tunVars
                 PROVE  TunInv'
      OBVIOUS
    <2>1. CASE TunAccept
      BY <2>1, TunStutterKeeps DEF TunAccept
    <2>2. CASE TunServerFromTun
      BY <2>2, TunServerFromTunKeeps
    <2>3. ASSUME NEW c \in TunClients, TunClientSend(c)
          PROVE  TunInv'
      BY <2>3, TunClientSendKeeps
    <2>4. ASSUME NEW c \in TunClients, TunClientRecv(c)
          PROVE  TunInv'
      BY <2>4, TunClientRecvKeeps
    <2>5. ASSUME NEW c \in TunClients, TunServerFromClient(c)
          PROVE  TunInv'
      BY <2>5, TunServerFromClientKeeps
    <2>6. ASSUME NEW c \in TunClients, TunClientDies(c)
          PROVE  TunInv'
      BY <2>6, TunClientDiesKeeps
    <2>7. ASSUME NEW h \in TunNodes, NEW g \in TunNodes, NEW size \in TunSizes,
                 TunSend(h, TunAddr(g), size)
          PROVE  TunInv'
      BY <2>7, TunKernelKeeps
    <2>8. CASE UNCHANGED tunVars
      BY <2>8, TunStutterKeeps DEF tunVars
    <2> QED
      BY <2>1, <2>2, <2>3, <2>4, <2>5, <2>6, <2>7, <2>8 DEF TunNext, TunForward
  <1>3. TunInv => TunInOrder
    BY DEF TunInv
  <1> QED
    BY <1>1, <1>2, <1>3, PTL DEF TunSpec

-----------------------------------------------------------------------------
(* The binary decoder: the XOR checksum, and the blocks laid out.          *)

\* g[j] is the XOR of the first j bytes of q, in 2-byte units.
BinXorTurn(b, j, x) ==
    IF j % 2 = 1 THEN <<(b[1] + x) % 2, b[2]>> ELSE <<b[1], (b[2] + x) % 2>>
BinXors(g, q, n) ==
    /\ g = [j \in 0 .. n |-> g[j]]
    /\ \A j \in 0 .. n : g[j] = IF j = 0 THEN <<0, 0>> ELSE BinXorTurn(g[j - 1], j, q[j])

LEMMA BinXorsExist ==
    ASSUME NEW q, NEW n \in Nat
    PROVE  \E g : BinXors(g, q, n)
  <1> DEFINE bad == {m \in Nat : ~ \E g : BinXors(g, q, m)}
  <1>1. SUFFICES ASSUME n \in bad PROVE FALSE
    OBVIOUS
  <1>2. PICK m \in bad : \A k \in bad : m <= k
    <2>1. bad \subseteq Nat /\ bad # {}
      BY <1>1
    <2> QED
      BY <2>1, FlagLeast
  <1>3. m \in Nat /\ ~ \E g : BinXors(g, q, m)
    BY <1>2
  <1>4. m # 0
    <2>1. BinXors([j \in 0 .. 0 |-> <<0, 0>>], q, 0)
      BY DEF BinXors
    <2> QED
      BY <1>3, <2>1
  <1>5. m - 1 \in Nat /\ m - 1 \notin bad
    BY <1>2, <1>3, <1>4
  <1>6. PICK g : BinXors(g, q, m - 1)
    BY <1>5
  <1> DEFINE h == [j \in 0 .. m |-> IF j = m THEN BinXorTurn(g[m - 1], m, q[m]) ELSE g[j]]
  <1>7. \A j \in 0 .. m : h[j] = IF j = 0 THEN <<0, 0>> ELSE BinXorTurn(h[j - 1], j, q[j])
    <2> SUFFICES ASSUME NEW j \in 0 .. m
                 PROVE  h[j] = IF j = 0 THEN <<0, 0>> ELSE BinXorTurn(h[j - 1], j, q[j])
      OBVIOUS
    <2>1. CASE j = m
      <3>1. m - 1 \in 0 .. m /\ m - 1 # m
        BY <1>3, <1>4
      <3>2. h[m - 1] = g[m - 1] /\ h[j] = BinXorTurn(g[m - 1], m, q[m])
        BY <2>1, <3>1
      <3> QED
        BY <1>4, <2>1, <3>2
    <2>2. CASE j # m
      <3>1. j \in 0 .. m - 1 /\ (j # 0 => j - 1 \in 0 .. m /\ j - 1 # m)
        BY <1>3, <2>2
      <3>2. h[j] = g[j] /\ (j # 0 => h[j - 1] = g[j - 1])
        BY <2>2, <3>1
      <3>3. g[j] = IF j = 0 THEN <<0, 0>> ELSE BinXorTurn(g[j - 1], j, q[j])
        BY <1>6, <3>1 DEF BinXors
      <3> HIDE DEF h
      <3> QED
        BY <3>2, <3>3
    <2> QED
      BY <2>1, <2>2
  <1>8. BinXors(h, q, m)
    BY <1>7 DEF BinXors
  <1> QED
    BY <1>3, <1>8

\* Of a payload of even length, no other byte is taken in.
LEMMA BinXorIs ==
    ASSUME NEW p, NEW junk, Len(p) \in Nat, Len(p) % 2 = 0
    PROVE  /\ \E g : BinXors(g, p, Len(p)) /\ BinXor(p, junk) = g[Len(p)]
           /\ BinXor(p, junk) = BinXor(p, 0)
  <1> DEFINE n == Len(p)
             F(f) == [j \in 0 .. n |->
                        IF j = 0 THEN <<0, 0>>
                        ELSE LET b == f[j - 1]
                             IN  IF j % 2 = 1 THEN <<(b[1] + p[j]) % 2, b[2]>>
                                 ELSE <<b[1], (b[2] + p[j]) % 2>>]
             h == CHOOSE f : f = F(f)
  <1>1. BinXor(p, junk) = h[n] /\ BinXor(p, 0) = h[n]
    <2>1. BinXor(p, junk) = BinXorUnits(p) /\ BinXor(p, 0) = BinXorUnits(p)
      BY DEF BinXor
    <2>2. BinXorUnits(p) = h[n]
      BY DEF BinXorUnits
    <2> QED
      BY <2>1, <2>2
  <1>2. PICK g : BinXors(g, p, n)
    BY BinXorsExist
  <1>3. g = F(g)
    BY <1>2 DEF BinXors, BinXorTurn
  <1>4. h = F(h)
    <2> HIDE DEF F
    <2> QED
      BY <1>3
  <1>5. BinXors(h, p, n)
    <2> HIDE DEF h
    <2> QED
      BY <1>4 DEF BinXors, BinXorTurn
  <1> QED
    BY <1>1, <1>5

\* A pair of bits.
BinBits == {0, 1} \X {0, 1}

LEMMA BinXorTurnBits ==
    ASSUME NEW b \in BinBits, NEW j \in Nat, NEW x \in {0, 1}
    PROVE  /\ BinXorTurn(b, j, x) \in BinBits
           /\ j % 2 = 1 => BinXorTurn(b, j, x)[1] = (b[1] + x) % 2 /\ BinXorTurn(b, j, x)[2] = b[2]
           /\ j % 2 # 1 => BinXorTurn(b, j, x)[2] = (b[2] + x) % 2 /\ BinXorTurn(b, j, x)[1] = b[1]
  <1>1. b[1] \in {0, 1} /\ b[2] \in {0, 1}
    BY DEF BinBits
  <1>2. \A y, z \in {0, 1} : (y + z) % 2 \in {0, 1}
    OBVIOUS
  <1>3. (b[1] + x) % 2 \in {0, 1} /\ (b[2] + x) % 2 \in {0, 1}
    BY <1>1, <1>2
  <1> QED
    BY <1>1, <1>3 DEF BinXorTurn, BinBits

\* p is r with one byte damaged.
BinDamage(p, r, n, bad) ==
    \A j \in 1 .. n : r[j] \in {0, 1} /\ p[j] = IF j = bad THEN 1 - r[j] ELSE r[j]

\* A damaged byte of a payload of even length shows in the checksum.
LEMMA BinXorDetects ==
    ASSUME NEW n \in Nat, NEW p, NEW r, NEW bad \in 1 .. n,
           BinDamage(p, r, n, bad), NEW g, NEW h, BinXors(g, p, n), BinXors(h, r, n)
    PROVE  g[n] # h[n]
  <1> DEFINE c == IF bad % 2 = 1 THEN 1 ELSE 2
             Good(j) == /\ g[j] \in BinBits /\ h[j] \in BinBits
                        /\ (j < bad) => g[j][c] = h[j][c]
                        /\ (j >= bad) => g[j][c] # h[j][c]
             wrong == {j \in 0 .. n : ~Good(j)}
  <1>1. SUFFICES ASSUME n \in wrong PROVE FALSE
    OBVIOUS
  <1>2. PICK m \in wrong : \A k \in wrong : m <= k
    <2>1. wrong \subseteq Nat /\ wrong # {}
      BY <1>1
    <2> HIDE DEF wrong
    <2> QED
      BY ONLY <2>1, FlagLeast
  <1>3. m \in 0 .. n /\ ~Good(m)
    BY <1>2
  <1>4. m # 0
    <2> SUFFICES ASSUME m = 0 PROVE FALSE
      OBVIOUS
    <2>1. g[0] = <<0, 0>> /\ h[0] = <<0, 0>>
      BY DEF BinXors
    <2> QED
      BY <1>3, <2>1 DEF BinBits
  <1>5. m - 1 \in 0 .. n /\ m - 1 \notin wrong /\ m \in 1 .. n
    BY <1>2, <1>3, <1>4
  <1>6. Good(m - 1)
    BY <1>5
  <1>7. PICK x, y : x = p[m] /\ y = r[m]
    OBVIOUS
  <1>8. x \in {0, 1} /\ y \in {0, 1} /\ (m = bad => x = 1 - y) /\ (m # bad => x = y)
    BY <1>5, <1>7 DEF BinDamage
  <1>9. PICK a, b : a = g[m - 1] /\ b = h[m - 1]
    OBVIOUS
  <1>10. g[m] = BinXorTurn(a, m, x) /\ h[m] = BinXorTurn(b, m, y)
    BY <1>4, <1>5, <1>7, <1>9 DEF BinXors
  <1>11. /\ a \in BinBits /\ b \in BinBits
         /\ (m - 1 < bad) => a[c] = b[c]
         /\ (m - 1 >= bad) => a[c] # b[c]
    BY <1>6, <1>9
  <1>12. a[1] \in {0, 1} /\ a[2] \in {0, 1} /\ b[1] \in {0, 1} /\ b[2] \in {0, 1}
    BY <1>11 DEF BinBits
  <1>13. /\ g[m] \in BinBits /\ h[m] \in BinBits
         /\ m % 2 = 1 => /\ g[m][1] = (a[1] + x) % 2 /\ g[m][2] = a[2]
                         /\ h[m][1] = (b[1] + y) % 2 /\ h[m][2] = b[2]
         /\ m % 2 # 1 => /\ g[m][2] = (a[2] + x) % 2 /\ g[m][1] = a[1]
                         /\ h[m][2] = (b[2] + y) % 2 /\ h[m][1] = b[1]
    <2>1. m \in Nat
      BY <1>5
    <2>2. /\ BinXorTurn(a, m, x) \in BinBits
          /\ m % 2 = 1 => BinXorTurn(a, m, x)[1] = (a[1] + x) % 2 /\ BinXorTurn(a, m, x)[2] = a[2]
          /\ m % 2 # 1 => BinXorTurn(a, m, x)[2] = (a[2] + x) % 2 /\ BinXorTurn(a, m, x)[1] = a[1]
      BY ONLY <1>8, <1>11, <2>1, BinXorTurnBits
    <2>3. /\ BinXorTurn(b, m, y) \in BinBits
          /\ m % 2 = 1 => BinXorTurn(b, m, y)[1] = (b[1] + y) % 2 /\ BinXorTurn(b, m, y)[2] = b[2]
          /\ m % 2 # 1 => BinXorTurn(b, m, y)[2] = (b[2] + y) % 2 /\ BinXorTurn(b, m, y)[1] = b[1]
      BY ONLY <1>8, <1>11, <2>1, BinXorTurnBits
    <2> QED
      BY ONLY <1>10, <2>2, <2>3, Zenon
  <1>14. \A u, v, w, z \in {0, 1} : /\ u = v /\ w = z => (u + w) % 2 = (v + z) % 2
                                    /\ u # v /\ w = z => (u + w) % 2 # (v + z) % 2
                                    /\ u = v /\ w = 1 - z => (u + w) % 2 # (v + z) % 2
    OBVIOUS
  <1>15. /\ m < bad => g[m][c] = h[m][c]
         /\ m >= bad => g[m][c] # h[m][c]
    <2>1. CASE m = bad
      <3>1. a[c] = b[c] /\ x = 1 - y
        BY <1>5, <1>8, <1>11, <2>1
      <3>2. g[m][c] = (a[c] + x) % 2 /\ h[m][c] = (b[c] + y) % 2
        BY <1>13, <2>1
      <3>3. a[c] \in {0, 1} /\ b[c] \in {0, 1}
        BY <1>12
      <3> HIDE DEF c
      <3>4. (a[c] + x) % 2 # (b[c] + y) % 2
        BY ONLY <1>8, <1>14, <3>1, <3>3
      <3> QED
        BY <2>1, <3>2, <3>4
    <2>2. CASE m # bad
      <3>1. x = y /\ (m < bad <=> a[c] = b[c])
        BY <1>5, <1>8, <1>11, <2>2
      <3>2. \/ g[m][c] = (a[c] + x) % 2 /\ h[m][c] = (b[c] + y) % 2
            \/ g[m][c] = a[c] /\ h[m][c] = b[c]
        BY <1>13
      <3>3. a[c] \in {0, 1} /\ b[c] \in {0, 1}
        BY <1>12
      <3>4. m >= bad <=> ~(m < bad)
        BY <1>5
      <3> HIDE DEF c
      <3>5. a[c] = b[c] <=> (a[c] + x) % 2 = (b[c] + y) % 2
        BY ONLY <1>8, <1>14, <3>1, <3>3
      <3> QED
        BY ONLY <3>1, <3>2, <3>4, <3>5
    <2> QED
      BY <2>1, <2>2
  <1> QED
    BY <1>3, <1>13, <1>15

BinEven == \A i \in DOMAIN binBlocks : binBlocks[i].length % 2 = 0

\* The offsets of a block, and what a block read from the file is.
BinSpan(b) == b.offset .. b.offset + b.length - 1
BinBlockSound(b, check) ==
    /\ b.offset \in Nat /\ b.length \in Nat /\ b.offset + b.length <= BinSize
    /\ b.damaged \in BOOLEAN
    /\ ~b.damaged => \A j \in 1 .. b.length : b.payload[j] = BinData[b.offset + j]
    /\ b.length % 2 = 0 => (check <=> ~b.damaged)

BinRead ==
    /\ \E S : binBlocks \in Seq(S)
    /\ \E S : binCheck \in Seq(S)
    /\ Len(binCheck) = Len(binBlocks)
    /\ \A i \in 1 .. Len(binBlocks) : BinBlockSound(binBlocks[i], binCheck[i])

\* The dict holds true data at what undamaged blocks copied so far span.
BinLaidOut ==
    /\ DOMAIN binDict = 0 .. BinSize - 1
    /\ \A o \in 0 .. BinSize - 1 : binDict[o] \in {BinJunk, BinData[o + 1]}
    /\ \A i \in 1 .. binNext - 1 : ~binBlocks[i].damaged =>
          \A o \in BinSpan(binBlocks[i]) : binDict[o] = BinData[o + 1]

BinPhase ==
    /\ binPc \in {"open", "read", "copy", "flag", "end"}
    /\ binPc = "open" => binBlocks = <<>>
    /\ binPc \in {"open", "read"} =>
          binNext = 1 /\ binDict = [o \in 0 .. BinSize - 1 |-> BinJunk]
    /\ binPc \in {"copy", "flag"} => Len(binBlocks) = BinBlocks
    /\ binPc = "copy" => binNext \in 1 .. BinBlocks + 1
    /\ binPc = "flag" => binNext = BinBlocks + 1
    /\ binPc # "end" => binFlag = <<>>

BinPrinted ==
    \/ binFlag = <<>>
    \/ /\ binNext = Len(binBlocks) + 1
       /\ \E o \in 0 .. BinSize - 2 :
             binFlag = <<[offset |-> o, bytes |-> <<binDict[o], binDict[o + 1]>>]>>

BinInv ==
    /\ BinRead
    /\ DOMAIN binDict = 0 .. BinSize - 1
    /\ BinEven => BinLaidOut
    /\ BinPhase
    /\ BinPrinted

\* A block of the file, cut from the true data.
BinCutOut(b, right, payload, len, off, bad) ==
    /\ off + len <= BinSize /\ bad <= len
    /\ right = [i \in 1 .. len |-> BinData[off + i]]
    /\ payload = [i \in 1 .. len |-> IF i = bad THEN 1 - right[i] ELSE right[i]]
    /\ b = [offset |-> off, length |-> len, payload |-> payload, damaged |-> bad # 0]

\* What BinReadBlock reads is sound.
LEMMA BinBlockRead ==
    ASSUME NEW len \in Nat, NEW off \in 0 .. BinSize - 1, NEW bad \in 0 .. BinSize,
           NEW junk \in {0, 1}, NEW right, NEW payload, NEW b,
           BinCutOut(b, right, payload, len, off, bad)
    PROVE  BinBlockSound(b, BinXor(payload, junk) = BinXor(right, 0))
  <1> USE DEF BinCutOut
  <1>1. /\ b.offset = off /\ b.length = len /\ b.payload = payload
        /\ b.damaged = (bad # 0) /\ off \in Nat /\ bad \in Nat
    OBVIOUS
  <1>2. \A i \in 1 .. len : right[i] \in {0, 1} /\ right[i] = BinData[off + i]
    <2> SUFFICES ASSUME NEW i \in 1 .. len PROVE right[i] \in {0, 1} /\ right[i] = BinData[off + i]
      OBVIOUS
    <2>1. off + i \in 1 .. BinSize
      BY DEF BinSize
    <2>2. BinData[off + i] \in {0, 1}
      BY <2>1, BinDataAssumption, ElementOfSeq DEF BinSize
    <2> QED
      BY <2>2
  <1>3. Len(right) = len /\ Len(payload) = len
    OBVIOUS
  <1>4. \A i \in 1 .. len : payload[i] = IF i = bad THEN 1 - right[i] ELSE right[i]
    OBVIOUS
  <1>5. bad = 0 => payload = right
    <2> SUFFICES ASSUME bad = 0 PROVE payload = right
      OBVIOUS
    <2>1. \A i \in 1 .. len : payload[i] = right[i]
      BY <1>4
    <2> QED
      BY <2>1
  <1>6. ASSUME len % 2 = 0
        PROVE  (BinXor(payload, junk) = BinXor(right, 0)) <=> bad = 0
    <2>1. CASE bad = 0
      <3>1. BinXor(right, junk) = BinXor(right, 0)
        BY ONLY <1>3, <1>6, len \in Nat, BinXorIs
      <3> QED
        BY <1>5, <2>1, <3>1
    <2>2. CASE bad # 0
      <3>1. PICK g : BinXors(g, payload, len) /\ BinXor(payload, junk) = g[len]
        BY ONLY <1>3, <1>6, len \in Nat, BinXorIs
      <3>2. PICK h : BinXors(h, right, len) /\ BinXor(right, 0) = h[len]
        BY ONLY <1>3, <1>6, len \in Nat, BinXorIs
      <3>3. bad \in 1 .. len
        BY <1>1, <2>2
      <3>4. g[len] # h[len]
        <4>1. BinDamage(payload, right, len, bad)
          BY <1>2, <1>4 DEF BinDamage
        <4>2. BinXors(g, payload, len) /\ BinXors(h, right, len) /\ len \in Nat
          BY <3>1, <3>2
        <4> QED
          BY ONLY <3>3, <4>1, <4>2, BinXorDetects
      <3> QED
        BY <2>2, <3>1, <3>2, <3>4
    <2> QED
      BY <2>1, <2>2
  <1>7. ~b.damaged => \A j \in 1 .. b.length : b.payload[j] = BinData[b.offset + j]
    <2> SUFFICES ASSUME ~b.damaged, NEW j \in 1 .. len PROVE b.payload[j] = BinData[off + j]
      BY <1>1
    <2>1. b.payload = right
      BY <1>1, <1>5
    <2> QED
      BY ONLY <1>2, <2>1, j \in 1 .. len
  <1> QED
    <2>1. off + len <= BinSize /\ len \in Nat
      OBVIOUS
    <2> QED
      BY ONLY <1>1, <1>6, <1>7, <2>1, Zenon DEF BinBlockSound

LEMMA BinReadStep ==
    ASSUME BinInv, BinReadBlock
    PROVE  BinInv'
  <1> USE DEF BinInv
  <1>1. PICK len \in BinLengths, off \in 0 .. BinSize - 1, bad \in 0 .. BinSize, junk \in {0, 1} :
            /\ off + len <= BinSize /\ bad <= len
            /\ LET right == [i \in 1 .. len |-> BinData[off + i]]
                   payload == [i \in 1 .. len |-> IF i = bad THEN 1 - right[i] ELSE right[i]]
                   block == [offset |-> off, length |-> len, payload |-> payload,
                             damaged |-> bad # 0]
               IN  /\ binBlocks' = Append(binBlocks, block)
                   /\ binCheck' = Append(binCheck, BinXor(payload, junk) = BinXor(right, 0))
    BY DEF BinReadBlock
  <1>2. PICK right : right = [i \in 1 .. len |-> BinData[off + i]]
    OBVIOUS
  <1>3. PICK payload : payload = [i \in 1 .. len |-> IF i = bad THEN 1 - right[i] ELSE right[i]]
    OBVIOUS
  <1>4. PICK b : b = [offset |-> off, length |-> len, payload |-> payload, damaged |-> bad # 0]
    OBVIOUS
  <1>5. PICK check : check = (BinXor(payload, junk) = BinXor(right, 0))
    OBVIOUS
  <1>6. binBlocks' = Append(binBlocks, b) /\ binCheck' = Append(binCheck, check)
    BY <1>1, <1>2, <1>3, <1>4, <1>5
  <1>7. BinBlockSound(b, check)
    <2>1. len \in Nat /\ off + len <= BinSize /\ bad <= len
      BY <1>1, BinBlocksAssumption
    <2>2. BinCutOut(b, right, payload, len, off, bad)
      BY <1>2, <1>3, <1>4, <2>1 DEF BinCutOut
    <2>3. BinBlockSound(b, BinXor(payload, junk) = BinXor(right, 0))
      BY <2>1, <2>2, BinBlockRead
    <2> QED
      BY <1>5, <2>3
  <1>8. /\ binPc = "read" /\ Len(binBlocks) < BinBlocks
        /\ UNCHANGED <<binPc, binDict, binNext, binFlag>>
    BY DEF BinReadBlock
  <1>9. PICK n, m : n = Len(binBlocks) /\ m = n + 1
    OBVIOUS
  <1>10. /\ \E S : binBlocks' \in Seq(S)
         /\ n \in Nat /\ Len(binBlocks') = m /\ binBlocks'[m] = b
         /\ \A i \in 1 .. n : binBlocks'[i] = binBlocks[i]
    <2>1. PICK S : binBlocks \in Seq(S)
      BY DEF BinRead
    <2>2. PICK T : T = S \cup {b}
      OBVIOUS
    <2>3. binBlocks \in Seq(T) /\ b \in T
      BY <2>1, <2>2, SeqMonotonic
    <2>4. /\ Append(binBlocks, b) \in Seq(T) /\ Len(Append(binBlocks, b)) = Len(binBlocks) + 1
          /\ \A i \in 1 .. Len(binBlocks) : Append(binBlocks, b)[i] = binBlocks[i]
          /\ Append(binBlocks, b)[Len(binBlocks) + 1] = b
      BY ONLY <2>3, AppendProperties
    <2>5. Len(binBlocks) \in Nat
      BY ONLY <2>3, LenProperties
    <2> QED
      BY ONLY <1>6, <1>9, <2>4, <2>5, Zenon
  <1>11. /\ \E S : binCheck' \in Seq(S)
         /\ Len(binCheck') = m /\ binCheck'[m] = check
         /\ \A i \in 1 .. n : binCheck'[i] = binCheck[i]
    <2>1. PICK S : binCheck \in Seq(S)
      BY DEF BinRead
    <2>2. PICK T : T = S \cup {check}
      OBVIOUS
    <2>3. binCheck \in Seq(T) /\ check \in T
      BY <2>1, <2>2, SeqMonotonic
    <2>4. /\ Append(binCheck, check) \in Seq(T) /\ Len(Append(binCheck, check)) = Len(binCheck) + 1
          /\ \A i \in 1 .. Len(binCheck) : Append(binCheck, check)[i] = binCheck[i]
          /\ Append(binCheck, check)[Len(binCheck) + 1] = check
      BY ONLY <2>3, AppendProperties
    <2>5. Len(binCheck) = n
      BY <1>9 DEF BinRead
    <2> QED
      BY ONLY <1>6, <1>9, <2>4, <2>5, Zenon
  <1>12. \A i \in 1 .. m : BinBlockSound(binBlocks'[i], binCheck'[i])
    <2> SUFFICES ASSUME NEW i \in 1 .. m PROVE BinBlockSound(binBlocks'[i], binCheck'[i])
      OBVIOUS
    <2>1. CASE i = m
      BY ONLY <1>7, <1>10, <1>11, <2>1, Zenon
    <2>2. CASE i # m
      <3>1. i \in 1 .. n
        BY <1>9, <1>10, <2>2
      <3>2. BinBlockSound(binBlocks[i], binCheck[i])
        BY <1>9, <3>1 DEF BinRead
      <3> QED
        BY <1>10, <1>11, <3>1, <3>2
    <2> QED
      BY <2>1, <2>2
  <1>13. BinRead'
    <2>1. \A i \in 1 .. Len(binBlocks') : BinBlockSound(binBlocks'[i], binCheck'[i])
      BY <1>10, <1>12
    <2>2. \A i \in 1 .. Len(binBlocks') : BinBlockSound(binBlocks[i], binCheck[i])'
      BY <2>1 DEF BinBlockSound
    <2>3. (\E S : binBlocks' \in Seq(S)) /\ (\E S : binCheck' \in Seq(S)) /\ Len(binCheck') = Len(binBlocks')
      BY <1>10, <1>11
    <2> QED
      BY ONLY <2>1, <2>3, Zenon DEF BinRead, BinBlockSound
  <1>14. BinLaidOut'
    <2>1. binNext = 1 /\ binDict = [o \in 0 .. BinSize - 1 |-> BinJunk]
      BY <1>8 DEF BinPhase
    <2> QED
      BY <1>8, <2>1 DEF BinLaidOut
  <1>15. BinPhase' /\ BinPrinted'
    BY <1>8 DEF BinPhase, BinPrinted
  <1> QED
    BY <1>8, <1>13, <1>14, <1>15

LEMMA BinCopyStep ==
    ASSUME BinInv, BinCopy
    PROVE  BinInv'
  <1> USE DEF BinInv
  <1>1. binPc = "copy" /\ UNCHANGED <<binBlocks, binCheck, binFlag>>
    BY DEF BinCopy
  <1>2. /\ Len(binBlocks) = BinBlocks /\ BinBlocks \in Nat
        /\ binNext \in 1 .. BinBlocks + 1 /\ binFlag = <<>>
    BY <1>1, BinBlocksAssumption DEF BinPhase
  <1>3. BinRead' /\ BinPrinted'
    BY <1>1, <1>2 DEF BinRead, BinPrinted
  <1>4. ASSUME binNext > BinBlocks
        PROVE  BinInv'
    <2>1. binPc' = "flag" /\ UNCHANGED <<binDict, binNext>> /\ binNext = BinBlocks + 1
      BY <1>2, <1>4 DEF BinCopy
    <2>2. BinPhase'
      BY <1>1, <1>2, <2>1 DEF BinPhase
    <2>3. BinEven' => BinLaidOut'
      BY <1>1, <2>1 DEF BinEven, BinLaidOut
    <2> QED
      BY <1>3, <2>1, <2>2, <2>3
  <1>5. ASSUME ~(binNext > BinBlocks)
        PROVE  BinInv'
    <2>1. PICK b, ok, k : b = binBlocks[binNext] /\ ok = binCheck[binNext] /\ k = binNext
      OBVIOUS
    <2>2. /\ binNext' = k + 1 /\ binPc' = "copy" /\ k \in 1 .. BinBlocks
          /\ binDict' = IF ~ok THEN binDict
                        ELSE [o \in DOMAIN binDict |->
                                IF o \in BinSpan(b) THEN b.payload[o - b.offset + 1] ELSE binDict[o]]
      BY <1>1, <1>2, <1>5, <2>1 DEF BinCopy, BinSpan
    <2>3. DOMAIN binDict' = 0 .. BinSize - 1
      BY <2>2
    <2>4. BinPhase'
      BY <1>1, <1>2, <2>2 DEF BinPhase
    <2>5. ASSUME BinEven'
          PROVE  BinLaidOut'
      <3>1. BinEven /\ BinLaidOut
        BY <1>1, <2>5 DEF BinEven
      <3>2. BinBlockSound(b, ok) /\ b.length % 2 = 0
        <4>1. k \in 1 .. Len(binBlocks) /\ DOMAIN binBlocks = 1 .. Len(binBlocks)
          BY <1>2, <2>2 DEF BinRead
        <4> QED
          BY <2>1, <3>1, <4>1 DEF BinRead, BinEven
      <3>3. /\ b.offset \in Nat /\ b.length \in Nat /\ b.offset + b.length <= BinSize
            /\ ok <=> ~b.damaged
            /\ ~b.damaged => \A j \in 1 .. b.length : b.payload[j] = BinData[b.offset + j]
        BY <3>2 DEF BinBlockSound
      <3>4. CASE ~ok
        <4>1. binDict' = binDict /\ b.damaged
          BY <2>2, <3>3, <3>4
        <4>2. \A i \in 1 .. (k + 1) - 1 : i \in 1 .. k - 1 \/ i = k
          BY <2>2
        <4> QED
          BY <1>1, <2>1, <2>2, <3>1, <4>1, <4>2 DEF BinLaidOut
      <3>5. CASE ok
        <4>1. binDict' = [o \in DOMAIN binDict |->
                             IF o \in BinSpan(b) THEN b.payload[o - b.offset + 1] ELSE binDict[o]]
          BY <2>2, <3>5
        <4>2. \A o \in 0 .. BinSize - 1 :
                  binDict'[o] = IF o \in BinSpan(b) THEN BinData[o + 1] ELSE binDict[o]
          <5> SUFFICES ASSUME NEW o \in 0 .. BinSize - 1
                       PROVE  binDict'[o] = IF o \in BinSpan(b) THEN BinData[o + 1] ELSE binDict[o]
            OBVIOUS
          <5>1. binDict'[o] = IF o \in BinSpan(b) THEN b.payload[o - b.offset + 1] ELSE binDict[o]
            BY <4>1
          <5>2. CASE o \in BinSpan(b)
            <6>1. PICK j : j = o - b.offset + 1
              OBVIOUS
            <6>2. j \in 1 .. b.length /\ b.offset + j = o + 1
              BY <3>3, <5>2, <6>1 DEF BinSpan
            <6>3. b.payload[j] = BinData[b.offset + j]
              BY <3>3, <3>5, <6>2
            <6> QED
              BY <5>1, <5>2, <6>1, <6>2, <6>3
          <5> QED
            BY <5>1, <5>2
        <4>3. \A o \in 0 .. BinSize - 1 : binDict'[o] \in {BinJunk, BinData[o + 1]}
          BY <3>1, <4>2 DEF BinLaidOut
        <4>4. ASSUME NEW i \in 1 .. k, ~binBlocks[i].damaged, NEW o \in BinSpan(binBlocks[i])
              PROVE  binDict'[o] = BinData[o + 1]
          <5>1. o \in 0 .. BinSize - 1
            <6>1. i \in 1 .. Len(binBlocks)
              BY <1>2, <2>2
            <6>2. BinBlockSound(binBlocks[i], binCheck[i])
              BY <6>1 DEF BinRead
            <6>3. PICK u, v : u = binBlocks[i].offset /\ v = binBlocks[i].length
              OBVIOUS
            <6>4. u \in Nat /\ v \in Nat /\ u + v <= BinSize /\ o \in u .. u + v - 1
              BY <4>4, <6>2, <6>3 DEF BinBlockSound, BinSpan
            <6>5. BinSize \in Nat
              BY BinDataAssumption DEF BinSize
            <6> QED
              BY ONLY <6>4, <6>5
          <5>2. CASE i = k
            BY <2>1, <4>2, <4>4, <5>1, <5>2
          <5>3. CASE i # k
            <6>1. i \in 1 .. binNext - 1
              BY <2>1, <2>2, <5>3
            <6>2. binDict[o] = BinData[o + 1]
              BY <3>1, <4>4, <6>1 DEF BinLaidOut
            <6> QED
              BY <4>2, <5>1, <6>2
          <5> QED
            BY <5>2, <5>3
        <4>5. binNext' - 1 = k /\ binBlocks' = binBlocks
          BY <1>1, <2>2
        <4> QED
          BY <2>3, <4>3, <4>4, <4>5 DEF BinLaidOut, BinSpan
      <3> QED
        BY <3>4, <3>5
    <2> QED
      BY <1>3, <2>3, <2>4, <2>5
  <1> QED
    BY <1>4, <1>5

\* The decoder prints the true flag wherever undamaged blocks cover it, and
\* never a damaged byte, for any data, blocks and damage, if all blocks have
\* an even length.
THEOREM BinDecodesCorrect == BinSpec => []BinDecodes
  <1>1. BinInit => BinInv
    <2> SUFFICES ASSUME BinInit PROVE BinInv
      OBVIOUS
    <2>1. <<>> \in Seq({}) /\ Len(<<>>) = 0 /\ \A i \in 1 .. 0 : FALSE
      OBVIOUS
    <2>2. BinRead
      BY <2>1 DEF BinInit, BinRead
    <2>3. BinLaidOut
      BY DEF BinInit, BinLaidOut
    <2>4. BinPhase /\ BinPrinted
      BY DEF BinInit, BinPhase, BinPrinted
    <2> QED
      BY <2>2, <2>3, <2>4 DEF BinInv, BinLaidOut
  <1>2. BinInv /\ [BinNextStep]_binVars => BinInv'
    <2> SUFFICES ASSUME BinInv, [BinNextStep]_binVars PROVE BinInv'
      OBVIOUS
    <2>1. CASE UNCHANGED binVars
      BY <2>1 DEF binVars, BinInv, BinRead, BinEven, BinLaidOut, BinPhase, BinPrinted
    <2>2. CASE BinOpen
      <3>1. UNCHANGED <<binBlocks, binCheck, binDict, binNext, binFlag>>
        BY <2>2 DEF BinOpen
      <3>2. BinPhase'
        BY <2>2 DEF BinOpen, BinInv, BinPhase
      <3> QED
        BY <3>1, <3>2 DEF BinInv, BinRead, BinEven, BinLaidOut, BinPrinted
    <2>3. CASE BinAllRead
      <3>1. UNCHANGED <<binBlocks, binCheck, binDict, binNext, binFlag>>
        BY <2>3 DEF BinAllRead
      <3>2. BinPhase'
        BY <2>3, BinBlocksAssumption DEF BinAllRead, BinInv, BinPhase
      <3> QED
        BY <3>1, <3>2 DEF BinInv, BinRead, BinEven, BinLaidOut, BinPrinted
    <2>4. CASE BinReadFlag
      <3>1. /\ UNCHANGED <<binBlocks, binCheck, binDict, binNext>> /\ binPc = "flag" /\ binPc' = "end"
            /\ \E o \in 0 .. BinSize - 2 : binFlag' = <<[offset |-> o, bytes |-> BinUnit(o)]>>
        BY <2>4 DEF BinReadFlag
      <3>2. BinPhase'
        BY <3>1 DEF BinInv, BinPhase
      <3>3. BinPrinted'
        BY <3>1 DEF BinInv, BinPhase, BinPrinted, BinUnit
      <3> QED
        BY <3>1, <3>2, <3>3 DEF BinInv, BinRead, BinEven, BinLaidOut
    <2> QED
      BY <2>1, <2>2, <2>3, <2>4, BinReadStep, BinCopyStep DEF BinNextStep
  <1>3. BinInv => BinDecodes
    <2> SUFFICES ASSUME BinInv PROVE BinDecodes
      OBVIOUS
    <2>1. BinDictClean
      BY DEF BinInv, BinEven, BinLaidOut, BinDictClean
    <2>2. BinFlagRight
      <3> SUFFICES ASSUME NEW n \in DOMAIN binFlag, BinEven, NEW o, o = binFlag[n].offset,
                          NEW i \in DOMAIN binBlocks, ~binBlocks[i].damaged,
                          o \in BinSpan(binBlocks[i]),
                          NEW j \in DOMAIN binBlocks, ~binBlocks[j].damaged,
                          o + 1 \in BinSpan(binBlocks[j])
                   PROVE  binFlag[n].bytes = <<BinData[o + 1], BinData[o + 2]>>
        BY DEF BinFlagRight, BinEven, BinSpan
      <3>1. binFlag # <<>>
        OBVIOUS
      <3>2. PICK p \in 0 .. BinSize - 2 :
                binFlag = <<[offset |-> p, bytes |-> <<binDict[p], binDict[p + 1]>>]>>
        BY <3>1 DEF BinInv, BinPrinted
      <3>3. p = o /\ binFlag[n].bytes = <<binDict[o], binDict[o + 1]>> /\ (o + 1) + 1 = o + 2
        BY <3>2
      <3>4. DOMAIN binBlocks = 1 .. Len(binBlocks) /\ Len(binBlocks) \in Nat
        BY DEF BinInv, BinRead
      <3>5. binNext - 1 = Len(binBlocks)
        BY <3>1, <3>4 DEF BinInv, BinPrinted
      <3>6. binDict[o] = BinData[o + 1] /\ binDict[o + 1] = BinData[(o + 1) + 1]
        BY <3>4, <3>5 DEF BinInv, BinLaidOut
      <3> QED
        BY <3>3, <3>6
    <2> QED
      BY <2>1, <2>2 DEF BinDecodes
  <1> QED
    BY <1>1, <1>2, <1>3, PTL DEF BinSpec

-----------------------------------------------------------------------------
(* The two queens programs.                                                *)

LEMMA LeastElement ==
    ASSUME NEW S, S \subseteq Nat, S # {}
    PROVE  \E x \in S : \A y \in S : x <= y
  <1> DEFINE less == OpToRel(<, Nat)
  <1>1. IsWellFoundedOn(less, Nat)
    BY NatLessThanWellFounded
  <1> HIDE DEF less
  <1>2. PICK x \in S : \A y \in S : ~(<<y, x>> \in less)
    BY <1>1, WFMin
  <1> USE DEF less
  <1>3. \A y \in S : ~(y < x)
    BY <1>2 DEF OpToRel
  <1> QED
    BY <1>3

QueBoards == [QueLines -> 0 .. QueN]
QueFrames == [board : QueBoards, num : 0 .. QueN]
QueOn(b) == {<<b[c], c>> : c \in QueLines \ QueEmpty(b)}
QueExtends(f, b) == \A c \in QueLines : b[c] \in {0, f[c]}
QueFirst(b) == CHOOSE d \in QueEmpty(b) : \A e \in QueEmpty(b) : d <= e

\* A solution that the pending call x may still find.
QueReach(f, x) ==
    /\ QueExtends(f, x.board)
    /\ QueEmpty(x.board) # {} => f[QueFirst(x.board)] > x.num

QueFrameSound(x) ==
    /\ QuePeaceful(QueOn(x.board))
    /\ queWhole => queGiven \subseteq QueOn(x.board)

QueFound(S) ==
    \E f \in [QueLines -> QueLines] :
        /\ S = {<<f[c], c>> : c \in QueLines} /\ QuePeaceful(S)
        /\ queWhole => queGiven \subseteq S

QueFailed == queMarked = {} /\ (queWhole => QueSolutions(queGiven) = {})

QueInv ==
    /\ queGiven \subseteq QueCells /\ QuePeaceful(queGiven)
    /\ queStack \in Seq(QueFrames) /\ queTarget \in Seq(QueCells)
    /\ \A i \in DOMAIN queStack : QueFrameSound(queStack[i])
    /\ \A i \in DOMAIN queStack : i > 1 => QueExtends(queStack[i].board, queStack[i - 1].board)
    /\ QuePeaceful(queMarked)
    /\ quePc \in {"off", "ask"} => queStack = <<>>
    /\ quePc \in {"off", "ask", "solve"} => queMarked = {}
    /\ quePc = "solve" /\ queWhole =>
          \A f \in QueSolutions(queGiven) : \E i \in DOMAIN queStack : QueReach(f, queStack[i])
    /\ quePc = "mark" => queTarget # <<>> /\ QueFound(queMarked \cup Range(queTarget))
    /\ quePc = "check" => QueFailed \/ QueFound(queMarked)
    /\ QueVerdictRight

LEMMA QueSquares ==
    ASSUME NEW x \in Int, NEW y \in Int
    PROVE  x * x = y * y <=> (x = y \/ x = -y)
  <1>1. x * x - y * y = (x - y) * (x + y)
    OBVIOUS
  <1>2. \A a, b \in Int : a * b = 0 => a = 0 \/ b = 0
    OBVIOUS
  <1>3. x - y \in Int /\ x + y \in Int
    OBVIOUS
  <1>4. x * x = y * y => x - y = 0 \/ x + y = 0
    <2>1. PICK a, b : a = x - y /\ b = x + y
      OBVIOUS
    <2>2. x * x = y * y => a * b = 0
      BY <1>1, <2>1
    <2> QED
      BY ONLY <1>2, <1>3, <2>1, <2>2
  <1>5. x = y => x * x = y * y
    OBVIOUS
  <1>6. x = -y => x * x = y * y
    OBVIOUS
  <1> QED
    BY ONLY <1>4, <1>5, <1>6, x \in Int, y \in Int

\* The test of solve() finds exactly the rows under attack.
LEMMA QueConflictIs ==
    ASSUME NEW b \in QueBoards, NEW c \in QueEmpty(b), NEW num \in QueLines
    PROVE  QueConflict(b, c, num) <=> \E p \in QueOn(b) : QueAttacks(p, <<num, c>>)
  <1>1. QueLines \subseteq Nat /\ 0 \notin QueLines /\ c \in QueLines
    BY QueNAssumption DEF QueLines, QueEmpty
  <1>2. ASSUME NEW q \in QueLines \ QueEmpty(b)
        PROVE  (num = b[q] \/ (q - c) * (q - c) = (b[q] - num) * (b[q] - num))
                 <=> QueAttacks(<<b[q], q>>, <<num, c>>)
    <2>1. PICK r : r = b[q]
      OBVIOUS
    <2>2. r \in Int /\ q \in Int /\ c \in Int /\ num \in Int /\ q # c
      BY <1>1, <2>1, QueNAssumption DEF QueBoards
    <2>3. (q - c) * (q - c) = (r - num) * (r - num) <=> (q - c = r - num \/ q - c = -(r - num))
      <3>1. q - c \in Int /\ r - num \in Int
        BY <2>2
      <3> QED
        BY ONLY <3>1, QueSquares
    <2>4. QueAttacks(<<r, q>>, <<num, c>>) <=>
            (r = num \/ q = c \/ r - q = num - c \/ r + q = num + c)
      BY <2>2 DEF QueAttacks
    <2>5. (q - c = r - num \/ q - c = -(r - num)) <=> (r - q = num - c \/ r + q = num + c)
      BY ONLY <2>2
    <2>6. (num = r \/ (q - c) * (q - c) = (r - num) * (r - num)) <=> QueAttacks(<<r, q>>, <<num, c>>)
      BY ONLY <2>2, <2>3, <2>4, <2>5, Zenon
    <2> QED
      BY <2>1, <2>6
  <1> QED
    BY <1>2 DEF QueConflict, QueOn

LEMMA QueLinesAre ==
    /\ QueN \in Nat \ {0} /\ QueLines \subseteq Nat /\ 0 \notin QueLines
    /\ QueLines = 1 .. QueN /\ 0 .. QueN = {0} \cup QueLines
  BY QueNAssumption DEF QueLines

LEMMA QueFirstIs ==
    ASSUME NEW b, QueEmpty(b) # {}
    PROVE  QueFirst(b) \in QueEmpty(b) /\ \A e \in QueEmpty(b) : QueFirst(b) <= e
  <1>1. QueEmpty(b) \subseteq Nat
    BY QueLinesAre DEF QueEmpty
  <1>2. \E d \in QueEmpty(b) : \A e \in QueEmpty(b) : d <= e
    BY <1>1, LeastElement
  <1> QED
    BY <1>2 DEF QueFirst

QuePut(b, c, num) == [b EXCEPT ![c] = num]

LEMMA QuePlace ==
    ASSUME NEW b \in QueBoards, NEW c \in QueEmpty(b), NEW num \in QueLines,
           NEW d, d = QuePut(b, c, num)
    PROVE  /\ d \in QueBoards /\ QueOn(d) = QueOn(b) \cup {<<num, c>>}
           /\ QueEmpty(d) = QueEmpty(b) \ {c}
           /\ \A e \in QueLines : d[e] = IF e = c THEN num ELSE b[e]
  <1>1. c \in QueLines /\ num \in 0 .. QueN /\ num # 0
    BY QueLinesAre DEF QueEmpty
  <1>2. \A e \in QueLines : d[e] = IF e = c THEN num ELSE b[e]
    BY <1>1 DEF QueBoards, QuePut
  <1>3. d \in QueBoards
    BY <1>1 DEF QueBoards, QuePut
  <1>4. QueEmpty(d) = QueEmpty(b) \ {c}
    BY <1>1, <1>2 DEF QueEmpty
  <1>5. QueLines \ QueEmpty(d) = (QueLines \ QueEmpty(b)) \cup {c}
    BY <1>1, <1>4
  <1>6. QueOn(d) = QueOn(b) \cup {<<num, c>>}
    BY <1>2, <1>5 DEF QueOn
  <1> QED
    BY <1>2, <1>3, <1>4, <1>6

LEMMA QueAttacksBack ==
    ASSUME NEW p \in Int \X Int, NEW q \in Int \X Int
    PROVE  QueAttacks(p, q) <=> QueAttacks(q, p)
  BY DEF QueAttacks

LEMMA QueOnCells ==
    ASSUME NEW b \in QueBoards
    PROVE  QueOn(b) \subseteq QueCells /\ QueCells \subseteq Int \X Int
  <1>1. \A c \in QueLines \ QueEmpty(b) : b[c] \in QueLines
    BY QueLinesAre DEF QueEmpty, QueBoards
  <1>2. QueOn(b) \subseteq QueCells
    BY <1>1 DEF QueOn, QueCells
  <1>3. QueLines \subseteq Int
    BY QueLinesAre
  <1>4. QueCells \subseteq Int \X Int
    BY ONLY <1>3 DEF QueCells
  <1> QED
    BY <1>2, <1>4

\* A row without conflict is safe.
LEMMA QuePlacePeaceful ==
    ASSUME NEW b \in QueBoards, NEW c \in QueEmpty(b), NEW num \in QueLines,
           ~QueConflict(b, c, num), QuePeaceful(QueOn(b)),
           NEW d, d = QuePut(b, c, num)
    PROVE  QuePeaceful(QueOn(d))
  <1>1. QueOn(d) = QueOn(b) \cup {<<num, c>>}
    BY QuePlace
  <1>2. PICK x : x = <<num, c>>
    OBVIOUS
  <1>3. \A p \in QueOn(b) : ~QueAttacks(p, x)
    BY <1>2, QueConflictIs
  <1>4. x \in Int \X Int /\ QueOn(b) \subseteq Int \X Int
    <2>1. x \in QueCells
      BY <1>2 DEF QueCells, QueEmpty
    <2> QED
      BY <2>1, QueOnCells
  <1>5. \A p \in QueOn(b) : ~QueAttacks(x, p)
    BY <1>3, <1>4, QueAttacksBack
  <1>6. ~QueAttacks(x, x)
    BY DEF QueAttacks
  <1> QED
    BY <1>1, <1>2, <1>3, <1>5, <1>6 DEF QuePeaceful

\* No row of a solution has a conflict.
LEMMA QueSolutionFits ==
    ASSUME NEW Q, NEW f \in QueSolutions(Q), NEW b \in QueBoards, QueExtends(f, b), NEW c \in QueEmpty(b)
    PROVE  f[c] \in QueLines /\ ~QueConflict(b, c, f[c])
  <1>1. c \in QueLines /\ f \in [QueLines -> QueLines]
    BY DEF QueEmpty, QueSolutions
  <1>2. f[c] \in QueLines
    BY <1>1
  <1>3. QuePeaceful({<<f[e], e>> : e \in QueLines})
    BY DEF QueSolutions
  <1>4. ASSUME NEW p \in QueOn(b) PROVE ~QueAttacks(p, <<f[c], c>>)
    <2>1. PICK e \in QueLines \ QueEmpty(b) : p = <<b[e], e>>
      BY <1>4 DEF QueOn
    <2>2. b[e] = f[e]
      BY <2>1 DEF QueExtends, QueEmpty
    <2> QED
      BY <1>1, <1>3, <2>1, <2>2 DEF QuePeaceful
  <1>5. ~ \E p \in QueOn(b) : QueAttacks(p, <<f[c], c>>)
    BY <1>4
  <1> QED
    BY <1>2, <1>5, QueConflictIs

\* Peaceful queens have columns and rows of their own.
LEMMA QueOwnLines ==
    ASSUME NEW Q \in SUBSET QueCells, QuePeaceful(Q), NEW p \in Q, NEW q \in Q,
           p[1] = q[1] \/ p[2] = q[2]
    PROVE  p = q
  BY DEF QuePeaceful, QueAttacks

LEMMA QueFullFound ==
    ASSUME NEW b \in QueBoards, QueEmpty(b) = {}, QuePeaceful(QueOn(b)),
           queWhole => queGiven \subseteq QueOn(b)
    PROVE  QueFound(QueOn(b)) /\ b \in [QueLines -> QueLines]
  <1>1. b \in [QueLines -> QueLines]
    BY QueLinesAre DEF QueBoards, QueEmpty
  <1>2. QueOn(b) = {<<b[c], c>> : c \in QueLines}
    BY DEF QueOn
  <1> QED
    BY <1>1, <1>2 DEF QueFound

\* As many columns as rows: a peaceful full board has a queen in each row.
LEMMA QueEachRow ==
    ASSUME NEW b \in [QueLines -> QueLines], QuePeaceful({<<b[c], c>> : c \in QueLines}), NEW r \in QueLines
    PROVE  \E d \in QueLines : b[d] = r
  <1>1. IsFiniteSet(QueLines)
    <2>1. QueN \in Int /\ 1 \in Int
      BY QueLinesAre
    <2>2. IsFiniteSet(1 .. QueN)
      BY ONLY <2>1, FS_Interval
    <2> QED
      BY <2>2 DEF QueLines
  <1>2. \A c, d \in QueLines : b[c] = b[d] => c = d
    <2> SUFFICES ASSUME NEW c \in QueLines, NEW d \in QueLines, b[c] = b[d], c # d PROVE FALSE
      OBVIOUS
    <2>1. <<b[c], c>> # <<b[d], d>> /\ <<b[c], c>>[1] = <<b[d], d>>[1]
      OBVIOUS
    <2> QED
      BY <2>1 DEF QuePeaceful, QueAttacks
  <1>3. b \in Injection(QueLines, QueLines)
    BY <1>2 DEF Injection, IsInjective
  <1>4. b \in Surjection(QueLines, QueLines)
    BY ONLY <1>1, <1>3, FS_Injection
  <1> QED
    BY <1>4 DEF Surjection

LEMMA QueTargetIs ==
    ASSUME NEW b \in [QueLines -> QueLines], QuePeaceful({<<b[c], c>> : c \in QueLines}),
           NEW t, t = [r \in QueLines |-> <<r, CHOOSE d \in QueLines : b[d] = r>>]
    PROVE  t \in Seq(QueCells) /\ t # <<>> /\ Range(t) = {<<b[c], c>> : c \in QueLines}
  <1> DEFINE col(r) == CHOOSE d \in QueLines : b[d] = r
  <1>1. \A r \in QueLines : col(r) \in QueLines /\ b[col(r)] = r
    BY QueEachRow
  <1>2. \A c \in QueLines : b[c] \in QueLines /\ col(b[c]) = c
    <2> SUFFICES ASSUME NEW c \in QueLines, col(b[c]) # c PROVE FALSE
      OBVIOUS
    <2>1. PICK d : d = col(b[c])
      OBVIOUS
    <2>2. d \in QueLines /\ b[d] = b[c] /\ d # c
      BY <1>1, <2>1
    <2>3. <<b[c], c>> # <<b[d], d>> /\ <<b[c], c>>[1] = <<b[d], d>>[1]
      BY <2>2
    <2> QED
      BY <2>2, <2>3 DEF QuePeaceful, QueAttacks
  <1>3. PICK g : g = [r \in QueLines |-> col(r)]
    OBVIOUS
  <1> HIDE DEF col
  <1>4. /\ \A r \in QueLines : g[r] \in QueLines /\ b[g[r]] = r
        /\ \A c \in QueLines : b[c] \in QueLines /\ g[b[c]] = c
    BY <1>1, <1>2, <1>3
  <1>5. t = [r \in QueLines |-> <<r, g[r]>>]
    BY <1>3 DEF col
  <1>6. t \in Seq(QueCells) /\ Len(t) = QueN
    <2>1. t = [r \in 1 .. QueN |-> <<r, g[r]>>] /\ QueN \in Nat /\ QueLines = 1 .. QueN
      BY <1>5, QueLinesAre
    <2>2. \A r \in 1 .. QueN : <<r, g[r]>> \in QueCells
      BY <1>4, <2>1 DEF QueCells
    <2> QED
      BY ONLY <2>1, <2>2
  <1>7. Range(t) = {<<b[c], c>> : c \in QueLines}
    <2>1. Range(t) = {<<r, g[r]>> : r \in QueLines}
      <3>1. DOMAIN t = QueLines /\ \A r \in QueLines : t[r] = <<r, g[r]>>
        BY <1>5
      <3> QED
        BY ONLY <3>1 DEF Range
    <2>2. \A r \in QueLines : <<r, g[r]>> \in {<<b[c], c>> : c \in QueLines}
      BY ONLY <1>4
    <2>3. \A c \in QueLines : <<b[c], c>> \in {<<r, g[r]>> : r \in QueLines}
      BY ONLY <1>4
    <2> QED
      BY ONLY <2>1, <2>2, <2>3
  <1> QED
    BY <1>6, <1>7, QueLinesAre

LEMMA QueLinesFinite == IsFiniteSet(QueLines) /\ Cardinality(QueLines) = QueN
  <1>1. QueN \in Int /\ 1 \in Int /\ ~(1 > QueN) /\ (QueN - 1) + 1 = QueN
    BY QueLinesAre
  <1>2. IsFiniteSet(1 .. QueN) /\ Cardinality(1 .. QueN) = (QueN - 1) + 1
    BY ONLY <1>1, FS_Interval
  <1> QED
    BY <1>1, <1>2 DEF QueLines

\* A complete peaceful board of the server is right.
LEMMA QueFoundRight ==
    ASSUME NEW S, QueFound(S), queWhole
    PROVE  /\ queGiven \cup S = S /\ Cardinality(S) = QueN /\ QuePeaceful(S)
           /\ QueSolutions(queGiven) # {}
  <1>1. PICK f \in [QueLines -> QueLines] :
            /\ S = {<<f[c], c>> : c \in QueLines} /\ QuePeaceful(S)
            /\ queGiven \subseteq S
    BY DEF QueFound
  <1>2. f \in QueSolutions(queGiven)
    BY <1>1 DEF QueSolutions
  <1> DEFINE g == [c \in QueLines |-> <<f[c], c>>]
  <1>3. g \in Bijection(QueLines, S)
    BY <1>1 DEF Bijection, Injection, Surjection, IsInjective
  <1>4. ExistsBijection(QueLines, S)
    BY <1>3 DEF ExistsBijection
  <1>5. Cardinality(S) = QueN
    BY <1>4, QueLinesFinite, FS_Bijection
  <1> QED
    BY <1>1, <1>2, <1>5

\* As many peaceful queens as columns complete the board themselves.
LEMMA QueGivenRight ==
    ASSUME NEW Q \in SUBSET QueCells, QuePeaceful(Q), Cardinality(Q) = QueN
    PROVE  QueSolutions(Q) # {}
  <1>1. PICK g : g = [p \in Q |-> p[2]]
    OBVIOUS
  <1>2. \A p \in Q : p[1] \in QueLines /\ p[2] \in QueLines /\ p = <<p[1], p[2]>>
    BY DEF QueCells
  <1>3. g \in Injection(Q, QueLines)
    <2>1. g \in [Q -> QueLines]
      BY <1>1, <1>2
    <2>2. \A p, q \in Q : g[p] = g[q] => p = q
      BY <1>1, QueOwnLines
    <2> QED
      BY <2>1, <2>2 DEF Injection, IsInjective
  <1>4. g \in Surjection(Q, QueLines)
    BY <1>3, QueLinesFinite, FS_Injection
  <1>5. \A c \in QueLines : \E p \in Q : p[2] = c
    BY <1>1, <1>4 DEF Surjection
  <1>6. PICK h : h = [c \in QueLines |-> CHOOSE p \in Q : p[2] = c]
    OBVIOUS
  <1>7. \A c \in QueLines : h[c] \in Q /\ h[c][2] = c
    BY <1>5, <1>6
  <1>8. PICK f : f = [c \in QueLines |-> h[c][1]]
    OBVIOUS
  <1>9. \A c \in QueLines : f[c] \in QueLines /\ <<f[c], c>> = h[c]
    BY <1>2, <1>7, <1>8
  <1>10. \A p \in Q : h[p[2]] = p
    <2> SUFFICES ASSUME NEW p \in Q PROVE h[p[2]] = p
      OBVIOUS
    <2>1. h[p[2]] \in Q /\ h[p[2]][2] = p[2]
      BY <1>2, <1>7
    <2> QED
      BY <2>1, QueOwnLines
  <1>11. Q = {<<f[c], c>> : c \in QueLines}
    <2>1. \A c \in QueLines : <<f[c], c>> \in Q
      BY <1>7, <1>9
    <2>2. \A p \in Q : p \in {<<f[c], c>> : c \in QueLines}
      BY <1>2, <1>9, <1>10
    <2> QED
      BY <2>1, <2>2
  <1>12. f \in [QueLines -> QueLines]
    BY <1>8, <1>9
  <1>13. f \in QueSolutions(Q)
    BY <1>11, <1>12 DEF QueSolutions
  <1> QED
    BY <1>13

\* What arrived of the board, as an array of columns.
LEMMA QueColumnsIs ==
    ASSUME NEW Q \in SUBSET QueCells, QuePeaceful(Q), NEW b, b = QueColumns(Q)
    PROVE  b \in QueBoards /\ QueOn(b) = Q
  <1> DEFINE rows(c) == {r \in QueLines : <<r, c>> \in Q}
             least(c) == CHOOSE r \in rows(c) : \A s \in rows(c) : r <= s
  <1>1. \A c \in QueLines : rows(c) # {} => least(c) \in rows(c)
    <2> SUFFICES ASSUME NEW c \in QueLines, rows(c) # {} PROVE least(c) \in rows(c)
      OBVIOUS
    <2>1. rows(c) \subseteq Nat
      BY QueLinesAre
    <2>2. \E r \in rows(c) : \A s \in rows(c) : r <= s
      <3> HIDE DEF rows
      <3> QED
        BY <2>1, LeastElement
    <2> QED
      BY <2>2
  <1>2. b = [c \in QueLines |-> IF rows(c) = {} THEN 0 ELSE least(c)]
    BY DEF QueColumns
  <1> HIDE DEF least
  <1>3. \A c \in QueLines : b[c] = IF rows(c) = {} THEN 0 ELSE least(c)
    BY <1>2
  <1>4. \A c \in QueLines : b[c] \in 0 .. QueN
    BY <1>1, <1>3, QueLinesAre
  <1>5. b \in QueBoards
    <2>1. DOMAIN b = QueLines /\ b = [c \in QueLines |-> b[c]]
      BY <1>2
    <2> QED
      BY ONLY <1>4, <2>1 DEF QueBoards
  <1>6. \A c \in QueLines : b[c] # 0 <=> rows(c) # {}
    BY <1>1, <1>3, QueLinesAre
  <1>7. \A c \in QueLines : b[c] # 0 => <<b[c], c>> \in Q
    BY <1>1, <1>3, <1>6
  <1>8. \A p \in Q : p[2] \in QueLines /\ b[p[2]] # 0 /\ p = <<b[p[2]], p[2]>>
    <2> SUFFICES ASSUME NEW p \in Q PROVE p[2] \in QueLines /\ b[p[2]] # 0 /\ p = <<b[p[2]], p[2]>>
      OBVIOUS
    <2>1. p[1] \in QueLines /\ p[2] \in QueLines /\ p = <<p[1], p[2]>>
      BY DEF QueCells
    <2>2. p[1] \in rows(p[2])
      BY <2>1
    <2>3. b[p[2]] # 0 /\ <<b[p[2]], p[2]>> \in Q
      BY <1>6, <1>7, <2>1, <2>2
    <2>4. <<b[p[2]], p[2]>>[2] = p[2]
      OBVIOUS
    <2>5. p = <<b[p[2]], p[2]>>
      BY <2>3, <2>4, QueOwnLines
    <2> QED
      BY <2>1, <2>3, <2>5
  <1>9. QueOn(b) = Q
    <2>1. QueOn(b) = {<<b[c], c>> : c \in {d \in QueLines : b[d] # 0}}
      BY DEF QueOn, QueEmpty
    <2>2. QueOn(b) \subseteq Q
      BY <1>7, <2>1
    <2>3. \A p \in Q : p \in QueOn(b)
      BY <1>8, <2>1
    <2> QED
      BY <2>2, <2>3
  <1> QED
    BY <1>5, <1>9

LEMMA QueReadReaches ==
    ASSUME NEW Q \in SUBSET QueCells, QuePeaceful(Q), NEW f \in QueSolutions(Q)
    PROVE  QueReach(f, QueFrame(QueColumns(Q)))
  <1>1. PICK b : b = QueColumns(Q)
    OBVIOUS
  <1>2. b \in QueBoards /\ QueOn(b) = Q
    BY <1>1, QueColumnsIs
  <1>3. f \in [QueLines -> QueLines] /\ Q \subseteq {<<f[c], c>> : c \in QueLines}
    BY DEF QueSolutions
  <1>4. QueExtends(f, b)
    <2> SUFFICES ASSUME NEW c \in QueLines, b[c] # 0 PROVE b[c] = f[c]
      BY DEF QueExtends
    <2>1. <<b[c], c>> \in Q
      BY <1>2 DEF QueOn, QueEmpty
    <2> QED
      BY <1>3, <2>1
  <1>5. QueEmpty(b) # {} => f[QueFirst(b)] > 0
    <2> SUFFICES ASSUME QueEmpty(b) # {} PROVE f[QueFirst(b)] > 0
      OBVIOUS
    <2>1. QueFirst(b) \in QueLines
      BY QueFirstIs DEF QueEmpty
    <2>2. f[QueFirst(b)] \in QueLines
      BY <1>3, <2>1
    <2> QED
      BY <2>2, QueLinesAre
  <1> QED
    BY <1>1, <1>4, <1>5 DEF QueReach, QueFrame

LEMMA QueInitInv == QueInit => QueInv
  <1>1. <<>> \in Seq(QueFrames) /\ <<>> \in Seq(QueCells) /\ DOMAIN <<>> = {}
    OBVIOUS
  <1>2. QuePeaceful({})
    BY DEF QuePeaceful
  <1> QED
    BY <1>1, <1>2 DEF QueInit, QueInv, QueVerdictRight

LEMMA QueStartStep == ASSUME QueInv, QueStart PROVE QueInv'
  <1>1. queStack = <<>> /\ queMarked = {} /\ DOMAIN <<>> = {}
    BY DEF QueInv, QueStart
  <1>2. queGiven' \subseteq QueCells /\ QuePeaceful(queGiven)'
    <2>1. PICK Q \in {{}} \cup {{p, q} : p, q \in QueCells} : QuePeaceful(Q) /\ queGiven' = Q
      BY DEF QueStart
    <2>2. Q \subseteq QueCells
      BY <2>1
    <2> QED
      BY <2>1, <2>2 DEF QuePeaceful
  <1>3. QuePeaceful(queMarked)'
    BY DEF QueInv, QueStart, QuePeaceful
  <1> QED
    BY <1>1, <1>2, <1>3 DEF QueInv, QueStart, QueVerdictRight

LEMMA QueReadStep == ASSUME QueInv, QueRead PROVE QueInv'
  <1>1. PICK n \in 0 .. QueN * QueN :
          LET got == {p \in queGiven : (p[1] - 1) * QueN + p[2] <= n}
          IN  /\ queWhole' = (got = queGiven)
              /\ queStack' = <<QueFrame(QueColumns(got))>>
    BY DEF QueRead
  <1>2. PICK got : got = {p \in queGiven : (p[1] - 1) * QueN + p[2] <= n}
    OBVIOUS
  <1>3. queWhole' = (got = queGiven) /\ queStack' = <<QueFrame(QueColumns(got))>>
    BY <1>1, <1>2
  <1>4. UNCHANGED <<queGiven, queTarget, queMarked, queVerdict>> /\ quePc' = "solve" /\ queMarked = {}
    BY DEF QueRead, QueInv
  <1>5. got \in SUBSET QueCells /\ QuePeaceful(got)
    BY <1>2 DEF QueInv, QuePeaceful
  <1>6. PICK x : x = QueFrame(QueColumns(got))
    OBVIOUS
  <1>7. x.board \in QueBoards /\ QueOn(x.board) = got /\ x \in QueFrames
    <2>1. QueColumns(got) \in QueBoards /\ QueOn(QueColumns(got)) = got
      BY <1>5, QueColumnsIs
    <2>2. x.board = QueColumns(got) /\ 0 \in 0 .. QueN
      BY <1>6, QueLinesAre DEF QueFrame
    <2> QED
      BY <1>6, <2>1, <2>2 DEF QueFrame, QueFrames
  <1>8. queStack' = <<x>> /\ <<x>> \in Seq(QueFrames) /\ DOMAIN <<x>> = {1} /\ <<x>>[1] = x
    <2>1. DOMAIN <<x>> = 1 .. 1
      OBVIOUS
    <2> QED
      BY <1>3, <1>6, <1>7, <2>1
  <1>9. \A i \in DOMAIN queStack' : QueFrameSound(queStack[i])'
    BY <1>3, <1>4, <1>5, <1>7, <1>8 DEF QueFrameSound, QuePeaceful
  <1>10. queWhole' => \A f \in QueSolutions(queGiven') : \E i \in DOMAIN queStack' : QueReach(f, queStack'[i])
    <2> SUFFICES ASSUME queWhole', NEW f \in QueSolutions(queGiven') PROVE QueReach(f, queStack'[1])
      BY <1>8
    <2>1. got = queGiven
      BY <1>3
    <2>2. f \in QueSolutions(got)
      BY <1>4, <2>1
    <2>3. QueReach(f, QueFrame(QueColumns(got)))
      BY <1>5, <2>2, QueReadReaches
    <2> QED
      BY <1>6, <1>8, <2>3
  <1>11. QuePeaceful(queMarked)' /\ QuePeaceful(queGiven)'
    BY <1>4 DEF QueInv, QuePeaceful
  <1>12. \A f \in QueSolutions(queGiven)' : \A y : QueReach(f, y) <=> QueReach(f, y)
    OBVIOUS
  <1> QED
    BY <1>4, <1>8, <1>9, <1>10, <1>11 DEF QueInv, QueVerdictRight

\* The frame on top.
LEMMA QueTop ==
    ASSUME QueInv, queStack # <<>>, NEW n, n = Len(queStack), NEW b, b = queStack[n].board
    PROVE  /\ n \in Nat \ {0} /\ DOMAIN queStack = 1 .. n /\ n \in DOMAIN queStack
           /\ queStack[n] \in QueFrames /\ b \in QueBoards /\ queStack[n].num \in 0 .. QueN
           /\ QuePeaceful(QueOn(b)) /\ (queWhole => queGiven \subseteq QueOn(b))
  <1>1. n \in Nat \ {0} /\ DOMAIN queStack = 1 .. n
    BY DEF QueInv
  <1>2. n \in DOMAIN queStack /\ queStack[n] \in QueFrames
    BY <1>1 DEF QueInv
  <1> QED
    BY <1>1, <1>2 DEF QueInv, QueFrameSound, QueFrames

\* A full board.
LEMMA QueFullStep ==
    ASSUME QueInv, quePc = "solve", queStack # <<>>, NEW b, b = queStack[Len(queStack)].board,
           QueEmpty(b) = {}, quePc' = "mark",
           queTarget' = [r \in QueLines |-> <<r, CHOOSE d \in QueLines : b[d] = r>>],
           UNCHANGED <<queStack, queGiven, queWhole, queMarked, queVerdict>>
    PROVE  QueInv'
  <1>1. b \in QueBoards /\ QuePeaceful(QueOn(b)) /\ (queWhole => queGiven \subseteq QueOn(b))
    BY QueTop
  <1>2. QueFound(QueOn(b)) /\ b \in [QueLines -> QueLines]
    BY <1>1, QueFullFound
  <1>3. QueOn(b) = {<<b[c], c>> : c \in QueLines}
    BY DEF QueOn
  <1>4. PICK t : t = [r \in QueLines |-> <<r, CHOOSE d \in QueLines : b[d] = r>>]
    OBVIOUS
  <1>5. t \in Seq(QueCells) /\ t # <<>> /\ Range(t) = QueOn(b)
    BY <1>1, <1>2, <1>3, <1>4, QueTargetIs
  <1>6. queTarget' = t /\ queMarked' = {} /\ queMarked = {}
    BY <1>4 DEF QueInv
  <1>7. QueFound(queMarked \cup Range(queTarget))'
    <2>1. queMarked' \cup Range(queTarget') = QueOn(b)
      BY <1>5, <1>6
    <2>2. \E f \in [QueLines -> QueLines] :
            /\ QueOn(b) = {<<f[c], c>> : c \in QueLines} /\ QuePeaceful(QueOn(b))
            /\ queWhole' => queGiven' \subseteq QueOn(b)
      BY <1>2 DEF QueFound
    <2> QED
      BY <2>1, <2>2 DEF QueFound
  <1>8. \A i \in DOMAIN queStack' : QueFrameSound(queStack[i])'
    BY DEF QueInv, QueFrameSound
  <1>9. QuePeaceful(queMarked)' /\ QuePeaceful(queGiven)'
    BY DEF QueInv, QuePeaceful
  <1> QED
    BY <1>5, <1>6, <1>7, <1>8, <1>9 DEF QueInv, QueVerdictRight

\* No row left: the call returns false, and no solution is lost.
LEMMA QueBackStep ==
    ASSUME QueInv, quePc = "solve", queStack # <<>>, NEW n, n = Len(queStack),
           NEW b, b = queStack[n].board, NEW c, c = QueFirst(b), QueEmpty(b) # {},
           \A r \in QueLines : r > queStack[n].num => QueConflict(b, c, r),
           queStack' = SubSeq(queStack, 1, n - 1),
           UNCHANGED <<quePc, queTarget, queGiven, queWhole, queMarked, queVerdict>>
    PROVE  QueInv'
  <1>1. /\ n \in Nat \ {0} /\ DOMAIN queStack = 1 .. n /\ b \in QueBoards /\ n \in DOMAIN queStack
        /\ queStack[n] \in QueFrames
    BY QueTop
  <1>2. c \in QueEmpty(b)
    BY QueFirstIs
  <1>3. PICK s : s = SubSeq(queStack, 1, n - 1)
    OBVIOUS
  <1>4. /\ s \in Seq(QueFrames) /\ DOMAIN s = 1 .. n - 1
        /\ \A i \in 1 .. n - 1 : s[i] = queStack[i] /\ i \in DOMAIN queStack
    <2>1. queStack \in Seq(QueFrames) /\ 1 \in 1 .. n + 1 /\ n - 1 \in 0 .. n
      BY <1>1 DEF QueInv
    <2>2. /\ s \in Seq(QueFrames) /\ Len(s) = n - 1
          /\ \A i \in 1 .. n - 1 : s[i] = queStack[i]
      BY <1>1, <1>3, <2>1
    <2> QED
      BY <1>1, <2>2
  <1>5. queWhole => \A f \in QueSolutions(queGiven) : \E i \in DOMAIN s : QueReach(f, s[i])
    <2> SUFFICES ASSUME queWhole, NEW f \in QueSolutions(queGiven) PROVE \E i \in DOMAIN s : QueReach(f, s[i])
      OBVIOUS
    <2>1. PICK i \in DOMAIN queStack : QueReach(f, queStack[i])
      BY DEF QueInv
    <2>2. i # n
      <3> SUFFICES ASSUME i = n PROVE FALSE
        OBVIOUS
      <3>1. QueExtends(f, b) /\ f[c] > queStack[n].num
        BY <2>1 DEF QueReach
      <3>2. f[c] \in QueLines /\ ~QueConflict(b, c, f[c])
        BY <1>1, <1>2, <3>1, QueSolutionFits
      <3> QED
        BY <3>1, <3>2
    <2>3. i \in 1 .. n - 1
      BY <1>1, <2>2
    <2> QED
      BY <1>4, <2>1, <2>3
  <1>6. queStack' = s
    BY <1>3
  <1>7. \A i \in DOMAIN s : QueFrameSound(s[i])
    BY <1>1, <1>4 DEF QueInv
  <1>8. \A i \in DOMAIN s : i > 1 => QueExtends(s[i].board, s[i - 1].board)
    <2> SUFFICES ASSUME NEW i \in 1 .. n - 1, i > 1 PROVE QueExtends(s[i].board, s[i - 1].board)
      BY <1>4
    <2>1. i \in 1 .. n - 1 /\ i - 1 \in 1 .. n - 1
      BY <1>1
    <2> QED
      BY <1>4, <2>1 DEF QueInv
  <1>9. \A i \in DOMAIN queStack' : QueFrameSound(queStack[i])'
    BY <1>6, <1>7 DEF QueFrameSound
  <1>10. QuePeaceful(queMarked)' /\ QuePeaceful(queGiven)'
    BY DEF QueInv, QuePeaceful
  <1> QED
    BY <1>4, <1>5, <1>6, <1>8, <1>9, <1>10 DEF QueInv, QueVerdictRight

\* The next row without conflict: a call for the board with it.
LEMMA QueDeeperStep ==
    ASSUME QueInv, quePc = "solve", queStack # <<>>, NEW n, n = Len(queStack),
           NEW b, b = queStack[n].board, NEW c, c = QueFirst(b), QueEmpty(b) # {},
           NEW num \in QueLines, num > queStack[n].num, ~QueConflict(b, c, num),
           \A r \in QueLines : r > queStack[n].num /\ ~QueConflict(b, c, r) => num <= r,
           queStack' = Append([queStack EXCEPT ![n].num = num], QueFrame(QuePut(b, c, num))),
           UNCHANGED <<quePc, queTarget, queGiven, queWhole, queMarked, queVerdict>>
    PROVE  QueInv'
  <1>1. /\ n \in Nat \ {0} /\ DOMAIN queStack = 1 .. n /\ b \in QueBoards /\ n \in DOMAIN queStack
        /\ queStack[n] \in QueFrames
        /\ QuePeaceful(QueOn(b)) /\ (queWhole => queGiven \subseteq QueOn(b))
    BY QueTop
  <1>2. c \in QueEmpty(b) /\ \A e \in QueEmpty(b) : c <= e
    BY QueFirstIs
  <1>3. PICK d : d = QuePut(b, c, num)
    OBVIOUS
  <1>4. /\ d \in QueBoards /\ QueOn(d) = QueOn(b) \cup {<<num, c>>}
        /\ \A e \in QueLines : d[e] = IF e = c THEN num ELSE b[e]
    BY <1>1, <1>2, <1>3, QuePlace
  <1>5. QuePeaceful(QueOn(d))
    BY <1>1, <1>2, <1>3, QuePlacePeaceful
  <1>6. PICK x, y, t : /\ x = [queStack[n] EXCEPT !.num = num] /\ y = QueFrame(d)
                       /\ t = [queStack EXCEPT ![n] = x]
    OBVIOUS
  <1>7. x \in QueFrames /\ x.board = b /\ x.num = num /\ y \in QueFrames /\ y.board = d /\ y.num = 0
    BY <1>1, <1>4, <1>6, QueLinesAre DEF QueFrames, QueFrame
  <1>8. /\ t \in Seq(QueFrames) /\ Len(t) = n
        /\ \A i \in 1 .. n : t[i] = IF i = n THEN x ELSE queStack[i]
    <2>1. queStack \in Seq(QueFrames)
      BY DEF QueInv
    <2> QED
      BY <1>1, <1>6, <1>7, <2>1
  <1>9. PICK s : s = Append(t, y)
    OBVIOUS
  <1>10. queStack' = s
    BY <1>3, <1>6, <1>9
  <1>11. /\ s \in Seq(QueFrames) /\ DOMAIN s = 1 .. n + 1 /\ s[n + 1] = y
         /\ \A i \in 1 .. n : s[i] = IF i = n THEN x ELSE queStack[i]
    <2>1. s \in Seq(QueFrames) /\ Len(s) = n + 1 /\ s[n + 1] = y /\ \A i \in 1 .. n : s[i] = t[i]
      BY ONLY <1>7, <1>8, <1>9, AppendProperties
    <2> QED
      BY <1>1, <1>8, <2>1
  <1>12. \A i \in 1 .. n + 1 : i \in 1 .. n \/ i = n + 1
    BY <1>1
  <1>13. \A i \in 1 .. n : s[i].board = queStack[i].board
    BY <1>7, <1>11
  <1>14. \A i \in DOMAIN s : QueFrameSound(s[i])
    <2>1. QueFrameSound(y)
      BY <1>1, <1>4, <1>5, <1>7 DEF QueFrameSound
    <2>2. \A i \in 1 .. n : QueFrameSound(s[i])
      BY <1>1, <1>13 DEF QueInv, QueFrameSound
    <2> QED
      BY <1>11, <1>12, <2>1, <2>2
  <1>15. \A i \in DOMAIN s : i > 1 => QueExtends(s[i].board, s[i - 1].board)
    <2> SUFFICES ASSUME NEW i \in 1 .. n + 1, i > 1 PROVE QueExtends(s[i].board, s[i - 1].board)
      BY <1>11
    <2>1. CASE i \in 1 .. n
      <3>1. i - 1 \in 1 .. n
        BY <1>1, <2>1
      <3> QED
        BY <1>1, <1>13, <2>1, <3>1 DEF QueInv
    <2>2. CASE i = n + 1
      <3>1. i - 1 = n /\ n \in 1 .. n
        BY <1>1, <2>2
      <3>2. s[i].board = d /\ s[i - 1].board = b
        BY <1>7, <1>11, <2>2, <3>1
      <3>3. QueExtends(d, b)
        BY <1>2, <1>4 DEF QueExtends, QueEmpty
      <3> QED
        BY <3>2, <3>3
    <2> QED
      BY <1>12, <2>1, <2>2
  <1>16. queWhole => \A f \in QueSolutions(queGiven) : \E i \in DOMAIN s : QueReach(f, s[i])
    <2> SUFFICES ASSUME queWhole, NEW f \in QueSolutions(queGiven) PROVE \E i \in DOMAIN s : QueReach(f, s[i])
      OBVIOUS
    <2>1. PICK i \in DOMAIN queStack : QueReach(f, queStack[i])
      BY DEF QueInv
    <2>2. CASE i # n
      <3>1. s[i] = queStack[i] /\ i \in DOMAIN s
        BY <1>1, <1>11, <2>2
      <3> QED
        BY <2>1, <3>1
    <2>3. CASE i = n
      <3>1. QueExtends(f, b) /\ f[c] > queStack[n].num
        BY <2>1, <2>3 DEF QueReach
      <3>2. f[c] \in QueLines /\ ~QueConflict(b, c, f[c])
        BY <1>1, <1>2, <3>1, QueSolutionFits
      <3>3. num <= f[c]
        BY <3>1, <3>2
      <3>4. CASE f[c] = num
        <4>1. QueExtends(f, d)
          BY <1>4, <3>1, <3>4 DEF QueExtends
        <4>2. QueEmpty(d) # {} => f[QueFirst(d)] > 0
          <5> SUFFICES ASSUME QueEmpty(d) # {} PROVE f[QueFirst(d)] > 0
            OBVIOUS
          <5>1. QueFirst(d) \in QueLines
            BY QueFirstIs DEF QueEmpty
          <5>2. f[QueFirst(d)] \in QueLines
            BY <5>1 DEF QueSolutions
          <5> QED
            BY <5>2, QueLinesAre
        <4>3. QueReach(f, s[n + 1]) /\ n + 1 \in DOMAIN s
          BY <1>1, <1>7, <1>11, <4>1, <4>2 DEF QueReach
        <4> QED
          BY <4>3
      <3>5. CASE f[c] # num
        <4>1. f[c] > num
          BY <3>2, <3>3, <3>5, QueLinesAre
        <4>2. s[n] = x /\ n \in DOMAIN s
          BY <1>1, <1>11
        <4>3. QueReach(f, x)
          BY <1>7, <3>1, <4>1 DEF QueReach
        <4> QED
          BY <4>2, <4>3
      <3> QED
        BY <3>4, <3>5
    <2> QED
      BY <2>2, <2>3
  <1>17. \A i \in DOMAIN queStack' : QueFrameSound(queStack[i])'
    BY <1>10, <1>14 DEF QueFrameSound
  <1>18. QuePeaceful(queMarked)' /\ QuePeaceful(queGiven)'
    BY DEF QueInv, QuePeaceful
  <1> QED
    BY <1>10, <1>11, <1>15, <1>16, <1>17, <1>18 DEF QueInv, QueVerdictRight

\* The first call has returned false.
LEMMA QueNoStackStep ==
    ASSUME QueInv, quePc = "solve", queStack = <<>>, quePc' = "check",
           UNCHANGED <<queStack, queTarget, queGiven, queWhole, queMarked, queVerdict>>
    PROVE  QueInv'
  <1>1. DOMAIN queStack = {}
    <2>1. DOMAIN <<>> = {}
      OBVIOUS
    <2> QED
      BY <2>1
  <1>2. queMarked = {} /\ (queWhole => QueSolutions(queGiven) = {})
    BY <1>1 DEF QueInv
  <1>3. QueFailed'
    BY <1>2 DEF QueFailed, QueSolutions, QuePeaceful
  <1>4. QuePeaceful(queMarked)' /\ QuePeaceful(queGiven)'
    BY DEF QueInv, QuePeaceful
  <1> QED
    BY <1>1, <1>3, <1>4 DEF QueInv, QueVerdictRight

LEMMA QueSolveStep == ASSUME QueInv, QueSolve PROVE QueInv'
  <1>1. quePc = "solve" /\ UNCHANGED <<queGiven, queWhole, queMarked, queVerdict>>
    BY DEF QueSolve
  <1>2. CASE queStack = <<>>
    BY <1>1, <1>2, QueNoStackStep DEF QueSolve
  <1>3. CASE queStack # <<>>
    <2> DEFINE N == Len(queStack)
               B == queStack[N].board
               C == QueFirst(B)
               Free == {r \in QueLines : r > queStack[N].num /\ ~QueConflict(B, C, r)}
               Num == CHOOSE r \in Free : \A s \in Free : r <= s
    <2>1. \/ /\ QueEmpty(B) = {}
             /\ queTarget' = [r \in QueLines |-> <<r, CHOOSE d \in QueLines : B[d] = r>>]
             /\ quePc' = "mark" /\ UNCHANGED queStack
          \/ /\ QueEmpty(B) # {} /\ Free = {}
             /\ queStack' = QueReturnFalse(queStack)
             /\ UNCHANGED <<quePc, queTarget>>
          \/ /\ QueEmpty(B) # {} /\ Free # {}
             /\ queStack' = Append([queStack EXCEPT ![N].num = Num], QueFrame([B EXCEPT ![C] = Num]))
             /\ UNCHANGED <<quePc, queTarget>>
      BY <1>3, Zenon DEF QueSolve, QueFirst
    <2>2. PICK n, b, c, free : n = N /\ b = queStack[n].board /\ c = C /\ free = Free
      OBVIOUS
    <2>3. PICK num : num = Num
      OBVIOUS
    <2>4. free = {r \in QueLines : r > queStack[n].num /\ ~QueConflict(b, c, r)} /\ c = QueFirst(b)
      BY <2>2
    <2>5. \/ /\ QueEmpty(b) = {}
             /\ queTarget' = [r \in QueLines |-> <<r, CHOOSE d \in QueLines : b[d] = r>>]
             /\ quePc' = "mark" /\ UNCHANGED queStack
          \/ /\ QueEmpty(b) # {} /\ free = {}
             /\ queStack' = QueReturnFalse(queStack)
             /\ UNCHANGED <<quePc, queTarget>>
          \/ /\ QueEmpty(b) # {} /\ free # {}
             /\ queStack' = Append([queStack EXCEPT ![n].num = num], QueFrame(QuePut(b, c, num)))
             /\ UNCHANGED <<quePc, queTarget>>
      <3>1. b = B /\ n = N /\ c = C /\ free = Free
        BY <2>2
      <3> HIDE DEF Num, Free, C
      <3> QED
        BY <2>1, <2>3, <3>1 DEF QuePut
    <2>9. n = Len(queStack) /\ b = queStack[n].board /\ num = CHOOSE r \in free : \A s \in free : r <= s
      BY <2>2, <2>3
    <2> HIDE DEF N, B, C, Free, Num
    <2>6. CASE QueEmpty(b) = {}
      BY <1>1, <1>3, <2>5, <2>6, <2>9, QueFullStep
    <2>7. CASE QueEmpty(b) # {} /\ free = {}
      <3>1. queStack' = SubSeq(queStack, 1, n - 1) /\ UNCHANGED <<quePc, queTarget>>
        BY <2>5, <2>7, <2>9 DEF QueReturnFalse
      <3>2. \A r \in QueLines : r > queStack[n].num => QueConflict(b, c, r)
        BY <2>4, <2>7
      <3> QED
        BY <1>1, <1>3, <2>4, <2>7, <2>9, <3>1, <3>2, QueBackStep
    <2>8. CASE QueEmpty(b) # {} /\ free # {}
      <3>1. free \subseteq Nat
        BY <2>4, QueLinesAre
      <3>2. num \in free /\ \A s \in free : num <= s
        <4>1. \E r \in free : \A s \in free : r <= s
          BY <2>8, <3>1, LeastElement
        <4> QED
          BY <2>9, <4>1
      <3>3. /\ num \in QueLines /\ num > queStack[n].num /\ ~QueConflict(b, c, num)
            /\ \A r \in QueLines : r > queStack[n].num /\ ~QueConflict(b, c, r) => num <= r
        BY <2>4, <3>2
      <3>4. /\ queStack' = Append([queStack EXCEPT ![n].num = num], QueFrame(QuePut(b, c, num)))
            /\ UNCHANGED <<quePc, queTarget>>
        BY <2>5, <2>8
      <3> QED
        BY <1>1, <1>3, <2>4, <2>8, <2>9, <3>3, <3>4, QueDeeperStep
    <2> QED
      BY <2>6, <2>7, <2>8
  <1> QED
    BY <1>2, <1>3

LEMMA QueFoundPeaceful ==
    ASSUME NEW S, QueFound(S), NEW T \in SUBSET S
    PROVE  QuePeaceful(T)
  BY DEF QueFound, QuePeaceful

LEMMA QueMarkStep == ASSUME QueInv, QueMark PROVE QueInv'
  <1>1. quePc = "mark" /\ UNCHANGED <<queGiven, queWhole, queStack, queVerdict>>
    BY DEF QueMark
  <1>2. PICK t, m : t = queTarget /\ m = queMarked
    OBVIOUS
  <1>3. t \in Seq(QueCells) /\ t # <<>> /\ QueFound(m \cup Range(t))
    BY <1>1, <1>2 DEF QueInv
  <1>4. queTarget' = Tail(t) /\ queMarked' = m \cup {Head(t)}
    BY <1>2 DEF QueMark
  <1>5. PICK u : u = Tail(t)
    OBVIOUS
  <1>6. u \in Seq(QueCells) /\ Range(t) = {Head(t)} \cup Range(u) /\ (u = <<>> <=> Len(t) = 1)
    <2>1. PICK k : k = Len(t)
      OBVIOUS
    <2>2. k \in Nat \ {0} /\ DOMAIN t = 1 .. k /\ Head(t) = t[1]
      BY <1>3, <2>1
    <2>3. /\ u \in Seq(QueCells) /\ Len(u) = k - 1 /\ DOMAIN u = 1 .. k - 1
          /\ \A i \in 1 .. k - 1 : u[i] = t[i + 1]
      BY <1>3, <1>5, <2>1
    <2>4. \A i \in 1 .. k : i = 1 \/ (i - 1 \in 1 .. k - 1 /\ u[i - 1] = t[i])
      <3> SUFFICES ASSUME NEW i \in 1 .. k, i # 1 PROVE i - 1 \in 1 .. k - 1 /\ u[i - 1] = t[i]
        OBVIOUS
      <3>1. i - 1 \in 1 .. k - 1 /\ (i - 1) + 1 = i
        BY <2>2
      <3> QED
        BY <2>3, <3>1
    <2>5. \A i \in 1 .. k - 1 : i + 1 \in 1 .. k
      BY <2>2
    <2>6. Range(t) \subseteq {Head(t)} \cup Range(u)
      BY <2>2, <2>3, <2>4 DEF Range
    <2>7. Head(t) \in Range(t)
      <3>1. 1 \in 1 .. k
        BY <2>2
      <3> QED
        BY <2>2, <3>1 DEF Range
    <2>8. Range(u) \subseteq Range(t)
      BY <2>2, <2>3, <2>5 DEF Range
    <2>9. u = <<>> <=> k = 1
      BY <2>2, <2>3
    <2> QED
      BY <2>1, <2>3, <2>6, <2>7, <2>8, <2>9
  <1>7. queMarked' \cup Range(u) = m \cup Range(t)
    BY <1>4, <1>6
  <1>8. QueFound(queMarked \cup Range(queTarget))'
    <2>1. queMarked' \cup Range(queTarget') = m \cup Range(t)
      BY <1>4, <1>5, <1>7
    <2> QED
      BY <1>1, <1>3, <2>1 DEF QueFound, QuePeaceful
  <1>9. QuePeaceful(queMarked)'
    <2>1. queMarked' \in SUBSET (m \cup Range(t))
      BY <1>7
    <2>2. PICK s : s = queMarked'
      OBVIOUS
    <2>3. QuePeaceful(s)
      BY <1>3, <2>1, <2>2, QueFoundPeaceful
    <2> QED
      BY <2>2, <2>3 DEF QuePeaceful
  <1>10. CASE Len(t) = 1
    <2>1. quePc' = "check" /\ Range(u) = {}
      <3>1. u = <<>> /\ DOMAIN <<>> = {}
        BY <1>6, <1>10
      <3> QED
        BY <1>2, <1>10, <3>1 DEF QueMark, Range
    <2>2. QueFound(queMarked)'
      <3>1. (queMarked \cup Range(queTarget))' = queMarked'
        BY <1>4, <1>5, <2>1
      <3> QED
        BY <1>8, <3>1 DEF QueFound, QuePeaceful
    <2>3. \A i \in DOMAIN queStack' : QueFrameSound(queStack[i])'
      BY <1>1 DEF QueInv, QueFrameSound
    <2>4. QuePeaceful(queGiven)'
      BY <1>1 DEF QueInv, QuePeaceful
    <2> QED
      BY <1>1, <1>4, <1>5, <1>6, <1>9, <2>1, <2>2, <2>3, <2>4 DEF QueInv, QueVerdictRight
  <1>11. CASE Len(t) # 1
    <2>1. quePc' = "mark" /\ u # <<>>
      BY <1>2, <1>6, <1>11 DEF QueMark
    <2>2. \A i \in DOMAIN queStack' : QueFrameSound(queStack[i])'
      BY <1>1 DEF QueInv, QueFrameSound
    <2>3. QuePeaceful(queGiven)'
      BY <1>1 DEF QueInv, QuePeaceful
    <2> QED
      BY <1>1, <1>4, <1>5, <1>6, <1>8, <1>9, <2>1, <2>2, <2>3 DEF QueInv, QueVerdictRight
  <1> QED
    BY <1>10, <1>11

LEMMA QueCheckStep == ASSUME QueInv, QueCheck PROVE QueInv'
  <1>1. /\ quePc = "check" /\ quePc' = "end"
        /\ UNCHANGED <<queGiven, queWhole, queStack, queTarget, queMarked>>
    BY DEF QueCheck
  <1>2. PICK Q : Q = queGiven \cup queMarked
    OBVIOUS
  <1>3. queVerdict' = IF Cardinality(Q) = QueN /\ QuePeaceful(Q) THEN "right" ELSE "wrong"
    BY <1>2 DEF QueCheck
  <1>4. queWhole => (queVerdict' = "right" <=> QueSolutions(queGiven) # {})
    <2> SUFFICES ASSUME queWhole PROVE queVerdict' = "right" <=> QueSolutions(queGiven) # {}
      OBVIOUS
    <2>1. CASE QueFound(queMarked)
      <3>1. Q = queMarked /\ Cardinality(queMarked) = QueN /\ QuePeaceful(queMarked) /\ QueSolutions(queGiven) # {}
        BY <1>2, <2>1, QueFoundRight
      <3> QED
        BY <1>3, <3>1
    <2>2. CASE QueFailed
      <3>1. Q = queGiven /\ QueSolutions(queGiven) = {}
        BY <1>2, <2>2 DEF QueFailed
      <3>2. ~(Cardinality(queGiven) = QueN)
        BY <3>1, QueGivenRight DEF QueInv
      <3> QED
        BY <1>3, <3>1, <3>2
    <2> QED
      BY <1>1, <2>1, <2>2 DEF QueInv
  <1>5. QueVerdictRight'
    BY <1>1, <1>4 DEF QueVerdictRight, QueSolutions, QuePeaceful
  <1>6. \A i \in DOMAIN queStack' : QueFrameSound(queStack[i])'
    BY <1>1 DEF QueInv, QueFrameSound
  <1>7. QuePeaceful(queMarked)' /\ QuePeaceful(queGiven)'
    BY <1>1 DEF QueInv, QuePeaceful
  <1> QED
    BY <1>1, <1>5, <1>6, <1>7 DEF QueInv

LEMMA QueStillStep ==
    ASSUME QueInv, quePc' \in {quePc, "exit"},
           UNCHANGED <<queGiven, queWhole, queStack, queTarget, queMarked, queVerdict>>
    PROVE  QueInv'
  <1>1. \A i \in DOMAIN queStack' : QueFrameSound(queStack[i])'
    BY DEF QueInv, QueFrameSound
  <1>2. QuePeaceful(queMarked)' /\ QuePeaceful(queGiven)'
    BY DEF QueInv, QuePeaceful
  <1>3. CASE quePc' = "exit"
    BY <1>1, <1>2, <1>3 DEF QueInv, QueVerdictRight
  <1>4. CASE quePc' = quePc
    <2>1. QueVerdictRight'
      BY <1>4 DEF QueInv, QueVerdictRight
    <2>2. QueFound(queMarked)' = QueFound(queMarked) /\ QueFailed' = QueFailed
      BY DEF QueFound, QueFailed
    <2>3. QueFound(queMarked \cup Range(queTarget))' = QueFound(queMarked \cup Range(queTarget))
      BY DEF QueFound
    <2> QED
      BY <1>1, <1>2, <1>4, <2>1, <2>2, <2>3 DEF QueInv
  <1> QED
    BY <1>3, <1>4

LEMMA QueInvSound == QueInv => QueVerdictRight /\ QueCallsSound
  <1> SUFFICES ASSUME QueInv PROVE QueCallsSound
    BY DEF QueInv
  <1>1. PICK n : n = Len(queStack)
    OBVIOUS
  <1>2. n \in Nat /\ DOMAIN queStack = 1 .. n
    BY <1>1 DEF QueInv
  <1>3. ASSUME NEW i \in 1 .. n
        PROVE  LET b == queStack[i].board
               IN  /\ QuePeaceful({<<b[c], c>> : c \in QueLines \ QueEmpty(b)})
                   /\ i > 1 => \A c \in QueLines : queStack[i - 1].board[c] \in {0, b[c]}
    <2>1. QuePeaceful({<<queStack[i].board[c], c>> : c \in QueLines \ QueEmpty(queStack[i].board)})
      BY <1>2, <1>3 DEF QueInv, QueFrameSound, QueOn
    <2>2. i > 1 => \A c \in QueLines : queStack[i - 1].board[c] \in {0, queStack[i].board[c]}
      BY <1>2, <1>3 DEF QueInv, QueExtends
    <2> QED
      BY <2>1, <2>2
  <1> QED
    BY <1>1, <1>3 DEF QueCallsSound, QueInv

LEMMA QueCorrect == QueSpec => [](QueVerdictRight /\ QueCallsSound)
  <1>1. QueInv /\ [QueNext]_queVars => QueInv'
    <2>1. QueInv /\ QueFail => QueInv'
      BY QueStillStep DEF QueFail
    <2>2. QueInv /\ UNCHANGED queVars => QueInv'
      BY QueStillStep DEF queVars
    <2> QED
      BY <2>1, <2>2, QueStartStep, QueReadStep, QueSolveStep, QueMarkStep, QueCheckStep DEF QueNext
  <1> QED
    BY <1>1, QueInitInv, QueInvSound, PTL DEF QueSpec

\* g[k] is the concatenation of the first k elements of s.
FlatRuns(g, s, n) ==
    /\ g = [k \in 1 .. n |-> g[k]]
    /\ \A k \in 1 .. n : g[k] = IF k = 1 THEN s[k] ELSE g[k - 1] \o s[k]

LEMMA FlatRunsExist ==
    ASSUME NEW s, NEW n \in Nat \ {0}
    PROVE  \E g : FlatRuns(g, s, n)
  <1> DEFINE bad == {m \in Nat \ {0} : ~ \E g : FlatRuns(g, s, m)}
  <1>1. SUFFICES ASSUME n \in bad PROVE FALSE
    OBVIOUS
  <1>2. PICK m \in bad : \A k \in bad : m <= k
    <2>1. bad \subseteq Nat /\ bad # {}
      BY <1>1
    <2> QED
      BY <2>1, LeastElement
  <1>3. m \in Nat \ {0} /\ ~ \E g : FlatRuns(g, s, m)
    BY <1>2
  <1>4. m # 1
    <2>1. FlatRuns([j \in 1 .. 1 |-> s[1]], s, 1)
      BY DEF FlatRuns
    <2> QED
      BY <1>3, <2>1
  <1>5. m - 1 \in Nat \ {0} /\ m - 1 \notin bad
    BY <1>2, <1>3, <1>4
  <1>6. PICK g : FlatRuns(g, s, m - 1)
    BY <1>5
  <1> DEFINE h == [j \in 1 .. m |-> IF j = m THEN g[m - 1] \o s[m] ELSE g[j]]
  <1>7. \A j \in 1 .. m : h[j] = IF j = 1 THEN s[j] ELSE h[j - 1] \o s[j]
    <2> SUFFICES ASSUME NEW j \in 1 .. m
                 PROVE  h[j] = IF j = 1 THEN s[j] ELSE h[j - 1] \o s[j]
      OBVIOUS
    <2>1. CASE j = m
      <3>1. m - 1 \in 1 .. m /\ m - 1 # m
        BY <1>3, <1>4
      <3>2. h[m - 1] = g[m - 1] /\ h[j] = g[m - 1] \o s[m]
        BY <2>1, <3>1
      <3> QED
        BY <1>4, <2>1, <3>2
    <2>2. CASE j # m
      <3>1. j \in 1 .. m - 1 /\ (j # 1 => j - 1 \in 1 .. m /\ j - 1 # m)
        BY <1>3, <2>2
      <3>2. h[j] = g[j] /\ (j # 1 => h[j - 1] = g[j - 1])
        BY <2>2, <3>1
      <3>3. g[j] = IF j = 1 THEN s[j] ELSE g[j - 1] \o s[j]
        BY <1>6, <3>1 DEF FlatRuns
      <3> HIDE DEF h
      <3> QED
        BY <3>2, <3>3
    <2> QED
      BY <2>1, <2>2
  <1>8. FlatRuns(h, s, m)
    BY <1>7 DEF FlatRuns
  <1> QED
    BY <1>3, <1>8

LEMMA FlattenIs ==
    ASSUME NEW s, NEW n \in Nat \ {0}, Len(s) = n
    PROVE  \E g : FlatRuns(g, s, n) /\ FlattenSeq(s) = g[n]
  <1> DEFINE F(f) == [k \in 1 .. n |-> IF k = 1 THEN s[k] ELSE f[k - 1] \o s[k]]
             h == CHOOSE f : f = F(f)
  <1>1. FlattenSeq(s) = h[n]
    BY DEF FlattenSeq
  <1>2. PICK g : FlatRuns(g, s, n)
    BY FlatRunsExist
  <1>3. g = F(g)
    BY <1>2 DEF FlatRuns
  <1>4. h = F(h)
    <2> HIDE DEF F
    <2> QED
      BY <1>3
  <1>5. FlatRuns(h, s, n)
    <2> HIDE DEF h
    <2> QED
      BY <1>4 DEF FlatRuns
  <1> QED
    BY <1>1, <1>5

\* The elements of a concatenation.
LEMMA JoinRange ==
    ASSUME NEW C, NEW P \in Seq(C), NEW Q \in Seq(C)
    PROVE  /\ P \o Q \in Seq(C) /\ Range(P \o Q) = Range(P) \cup Range(Q)
           /\ \A i \in DOMAIN (P \o Q) :
                 \/ i \in DOMAIN P /\ (P \o Q)[i] = P[i]
                 \/ i > Len(P) /\ (P \o Q)[i] \in Range(Q)
           /\ \A i \in DOMAIN P : i \in DOMAIN (P \o Q) /\ i \in 1 .. Len(P) /\ (P \o Q)[i] = P[i]
  <1>1. PICK s, m, n : s = P \o Q /\ m = Len(P) /\ n = Len(Q)
    OBVIOUS
  <1>2. /\ s \in Seq(C) /\ Len(s) = m + n /\ m \in Nat /\ n \in Nat
        /\ \A i \in 1 .. m + n : s[i] = IF i <= m THEN P[i] ELSE Q[i - m]
    BY <1>1, ConcatProperties
  <1>3. DOMAIN P = 1 .. m /\ DOMAIN Q = 1 .. n /\ DOMAIN s = 1 .. m + n
    BY <1>1, <1>2
  <1>4. \A i \in 1 .. m : i \in 1 .. m + n /\ s[i] = P[i]
    BY <1>2
  <1>5. \A j \in 1 .. n : m + j \in 1 .. m + n /\ s[m + j] = Q[j]
    <2> SUFFICES ASSUME NEW j \in 1 .. n PROVE m + j \in 1 .. m + n /\ s[m + j] = Q[j]
      OBVIOUS
    <2>1. m + j \in 1 .. m + n /\ ~(m + j <= m) /\ (m + j) - m = j
      BY <1>2
    <2>2. s[m + j] = Q[(m + j) - m]
      BY <1>2, <2>1
    <2> QED
      BY <2>1, <2>2
  <1>6. ASSUME NEW i \in 1 .. m + n, i \notin 1 .. m
        PROVE  i > m /\ i - m \in 1 .. n /\ s[i] = Q[i - m]
    <2>1. i > m /\ i - m \in 1 .. n /\ ~(i <= m)
      BY <1>2, <1>6
    <2> QED
      BY <1>2, <2>1
  <1>7. \A i \in 1 .. m + n : i \in 1 .. m \/ (i > m /\ s[i] \in Range(Q))
    BY <1>3, <1>6 DEF Range
  <1>8. Range(s) = Range(P) \cup Range(Q)
    <2>1. Range(s) \subseteq Range(P) \cup Range(Q)
      BY <1>3, <1>4, <1>7 DEF Range
    <2>2. Range(P) \subseteq Range(s) /\ Range(Q) \subseteq Range(s)
      BY <1>3, <1>4, <1>5 DEF Range
    <2> QED
      BY <2>1, <2>2
  <1> QED
    BY <1>1, <1>2, <1>3, <1>4, <1>7, <1>8

McfLeft(q, p) == FlattenSeq([j \in DOMAIN q |-> IF q[j] = p THEN <<>> ELSE <<q[j]>>])

McfOnce(C, q, n, i, p) ==
    q \in Seq(C) /\ n = Len(q) /\ i \in 1 .. n /\ p = q[i] /\ \A j \in 1 .. n : q[j] = p => j = i

\* Taking out of a vector an element that it holds once.
LEMMA McfErase ==
    ASSUME NEW C, NEW q, NEW n, NEW i, NEW p, McfOnce(C, q, n, i, p), NEW s, s = McfLeft(q, p)
    PROVE  s \in Seq(C) /\ Len(s) = n - 1 /\ Range(s) = Range(q) \ {p}
  <1>0. q \in Seq(C) /\ n = Len(q) /\ i \in 1 .. n /\ p = q[i] /\ \A j \in 1 .. n : q[j] = p => j = i
    BY DEF McfOnce
  <1>1. n \in Nat \ {0} /\ DOMAIN q = 1 .. n
    BY <1>0
  <1>2. PICK t : t = [j \in 1 .. n |-> IF q[j] = p THEN <<>> ELSE <<q[j]>>]
    OBVIOUS
  <1>3. Len(t) = n /\ s = FlattenSeq(t)
    BY <1>1, <1>2 DEF McfLeft
  <1>4. \A j \in 1 .. n : /\ t[j] \in Seq(C) /\ Range(t[j]) = {q[j]} \ {p}
                          /\ Len(t[j]) = IF j = i THEN 0 ELSE 1
    <2> SUFFICES ASSUME NEW j \in 1 .. n
                 PROVE  /\ t[j] \in Seq(C) /\ Range(t[j]) = {q[j]} \ {p}
                        /\ Len(t[j]) = IF j = i THEN 0 ELSE 1
      OBVIOUS
    <2>1. q[j] \in C
      BY <1>0, ElementOfSeq
    <2>2. CASE j = i
      <3>1. t[j] = <<>> /\ q[j] = p
        BY <1>0, <1>2, <2>2
      <3>2. DOMAIN <<>> = {} /\ <<>> \in Seq(C) /\ Len(<<>>) = 0
        OBVIOUS
      <3> QED
        BY <2>2, <3>1, <3>2 DEF Range
    <2>3. CASE j # i
      <3>1. q[j] # p /\ t[j] = <<q[j]>>
        BY <1>0, <1>2, <2>3
      <3>2. DOMAIN <<q[j]>> = 1 .. 1 /\ <<q[j]>>[1] = q[j] /\ <<q[j]>> \in Seq(C) /\ Len(<<q[j]>>) = 1
        BY <2>1
      <3> QED
        BY <2>3, <3>1, <3>2 DEF Range
    <2> QED
      BY <2>2, <2>3
  <1>5. PICK g : FlatRuns(g, t, n) /\ FlattenSeq(t) = g[n]
    BY ONLY <1>1, <1>3, FlattenIs
  <1> DEFINE Good(k) == /\ g[k] \in Seq(C) /\ Range(g[k]) = {q[j] : j \in 1 .. k} \ {p}
                        /\ Len(g[k]) = IF k < i THEN k ELSE k - 1
             bad == {k \in 1 .. n : ~Good(k)}
  <1>6. SUFFICES ASSUME n \in bad PROVE FALSE
    <2>1. n \in 1 .. n /\ ~(n < i) /\ Range(q) = {q[j] : j \in 1 .. n}
      BY <1>0, <1>1 DEF Range
    <2> QED
      BY <1>3, <1>5, <2>1
  <1>7. PICK m \in bad : \A k \in bad : m <= k
    <2> HIDE DEF Good
    <2>1. bad \subseteq Nat /\ bad # {}
      BY <1>1, <1>6
    <2> HIDE DEF bad
    <2> QED
      BY ONLY <2>1, LeastElement
  <1>8. m \in 1 .. n /\ ~Good(m)
    BY <1>7
  <1>9. g[m] = IF m = 1 THEN t[m] ELSE g[m - 1] \o t[m]
    BY <1>5, <1>8 DEF FlatRuns
  <1>10. t[m] \in Seq(C) /\ Range(t[m]) = {q[m]} \ {p} /\ Len(t[m]) = IF m = i THEN 0 ELSE 1
    BY <1>4, <1>8
  <1>11. CASE m = 1
    <2>1. {q[j] : j \in 1 .. 1} = {q[1]}
      OBVIOUS
    <2>2. (IF m = i THEN 0 ELSE 1) = IF m < i THEN m ELSE m - 1
      BY <1>0, <1>1, <1>11
    <2> QED
      BY <1>8, <1>9, <1>10, <1>11, <2>1, <2>2
  <1>12. CASE m # 1
    <2>1. m - 1 \in 1 .. n /\ ~(m <= m - 1)
      BY <1>1, <1>8, <1>12
    <2>2. Good(m - 1)
      <3> HIDE DEF Good
      <3> QED
        BY <1>7, <2>1
    <2>3. PICK a, b : a = g[m - 1] /\ b = t[m]
      OBVIOUS
    <2>4. a \in Seq(C) /\ b \in Seq(C)
      BY <1>10, <2>2, <2>3
    <2>5. a \o b \in Seq(C) /\ Range(a \o b) = Range(a) \cup Range(b) /\ Len(a \o b) = Len(a) + Len(b)
      BY ONLY <2>4, JoinRange, ConcatProperties
    <2>6. {q[j] : j \in 1 .. m} = {q[j] : j \in 1 .. m - 1} \cup {q[m]}
      <3>1. \A j : j \in 1 .. m <=> j \in 1 .. m - 1 \/ j = m
        BY <1>8
      <3> QED
        BY <3>1
    <2>7. (IF m - 1 < i THEN m - 1 ELSE m - 2) + (IF m = i THEN 0 ELSE 1) = IF m < i THEN m ELSE m - 1
      BY <1>0, <1>1, <1>8
    <2>8. g[m] = a \o b
      BY <1>9, <1>12, <2>3
    <2>9. Range(g[m]) = {q[j] : j \in 1 .. m} \ {p}
      BY <1>10, <2>2, <2>3, <2>5, <2>6, <2>8
    <2>10. Len(g[m]) = IF m < i THEN m ELSE m - 1
      <3>1. Len(a) = (IF m - 1 < i THEN m - 1 ELSE m - 2) /\ Len(b) = IF m = i THEN 0 ELSE 1
        BY <1>1, <1>8, <1>10, <2>2, <2>3
      <3> QED
        BY <2>5, <2>7, <2>8, <3>1
    <2> QED
      BY <1>8, <2>5, <2>8, <2>9, <2>10
  <1> QED
    BY <1>11, <1>12

McfKept ==
    /\ mcfQueens \in Seq(McfLines \X McfLines) /\ Len(mcfQueens) = McfN
    /\ Range(mcfQueens) = mcfBoard
    /\ \A r \in McfLines : \E i \in DOMAIN mcfQueens : mcfQueens[i][1] = r

McfInv == IF mcfUp THEN McfKept ELSE mcfQueens = <<>>

\* As many queens as rows: no row has two.
LEMMA McfOneInRow ==
    ASSUME McfKept, NEW i \in 1 .. McfN, NEW j \in 1 .. McfN, mcfQueens[i][1] = mcfQueens[j][1]
    PROVE  i = j
  <1>1. PICK g : g = [k \in 1 .. McfN |-> mcfQueens[k][1]]
    OBVIOUS
  <1>2. McfN \in Nat /\ DOMAIN mcfQueens = 1 .. McfN
    BY McfNAssumption DEF McfKept
  <1>3. \A k \in 1 .. McfN : g[k] \in 1 .. McfN
    <2> SUFFICES ASSUME NEW k \in 1 .. McfN PROVE mcfQueens[k][1] \in 1 .. McfN
      BY <1>1
    <2>1. mcfQueens[k] \in McfLines \X McfLines
      BY <1>2, ElementOfSeq DEF McfKept
    <2> QED
      BY <2>1 DEF McfLines
  <1>4. g \in Surjection(1 .. McfN, 1 .. McfN)
    <2>1. g \in [1 .. McfN -> 1 .. McfN]
      BY <1>1, <1>3
    <2>2. \A r \in 1 .. McfN : \E k \in 1 .. McfN : g[k] = r
      BY <1>1, <1>2 DEF McfKept, McfLines
    <2> QED
      BY <2>1, <2>2 DEF Surjection
  <1>5. IsFiniteSet(1 .. McfN)
    <2>1. McfN \in Int /\ 1 \in Int
      BY <1>2
    <2> QED
      BY ONLY <2>1, FS_Interval
  <1>6. g \in Injection(1 .. McfN, 1 .. McfN)
    BY ONLY <1>4, <1>5, FS_SurjSameCardinalityImpliesInj
  <1> QED
    BY <1>1, <1>6 DEF Injection, IsInjective

LEMMA McfMadeIsSeq ==
    ASSUME NEW C, NEW n \in Nat, NEW q \in [1 .. n -> C]
    PROVE  q \in Seq(C) /\ Len(q) = n
  OBVIOUS

LEMMA McfNewStep == ASSUME McfInv, McfGetNewBoard PROVE McfInv'
  <1>1. PICK f \in [McfLines -> McfLines] :
          /\ mcfBoard' = {<<x, f[x]>> : x \in McfLines}
          /\ mcfQueens' = [x \in McfLines |-> <<x, f[x]>>]
    BY DEF McfGetNewBoard
  <1>2. McfN \in Nat /\ McfLines = 1 .. McfN
    BY McfNAssumption DEF McfLines
  <1>3. PICK q : q = [x \in McfLines |-> <<x, f[x]>>]
    OBVIOUS
  <1>4. DOMAIN q = 1 .. McfN /\ \A x \in McfLines : q[x] = <<x, f[x]>> /\ q[x] \in McfLines \X McfLines
    BY <1>2, <1>3
  <1>5. q \in Seq(McfLines \X McfLines) /\ Len(q) = McfN
    <2>1. q = [x \in 1 .. McfN |-> q[x]]
      BY <1>2, <1>3, <1>4
    <2>2. \A x \in 1 .. McfN : q[x] \in McfLines \X McfLines
      BY <1>2, <1>4
    <2>3. PICK C, n : C = McfLines \X McfLines /\ n = McfN
      OBVIOUS
    <2>4. n \in Nat /\ q \in [1 .. n -> C]
      BY <1>2, <2>1, <2>2, <2>3
    <2>5. q \in Seq(C) /\ Len(q) = n
      BY ONLY <2>4, McfMadeIsSeq
    <2> QED
      BY <2>3, <2>5
  <1>6. Range(q) = {<<x, f[x]>> : x \in McfLines}
    BY <1>2, <1>4 DEF Range
  <1>7. \A r \in McfLines : \E i \in DOMAIN q : q[i][1] = r
    BY <1>2, <1>4
  <1> QED
    BY <1>1, <1>3, <1>5, <1>6, <1>7 DEF McfGetNewBoard, McfInv, McfKept

LEMMA McfMoveStep == ASSUME McfInv, McfMoveQueen PROVE McfInv'
  <1>1. PICK i \in DOMAIN mcfQueens, x \in McfLines :
          /\ mcfBoard' = (mcfBoard \ {mcfQueens[i]}) \cup {<<mcfQueens[i][1], x>>}
          /\ mcfQueens' = McfMoved(mcfQueens, mcfQueens[i], <<mcfQueens[i][1], x>>)
    BY DEF McfMoveQueen
  <1>2. PICK q, p, e : q = mcfQueens /\ p = mcfQueens[i] /\ e = <<mcfQueens[i][1], x>>
    OBVIOUS
  <1>3. McfKept /\ mcfUp /\ mcfUp' /\ McfN \in Nat
    BY McfNAssumption DEF McfInv, McfMoveQueen
  <1>4. /\ q \in Seq(McfLines \X McfLines) /\ Len(q) = McfN /\ DOMAIN q = 1 .. McfN
        /\ i \in 1 .. McfN /\ p = q[i]
    BY <1>2, <1>3 DEF McfKept
  <1>5. p \in McfLines \X McfLines /\ e \in McfLines \X McfLines /\ e[1] = p[1]
    <2>1. p \in McfLines \X McfLines
      BY <1>4, ElementOfSeq
    <2> QED
      BY <1>2, <2>1
  <1>6. \A j \in 1 .. McfN : q[j] = p => j = i
    BY <1>2, <1>3, <1>4, McfOneInRow
  <1>7. PICK s : s = McfLeft(q, p)
    OBVIOUS
  <1>8. s \in Seq(McfLines \X McfLines) /\ Len(s) = McfN - 1 /\ Range(s) = Range(q) \ {p}
    <2>1. PICK C, n, k : C = McfLines \X McfLines /\ n = McfN /\ k = i
      OBVIOUS
    <2>2. McfOnce(C, q, n, k, p)
      BY <1>4, <1>6, <2>1 DEF McfOnce
    <2>3. s \in Seq(C) /\ Len(s) = n - 1 /\ Range(s) = Range(q) \ {p}
      BY ONLY <1>7, <2>2, McfErase
    <2> QED
      BY <2>1, <2>3
  <1>9. PICK t : t = Append(s, e)
    OBVIOUS
  <1>10. mcfQueens' = t
    BY <1>1, <1>2, <1>7, <1>9 DEF McfMoved, McfLeft
  <1>11. /\ t \in Seq(McfLines \X McfLines) /\ Len(t) = McfN /\ t[McfN] = e
         /\ \A j \in 1 .. McfN - 1 : t[j] = s[j]
    <2>1. /\ t \in Seq(McfLines \X McfLines) /\ Len(t) = Len(s) + 1 /\ t[Len(s) + 1] = e
          /\ \A j \in 1 .. Len(s) : t[j] = s[j]
      BY ONLY <1>5, <1>8, <1>9, AppendProperties
    <2>2. (McfN - 1) + 1 = McfN
      BY <1>3
    <2> QED
      BY <1>8, <2>1, <2>2
  <1>12. DOMAIN t = 1 .. McfN /\ DOMAIN s = 1 .. McfN - 1 /\ McfN \in 1 .. McfN
    BY <1>3, <1>4, <1>8, <1>11
  <1>13. \A j \in 1 .. McfN : j = McfN \/ j \in 1 .. McfN - 1
    BY <1>3
  <1>14. Range(t) = (Range(q) \ {p}) \cup {e}
    <2>1. Range(t) \subseteq Range(s) \cup {e}
      BY <1>11, <1>12, <1>13 DEF Range
    <2>2. e \in Range(t)
      BY <1>11, <1>12 DEF Range
    <2>3. Range(s) \subseteq Range(t)
      <3>1. \A j \in 1 .. McfN - 1 : j \in 1 .. McfN
        BY <1>3
      <3> QED
        BY <1>11, <1>12, <3>1 DEF Range
    <2> QED
      BY <1>8, <2>1, <2>2, <2>3
  <1>15. \A r \in McfLines : \E k \in DOMAIN t : t[k][1] = r
    <2> SUFFICES ASSUME NEW r \in McfLines PROVE \E k \in DOMAIN t : t[k][1] = r
      OBVIOUS
    <2>1. CASE r = p[1]
      BY <1>5, <1>11, <1>12, <2>1
    <2>2. CASE r # p[1]
      <3>1. PICK j \in 1 .. McfN : q[j][1] = r
        BY <1>2, <1>3, <1>4 DEF McfKept
      <3>2. q[j] \in Range(t)
        BY <1>4, <1>14, <2>2, <3>1 DEF Range
      <3>3. PICK k \in DOMAIN t : t[k] = q[j]
        BY <3>2 DEF Range
      <3> QED
        BY <3>1, <3>3
    <2> QED
      BY <2>1, <2>2
  <1>16. Range(t) = mcfBoard'
    BY <1>1, <1>2, <1>3, <1>14 DEF McfKept
  <1> QED
    BY <1>3, <1>10, <1>11, <1>15, <1>16 DEF McfInv, McfKept

LEMMA McfInitInv == McfInit => McfInv
  BY DEF McfInit, McfInv

LEMMA McfStepInv == McfInv /\ [McfNext]_mcfVars => McfInv'
  <1> SUFFICES ASSUME McfInv, [McfNext]_mcfVars PROVE McfInv'
    OBVIOUS
  <1>1. CASE McfGetNewBoard
    BY <1>1, McfNewStep
  <1>2. CASE McfMoveQueen
    BY <1>2, McfMoveStep
  <1>3. CASE UNCHANGED mcfVars
    BY <1>3 DEF mcfVars, McfInv, McfKept
  <1> QED
    BY <1>1, <1>2, <1>3 DEF McfNext

LEMMA McfInvAgrees == McfInv => McfAgree
  <1> SUFFICES ASSUME McfInv, mcfUp PROVE McfAgree
    BY DEF McfAgree
  <1>1. McfKept
    BY DEF McfInv
  <1>2. Range(mcfQueens) = {mcfQueens[i] : i \in DOMAIN mcfQueens}
    BY DEF Range
  <1> QED
    BY <1>1, <1>2 DEF McfAgree, McfKept

\* A test that no index of the vector passes counts zero, and only such a test.
LEMMA McfCount ==
    ASSUME NEW n \in Nat, NEW S \in SUBSET (1 .. n)
    PROVE  Cardinality(S) \in Nat /\ (Cardinality(S) = 0 <=> S = {})
  <1>1. IsFiniteSet(1 .. n)
    <2>1. n \in Int /\ 1 \in Int
      OBVIOUS
    <2> QED
      BY ONLY <2>1, FS_Interval
  <1>2. IsFiniteSet(S)
    BY <1>1, FS_Subset
  <1> QED
    BY <1>2, FS_EmptySet, FS_CardinalityType

LEMMA McfInvMeasures == McfInv => McfMeasuresAgree
  <1> SUFFICES ASSUME McfInv PROVE McfMeasuresAgree
    OBVIOUS
  <1>1. PICK n \in Nat : DOMAIN mcfQueens = 1 .. n
    <2>1. CASE mcfUp
      <3>1. DOMAIN mcfQueens = 1 .. McfN /\ McfN \in Nat
        BY <2>1, McfNAssumption DEF McfInv, McfKept
      <3> QED
        BY <3>1
    <2>2. CASE ~mcfUp
      <3>1. DOMAIN <<>> = 1 .. 0
        OBVIOUS
      <3> QED
        BY <2>2, <3>1 DEF McfInv
    <2> QED
      BY <2>1, <2>2
  <1>2. ASSUME NEW p
        PROVE  McfSpecificQueenConflicts(p) = 0 <=> ~McfUnderAttack(p)
    <2> DEFINE D == {i \in DOMAIN mcfQueens : McfDiagonal(p, mcfQueens[i])}
               R == {i \in DOMAIN mcfQueens : McfRow(p, mcfQueens[i])}
               C == {i \in DOMAIN mcfQueens : McfCol(p, mcfQueens[i])}
    <2>1. McfSpecificQueenConflicts(p) = Cardinality(D) + Cardinality(R) + Cardinality(C)
      BY DEF McfSpecificQueenConflicts
    <2>2. McfUnderAttack(p) <=> D # {} \/ R # {} \/ C # {}
      BY DEF McfUnderAttack
    <2>3. D \in SUBSET (1 .. n) /\ R \in SUBSET (1 .. n) /\ C \in SUBSET (1 .. n)
      BY <1>1
    <2> HIDE DEF D, R, C
    <2>4. /\ Cardinality(D) \in Nat /\ (Cardinality(D) = 0 <=> D = {})
          /\ Cardinality(R) \in Nat /\ (Cardinality(R) = 0 <=> R = {})
          /\ Cardinality(C) \in Nat /\ (Cardinality(C) = 0 <=> C = {})
      BY ONLY <1>1, <2>3, McfCount
    <2> QED
      BY <2>1, <2>2, <2>4
  <1> QED
    BY <1>2 DEF McfMeasuresAgree, McfAllQueensSafe

\* The search of solve.cpp misses no solution and marks no attacking queens,
\* and the class of minconflict.cpp keeps its board and its vector of queens in
\* step, for every size of the board.
THEOREM QueensRightCorrect == QueensSpec => []QueensRight
  <1>1. McfSpec => [](McfAgree /\ McfMeasuresAgree)
    <2>1. McfSpec => []McfInv
      BY McfInitInv, McfStepInv, PTL DEF McfSpec
    <2>2. McfInv => McfAgree /\ McfMeasuresAgree
      BY McfInvAgrees, McfInvMeasures
    <2> QED
      BY <2>1, <2>2, PTL
  <1>2. QueVerdictRight /\ QueCallsSound /\ McfAgree /\ McfMeasuresAgree => QueensRight
    BY DEF QueensRight
  <1> QED
    BY <1>1, <1>2, QueCorrect, PTL DEF QueensSpec

-----------------------------------------------------------------------------
(* The maze clients 3-1.py, 3-2.py and 3-3.py.                             *)

\* The letters of the moves, and all cells there are.
MapMoves == {"W", "S", "A", "D"}
MapPlane == Int \X Int

\* The four neighbours of a cell.
LEMMA MapStepIs ==
    ASSUME NEW p \in MapPlane
    PROVE  /\ MapStep(p, "W") = <<p[1] - 1, p[2]>> /\ MapStep(p, "S") = <<p[1] + 1, p[2]>>
           /\ MapStep(p, "A") = <<p[1], p[2] - 1>> /\ MapStep(p, "D") = <<p[1], p[2] + 1>>
  <1>1. /\ MapMoveOf("W") = <<-1, 0>> /\ MapMoveOf("S") = <<1, 0>>
        /\ MapMoveOf("A") = <<0, -1>> /\ MapMoveOf("D") = <<0, 1>>
    BY DEF MapMoveOf
  <1>2. p[1] \in Int /\ p[2] \in Int
    BY DEF MapPlane
  <1> QED
    BY <1>1, <1>2 DEF MapStep

\* Each move can be undone.
LEMMA MapStepBack ==
    ASSUME NEW p \in MapPlane, NEW m \in MapMoves
    PROVE  MapStep(p, m) \in MapPlane /\ \E b \in MapMoves : MapStep(MapStep(p, m), b) = p
  <1>1. p[1] \in Int /\ p[2] \in Int /\ p = <<p[1], p[2]>>
    BY DEF MapPlane
  <1>2. MapStep(p, m) \in MapPlane
    <2>1. /\ <<p[1] - 1, p[2]>> \in MapPlane /\ <<p[1] + 1, p[2]>> \in MapPlane
          /\ <<p[1], p[2] - 1>> \in MapPlane /\ <<p[1], p[2] + 1>> \in MapPlane
      BY <1>1 DEF MapPlane
    <2> QED
      BY <2>1, MapStepIs DEF MapMoves
  <1>3. CASE m = "W"
    <2>1. MapStep(MapStep(p, m), "S") = p
      BY <1>1, <1>2, <1>3, MapStepIs
    <2> QED
      BY <1>2, <2>1 DEF MapMoves
  <1>4. CASE m = "S"
    <2>1. MapStep(MapStep(p, m), "W") = p
      BY <1>1, <1>2, <1>4, MapStepIs
    <2> QED
      BY <1>2, <2>1 DEF MapMoves
  <1>5. CASE m = "A"
    <2>1. MapStep(MapStep(p, m), "D") = p
      BY <1>1, <1>2, <1>5, MapStepIs
    <2> QED
      BY <1>2, <2>1 DEF MapMoves
  <1>6. CASE m = "D"
    <2>1. MapStep(MapStep(p, m), "A") = p
      BY <1>1, <1>2, <1>6, MapStepIs
    <2> QED
      BY <1>2, <2>1 DEF MapMoves
  <1> QED
    BY <1>3, <1>4, <1>5, <1>6 DEF MapMoves

\* One step more of the reference.
MapGrown(near) == near \cup {p \in mapOpen : \E m \in MapMoves : MapStep(p, m) \in near}

\* A way of n steps, some of which may stay.
MapWay(s, n) ==
    /\ s \in [0 .. n -> {mapStart} \cup mapOpen] /\ s[0] = mapStart
    /\ \A k \in 1 .. n : s[k] \in MapGrown({s[k - 1]})

\* The reference function exists: MapNear[n] is where the ways of n steps end.
LEMMA MapNearIs ==
    MapNear[0] = {mapStart} /\ \A n \in Nat : MapNear[n + 1] = MapGrown(MapNear[n])
  <1> DEFINE F(f) == [n \in Nat |-> IF n = 0 THEN {mapStart} ELSE MapGrown(f[n - 1])]
             g == [n \in Nat |-> {p \in {mapStart} \cup mapOpen : \E s : MapWay(s, n) /\ s[n] = p}]
  <1>1. MapNear = CHOOSE f : f = F(f)
    BY DEF MapNear, MapGrown, MapMoves
  <1>2. g[0] = {mapStart}
    <2>1. MapWay([k \in 0 .. 0 |-> mapStart], 0)
      BY DEF MapWay
    <2>2. \A s : MapWay(s, 0) => s[0] = mapStart
      BY DEF MapWay
    <2> QED
      BY <2>1, <2>2
  <1>3. ASSUME NEW n \in Nat, n # 0 PROVE g[n] = MapGrown(g[n - 1])
    <2>0. n - 1 \in Nat /\ n \in 0 .. n /\ n - 1 \in 0 .. n /\ n \in 1 .. n
      BY <1>3
    <2>1. ASSUME NEW p \in g[n] PROVE p \in MapGrown(g[n - 1])
      <3>1. PICK s : MapWay(s, n) /\ s[n] = p
        BY <2>1
      <3> DEFINE r == [k \in 0 .. n - 1 |-> s[k]]
      <3>2. MapWay(r, n - 1)
        <4>1. r \in [0 .. n - 1 -> {mapStart} \cup mapOpen] /\ r[0] = mapStart
          BY <1>3, <2>0, <3>1 DEF MapWay
        <4>2. ASSUME NEW k \in 1 .. n - 1 PROVE r[k] \in MapGrown({r[k - 1]})
          <5>1. k \in 1 .. n /\ k \in 0 .. n - 1 /\ k - 1 \in 0 .. n - 1
            BY <2>0
          <5>2. r[k] = s[k] /\ r[k - 1] = s[k - 1]
            BY <5>1
          <5> QED
            BY <3>1, <5>1, <5>2 DEF MapWay
        <4> HIDE DEF r
        <4> QED
          BY <4>1, <4>2 DEF MapWay
      <3>3. s[n - 1] \in {mapStart} \cup mapOpen /\ r[n - 1] = s[n - 1]
        BY <2>0, <3>1 DEF MapWay
      <3>4. s[n - 1] \in g[n - 1]
        BY <2>0, <3>2, <3>3
      <3>5. p \in MapGrown({s[n - 1]})
        BY <2>0, <3>1 DEF MapWay
      <3> HIDE DEF g
      <3> QED
        BY <3>4, <3>5 DEF MapGrown
    <2>2. ASSUME NEW p \in MapGrown(g[n - 1]) PROVE p \in g[n]
      <3>1. PICK q \in g[n - 1] : p \in MapGrown({q})
        <4> HIDE DEF g
        <4> QED
          BY <2>2 DEF MapGrown
      <3>2. PICK s : MapWay(s, n - 1) /\ s[n - 1] = q
        BY <2>0, <3>1
      <3> DEFINE r == [k \in 0 .. n |-> IF k = n THEN p ELSE s[k]]
      <3>3. q \in {mapStart} \cup mapOpen
        BY <2>0, <3>1
      <3>4. p \in {mapStart} \cup mapOpen
        BY <3>1, <3>3 DEF MapGrown
      <3>5. MapWay(r, n)
        <4>1. \A k \in 0 .. n : k # n => k \in 0 .. n - 1
          BY <2>0
        <4>2. r \in [0 .. n -> {mapStart} \cup mapOpen] /\ r[0] = mapStart
          BY <1>3, <2>0, <3>2, <3>4, <4>1 DEF MapWay
        <4>3. ASSUME NEW k \in 1 .. n PROVE r[k] \in MapGrown({r[k - 1]})
          <5>1. k \in 0 .. n /\ k - 1 \in 0 .. n /\ k - 1 # n /\ (k # n => k \in 1 .. n - 1)
            BY <2>0
          <5>2. r[k - 1] = s[k - 1] /\ r[k] = IF k = n THEN p ELSE s[k]
            BY <5>1
          <5> QED
            BY <3>1, <3>2, <5>1, <5>2 DEF MapWay
        <4> HIDE DEF r
        <4> QED
          BY <4>2, <4>3 DEF MapWay
      <3>6. r[n] = p
        BY <2>0
      <3> QED
        BY <3>4, <3>5, <3>6
    <2> HIDE DEF g
    <2> QED
      BY <2>1, <2>2
  <1>4. g = F(g)
    <2>1. \A n \in Nat : g[n] = IF n = 0 THEN {mapStart} ELSE MapGrown(g[n - 1])
      <3> HIDE DEF g
      <3> QED
        BY <1>2, <1>3
    <2>2. g = [n \in Nat |-> g[n]]
      OBVIOUS
    <2> HIDE DEF g
    <2> QED
      BY <2>1, <2>2
  <1>5. MapNear = F(MapNear)
    <2> HIDE DEF F, g
    <2> QED
      BY <1>1, <1>4
  <1>6. MapNear[0] = {mapStart}
    BY <1>5
  <1>7. \A n \in Nat : n + 1 \in Nat /\ n + 1 # 0 /\ (n + 1) - 1 = n
    OBVIOUS
  <1>8. \A n \in Nat : F(MapNear)[n + 1] = MapGrown(MapNear[n])
    BY <1>7
  <1> HIDE DEF F
  <1> QED
    BY <1>5, <1>6, <1>8

\* What is closed under steps holds all that is near.
LEMMA MapNearInside ==
    ASSUME NEW V, mapStart \in V, MapGrown(V) \subseteq V, NEW n \in Nat
    PROVE  MapNear[n] \subseteq V
  <1> DEFINE bad == {k \in Nat : ~(MapNear[k] \subseteq V)}
  <1>1. SUFFICES ASSUME n \in bad PROVE FALSE
    OBVIOUS
  <1>2. PICK k \in bad : \A j \in bad : k <= j
    <2>1. bad \subseteq Nat /\ bad # {}
      BY <1>1
    <2> HIDE DEF bad
    <2> QED
      BY ONLY <2>1, LeastElement
  <1>3. k \in Nat /\ ~(MapNear[k] \subseteq V) /\ k # 0
    BY <1>2, MapNearIs
  <1>4. k - 1 \in Nat /\ ~(k <= k - 1) /\ (k - 1) + 1 = k
    BY <1>3
  <1>5. MapNear[k - 1] \subseteq V
    BY <1>2, <1>4
  <1>6. MapNear[k] = MapGrown(MapNear[k - 1])
    <2>1. MapNear[(k - 1) + 1] = MapGrown(MapNear[k - 1])
      BY <1>4, MapNearIs
    <2> QED
      BY <1>4, <2>1
  <1> QED
    BY <1>3, <1>5, <1>6 DEF MapGrown

\* t goes through the cells of a path.
MapThrough(t, path) ==
    /\ t = [i \in 0 .. Len(path) |-> t[i]]
    /\ \A i \in 0 .. Len(path) : t[i] = IF i = 0 THEN mapStart ELSE MapStep(t[i - 1], path[i])

\* The trace of a path is the only one.
LEMMA MapTraceIs ==
    ASSUME NEW path, Len(path) \in Nat, NEW t, MapThrough(t, path)
    PROVE  MapTrace(path) = t
  <1> DEFINE F(f) == [i \in 0 .. Len(path) |-> IF i = 0 THEN mapStart ELSE MapStep(f[i - 1], path[i])]
  <1>1. PICK n : n = Len(path) /\ n \in Nat
    OBVIOUS
  <1>2. PICK h : h = MapTrace(path)
    OBVIOUS
  <1>3. h = CHOOSE f : f = F(f)
    BY <1>2 DEF MapTrace
  <1>4. t = F(t)
    BY DEF MapThrough
  <1>5. h = F(h)
    <2> HIDE DEF F
    <2> QED
      BY <1>3, <1>4
  <1> DEFINE bad == {i \in 0 .. n : h[i] # t[i]}
  <1>6. bad = {}
    <2> SUFFICES ASSUME bad # {} PROVE FALSE
      OBVIOUS
    <2>1. PICK k \in bad : \A j \in bad : k <= j
      <3>1. bad \subseteq Nat /\ bad # {}
        BY <1>1
      <3> HIDE DEF bad
      <3> QED
        BY ONLY <3>1, LeastElement
    <2>2. k \in 0 .. n /\ h[k] # t[k]
      BY <2>1
    <2>3. h[k] = (IF k = 0 THEN mapStart ELSE MapStep(h[k - 1], path[k]))
      BY <1>1, <1>5, <2>2
    <2>4. t[k] = (IF k = 0 THEN mapStart ELSE MapStep(t[k - 1], path[k]))
      BY <1>1, <1>4, <2>2
    <2>5. k # 0
      BY <2>2, <2>3, <2>4
    <2>6. k - 1 \in 0 .. n /\ ~(k <= k - 1)
      BY <1>1, <2>2, <2>5
    <2>7. h[k - 1] = t[k - 1]
      BY <2>1, <2>6
    <2> QED
      BY <2>2, <2>3, <2>4, <2>7
  <1>7. \A i \in 0 .. n : h[i] = t[i]
    BY <1>6
  <1>8. h = [i \in 0 .. n |-> h[i]] /\ t = [i \in 0 .. n |-> t[i]]
    BY <1>1, <1>4, <1>5
  <1> HIDE DEF F, bad
  <1> QED
    BY <1>2, <1>7, <1>8

\* A path that goes on with one move.
LEMMA MapThroughAppend ==
    ASSUME NEW path \in Seq(MapMoves), NEW m \in MapMoves, NEW t, MapThrough(t, path), NEW n, n = Len(path)
    PROVE  \E u : /\ MapThrough(u, Append(path, m)) /\ \A i \in 0 .. n : u[i] = t[i]
                  /\ u[n + 1] = MapStep(t[n], m) /\ Len(Append(path, m)) = n + 1 /\ n \in Nat
  <1>1. /\ n \in Nat /\ Len(Append(path, m)) = n + 1
        /\ \A i \in 1 .. n : Append(path, m)[i] = path[i]
        /\ Append(path, m)[n + 1] = m
    BY AppendProperties
  <1>2. PICK a : a = Append(path, m)
    OBVIOUS
  <1> DEFINE u == [i \in 0 .. n + 1 |-> IF i = n + 1 THEN MapStep(t[n], m) ELSE t[i]]
  <1>3. \A i \in 0 .. n : i \in 0 .. n + 1 /\ i # n + 1 /\ u[i] = t[i]
    BY <1>1
  <1>4. n + 1 \in 0 .. n + 1 /\ u[n + 1] = MapStep(t[n], m)
    BY <1>1
  <1>5. ASSUME NEW i \in 0 .. n + 1 PROVE u[i] = IF i = 0 THEN mapStart ELSE MapStep(u[i - 1], a[i])
    <2>1. CASE i = n + 1
      <3>1. i # 0 /\ i - 1 = n /\ n \in 0 .. n
        BY <1>1, <2>1
      <3>2. u[i - 1] = t[n] /\ a[i] = m
        BY <1>1, <1>2, <1>3, <2>1, <3>1
      <3> HIDE DEF u
      <3> QED
        BY <1>4, <2>1, <3>1, <3>2
    <2>2. CASE i # n + 1
      <3>1. i \in 0 .. n /\ (i # 0 => i - 1 \in 0 .. n /\ i \in 1 .. n)
        BY <1>1, <2>2
      <3>2. t[i] = IF i = 0 THEN mapStart ELSE MapStep(t[i - 1], path[i])
        BY <3>1 DEF MapThrough
      <3>3. u[i] = t[i] /\ (i # 0 => u[i - 1] = t[i - 1] /\ a[i] = path[i])
        BY <1>1, <1>2, <1>3, <3>1
      <3> HIDE DEF u
      <3> QED
        BY <3>2, <3>3
    <2> QED
      BY <2>1, <2>2
  <1>6. MapThrough(u, a)
    <2>1. u = [i \in 0 .. n + 1 |-> u[i]]
      OBVIOUS
    <2> HIDE DEF u
    <2> QED
      BY <1>1, <1>2, <1>5, <2>1 DEF MapThrough
  <1> HIDE DEF u
  <1> QED
    BY <1>1, <1>2, <1>3, <1>4, <1>6

\* An entry of the queue: its path leads from '*' through open cells.
MapLed(e) ==
    \E t : /\ MapThrough(t, e.path) /\ t[Len(e.path)] = e.at
           /\ \A i \in 0 .. Len(e.path) : t[i] \in mapOpen

\* All around a cell is visited, and the cell is not 'E'.
MapDone(p) ==
    p # mapEnd /\ \A m \in MapMoves : MapStep(p, m) \in mapOpen => MapStep(p, m) \in mapVisited

\* What may be in the queue.
MapEntries == [at : mapOpen, path : Seq(MapMoves)]

\* The maze while it is searched.
MapMazeRight ==
    /\ ~MapAbove
    /\ mapOpen \subseteq MapInterior /\ mapStart \in mapOpen /\ mapEnd \in mapOpen
    /\ mapStart # mapEnd /\ mapPath = <<>>

\* The queue holds the border of what is visited, in the order of the lengths
\* of the paths, which differ by one at most; the paths are shortest.
MapBorder ==
    /\ mapStart \in mapVisited /\ mapVisited \subseteq mapOpen
    /\ mapQueue \in Seq(MapEntries)
    /\ \A i \in DOMAIN mapQueue :
          LET e == mapQueue[i]
          IN  /\ e.at \in mapVisited /\ MapLed(e)
              /\ Len(e.path) > 0 => e.at \notin MapNear[Len(e.path) - 1]
    /\ \A i, j \in DOMAIN mapQueue : i <= j =>
          /\ Len(mapQueue[i].path) <= Len(mapQueue[j].path)
          /\ Len(mapQueue[j].path) <= Len(mapQueue[1].path) + 1
    /\ \A p \in mapVisited : (\E i \in DOMAIN mapQueue : mapQueue[i].at = p) \/ MapDone(p)
    /\ mapQueue # <<>> => MapNear[Len(mapQueue[1].path)] \subseteq mapVisited

\* The whole maze is on the map.
MapWholeRight ==
    /\ Len(mapWhole) \in Nat /\ MapH <= Len(mapWhole)
    /\ \A y \in 1 .. MapH : mapWhole[y] = MapColumns

\* A cell of the maze is not on its border.
LEMMA MapInside ==
    ASSUME MapMazeRight, NEW p \in mapOpen
    PROVE  /\ p \in MapPlane /\ p = <<p[1], p[2]>>
           /\ p[1] \in 1 .. MapH - 2 /\ p[2] \in 1 .. MapW - 2
  BY MapSizesAssumption DEF MapMazeRight, MapInterior, MapPlane

\* The map shows each cell of the maze at its place.
LEMMA MapCellIs ==
    ASSUME MapMazeRight, MapWholeRight, NEW y \in 0 .. MapH - 1, NEW x \in 0 .. MapW - 1
    PROVE  MapReadable(<<y, x>>) /\ MapCellAt(<<y, x>>) = <<y, x>>
  <1>1. PICK q, n : q = <<y, x>> /\ n = Len(mapWhole) /\ n \in Nat /\ MapH <= n
    BY DEF MapWholeRight
  <1>2. y \in Int /\ x \in Int /\ 0 <= y /\ 0 <= x /\ y + 1 \in 1 .. MapH /\ x + 1 \in 1 .. MapW
        /\ y + 1 \in 1 .. n /\ (y + 1) - 1 + 0 = y /\ (x + 1) - 1 = x
    BY <1>1, MapSizesAssumption
  <1>3. MapIndex(q[1], Len(mapWhole)) = y + 1
    BY <1>1, <1>2 DEF MapIndex
  <1>4. MapRowAt(q) = MapColumns
    BY <1>2, <1>3 DEF MapRowAt, MapWholeRight
  <1>5. Len(MapColumns) = MapW /\ MapColumns[x + 1] = x
    <2>1. Len(MapColumns) = MapW
      BY MapSizesAssumption DEF MapColumns
    <2> QED
      BY <1>2, <2>1 DEF MapColumns
  <1>6. MapIndex(q[2], Len(MapRowAt(q))) = x + 1
    BY <1>1, <1>2, <1>4, <1>5 DEF MapIndex
  <1>7. MapReadable(q)
    BY <1>1, <1>2, <1>3, <1>4, <1>5, <1>6 DEF MapReadable
  <1>8. MapShift = 0
    BY DEF MapMazeRight, MapShift
  <1>9. MapCellAt(q) = <<y, x>>
    BY <1>2, <1>3, <1>4, <1>5, <1>6, <1>8 DEF MapCellAt
  <1> QED
    BY <1>1, <1>7, <1>9

\* A turn of the search at a cell of the maze reads the symbols of the maze.
LEMMA MapTurnIs ==
    ASSUME MapMazeRight, MapWholeRight, NEW p \in mapOpen
    PROVE  /\ MapCellAt(p) = p /\ MapReadable(p)
           /\ \A m \in MapMoves : MapReadable(MapStep(p, m)) /\ MapCellAt(MapStep(p, m)) = MapStep(p, m)
           /\ \A q \in MapLooks(p) : MapReadable(q)
  <1>1. /\ p \in MapPlane /\ p[1] \in 1 .. MapH - 2 /\ p[2] \in 1 .. MapW - 2 /\ p = <<p[1], p[2]>>
    BY MapInside
  <1>2. PICK y, x : y = p[1] /\ x = p[2]
    OBVIOUS
  <1>3. /\ y \in 0 .. MapH - 1 /\ x \in 0 .. MapW - 1 /\ y - 1 \in 0 .. MapH - 1
        /\ y + 1 \in 0 .. MapH - 1 /\ x - 1 \in 0 .. MapW - 1 /\ x + 1 \in 0 .. MapW - 1
    BY ONLY <1>1, <1>2, MapSizesAssumption
  <1>4. MapCellAt(p) = p /\ MapReadable(p)
    BY <1>1, <1>2, <1>3, MapCellIs
  <1>5. ASSUME NEW m \in MapMoves
        PROVE  MapReadable(MapStep(p, m)) /\ MapCellAt(MapStep(p, m)) = MapStep(p, m)
    <2>1. PICK q : q = MapStep(p, m)
      OBVIOUS
    <2>2. q = <<y - 1, x>> \/ q = <<y + 1, x>> \/ q = <<y, x - 1>> \/ q = <<y, x + 1>>
      BY <1>1, <1>2, <2>1, MapStepIs DEF MapMoves
    <2> QED
      BY <1>3, <2>1, <2>2, MapCellIs
  <1>6. \A i \in 1 .. 4 : MapOrder[i] \in MapMoves
    BY DEF MapOrder, MapMoves
  <1> QED
    BY <1>4, <1>5, <1>6 DEF MapLooks

\* On the map, the free neighbours of a cell are its open neighbours.
LEMMA MapFreeIs ==
    ASSUME MapMazeRight, MapWholeRight, NEW p \in mapOpen, NEW m \in MapMoves
    PROVE  MapFree(MapStep(p, m)) <=> MapStep(p, m) \in mapOpen \ {mapStart}
  BY MapTurnIs DEF MapFree

\* Concatenation, named for the lemmas about it.
MapCat(a, b) == a \o b

\* An order of the four moves.
MapOrders(o) == (\A i \in 1 .. 4 : o[i] \in MapMoves) /\ MapMoves = {o[1], o[2], o[3], o[4]}

\* The moves of G in the order o.
MapPicked(o, G) == FlattenSeq([i \in 1 .. 4 |-> IF o[i] \in G THEN <<o[i]>> ELSE <<>>])

\* A sequence of the moves of G.
MapHolds(s, G) == s \in Seq(MapMoves) /\ {s[i] : i \in 1 .. Len(s)} = G

\* The moves of G, in whatever order they are looked at.
LEMMA MapMovesOf ==
    ASSUME NEW o, MapOrders(o), NEW G, G \subseteq MapMoves,
           NEW s, s = MapPicked(o, G)
    PROVE  MapHolds(s, G)
  <1> DEFINE t == [i \in 1 .. 4 |-> IF o[i] \in G THEN <<o[i]>> ELSE <<>>]
  <1>1. /\ \A i \in 1 .. 4 : o[i] \in MapMoves
        /\ MapMoves = {o[1], o[2], o[3], o[4]}
    BY DEF MapOrders
  <1>2. s = FlattenSeq(t) /\ Len(t) = 4
    BY DEF MapPicked
  <1>3. \A i \in 1 .. 4 : t[i] \in Seq(MapMoves) /\ Range(t[i]) = {m \in {o[i]} : m \in G}
    <2> SUFFICES ASSUME NEW i \in 1 .. 4
                 PROVE  t[i] \in Seq(MapMoves) /\ Range(t[i]) = {m \in {o[i]} : m \in G}
      OBVIOUS
    <2>1. PICK c : c = o[i] /\ c \in MapMoves
      BY <1>1
    <2>2. t[i] = IF c \in G THEN <<c>> ELSE <<>>
      BY <2>1
    <2>3. CASE c \in G
      <3>1. DOMAIN <<c>> = 1 .. 1 /\ <<c>>[1] = c /\ <<c>> \in Seq(MapMoves)
        BY <2>1
      <3>2. Range(<<c>>) = {c}
        BY <3>1 DEF Range
      <3> HIDE DEF t
      <3> QED
        BY <2>1, <2>2, <2>3, <3>1, <3>2
    <2>4. CASE c \notin G
      <3>1. DOMAIN <<>> = {} /\ <<>> \in Seq(MapMoves)
        OBVIOUS
      <3>2. Range(<<>>) = {}
        BY <3>1 DEF Range
      <3> HIDE DEF t
      <3> QED
        BY <2>1, <2>2, <2>4, <3>1, <3>2
    <2> QED
      BY <2>3, <2>4
  <1> HIDE DEF t
  <1>4. PICK g : FlatRuns(g, t, 4) /\ FlattenSeq(t) = g[4]
    <2>1. 4 \in Nat \ {0}
      OBVIOUS
    <2> QED
      BY ONLY <1>2, <2>1, FlattenIs
  <1>5. g[1] = t[1] /\ g[2] = g[1] \o t[2] /\ g[3] = g[2] \o t[3] /\ g[4] = g[3] \o t[4]
    <2>1. \A k \in 1 .. 4 : g[k] = IF k = 1 THEN t[k] ELSE MapCat(g[k - 1], t[k])
      BY <1>4 DEF FlatRuns, MapCat
    <2>2. 1 \in 1 .. 4 /\ 2 \in 1 .. 4 /\ 3 \in 1 .. 4 /\ 4 \in 1 .. 4 /\ 2 - 1 = 1 /\ 3 - 1 = 2 /\ 4 - 1 = 3
      OBVIOUS
    <2>3. g[1] = t[1]
      BY <2>1, <2>2
    <2>4. g[2] = MapCat(g[2 - 1], t[2])
      BY ONLY <2>1, <2>2
    <2>5. g[3] = MapCat(g[3 - 1], t[3])
      BY ONLY <2>1, <2>2
    <2>6. g[4] = MapCat(g[4 - 1], t[4])
      BY ONLY <2>1, <2>2
    <2> QED
      BY ONLY <2>2, <2>3, <2>4, <2>5, <2>6 DEF MapCat
  <1>6. PICK a, b, c, d : a = t[1] /\ b = t[2] /\ c = t[3] /\ d = t[4]
    OBVIOUS
  <1>7. a \in Seq(MapMoves) /\ b \in Seq(MapMoves) /\ c \in Seq(MapMoves) /\ d \in Seq(MapMoves)
    BY <1>3, <1>6
  <1>8. /\ s \in Seq(MapMoves)
        /\ Range(s) = ((Range(a) \cup Range(b)) \cup Range(c)) \cup Range(d)
    <2>1. PICK u : u = a \o b
      OBVIOUS
    <2>2. u \in Seq(MapMoves) /\ Range(u) = Range(a) \cup Range(b)
      BY ONLY <1>7, <2>1, JoinRange
    <2>3. PICK v : v = u \o c
      OBVIOUS
    <2>4. v \in Seq(MapMoves) /\ Range(v) = Range(u) \cup Range(c)
      BY ONLY <1>7, <2>2, <2>3, JoinRange
    <2>5. PICK w : w = v \o d
      OBVIOUS
    <2>6. w \in Seq(MapMoves) /\ Range(w) = Range(v) \cup Range(d)
      BY ONLY <1>7, <2>4, <2>5, JoinRange
    <2>7. s = w
      BY <1>2, <1>4, <1>5, <1>6, <2>1, <2>3, <2>5
    <2> QED
      BY <2>2, <2>4, <2>6, <2>7
  <1>9. Range(s) = G
    <2>1. /\ Range(a) = {m \in {o[1]} : m \in G} /\ Range(b) = {m \in {o[2]} : m \in G}
          /\ Range(c) = {m \in {o[3]} : m \in G} /\ Range(d) = {m \in {o[4]} : m \in G}
      BY <1>3, <1>6
    <2> QED
      BY <1>1, <1>8, <2>1
  <1> QED
    BY ONLY <1>8, <1>9 DEF Range, MapHolds

\* The new moves, each once or in whatever order.
LEMMA MapFreshMovesAre ==
    ASSUME NEW p, NEW s, s = MapFreshMoves(p)
    PROVE  s \in Seq(MapMoves) /\ {s[i] : i \in 1 .. Len(s)} = {m \in MapMoves : MapFresh(p, m)}
  <1>1. PICK G : G = {m \in MapMoves : MapFresh(p, m)}
    OBVIOUS
  <1>2. MapOrders(MapOrder)
    BY DEF MapOrders, MapOrder, MapMoves
  <1>3. s = MapPicked(MapOrder, G)
    <2>1. \A i \in 1 .. 4 : MapFresh(p, MapOrder[i]) <=> MapOrder[i] \in G
      BY <1>1, <1>2 DEF MapOrders
    <2> QED
      BY <2>1 DEF MapFreshMoves, MapPicked
  <1>4. G \subseteq MapMoves
    BY <1>1
  <1>5. MapHolds(s, G)
    BY ONLY <1>2, <1>3, <1>4, MapMovesOf
  <1> QED
    BY <1>1, <1>5 DEF MapHolds

\* While the maze stays, so do the reference and the ways through it.
LEMMA MapMazeStays ==
    ASSUME mapOpen' = mapOpen, mapStart' = mapStart
    PROVE  /\ MapNear' = MapNear
           /\ \A e : MapLed(e)' <=> MapLed(e)
  <1>1. MapNear' = MapNear
    BY DEF MapNear
  <1> QED
    BY <1>1 DEF MapThrough, MapLed

\* The entry for a move to a new cell.
MapEntryOf(e, m) == [at |-> MapStep(e.at, m), path |-> Append(e.path, m)]

\* The entry for a free and new neighbour is right.
LEMMA MapEntryRight ==
    ASSUME MapMazeRight, MapWholeRight, mapStart \in mapVisited,
           NEW e \in MapEntries, MapLed(e), NEW m \in MapMoves, MapFresh(e.at, m)
    PROVE  LET f == MapEntryOf(e, m)
           IN  /\ f \in MapEntries /\ f.at \notin mapVisited /\ MapLed(f)
               /\ Len(f.path) = Len(e.path) + 1 /\ f.at = MapStep(e.at, m)
  <1>1. PICK f : f = MapEntryOf(e, m)
    OBVIOUS
  <1>2. e.at \in mapOpen /\ e.path \in Seq(MapMoves)
    BY DEF MapEntries
  <1>3. f.at = MapStep(e.at, m) /\ f.path = Append(e.path, m)
    BY <1>1 DEF MapEntryOf
  <1>4. f.at \in mapOpen /\ f.at \notin mapVisited
    BY <1>2, <1>3, MapFreeIs DEF MapFresh
  <1>5. PICK t : /\ MapThrough(t, e.path) /\ t[Len(e.path)] = e.at
                 /\ \A i \in 0 .. Len(e.path) : t[i] \in mapOpen
    BY DEF MapLed
  <1>6. PICK n : n = Len(e.path)
    OBVIOUS
  <1>7. PICK u : /\ MapThrough(u, f.path) /\ \A i \in 0 .. n : u[i] = t[i]
                 /\ u[n + 1] = MapStep(t[n], m) /\ Len(f.path) = n + 1 /\ n \in Nat
    BY <1>2, <1>3, <1>5, <1>6, MapThroughAppend
  <1>8. \A i \in 0 .. n + 1 : u[i] \in mapOpen
    <2> SUFFICES ASSUME NEW i \in 0 .. n + 1 PROVE u[i] \in mapOpen
      OBVIOUS
    <2>1. i \in 0 .. n \/ i = n + 1
      BY <1>7
    <2> QED
      BY <1>3, <1>4, <1>5, <1>6, <1>7, <2>1
  <1>9. MapLed(f)
    <2>1. u[n + 1] = f.at
      BY <1>3, <1>5, <1>6, <1>7
    <2> QED
      BY <1>7, <1>8, <2>1 DEF MapLed
  <1>10. f \in MapEntries
    <2>1. Append(e.path, m) \in Seq(MapMoves)
      BY <1>2, AppendProperties
    <2>2. f = [at |-> MapStep(e.at, m), path |-> Append(e.path, m)]
      BY <1>1 DEF MapEntryOf
    <2> QED
      BY <1>3, <1>4, <2>1, <2>2 DEF MapEntries
  <1> QED
    BY <1>1, <1>3, <1>4, <1>6, <1>7, <1>9, <1>10

\* The entries and the cells of the moves next from e.
MapEntriesOf(e, next) ==
    [i \in 1 .. Len(next) |-> [at |-> MapStep(e.at, next[i]), path |-> Append(e.path, next[i])]]

MapCellsOf(e, next) == {MapStep(e.at, next[i]) : i \in 1 .. Len(next)}

\* r is what cur and its moves next leave of a queue of n entries.
MapRest(cur, next, r, n) ==
    /\ n \in Nat \ {0} /\ cur = mapQueue[1] /\ cur \in MapEntries
    /\ r \in Seq(MapEntries) /\ n - 1 <= Len(r)
    /\ \A i \in DOMAIN r :
          \/ i \in 1 .. n - 1 /\ i + 1 \in DOMAIN mapQueue /\ r[i] = mapQueue[i + 1]
          \/ i \in Nat /\ i > n - 1 /\ \E m \in MapMoves : MapFresh(cur.at, m) /\ r[i] = MapEntryOf(cur, m)
    /\ \A i \in DOMAIN mapQueue : i # 1 => i - 1 \in DOMAIN r /\ r[i - 1] = mapQueue[i]
    /\ \A p : p \in MapCellsOf(cur, next) <=>
               \E m \in MapMoves : MapFresh(cur.at, m) /\ p = MapStep(cur.at, m)
    /\ \A m \in MapMoves : MapFresh(cur.at, m) => \E i \in DOMAIN r : r[i] = MapEntryOf(cur, m)

\* What is left in the queue after a turn of the search.
LEMMA MapPopped ==
    ASSUME MapMazeRight, mapQueue \in Seq(MapEntries), mapQueue # <<>>,
           NEW cur, cur = MapPop(mapQueue)[1], NEW next, next = MapFreshMoves(cur.at),
           NEW r, r = MapCat(MapPop(mapQueue)[2], MapEntriesOf(cur, next)),
           \A m \in MapMoves : MapFresh(cur.at, m) => MapEntryOf(cur, m) \in MapEntries,
           NEW n, n = Len(mapQueue)
    PROVE  MapRest(cur, next, r, n)
  <1>1. PICK q : q = mapQueue
    OBVIOUS
  <1>2. PICK tl : tl = MapPop(q)[2]
    OBVIOUS
  <1>3. /\ n \in Nat \ {0} /\ DOMAIN q = 1 .. n /\ cur = q[1] /\ cur \in MapEntries
        /\ tl \in Seq(MapEntries) /\ Len(tl) = n - 1
        /\ \A i \in 1 .. n - 1 : tl[i] = q[i + 1]
    <2>1. cur = Head(q) /\ tl = Tail(q) /\ q \in Seq(MapEntries) /\ q # <<>>
      BY <1>1, <1>2 DEF MapPop
    <2> QED
      BY <1>1, <2>1, HeadTailProperties
  <1>4. PICK k : k = Len(next)
    OBVIOUS
  <1>5. /\ k \in Nat /\ \A i \in 1 .. k : next[i] \in MapMoves /\ MapFresh(cur.at, next[i])
        /\ {next[i] : i \in 1 .. k} = {m \in MapMoves : MapFresh(cur.at, m)}
    <2>1. next \in Seq(MapMoves) /\ {next[i] : i \in 1 .. Len(next)} = {m \in MapMoves : MapFresh(cur.at, m)}
      BY MapFreshMovesAre
    <2> QED
      BY <1>4, <2>1
  <1>6. PICK new : new = [i \in 1 .. k |-> MapEntryOf(cur, next[i])]
    OBVIOUS
  <1>7. new \in Seq(MapEntries) /\ Len(new) = k /\ \A i \in 1 .. k : new[i] = MapEntryOf(cur, next[i])
    <2>1. new \in [1 .. k -> MapEntries]
      BY <1>5, <1>6
    <2> QED
      BY <1>5, <1>6, <2>1, SeqDef
  <1>8. r = tl \o new
    BY <1>1, <1>2, <1>4, <1>6 DEF MapEntryOf, MapEntriesOf, MapCat
  <1>9. /\ r \in Seq(MapEntries) /\ Len(r) = n - 1 + k /\ DOMAIN r = 1 .. n - 1 + k
        /\ \A i \in 1 .. n - 1 + k : r[i] = IF i <= n - 1 THEN tl[i] ELSE new[i - (n - 1)]
    <2>0. tl \in Seq(MapEntries) /\ new \in Seq(MapEntries)
      BY <1>3, <1>7
    <2>1. /\ r \in Seq(MapEntries) /\ Len(r) = Len(tl) + Len(new)
          /\ \A i \in 1 .. Len(tl) + Len(new) : r[i] = IF i <= Len(tl) THEN tl[i] ELSE new[i - Len(tl)]
      BY ONLY <2>0, <1>8, ConcatProperties
    <2>2. DOMAIN r = 1 .. Len(r)
      BY <2>1
    <2> QED
      BY <1>3, <1>7, <2>1, <2>2
  <1>10. ASSUME NEW i \in 1 .. n - 1 + k
         PROVE  \/ i \in 1 .. n - 1 /\ i + 1 \in 1 .. n /\ r[i] = q[i + 1]
                \/ i \in Nat /\ i > n - 1 /\ \E m \in MapMoves : MapFresh(cur.at, m) /\ r[i] = MapEntryOf(cur, m)
    <2>1. CASE i <= n - 1
      <3>1. i \in 1 .. n - 1 /\ i + 1 \in 1 .. n
        BY <1>3, <1>5, <2>1
      <3> QED
        BY <1>3, <1>9, <2>1, <3>1
    <2>2. CASE ~(i <= n - 1)
      <3>1. i \in Nat /\ i > n - 1 /\ i - (n - 1) \in 1 .. k
        BY <1>3, <1>5, <2>2
      <3>2. r[i] = MapEntryOf(cur, next[i - (n - 1)])
        BY <1>7, <1>9, <2>2, <3>1
      <3> QED
        BY <1>5, <3>1, <3>2
    <2> QED
      BY <2>1, <2>2
  <1>11. ASSUME NEW i \in 1 .. n, i # 1
         PROVE  i - 1 \in DOMAIN r /\ r[i - 1] = q[i]
    <2>1. i - 1 \in 1 .. n - 1 /\ i - 1 \in 1 .. n - 1 + k /\ (i - 1) + 1 = i /\ i - 1 <= n - 1
      BY <1>3, <1>5, <1>11
    <2> QED
      BY <1>3, <1>9, <2>1
  <1>12. ASSUME NEW m \in MapMoves, MapFresh(cur.at, m)
         PROVE  \E i \in DOMAIN r : r[i] = MapEntryOf(cur, m)
    <2>1. PICK j \in 1 .. k : next[j] = m
      BY <1>5, <1>12
    <2>2. PICK i : i = n - 1 + j
      OBVIOUS
    <2>3. i \in 1 .. n - 1 + k /\ ~(i <= n - 1) /\ i - (n - 1) = j
      BY <1>3, <1>5, <2>2
    <2>4. r[i] = new[j]
      BY <1>9, <2>3
    <2> QED
      BY <1>7, <1>9, <2>1, <2>3, <2>4
  <1>13. \A p : p \in MapCellsOf(cur, next) <=>
               \E m \in MapMoves : MapFresh(cur.at, m) /\ p = MapStep(cur.at, m)
    BY <1>4, <1>5 DEF MapCellsOf
  <1>14. n - 1 <= Len(r)
    BY <1>3, <1>5, <1>9
  <1>15. mapQueue = q /\ DOMAIN mapQueue = 1 .. n
    BY <1>1, <1>3
  <1> QED
    BY ONLY <1>3, <1>9, <1>10, <1>11, <1>12, <1>13, <1>14, <1>15 DEF MapRest

\* A turn of the search that does not end it keeps the border.
LEMMA MapBorderPops ==
    ASSUME MapMazeRight, MapWholeRight, MapBorder, mapQueue # <<>>,
           mapPc = "search", mapLab # 1, MapSearch, mapQueue[1].at # mapEnd
    PROVE  MapBorder'
  <1> DEFINE cur == MapPop(mapQueue)[1]
             next == MapFreshMoves(cur.at)
  <1>1. PICK q, r : q = mapQueue /\ r = mapQueue'
    OBVIOUS
  <1>2. PICK c : c = cur
    OBVIOUS
  <1>3. PICK nx : nx = next
    OBVIOUS
  <1>4. PICK n : n = Len(q)
    OBVIOUS
  <1>5. c = q[1] /\ q \in Seq(MapEntries) /\ q # <<>>
    <2>1. q \in Seq(MapEntries) /\ q # <<>> /\ c = Head(q)
      BY <1>1, <1>2 DEF MapBorder, MapPop
    <2> QED
      BY <2>1
  <1>6. /\ r = MapPop(q)[2] \o [i \in 1 .. Len(nx) |->
                   [at |-> MapStep(c.at, nx[i]), path |-> Append(c.path, nx[i])]]
        /\ mapVisited' = mapVisited \cup {MapStep(c.at, nx[i]) : i \in 1 .. Len(nx)}
        /\ mapOpen' = mapOpen /\ mapStart' = mapStart /\ mapEnd' = mapEnd
    <2>1. c.at \in mapOpen /\ c.at # mapEnd
      <3>1. c \in MapEntries
        BY <1>5
      <3> QED
        BY <1>1, <1>5, <3>1 DEF MapEntries
    <2>2. MapReadable(c.at) /\ MapCellAt(c.at) = c.at /\ \A p \in MapLooks(c.at) : MapReadable(p)
      BY <2>1, MapTurnIs
    <2> QED
      BY <1>1, <1>2, <1>3, <1>5, <2>1, <2>2 DEF MapSearch, mapMaze
  <1>7. n \in Nat \ {0} /\ DOMAIN q = 1 .. n /\ 1 \in 1 .. n /\ c \in MapEntries
    BY <1>4, <1>5
  <1>8. /\ c.at \in mapVisited /\ MapLed(c) /\ c.at \in mapOpen /\ c.path \in Seq(MapMoves)
        /\ Len(c.path) \in Nat /\ (Len(c.path) > 0 => c.at \notin MapNear[Len(c.path) - 1])
    <2>1. c.path \in Seq(MapMoves) /\ c.at \in mapOpen
      BY <1>7 DEF MapEntries
    <2>2. c.at \in mapVisited /\ MapLed(c) /\ (Len(c.path) > 0 => c.at \notin MapNear[Len(c.path) - 1])
      BY <1>1, <1>5, <1>7 DEF MapBorder
    <2> QED
      BY <2>1, <2>2
  <1>9. PICK d : d = Len(c.path) /\ d \in Nat
    BY <1>8
  <1>10. ASSUME NEW m \in MapMoves, MapFresh(c.at, m)
         PROVE  /\ MapEntryOf(c, m) \in MapEntries /\ MapEntryOf(c, m).at \notin mapVisited
                /\ MapLed(MapEntryOf(c, m)) /\ Len(MapEntryOf(c, m).path) = d + 1
                /\ MapEntryOf(c, m).at = MapStep(c.at, m)
    <2>1. mapStart \in mapVisited
      BY DEF MapBorder
    <2> QED
      BY <1>7, <1>8, <1>9, <1>10, <2>1, MapEntryRight
  <1>11. /\ r \in Seq(MapEntries) /\ n - 1 <= Len(r)
         /\ \A i \in DOMAIN r :
                 \/ i \in 1 .. n - 1 /\ i + 1 \in DOMAIN q /\ r[i] = q[i + 1]
                 \/ i \in Nat /\ i > n - 1 /\ \E m \in MapMoves : MapFresh(c.at, m) /\ r[i] = MapEntryOf(c, m)
         /\ \A i \in DOMAIN q : i # 1 => i - 1 \in DOMAIN r /\ r[i - 1] = q[i]
         /\ \A p : p \in MapCellsOf(c, nx) <=>
                    \E m \in MapMoves : MapFresh(c.at, m) /\ p = MapStep(c.at, m)
         /\ \A m \in MapMoves : MapFresh(c.at, m) => \E i \in DOMAIN r : r[i] = MapEntryOf(c, m)
    <2>1. mapQueue = q /\ mapQueue \in Seq(MapEntries) /\ mapQueue # <<>> /\ c = MapPop(mapQueue)[1] /\ nx = MapFreshMoves(c.at)
      BY <1>1, <1>2, <1>3, <1>5
    <2>2. r = MapCat(MapPop(mapQueue)[2], MapEntriesOf(c, nx))
      BY <1>1, <1>6 DEF MapCat, MapEntriesOf
    <2>3. \A m \in MapMoves : MapFresh(c.at, m) => MapEntryOf(c, m) \in MapEntries
      BY <1>10
    <2>4. n = Len(mapQueue)
      BY <1>1, <1>4
    <2> HIDE DEF cur, next
    <2>5. MapRest(c, nx, r, n)
      BY <2>1, <2>2, <2>3, <2>4, MapPopped
    <2> QED
      BY <2>1, <2>5 DEF MapRest
  <1>12. PICK V, W : V = mapVisited /\ W = mapVisited'
    OBVIOUS
  <1>13. \A p : p \in W <=> p \in V \/ \E m \in MapMoves : MapFresh(c.at, m) /\ p = MapStep(c.at, m)
    <2>1. W = V \cup MapCellsOf(c, nx)
      BY <1>6, <1>12 DEF MapCellsOf
    <2> QED
      BY <1>11, <2>1
  <1> HIDE DEF cur, next
  <1>14. MapNear' = MapNear /\ \A e : MapLed(e)' <=> MapLed(e)
    BY <1>6, MapMazeStays
  <1>15. PICK D : D = DOMAIN r
    OBVIOUS
  <1>16. PICK k : k = Len(r) /\ k \in Nat /\ D = 1 .. k
    BY <1>11, <1>15
  <1>17. \* the old border
         /\ mapStart \in V /\ V \subseteq mapOpen
         /\ \A i \in 1 .. n :
              /\ q[i].at \in V /\ MapLed(q[i])
              /\ Len(q[i].path) > 0 => q[i].at \notin MapNear[Len(q[i].path) - 1]
         /\ \A i, j \in 1 .. n : i <= j =>
              /\ Len(q[i].path) <= Len(q[j].path)
              /\ Len(q[j].path) <= d + 1
         /\ \A p \in V : (\E i \in 1 .. n : q[i].at = p) \/ MapDone(p)
         /\ MapNear[d] \subseteq V
         /\ \A i \in 1 .. n : Len(q[i].path) \in Nat
    <2>1. \A i \in 1 .. n : Len(q[i].path) \in Nat
      <3> SUFFICES ASSUME NEW i \in 1 .. n PROVE Len(q[i].path) \in Nat
        OBVIOUS
      <3>1. q[i] \in MapEntries
        BY <1>5, <1>7
      <3>2. q[i].path \in Seq(MapMoves)
        BY <3>1 DEF MapEntries
      <3> QED
        BY <3>2
    <2>2. mapQueue = q /\ mapVisited = V /\ DOMAIN q = 1 .. n /\ Len(q[1].path) = d /\ q # <<>>
      BY <1>1, <1>5, <1>7, <1>9, <1>12
    <2> QED
      BY <2>1, <2>2 DEF MapBorder
  <1>18. \* a new entry or an old one
         \A i \in D : \/ i + 1 \in 1 .. n /\ i + 1 # 1 /\ r[i] = q[i + 1]
                      \/ i > n - 1 /\ r[i].at \notin V /\ r[i].at \in W /\ MapLed(r[i]) /\ Len(r[i].path) = d + 1
    <2> SUFFICES ASSUME NEW i \in D
                 PROVE  \/ i + 1 \in 1 .. n /\ i + 1 # 1 /\ r[i] = q[i + 1]
                        \/ i > n - 1 /\ r[i].at \notin V /\ r[i].at \in W /\ MapLed(r[i]) /\ Len(r[i].path) = d + 1
      OBVIOUS
    <2>1. CASE i \in 1 .. n - 1 /\ i + 1 \in DOMAIN q /\ r[i] = q[i + 1]
      BY <1>7, <2>1
    <2>2. CASE i > n - 1 /\ \E m \in MapMoves : MapFresh(c.at, m) /\ r[i] = MapEntryOf(c, m)
      <3>1. PICK m \in MapMoves : MapFresh(c.at, m) /\ r[i] = MapEntryOf(c, m)
        BY <2>2
      <3> QED
        BY <1>10, <1>12, <1>13, <2>2, <3>1
    <2> QED
      BY <1>11, <1>15, <2>1, <2>2
  <1>19. mapStart' \in W /\ W \subseteq mapOpen' /\ V \subseteq W
    <2>1. \A m \in MapMoves : MapFresh(c.at, m) => MapStep(c.at, m) \in mapOpen
      BY <1>8, MapFreeIs DEF MapFresh
    <2> QED
      BY <1>6, <1>13, <1>17, <2>1
  <1>20. \A i \in D : /\ r[i].at \in W /\ MapLed(r[i])
                      /\ Len(r[i].path) > 0 => r[i].at \notin MapNear[Len(r[i].path) - 1]
    <2> SUFFICES ASSUME NEW i \in D
                 PROVE  /\ r[i].at \in W /\ MapLed(r[i])
                        /\ Len(r[i].path) > 0 => r[i].at \notin MapNear[Len(r[i].path) - 1]
      OBVIOUS
    <2>1. CASE i + 1 \in 1 .. n /\ r[i] = q[i + 1]
      BY <1>17, <1>19, <2>1
    <2>2. CASE r[i].at \notin V /\ r[i].at \in W /\ MapLed(r[i]) /\ Len(r[i].path) = d + 1
      <3>1. Len(r[i].path) - 1 = d
        BY <1>9, <2>2
      <3> QED
        BY <1>17, <2>2, <3>1
    <2> QED
      BY <1>18, <2>1, <2>2
  <1>21. \A i \in D : d <= Len(r[i].path) /\ Len(r[i].path) <= d + 1
    <2> SUFFICES ASSUME NEW i \in D PROVE d <= Len(r[i].path) /\ Len(r[i].path) <= d + 1
      OBVIOUS
    <2>1. CASE i + 1 \in 1 .. n /\ r[i] = q[i + 1]
      <3>1. 1 <= i + 1 /\ 1 \in 1 .. n
        BY <1>7, <1>16, <2>1
      <3>2. Len(q[1].path) <= Len(q[i + 1].path) /\ Len(q[i + 1].path) <= d + 1
        BY <1>17, <2>1, <3>1
      <3> QED
        BY <1>5, <1>9, <2>1, <3>2
    <2>2. CASE Len(r[i].path) = d + 1
      BY <1>9, <2>2
    <2> QED
      BY <1>18, <2>1, <2>2
  <1>22. \A i \in D : Len(r[i].path) \in Nat
    <2> SUFFICES ASSUME NEW i \in D PROVE Len(r[i].path) \in Nat
      OBVIOUS
    <2>1. r[i] \in MapEntries
      BY <1>11, <1>15
    <2>2. r[i].path \in Seq(MapMoves)
      BY <2>1 DEF MapEntries
    <2> QED
      BY <2>2
  <1>23. \A i, j \in D : i <= j => /\ Len(r[i].path) <= Len(r[j].path)
                                   /\ Len(r[j].path) <= Len(r[1].path) + 1
    <2> SUFFICES ASSUME NEW i \in D, NEW j \in D, i <= j
                 PROVE  Len(r[i].path) <= Len(r[j].path) /\ Len(r[j].path) <= Len(r[1].path) + 1
      OBVIOUS
    <2>1. 1 \in D /\ i \in Nat /\ j \in Nat
      BY <1>16
    <2>2. Len(r[j].path) <= Len(r[1].path) + 1
      <3>1. /\ Len(r[j].path) <= d + 1 /\ d <= Len(r[1].path)
            /\ Len(r[j].path) \in Nat /\ Len(r[1].path) \in Nat
        BY <1>21, <1>22, <2>1
      <3> QED
        BY ONLY <1>9, <3>1
    <2>3. CASE i + 1 \in 1 .. n /\ r[i] = q[i + 1] /\ j + 1 \in 1 .. n /\ r[j] = q[j + 1]
      <3>1. i + 1 <= j + 1
        BY <2>1
      <3> QED
        BY <1>17, <2>2, <2>3, <3>1
    <2>4. CASE Len(r[j].path) = d + 1
      BY <1>9, <1>21, <1>22, <2>2, <2>4
    <2>5. CASE i > n - 1 /\ j + 1 \in 1 .. n
      BY <1>7, <2>1, <2>5
    <2> QED
      BY <1>18, <2>3, <2>4, <2>5
  <1>24. MapDone(c.at)'
    <2>1. c.at # mapEnd'
      BY <1>1, <1>5, <1>6
    <2>2. ASSUME NEW m \in MapMoves, MapStep(c.at, m) \in mapOpen PROVE MapStep(c.at, m) \in W
      <3>1. CASE MapStep(c.at, m) \in V
        BY <1>19, <3>1
      <3>2. CASE MapStep(c.at, m) \notin V
        <4>1. MapStep(c.at, m) # mapStart
          BY <1>17, <3>2
        <4>2. MapFresh(c.at, m)
          BY <1>8, <1>12, <2>2, <3>2, <4>1, MapFreeIs DEF MapFresh
        <4> QED
          BY <1>13, <4>2
      <3> QED
        BY <3>1, <3>2
    <2> QED
      BY <1>6, <1>12, <2>1, <2>2 DEF MapDone
  <1>25. ASSUME NEW p \in V, MapDone(p) PROVE MapDone(p)'
    BY <1>6, <1>12, <1>19, <1>25 DEF MapDone
  <1>26. \A p \in W : (\E i \in D : r[i].at = p) \/ MapDone(p)'
    <2> SUFFICES ASSUME NEW p \in W PROVE (\E i \in D : r[i].at = p) \/ MapDone(p)'
      OBVIOUS
    <2>1. CASE p \notin V
      <3>1. PICK m \in MapMoves : MapFresh(c.at, m) /\ p = MapStep(c.at, m)
        BY <1>13, <2>1
      <3>2. PICK i \in D : r[i] = MapEntryOf(c, m)
        BY <1>11, <1>15, <3>1
      <3> QED
        BY <1>10, <3>1, <3>2
    <2>2. CASE p \in V /\ MapDone(p)
      BY <1>25, <2>2
    <2>3. CASE p \in V /\ ~MapDone(p)
      <3>1. PICK i \in 1 .. n : q[i].at = p
        BY <1>17, <2>3
      <3>2. CASE i = 1
        BY <1>5, <1>24, <3>1, <3>2
      <3>3. CASE i # 1
        <4>1. i - 1 \in D /\ r[i - 1] = q[i]
          BY <1>7, <1>11, <1>15, <3>3
        <4> QED
          BY <3>1, <4>1
      <3> QED
        BY <3>2, <3>3
    <2> QED
      BY <2>1, <2>2, <2>3
  <1>27. r # <<>> => MapNear[Len(r[1].path)] \subseteq W
    <2> SUFFICES ASSUME r # <<>> PROVE MapNear[Len(r[1].path)] \subseteq W
      OBVIOUS
    <2>1. 1 \in D
      BY <1>11, <1>15
    <2>2. Len(r[1].path) \in Nat /\ d <= Len(r[1].path) /\ Len(r[1].path) <= d + 1
      BY <1>21, <1>22, <2>1
    <2>3. CASE Len(r[1].path) = d
      BY <1>17, <1>19, <2>3
    <2>4. CASE Len(r[1].path) = d + 1
      <3>1. MapNear[d + 1] = MapGrown(MapNear[d])
        BY <1>9, MapNearIs
      <3>2. ASSUME NEW p \in MapGrown(MapNear[d]) PROVE p \in W
        <4>1. CASE p \in MapNear[d]
          BY <1>17, <1>19, <4>1
        <4>2. CASE p \in mapOpen /\ \E m \in MapMoves : MapStep(p, m) \in MapNear[d]
          <5>1. PICK m \in MapMoves : MapStep(p, m) \in MapNear[d]
            BY <4>2
          <5>2. PICK s : s = MapStep(p, m)
            OBVIOUS
          <5>3. s \in V /\ s \in W /\ s \in MapNear[d]
            BY <1>17, <1>19, <5>1, <5>2
          <5>4. MapDone(s)'
            <6>1. SUFFICES ASSUME NEW i \in D, r[i].at = s PROVE FALSE
              BY <1>26, <5>3
            <6>2. i \in Nat /\ 1 <= i
              BY <1>16
            <6>3. Len(r[i].path) = d + 1
              BY <1>9, <1>21, <1>22, <1>23, <2>1, <2>4, <6>2
            <6>4. Len(r[i].path) > 0 /\ Len(r[i].path) - 1 = d
              BY <1>9, <6>3
            <6> QED
              BY <1>20, <5>3, <6>1, <6>4
          <5>5. PICK b \in MapMoves : MapStep(s, b) = p
            <6>1. p \in MapPlane
              BY <4>2, MapInside
            <6> QED
              BY <5>2, <6>1, MapStepBack
          <5> QED
            BY <1>6, <1>12, <4>2, <5>4, <5>5 DEF MapDone
        <4> QED
          BY <4>1, <4>2 DEF MapGrown
      <3> QED
        BY <2>4, <3>1, <3>2
    <2> QED
      BY <1>9, <2>2, <2>3, <2>4
  <1>28. r = mapQueue' /\ W = mapVisited' /\ D = DOMAIN r
    BY <1>1, <1>12, <1>15
  <1>29. mapStart' \in W /\ W \subseteq mapOpen' /\ r \in Seq(MapEntries')
    BY <1>6, <1>11, <1>19 DEF MapEntries
  <1>30. \A i \in D : /\ r[i].at \in W /\ MapLed(r[i])'
                      /\ Len(r[i].path) > 0 => r[i].at \notin MapNear'[Len(r[i].path) - 1]
    BY <1>14, <1>20
  <1>31. r # <<>> => MapNear'[Len(r[1].path)] \subseteq W
    BY <1>14, <1>27
  <1> QED
    BY ONLY <1>28, <1>29, <1>30, <1>23, <1>26, <1>31 DEF MapBorder

\* A path that leads to 'E' and that no shorter one does is what is wanted.
LEMMA MapPathIs ==
    ASSUME MapMazeRight, NEW e, MapLed(e), e.at = mapEnd, NEW n, n = Len(e.path), n \in Nat,
           n > 0 => mapEnd \notin MapNear[n - 1],
           mapPath' = e.path, mapPc' = "end", UNCHANGED mapMaze
    PROVE  MapPathShortest'
  <1>1. /\ mapOpen' = mapOpen /\ mapStart' = mapStart /\ mapEnd' = mapEnd
    BY DEF mapMaze
  <1>2. MapNear' = MapNear
    BY <1>1, MapMazeStays
  <1>3. PICK p : p = e.path
    OBVIOUS
  <1>4. PICK t : MapThrough(t, p) /\ t[n] = mapEnd /\ \A i \in 0 .. n : t[i] \in mapOpen
    BY <1>3 DEF MapLed
  <1>5. n > 0
    <2>1. t[0] = mapStart
      <3>1. 0 \in 0 .. Len(p)
        BY <1>3
      <3> QED
        BY <1>4, <3>1 DEF MapThrough
    <2> QED
      BY <1>4, <2>1 DEF MapMazeRight
  <1>6. MapTrace(p)' = t
    <2>1. MapThrough(t, p)'
      BY <1>1, <1>4 DEF MapThrough
    <2>2. MapTrace(p) = t
      BY <1>3, <1>4, MapTraceIs
    <2>3. MapTrace(p)' = MapTrace(p)
      BY <1>1 DEF MapTrace
    <2> QED
      BY <2>2, <2>3
  <1>7. MapTrace(mapPath)' = t
    <2>1. mapPath' = p
      BY <1>3
    <2> QED
      BY <1>6, <2>1 DEF MapTrace
  <1>8. Len(mapPath)' = n
    BY <1>3
  <1>9. mapEnd' \notin MapNear'[n - 1]
    BY <1>1, <1>2, <1>5
  <1> QED
    BY <1>1, <1>4, <1>5, <1>7, <1>8, <1>9 DEF MapPathShortest

\* When the head of the queue is at 'E', its path is what is wanted.
LEMMA MapFound ==
    ASSUME MapMazeRight, MapBorder, mapQueue # <<>>, mapQueue[1].at = mapEnd,
           mapPath' = mapQueue[1].path, mapPc' = "end", UNCHANGED mapMaze
    PROVE  MapPathShortest'
  <1>1. PICK e : e = mapQueue[1]
    OBVIOUS
  <1>2. 1 \in DOMAIN mapQueue /\ e \in MapEntries
    BY <1>1 DEF MapBorder
  <1>3. MapLed(e) /\ (Len(e.path) > 0 => e.at \notin MapNear[Len(e.path) - 1])
    BY <1>1, <1>2 DEF MapBorder
  <1>4. Len(e.path) \in Nat
    <2>1. e.path \in Seq(MapMoves)
      BY <1>2 DEF MapEntries
    <2> QED
      BY <2>1
  <1> QED
    BY <1>1, <1>3, <1>4, MapPathIs

\* When the queue is empty, what is visited is all that can be reached.
LEMMA MapNoWay ==
    ASSUME MapMazeRight, MapBorder, mapQueue = <<>>, mapPath' = mapPath, mapPc' = "end", UNCHANGED mapMaze
    PROVE  MapPathShortest'
  <1>1. mapOpen' = mapOpen /\ mapStart' = mapStart /\ mapEnd' = mapEnd
    BY DEF mapMaze
  <1>2. MapNear' = MapNear
    BY <1>1, MapMazeStays
  <1>3. \A p \in mapVisited : MapDone(p)
    BY DEF MapBorder
  <1>4. MapGrown(mapVisited) \subseteq mapVisited
    <2> SUFFICES ASSUME NEW p \in mapOpen, NEW m \in MapMoves, MapStep(p, m) \in mapVisited
                 PROVE  p \in mapVisited
      BY DEF MapGrown
    <2>1. p \in MapPlane
      BY MapInside
    <2>2. PICK b \in MapMoves : MapStep(MapStep(p, m), b) = p
      BY <2>1, MapStepBack
    <2>3. MapDone(MapStep(p, m))
      BY <1>3
    <2> QED
      BY <2>2, <2>3 DEF MapDone
  <1>5. PICK n : n = MapH * MapW /\ n \in Nat
    BY MapSizesAssumption
  <1>6. MapNear[n] \subseteq mapVisited
    BY <1>4, <1>5, MapNearInside DEF MapBorder
  <1>7. mapEnd \notin mapVisited
    BY <1>3 DEF MapDone
  <1>8. mapPath' = <<>>
    BY DEF MapMazeRight
  <1>9. mapEnd' \notin MapNear'[n]
    BY <1>1, <1>2, <1>6, <1>7
  <1> QED
    BY <1>5, <1>8, <1>9 DEF MapPathShortest

\* No cell is nearer than its rows and columns are away.
MapBall(k) ==
    {p \in MapPlane : /\ (p[1] - mapStart[1]) + (p[2] - mapStart[2]) <= k
                      /\ (p[1] - mapStart[1]) + (mapStart[2] - p[2]) <= k
                      /\ (mapStart[1] - p[1]) + (p[2] - mapStart[2]) <= k
                      /\ (mapStart[1] - p[1]) + (mapStart[2] - p[2]) <= k}

LEMMA MapNearBall ==
    ASSUME MapMazeRight, NEW n \in Nat
    PROVE  MapNear[n] \subseteq MapBall(n)
  <1> DEFINE bad == {k \in Nat : ~(MapNear[k] \subseteq MapBall(k))}
  <1>1. SUFFICES ASSUME n \in bad PROVE FALSE
    OBVIOUS
  <1>2. PICK k \in bad : \A j \in bad : k <= j
    <2>1. bad \subseteq Nat /\ bad # {}
      BY <1>1
    <2> HIDE DEF bad
    <2> QED
      BY ONLY <2>1, LeastElement
  <1>3. mapStart \in MapPlane /\ mapStart[1] \in Int /\ mapStart[2] \in Int
    BY MapInside DEF MapMazeRight, MapPlane
  <1>4. k \in Nat /\ ~(MapNear[k] \subseteq MapBall(k))
    BY <1>2
  <1>5. k # 0
    <2>1. mapStart \in MapBall(0)
      BY <1>3 DEF MapBall
    <2> QED
      BY <1>4, <2>1, MapNearIs
  <1>6. k - 1 \in Nat /\ ~(k <= k - 1) /\ (k - 1) + 1 = k
    BY <1>4, <1>5
  <1>7. MapNear[k - 1] \subseteq MapBall(k - 1)
    BY <1>2, <1>6
  <1>8. MapNear[k] = MapGrown(MapNear[k - 1])
    <2>1. MapNear[(k - 1) + 1] = MapGrown(MapNear[k - 1])
      BY <1>6, MapNearIs
    <2> QED
      BY <1>6, <2>1
  <1>9. ASSUME NEW p \in MapGrown(MapNear[k - 1]) PROVE p \in MapBall(k)
    <2>1. CASE p \in MapNear[k - 1]
      <3>1. p \in MapBall(k - 1)
        BY <1>7, <2>1
      <3>2. p[1] \in Int /\ p[2] \in Int
        BY <3>1 DEF MapBall, MapPlane
      <3> QED
        BY <1>3, <1>4, <3>1, <3>2 DEF MapBall
    <2>2. CASE p \in mapOpen /\ \E m \in MapMoves : MapStep(p, m) \in MapNear[k - 1]
      <3>0. PICK m \in MapMoves : MapStep(p, m) \in MapNear[k - 1]
        BY <2>2
      <3>1. PICK q : q = MapStep(p, m) /\ q \in MapNear[k - 1]
        BY <3>0
      <3>2. q \in MapBall(k - 1)
        BY <1>7, <3>1
      <3>3. p \in MapPlane /\ p[1] \in Int /\ p[2] \in Int
        BY <2>2, MapInside DEF MapPlane
      <3>4. \/ q = <<p[1] - 1, p[2]>> \/ q = <<p[1] + 1, p[2]>>
            \/ q = <<p[1], p[2] - 1>> \/ q = <<p[1], p[2] + 1>>
        BY <3>1, <3>3, MapStepIs DEF MapMoves
      <3>5. /\ (q[1] - mapStart[1]) + (q[2] - mapStart[2]) <= k - 1
            /\ (q[1] - mapStart[1]) + (mapStart[2] - q[2]) <= k - 1
            /\ (mapStart[1] - q[1]) + (q[2] - mapStart[2]) <= k - 1
            /\ (mapStart[1] - q[1]) + (mapStart[2] - q[2]) <= k - 1
        BY <3>2 DEF MapBall
      <3>6. /\ (p[1] - mapStart[1]) + (p[2] - mapStart[2]) <= k
            /\ (p[1] - mapStart[1]) + (mapStart[2] - p[2]) <= k
            /\ (mapStart[1] - p[1]) + (p[2] - mapStart[2]) <= k
            /\ (mapStart[1] - p[1]) + (mapStart[2] - p[2]) <= k
        BY ONLY <1>3, <1>4, <3>3, <3>4, <3>5
      <3> QED
        BY <3>3, <3>6 DEF MapBall
    <2> QED
      BY <2>1, <2>2 DEF MapGrown
  <1> QED
    BY <1>4, <1>8, <1>9

\* times() of MapStraight, and how often it repeats.
MapTimes(n, m) == [i \in 1 .. (IF n > 0 THEN n ELSE 0) |-> m]
MapUp(x) == IF x > 0 THEN x ELSE 0

\* A move repeated.
LEMMA MapTimesIs ==
    ASSUME NEW n \in Int, NEW m \in MapMoves
    PROVE  /\ MapTimes(n, m) \in Seq(MapMoves) /\ Len(MapTimes(n, m)) = MapUp(n)
           /\ \A i \in 1 .. MapUp(n) : MapTimes(n, m)[i] = m
  <1>1. MapUp(n) \in Nat /\ MapTimes(n, m) = [i \in 1 .. MapUp(n) |-> m]
    BY DEF MapUp, MapTimes
  <1> QED
    BY <1>1, SeqDef

\* r is P, of length a, and then Q, of length b.
MapIsJoin(C, r, P, a, Q, b) ==
    /\ r \in Seq(C) /\ Len(r) = a + b
    /\ \A i \in 1 .. a + b : r[i] = IF i <= a THEN P[i] ELSE Q[i - a]

LEMMA MapJoined ==
    ASSUME NEW C, NEW P \in Seq(C), NEW Q \in Seq(C),
           NEW a, Len(P) = a, NEW b, Len(Q) = b
    PROVE  MapIsJoin(C, MapCat(P, Q), P, a, Q, b)
  <1>1. /\ MapCat(P, Q) \in Seq(C) /\ Len(MapCat(P, Q)) = Len(P) + Len(Q)
        /\ \A i \in 1 .. Len(P) + Len(Q) :
              MapCat(P, Q)[i] = IF i <= Len(P) THEN P[i] ELSE Q[i - Len(P)]
    BY ConcatProperties DEF MapCat
  <1> QED
    BY <1>1 DEF MapIsJoin

\* r is a moves to the left, b to the right, c up and d down.
MapIsStraight(r, a, b, c, d) ==
    /\ r \in Seq(MapMoves) /\ Len(r) = ((a + b) + c) + d
    /\ a \in Nat /\ b \in Nat /\ c \in Nat /\ d \in Nat
    /\ \A i \in 1 .. ((a + b) + c) + d :
          r[i] = IF i <= a THEN "A" ELSE IF i <= a + b THEN "D"
                 ELSE IF i <= (a + b) + c THEN "W" ELSE "S"

\* The path of 3-1.py.
LEMMA MapStraightMoves ==
    ASSUME NEW x \in Int, NEW y \in Int, NEW r,
           r = MapCat(MapCat(MapCat(MapTimes(x, "A"), MapTimes(-x, "D")), MapTimes(y, "W")), MapTimes(-y, "S")),
           NEW a, a = MapUp(x), NEW b, b = MapUp(-x), NEW c, c = MapUp(y), NEW d, d = MapUp(-y)
    PROVE  MapIsStraight(r, a, b, c, d)
  <1>1. /\ "A" \in MapMoves /\ "D" \in MapMoves /\ "W" \in MapMoves /\ "S" \in MapMoves
        /\ -x \in Int /\ -y \in Int
    BY DEF MapMoves
  <1>2. PICK sa, sd, sw, ss : /\ sa = MapTimes(x, "A") /\ sd = MapTimes(-x, "D")
                              /\ sw = MapTimes(y, "W") /\ ss = MapTimes(-y, "S")
    OBVIOUS
  <1>3. /\ sa \in Seq(MapMoves) /\ Len(sa) = a /\ \A i \in 1 .. a : sa[i] = "A"
        /\ sd \in Seq(MapMoves) /\ Len(sd) = b /\ \A i \in 1 .. b : sd[i] = "D"
    BY <1>1, <1>2, MapTimesIs
  <1>4. /\ sw \in Seq(MapMoves) /\ Len(sw) = c /\ \A i \in 1 .. c : sw[i] = "W"
        /\ ss \in Seq(MapMoves) /\ Len(ss) = d /\ \A i \in 1 .. d : ss[i] = "S"
    BY <1>1, <1>2, MapTimesIs
  <1>5. a \in Nat /\ b \in Nat /\ c \in Nat /\ d \in Nat
    BY DEF MapUp
  <1>6. PICK j, k, n : j = a + b /\ k = j + c /\ n = k + d
    OBVIOUS
  <1>7. j \in Nat /\ k \in Nat /\ n \in Nat
    BY <1>5, <1>6
  <1>8. PICK u, v : u = MapCat(sa, sd) /\ v = MapCat(u, sw)
    OBVIOUS
  <1>9. r = MapCat(v, ss)
    BY <1>2, <1>8
  <1>10. MapIsJoin(MapMoves, u, sa, a, sd, b)
    BY <1>3, <1>8, MapJoined
  <1>11. u \in Seq(MapMoves) /\ Len(u) = j /\ \A i \in 1 .. j : u[i] = IF i <= a THEN sa[i] ELSE sd[i - a]
    BY ONLY <1>6, <1>10 DEF MapIsJoin
  <1>12. MapIsJoin(MapMoves, v, u, j, sw, c)
    BY <1>4, <1>8, <1>11, MapJoined
  <1>13. v \in Seq(MapMoves) /\ Len(v) = k /\ \A i \in 1 .. k : v[i] = IF i <= j THEN u[i] ELSE sw[i - j]
    BY ONLY <1>6, <1>12 DEF MapIsJoin
  <1>14. MapIsJoin(MapMoves, r, v, k, ss, d)
    BY <1>4, <1>9, <1>13, MapJoined
  <1>15. r \in Seq(MapMoves) /\ Len(r) = n /\ \A i \in 1 .. n : r[i] = IF i <= k THEN v[i] ELSE ss[i - k]
    BY ONLY <1>6, <1>14 DEF MapIsJoin
  <1>16. ASSUME NEW i \in 1 .. n
         PROVE  r[i] = IF i <= a THEN "A" ELSE IF i <= j THEN "D" ELSE IF i <= k THEN "W" ELSE "S"
    <2>0. i \in Nat /\ 1 <= i /\ i <= n
      BY <1>7
    <2>1. CASE i <= a
      <3>1. i \in 1 .. a /\ i \in 1 .. j /\ i <= j /\ i \in 1 .. k /\ i <= k
        BY ONLY <1>5, <1>6, <1>7, <2>0, <2>1
      <3> QED
        BY <1>3, <1>11, <1>13, <1>15, <2>1, <3>1
    <2>2. CASE ~(i <= a) /\ i <= j
      <3>1. i - a \in 1 .. b /\ i \in 1 .. j /\ i \in 1 .. k /\ i <= k
        BY ONLY <1>5, <1>6, <1>7, <2>0, <2>2
      <3>2. r[i] = sd[i - a]
        BY <1>11, <1>13, <1>15, <2>2, <3>1
      <3>3. sd[i - a] = "D"
        BY <1>3, <3>1
      <3> QED
        BY <2>2, <3>2, <3>3
    <2>3. CASE ~(i <= j) /\ i <= k
      <3>1. i - j \in 1 .. c /\ i \in 1 .. k /\ ~(i <= a)
        BY ONLY <1>5, <1>6, <1>7, <2>0, <2>3
      <3>2. r[i] = sw[i - j]
        BY <1>13, <1>15, <2>3, <3>1
      <3>3. sw[i - j] = "W"
        BY <1>4, <3>1
      <3> QED
        BY <2>3, <3>1, <3>2, <3>3
    <2>4. CASE ~(i <= k)
      <3>1. i - k \in 1 .. d /\ ~(i <= a) /\ ~(i <= j)
        BY ONLY <1>5, <1>6, <1>7, <2>0, <2>4
      <3>2. r[i] = ss[i - k]
        BY <1>15, <2>4
      <3>3. ss[i - k] = "S"
        BY <1>4, <3>1
      <3> QED
        BY <2>4, <3>1, <3>2, <3>3
    <2>5. i <= a \/ (~(i <= a) /\ i <= j) \/ (~(i <= j) /\ i <= k) \/ ~(i <= k)
      OBVIOUS
    <2> QED
      BY <2>1, <2>2, <2>3, <2>4, <2>5
  <1> QED
    BY ONLY <1>5, <1>6, <1>15, <1>16 DEF MapIsStraight

\* In an empty room the straight path is one of the shortest.
LEMMA MapStraightRight ==
    ASSUME MapMazeRight, mapOpen = MapInterior, MapStraight
    PROVE  MapPathShortest'
  <1>1. PICK s1, s2, e1, e2 : /\ s1 = mapStart[1] /\ s2 = mapStart[2]
                              /\ e1 = mapEnd[1] /\ e2 = mapEnd[2]
    OBVIOUS
  <1>2. /\ mapStart = <<s1, s2>> /\ mapEnd = <<e1, e2>> /\ <<s1, s2>> # <<e1, e2>>
        /\ s1 \in 1 .. MapH - 2 /\ s2 \in 1 .. MapW - 2 /\ e1 \in 1 .. MapH - 2 /\ e2 \in 1 .. MapW - 2
    BY <1>1, MapInside DEF MapMazeRight
  <1>3. s1 \in Nat /\ s2 \in Nat /\ e1 \in Nat /\ e2 \in Nat
    BY <1>2, MapSizesAssumption
  <1>4. PICK x, y : x = s2 - e2 /\ y = s1 - e1 /\ x \in Int /\ y \in Int
    BY <1>3
  <1>5. PICK a, b, c, d : a = MapUp(x) /\ b = MapUp(-x) /\ c = MapUp(y) /\ d = MapUp(-y)
    OBVIOUS
  <1>6. PICK r : r = mapPath'
    OBVIOUS
  <1>7. r = MapCat(MapCat(MapCat(MapTimes(x, "A"), MapTimes(-x, "D")), MapTimes(y, "W")), MapTimes(-y, "S"))
    BY <1>1, <1>4, <1>6 DEF MapStraight, MapCat, MapTimes
  <1>8. PICK j, k, n : j = a + b /\ k = j + c /\ n = k + d
    OBVIOUS
  <1>9. /\ r \in Seq(MapMoves) /\ Len(r) = n
        /\ a \in Nat /\ b \in Nat /\ c \in Nat /\ d \in Nat
        /\ \A i \in 1 .. n : r[i] = IF i <= a THEN "A" ELSE IF i <= j THEN "D" ELSE IF i <= k THEN "W" ELSE "S"
    <2>1. MapIsStraight(r, a, b, c, d)
      BY <1>4, <1>5, <1>7, MapStraightMoves
    <2> QED
      BY ONLY <1>8, <2>1 DEF MapIsStraight
  <1>10. j \in Nat /\ k \in Nat /\ n \in Nat
    BY <1>8, <1>9
  <1>11. /\ s2 - e2 = a - b /\ (a = 0 \/ b = 0)
         /\ s1 - e1 = c - d /\ (c = 0 \/ d = 0)
    BY ONLY <1>4, <1>5 DEF MapUp
  <1> DEFINE X == [i \in 0 .. n |-> IF i <= j THEN s1 ELSE IF i <= k THEN s1 - (i - j) ELSE (s1 - c) + (i - k)]
             Y == [i \in 0 .. n |-> IF i <= a THEN s2 - i ELSE IF i <= j THEN (s2 - a) + (i - a) ELSE e2]
             t == [i \in 0 .. n |-> <<X[i], Y[i]>>]
  <1>12. \A i \in 0 .. n : /\ X[i] = IF i <= j THEN s1 ELSE IF i <= k THEN s1 - (i - j) ELSE (s1 - c) + (i - k)
                           /\ Y[i] = IF i <= a THEN s2 - i ELSE IF i <= j THEN (s2 - a) + (i - a) ELSE e2
                           /\ t[i] = <<X[i], Y[i]>>
    OBVIOUS
  <1>13. t = [i \in 0 .. n |-> t[i]]
    OBVIOUS
  <1> HIDE DEF X, Y, t
  <1>14. ASSUME NEW i \in 0 .. n
         PROVE  /\ X[i] \in 1 .. MapH - 2 /\ Y[i] \in 1 .. MapW - 2
                /\ t[i] \in MapPlane /\ t[i][1] = X[i] /\ t[i][2] = Y[i] /\ t[i] \in mapOpen
    <2>0. i \in Nat /\ i <= n
      BY <1>10
    <2>1. X[i] = IF i <= j THEN s1 ELSE IF i <= k THEN s1 - (i - j) ELSE (s1 - c) + (i - k)
      BY <1>12
    <2>2. Y[i] = IF i <= a THEN s2 - i ELSE IF i <= j THEN (s2 - a) + (i - a) ELSE e2
      BY <1>12
    <2>3. X[i] \in 1 .. MapH - 2
      BY ONLY <1>2, <1>3, <1>8, <1>9, <1>10, <1>11, <2>0, <2>1, MapSizesAssumption
    <2>4. Y[i] \in 1 .. MapW - 2
      BY ONLY <1>2, <1>3, <1>8, <1>9, <1>10, <1>11, <2>0, <2>2, MapSizesAssumption
    <2>5. t[i] = <<X[i], Y[i]>>
      BY <1>12
    <2>6. X[i] \in Int /\ Y[i] \in Int
      BY <2>3, <2>4, MapSizesAssumption
    <2> QED
      BY <2>3, <2>4, <2>5, <2>6 DEF MapPlane, MapInterior
  <1>15. t[0] = mapStart
    <2>1. 0 \in 0 .. n /\ 0 <= a /\ 0 <= j /\ s2 - 0 = s2
      BY <1>3, <1>9, <1>10
    <2>2. X[0] = s1 /\ Y[0] = s2 /\ t[0] = <<X[0], Y[0]>>
      BY <1>12, <2>1
    <2> QED
      BY <1>2, <2>2
  <1>16. t[n] = mapEnd
    <2>1. n \in 0 .. n
      BY <1>10
    <2>2. X[n] = IF n <= j THEN s1 ELSE IF n <= k THEN s1 - (n - j) ELSE (s1 - c) + (n - k)
      BY <1>12, <2>1
    <2>3. Y[n] = IF n <= a THEN s2 - n ELSE IF n <= j THEN (s2 - a) + (n - a) ELSE e2
      BY <1>12, <2>1
    <2>4. X[n] = e1
      BY ONLY <1>3, <1>8, <1>9, <1>10, <1>11, <2>2
    <2>5. Y[n] = e2
      BY ONLY <1>3, <1>8, <1>9, <1>10, <1>11, <2>3
    <2> QED
      BY <1>2, <1>12, <2>1, <2>4, <2>5
  <1>17. ASSUME NEW i \in 1 .. n PROVE t[i] = MapStep(t[i - 1], r[i])
    <2>0. i \in Nat /\ 1 <= i /\ i <= n /\ i \in 0 .. n /\ i - 1 \in 0 .. n
      BY <1>10
    <2>1. /\ X[i] = IF i <= j THEN s1 ELSE IF i <= k THEN s1 - (i - j) ELSE (s1 - c) + (i - k)
          /\ X[i - 1] = IF i - 1 <= j THEN s1 ELSE IF i - 1 <= k THEN s1 - ((i - 1) - j) ELSE (s1 - c) + ((i - 1) - k)
      BY <1>12, <2>0
    <2>2. /\ Y[i] = IF i <= a THEN s2 - i ELSE IF i <= j THEN (s2 - a) + (i - a) ELSE e2
          /\ Y[i - 1] = IF i - 1 <= a THEN s2 - (i - 1) ELSE IF i - 1 <= j THEN (s2 - a) + ((i - 1) - a) ELSE e2
      BY <1>12, <2>0
    <2>3. PICK z : z = t[i - 1]
      OBVIOUS
    <2>4. z \in MapPlane /\ z[1] = X[i - 1] /\ z[2] = Y[i - 1]
      BY <1>14, <2>0, <2>3
    <2>5. /\ MapStep(z, "W") = <<z[1] - 1, z[2]>> /\ MapStep(z, "S") = <<z[1] + 1, z[2]>>
          /\ MapStep(z, "A") = <<z[1], z[2] - 1>> /\ MapStep(z, "D") = <<z[1], z[2] + 1>>
      BY <2>4, MapStepIs
    <2>6. r[i] = IF i <= a THEN "A" ELSE IF i <= j THEN "D" ELSE IF i <= k THEN "W" ELSE "S"
      BY <1>9
    <2>7. t[i] = <<X[i], Y[i]>>
      BY <1>12, <2>0
    <2>8. CASE i <= a
      <3>1. X[i] = X[i - 1] /\ Y[i] = Y[i - 1] - 1
        BY ONLY <1>3, <1>8, <1>9, <1>10, <1>11, <2>0, <2>1, <2>2, <2>8
      <3> QED
        BY <2>3, <2>4, <2>5, <2>6, <2>7, <2>8, <3>1
    <2>9. CASE ~(i <= a) /\ i <= j
      <3>1. X[i] = X[i - 1] /\ Y[i] = Y[i - 1] + 1
        BY ONLY <1>3, <1>8, <1>9, <1>10, <1>11, <2>0, <2>1, <2>2, <2>9
      <3> QED
        BY <2>3, <2>4, <2>5, <2>6, <2>7, <2>9, <3>1
    <2>10. CASE ~(i <= j) /\ i <= k
      <3>1. X[i] = X[i - 1] - 1 /\ Y[i] = Y[i - 1] /\ ~(i <= a)
        BY ONLY <1>3, <1>8, <1>9, <1>10, <1>11, <2>0, <2>1, <2>2, <2>10
      <3> QED
        BY <2>3, <2>4, <2>5, <2>6, <2>7, <2>10, <3>1
    <2>11. CASE ~(i <= k)
      <3>1. X[i] = X[i - 1] + 1 /\ Y[i] = Y[i - 1] /\ ~(i <= a) /\ ~(i <= j)
        BY ONLY <1>3, <1>8, <1>9, <1>10, <1>11, <2>0, <2>1, <2>2, <2>11
      <3> QED
        BY <2>3, <2>4, <2>5, <2>6, <2>7, <2>11, <3>1
    <2> QED
      BY <2>8, <2>9, <2>10, <2>11
  <1>18. PICK e : e = [at |-> mapEnd, path |-> r]
    OBVIOUS
  <1>19. MapLed(e)
    <2>1. \A i \in 0 .. n : t[i] = IF i = 0 THEN mapStart ELSE MapStep(t[i - 1], r[i])
      <3> SUFFICES ASSUME NEW i \in 0 .. n PROVE t[i] = IF i = 0 THEN mapStart ELSE MapStep(t[i - 1], r[i])
        OBVIOUS
      <3>1. i = 0 \/ (i # 0 /\ i \in 1 .. n)
        BY <1>10
      <3> QED
        BY <1>15, <1>17, <3>1
    <2>2. MapThrough(t, r)
      BY <1>9, <1>13, <2>1 DEF MapThrough
    <2> QED
      BY <1>9, <1>14, <1>16, <1>18, <2>2 DEF MapLed
  <1>20. n > 0 => mapEnd \notin MapNear[n - 1]
    <2> SUFFICES ASSUME n > 0, mapEnd \in MapNear[n - 1] PROVE FALSE
      OBVIOUS
    <2>1. n - 1 \in Nat
      BY <1>10
    <2>2. mapEnd \in MapBall(n - 1)
      BY <2>1, MapNearBall
    <2>3. /\ (e1 - s1) + (e2 - s2) <= n - 1 /\ (e1 - s1) + (s2 - e2) <= n - 1
          /\ (s1 - e1) + (e2 - s2) <= n - 1 /\ (s1 - e1) + (s2 - e2) <= n - 1
      BY <1>1, <2>2 DEF MapBall
    <2> QED
      BY ONLY <1>3, <1>8, <1>9, <1>10, <1>11, <2>3
  <1>21. UNCHANGED mapMaze /\ mapPc' = "end"
    BY DEF MapStraight
  <1>22. e.at = mapEnd /\ e.path = r /\ n = Len(e.path) /\ mapPath' = e.path
    BY <1>6, <1>9, <1>18
  <1> QED
    BY <1>10, <1>19, <1>20, <1>21, <1>22, MapPathIs

\* The columns from a up to b.
MapRun(a, b) == [i \in 1 .. b - a |-> a + i - 1]

\* A run is a sequence of its length.
LEMMA MapRunIs ==
    ASSUME NEW a \in Nat, NEW b \in Nat, a <= b
    PROVE  MapRun(a, b) \in Seq(Nat) /\ Len(MapRun(a, b)) = b - a
  <1>1. b - a \in Nat /\ \A i \in 1 .. b - a : a + i - 1 \in Nat
    OBVIOUS
  <1>2. MapRun(a, b) \in [1 .. b - a -> Nat]
    BY <1>1 DEF MapRun
  <1> QED
    BY <1>1, <1>2, SeqDef

\* Neighbouring runs make one.
LEMMA MapRunsJoin ==
    ASSUME NEW a \in Nat, NEW b \in Nat, NEW c \in Nat, a <= b, b <= c
    PROVE  MapCat(MapRun(a, b), MapRun(b, c)) = MapRun(a, c)
  <1>1. PICK P, Q, R, r : P = MapRun(a, b) /\ Q = MapRun(b, c) /\ R = MapRun(a, c) /\ r = MapCat(P, Q)
    OBVIOUS
  <1>2. PICK m, n, k : m = b - a /\ n = c - b /\ k = c - a /\ m + n = k /\ m \in Nat /\ n \in Nat /\ k \in Nat
    OBVIOUS
  <1>3. P \in Seq(Nat) /\ Len(P) = m /\ Q \in Seq(Nat) /\ Len(Q) = n /\ R \in Seq(Nat) /\ Len(R) = k
    <2>1. a <= c
      OBVIOUS
    <2> QED
      BY <1>1, <1>2, <2>1, MapRunIs
  <1>4. /\ r \in Seq(Nat) /\ Len(r) = m + n
        /\ \A i \in 1 .. m + n : r[i] = IF i <= m THEN P[i] ELSE Q[i - m]
    <2>1. MapIsJoin(Nat, r, P, m, Q, n)
      BY <1>1, <1>3, MapJoined
    <2> QED
      BY ONLY <2>1 DEF MapIsJoin
  <1>5. /\ \A i \in 1 .. m : P[i] = a + i - 1
        /\ \A i \in 1 .. n : Q[i] = b + i - 1
        /\ \A i \in 1 .. k : R[i] = a + i - 1
    BY <1>1, <1>2 DEF MapRun
  <1>6. \A i \in 1 .. k : r[i] = R[i]
    <2> SUFFICES ASSUME NEW i \in 1 .. k PROVE r[i] = R[i]
      OBVIOUS
    <2>1. i \in 1 .. m + n /\ i \in Nat
      BY <1>2
    <2>2. CASE i <= m
      <3>1. i \in 1 .. m
        BY <1>2, <2>1, <2>2
      <3> QED
        BY <1>4, <1>5, <2>1, <2>2, <3>1
    <2>3. CASE ~(i <= m)
      <3>1. i - m \in 1 .. n /\ b + (i - m) - 1 = a + i - 1
        BY <1>2, <2>1, <2>3
      <3>2. r[i] = Q[i - m]
        BY <1>4, <2>1, <2>3
      <3>3. Q[i - m] = b + (i - m) - 1
        BY <1>5, <3>1
      <3> QED
        BY <1>5, <3>1, <3>2, <3>3
    <2> QED
      BY <2>2, <2>3
  <1>7. r = R
    <2>1. Len(r) = Len(R) /\ DOMAIN r = 1 .. k /\ DOMAIN R = 1 .. k
      BY <1>2, <1>3, <1>4
    <2>2. r = [i \in 1 .. k |-> r[i]] /\ R = [i \in 1 .. k |-> R[i]]
      BY <1>3, <1>4, <2>1
    <2> QED
      BY <1>6, <2>2
  <1> QED
    BY <1>1, <1>7

\* The columns of the maze are a run.
LEMMA MapColumnsRun ==
    MapColumns = MapRun(0, MapW)
  <1>1. MapW - 0 = MapW /\ \A i \in 1 .. MapW : 0 + i - 1 = i - 1
    BY MapSizesAssumption
  <1> QED
    BY <1>1 DEF MapColumns, MapRun

\* How often m goes into n.
LEMMA MapDivision ==
    ASSUME NEW n \in Nat, NEW m \in Nat \ {0}
    PROVE  /\ n \div m \in Nat /\ (n \div m) * m \in Nat
           /\ (n \div m) * m <= n /\ n < (n \div m) * m + m
  OBVIOUS

\* Tiles, and bands, follow each other at multiples of their size.
LEMMA MapTimesGrow ==
    ASSUME NEW i \in Nat, NEW j \in Nat, NEW m \in Nat \ {0}, i <= j
    PROVE  /\ i * m \in Nat /\ i * m <= j * m /\ (i + 1) * m = i * m + m
           /\ i > 0 => (i - 1) * m = i * m - m
           /\ i < j => i * m + m <= j * m
  <1>1. PICK d \in Nat : j = i + d
    <2>1. j - i \in Nat /\ j = i + (j - i)
      OBVIOUS
    <2> QED
      BY <2>1
  <1>2. d * m \in Nat /\ i * m \in Nat /\ j * m = i * m + d * m
    BY <1>1
  <1>3. d > 0 => d * m >= m
    <2> SUFFICES ASSUME d > 0 PROVE d * m >= m
      OBVIOUS
    <2>1. PICK e \in Nat : d = e + 1
      <3>1. d - 1 \in Nat /\ d = (d - 1) + 1
        OBVIOUS
      <3> QED
        BY <3>1
    <2>2. e * m \in Nat /\ d * m = e * m + m
      BY <2>1
    <2> QED
      BY <2>2
  <1>4. (i + 1) * m = i * m + m /\ (i - 1) * m = i * m - m
    OBVIOUS
  <1>5. i < j => d > 0
    BY <1>1
  <1>6. i * m <= j * m /\ (i < j => i * m + m <= j * m)
    BY ONLY <1>2, <1>3, <1>5
  <1> QED
    BY <1>2, <1>4, <1>6

\* min() of two columns.
MapLesser(a, b) == IF a < b THEN a ELSE b

\* The column of the tile that the window is at: a band goes right or left.
MapTileOf == IF MapBack THEN MapLastTile - mapTile ELSE mapTile

\* The bands that are stored, and the part of this one put together so far.
MapPanRight ==
    /\ mapBand \in Nat /\ mapTile \in 0 .. MapLastTile
    /\ mapTop = mapBand * mapView[1]
    /\ mapLeft = MapTileOf * mapView[2]
    /\ mapRows = IF MapBack THEN MapRun(MapLesser(mapLeft + mapView[2], MapW), MapW)
                 ELSE MapRun(0, mapLeft)
    /\ DOMAIN mapWhole = 1 .. mapTop /\ mapWhole = [y \in 1 .. mapTop |-> mapWhole[y]]
    /\ \A y \in 1 .. mapTop : y <= MapH => mapWhole[y] = MapColumns

\* The window on its way to the corner of the maze.
MapCornerRight ==
    /\ mapPc = "up" => mapStart[1] >= mapView[1] \div 2 /\ mapTop = mapStart[1] - mapView[1] \div 2
    /\ mapPc \in {"left", "pad"} => mapTop = 0
    /\ mapLeft \in Int /\ -mapView[2] <= mapLeft
    /\ mapPc = "pad" => mapLeft < 0
    /\ mapBand = 0 /\ mapTile = 0 /\ mapRows = <<>> /\ mapWhole = <<>>

\* The window shows the run of columns from its first to behind its last.
LEMMA MapSeenIs ==
    ASSUME NEW left
    PROVE  MapSeen(left) = MapRun(IF left < 0 THEN 0 ELSE left, MapLesser(left + mapView[2], MapW))
  BY DEF MapSeen, MapRun, MapLesser

\* The window starts in the corner of the maze.
LEMMA MapPadRight ==
    ASSUME MapW > 0, mapView \in MapViews, mapPc = "pad", MapCornerRight, MapPad
    PROVE  MapPanRight'
  <1>1. PICK v : v = mapView[2] /\ v \in Nat \ {0}
    BY MapViewsAssumption
  <1>2. mapTop = 0 /\ mapLeft \in Int /\ -v <= mapLeft /\ mapLeft < 0 /\ mapBand = 0 /\ mapTile = 0 /\ mapWhole = <<>>
    BY <1>1 DEF MapCornerRight
  <1>3. PICK w : w = MapLesser(mapLeft + v, MapW)
    OBVIOUS
  <1>4. w \in Nat /\ (w = 0 <=> mapLeft = -v)
    BY <1>1, <1>2, <1>3, MapSizesAssumption DEF MapLesser
  <1>5. PICK seen : seen = MapSeen(mapLeft)
    OBVIOUS
  <1>6. seen = MapRun(0, w)
    BY <1>1, <1>2, <1>3, <1>5, MapSeenIs
  <1>7. mapLeft' = IF seen = <<>> THEN mapLeft + v ELSE seen[1]
    BY <1>1, <1>2, <1>5 DEF MapPad
  <1>8. mapLeft' = 0
    <2>1. CASE w = 0
      <3>1. seen = <<>>
        BY <1>6, <2>1 DEF MapRun
      <3> QED
        BY <1>1, <1>2, <1>4, <1>7, <2>1, <3>1
    <2>2. CASE w # 0
      <3>1. 1 \in 1 .. w - 0 /\ 0 + 1 - 1 = 0
        BY <1>4, <2>2
      <3>2. seen[1] = 0
        BY <1>6, <3>1 DEF MapRun
      <3>3. DOMAIN seen = 1 .. w - 0
        BY <1>6 DEF MapRun
      <3>4. seen # <<>>
        <4>1. DOMAIN <<>> = {}
          OBVIOUS
        <4> QED
          BY <3>1, <3>3, <4>1
      <3> QED
        BY <1>7, <3>2, <3>4
    <2> QED
      BY <2>1, <2>2
  <1>9. /\ mapRows' = <<>> /\ mapTop' = 0 /\ mapBand' = 0 /\ mapTile' = 0 /\ mapWhole' = <<>>
        /\ mapView' = mapView /\ mapLeft' = 0
    BY <1>2, <1>8 DEF MapPad, mapMaze
  <1>10. ~MapBack' /\ MapTileOf' = 0
    BY <1>9 DEF MapBack, MapTileOf
  <1>11. 0 \in 0 .. MapLastTile'
    BY <1>1, <1>9, MapSizesAssumption, MapDivision DEF MapLastTile
  <1>12. 0 * mapView'[2] = 0 /\ 0 * mapView'[1] = 0
    BY <1>9, MapViewsAssumption
  <1>13. mapRows' = MapRun(0, 0)
    BY <1>9 DEF MapRun
  <1>14. DOMAIN mapWhole' = 1 .. 0 /\ mapWhole' = [y \in 1 .. 0 |-> mapWhole'[y]]
    BY <1>9
  <1>15. \A y \in 1 .. 0 : FALSE
    OBVIOUS
  <1> QED
    BY ONLY <1>9, <1>10, <1>11, <1>12, <1>13, <1>14, <1>15 DEF MapPanRight

\* The rows grow by what the window shows.
LEMMA MapStitchRight ==
    ASSUME mapView \in MapViews, MapPanRight, NEW rows, rows = MapStitch(mapRows, MapSeen(mapLeft)),
           NEW v, v = mapView[2]
    PROVE  /\ v \in Nat \ {0} /\ MapTileOf \in 0 .. MapLastTile /\ mapLeft \in Nat /\ mapLeft <= MapW
           /\ MapBack => rows = MapRun(mapLeft, MapW)
           /\ ~MapBack => rows = MapRun(0, MapLesser(mapLeft + v, MapW))
           /\ MapTileOf < MapLastTile => mapLeft + v <= MapW
           /\ MapTileOf = MapLastTile => MapW < mapLeft + v
  <1>1. v \in Nat \ {0} /\ MapW \in Nat
    BY MapViewsAssumption, MapSizesAssumption
  <1>2. PICK l : l = MapLastTile /\ l = MapW \div v
    BY DEF MapLastTile
  <1>3. l \in Nat /\ l * v \in Nat /\ l * v <= MapW /\ MapW < l * v + v
    BY <1>1, <1>2, MapDivision
  <1>4. PICK i : i = MapTileOf
    OBVIOUS
  <1>5. i \in Nat /\ i <= l
    <2>1. mapTile \in 0 .. l
      BY <1>2 DEF MapPanRight
    <2>2. i = l - mapTile \/ i = mapTile
      BY <1>2, <1>4 DEF MapTileOf
    <2> QED
      BY ONLY <1>3, <2>1, <2>2
  <1>6. PICK left : left = mapLeft /\ left = i * v
    BY <1>4 DEF MapPanRight
  <1>7. left \in Nat /\ left <= l * v /\ (i < l => left + v <= l * v)
    BY <1>1, <1>3, <1>5, <1>6, MapTimesGrow
  <1>8. PICK w : w = MapLesser(left + v, MapW)
    OBVIOUS
  <1>9. w \in Nat /\ left <= w /\ w <= MapW /\ left <= MapW
    BY <1>1, <1>3, <1>7, <1>8 DEF MapLesser
  <1>10. MapSeen(mapLeft) = MapRun(left, w)
    <2>1. ~(left < 0)
      BY <1>7
    <2> QED
      BY <1>6, <1>8, <2>1, MapSeenIs
  <1>11. CASE MapBack
    <2>1. mapRows = MapRun(w, MapW)
      BY <1>6, <1>8, <1>11 DEF MapPanRight
    <2>2. rows = MapCat(MapRun(left, w), MapRun(w, MapW))
      BY <1>10, <1>11, <2>1 DEF MapStitch, MapCat
    <2>3. rows = MapRun(left, MapW)
      BY <1>1, <1>7, <1>9, <2>2, MapRunsJoin
    <2> QED
      BY <1>1, <1>2, <1>3, <1>4, <1>5, <1>6, <1>7, <1>9, <1>11, <2>3
  <1>12. CASE ~MapBack
    <2>1. mapRows = MapRun(0, left)
      BY <1>6, <1>12 DEF MapPanRight
    <2>2. rows = MapCat(MapRun(0, left), MapRun(left, w))
      BY <1>10, <1>12, <2>1 DEF MapStitch, MapCat
    <2>3. 0 \in Nat /\ 0 <= left
      BY <1>7
    <2>4. rows = MapRun(0, w)
      BY <1>7, <1>9, <2>2, <2>3, MapRunsJoin
    <2> QED
      BY <1>1, <1>2, <1>3, <1>4, <1>5, <1>6, <1>7, <1>8, <1>9, <1>12, <2>4
  <1> QED
    BY <1>11, <1>12

\* The next tile of a band.
LEMMA MapTileStep ==
    ASSUME mapView \in MapViews, MapPanRight, MapPanWindow, mapTile # MapLastTile
    PROVE  MapPanRight'
  <1>1. PICK v : v = mapView[2]
    OBVIOUS
  <1>2. PICK rows : rows = MapStitch(mapRows, MapSeen(mapLeft))
    OBVIOUS
  <1>3. /\ v \in Nat \ {0} /\ MapTileOf \in 0 .. MapLastTile /\ mapLeft \in Nat /\ mapLeft <= MapW
        /\ MapBack => rows = MapRun(mapLeft, MapW)
        /\ ~MapBack => rows = MapRun(0, MapLesser(mapLeft + v, MapW))
        /\ MapTileOf < MapLastTile => mapLeft + v <= MapW
    BY <1>1, <1>2, MapStitchRight
  <1>4. PICK l : l = MapLastTile /\ l \in Nat
    BY <1>1, <1>3, MapSizesAssumption, MapDivision DEF MapLastTile
  <1>5. PICK i, left, tile : i = MapTileOf /\ left = mapLeft /\ tile = mapTile
    OBVIOUS
  <1>6. /\ mapTile' = tile + 1 /\ mapRows' = rows /\ mapPc' = mapPc
        /\ mapTop' = mapTop /\ mapBand' = mapBand /\ mapWhole' = mapWhole /\ mapView' = mapView
        /\ mapLeft' = left + (IF MapBack THEN -1 ELSE 1) * v
    BY <1>1, <1>2, <1>5 DEF MapPanWindow, mapMaze
  <1>7. left = i * v /\ tile \in 0 .. l /\ tile # l
    BY <1>1, <1>4, <1>5 DEF MapPanRight
  <1>8. MapBack' = MapBack /\ MapLastTile' = l
    BY <1>4, <1>6 DEF MapBack, MapLastTile
  <1>9. mapTile' \in 0 .. l
    BY <1>4, <1>6, <1>7
  <1>10. PICK b : b = mapTop /\ b = mapBand * mapView[1] /\ mapBand \in Nat
    BY DEF MapPanRight
  <1>11. /\ DOMAIN mapWhole = 1 .. b /\ mapWhole = [y \in 1 .. b |-> mapWhole[y]]
         /\ \A y \in 1 .. b : y <= MapH => mapWhole[y] = MapColumns
    BY <1>10 DEF MapPanRight
  <1>12. CASE MapBack
    <2>1. i = l - tile /\ MapTileOf' = l - (tile + 1)
      BY <1>4, <1>5, <1>6, <1>8, <1>12 DEF MapTileOf
    <2>2. i \in Nat /\ i > 0 /\ l - (tile + 1) = i - 1
      BY <1>4, <1>7, <2>1
    <2>3. (i - 1) * v = i * v - v
      BY <1>3, <2>2, MapTimesGrow
    <2>4. left \in Nat /\ left <= MapW /\ v \in Nat
      BY <1>3, <1>5
    <2>5. mapLeft' = left - v
      BY <1>6, <1>12, <2>4
    <2>6. MapLesser(mapLeft' + v, MapW) = left
      BY <2>4, <2>5, MapSizesAssumption DEF MapLesser
    <2>7. mapLeft' = MapTileOf' * mapView'[2]
      BY <1>1, <1>6, <1>7, <2>1, <2>2, <2>3, <2>5
    <2>8. mapRows' = MapRun(MapLesser(mapLeft' + mapView'[2], MapW), MapW)
      BY <1>1, <1>3, <1>5, <1>6, <1>12, <2>6
    <2> QED
      BY ONLY <1>6, <1>8, <1>9, <1>10, <1>11, <1>12, <2>7, <2>8 DEF MapPanRight
  <1>13. CASE ~MapBack
    <2>1. i = tile /\ MapTileOf' = tile + 1
      BY <1>4, <1>5, <1>6, <1>8, <1>13 DEF MapTileOf
    <2>2. i \in Nat /\ i < l
      BY <1>4, <1>7, <2>1
    <2>3. (i + 1) * v = i * v + v
      BY <1>3, <2>2, MapTimesGrow
    <2>4. left \in Nat /\ left + v <= MapW /\ v \in Nat
      BY <1>3, <1>4, <1>5, <2>2
    <2>5. mapLeft' = left + v
      BY <1>6, <1>13, <2>4
    <2>6. MapLesser(left + v, MapW) = left + v
      BY <2>4, MapSizesAssumption DEF MapLesser
    <2>7. mapLeft' = MapTileOf' * mapView'[2]
      BY <1>1, <1>6, <1>7, <2>1, <2>3, <2>5
    <2>8. mapRows' = MapRun(0, mapLeft')
      BY <1>3, <1>5, <1>6, <1>13, <2>5, <2>6
    <2> QED
      BY ONLY <1>6, <1>8, <1>9, <1>10, <1>11, <1>13, <2>7, <2>8 DEF MapPanRight
  <1> QED
    BY <1>12, <1>13

\* r is P, up to the row b, and then n rows more, of which those of the maze
\* are complete.
MapIsStored(r, P, b, n) ==
    /\ DOMAIN r = 1 .. b + n /\ r = [y \in 1 .. b + n |-> r[y]] /\ Len(r) = b + n
    /\ \A y \in 1 .. b + n : y <= MapH => r[y] = MapColumns

LEMMA MapStored ==
    ASSUME NEW b \in Nat, NEW n \in Nat, NEW P, P = [y \in 1 .. b |-> P[y]], DOMAIN P = 1 .. b,
           \A y \in 1 .. b : y <= MapH => P[y] = MapColumns,
           NEW r, r = P \o [i \in 1 .. n |-> IF b + i <= MapH THEN MapColumns ELSE <<>>]
    PROVE  MapIsStored(r, P, b, n)
  <1> DEFINE C == {P[y] : y \in 1 .. b} \cup {MapColumns, <<>>}
  <1>1. PICK Q : Q = [i \in 1 .. n |-> IF b + i <= MapH THEN MapColumns ELSE <<>>]
    OBVIOUS
  <1>2. Q \in Seq(C) /\ Len(Q) = n
    <2>1. Q \in [1 .. n -> C]
      BY <1>1
    <2> HIDE DEF C
    <2> QED
      BY <2>1, SeqDef
  <1>3. P \in Seq(C) /\ Len(P) = b
    <2>1. P \in [1 .. b -> C]
      OBVIOUS
    <2> HIDE DEF C
    <2> QED
      BY <2>1, SeqDef
  <1> HIDE DEF C
  <1>4. MapIsJoin(C, r, P, b, Q, n)
    <2>1. r = MapCat(P, Q)
      BY <1>1 DEF MapCat
    <2> QED
      BY <1>2, <1>3, <2>1, MapJoined
  <1>5. /\ r \in Seq(C) /\ Len(r) = b + n
        /\ \A i \in 1 .. b + n : r[i] = IF i <= b THEN P[i] ELSE Q[i - b]
    BY ONLY <1>4 DEF MapIsJoin
  <1>6. DOMAIN r = 1 .. b + n /\ r = [y \in 1 .. b + n |-> r[y]]
    BY <1>5
  <1>7. ASSUME NEW y \in 1 .. b + n, y <= MapH PROVE r[y] = MapColumns
    <2>1. CASE y <= b
      <3>1. y \in 1 .. b
        BY <2>1
      <3> QED
        BY <1>5, <1>7, <2>1, <3>1
    <2>2. CASE ~(y <= b)
      <3>1. y - b \in 1 .. n /\ b + (y - b) = y
        BY <2>2
      <3>2. Q[y - b] = MapColumns
        BY <1>1, <1>7, <3>1
      <3> QED
        BY <1>5, <2>2, <3>2
    <2> QED
      BY <2>1, <2>2
  <1> QED
    BY <1>5, <1>6, <1>7 DEF MapIsStored

\* After the last tile: the rows of the band are stored.
LEMMA MapBandStep ==
    ASSUME mapView \in MapViews, MapPanRight, MapPanWindow, mapTile = MapLastTile
    PROVE  MapPanRight' /\ (mapPc' = "find" => MapWholeRight')
  <1>1. PICK v, h : v = mapView[2] /\ h = mapView[1] /\ h \in Nat \ {0}
    BY MapViewsAssumption
  <1>2. PICK rows : rows = MapStitch(mapRows, MapSeen(mapLeft))
    OBVIOUS
  <1>3. /\ v \in Nat \ {0} /\ mapLeft \in Nat /\ mapLeft <= MapW
        /\ MapBack => rows = MapRun(mapLeft, MapW)
        /\ ~MapBack => rows = MapRun(0, MapLesser(mapLeft + v, MapW))
        /\ MapTileOf = MapLastTile => MapW < mapLeft + v
    BY <1>1, <1>2, MapStitchRight
  <1>4. PICK l : l = MapLastTile /\ l \in Nat
    BY <1>1, <1>3, MapSizesAssumption, MapDivision DEF MapLastTile
  <1>5. /\ mapLeft = MapTileOf * v /\ (MapBack => MapTileOf = 0 /\ mapLeft = 0)
        /\ (~MapBack => MapTileOf = l /\ mapLeft = l * v)
    <2>1. mapLeft = MapTileOf * v
      BY <1>1 DEF MapPanRight
    <2>2. MapBack => MapTileOf = 0
      BY <1>4 DEF MapTileOf
    <2>3. ~MapBack => MapTileOf = l
      BY <1>4 DEF MapTileOf
    <2>4. 0 * v = 0
      BY <1>3
    <2> QED
      BY <2>1, <2>2, <2>3, <2>4
  <1>6. rows = MapColumns
    <2>1. CASE MapBack
      BY <1>3, <1>5, <2>1, MapColumnsRun
    <2>2. CASE ~MapBack
      <3>1. MapLesser(mapLeft + v, MapW) = MapW
        BY <1>3, <1>4, <1>5, <2>2, MapSizesAssumption DEF MapLesser
      <3> QED
        BY <1>3, <2>2, <3>1, MapColumnsRun
    <2> QED
      BY <2>1, <2>2
  <1>7. PICK b, band : b = mapTop /\ band = mapBand /\ b = band * h /\ band \in Nat
    BY <1>1 DEF MapPanRight
  <1>8. /\ DOMAIN mapWhole = 1 .. b /\ mapWhole = [y \in 1 .. b |-> mapWhole[y]]
        /\ \A y \in 1 .. b : y <= MapH => mapWhole[y] = MapColumns
    BY <1>7 DEF MapPanRight
  <1>9. b \in Nat /\ (band + 1) * h = b + h
    BY <1>1, <1>7, MapTimesGrow
  <1>10. /\ mapWhole' = mapWhole \o [i \in 1 .. h |-> IF b + i <= MapH THEN rows ELSE <<>>]
         /\ mapTop' = b + h /\ mapBand' = band + 1 /\ mapTile' = 0 /\ mapRows' = <<>>
         /\ mapPc' = (IF band = MapH \div h THEN "find" ELSE "pan")
         /\ mapLeft' = mapLeft /\ mapView' = mapView
    <2>1. \A i \in 1 .. h : 1 <= b + i
      BY <1>1, <1>9
    <2>2. mapWhole' = mapWhole \o [i \in 1 .. h |-> IF 1 <= b + i /\ b + i <= MapH THEN rows ELSE <<>>]
      BY <1>1, <1>2, <1>7 DEF MapPanWindow
    <2>3. [i \in 1 .. h |-> IF 1 <= b + i /\ b + i <= MapH THEN rows ELSE <<>>]
            = [i \in 1 .. h |-> IF b + i <= MapH THEN rows ELSE <<>>]
      BY <2>1
    <2> QED
      BY <1>1, <1>2, <1>7, <2>2, <2>3 DEF MapPanWindow, mapMaze
  <1>11. MapIsStored(mapWhole', mapWhole, b, h)
    BY <1>1, <1>6, <1>8, <1>9, <1>10, MapStored
  <1>12. MapLastTile' = l /\ MapBack' = ~MapBack
    <2>1. MapLastTile' = l
      BY <1>4, <1>10 DEF MapLastTile
    <2>2. ((band + 1) % 2 = 1) = ~(band % 2 = 1)
      BY <1>7
    <2> QED
      BY <1>7, <1>10, <2>1, <2>2 DEF MapBack
  <1>13. mapLeft' = MapTileOf' * mapView'[2]
    <2>1. MapTileOf' = IF MapBack' THEN l - 0 ELSE 0
      BY <1>10, <1>12 DEF MapTileOf
    <2>2. 0 * v = 0 /\ l - 0 = l
      BY <1>3, <1>4
    <2> QED
      BY <1>1, <1>5, <1>10, <1>12, <2>1, <2>2
  <1>14. mapRows' = IF MapBack' THEN MapRun(MapLesser(mapLeft' + mapView'[2], MapW), MapW)
                    ELSE MapRun(0, mapLeft')
    <2>1. CASE MapBack
      <3>1. mapLeft' = 0 /\ ~MapBack'
        BY <1>5, <1>10, <1>12, <2>1
      <3>2. MapRun(0, 0) = <<>>
        BY DEF MapRun
      <3> QED
        BY <1>10, <3>1, <3>2
    <2>2. CASE ~MapBack
      <3>1. MapLesser(mapLeft' + mapView'[2], MapW) = MapW
        BY <1>1, <1>3, <1>4, <1>5, <1>10, <2>2, MapSizesAssumption DEF MapLesser
      <3>2. MapRun(MapW, MapW) = <<>>
        BY MapSizesAssumption DEF MapRun
      <3> QED
        BY <1>10, <1>12, <2>2, <3>1, <3>2
    <2> QED
      BY <2>1, <2>2
  <1>15. 0 \in 0 .. l /\ band + 1 \in Nat /\ mapTop' = mapBand' * mapView'[1]
    BY <1>1, <1>4, <1>7, <1>9, <1>10
  <1>16. MapPanRight'
    <2>1. /\ DOMAIN mapWhole' = 1 .. mapTop' /\ mapWhole' = [y \in 1 .. mapTop' |-> mapWhole'[y]]
          /\ \A y \in 1 .. mapTop' : y <= MapH => mapWhole'[y] = MapColumns
      BY ONLY <1>10, <1>11 DEF MapIsStored
    <2> QED
      BY ONLY <1>10, <1>12, <1>13, <1>14, <1>15, <2>1 DEF MapPanRight
  <1>17. mapPc' = "find" => MapWholeRight'
    <2> SUFFICES ASSUME mapPc' = "find" PROVE MapWholeRight'
      OBVIOUS
    <2>1. band = MapH \div h
      BY <1>10
    <2>2. MapH \in Nat /\ MapH < band * h + h
      BY <1>1, <2>1, MapSizesAssumption, MapDivision
    <2>3. Len(mapWhole') = b + h /\ b + h \in Nat /\ MapH <= b + h
      BY <1>1, <1>7, <1>9, <1>11, <2>2 DEF MapIsStored
    <2>4. \A y \in 1 .. MapH : y \in 1 .. b + h /\ y <= MapH
      BY <2>2, <2>3
    <2>5. \A y \in 1 .. MapH : mapWhole'[y] = MapColumns
      BY <1>11, <2>4 DEF MapIsStored
    <2> QED
      BY <2>3, <2>5 DEF MapWholeRight
  <1> QED
    BY <1>16, <1>17

\* The maze is one that the server can send.
MapMazeInv ==
    /\ mapLab \in 1 .. 3 /\ mapOpen \subseteq MapInterior
    /\ mapStart \in mapOpen /\ mapEnd \in mapOpen /\ mapStart # mapEnd
    /\ mapLab = 1 => mapOpen = MapInterior

\* Until the search, the map grows by whole bands; all the time, the queue is the
\* border of what has been visited.
MapGoesRight ==
    /\ mapPc # "died"
    /\ mapPc # "end" => MapBorder
    /\ mapPc \in {"up", "left", "pad"} => MapCornerRight
    /\ mapPc = "pan" => MapPanRight
    /\ mapPc \in {"find", "search"} => MapWholeRight
    /\ mapPc = "end" => MapPathShortest

\* That is so unless the window began above the maze.
MapInv ==
    /\ mapPc \in {"off", "up", "left", "pad", "pan", "find", "search", "end", "died"}
    /\ mapPc \notin {"end", "died"} => mapPath = <<>>
    /\ mapPc = "off" => mapBand = 0 /\ mapTile = 0 /\ mapRows = <<>>
    /\ mapPc # "off" => MapMazeInv
    /\ mapPc \in {"up", "left", "pad", "pan", "find"} => mapLab = 3 /\ mapView \in MapViews
    /\ mapPc # "off" /\ ~MapAbove => MapGoesRight

\* Only '*' is at most no step away, also in the next state.
LEMMA MapNearStarts ==
    (MapNear[0] = {mapStart})'
  <1>1. MapNear[0] = {mapStart}
    BY MapNearIs
  <1> QED
    BY <1>1, PTL

\* The queue starts with '*'.
LEMMA MapBorderStarts ==
    ASSUME mapStart' \in mapOpen', mapVisited' = {mapStart'},
           mapQueue' = <<[at |-> mapStart', path |-> <<>>]>>
    PROVE  MapBorder'
  <1>1. PICK q, e : q = mapQueue' /\ e = [at |-> mapStart', path |-> <<>>] /\ q = <<e>>
    OBVIOUS
  <1>2. <<>> \in Seq(MapMoves) /\ Len(<<>>) = 0
    OBVIOUS
  <1>3. e \in MapEntries' /\ e.at = mapStart' /\ e.path = <<>> /\ Len(e.path) = 0
    <2>1. e \in [at : mapOpen', path : Seq(MapMoves)]
      BY <1>1, <1>2
    <2> QED
      BY <1>1, <1>2, <2>1 DEF MapEntries
  <1>4. q \in Seq(MapEntries') /\ DOMAIN q = {1} /\ q[1] = e /\ q # <<>>
    <2>1. Len(q) = 1 /\ DOMAIN q = 1 .. Len(q) /\ q[1] = e
      BY <1>1
    <2>2. 1 .. 1 = {1}
      OBVIOUS
    <2> QED
      BY <1>1, <1>3, <2>1, <2>2
  <1>5. MapLed(e)'
    <2>1. PICK t : t = [i \in 0 .. 0 |-> mapStart']
      OBVIOUS
    <2>2. \A i \in 0 .. 0 : i = 0 /\ t[i] = mapStart'
      BY <2>1
    <2>3. MapThrough(t, <<>>)'
      BY <1>2, <2>1, <2>2 DEF MapThrough
    <2> QED
      BY <1>2, <1>3, <2>2, <2>3 DEF MapLed
  <1>6. MapNear'[0] = {mapStart'}
    BY MapNearStarts
  <1>7. Len(q[1].path) = 0 /\ q[1].at = mapStart'
    BY <1>3, <1>4
  <1>8. \A i \in DOMAIN q : i = 1
    BY <1>4
  <1> QED
    BY <1>1, <1>3, <1>4, <1>5, <1>6, <1>7, <1>8 DEF MapBorder

\* The border stays while the search waits for the map.
LEMMA MapBorderStays ==
    ASSUME MapBorder, UNCHANGED mapMaze, mapQueue' = mapQueue, mapVisited' = mapVisited
    PROVE  MapBorder'
  <1>1. mapOpen' = mapOpen /\ mapStart' = mapStart /\ mapEnd' = mapEnd
    BY DEF mapMaze
  <1>2. MapNear' = MapNear /\ \A e : MapLed(e)' <=> MapLed(e)
    BY <1>1, MapMazeStays
  <1>3. \A p : MapDone(p)' <=> MapDone(p)
    BY <1>1 DEF MapDone
  <1>4. MapEntries' = MapEntries
    BY <1>1 DEF MapEntries
  <1> QED
    BY <1>1, <1>2, <1>3, <1>4 DEF MapBorder

\* The initial state.
LEMMA MapInitInv ==
    MapInit => MapInv
  BY DEF MapInit, MapInv

\* The maze stays.
LEMMA MapMazeInvStays ==
    ASSUME MapMazeInv, UNCHANGED mapMaze
    PROVE  MapMazeInv'
  BY DEF MapMazeInv, mapMaze

\* MapConnect keeps the invariant.
LEMMA MapConnectInv ==
    ASSUME MapInv, MapConnect
    PROVE  MapInv'
  <1>1. /\ mapLab' \in 1 .. 3 /\ mapStart' \in MapInterior /\ mapStart' # mapEnd'
        /\ mapOpen' \subseteq MapInterior /\ mapStart' \in mapOpen' /\ mapEnd' \in mapOpen'
        /\ mapLab' = 1 => mapOpen' = MapInterior
        /\ mapPc = "off" /\ mapPath' = mapPath
        /\ mapPc' = IF mapLab' = 3 THEN "up" ELSE "search"
        /\ mapQueue' = <<[at |-> mapStart', path |-> <<>>]>> /\ mapVisited' = {mapStart'}
    BY DEF MapConnect, MapFrom
  <1>2. MapMazeInv'
    BY <1>1 DEF MapMazeInv
  <1>3. MapBorder'
    BY <1>1, MapBorderStarts
  <1>4. mapPath' = <<>>
    BY <1>1 DEF MapInv
  <1>5. CASE mapLab' = 3
    <2>1. mapPc' = "up" /\ mapView' \in MapViews
      BY <1>5 DEF MapConnect
    <2>2. PICK h, v, s1, s2 : h = mapView'[1] /\ v = mapView'[2] /\ s1 = mapStart'[1] /\ s2 = mapStart'[2]
      OBVIOUS
    <2>3. h \in Nat \ {0} /\ v \in Nat \ {0} /\ s1 \in Nat /\ s2 \in Nat
      BY <1>1, <2>1, <2>2, MapViewsAssumption, MapSizesAssumption DEF MapInterior
    <2>4. mapTop' = s1 - h \div 2 /\ mapLeft' = s2 - v \div 2 /\ (~MapAbove' => s1 >= h \div 2)
      BY <1>5, <2>2, <2>3 DEF MapConnect, MapAbove
    <2>5. mapLeft' \in Int /\ -v <= mapLeft'
      BY <2>3, <2>4
    <2>6. mapBand' = 0 /\ mapTile' = 0 /\ mapRows' = <<>> /\ mapWhole' = <<>>
      BY <1>1, <1>5 DEF MapConnect, MapInv
    <2>7. ~MapAbove' => MapCornerRight'
      BY <2>1, <2>2, <2>4, <2>5, <2>6 DEF MapCornerRight
    <2>8. ~MapAbove' => MapGoesRight'
      BY <1>3, <2>1, <2>7 DEF MapGoesRight
    <2> QED
      BY <1>2, <1>4, <1>5, <2>1, <2>8 DEF MapInv
  <1>6. CASE mapLab' # 3
    <2>1. mapPc' = "search" /\ mapWhole' = [y \in 1 .. MapH |-> MapColumns]
      BY <1>6 DEF MapConnect
    <2>2. MapWholeRight'
      <3>1. Len([y \in 1 .. MapH |-> MapColumns]) = MapH
        BY MapSizesAssumption
      <3> QED
        BY <2>1, <3>1, MapSizesAssumption DEF MapWholeRight
    <2>3. MapGoesRight'
      BY <1>3, <2>1, <2>2 DEF MapGoesRight
    <2> QED
      BY <1>2, <1>4, <2>1, <2>3 DEF MapInv
  <1> QED
    BY <1>5, <1>6

\* The facts of the invariant that the search needs.
LEMMA MapSearchFacts ==
    ASSUME MapInv, ~MapAbove, mapPc \in {"find", "search"}
    PROVE  MapMazeRight /\ MapWholeRight /\ MapBorder /\ MapMazeInv
  BY DEF MapInv, MapGoesRight, MapMazeInv, MapMazeRight

\* Where the window began stays.
LEMMA MapAboveStays ==
    ASSUME UNCHANGED mapMaze
    PROVE  MapAbove' <=> MapAbove
  BY DEF mapMaze, MapAbove

\* The steps that put the map together keep the invariant.
LEMMA MapPanInv ==
    ASSUME MapInv, MapMoveUp \/ MapMoveLeft \/ MapPad \/ MapPanWindow
    PROVE  MapInv'
  <1>1. /\ mapPc \in {"up", "left", "pad", "pan"} /\ mapPath' = mapPath
        /\ mapQueue' = mapQueue /\ mapVisited' = mapVisited
        /\ UNCHANGED mapMaze
        /\ mapPc' \in {"left", "pad", "pan", "find"}
    BY DEF MapMoveUp, MapMoveLeft, MapPad, MapPanWindow
  <1>2. /\ MapMazeInv /\ mapPath' = <<>> /\ mapLab = 3 /\ mapView \in MapViews
    BY <1>1 DEF MapInv
  <1>3. mapLab' = mapLab /\ mapView' = mapView /\ mapStart' = mapStart
    BY <1>1 DEF mapMaze
  <1>4. MapMazeInv' /\ mapLab' = 3 /\ mapView' \in MapViews
    BY <1>1, <1>2, <1>3, MapMazeInvStays
  <1>10. SUFFICES ASSUME ~MapAbove PROVE MapGoesRight'
    BY <1>1, <1>2, <1>4, MapAboveStays DEF MapInv
  <1>11. MapGoesRight /\ MapBorder'
    BY <1>1, <1>10, MapBorderStays DEF MapInv, MapGoesRight
  <1>5. MapW \in Nat /\ MapW > 0
    <2>1. mapStart \in MapInterior
      BY <1>2 DEF MapMazeInv
    <2> QED
      BY <2>1, MapSizesAssumption DEF MapInterior
  <1>6. CASE MapMoveUp
    <2>1. mapPc = "up" /\ mapPc' = "left" /\ MapCornerRight
      BY <1>6, <1>11 DEF MapMoveUp, MapGoesRight
    <2>2. PICK h, s : h = mapView[1] /\ s = mapStart[1] /\ h \in Nat \ {0} /\ s \in Nat
      BY <1>2, MapViewsAssumption, MapSizesAssumption DEF MapMazeInv, MapInterior
    <2>3. s >= h \div 2 /\ mapTop = s - h \div 2
      BY <2>1, <2>2 DEF MapCornerRight
    <2>4. mapTop' = mapTop - (s - h \div 2)
      BY <1>6, <1>10, <2>2 DEF MapMoveUp
    <2>5. mapTop' = 0
      BY ONLY <2>2, <2>3, <2>4
    <2>6. MapCornerRight'
      BY <1>3, <1>6, <2>1, <2>5 DEF MapCornerRight, MapMoveUp
    <2> QED
      BY <1>11, <2>1, <2>6 DEF MapGoesRight
  <1>7. CASE MapMoveLeft
    <2>1. mapPc = "left" /\ MapCornerRight
      BY <1>7, <1>11 DEF MapMoveLeft, MapGoesRight
    <2>2. PICK v, left : v = mapView[2] /\ left = mapLeft /\ v \in Nat \ {0}
      BY <1>2, MapViewsAssumption
    <2>3. left \in Int /\ -v <= left /\ mapTop = 0
      BY <2>1, <2>2 DEF MapCornerRight
    <2>4. \/ left < 0 /\ mapPc' = "pad" /\ mapLeft' = left
          \/ ~(left < 0) /\ mapPc' = "left" /\ mapLeft' = left - v
      BY <1>7, <2>1, <2>2, <2>3 DEF MapMoveLeft
    <2>5. mapLeft' \in Int /\ -v <= mapLeft' /\ (mapPc' = "pad" => mapLeft' < 0) /\ mapPc' \in {"left", "pad"}
      BY <2>2, <2>3, <2>4
    <2>6. mapBand' = 0 /\ mapTile' = 0 /\ mapRows' = <<>> /\ mapWhole' = <<>> /\ mapTop' = 0
      BY <1>7, <2>1, <2>3 DEF MapMoveLeft, MapCornerRight
    <2>7. MapCornerRight'
      BY <1>3, <2>2, <2>5, <2>6 DEF MapCornerRight
    <2> QED
      BY <1>11, <2>5, <2>7 DEF MapGoesRight
  <1>8. CASE MapPad
    <2>1. mapPc = "pad" /\ mapPc' = "pan" /\ MapCornerRight
      BY <1>8, <1>11 DEF MapPad, MapGoesRight
    <2>2. MapPanRight'
      BY <1>2, <1>5, <1>8, <2>1, MapPadRight
    <2> QED
      BY <1>11, <2>1, <2>2 DEF MapGoesRight
  <1>9. CASE MapPanWindow
    <2>1. mapPc = "pan" /\ MapPanRight
      BY <1>9, <1>11 DEF MapPanWindow, MapGoesRight
    <2>2. MapPanRight' /\ (mapPc' = "find" => MapWholeRight') /\ mapPc' \in {"pan", "find"}
      <3>1. CASE mapTile = MapLastTile
        <4>1. mapPc' \in {"pan", "find"}
          BY <1>9, <3>1 DEF MapPanWindow
        <4> QED
          BY <1>2, <1>9, <2>1, <3>1, <4>1, MapBandStep
      <3>2. CASE mapTile # MapLastTile
        <4>1. mapPc' = "pan"
          BY <1>9, <2>1, <3>2 DEF MapPanWindow
        <4> QED
          BY <1>2, <1>9, <2>1, <3>2, <4>1, MapTileStep
      <3> QED
        BY <3>1, <3>2
    <2> QED
      BY <1>11, <2>2 DEF MapGoesRight
  <1> QED
    BY <1>6, <1>7, <1>8, <1>9

\* MapLocate keeps the invariant.
LEMMA MapLocateInv ==
    ASSUME MapInv, MapLocate
    PROVE  MapInv'
  <1>1. /\ mapPc = "find" /\ mapPc' = "search" /\ UNCHANGED mapMaze /\ mapWhole' = mapWhole
        /\ mapPath' = mapPath
    BY DEF MapLocate
  <1>2. MapMazeInv /\ MapMazeInv' /\ mapPath' = <<>>
    BY <1>1, MapMazeInvStays DEF MapInv
  <1>3. SUFFICES ASSUME ~MapAbove PROVE MapGoesRight'
    BY <1>1, <1>2, MapAboveStays DEF MapInv
  <1>4. MapMazeRight /\ MapWholeRight
    BY <1>1, <1>3, MapSearchFacts
  <1>5. PICK y, s : y = mapStart[1] /\ s = mapStart[2]
    OBVIOUS
  <1>6. /\ mapStart = <<y, s>> /\ y \in 0 .. MapH - 1 /\ s \in 0 .. MapW - 1 /\ y + 1 \in 1 .. MapH
    <2>1. mapStart = <<y, s>> /\ y \in 1 .. MapH - 2 /\ s \in 1 .. MapW - 2
      BY <1>4, <1>5, MapInside DEF MapMazeRight
    <2> QED
      BY ONLY <2>1, MapSizesAssumption
  <1>7. Len(mapWhole[y + 1]) = MapW
    <2>1. Len(MapColumns) = MapW
      BY MapSizesAssumption DEF MapColumns
    <2> QED
      BY <1>4, <1>6, <2>1 DEF MapWholeRight
  <1>8. PICK xs : xs = {x \in 0 .. Len(mapWhole[y + 1]) - 1 : MapCellAt(<<y, x>>) = mapStart}
    OBVIOUS
  <1>9. xs = {s}
    <2>1. \A x \in 0 .. MapW - 1 : MapCellAt(<<y, x>>) = <<y, x>>
      BY <1>4, <1>6, MapCellIs
    <2>2. \A x \in 0 .. MapW - 1 : <<y, x>> = <<y, s>> <=> x = s
      OBVIOUS
    <2> QED
      BY <1>6, <1>7, <1>8, <2>1, <2>2
  <1>10. MapFrom(<<y, IF xs = {} THEN -1 ELSE CHOOSE x \in xs : TRUE>>)
    BY <1>5, <1>8 DEF MapLocate
  <1>11. (IF xs = {} THEN -1 ELSE CHOOSE x \in xs : TRUE) = s
    BY <1>9
  <1>12. mapQueue' = <<[at |-> mapStart', path |-> <<>>]>> /\ mapVisited' = {mapStart'} /\ mapStart' \in mapOpen'
    BY <1>1, <1>2, <1>6, <1>10, <1>11 DEF MapFrom, mapMaze, MapMazeInv
  <1>13. MapBorder'
    BY <1>12, MapBorderStarts
  <1>14. MapWholeRight'
    BY <1>1, <1>4 DEF MapWholeRight
  <1> QED
    BY <1>1, <1>13, <1>14 DEF MapGoesRight

\* MapSearch keeps the invariant.
LEMMA MapSearchInv ==
    ASSUME MapInv, MapSearch
    PROVE  MapInv'
  <1>1. /\ mapPc = "search" /\ mapLab # 1 /\ UNCHANGED mapMaze /\ mapWhole' = mapWhole
        /\ mapPc' \in {"search", "end", "died"} /\ (mapPc' = "search" => mapPath' = mapPath)
    BY DEF MapSearch
  <1>2. MapMazeInv' /\ mapPath = <<>>
    BY <1>1, MapMazeInvStays DEF MapInv
  <1>3. SUFFICES ASSUME ~MapAbove PROVE MapGoesRight'
    BY <1>1, <1>2, MapAboveStays DEF MapInv
  <1>4. MapMazeRight /\ MapWholeRight /\ MapBorder
    BY <1>1, <1>3, MapSearchFacts
  <1>5. CASE mapQueue = <<>>
    <2>1. mapPc' = "end" /\ mapPath' = mapPath
      BY <1>5 DEF MapSearch
    <2>2. MapPathShortest'
      BY <1>1, <1>4, <1>5, <2>1, MapNoWay
    <2> QED
      BY <2>1, <2>2 DEF MapGoesRight
  <1>6. CASE mapQueue # <<>>
    <2>1. PICK c : c = mapQueue[1] /\ c = MapPop(mapQueue)[1] /\ c.at \in mapOpen
      <3>1. mapQueue[1] = MapPop(mapQueue)[1] /\ mapQueue[1] \in MapEntries
        BY <1>4, <1>6 DEF MapPop, MapBorder
      <3> QED
        BY <3>1 DEF MapEntries
    <2>2. MapReadable(c.at) /\ MapCellAt(c.at) = c.at /\ \A p \in MapLooks(c.at) : MapReadable(p)
      BY <1>4, <2>1, MapTurnIs
    <2>3. CASE c.at = mapEnd
      <3>1. mapPc' = "end" /\ mapPath' = c.path
        BY <1>6, <2>1, <2>2, <2>3 DEF MapSearch
      <3>2. MapPathShortest'
        BY <1>1, <1>4, <1>6, <2>1, <2>3, <3>1, MapFound
      <3> QED
        BY <3>1, <3>2 DEF MapGoesRight
    <2>4. CASE c.at # mapEnd
      <3>1. mapPc' = "search"
        BY <1>1, <1>6, <2>1, <2>2, <2>4 DEF MapSearch
      <3>2. MapBorder'
        BY <1>1, <1>4, <1>6, <2>1, <2>4, MapBorderPops
      <3>3. MapWholeRight'
        BY <1>1, <1>4 DEF MapWholeRight
      <3> QED
        BY <3>1, <3>2, <3>3 DEF MapGoesRight
    <2> QED
      BY <2>3, <2>4
  <1> QED
    BY <1>5, <1>6

\* MapStraight keeps the invariant.
LEMMA MapStraightInv ==
    ASSUME MapInv, MapStraight
    PROVE  MapInv'
  <1>1. mapPc = "search" /\ mapLab = 1 /\ UNCHANGED mapMaze /\ mapPc' = "end"
    BY DEF MapStraight
  <1>2. ~MapAbove
    BY <1>1 DEF MapAbove
  <1>3. MapMazeRight /\ MapMazeInv /\ mapOpen = MapInterior
    BY <1>1, <1>2, MapSearchFacts DEF MapMazeInv
  <1>4. MapMazeInv'
    BY <1>1, <1>3, MapMazeInvStays
  <1>5. MapPathShortest'
    BY <1>3, MapStraightRight
  <1>6. MapGoesRight'
    BY <1>1, <1>5 DEF MapGoesRight
  <1> QED
    BY <1>1, <1>4, <1>6 DEF MapInv

\* So does a step of another client.
LEMMA MapStutterInv ==
    ASSUME MapInv, UNCHANGED mapVars
    PROVE  MapInv'
  <1>1. /\ UNCHANGED mapMaze /\ mapPc' = mapPc /\ mapTop' = mapTop /\ mapLeft' = mapLeft
        /\ mapBand' = mapBand /\ mapTile' = mapTile /\ mapRows' = mapRows /\ mapWhole' = mapWhole
        /\ mapQueue' = mapQueue /\ mapVisited' = mapVisited /\ mapPath' = mapPath
    BY DEF mapVars, mapPan
  <1>2. mapLab' = mapLab /\ mapView' = mapView /\ mapStart' = mapStart /\ mapEnd' = mapEnd /\ mapOpen' = mapOpen
    BY <1>1 DEF mapMaze
  <1>3. MapMazeInv => MapMazeInv'
    BY <1>1, MapMazeInvStays
  <1>4. MapBorder => MapBorder'
    BY <1>1, MapBorderStays
  <1>5. MapCornerRight => MapCornerRight'
    BY <1>1, <1>2 DEF MapCornerRight
  <1>6. MapPanRight => MapPanRight'
    BY <1>1, <1>2 DEF MapPanRight, MapTileOf, MapBack, MapLastTile
  <1>7. MapWholeRight => MapWholeRight'
    BY <1>1 DEF MapWholeRight
  <1>8. MapPathShortest => MapPathShortest'
    <2>1. MapTrace(mapPath)' = MapTrace(mapPath) /\ MapNear' = MapNear
      BY <1>1, <1>2, MapMazeStays DEF MapTrace
    <2> QED
      BY <1>1, <1>2, <2>1, MapAboveStays DEF MapPathShortest
  <1>9. MapAbove' <=> MapAbove
    BY <1>1, MapAboveStays
  <1>10. MapGoesRight => MapGoesRight'
    BY <1>1, <1>4, <1>5, <1>6, <1>7, <1>8 DEF MapGoesRight
  <1> QED
    BY <1>1, <1>2, <1>3, <1>9, <1>10 DEF MapInv

\* For mazes and windows of any size: mapping() of 3-3.py puts the whole maze
\* together, and the moves that the three clients send are a shortest way from
\* '*' to 'E', or there is none, unless the first window of 3-3.py begins above
\* the maze.
LEMMA MapRightCorrect == MapSpec => []MapRight
  <1>1. MapInit => MapInv
    BY MapInitInv
  <1>2. MapInv /\ [MapNext]_mapVars => MapInv'
    <2> SUFFICES ASSUME MapInv, [MapNext]_mapVars PROVE MapInv'
      OBVIOUS
    <2>1. CASE MapConnect
      BY <2>1, MapConnectInv
    <2>2. CASE MapMoveUp \/ MapMoveLeft \/ MapPad \/ MapPanWindow
      BY <2>2, MapPanInv
    <2>3. CASE MapSearch \/ MapLocate
      BY <2>3, MapSearchInv, MapLocateInv
    <2>4. CASE MapStraight
      BY <2>4, MapStraightInv
    <2>5. CASE UNCHANGED mapVars
      BY <2>5, MapStutterInv
    <2> QED
      BY <2>1, <2>2, <2>3, <2>4, <2>5 DEF MapNext
  <1>3. MapInv => MapRight
    BY DEF MapInv, MapGoesRight, MapRight, MapStitched, MapPathShortest, MapWholeRight
  <1> QED
    BY <1>1, <1>2, <1>3, PTL DEF MapSpec

-----------------------------------------------------------------------------
(* The maze client 3-4.py: a map that grows as the player walks.           *)

\* The four neighbours of a cell.
LEMMA WlkStepIs ==
    ASSUME NEW x, NEW y
    PROVE  /\ WlkStep(<<y, x>>, "W") = <<y - 1, x>> /\ WlkStep(<<y, x>>, "S") = <<y + 1, x>>
           /\ WlkStep(<<y, x>>, "A") = <<y, x - 1>> /\ WlkStep(<<y, x>>, "D") = <<y, x + 1>>
  BY DEF WlkStep

\* The opposite of a move undoes it.
LEMMA WlkStepBack ==
    ASSUME NEW p \in MapPlane, NEW m \in MapMoves
    PROVE  /\ WlkStep(p, m) \in MapPlane /\ WlkOpposite(m) \in MapMoves
           /\ WlkStep(WlkStep(p, m), WlkOpposite(m)) = p
  <1>1. PICK y \in Int, x \in Int : p = <<y, x>>
    BY DEF MapPlane
  <1>2. /\ <<y - 1, x>> \in MapPlane /\ <<y + 1, x>> \in MapPlane
        /\ <<y, x - 1>> \in MapPlane /\ <<y, x + 1>> \in MapPlane
    BY <1>1 DEF MapPlane
  <1>3. (y - 1) + 1 = y /\ (y + 1) - 1 = y /\ (x - 1) + 1 = x /\ (x + 1) - 1 = x
    OBVIOUS
  <1>4. /\ WlkOpposite("W") = "S" /\ WlkOpposite("S") = "W"
        /\ WlkOpposite("A") = "D" /\ WlkOpposite("D") = "A"
    BY DEF WlkOpposite
  <1>5. /\ WlkStep(WlkStep(p, "W"), "S") = p /\ WlkStep(WlkStep(p, "S"), "W") = p
        /\ WlkStep(WlkStep(p, "A"), "D") = p /\ WlkStep(WlkStep(p, "D"), "A") = p
    BY <1>1, <1>3, WlkStepIs
  <1>6. \A w \in MapMoves : WlkStep(p, w) \in MapPlane
    BY <1>1, <1>2, WlkStepIs DEF MapMoves
  <1> QED
    BY <1>4, <1>5, <1>6 DEF MapMoves

\* The cell d columns to the left.
WlkMoved(p, d) == <<p[1], p[2] - d>>

\* A step of a cell moved to the left is the step moved to the left.
LEMMA WlkStepMoved ==
    ASSUME NEW p \in MapPlane, NEW m \in MapMoves, NEW d \in Int
    PROVE  WlkStep(WlkMoved(p, d), m) = WlkMoved(WlkStep(p, m), d)
  <1>1. PICK y \in Int, x \in Int : p = <<y, x>>
    BY DEF MapPlane
  <1>2. \A a, b : WlkMoved(<<a, b>>, d) = <<a, b - d>>
    BY DEF WlkMoved
  <1>3. (x - d) - 1 = (x - 1) - d /\ (x - d) + 1 = (x + 1) - d
    OBVIOUS
  <1>4. /\ WlkStep(WlkMoved(p, d), "W") = WlkMoved(WlkStep(p, "W"), d)
        /\ WlkStep(WlkMoved(p, d), "S") = WlkMoved(WlkStep(p, "S"), d)
        /\ WlkStep(WlkMoved(p, d), "A") = WlkMoved(WlkStep(p, "A"), d)
        /\ WlkStep(WlkMoved(p, d), "D") = WlkMoved(WlkStep(p, "D"), d)
    <2>1. WlkMoved(p, d) = <<y, x - d>>
      BY <1>1, <1>2
    <2>2. /\ WlkStep(<<y, x - d>>, "W") = <<y - 1, x - d>> /\ WlkStep(<<y, x - d>>, "S") = <<y + 1, x - d>>
          /\ WlkStep(<<y, x - d>>, "A") = <<y, (x - d) - 1>> /\ WlkStep(<<y, x - d>>, "D") = <<y, (x - d) + 1>>
      BY WlkStepIs
    <2>3. /\ WlkStep(p, "W") = <<y - 1, x>> /\ WlkStep(p, "S") = <<y + 1, x>>
          /\ WlkStep(p, "A") = <<y, x - 1>> /\ WlkStep(p, "D") = <<y, x + 1>>
      BY <1>1, WlkStepIs
    <2> QED
      BY ONLY <1>2, <1>3, <2>1, <2>2, <2>3
  <1> QED
    BY <1>4 DEF MapMoves

\* Replacing a part of a row by another of the same length.
WlkIsSplice(r, row, from, new, to, n) ==
    /\ r \in Seq(Int) /\ Len(r) = n
    /\ \A i \in 1 .. n : r[i] = IF from < i /\ i <= to THEN new[i - from] ELSE row[i]

\* What the splice is, element by element.
LEMMA WlkSplices ==
    ASSUME NEW row \in Seq(Int), NEW n, Len(row) = n, NEW new \in Seq(Int), NEW from \in Nat, NEW to \in Nat,
           from + Len(new) = to, to <= n
    PROVE  WlkIsSplice(WlkSplice(row, from, new, to), row, from, new, to, n)
  <1>0. n \in Nat /\ \A i \in 1 .. n : row[i] \in Int
    BY ElementOfSeq
  <1>1. PICK a : a = SubSeq(row, 1, from) /\ a \in Seq(Int) /\ Len(a) = from /\ \A i \in 1 .. from : a[i] = row[i]
    <2>1. \A i \in 1 .. from : row[i] \in Int
      BY <1>0
    <2>2. /\ SubSeq(row, 1, from) \in Seq(Int)
          /\ Len(SubSeq(row, 1, from)) = IF 1 <= from THEN from - 1 + 1 ELSE 0
          /\ \A i \in 1 .. from - 1 + 1 : SubSeq(row, 1, from)[i] = row[1 + i - 1]
      BY <2>1, SubSeqProperties
    <2>3. (IF 1 <= from THEN from - 1 + 1 ELSE 0) = from /\ from - 1 + 1 = from
      OBVIOUS
    <2>4. \A i \in 1 .. from : 1 + i - 1 = i
      OBVIOUS
    <2>5. \A i \in 1 .. from : SubSeq(row, 1, from)[i] = row[i]
      BY <2>2, <2>3, <2>4
    <2> QED
      BY <2>2, <2>3, <2>5
  <1>2. PICK b : b = SubSeq(row, to + 1, n) /\ b \in Seq(Int) /\ Len(b) = n - to
                 /\ \A i \in 1 .. n - to : b[i] = row[to + i]
    <2>1. \A i \in to + 1 .. n : row[i] \in Int
      BY <1>0
    <2>2. /\ SubSeq(row, to + 1, n) \in Seq(Int)
          /\ Len(SubSeq(row, to + 1, n)) = IF to + 1 <= n THEN n - (to + 1) + 1 ELSE 0
          /\ \A i \in 1 .. n - (to + 1) + 1 : SubSeq(row, to + 1, n)[i] = row[(to + 1) + i - 1]
      BY <1>0, <2>1, SubSeqProperties
    <2>3. (IF to + 1 <= n THEN n - (to + 1) + 1 ELSE 0) = n - to /\ n - (to + 1) + 1 = n - to
      BY <1>0
    <2>4. \A i \in 1 .. n - to : (to + 1) + i - 1 = to + i
      BY <1>0
    <2>5. \A i \in 1 .. n - to : SubSeq(row, to + 1, n)[i] = row[to + i]
      BY <2>2, <2>3, <2>4
    <2>6. Len(SubSeq(row, to + 1, n)) = n - to
      BY ONLY <2>2, <2>3
    <2> QED
      BY <2>2, <2>5, <2>6
  <1>3. PICK c : c = MapCat(a, new) /\ MapIsJoin(Int, c, a, from, new, Len(new))
    BY <1>1, MapJoined
  <1>4. c \in Seq(Int) /\ Len(c) = to
    BY <1>3 DEF MapIsJoin
  <1>5. PICK r : r = MapCat(c, b) /\ MapIsJoin(Int, r, c, to, b, n - to)
    BY <1>2, <1>4, MapJoined
  <1>6. r = WlkSplice(row, from, new, to)
    BY <1>1, <1>2, <1>3, <1>5 DEF MapCat, WlkSplice
  <1>7. PICK k : k = Len(new) /\ k \in Nat /\ from + k = to
    OBVIOUS
  <1>8. r \in Seq(Int) /\ Len(r) = n
    BY <1>0, <1>5 DEF MapIsJoin
  <1>9. ASSUME NEW i \in 1 .. n PROVE r[i] = IF from < i /\ i <= to THEN new[i - from] ELSE row[i]
    <2>1. r[i] = IF i <= to THEN c[i] ELSE b[i - to]
      <3>1. \A j \in 1 .. to + (n - to) : r[j] = IF j <= to THEN c[j] ELSE b[j - to]
        BY ONLY <1>5 DEF MapIsJoin
      <3>2. i \in 1 .. to + (n - to)
        BY ONLY <1>0, i \in 1 .. n
      <3> QED
        BY ONLY <3>1, <3>2
    <2>2. i <= to => c[i] = IF i <= from THEN a[i] ELSE new[i - from]
      BY <1>3, <1>7 DEF MapIsJoin
    <2>3. i <= from => a[i] = row[i]
      BY <1>1
    <2>4. ~(i <= to) => b[i - to] = row[i]
      <3> SUFFICES ASSUME ~(i <= to) PROVE b[i - to] = row[i]
        OBVIOUS
      <3>1. i - to \in 1 .. n - to /\ to + (i - to) = i
        BY <1>0
      <3> QED
        BY <1>2, <3>1
    <2>5. i <= from => i <= to
      BY <1>7
    <2> QED
      BY <2>1, <2>2, <2>3, <2>4, <2>5
  <1> QED
    BY <1>6, <1>8, <1>9 DEF WlkIsSplice

\* A row of the map: n symbols, read or not, of the maze columns from off on.
WlkRowOk(r, off, n) ==
    /\ r \in Seq(Int) /\ Len(r) = n
    /\ \A i \in 1 .. n : r[i] = WlkPad \/ r[i] = off + i - 1

\* The symbol of column c of the maze stands in the row.
WlkHas(r, off, n, c) == c - off + 1 \in 1 .. n /\ r[c - off + 1] = c

\* Row s is like r, and shows what r shows.
WlkRowKept(r, off, n, s, off2, n2) ==
    WlkRowOk(s, off2, n2) /\ \A c \in Int : WlkHas(r, off, n, c) => WlkHas(s, off2, n2, c)

\* Writing the k columns from a on over a row.
LEMMA WlkRowSpliced ==
    ASSUME NEW off \in Nat, NEW n \in Nat, NEW r, WlkRowOk(r, off, n),
           NEW new \in Seq(Int), NEW k, Len(new) = k, NEW a \in Nat, \A i \in 1 .. k : new[i] = a + i - 1,
           NEW from \in Nat, from = a - off, NEW to \in Nat, to = from + k, to <= n,
           NEW s, s = WlkSplice(r, from, new, to)
    PROVE  WlkRowKept(r, off, n, s, off, n) /\ \A c \in a .. a + k - 1 : WlkHas(s, off, n, c)
  <1>1. WlkIsSplice(s, r, from, new, to, n)
    BY WlkSplices DEF WlkRowOk
  <1>2. k \in Nat
    OBVIOUS
  <1>3. ASSUME NEW i \in 1 .. n PROVE s[i] = IF from < i /\ i <= to THEN off + i - 1 ELSE r[i]
    <2>1. s[i] = IF from < i /\ i <= to THEN new[i - from] ELSE r[i]
      BY <1>1 DEF WlkIsSplice
    <2>2. CASE from < i /\ i <= to
      <3>1. i - from \in 1 .. k /\ a + (i - from) - 1 = off + i - 1
        BY <1>2, <2>2
      <3>2. new[i - from] = a + (i - from) - 1
        BY <3>1
      <3> QED
        BY <2>1, <2>2, <3>1, <3>2
    <2> QED
      BY <2>1, <2>2
  <1>4. WlkRowOk(s, off, n)
    BY <1>1, <1>3 DEF WlkIsSplice, WlkRowOk
  <1>5. ASSUME NEW c \in Int, WlkHas(r, off, n, c) PROVE WlkHas(s, off, n, c)
    <2>1. c - off + 1 \in 1 .. n /\ r[c - off + 1] = c /\ off + (c - off + 1) - 1 = c
      BY <1>5 DEF WlkHas
    <2> QED
      BY <1>3, <2>1 DEF WlkHas
  <1>6. ASSUME NEW c \in a .. a + k - 1 PROVE WlkHas(s, off, n, c)
    <2>1. /\ c \in Int /\ c - off + 1 \in 1 .. n /\ off + (c - off + 1) - 1 = c
          /\ from < c - off + 1 /\ c - off + 1 <= to
      BY <1>2
    <2> QED
      BY <1>3, <2>1 DEF WlkHas
  <1> QED
    BY <1>4, <1>5, <1>6 DEF WlkRowKept

\* Writing a column before a row.
LEMMA WlkRowLeft ==
    ASSUME NEW off \in Nat, NEW n \in Nat, NEW r, WlkRowOk(r, off, n), off > 0,
           NEW c \in Int, c = WlkPad \/ c = off - 1, NEW s, s = <<c>> \o r
    PROVE  WlkRowKept(r, off, n, s, off - 1, n + 1) /\ (c = off - 1 => WlkHas(s, off - 1, n + 1, c))
  <1>1. PICK h : h = <<c>> /\ h \in Seq(Int) /\ Len(h) = 1 /\ h[1] = c
    <2>1. <<c>> \in Seq(Int) /\ Len(<<c>>) = 1 /\ <<c>>[1] = c
      OBVIOUS
    <2> QED
      BY ONLY <2>1
  <1>2. s = MapCat(h, r) /\ MapIsJoin(Int, MapCat(h, r), h, 1, r, n)
    <2>1. r \in Seq(Int) /\ Len(r) = n
      BY DEF WlkRowOk
    <2>2. MapIsJoin(Int, MapCat(h, r), h, 1, r, n)
      BY <1>1, <2>1, MapJoined
    <2> QED
      BY <1>1, <2>2 DEF MapCat
  <1>3. s \in Seq(Int) /\ Len(s) = n + 1 /\ s[1] = c
    <2>1. 1 \in 1 .. 1 + n /\ 1 + n = n + 1 /\ 1 <= 1
      OBVIOUS
    <2>2. s \in Seq(Int) /\ Len(s) = 1 + n /\ s[1] = h[1]
      BY ONLY <1>2, <2>1 DEF MapIsJoin
    <2> QED
      BY <1>1, <2>1, <2>2
  <1>4. ASSUME NEW i \in 1 .. n PROVE s[i + 1] = r[i]
    <2>1. i + 1 \in 1 .. 1 + n /\ ~(i + 1 <= 1) /\ (i + 1) - 1 = i
      OBVIOUS
    <2> QED
      BY <1>2, <2>1 DEF MapIsJoin
  <1>5. WlkRowOk(s, off - 1, n + 1)
    <2> SUFFICES ASSUME NEW j \in 1 .. n + 1 PROVE s[j] = WlkPad \/ s[j] = (off - 1) + j - 1
      BY <1>3 DEF WlkRowOk
    <2>1. CASE j = 1
      BY <1>3, <2>1
    <2>2. CASE j # 1
      <3>1. j - 1 \in 1 .. n /\ (j - 1) + 1 = j /\ off + (j - 1) - 1 = (off - 1) + j - 1
        BY <2>2
      <3>2. s[j] = r[j - 1]
        BY <1>4, <3>1
      <3>3. r[j - 1] = WlkPad \/ r[j - 1] = off + (j - 1) - 1
        BY <3>1 DEF WlkRowOk
      <3> QED
        BY <3>1, <3>2, <3>3
    <2> QED
      BY <2>1, <2>2
  <1>6. ASSUME NEW d \in Int, WlkHas(r, off, n, d) PROVE WlkHas(s, off - 1, n + 1, d)
    <2>1. /\ d - off + 1 \in 1 .. n /\ r[d - off + 1] = d
          /\ (d - off + 1) + 1 = d - (off - 1) + 1 /\ d - (off - 1) + 1 \in 1 .. n + 1
      BY <1>6 DEF WlkHas
    <2> QED
      BY <1>4, <2>1 DEF WlkHas
  <1>7. c = off - 1 => WlkHas(s, off - 1, n + 1, c)
    <2> SUFFICES ASSUME c = off - 1 PROVE WlkHas(s, off - 1, n + 1, c)
      OBVIOUS
    <2>1. c - (off - 1) + 1 = 1 /\ 1 \in 1 .. n + 1
      OBVIOUS
    <2> QED
      BY <1>3, <2>1 DEF WlkHas
  <1> QED
    BY <1>5, <1>6, <1>7 DEF WlkRowKept

\* Writing a column after a row.
LEMMA WlkRowRight ==
    ASSUME NEW off \in Nat, NEW n \in Nat, NEW r, WlkRowOk(r, off, n),
           NEW c \in Int, c = WlkPad \/ c = off + n, NEW s, s = Append(r, c)
    PROVE  WlkRowKept(r, off, n, s, off, n + 1) /\ (c = off + n => WlkHas(s, off, n + 1, c))
  <1>1. r \in Seq(Int) /\ Len(r) = n
    BY DEF WlkRowOk
  <1>2. s \in Seq(Int) /\ Len(s) = n + 1 /\ s[n + 1] = c /\ \A i \in 1 .. n : s[i] = r[i]
    BY <1>1, AppendProperties
  <1>3. WlkRowOk(s, off, n + 1)
    <2> SUFFICES ASSUME NEW j \in 1 .. n + 1 PROVE s[j] = WlkPad \/ s[j] = off + j - 1
      BY <1>2 DEF WlkRowOk
    <2>1. CASE j = n + 1
      BY <1>2, <2>1
    <2>2. CASE j # n + 1
      <3>1. j \in 1 .. n
        BY <2>2
      <3> QED
        BY <1>2, <3>1 DEF WlkRowOk
    <2> QED
      BY <2>1, <2>2
  <1>4. ASSUME NEW d \in Int, WlkHas(r, off, n, d) PROVE WlkHas(s, off, n + 1, d)
    <2>1. d - off + 1 \in 1 .. n /\ r[d - off + 1] = d /\ d - off + 1 \in 1 .. n + 1
      BY <1>4 DEF WlkHas
    <2> QED
      BY <1>2, <2>1 DEF WlkHas
  <1>5. c = off + n => WlkHas(s, off, n + 1, c)
    <2> SUFFICES ASSUME c = off + n PROVE WlkHas(s, off, n + 1, c)
      OBVIOUS
    <2>1. c - off + 1 = n + 1 /\ n + 1 \in 1 .. n + 1
      OBVIOUS
    <2> QED
      BY <1>2, <2>1 DEF WlkHas
  <1> QED
    BY <1>3, <1>4, <1>5 DEF WlkRowKept

\* A row that stays.
LEMMA WlkRowStays ==
    ASSUME NEW off, NEW n, NEW r, WlkRowOk(r, off, n)
    PROVE  WlkRowKept(r, off, n, r, off, n)
  BY DEF WlkRowKept

\* A cell within the border.
WlkInside(p) == p \in (1 .. WlkH - 2) \X (1 .. WlkW - 2)

\* The window around p is on the map K.
WlkSees(K, off, n, p) ==
    \A y \in WlkRows(p), c \in WlkFirst(p) .. WlkFinal(p) : WlkHas(K[y], off, n, c)

\* K is a map of the maze: n columns, from column off on.
WlkDrawn(K, off, n) ==
    /\ off \in Nat /\ n \in Nat /\ off + n <= WlkW
    /\ K = [y \in 0 .. WlkH - 1 |-> K[y]]
    /\ \A y \in 0 .. WlkH - 1 : WlkRowOk(K[y], off, n)

\* Map L shows what the map shows, and the window around p.
WlkGrown(off, n, L, off2, n2, p) ==
    /\ off2 \in Nat /\ n2 \in Nat /\ off2 + n2 <= WlkW
    /\ L = [y \in 0 .. WlkH - 1 |-> L[y]]
    /\ \A y \in 0 .. WlkH - 1 : WlkRowKept(wlkKnown[y], off, n, L[y], off2, n2)
    /\ WlkSees(L, off2, n2, p)

\* Rows and columns of the window.
WlkTop(y) == IF y - WlkReach > 0 THEN y - WlkReach ELSE 0
WlkBottom(y) == IF y + WlkReach < WlkH - 1 THEN y + WlkReach ELSE WlkH - 1
WlkWest(x) == IF x - WlkReach > 0 THEN x - WlkReach ELSE 0
WlkEast(x) == IF x + WlkReach < WlkW - 1 THEN x + WlkReach ELSE WlkW - 1

\* The window of the server, by its borders.
LEMMA WlkWindowIs ==
    ASSUME NEW y, y \in 1 .. WlkH - 2, NEW x, x \in 1 .. WlkW - 2
    PROVE  /\ WlkRows(<<y, x>>) = WlkTop(y) .. WlkBottom(y)
           /\ WlkFirst(<<y, x>>) = WlkWest(x) /\ WlkFinal(<<y, x>>) = WlkEast(x)
  <1>1. WlkReach \in Nat /\ WlkH \in Nat /\ WlkW \in Nat /\ y \in Int /\ x \in Int
    BY WlkReachAssumption, WlkSizesAssumption
  <1>2. WlkMost(0, y - WlkReach) = WlkTop(y) /\ WlkMost(0, x - WlkReach) = WlkWest(x)
    BY <1>1 DEF WlkMost, WlkTop, WlkWest
  <1>3. WlkLeast(WlkH - 1, y + WlkReach) = WlkBottom(y) /\ WlkLeast(WlkW - 1, x + WlkReach) = WlkEast(x)
    BY <1>1 DEF WlkLeast, WlkBottom, WlkEast
  <1> QED
    BY <1>2, <1>3 DEF WlkRows, WlkFirst, WlkFinal

\* A window shows at least the neighbours of the player.
LEMMA WlkWindowBounds ==
    ASSUME NEW y, y \in 1 .. WlkH - 2, NEW x, x \in 1 .. WlkW - 2
    PROVE  /\ WlkTop(y) \in 0 .. y - 1 /\ WlkBottom(y) \in y + 1 .. WlkH - 1
           /\ WlkWest(x) \in 0 .. x - 1 /\ WlkEast(x) \in x + 1 .. WlkW - 1
           /\ y \in Int /\ x \in Int
  BY WlkReachAssumption, WlkSizesAssumption DEF WlkTop, WlkBottom, WlkWest, WlkEast

\* A row of the window has the columns of the maze in order.
LEMMA WlkSeenIs ==
    ASSUME NEW y, y \in 1 .. WlkH - 2, NEW x, x \in 1 .. WlkW - 2, NEW w, w = WlkWest(x), NEW e, e = WlkEast(x)
    PROVE  /\ WlkSeen(<<y, x>>) \in Seq(Int) /\ Len(WlkSeen(<<y, x>>)) = e - w + 1
           /\ \A i \in 1 .. e - w + 1 : WlkSeen(<<y, x>>)[i] = w + i - 1
           /\ e - w + 1 \in Nat
  <1>1. w \in Int /\ e \in Int /\ w <= e
    BY WlkWindowBounds
  <1>2. WlkSeen(<<y, x>>) = [i \in 1 .. e - w + 1 |-> w + i - 1]
    BY WlkWindowIs DEF WlkSeen
  <1>3. PICK k : k = e - w + 1 /\ k \in Nat
    BY <1>1
  <1>4. \A i \in 1 .. k : w + i - 1 \in Int
    BY <1>1
  <1>5. [i \in 1 .. k |-> w + i - 1] \in Seq(Int) /\ Len([i \in 1 .. k |-> w + i - 1]) = k
    BY <1>3, <1>4
  <1> QED
    BY <1>2, <1>3, <1>5

\* Where the window around <<y, x>> is on the map.
LEMMA WlkSeesColumns ==
    ASSUME NEW K, NEW off, NEW n, NEW y, y \in 1 .. WlkH - 2, NEW x, x \in 1 .. WlkW - 2,
           WlkSees(K, off, n, <<y, x>>)
    PROVE  /\ WlkWest(x) - off + 1 \in 1 .. n /\ WlkEast(x) - off + 1 \in 1 .. n
           /\ \A r \in WlkTop(y) .. WlkBottom(y), c \in WlkWest(x) .. WlkEast(x) : WlkHas(K[r], off, n, c)
  <1>1. \A r \in WlkTop(y) .. WlkBottom(y), c \in WlkWest(x) .. WlkEast(x) : WlkHas(K[r], off, n, c)
    BY WlkWindowIs DEF WlkSees
  <1>2. /\ y \in WlkTop(y) .. WlkBottom(y)
        /\ WlkWest(x) \in WlkWest(x) .. WlkEast(x) /\ WlkEast(x) \in WlkWest(x) .. WlkEast(x)
    BY WlkWindowBounds
  <1> QED
    BY <1>1, <1>2 DEF WlkHas

\* After a step up or down.
LEMMA WlkDrawnRow ==
    ASSUME NEW off, NEW n, WlkDrawn(wlkKnown, off, n),
           NEW y, y \in 1 .. WlkH - 2, NEW x, x \in 1 .. WlkW - 2, WlkSees(wlkKnown, off, n, <<y, x>>),
           NEW y2, y2 \in 1 .. WlkH - 2, NEW r,
           (y2 = y - 1 /\ r = WlkTop(y2)) \/ (y2 = y + 1 /\ r = WlkBottom(y2)),
           NEW L, L = WlkDrawRow(r, x - off, <<y2, x>>)
    PROVE  WlkGrown(off, n, L, off, n, <<y2, x>>)
  <1>1. off \in Nat /\ n \in Nat /\ off + n <= WlkW /\ WlkReach \in Nat /\ WlkH \in Nat /\ WlkW \in Nat
        /\ WlkReach >= 2
    BY WlkSizesAssumption, WlkReachAssumption DEF WlkDrawn
  <1>2. PICK w, e : w = WlkWest(x) /\ e = WlkEast(x)
    OBVIOUS
  <1>3. /\ w - off + 1 \in 1 .. n /\ e - off + 1 \in 1 .. n
        /\ \A s \in WlkTop(y) .. WlkBottom(y), c \in w .. e : WlkHas(wlkKnown[s], off, n, c)
    BY <1>2, WlkSeesColumns
  <1>4. w \in Nat /\ e \in Nat /\ w < x /\ x < e /\ e <= WlkW - 1 /\ x \in Nat /\ y \in Nat /\ y2 \in Nat
    BY <1>1, <1>2, WlkWindowBounds
  <1>5. r \in 0 .. WlkH - 1 /\ 0 \in 0 .. WlkH - 1
    <2>1. /\ WlkTop(y2) \in 0 .. y2 - 1 /\ WlkBottom(y2) \in y2 + 1 .. WlkH - 1
      BY WlkWindowBounds
    <2> QED
      BY <1>1, <1>4, <2>1
  <1>6. Len(wlkKnown[0]) = n
    BY <1>5 DEF WlkDrawn, WlkRowOk
  <1>7. WlkMost(0, (x - off) - WlkReach) = w - off
    BY <1>1, <1>2, <1>3, <1>4 DEF WlkMost, WlkWest
  <1>8. WlkLeast((x - off) + WlkReach + 1, n) = e - off + 1
    BY <1>1, <1>2, <1>3, <1>4 DEF WlkLeast, WlkEast
  <1>9. PICK new : new = WlkSeen(<<y2, x>>)
    OBVIOUS
  <1>10. new \in Seq(Int) /\ Len(new) = e - w + 1 /\ \A i \in 1 .. e - w + 1 : new[i] = w + i - 1
    BY <1>2, <1>9, WlkSeenIs
  <1>11. L = [wlkKnown EXCEPT ![r] = WlkSplice(@, w - off, new, e - off + 1)]
    BY <1>6, <1>7, <1>8, <1>9 DEF WlkDrawRow
  <1>12. PICK s : s = WlkSplice(wlkKnown[r], w - off, new, e - off + 1)
    OBVIOUS
  <1>13. \A z \in 0 .. WlkH - 1 : L[z] = IF z = r THEN s ELSE wlkKnown[z]
    BY <1>5, <1>11, <1>12 DEF WlkDrawn
  <1>14. L = [z \in 0 .. WlkH - 1 |-> L[z]]
    <2>1. DOMAIN wlkKnown = 0 .. WlkH - 1
      BY DEF WlkDrawn
    <2> QED
      BY <1>11, <2>1
  <1>15. WlkRowKept(wlkKnown[r], off, n, s, off, n) /\ \A c \in w .. w + (e - w + 1) - 1 : WlkHas(s, off, n, c)
    <2>1. WlkRowOk(wlkKnown[r], off, n)
      BY <1>5 DEF WlkDrawn
    <2>2. w - off \in Nat /\ e - off + 1 \in Nat /\ e - off + 1 = (w - off) + (e - w + 1) /\ e - off + 1 <= n
      BY <1>1, <1>3, <1>4
    <2> QED
      BY <1>1, <1>4, <1>10, <1>12, <2>1, <2>2, WlkRowSpliced
  <1>16. \A c \in w .. e : WlkHas(s, off, n, c)
    <2>1. w + (e - w + 1) - 1 = e
      BY <1>4
    <2> QED
      BY <1>15, <2>1
  <1>17. \A z \in 0 .. WlkH - 1 : WlkRowKept(wlkKnown[z], off, n, L[z], off, n)
    <2> SUFFICES ASSUME NEW z \in 0 .. WlkH - 1 PROVE WlkRowKept(wlkKnown[z], off, n, L[z], off, n)
      OBVIOUS
    <2>1. WlkRowOk(wlkKnown[z], off, n)
      BY DEF WlkDrawn
    <2> QED
      BY <1>13, <1>15, <2>1, WlkRowStays
  <1>18. \A z \in WlkTop(y2) .. WlkBottom(y2) : z = r \/ z \in WlkTop(y) .. WlkBottom(y)
    BY <1>1, <1>4 DEF WlkTop, WlkBottom
  <1>19. WlkTop(y2) .. WlkBottom(y2) \subseteq 0 .. WlkH - 1
    <2>1. /\ WlkTop(y2) \in 0 .. y2 - 1 /\ WlkBottom(y2) \in y2 + 1 .. WlkH - 1
      BY WlkWindowBounds
    <2> QED
      BY <1>1, <1>4, <2>1
  <1>20. WlkSees(L, off, n, <<y2, x>>)
    <2> SUFFICES ASSUME NEW z \in WlkTop(y2) .. WlkBottom(y2), NEW c \in w .. e PROVE WlkHas(L[z], off, n, c)
      BY <1>2, WlkWindowIs DEF WlkSees
    <2>1. L[z] = IF z = r THEN s ELSE wlkKnown[z]
      BY <1>13, <1>19
    <2>2. CASE z = r
      BY <1>16, <2>1, <2>2
    <2>3. CASE z # r
      BY <1>3, <1>18, <2>1, <2>3
    <2> QED
      BY <2>2, <2>3
  <1> QED
    BY <1>1, <1>14, <1>17, <1>20 DEF WlkGrown

\* Column c at place from of the rows in view, one of its symbols each.
LEMMA WlkRowsColumn ==
    ASSUME NEW off \in Nat, NEW n \in Nat, NEW r, WlkRowOk(r, off, n), NEW c \in Nat,
           NEW from \in Nat, from = c - off, from + 1 <= n
    PROVE  /\ WlkRowKept(r, off, n, WlkSplice(r, from, <<c>>, from + 1), off, n)
           /\ WlkHas(WlkSplice(r, from, <<c>>, from + 1), off, n, c)
  <1>1. PICK h : h = <<c>> /\ h \in Seq(Int) /\ Len(h) = 1 /\ h[1] = c
    <2>1. <<c>> \in Seq(Int) /\ Len(<<c>>) = 1 /\ <<c>>[1] = c
      OBVIOUS
    <2> QED
      BY ONLY <2>1
  <1>2. \A i \in 1 .. 1 : h[i] = c + i - 1
    BY <1>1
  <1>3. PICK s : s = WlkSplice(r, from, h, from + 1)
    OBVIOUS
  <1>4. from + 1 \in Nat
    OBVIOUS
  <1>5. WlkRowKept(r, off, n, s, off, n) /\ \A d \in c .. c + 1 - 1 : WlkHas(s, off, n, d)
    BY <1>1, <1>2, <1>3, <1>4, WlkRowSpliced
  <1>6. c \in c .. c + 1 - 1
    OBVIOUS
  <1> QED
    BY <1>1, <1>3, <1>5, <1>6

\* After a step to the left.
LEMMA WlkDrawnLeft ==
    ASSUME NEW off, NEW n, WlkDrawn(wlkKnown, off, n),
           NEW y, y \in 1 .. WlkH - 2, NEW x, x \in 1 .. WlkW - 2, WlkSees(wlkKnown, off, n, <<y, x>>),
           NEW x2, x2 \in 1 .. WlkW - 2, x2 = x - 1,
           NEW L, L = WlkDrawLeft(x2 - off, <<y, x2>>),
           NEW off2, off2 = off - WlkShift("A", x2 - off, <<y, x2>>)
    PROVE  \E n2 : WlkGrown(off, n, L, off2, n2, <<y, x2>>)
  <1>1. /\ off \in Nat /\ n \in Nat /\ off + n <= WlkW /\ WlkReach \in Nat /\ WlkH \in Nat /\ WlkW \in Nat
        /\ WlkReach >= 2
    BY WlkSizesAssumption, WlkReachAssumption DEF WlkDrawn
  <1>2. PICK w, e, w2, e2 : w = WlkWest(x) /\ e = WlkEast(x) /\ w2 = WlkWest(x2) /\ e2 = WlkEast(x2)
    OBVIOUS
  <1>3. /\ w - off + 1 \in 1 .. n /\ e - off + 1 \in 1 .. n
        /\ \A s \in WlkTop(y) .. WlkBottom(y), c \in w .. e : WlkHas(wlkKnown[s], off, n, c)
    BY <1>2, WlkSeesColumns
  <1>4. w \in Nat /\ e \in Nat /\ w < x /\ x < e /\ e <= WlkW - 1 /\ x \in Nat /\ y \in Nat /\ x2 \in Nat
    <2>1. WlkWest(x) \in 0 .. x - 1 /\ WlkEast(x) \in x + 1 .. WlkW - 1
      BY WlkWindowBounds
    <2>2. x \in Nat /\ y \in Nat /\ x2 \in Nat
      BY <1>1
    <2> QED
      BY <1>1, <1>2, <2>1, <2>2
  <1>5. w2 \in Nat /\ w2 < x2 /\ e2 \in Nat /\ e2 <= e /\ \A c \in w2 .. e2 : c = w2 \/ c \in w .. e
    BY <1>1, <1>2, <1>4 DEF WlkWest, WlkEast
  <1>6. PICK X, rows : X = x2 - off /\ rows = WlkTop(y) .. WlkBottom(y)
    OBVIOUS
  <1>7. rows \subseteq 0 .. WlkH - 1
    <2>1. WlkTop(y) \in 0 .. y - 1 /\ WlkBottom(y) \in y + 1 .. WlkH - 1
      BY WlkWindowBounds
    <2> QED
      BY <1>1, <1>4, <1>6, <2>1
  <1>8. WlkRows(<<y, x2>>) = rows /\ WlkFirst(<<y, x2>>) = w2 /\ WlkFinal(<<y, x2>>) = e2 /\ <<y, x2>>[2] = x2
    BY <1>2, <1>6, WlkWindowIs
  <1>9. DOMAIN wlkKnown = 0 .. WlkH - 1 /\ \A z \in 0 .. WlkH - 1 : WlkRowOk(wlkKnown[z], off, n)
    BY DEF WlkDrawn
  <1>10. \A z \in 0 .. WlkH - 1 :
            LET c == IF z \in rows THEN w2 ELSE WlkPad
            IN  L[z] = CASE x2 - WlkReach < 0 /\ c # WlkPad -> WlkSplice(wlkKnown[z], 0, <<c>>, 1)
                         [] x2 - WlkReach >= 0 /\ X - WlkReach = -1 -> <<c>> \o wlkKnown[z]
                         [] x2 - WlkReach >= 0 /\ X - WlkReach # -1 /\ c # WlkPad ->
                                WlkSplice(wlkKnown[z], X - WlkReach, <<c>>, X - WlkReach + 1)
                         [] OTHER -> wlkKnown[z]
    <2>1. PICK p : p = <<y, x2>>
      OBVIOUS
    <2>2. \A z \in 0 .. WlkH - 1 :
            LET row == wlkKnown[z]
                c == IF z \in WlkRows(p) THEN WlkFirst(p) ELSE WlkPad
            IN  L[z] = CASE p[2] - WlkReach < 0 /\ c # WlkPad -> WlkSplice(row, 0, <<c>>, 1)
                         [] p[2] - WlkReach >= 0 /\ X - WlkReach = -1 -> <<c>> \o row
                         [] p[2] - WlkReach >= 0 /\ X - WlkReach # -1 /\ c # WlkPad ->
                                WlkSplice(row, X - WlkReach, <<c>>, X - WlkReach + 1)
                         [] OTHER -> row
      BY <1>6, <1>9, <2>1 DEF WlkDrawLeft
    <2> QED
      BY <1>8, <2>1, <2>2
  <1>17. L = [z \in 0 .. WlkH - 1 |-> L[z]]
    BY <1>9 DEF WlkDrawLeft
  <1>11. WlkPad = -1 /\ w2 # WlkPad
    BY <1>5 DEF WlkPad
  <1>12. off2 = IF x2 - WlkReach >= 0 /\ X - WlkReach = -1 THEN off - 1 ELSE off
    BY <1>1, <1>6, <1>8 DEF WlkShift
  <1> DEFINE Kept(n2) == \A z \in 0 .. WlkH - 1 : /\ WlkRowKept(wlkKnown[z], off, n, L[z], off2, n2)
                                                  /\ z \in rows => WlkHas(L[z], off2, n2, w2)
  <1>13. ASSUME NEW n2 \in Nat, off2 \in Nat, off2 + n2 <= WlkW, Kept(n2)
         PROVE  WlkGrown(off, n, L, off2, n2, <<y, x2>>)
    <2>1. WlkSees(L, off2, n2, <<y, x2>>)
      <3> SUFFICES ASSUME NEW z \in rows, NEW d \in w2 .. e2 PROVE WlkHas(L[z], off2, n2, d)
        BY <1>8 DEF WlkSees
      <3>1. z \in 0 .. WlkH - 1 /\ d \in Int
        BY <1>5, <1>7
      <3>2. CASE d = w2
        BY <1>13, <3>1, <3>2
      <3>3. CASE d # w2
        <4>1. WlkHas(wlkKnown[z], off, n, d)
          BY <1>3, <1>5, <1>6, <3>3
        <4> QED
          BY <1>13, <3>1, <4>1 DEF WlkRowKept
      <3> QED
        BY <3>2, <3>3
    <2>2. L = [z \in 0 .. WlkH - 1 |-> L[z]]
      BY <1>17
    <2> QED
      BY <1>13, <2>1, <2>2 DEF WlkGrown
  <1>14. CASE x2 - WlkReach < 0
    <2>1. w2 = 0 /\ off = 0 /\ n >= 1
      BY <1>1, <1>2, <1>3, <1>4, <1>14 DEF WlkWest
    <2>2. off2 = off
      BY <1>1, <1>4, <1>12, <1>14
    <2>3. Kept(n)
      <3> SUFFICES ASSUME NEW z \in 0 .. WlkH - 1
                   PROVE  /\ WlkRowKept(wlkKnown[z], off, n, L[z], off2, n)
                          /\ z \in rows => WlkHas(L[z], off2, n, w2)
        OBVIOUS
      <3>1. L[z] = IF z \in rows THEN WlkSplice(wlkKnown[z], 0, <<w2>>, 1) ELSE wlkKnown[z]
        <4>1. PICK d : /\ d = IF z \in rows THEN w2 ELSE WlkPad
                       /\ L[z] = CASE x2 - WlkReach < 0 /\ d # WlkPad -> WlkSplice(wlkKnown[z], 0, <<d>>, 1)
                             [] x2 - WlkReach >= 0 /\ X - WlkReach = -1 -> <<d>> \o wlkKnown[z]
                             [] x2 - WlkReach >= 0 /\ X - WlkReach # -1 /\ d # WlkPad ->
                                    WlkSplice(wlkKnown[z], X - WlkReach, <<d>>, X - WlkReach + 1)
                             [] OTHER -> wlkKnown[z]
          BY <1>10
        <4>2. x2 - WlkReach < 0 /\ ~(x2 - WlkReach >= 0)
          BY <1>1, <1>4, <1>14
        <4> QED
          BY ONLY <1>11, <4>1, <4>2
      <3>2. /\ WlkRowKept(wlkKnown[z], off, n, WlkSplice(wlkKnown[z], 0, <<w2>>, 0 + 1), off, n)
            /\ WlkHas(WlkSplice(wlkKnown[z], 0, <<w2>>, 0 + 1), off, n, w2)
        <4>1. 0 \in Nat /\ 0 = w2 - off /\ 0 + 1 <= n
          BY <1>1, <2>1
        <4> QED
          BY <1>1, <1>5, <1>9, <4>1, WlkRowsColumn
      <3>3. WlkRowKept(wlkKnown[z], off, n, wlkKnown[z], off, n) /\ 0 + 1 = 1
        BY <1>9, WlkRowStays
      <3> QED
        BY <2>2, <3>1, <3>2, <3>3
    <2> HIDE DEF Kept
    <2> QED
      BY <1>1, <1>13, <2>2, <2>3
  <1>15. CASE x2 - WlkReach >= 0 /\ X - WlkReach = -1
    <2>1. w2 = off - 1 /\ off > 0 /\ off2 = off - 1 /\ off2 \in Nat /\ n + 1 \in Nat /\ off2 + (n + 1) <= WlkW
      BY <1>1, <1>2, <1>4, <1>6, <1>12, <1>15 DEF WlkWest
    <2>2. Kept(n + 1)
      <3> SUFFICES ASSUME NEW z \in 0 .. WlkH - 1
                   PROVE  /\ WlkRowKept(wlkKnown[z], off, n, L[z], off2, n + 1)
                          /\ z \in rows => WlkHas(L[z], off2, n + 1, w2)
        OBVIOUS
      <3>0. PICK c : c = IF z \in rows THEN w2 ELSE WlkPad
        OBVIOUS
      <3>1. L[z] = <<c>> \o wlkKnown[z]
        <4>1. PICK d : /\ d = IF z \in rows THEN w2 ELSE WlkPad
                       /\ L[z] = CASE x2 - WlkReach < 0 /\ d # WlkPad -> WlkSplice(wlkKnown[z], 0, <<d>>, 1)
                             [] x2 - WlkReach >= 0 /\ X - WlkReach = -1 -> <<d>> \o wlkKnown[z]
                             [] x2 - WlkReach >= 0 /\ X - WlkReach # -1 /\ d # WlkPad ->
                                    WlkSplice(wlkKnown[z], X - WlkReach, <<d>>, X - WlkReach + 1)
                             [] OTHER -> wlkKnown[z]
          BY <1>10
        <4>2. ~(x2 - WlkReach < 0) /\ x2 - WlkReach >= 0 /\ X - WlkReach = -1
          BY <1>1, <1>4, <1>15
        <4> QED
          BY ONLY <1>11, <4>1, <4>2, <3>0
      <3>2. c \in Int /\ (c = WlkPad \/ c = off - 1) /\ (z \in rows => c = w2)
        BY <1>5, <1>11, <2>1, <3>0
      <3>3. WlkRowKept(wlkKnown[z], off, n, L[z], off - 1, n + 1) /\ (c = off - 1 => WlkHas(L[z], off - 1, n + 1, c))
        BY <1>1, <1>9, <2>1, <3>1, <3>2, WlkRowLeft
      <3> QED
        BY <2>1, <3>2, <3>3
    <2> HIDE DEF Kept
    <2> QED
      BY <1>13, <2>1, <2>2
  <1>16. CASE x2 - WlkReach >= 0 /\ X - WlkReach # -1
    <2>1. w2 = x2 - WlkReach /\ w = w2 + 1
      BY <1>1, <1>2, <1>4, <1>16 DEF WlkWest
    <2>2. PICK from : from = X - WlkReach /\ from \in Nat /\ from = w2 - off /\ from + 1 <= n
      <3>1. X - WlkReach = w2 - off /\ w2 - off + 2 \in 1 .. n /\ w2 - off \in Int
        BY <1>1, <1>3, <1>4, <1>6, <2>1
      <3> QED
        BY <1>1, <1>16, <3>1
    <2>3. off2 = off
      BY <1>12, <1>16
    <2>4. Kept(n)
      <3> SUFFICES ASSUME NEW z \in 0 .. WlkH - 1
                   PROVE  /\ WlkRowKept(wlkKnown[z], off, n, L[z], off2, n)
                          /\ z \in rows => WlkHas(L[z], off2, n, w2)
        OBVIOUS
      <3>1. L[z] = IF z \in rows THEN WlkSplice(wlkKnown[z], from, <<w2>>, from + 1) ELSE wlkKnown[z]
        <4>1. PICK d : /\ d = IF z \in rows THEN w2 ELSE WlkPad
                       /\ L[z] = CASE x2 - WlkReach < 0 /\ d # WlkPad -> WlkSplice(wlkKnown[z], 0, <<d>>, 1)
                             [] x2 - WlkReach >= 0 /\ X - WlkReach = -1 -> <<d>> \o wlkKnown[z]
                             [] x2 - WlkReach >= 0 /\ X - WlkReach # -1 /\ d # WlkPad ->
                                    WlkSplice(wlkKnown[z], X - WlkReach, <<d>>, X - WlkReach + 1)
                             [] OTHER -> wlkKnown[z]
          BY <1>10
        <4>2. ~(x2 - WlkReach < 0) /\ x2 - WlkReach >= 0 /\ X - WlkReach # -1
          BY <1>1, <1>4, <1>16
        <4> QED
          BY ONLY <1>11, <4>1, <4>2, <2>2
      <3>2. /\ WlkRowKept(wlkKnown[z], off, n, WlkSplice(wlkKnown[z], from, <<w2>>, from + 1), off, n)
            /\ WlkHas(WlkSplice(wlkKnown[z], from, <<w2>>, from + 1), off, n, w2)
        BY <1>1, <1>5, <1>9, <2>2, WlkRowsColumn
      <3>3. WlkRowKept(wlkKnown[z], off, n, wlkKnown[z], off, n)
        BY <1>9, WlkRowStays
      <3> QED
        BY <2>3, <3>1, <3>2, <3>3
    <2> HIDE DEF Kept
    <2> QED
      BY <1>1, <1>13, <2>3, <2>4
  <1> QED
    BY <1>1, <1>4, <1>14, <1>15, <1>16

\* After a step to the right.
LEMMA WlkDrawnRight ==
    ASSUME NEW off, NEW n, WlkDrawn(wlkKnown, off, n),
           NEW y, y \in 1 .. WlkH - 2, NEW x, x \in 1 .. WlkW - 2, WlkSees(wlkKnown, off, n, <<y, x>>),
           NEW x2, x2 \in 1 .. WlkW - 2, x2 = x + 1,
           NEW L, L = WlkDrawRight(x2 - off, <<y, x2>>)
    PROVE  \E n2 : WlkGrown(off, n, L, off, n2, <<y, x2>>)
  <1>1. /\ off \in Nat /\ n \in Nat /\ off + n <= WlkW /\ WlkReach \in Nat /\ WlkH \in Nat /\ WlkW \in Nat
        /\ WlkReach >= 2
    BY WlkSizesAssumption, WlkReachAssumption DEF WlkDrawn
  <1>2. PICK w, e, w2, e2 : w = WlkWest(x) /\ e = WlkEast(x) /\ w2 = WlkWest(x2) /\ e2 = WlkEast(x2)
    OBVIOUS
  <1>3. /\ w - off + 1 \in 1 .. n /\ e - off + 1 \in 1 .. n
        /\ \A s \in WlkTop(y) .. WlkBottom(y), c \in w .. e : WlkHas(wlkKnown[s], off, n, c)
    BY <1>2, WlkSeesColumns
  <1>4. w \in Nat /\ e \in Nat /\ w < x /\ x < e /\ e <= WlkW - 1 /\ x \in Nat /\ y \in Nat /\ x2 \in Nat
    <2>1. WlkWest(x) \in 0 .. x - 1 /\ WlkEast(x) \in x + 1 .. WlkW - 1
      BY WlkWindowBounds
    <2>2. x \in Nat /\ y \in Nat /\ x2 \in Nat
      BY <1>1
    <2> QED
      BY <1>1, <1>2, <2>1, <2>2
  <1>5. w2 \in Nat /\ w <= w2 /\ e2 \in Nat /\ x2 < e2 /\ \A c \in w2 .. e2 : c = e2 \/ c \in w .. e
    BY <1>1, <1>2, <1>4 DEF WlkWest, WlkEast
  <1>6. PICK X, rows : X = x2 - off /\ rows = WlkTop(y) .. WlkBottom(y)
    OBVIOUS
  <1>7. rows \subseteq 0 .. WlkH - 1
    <2>1. WlkTop(y) \in 0 .. y - 1 /\ WlkBottom(y) \in y + 1 .. WlkH - 1
      BY WlkWindowBounds
    <2> QED
      BY <1>1, <1>4, <1>6, <2>1
  <1>8. WlkRows(<<y, x2>>) = rows /\ WlkFirst(<<y, x2>>) = w2 /\ WlkFinal(<<y, x2>>) = e2 /\ <<y, x2>>[2] = x2
    BY <1>2, <1>6, WlkWindowIs
  <1>9. DOMAIN wlkKnown = 0 .. WlkH - 1 /\ \A z \in 0 .. WlkH - 1 : WlkRowOk(wlkKnown[z], off, n)
    BY DEF WlkDrawn
  <1>10. \A z \in 0 .. WlkH - 1 :
            LET c == IF z \in rows THEN e2 ELSE WlkPad
            IN  L[z] = CASE x2 + WlkReach > WlkW - 1 /\ c # WlkPad -> WlkSplice(wlkKnown[z], n - 1, <<c>>, n)
                         [] x2 + WlkReach <= WlkW - 1 /\ X + WlkReach = n -> Append(wlkKnown[z], c)
                         [] x2 + WlkReach <= WlkW - 1 /\ X + WlkReach # n /\ c # WlkPad ->
                                WlkSplice(wlkKnown[z], X + WlkReach, <<c>>, X + WlkReach + 1)
                         [] OTHER -> wlkKnown[z]
    <2>1. PICK p : p = <<y, x2>>
      OBVIOUS
    <2>2. \A z \in 0 .. WlkH - 1 :
            LET row == wlkKnown[z]
                c == IF z \in WlkRows(p) THEN WlkFinal(p) ELSE WlkPad
            IN  L[z] = CASE p[2] + WlkReach > WlkW - 1 /\ c # WlkPad -> WlkSplice(row, n - 1, <<c>>, n)
                         [] p[2] + WlkReach <= WlkW - 1 /\ X + WlkReach = n -> Append(row, c)
                         [] p[2] + WlkReach <= WlkW - 1 /\ X + WlkReach # n /\ c # WlkPad ->
                                WlkSplice(row, X + WlkReach, <<c>>, X + WlkReach + 1)
                         [] OTHER -> row
      BY <1>6, <1>9, <2>1 DEF WlkDrawRight, WlkRowOk
    <2> QED
      BY <1>8, <2>1, <2>2
  <1>17. L = [z \in 0 .. WlkH - 1 |-> L[z]]
    BY <1>9 DEF WlkDrawRight
  <1>11. WlkPad = -1 /\ e2 # WlkPad
    BY <1>5 DEF WlkPad
  <1> DEFINE Kept(n2) == \A z \in 0 .. WlkH - 1 : /\ WlkRowKept(wlkKnown[z], off, n, L[z], off, n2)
                                                  /\ z \in rows => WlkHas(L[z], off, n2, e2)
  <1>13. ASSUME NEW n2 \in Nat, off + n2 <= WlkW, Kept(n2)
         PROVE  WlkGrown(off, n, L, off, n2, <<y, x2>>)
    <2>1. WlkSees(L, off, n2, <<y, x2>>)
      <3> SUFFICES ASSUME NEW z \in rows, NEW d \in w2 .. e2 PROVE WlkHas(L[z], off, n2, d)
        BY <1>8 DEF WlkSees
      <3>1. z \in 0 .. WlkH - 1 /\ d \in Int
        BY <1>5, <1>7
      <3>2. CASE d = e2
        BY <1>13, <3>1, <3>2
      <3>3. CASE d # e2
        <4>1. WlkHas(wlkKnown[z], off, n, d)
          BY <1>3, <1>5, <1>6, <3>3
        <4> QED
          BY <1>13, <3>1, <4>1 DEF WlkRowKept
      <3> QED
        BY <3>2, <3>3
    <2>2. L = [z \in 0 .. WlkH - 1 |-> L[z]]
      BY <1>17
    <2> QED
      BY <1>1, <1>13, <2>1, <2>2 DEF WlkGrown
  <1>14. CASE x2 + WlkReach > WlkW - 1
    <2>1. e2 = WlkW - 1 /\ n - 1 = e2 - off /\ n - 1 \in Nat /\ (n - 1) + 1 = n
      BY <1>1, <1>2, <1>3, <1>4, <1>14 DEF WlkEast
    <2>3. Kept(n)
      <3> SUFFICES ASSUME NEW z \in 0 .. WlkH - 1
                   PROVE  /\ WlkRowKept(wlkKnown[z], off, n, L[z], off, n)
                          /\ z \in rows => WlkHas(L[z], off, n, e2)
        OBVIOUS
      <3>1. L[z] = IF z \in rows THEN WlkSplice(wlkKnown[z], n - 1, <<e2>>, n) ELSE wlkKnown[z]
        <4>1. PICK d : /\ d = IF z \in rows THEN e2 ELSE WlkPad
                       /\ L[z] = CASE x2 + WlkReach > WlkW - 1 /\ d # WlkPad -> WlkSplice(wlkKnown[z], n - 1, <<d>>, n)
                             [] x2 + WlkReach <= WlkW - 1 /\ X + WlkReach = n -> Append(wlkKnown[z], d)
                             [] x2 + WlkReach <= WlkW - 1 /\ X + WlkReach # n /\ d # WlkPad ->
                                    WlkSplice(wlkKnown[z], X + WlkReach, <<d>>, X + WlkReach + 1)
                             [] OTHER -> wlkKnown[z]
          BY <1>10
        <4>2. x2 + WlkReach > WlkW - 1 /\ ~(x2 + WlkReach <= WlkW - 1)
          BY <1>1, <1>4, <1>14
        <4> QED
          BY ONLY <1>11, <4>1, <4>2
      <3>2. /\ WlkRowKept(wlkKnown[z], off, n, WlkSplice(wlkKnown[z], n - 1, <<e2>>, (n - 1) + 1), off, n)
            /\ WlkHas(WlkSplice(wlkKnown[z], n - 1, <<e2>>, (n - 1) + 1), off, n, e2)
        <4>1. (n - 1) + 1 <= n
          BY <1>1
        <4> QED
          BY <1>1, <1>5, <1>9, <2>1, <4>1, WlkRowsColumn
      <3>3. WlkRowKept(wlkKnown[z], off, n, wlkKnown[z], off, n)
        BY <1>9, WlkRowStays
      <3> QED
        BY <2>1, <3>1, <3>2, <3>3
    <2> HIDE DEF Kept
    <2> QED
      BY <1>1, <1>13, <2>3
  <1>15. CASE x2 + WlkReach <= WlkW - 1 /\ X + WlkReach = n
    <2>1. e2 = off + n /\ n + 1 \in Nat /\ off + (n + 1) <= WlkW
      BY <1>1, <1>2, <1>4, <1>6, <1>15 DEF WlkEast
    <2>2. Kept(n + 1)
      <3> SUFFICES ASSUME NEW z \in 0 .. WlkH - 1
                   PROVE  /\ WlkRowKept(wlkKnown[z], off, n, L[z], off, n + 1)
                          /\ z \in rows => WlkHas(L[z], off, n + 1, e2)
        OBVIOUS
      <3>0. PICK c : c = IF z \in rows THEN e2 ELSE WlkPad
        OBVIOUS
      <3>1. L[z] = Append(wlkKnown[z], c)
        <4>1. PICK d : /\ d = IF z \in rows THEN e2 ELSE WlkPad
                       /\ L[z] = CASE x2 + WlkReach > WlkW - 1 /\ d # WlkPad -> WlkSplice(wlkKnown[z], n - 1, <<d>>, n)
                             [] x2 + WlkReach <= WlkW - 1 /\ X + WlkReach = n -> Append(wlkKnown[z], d)
                             [] x2 + WlkReach <= WlkW - 1 /\ X + WlkReach # n /\ d # WlkPad ->
                                    WlkSplice(wlkKnown[z], X + WlkReach, <<d>>, X + WlkReach + 1)
                             [] OTHER -> wlkKnown[z]
          BY <1>10
        <4>2. ~(x2 + WlkReach > WlkW - 1) /\ x2 + WlkReach <= WlkW - 1 /\ X + WlkReach = n
          BY <1>1, <1>4, <1>15
        <4> QED
          BY ONLY <1>11, <4>1, <4>2, <3>0
      <3>2. c \in Int /\ (c = WlkPad \/ c = off + n) /\ (z \in rows => c = e2)
        BY <1>5, <1>11, <2>1, <3>0
      <3>3. WlkRowKept(wlkKnown[z], off, n, L[z], off, n + 1) /\ (c = off + n => WlkHas(L[z], off, n + 1, c))
        BY <1>1, <1>9, <2>1, <3>1, <3>2, WlkRowRight
      <3> QED
        BY <2>1, <3>2, <3>3
    <2> HIDE DEF Kept
    <2> QED
      BY <1>13, <2>1, <2>2
  <1>16. CASE x2 + WlkReach <= WlkW - 1 /\ X + WlkReach # n
    <2>1. e2 = x2 + WlkReach /\ e = e2 - 1
      BY <1>1, <1>2, <1>4, <1>16 DEF WlkEast
    <2>2. PICK from : from = X + WlkReach /\ from \in Nat /\ from = e2 - off /\ from + 1 <= n
      <3>1. X + WlkReach = e2 - off /\ e2 - off \in 1 .. n
        BY <1>1, <1>3, <1>4, <1>6, <2>1
      <3> QED
        BY <1>1, <1>16, <3>1
    <2>4. Kept(n)
      <3> SUFFICES ASSUME NEW z \in 0 .. WlkH - 1
                   PROVE  /\ WlkRowKept(wlkKnown[z], off, n, L[z], off, n)
                          /\ z \in rows => WlkHas(L[z], off, n, e2)
        OBVIOUS
      <3>1. L[z] = IF z \in rows THEN WlkSplice(wlkKnown[z], from, <<e2>>, from + 1) ELSE wlkKnown[z]
        <4>1. PICK d : /\ d = IF z \in rows THEN e2 ELSE WlkPad
                       /\ L[z] = CASE x2 + WlkReach > WlkW - 1 /\ d # WlkPad -> WlkSplice(wlkKnown[z], n - 1, <<d>>, n)
                             [] x2 + WlkReach <= WlkW - 1 /\ X + WlkReach = n -> Append(wlkKnown[z], d)
                             [] x2 + WlkReach <= WlkW - 1 /\ X + WlkReach # n /\ d # WlkPad ->
                                    WlkSplice(wlkKnown[z], X + WlkReach, <<d>>, X + WlkReach + 1)
                             [] OTHER -> wlkKnown[z]
          BY <1>10
        <4>2. ~(x2 + WlkReach > WlkW - 1) /\ x2 + WlkReach <= WlkW - 1 /\ X + WlkReach # n
          BY <1>1, <1>4, <1>16
        <4> QED
          BY ONLY <1>11, <4>1, <4>2, <2>2
      <3>2. /\ WlkRowKept(wlkKnown[z], off, n, WlkSplice(wlkKnown[z], from, <<e2>>, from + 1), off, n)
            /\ WlkHas(WlkSplice(wlkKnown[z], from, <<e2>>, from + 1), off, n, e2)
        BY <1>1, <1>5, <1>9, <2>2, WlkRowsColumn
      <3>3. WlkRowKept(wlkKnown[z], off, n, wlkKnown[z], off, n)
        BY <1>9, WlkRowStays
      <3> QED
        BY <3>1, <3>2, <3>3
    <2> HIDE DEF Kept
    <2> QED
      BY <1>1, <1>13, <2>4
  <1> QED
    BY <1>1, <1>4, <1>14, <1>15, <1>16

\* A cell within the border, by its row and column.
LEMMA WlkInsideIs ==
    ASSUME NEW p, WlkInside(p)
    PROVE  \E y, x : p = <<y, x>> /\ y \in 1 .. WlkH - 2 /\ x \in 1 .. WlkW - 2 /\ p \in MapPlane
  BY WlkSizesAssumption DEF WlkInside, MapPlane

\* The map after the step m of the player to p.
WlkDraw(m, x, p) ==
    CASE m = "W" -> WlkDrawRow(WlkMost(0, p[1] - WlkReach), x, p)
      [] m = "S" -> WlkDrawRow(WlkLeast(WlkH - 1, p[1] + WlkReach), x, p)
      [] m = "A" -> WlkDrawLeft(x, p)
      [] m = "D" -> WlkDrawRight(x, p)

\* Each step draws what has come into view.
LEMMA WlkDrawnStep ==
    ASSUME NEW off, NEW n, WlkDrawn(wlkKnown, off, n), NEW p, WlkInside(p), WlkSees(wlkKnown, off, n, p),
           NEW m \in MapMoves, NEW p2, p2 = WlkStep(p, m), WlkInside(p2), NEW X, X = p2[2] - off
    PROVE  \E n2 : WlkGrown(off, n, WlkDraw(m, X, p2), off - WlkShift(m, X, p2), n2, p2)
  <1>1. PICK y, x : p = <<y, x>> /\ y \in 1 .. WlkH - 2 /\ x \in 1 .. WlkW - 2
    BY WlkInsideIs
  <1>2. PICK y2, x2 : p2 = <<y2, x2>> /\ y2 \in 1 .. WlkH - 2 /\ x2 \in 1 .. WlkW - 2
    BY WlkInsideIs
  <1>3. X = x2 - off /\ p2[1] = y2
    BY <1>2
  <1>4. off \in Nat /\ WlkReach \in Nat /\ WlkH \in Nat /\ y2 \in Nat
    BY <1>2, WlkSizesAssumption, WlkReachAssumption DEF WlkDrawn
  <1>5. m # "A" => off - WlkShift(m, X, p2) = off
    BY <1>4 DEF WlkShift
  <1>6. CASE m = "W"
    <2>1. y2 = y - 1 /\ x2 = x
      <3>1. p2 = WlkStep(<<y, x>>, "W")
        BY <1>1, <1>6
      <3>2. <<y2, x2>> = <<y - 1, x>>
        BY <1>2, <3>1, WlkStepIs
      <3> QED
        BY ONLY <3>2
    <2>2. WlkMost(0, y2 - WlkReach) = WlkTop(y2)
      BY <1>4 DEF WlkMost, WlkTop
    <2>3. WlkDraw(m, X, p2) = WlkDrawRow(WlkTop(y2), x - off, <<y2, x>>)
      BY <1>2, <1>3, <1>6, <2>1, <2>2 DEF WlkDraw
    <2>4. WlkGrown(off, n, WlkDraw(m, X, p2), off, n, <<y2, x>>)
      BY <1>1, <1>2, <2>1, <2>3, WlkDrawnRow
    <2> QED
      BY <1>2, <1>5, <1>6, <2>1, <2>4
  <1>7. CASE m = "S"
    <2>1. y2 = y + 1 /\ x2 = x
      <3>1. p2 = WlkStep(<<y, x>>, "S")
        BY <1>1, <1>7
      <3>2. <<y2, x2>> = <<y + 1, x>>
        BY <1>2, <3>1, WlkStepIs
      <3> QED
        BY ONLY <3>2
    <2>2. WlkLeast(WlkH - 1, y2 + WlkReach) = WlkBottom(y2)
      BY <1>4 DEF WlkLeast, WlkBottom
    <2>3. WlkDraw(m, X, p2) = WlkDrawRow(WlkBottom(y2), x - off, <<y2, x>>)
      BY <1>2, <1>3, <1>7, <2>1, <2>2 DEF WlkDraw
    <2>4. WlkGrown(off, n, WlkDraw(m, X, p2), off, n, <<y2, x>>)
      BY <1>1, <1>2, <2>1, <2>3, WlkDrawnRow
    <2> QED
      BY <1>2, <1>5, <1>7, <2>1, <2>4
  <1>8. CASE m = "A"
    <2>1. y2 = y /\ x2 = x - 1
      <3>1. p2 = WlkStep(<<y, x>>, "A")
        BY <1>1, <1>8
      <3>2. <<y2, x2>> = <<y, x - 1>>
        BY <1>2, <3>1, WlkStepIs
      <3> QED
        BY ONLY <3>2
    <2>2. WlkDraw(m, X, p2) = WlkDrawLeft(x2 - off, <<y, x2>>)
      BY <1>2, <1>3, <1>8, <2>1 DEF WlkDraw
    <2>3. off - WlkShift(m, X, p2) = off - WlkShift("A", x2 - off, <<y, x2>>)
      BY <1>2, <1>3, <1>8, <2>1
    <2>4. \E n2 : WlkGrown(off, n, WlkDraw(m, X, p2), off - WlkShift(m, X, p2), n2, <<y, x2>>)
      BY <1>1, <1>2, <2>1, <2>2, <2>3, WlkDrawnLeft
    <2> QED
      BY <1>2, <2>1, <2>4
  <1>9. CASE m = "D"
    <2>1. y2 = y /\ x2 = x + 1
      <3>1. p2 = WlkStep(<<y, x>>, "D")
        BY <1>1, <1>9
      <3>2. <<y2, x2>> = <<y, x + 1>>
        BY <1>2, <3>1, WlkStepIs
      <3> QED
        BY ONLY <3>2
    <2>2. WlkDraw(m, X, p2) = WlkDrawRight(x2 - off, <<y, x2>>)
      BY <1>2, <1>3, <1>9, <2>1 DEF WlkDraw
    <2>4. \E n2 : WlkGrown(off, n, WlkDraw(m, X, p2), off, n2, <<y, x2>>)
      BY <1>1, <1>2, <2>1, <2>2, WlkDrawnRight
    <2> QED
      BY <1>2, <1>5, <1>9, <2>1, <2>4
  <1> QED
    BY <1>6, <1>7, <1>8, <1>9 DEF MapMoves

\* The map after a step is a map of the maze, and still shows every window that it showed.
LEMMA WlkGrownShows ==
    ASSUME NEW off, NEW n, NEW L, NEW off2, NEW n2, NEW p, WlkGrown(off, n, L, off2, n2, p)
    PROVE  /\ WlkDrawn(L, off2, n2) /\ WlkSees(L, off2, n2, p)
           /\ \A q : WlkInside(q) /\ WlkSees(wlkKnown, off, n, q) => WlkSees(L, off2, n2, q)
  <1>1. WlkDrawn(L, off2, n2) /\ WlkSees(L, off2, n2, p)
    BY DEF WlkGrown, WlkDrawn, WlkRowKept
  <1>2. ASSUME NEW q, WlkInside(q), WlkSees(wlkKnown, off, n, q) PROVE WlkSees(L, off2, n2, q)
    <2>1. PICK y, x : q = <<y, x>> /\ y \in 1 .. WlkH - 2 /\ x \in 1 .. WlkW - 2
      BY <1>2, WlkInsideIs
    <2>2. PICK w, e, t, b : /\ w = WlkWest(x) /\ e = WlkEast(x) /\ t = WlkTop(y) /\ b = WlkBottom(y)
      OBVIOUS
    <2>3. /\ WlkH \in Nat /\ WlkW \in Nat /\ w \in 0 .. x - 1 /\ e \in x + 1 .. WlkW - 1
          /\ t \in 0 .. y - 1 /\ b \in y + 1 .. WlkH - 1 /\ y \in Int /\ x \in Int
      BY <2>1, <2>2, WlkWindowBounds, WlkSizesAssumption
    <2>4. t .. b \subseteq 0 .. WlkH - 1 /\ w .. e \subseteq Int
      BY <2>3
    <2> SUFFICES ASSUME NEW z \in t .. b, NEW c \in w .. e PROVE WlkHas(L[z], off2, n2, c)
      BY <2>1, <2>2, WlkWindowIs DEF WlkSees
    <2>5. WlkHas(wlkKnown[z], off, n, c)
      BY <1>2, <2>1, <2>2, WlkWindowIs DEF WlkSees
    <2> QED
      BY <2>4, <2>5 DEF WlkGrown, WlkRowKept
  <1> QED
    BY <1>1, <1>2

\* What the client takes a cell of the map for, next to a cell whose window it has seen
\* from where it stands, is what it is.
LEMMA WlkColIs ==
    ASSUME NEW off, NEW n, off \in Nat, n \in Nat, NEW p, WlkSees(wlkKnown, off, n, p),
           NEW y, y \in WlkRows(p), NEW x, x \in WlkFirst(p) .. WlkFinal(p), x \in Int,
           \A z \in WlkRows(p) : Len(wlkKnown[z]) = n /\ wlkKnown[z] \in Seq(Int)
    PROVE  WlkCol(<<y, x - off>>) = x
  <1>1. WlkHas(wlkKnown[y], off, n, x) /\ DOMAIN wlkKnown[y] = 1 .. n
    BY DEF WlkSees
  <1>2. x - off + 1 \in 1 .. n /\ wlkKnown[y][x - off + 1] = x
    BY <1>1 DEF WlkHas
  <1>3. PICK d : d = x - off
    OBVIOUS
  <1>4. <<y, d>>[1] = y /\ <<y, d>>[2] = d
    OBVIOUS
  <1> QED
    BY ONLY <1>1, <1>2, <1>3, <1>4 DEF WlkCol

\* The new moves of the walk.
LEMMA WlkFreshMovesAre ==
    ASSUME NEW p, NEW s, s = WlkFreshMoves(p)
    PROVE  s \in Seq(MapMoves) /\ {s[i] : i \in 1 .. Len(s)} = {m \in MapMoves : WlkFresh(p, m)}
  <1>1. PICK G : G = {m \in MapMoves : WlkFresh(p, m)}
    OBVIOUS
  <1>2. MapOrders(WlkMoves)
    BY DEF MapOrders, WlkMoves, MapMoves
  <1>3. s = MapPicked(WlkMoves, G)
    <2>1. \A i \in 1 .. 4 : WlkFresh(p, WlkMoves[i]) <=> WlkMoves[i] \in G
      BY <1>1, <1>2 DEF MapOrders
    <2> QED
      BY <2>1 DEF WlkFreshMoves, MapPicked
  <1>4. G \subseteq MapMoves
    BY <1>1
  <1>5. MapHolds(s, G)
    BY ONLY <1>2, <1>3, <1>4, MapMovesOf
  <1> QED
    BY <1>1, <1>5 DEF MapHolds

\* The n moves all lead on, along u.
WlkAlong(u, p, moves, n) ==
    /\ n = Len(moves) /\ n \in Nat /\ u = [i \in 0 .. n |-> u[i]] /\ u[0] = p
    /\ \A i \in 1 .. n : u[i] = WlkStep(u[i - 1], moves[i]) /\ u[i] \in wlkOpen

\* Moves that all lead to open cells take the player along.
LEMMA WlkGoIs ==
    ASSUME NEW p, NEW moves, NEW n, NEW u, WlkAlong(u, p, moves, n)
    PROVE  WlkGo(p, moves) = u[n]
  <1>0. /\ n = Len(moves) /\ n \in Nat /\ u = [i \in 0 .. n |-> u[i]] /\ u[0] = p
        /\ \A i \in 1 .. n : u[i] = WlkStep(u[i - 1], moves[i]) /\ u[i] \in wlkOpen
    BY DEF WlkAlong
  <1> DEFINE F(f) == [i \in 0 .. Len(moves) |->
                        IF i = 0 THEN p
                        ELSE LET from == f[i - 1]
                                 to == WlkStep(from, moves[i])
                             IN  IF to \in wlkOpen THEN to ELSE from]
  <1>1. PICK h : h = (CHOOSE f : f = F(f)) /\ WlkGo(p, moves) = h[n]
    BY <1>0 DEF WlkGo
  <1>2. u = F(u)
    <2>1. \A i \in 0 .. n : i # 0 => i \in 1 .. n
      OBVIOUS
    <2>2. \A i \in 0 .. n : u[i] = F(u)[i]
      BY <1>0, <2>1
    <2>3. F(u) = [i \in 0 .. n |-> F(u)[i]]
      BY <1>0
    <2> HIDE DEF F
    <2> QED
      BY <1>0, <2>2, <2>3
  <1>3. h = F(h)
    <2> HIDE DEF F
    <2> QED
      BY <1>1, <1>2
  <1> DEFINE bad == {i \in 0 .. n : h[i] # u[i]}
  <1>4. bad = {}
    <2> SUFFICES ASSUME bad # {} PROVE FALSE
      OBVIOUS
    <2>1. PICK k \in bad : \A j \in bad : k <= j
      <3>1. bad \subseteq Nat /\ bad # {}
        BY <1>0
      <3> HIDE DEF bad
      <3> QED
        BY ONLY <3>1, LeastElement
    <2>2. k \in 0 .. n /\ h[k] # u[k]
      BY <1>0, <2>1
    <2>3. h[k] = F(h)[k] /\ u[k] = F(u)[k]
      BY <1>2, <1>3
    <2>4. F(h)[0] = p /\ F(u)[0] = p
      BY <1>0
    <2>5. k # 0
      <3> HIDE DEF F
      <3> QED
        BY <2>2, <2>3, <2>4
    <2>6. k - 1 \in 0 .. n /\ ~(k <= k - 1)
      BY <1>0, <2>2, <2>5
    <2>7. h[k - 1] = u[k - 1]
      BY <2>1, <2>6
    <2>8. F(h)[k] = F(u)[k]
      BY <1>0, <2>2, <2>5, <2>7
    <2> HIDE DEF F
    <2> QED
      BY <2>2, <2>3, <2>8
  <1>5. n \in 0 .. n
    BY <1>0
  <1> QED
    BY <1>1, <1>4, <1>5

\* t leads from cell to cell along a path.
WlkLed(t, path) ==
    /\ path \in Seq(MapMoves)
    /\ \A i \in 0 .. Len(path) : t[i] \in wlkOpen /\ WlkInside(t[i])
    /\ \A i \in 1 .. Len(path) : t[i] = WlkStep(t[i - 1], path[i])

\* One step takes the player to the end of a path.
LEMMA WlkGoOne ==
    ASSUME NEW p, NEW m, NEW q, q = WlkStep(p, m), q \in wlkOpen
    PROVE  WlkGo(p, <<m>>) = q
  <1>1. PICK moves : moves = <<m>> /\ Len(moves) = 1 /\ moves[1] = m
    <2>1. Len(<<m>>) = 1 /\ <<m>>[1] = m
      OBVIOUS
    <2> QED
      BY ONLY <2>1
  <1>2. PICK u : u = [i \in 0 .. 1 |-> IF i = 0 THEN p ELSE q]
    OBVIOUS
  <1>3. u[0] = p /\ u[1] = q /\ u = [i \in 0 .. 1 |-> u[i]]
    BY <1>2
  <1>4. \A i \in 1 .. 1 : u[i] = WlkStep(u[i - 1], moves[i]) /\ u[i] \in wlkOpen
    <2>1. \A i \in 1 .. 1 : i = 1 /\ i - 1 = 0
      OBVIOUS
    <2> QED
      BY <1>1, <1>3, <2>1
  <1>5. WlkGo(p, moves) = u[1]
    <2>1. WlkAlong(u, p, moves, 1)
      BY ONLY <1>1, <1>3, <1>4 DEF WlkAlong
    <2> QED
      BY <2>1, WlkGoIs
  <1> QED
    BY <1>1, <1>3, <1>5

\* get_reverse_path() leads from where a dead end was entered back to where the
\* parent was.
LEMMA WlkGoBack ==
    ASSUME NEW t, NEW path, WlkLed(t, path), NEW L, L = Len(path), NEW parent, NEW k, k = Len(parent),
           k \in 1 .. L
    PROVE  WlkGo(t[L - 1], WlkReversePath(WlkFront(path), parent)) = t[k - 1]
  <1>1. L \in Nat /\ k \in Nat /\ 1 <= k /\ k <= L /\ \A i \in 1 .. L : path[i] \in MapMoves
    BY ElementOfSeq DEF WlkLed
  <1>2. PICK front : front = WlkFront(path) /\ Len(front) = L - 1 /\ \A i \in 1 .. L - 1 : front[i] = path[i]
    <2>1. \A i \in 1 .. L - 1 : path[i] \in MapMoves
      BY <1>1
    <2>2. /\ Len(SubSeq(path, 1, L - 1)) = IF 1 <= L - 1 THEN (L - 1) - 1 + 1 ELSE 0
          /\ \A i \in 1 .. (L - 1) - 1 + 1 : SubSeq(path, 1, L - 1)[i] = path[1 + i - 1]
      BY <1>1, <2>1, SubSeqProperties
    <2>3. (IF 1 <= L - 1 THEN (L - 1) - 1 + 1 ELSE 0) = L - 1 /\ (L - 1) - 1 + 1 = L - 1
      BY <1>1
    <2>4. \A i \in 1 .. L - 1 : 1 + i - 1 = i
      BY <1>1
    <2>5. Len(SubSeq(path, 1, L - 1)) = L - 1
      BY ONLY <2>2, <2>3
    <2>6. \A i \in 1 .. L - 1 : SubSeq(path, 1, L - 1)[i] = path[i]
      BY <2>2, <2>3, <2>4
    <2> QED
      BY <2>5, <2>6 DEF WlkFront
  <1>3. PICK up : /\ up = SubSeq(front, k, L - 1) /\ Len(up) = L - k
                  /\ \A i \in 1 .. L - k : up[i] = path[k + i - 1]
    <2>1. \A i \in k .. L - 1 : i \in 1 .. L - 1 /\ front[i] \in MapMoves
      BY <1>1, <1>2
    <2>2. /\ Len(SubSeq(front, k, L - 1)) = IF k <= L - 1 THEN (L - 1) - k + 1 ELSE 0
          /\ \A i \in 1 .. (L - 1) - k + 1 : SubSeq(front, k, L - 1)[i] = front[k + i - 1]
      BY <1>1, <2>1, SubSeqProperties
    <2>3. (IF k <= L - 1 THEN (L - 1) - k + 1 ELSE 0) = L - k /\ (L - 1) - k + 1 = L - k
      BY <1>1
    <2>4. \A i \in 1 .. L - k : k + i - 1 \in 1 .. L - 1
      BY <1>1
    <2>5. Len(SubSeq(front, k, L - 1)) = L - k
      BY ONLY <2>2, <2>3
    <2>6. \A i \in 1 .. L - k : SubSeq(front, k, L - 1)[i] = path[k + i - 1]
      BY <1>2, <2>2, <2>3, <2>4
    <2> QED
      BY <2>5, <2>6
  <1>4. PICK rev : rev = WlkReversePath(front, parent)
    OBVIOUS
  <1>5. rev = [i \in 1 .. L - k |-> WlkOpposite(up[(L - k) - i + 1])]
    BY <1>2, <1>3, <1>4 DEF WlkReversePath
  <1>6. Len(rev) = L - k /\ L - k \in Nat
    BY <1>1, <1>5
  <1>7. \A i \in 1 .. L - k : rev[i] = WlkOpposite(path[L - i])
    <2> SUFFICES ASSUME NEW i \in 1 .. L - k PROVE rev[i] = WlkOpposite(path[L - i])
      OBVIOUS
    <2>1. (L - k) - i + 1 \in 1 .. L - k /\ k + ((L - k) - i + 1) - 1 = L - i
      BY <1>1
    <2> QED
      BY <1>3, <1>5, <2>1
  <1> DEFINE u == [i \in 0 .. L - k |-> t[(L - 1) - i]]
  <1>8. u[0] = t[L - 1] /\ u[L - k] = t[k - 1]
    BY <1>1
  <1>9. ASSUME NEW i \in 1 .. L - k PROVE u[i] = WlkStep(u[i - 1], rev[i]) /\ u[i] \in wlkOpen
    <2>1. PICK j : j = L - i /\ j \in 1 .. L /\ (L - 1) - i = j - 1 /\ (L - 1) - (i - 1) = j /\ j - 1 \in 0 .. L
      BY <1>1
    <2>2. i \in 0 .. L - k /\ i - 1 \in 0 .. L - k
      BY <1>1
    <2>3. u[i] = t[j - 1] /\ u[i - 1] = t[j]
      BY <2>1, <2>2
    <2>4. t[j] = WlkStep(t[j - 1], path[j]) /\ t[j - 1] \in wlkOpen /\ WlkInside(t[j - 1])
      BY <2>1 DEF WlkLed
    <2>5. t[j - 1] \in MapPlane /\ path[j] \in MapMoves
      BY <1>1, <2>1, <2>4, WlkInsideIs
    <2>6. WlkStep(t[j], WlkOpposite(path[j])) = t[j - 1]
      BY <2>4, <2>5, WlkStepBack
    <2>7. rev[i] = WlkOpposite(path[j])
      BY <1>7, <2>1
    <2> HIDE DEF u
    <2> QED
      BY <2>3, <2>4, <2>6, <2>7
  <1>10. u = [i \in 0 .. L - k |-> u[i]]
    OBVIOUS
  <1> HIDE DEF u
  <1>11. WlkGo(t[L - 1], rev) = u[L - k]
    <2>1. PICK n, p : n = L - k /\ p = t[L - 1]
      OBVIOUS
    <2>2. WlkAlong(u, p, rev, n)
      BY <1>6, <1>8, <1>9, <1>10, <2>1 DEF WlkAlong
    <2>3. WlkGo(p, rev) = u[n]
      BY <2>2, WlkGoIs
    <2> QED
      BY <2>1, <2>3
  <1> QED
    BY <1>2, <1>4, <1>8, <1>11

\* What may be in q.
WlkEntries == [at : MapPlane, path : Seq(MapMoves)]

\* Where the last move of a path begins.
WlkFrom(t, path) == t[IF Len(path) = 0 THEN 0 ELSE Len(path) - 1]

\* An entry of q: its path leads along t to its cell, the window around the cell
\* before is on the map, and E is not where the walk begins.
WlkEntryOk(e, t, off, n) ==
    /\ WlkLed(t, e.path) /\ e.at = WlkMoved(t[Len(e.path)], off)
    /\ WlkSees(wlkKnown, off, n, WlkFrom(t, e.path))
    /\ Len(e.path) = 0 => t[0] # wlkEnd

\* The path of an entry branches off from below the parent of the entry before.
WlkLinked(path, t, path2, t2) ==
    /\ Len(path) >= 1 /\ Len(path) <= Len(path2)
    /\ t2[Len(path) - 1] = t[Len(path) - 1]

\* E is not here, and all around is visited.
WlkDone(v, V) == v # wlkEnd /\ \A m \in MapMoves : WlkStep(v, m) \in wlkOpen => WlkStep(v, m) \in V

\* The stack: T has where the paths lead; the player stands where the last move
\* of the top entry begins.
WlkStackOk(T, off, n) ==
    /\ wlkQ \in Seq(WlkEntries)
    /\ \A i \in 1 .. Len(wlkQ) : WlkEntryOk(wlkQ[i], T[i], off, n)
    /\ \A i \in 1 .. Len(wlkQ) - 1 : WlkLinked(wlkQ[i].path, T[i], wlkQ[i + 1].path, T[i + 1])
    /\ wlkQ # <<>> => wlkAt = WlkFrom(T[Len(wlkQ)], wlkQ[Len(wlkQ)].path)

\* V has the visited cells as the maze has them; q has the border of V.
WlkVisited(T, off, V) ==
    /\ V \subseteq wlkOpen /\ wlkAt \in V /\ wlkVisit = {WlkMoved(v, off) : v \in V}
    /\ \A i \in 1 .. Len(wlkQ), j \in Nat : j <= Len(wlkQ[i].path) => T[i][j] \in V
    /\ \A v \in V : \/ \E i \in 1 .. Len(wlkQ) : T[i][Len(wlkQ[i].path)] = v
                    \/ WlkDone(v, V)

\* The walk: the maze, the map drawn from column off on, the stack and the visited cells.
WlkWalk(T, off, n, V) ==
    /\ wlkOpen \subseteq {p \in MapPlane : WlkInside(p)} /\ wlkEnd \in wlkOpen
    /\ WlkDrawn(wlkKnown, off, n)
    /\ WlkStackOk(T, off, n)
    /\ WlkVisited(T, off, V)

\* Two cells moved alike are one only when they were one.
LEMMA WlkMovedIs ==
    ASSUME NEW p \in MapPlane, NEW q \in MapPlane, NEW d \in Int, WlkMoved(p, d) = WlkMoved(q, d)
    PROVE  p = q
  <1>1. PICK y \in Int, x \in Int : p = <<y, x>>
    BY DEF MapPlane
  <1>2. PICK b \in Int, a \in Int : q = <<b, a>>
    BY DEF MapPlane
  <1>3. <<y, x - d>> = <<b, a - d>>
    BY <1>1, <1>2 DEF WlkMoved
  <1>4. y = b /\ x - d = a - d
    BY ONLY <1>3
  <1>5. x = a
    BY ONLY <1>4, x \in Int, a \in Int, d \in Int
  <1> QED
    BY <1>1, <1>2, <1>4, <1>5

\* The cell itself or a neighbour.
WlkNear(p, q) == q = p \/ \E m \in MapMoves : q = WlkStep(p, m)

\* The cell itself and its neighbours, by row and column.
LEMMA WlkNearIs ==
    ASSUME NEW y \in Int, NEW x \in Int, NEW q, WlkNear(<<y, x>>, q)
    PROVE  \E b, a : /\ q = <<b, a>> /\ b \in Int /\ a \in Int
                     /\ y - 1 <= b /\ b <= y + 1 /\ x - 1 <= a /\ a <= x + 1
  <1>1. \/ q = <<y, x>> \/ q = <<y - 1, x>> \/ q = <<y + 1, x>> \/ q = <<y, x - 1>> \/ q = <<y, x + 1>>
    <2>1. CASE q = <<y, x>>
      BY <2>1
    <2>2. CASE \E m \in MapMoves : q = WlkStep(<<y, x>>, m)
      BY <2>2, WlkStepIs DEF MapMoves
    <2> QED
      BY <2>1, <2>2 DEF WlkNear
  <1> QED
    BY <1>1

\* Two steps away from a cell whose window is on the map, the map shows the maze.
LEMMA WlkColNear ==
    ASSUME NEW off, NEW n, WlkDrawn(wlkKnown, off, n), NEW p, WlkInside(p), WlkSees(wlkKnown, off, n, p),
           NEW c, WlkInside(c), WlkNear(p, c), NEW q, WlkNear(c, q)
    PROVE  <<WlkMoved(q, off)[1], WlkCol(WlkMoved(q, off))>> = q /\ q \in MapPlane
  <1>1. PICK y, x : p = <<y, x>> /\ y \in 1 .. WlkH - 2 /\ x \in 1 .. WlkW - 2
    BY WlkInsideIs
  <1>2. PICK b, a : c = <<b, a>> /\ b \in 1 .. WlkH - 2 /\ a \in 1 .. WlkW - 2
    BY WlkInsideIs
  <1>3. /\ WlkH \in Nat /\ WlkW \in Nat /\ off \in Nat /\ n \in Nat /\ WlkReach \in Nat /\ WlkReach >= 2
        /\ y \in Int /\ x \in Int /\ b \in Int /\ a \in Int
    BY <1>1, <1>2, WlkSizesAssumption, WlkReachAssumption DEF WlkDrawn
  <1>4. y - 1 <= b /\ b <= y + 1 /\ x - 1 <= a /\ a <= x + 1
    <2>1. PICK s, r : c = <<s, r>> /\ y - 1 <= s /\ s <= y + 1 /\ x - 1 <= r /\ r <= x + 1
      BY <1>1, <1>3, WlkNearIs
    <2>2. <<s, r>> = <<b, a>>
      BY <1>2, <2>1
    <2>3. s = b /\ r = a
      BY ONLY <2>2
    <2> QED
      BY <2>1, <2>3
  <1>5. PICK s, r : /\ q = <<s, r>> /\ s \in Int /\ r \in Int
                    /\ b - 1 <= s /\ s <= b + 1 /\ a - 1 <= r /\ r <= a + 1
    BY <1>2, <1>3, WlkNearIs
  <1>6. s \in WlkTop(y) .. WlkBottom(y) /\ r \in WlkWest(x) .. WlkEast(x)
    <2>1. s >= 0 /\ s <= WlkH - 1 /\ s >= y - WlkReach /\ s <= y + WlkReach
      BY <1>2, <1>3, <1>4, <1>5
    <2>2. r >= 0 /\ r <= WlkW - 1 /\ r >= x - WlkReach /\ r <= x + WlkReach
      BY <1>2, <1>3, <1>4, <1>5
    <2> QED
      BY <1>3, <1>5, <2>1, <2>2 DEF WlkTop, WlkBottom, WlkWest, WlkEast
  <1>7. s \in WlkRows(p) /\ r \in WlkFirst(p) .. WlkFinal(p)
    BY <1>1, <1>6, WlkWindowIs
  <1>8. \A z \in WlkRows(p) : Len(wlkKnown[z]) = n /\ wlkKnown[z] \in Seq(Int)
    <2>1. WlkTop(y) \in 0 .. y - 1 /\ WlkBottom(y) \in y + 1 .. WlkH - 1
      BY <1>1, WlkWindowBounds
    <2>2. WlkRows(p) \subseteq 0 .. WlkH - 1
      BY <1>1, <1>3, <2>1, WlkWindowIs
    <2> QED
      BY <2>2 DEF WlkDrawn, WlkRowOk
  <1>9. WlkCol(<<s, r - off>>) = r
    BY <1>3, <1>5, <1>7, <1>8, WlkColIs
  <1>10. WlkMoved(q, off) = <<s, r - off>> /\ WlkMoved(q, off)[1] = s
    BY <1>5 DEF WlkMoved
  <1> QED
    BY <1>5, <1>9, <1>10 DEF MapPlane

\* The top entry e of q, its trace t, its cell c.
WlkTop3(T, k, e, t, L, c) ==
    /\ k = Len(wlkQ) /\ k \in Nat /\ k >= 1 /\ e = wlkQ[k] /\ t = T[k] /\ L = Len(e.path) /\ L \in Nat /\ c = t[L]
    /\ e = WlkLast(wlkQ) /\ e \in WlkEntries

\* What the client may do next: the moves to open cells not visited yet.
WlkNew(c, V) == {m \in MapMoves : WlkStep(c, m) \in wlkOpen /\ WlkStep(c, m) \notin V}

\* While q is not empty it has a top entry.
LEMMA WlkTopIs ==
    ASSUME NEW T, NEW off, NEW n, NEW V, WlkWalk(T, off, n, V), wlkQ # <<>>
    PROVE  \E k, e, t, L, c : WlkTop3(T, k, e, t, L, c)
  <1>1. wlkQ \in Seq(WlkEntries)
    BY DEF WlkWalk, WlkStackOk
  <1>2. Len(wlkQ) \in Nat /\ Len(wlkQ) >= 1 /\ wlkQ[Len(wlkQ)] \in WlkEntries
    BY <1>1
  <1>3. Len(wlkQ[Len(wlkQ)].path) \in Nat
    BY <1>2 DEF WlkEntries
  <1> QED
    BY <1>2, <1>3 DEF WlkTop3, WlkLast

\* The facts about the top entry.
LEMMA WlkTopFacts ==
    ASSUME NEW T, NEW off, NEW n, NEW V, WlkWalk(T, off, n, V), NEW k, NEW e, NEW t, NEW L, NEW c,
           WlkTop3(T, k, e, t, L, c)
    PROVE  /\ WlkEntryOk(e, t, off, n) /\ c \in wlkOpen /\ c \in MapPlane /\ WlkInside(c) /\ e.at = WlkMoved(c, off)
           /\ wlkAt = WlkFrom(t, e.path) /\ WlkInside(wlkAt) /\ WlkNear(wlkAt, c)
           /\ WlkSees(wlkKnown, off, n, wlkAt)
           /\ L >= 1 => wlkAt = t[L - 1] /\ c = WlkStep(wlkAt, e.path[L]) /\ e.path[L] \in MapMoves
           /\ L = 0 => k = 1 /\ wlkAt = c /\ c # wlkEnd
           /\ off \in Int /\ V \subseteq MapPlane
  <1>1. /\ k = Len(wlkQ) /\ k \in Nat /\ k >= 1 /\ e = wlkQ[k] /\ t = T[k] /\ L = Len(e.path) /\ L \in Nat
        /\ c = t[L] /\ e \in WlkEntries
    BY DEF WlkTop3
  <1>2. k \in 1 .. Len(wlkQ) /\ wlkQ # <<>>
    BY <1>1
  <1>3. WlkEntryOk(e, t, off, n) /\ wlkAt = WlkFrom(t, e.path)
    BY <1>1, <1>2 DEF WlkWalk, WlkStackOk
  <1>4. WlkLed(t, e.path) /\ e.at = WlkMoved(c, off) /\ WlkSees(wlkKnown, off, n, wlkAt)
    BY <1>1, <1>3 DEF WlkEntryOk
  <1>5. L \in 0 .. Len(e.path) /\ (L >= 1 => L - 1 \in 0 .. Len(e.path) /\ L \in 1 .. Len(e.path))
    BY <1>1
  <1>6. c \in wlkOpen /\ WlkInside(c) /\ c \in MapPlane
    BY <1>1, <1>4, <1>5 DEF WlkLed, WlkWalk
  <1>7. L >= 1 => wlkAt = t[L - 1] /\ c = WlkStep(wlkAt, e.path[L]) /\ e.path[L] \in MapMoves /\ WlkInside(wlkAt)
    <2> SUFFICES ASSUME L >= 1
                 PROVE  wlkAt = t[L - 1] /\ c = WlkStep(wlkAt, e.path[L]) /\ e.path[L] \in MapMoves /\ WlkInside(wlkAt)
      OBVIOUS
    <2>1. wlkAt = t[L - 1]
      BY <1>1, <1>3 DEF WlkFrom
    <2>2. e.path \in Seq(MapMoves)
      BY <1>4 DEF WlkLed
    <2>3. e.path[L] \in MapMoves
      BY <1>5, <2>2
    <2> QED
      BY <1>1, <1>4, <1>5, <2>1, <2>3 DEF WlkLed
  <1>8. L = 0 => k = 1 /\ wlkAt = c /\ c # wlkEnd
    <2> SUFFICES ASSUME L = 0 PROVE k = 1 /\ wlkAt = c /\ c # wlkEnd
      OBVIOUS
    <2>1. wlkAt = c /\ c # wlkEnd
      BY <1>1, <1>3 DEF WlkFrom, WlkEntryOk
    <2>2. k = 1
      <3> SUFFICES ASSUME k # 1 PROVE FALSE
        OBVIOUS
      <3>1. k - 1 \in 1 .. Len(wlkQ) - 1 /\ (k - 1) + 1 = k
        BY <1>1
      <3>2. WlkLinked(wlkQ[k - 1].path, T[k - 1], wlkQ[(k - 1) + 1].path, T[(k - 1) + 1])
        BY <3>1 DEF WlkWalk, WlkStackOk
      <3>3. wlkQ[k - 1] \in WlkEntries
        BY <3>1 DEF WlkWalk, WlkStackOk
      <3>4. Len(wlkQ[k - 1].path) \in Nat
        BY <3>3 DEF WlkEntries
      <3> QED
        BY <1>1, <3>1, <3>2, <3>4 DEF WlkLinked
    <2> QED
      BY <2>1, <2>2
  <1>9. WlkNear(wlkAt, c) /\ WlkInside(wlkAt)
    BY <1>1, <1>6, <1>7, <1>8 DEF WlkNear
  <1>10. off \in Int /\ V \subseteq MapPlane
    BY DEF WlkWalk, WlkDrawn, WlkVisited
  <1> QED
    BY <1>3, <1>4, <1>6, <1>7, <1>8, <1>9, <1>10

\* The client sees E where it is, and the moves that are new.
LEMMA WlkTopSeen ==
    ASSUME NEW T, NEW off, NEW n, NEW V, WlkWalk(T, off, n, V), NEW k, NEW e, NEW t, NEW L, NEW c,
           WlkTop3(T, k, e, t, L, c)
    PROVE  /\ WlkIsE(e.at) <=> c = wlkEnd
           /\ e.at[1] = c[1] /\ <<c[1], WlkCol(e.at)>> = c
           /\ \A m \in MapMoves : WlkFresh(e.at, m) <=> m \in WlkNew(c, V)
           /\ \A m \in MapMoves : WlkStep(e.at, m) = WlkMoved(WlkStep(c, m), off)
  <1>1. /\ c \in wlkOpen /\ c \in MapPlane /\ WlkInside(c) /\ e.at = WlkMoved(c, off)
        /\ WlkInside(wlkAt) /\ WlkNear(wlkAt, c) /\ WlkSees(wlkKnown, off, n, wlkAt)
        /\ off \in Int /\ V \subseteq MapPlane
    BY WlkTopFacts
  <1>2. WlkDrawn(wlkKnown, off, n) /\ wlkOpen \subseteq MapPlane /\ wlkVisit = {WlkMoved(v, off) : v \in V}
    BY DEF WlkWalk, WlkVisited
  <1>3. \A q : WlkNear(c, q) => <<WlkMoved(q, off)[1], WlkCol(WlkMoved(q, off))>> = q /\ q \in MapPlane
    BY <1>1, <1>2, WlkColNear
  <1>4. <<e.at[1], WlkCol(e.at)>> = c
    BY <1>1, <1>3 DEF WlkNear
  <1>5. e.at[1] = c[1]
    BY <1>1 DEF WlkMoved
  <1>6. WlkIsE(e.at) <=> c = wlkEnd
    BY <1>4 DEF WlkIsE
  <1>7. \A m \in MapMoves : WlkStep(e.at, m) = WlkMoved(WlkStep(c, m), off)
    BY <1>1, WlkStepMoved
  <1>8. ASSUME NEW m \in MapMoves PROVE WlkFresh(e.at, m) <=> m \in WlkNew(c, V)
    <2>1. PICK q : q = WlkStep(c, m)
      OBVIOUS
    <2>2. <<WlkMoved(q, off)[1], WlkCol(WlkMoved(q, off))>> = q /\ q \in MapPlane
      BY <1>3, <2>1 DEF WlkNear
    <2>3. WlkStep(e.at, m) = WlkMoved(q, off)
      BY <1>7, <2>1
    <2>4. WlkFree(WlkStep(e.at, m)) <=> q \in wlkOpen
      BY <2>2, <2>3 DEF WlkFree
    <2>5. WlkMoved(q, off) \in wlkVisit <=> q \in V
      <3>1. ASSUME WlkMoved(q, off) \in wlkVisit PROVE q \in V
        <4>1. PICK v \in V : WlkMoved(v, off) = WlkMoved(q, off)
          BY <1>2, <3>1
        <4>2. v = q
          BY <1>1, <2>2, <4>1, WlkMovedIs
        <4> QED
          BY <4>1, <4>2
      <3>2. ASSUME q \in V PROVE WlkMoved(q, off) \in wlkVisit
        BY <1>2, <3>2
      <3> QED
        BY <3>1, <3>2
    <2> QED
      BY <2>1, <2>3, <2>4, <2>5 DEF WlkFresh, WlkNew
  <1> QED
    BY <1>4, <1>5, <1>6, <1>7, <1>8

\* A path of L moves goes on to q.
WlkOn(t, L, q) == [j \in 0 .. L + 1 |-> IF j = L + 1 THEN q ELSE t[j]]

\* The trace that goes on is the old one, then q.
LEMMA WlkOnIs ==
    ASSUME NEW t, NEW L \in Nat, NEW q
    PROVE  /\ \A j \in 0 .. L : WlkOn(t, L, q)[j] = t[j]
           /\ WlkOn(t, L, q)[L + 1] = q
  <1>1. \A j \in 0 .. L : j \in 0 .. L + 1 /\ j # L + 1
    OBVIOUS
  <1>2. L + 1 \in 0 .. L + 1
    OBVIOUS
  <1> QED
    BY <1>1, <1>2 DEF WlkOn

\* u goes on from t, which has L moves, to q; its path is a.
WlkGoesOn(u, a, t, L, q) ==
    /\ WlkLed(u, a) /\ Len(a) = L + 1 /\ L \in Nat /\ WlkFrom(u, a) = t[L]
    /\ u[L + 1] = q /\ \A j \in 0 .. L : u[j] = t[j]

\* A path goes on with a move to an open cell.
LEMMA WlkLedOn ==
    ASSUME NEW t, NEW path, WlkLed(t, path), NEW L, L = Len(path), NEW m \in MapMoves,
           NEW q, q = WlkStep(t[L], m), q \in wlkOpen, WlkInside(q),
           NEW u, u = WlkOn(t, L, q), NEW a, a = Append(path, m)
    PROVE  WlkGoesOn(u, a, t, L, q)
  <1>1. /\ L \in Nat /\ a \in Seq(MapMoves) /\ Len(a) = L + 1
        /\ \A i \in 1 .. L : a[i] = path[i]
        /\ a[L + 1] = m
    BY AppendProperties DEF WlkLed
  <1>3. (\A j \in 0 .. L : u[j] = t[j]) /\ u[L + 1] = q
    BY <1>1, WlkOnIs
  <1>4. ASSUME NEW i \in 0 .. L + 1 PROVE u[i] \in wlkOpen /\ WlkInside(u[i])
    <2>1. CASE i = L + 1
      BY <1>3, <2>1
    <2>2. CASE i # L + 1
      <3>1. i \in 0 .. L
        BY <1>1, <2>2
      <3> QED
        BY <1>3, <3>1 DEF WlkLed
    <2> QED
      BY <2>1, <2>2
  <1>5. ASSUME NEW i \in 1 .. L + 1 PROVE u[i] = WlkStep(u[i - 1], a[i])
    <2>1. CASE i = L + 1
      <3>1. i - 1 = L /\ L \in 0 .. L
        BY <1>1, <2>1
      <3>2. u[i - 1] = t[L] /\ a[i] = m /\ u[i] = q
        BY <1>1, <1>3, <2>1, <3>1
      <3> QED
        BY <3>2
    <2>2. CASE i # L + 1
      <3>1. i \in 1 .. L /\ i \in 0 .. L /\ i - 1 \in 0 .. L
        BY <1>1, <2>2
      <3>2. u[i] = t[i] /\ u[i - 1] = t[i - 1] /\ a[i] = path[i]
        BY <1>1, <1>3, <3>1
      <3>3. t[i] = WlkStep(t[i - 1], path[i])
        BY <3>1 DEF WlkLed
      <3> QED
        BY <3>2, <3>3
    <2> QED
      BY <2>1, <2>2
  <1>6. WlkLed(u, a)
    BY <1>1, <1>4, <1>5 DEF WlkLed
  <1>7. WlkFrom(u, a) = t[L]
    <2>1. Len(a) = L + 1 /\ L + 1 # 0 /\ (L + 1) - 1 = L /\ L \in 0 .. L
      BY <1>1
    <2> QED
      BY <1>3, <2>1 DEF WlkFrom
  <1> QED
    BY <1>1, <1>3, <1>6, <1>7 DEF WlkGoesOn

\* q after the top entry is taken off and the moves next from it are pushed.
WlkPushed(T, k, e, c, next, Q2, off2) ==
    /\ Q2 \in Seq(WlkEntries) /\ Len(Q2) = (k - 1) + Len(next)
    /\ \A i \in 1 .. k - 1 : /\ Q2[i].path = wlkQ[i].path
                             /\ Q2[i].at = WlkMoved(T[i][Len(wlkQ[i].path)], off2)
    /\ \A j \in 1 .. Len(next) : /\ Q2[(k - 1) + j].path = Append(e.path, next[j])
                                 /\ Q2[(k - 1) + j].at = WlkMoved(WlkStep(c, next[j]), off2)

\* The traces after it.
WlkTraces(T, k, t, L, c, next) ==
    [i \in 1 .. (k - 1) + Len(next) |->
        IF i <= k - 1 THEN T[i] ELSE WlkOn(t, L, WlkStep(c, next[i - (k - 1)]))]

\* Entry i of T2 is an old one, or the one for next[j].
WlkSplit(T2, T, k, t, L, c, next, N) ==
    /\ \A i \in 1 .. k - 1 : T2[i] = T[i]
    /\ \A j \in 1 .. N : T2[(k - 1) + j] = WlkOn(t, L, WlkStep(c, next[j]))
    /\ \A i \in 1 .. (k - 1) + N : i \in 1 .. k - 1 \/ \E j \in 1 .. N : i = (k - 1) + j

\* The traces after a push: the old ones below the top, then the new ones.
LEMMA WlkTracesAre ==
    ASSUME NEW T, NEW k \in Nat, k >= 1, NEW t, NEW L, NEW c, NEW next, NEW N, N = Len(next), N \in Nat,
           NEW T2, T2 = WlkTraces(T, k, t, L, c, next)
    PROVE  WlkSplit(T2, T, k, t, L, c, next, N)
  <1>1. ASSUME NEW i \in 1 .. k - 1 PROVE T2[i] = T[i]
    <2>1. i \in 1 .. (k - 1) + N /\ i <= k - 1
      OBVIOUS
    <2> QED
      BY <2>1 DEF WlkTraces
  <1>2. ASSUME NEW j \in 1 .. N PROVE T2[(k - 1) + j] = WlkOn(t, L, WlkStep(c, next[j]))
    <2>1. PICK i : i = (k - 1) + j /\ i \in 1 .. (k - 1) + N /\ ~(i <= k - 1) /\ i - (k - 1) = j
      OBVIOUS
    <2> QED
      BY <2>1 DEF WlkTraces
  <1>3. ASSUME NEW i \in 1 .. (k - 1) + N PROVE i \in 1 .. k - 1 \/ \E j \in 1 .. N : i = (k - 1) + j
    <2>1. CASE i <= k - 1
      BY <2>1
    <2>2. CASE ~(i <= k - 1)
      <3>1. i - (k - 1) \in 1 .. N /\ i = (k - 1) + (i - (k - 1))
        BY <2>2
      <3> QED
        BY <3>1
    <2> QED
      BY <2>1, <2>2
  <1> QED
    BY <1>1, <1>2, <1>3 DEF WlkSplit

\* A turn that takes off the top entry and pushes the moves next from its cell.
WlkPush(T, off, n, V, k, e, t, L, c, next, off2, n2) ==
    /\ WlkWalk(T, off, n, V) /\ WlkTop3(T, k, e, t, L, c)
    /\ c # wlkEnd /\ MapHolds(next, WlkNew(c, V))
    /\ WlkPushed(T, k, e, c, next, wlkQ', off2)
    /\ wlkOpen' = wlkOpen /\ wlkEnd' = wlkEnd
    /\ WlkDrawn(wlkKnown', off2, n2)
    /\ \A q : WlkInside(q) /\ WlkSees(wlkKnown, off, n, q) => WlkSees(wlkKnown', off2, n2, q)
    /\ next # <<>> => WlkSees(wlkKnown', off2, n2, c) /\ wlkAt' = c
    /\ next = <<>> => wlkAt' = IF k = 1 THEN wlkAt ELSE T[k - 1][Len(wlkQ[k - 1].path) - 1]
    /\ wlkVisit' = {WlkMoved(v, off2) : v \in V \cup {WlkStep(c, m) : m \in WlkNew(c, V)}}

\* The new entries are right.
LEMMA WlkPushEntries ==
    ASSUME NEW T, NEW off, NEW n, NEW V, NEW k, NEW e, NEW t, NEW L, NEW c, NEW next, NEW off2, NEW n2,
           WlkPush(T, off, n, V, k, e, t, L, c, next, off2, n2),
           NEW T2, T2 = WlkTraces(T, k, t, L, c, next)
    PROVE  (\A i \in 1 .. Len(wlkQ) : WlkEntryOk(wlkQ[i], T2[i], off2, n2))'
  <1>1. /\ WlkWalk(T, off, n, V) /\ WlkTop3(T, k, e, t, L, c) /\ MapHolds(next, WlkNew(c, V))
        /\ WlkPushed(T, k, e, c, next, wlkQ', off2) /\ wlkOpen' = wlkOpen /\ wlkEnd' = wlkEnd
        /\ \A q : WlkInside(q) /\ WlkSees(wlkKnown, off, n, q) => WlkSees(wlkKnown', off2, n2, q)
        /\ next # <<>> => WlkSees(wlkKnown', off2, n2, c)
    BY DEF WlkPush
  <1>2. PICK Q2, N : Q2 = wlkQ' /\ N = Len(next)
    OBVIOUS
  <1>3. /\ k = Len(wlkQ) /\ k \in Nat /\ k >= 1 /\ e = wlkQ[k] /\ t = T[k] /\ L = Len(e.path) /\ L \in Nat /\ c = t[L]
        /\ N \in Nat /\ next \in Seq(MapMoves) /\ Len(Q2) = (k - 1) + N
    BY <1>1, <1>2 DEF WlkTop3, MapHolds, WlkPushed
  <1>4. /\ \A i \in 1 .. k - 1 : T2[i] = T[i]
        /\ \A j \in 1 .. N : T2[(k - 1) + j] = WlkOn(t, L, WlkStep(c, next[j]))
        /\ \A i \in 1 .. (k - 1) + N : i \in 1 .. k - 1 \/ \E j \in 1 .. N : i = (k - 1) + j
    <2>1. WlkSplit(T2, T, k, t, L, c, next, N)
      BY <1>2, <1>3, WlkTracesAre
    <2> QED
      BY <2>1 DEF WlkSplit
  <1>5. \A s, path : WlkLed(s, path) => WlkLed(s, path)'
    BY <1>1 DEF WlkLed
  <1>6. ASSUME NEW i \in 1 .. k - 1 PROVE WlkEntryOk(Q2[i], T2[i], off2, n2)'
    <2>1. PICK d, s, a : d = wlkQ[i] /\ s = T[i] /\ a = d.path
      OBVIOUS
    <2>2. i \in 1 .. Len(wlkQ)
      BY <1>3
    <2>3. /\ WlkLed(s, a) /\ WlkSees(wlkKnown, off, n, WlkFrom(s, a)) /\ (Len(a) = 0 => s[0] # wlkEnd)
      BY <1>1, <2>1, <2>2 DEF WlkWalk, WlkStackOk, WlkEntryOk
    <2>4. WlkInside(WlkFrom(s, a))
      <3>1. Len(a) \in Nat
        BY <2>3 DEF WlkLed
      <3>2. (IF Len(a) = 0 THEN 0 ELSE Len(a) - 1) \in 0 .. Len(a)
        BY <3>1
      <3> QED
        BY <2>3, <3>2 DEF WlkFrom, WlkLed
    <2>5. WlkSees(wlkKnown', off2, n2, WlkFrom(s, a))
      BY <1>1, <2>3, <2>4
    <2>6. Q2[i].path = a /\ Q2[i].at = WlkMoved(s[Len(a)], off2) /\ T2[i] = s
      BY <1>1, <1>2, <1>4, <2>1 DEF WlkPushed
    <2>7. WlkLed(s, a)' /\ (Len(a) = 0 => s[0] # wlkEnd')
      BY <1>1, <1>5, <2>3
    <2> QED
      BY <2>5, <2>6, <2>7 DEF WlkEntryOk
  <1>7. ASSUME NEW j \in 1 .. N PROVE WlkEntryOk(Q2[(k - 1) + j], T2[(k - 1) + j], off2, n2)'
    <2>1. PICK m, q, u, a : m = next[j] /\ q = WlkStep(c, m) /\ u = WlkOn(t, L, q) /\ a = Append(e.path, m)
      OBVIOUS
    <2>2. m \in WlkNew(c, V) /\ next # <<>>
      BY <1>1, <1>2, <1>3, <2>1 DEF MapHolds
    <2>3. m \in MapMoves /\ q \in wlkOpen /\ WlkInside(q)
      BY <1>1, <2>1, <2>2 DEF WlkNew, WlkWalk
    <2>4. WlkLed(t, e.path)
      BY <1>1, WlkTopFacts DEF WlkEntryOk
    <2>5. WlkLed(u, a) /\ Len(a) = L + 1 /\ WlkFrom(u, a) = c /\ u[L + 1] = q
      <3>1. WlkGoesOn(u, a, t, L, q)
        BY <1>3, <2>1, <2>3, <2>4, WlkLedOn
      <3> QED
        BY <1>3, <3>1 DEF WlkGoesOn
    <2>6. WlkLed(u, a)' /\ WlkSees(wlkKnown', off2, n2, WlkFrom(u, a)) /\ Len(a) # 0
      BY <1>1, <1>3, <1>5, <2>2, <2>5
    <2>7. Q2[(k - 1) + j].path = a /\ Q2[(k - 1) + j].at = WlkMoved(q, off2)
      BY <1>1, <1>2, <2>1 DEF WlkPushed
    <2>8. u[Len(a)] = q
      BY <2>5
    <2>9. T2[(k - 1) + j] = u
      BY <1>4, <2>1
    <2> QED
      BY <2>6, <2>7, <2>8, <2>9 DEF WlkEntryOk
  <1>8. ASSUME NEW i \in 1 .. Len(Q2) PROVE WlkEntryOk(Q2[i], T2[i], off2, n2)'
    <2>1. i \in 1 .. k - 1 \/ \E j \in 1 .. N : i = (k - 1) + j
      BY <1>3, <1>4
    <2> QED
      BY <1>6, <1>7, <2>1
  <1> QED
    BY <1>2, <1>8

\* The new stack is linked, and the player stands where its top entry needs.
LEMMA WlkPushLinks ==
    ASSUME NEW T, NEW off, NEW n, NEW V, NEW k, NEW e, NEW t, NEW L, NEW c, NEW next, NEW off2, NEW n2,
           WlkPush(T, off, n, V, k, e, t, L, c, next, off2, n2),
           NEW T2, T2 = WlkTraces(T, k, t, L, c, next)
    PROVE  WlkStackOk(T2, off2, n2)'
  <1>1. /\ WlkWalk(T, off, n, V) /\ WlkTop3(T, k, e, t, L, c) /\ MapHolds(next, WlkNew(c, V))
        /\ WlkPushed(T, k, e, c, next, wlkQ', off2)
        /\ next # <<>> => wlkAt' = c
        /\ next = <<>> => wlkAt' = IF k = 1 THEN wlkAt ELSE T[k - 1][Len(wlkQ[k - 1].path) - 1]
    BY DEF WlkPush
  <1>2. PICK Q2, N : Q2 = wlkQ' /\ N = Len(next)
    OBVIOUS
  <1>3. /\ k = Len(wlkQ) /\ k \in Nat /\ k >= 1 /\ e = wlkQ[k] /\ t = T[k] /\ L = Len(e.path) /\ L \in Nat /\ c = t[L]
        /\ N \in Nat /\ next \in Seq(MapMoves) /\ Len(Q2) = (k - 1) + N /\ Q2 \in Seq(WlkEntries)
    BY <1>1, <1>2 DEF WlkTop3, MapHolds, WlkPushed
  <1>4. /\ \A i \in 1 .. k - 1 : T2[i] = T[i] /\ Q2[i].path = wlkQ[i].path
        /\ \A j \in 1 .. N : /\ T2[(k - 1) + j] = WlkOn(t, L, WlkStep(c, next[j]))
                             /\ Q2[(k - 1) + j].path = Append(e.path, next[j])
        /\ \A i \in 1 .. (k - 1) + N : i \in 1 .. k - 1 \/ \E j \in 1 .. N : i = (k - 1) + j
    <2>1. WlkSplit(T2, T, k, t, L, c, next, N)
      BY <1>2, <1>3, WlkTracesAre
    <2> QED
      BY <1>1, <1>2, <2>1 DEF WlkSplit, WlkPushed
  <1>5. \A i \in 1 .. k - 1 : WlkLinked(wlkQ[i].path, T[i], wlkQ[i + 1].path, T[i + 1])
    BY <1>1, <1>3 DEF WlkWalk, WlkStackOk
  <1>6. e.path \in Seq(MapMoves)
    BY <1>1 DEF WlkTop3, WlkEntries
  <1>7. \A j \in 1 .. N : Len(Append(e.path, next[j])) = L + 1
    <2> SUFFICES ASSUME NEW j \in 1 .. N PROVE Len(Append(e.path, next[j])) = L + 1
      OBVIOUS
    <2>1. next[j] \in MapMoves
      BY <1>2, <1>3
    <2> QED
      BY <1>3, <1>6, <2>1, AppendProperties
  <1>8. \A i \in 1 .. k - 1 : Len(wlkQ[i].path) \in Nat
    <2> SUFFICES ASSUME NEW i \in 1 .. k - 1 PROVE Len(wlkQ[i].path) \in Nat
      OBVIOUS
    <2>1. wlkQ[i] \in WlkEntries
      BY <1>1, <1>3 DEF WlkWalk, WlkStackOk
    <2> QED
      BY <2>1 DEF WlkEntries
  <1>9. ASSUME NEW i \in 1 .. ((k - 1) + N) - 1
        PROVE  WlkLinked(Q2[i].path, T2[i], Q2[i + 1].path, T2[i + 1])
    <2>1. CASE i + 1 <= k - 1
      <3>1. i \in 1 .. k - 1 /\ i + 1 \in 1 .. k - 1
        BY <1>3, <2>1
      <3> QED
        BY <1>4, <1>5, <3>1
    <2>2. CASE i = k - 1
      <3>1. i \in 1 .. k - 1 /\ 1 \in 1 .. N /\ i + 1 = (k - 1) + 1 /\ i + 1 = k
        BY <1>3, <2>2
      <3>2. PICK a, s, q, u : a = wlkQ[i].path /\ s = T[i] /\ q = WlkStep(c, next[1]) /\ u = WlkOn(t, L, q)
        OBVIOUS
      <3>3. Len(a) >= 1 /\ Len(a) <= L /\ t[Len(a) - 1] = s[Len(a) - 1] /\ Len(a) \in Nat
        BY <1>3, <1>5, <1>8, <3>1, <3>2 DEF WlkLinked
      <3>4. Len(a) - 1 \in 0 .. L /\ Len(a) <= L + 1
        BY <1>3, <3>3
      <3>5. u[Len(a) - 1] = s[Len(a) - 1]
        <4>1. \A j \in 0 .. L : u[j] = t[j]
          BY <1>3, <3>2, WlkOnIs
        <4> QED
          BY <3>3, <3>4, <4>1
      <3>6. /\ Q2[i].path = a /\ T2[i] = s /\ T2[i + 1] = u
            /\ Q2[i + 1].path = Append(e.path, next[1]) /\ Len(Append(e.path, next[1])) = L + 1
        BY <1>4, <1>7, <3>1, <3>2
      <3> QED
        BY <3>3, <3>4, <3>5, <3>6 DEF WlkLinked
    <2>3. CASE i >= k
      <3>1. PICK j : j = i - (k - 1) /\ j \in 1 .. N /\ j + 1 \in 1 .. N /\ i = (k - 1) + j /\ i + 1 = (k - 1) + (j + 1)
        <4>1. k \in Int /\ N \in Int /\ i \in Int /\ i >= 1 /\ i <= ((k - 1) + N) - 1 /\ i >= k
          BY <1>3, <2>3
        <4>2. PICK j : j = i - (k - 1)
          OBVIOUS
        <4>3. j \in Int /\ j >= 1 /\ j + 1 <= N /\ i = (k - 1) + j /\ i + 1 = (k - 1) + (j + 1)
          BY ONLY <4>1, <4>2
        <4>4. j \in 1 .. N /\ j + 1 \in 1 .. N
          BY ONLY <4>1, <4>3
        <4> QED
          BY <4>2, <4>3, <4>4
      <3>2. PICK u, v : u = WlkOn(t, L, WlkStep(c, next[j])) /\ v = WlkOn(t, L, WlkStep(c, next[j + 1]))
        OBVIOUS
      <3>3. T2[i] = u /\ T2[i + 1] = v
        BY <1>4, <3>1, <3>2
      <3>4. Len(Q2[i].path) = L + 1 /\ Len(Q2[i + 1].path) = L + 1
        BY <1>4, <1>7, <3>1
      <3>5. u[L] = t[L] /\ v[L] = t[L]
        BY <1>3, <3>2, WlkOnIs
      <3>6. (L + 1) - 1 = L /\ L + 1 >= 1 /\ L + 1 <= L + 1
        BY <1>3
      <3> QED
        BY <3>3, <3>4, <3>5, <3>6 DEF WlkLinked
    <2> QED
      BY <1>3, <2>1, <2>2, <2>3
  <1>10. ASSUME Q2 # <<>> PROVE wlkAt' = WlkFrom(T2[(k - 1) + N], Q2[(k - 1) + N].path)
    <2>1. CASE N = 0
      <3>0. next = <<>>
        <4>1. next \in Seq(MapMoves) /\ Len(next) = 0
          BY <1>2, <1>3, <2>1
        <4> QED
          BY <4>1, EmptySeq
      <3>1. next = <<>> /\ (k - 1) + N = k - 1
        BY <1>3, <2>1, <3>0
      <3>2. Len(Q2) # 0
        BY <1>3, <1>10
      <3>3. k - 1 \in 1 .. k - 1 /\ (k - 1) + 1 = k /\ k # 1
        BY <1>3, <3>1, <3>2
      <3>4. PICK a, s : a = wlkQ[k - 1].path /\ s = T[k - 1]
        OBVIOUS
      <3>5. Len(a) >= 1 /\ Len(a) \in Nat
        BY <1>5, <1>8, <3>3, <3>4 DEF WlkLinked
      <3>6. wlkAt' = s[Len(a) - 1]
        BY <1>1, <3>1, <3>3, <3>4
      <3>7. Q2[k - 1].path = a /\ T2[k - 1] = s
        BY <1>4, <3>3, <3>4
      <3>8. WlkFrom(s, a) = s[Len(a) - 1]
        BY <3>5 DEF WlkFrom
      <3> QED
        BY <3>1, <3>6, <3>7, <3>8
    <2>2. CASE N # 0
      <3>1. N \in 1 .. N /\ next # <<>>
        BY <1>2, <1>3, <2>2
      <3>2. PICK u, a : u = WlkOn(t, L, WlkStep(c, next[N])) /\ a = Append(e.path, next[N])
        OBVIOUS
      <3>3. T2[(k - 1) + N] = u /\ Q2[(k - 1) + N].path = a /\ Len(a) = L + 1
        BY <1>4, <1>7, <3>1, <3>2
      <3>4. L + 1 # 0 /\ (L + 1) - 1 = L /\ L \in 0 .. L
        BY <1>3
      <3>5. u[L] = c
        BY <1>3, <3>2, <3>4, WlkOnIs
      <3>6. WlkFrom(u, a) = c
        BY <3>3, <3>4, <3>5 DEF WlkFrom
      <3> QED
        BY <1>1, <3>1, <3>3, <3>6
    <2> QED
      BY <2>1, <2>2
  <1>11. (\A i \in 1 .. Len(wlkQ) : WlkEntryOk(wlkQ[i], T2[i], off2, n2))'
    BY WlkPushEntries
  <1>12. wlkQ' \in Seq(WlkEntries) /\ Len(wlkQ') = (k - 1) + N
    BY <1>2, <1>3
  <1>13. \A i \in 1 .. Len(wlkQ') - 1 : WlkLinked(wlkQ'[i].path, T2[i], wlkQ'[i + 1].path, T2[i + 1])
    BY <1>2, <1>9, <1>12
  <1>14. wlkQ' # <<>> => wlkAt' = WlkFrom(T2[Len(wlkQ')], wlkQ'[Len(wlkQ')].path)
    BY <1>2, <1>10, <1>12
  <1> QED
    BY <1>11, <1>12, <1>13, <1>14 DEF WlkStackOk

\* The visited cells after the push.
WlkReached(c, V) == V \cup {WlkStep(c, m) : m \in WlkNew(c, V)}

\* The traces stay in the visited cells, and their ends and the finished cells are all of them.
LEMMA WlkPushVisited ==
    ASSUME NEW T, NEW off, NEW n, NEW V, NEW k, NEW e, NEW t, NEW L, NEW c, NEW next, NEW off2, NEW n2,
           WlkPush(T, off, n, V, k, e, t, L, c, next, off2, n2),
           NEW T2, T2 = WlkTraces(T, k, t, L, c, next), NEW V2, V2 = WlkReached(c, V)
    PROVE  WlkVisited(T2, off2, V2)'
  <1>1. /\ WlkWalk(T, off, n, V) /\ WlkTop3(T, k, e, t, L, c) /\ MapHolds(next, WlkNew(c, V))
        /\ WlkPushed(T, k, e, c, next, wlkQ', off2) /\ wlkOpen' = wlkOpen /\ wlkEnd' = wlkEnd
        /\ next # <<>> => wlkAt' = c
        /\ next = <<>> => wlkAt' = IF k = 1 THEN wlkAt ELSE T[k - 1][Len(wlkQ[k - 1].path) - 1]
        /\ c # wlkEnd
        /\ wlkVisit' = {WlkMoved(v, off2) : v \in V2}
    BY DEF WlkPush, WlkReached
  <1>2. PICK Q2, N : Q2 = wlkQ' /\ N = Len(next)
    OBVIOUS
  <1>3. /\ k = Len(wlkQ) /\ k \in Nat /\ k >= 1 /\ e = wlkQ[k] /\ t = T[k] /\ L = Len(e.path) /\ L \in Nat /\ c = t[L]
        /\ N \in Nat /\ next \in Seq(MapMoves) /\ Len(Q2) = (k - 1) + N /\ Q2 \in Seq(WlkEntries)
        /\ e.path \in Seq(MapMoves)
    BY <1>1, <1>2 DEF WlkTop3, MapHolds, WlkPushed, WlkEntries
  <1>4. /\ \A i \in 1 .. k - 1 : T2[i] = T[i] /\ Q2[i].path = wlkQ[i].path
        /\ \A j \in 1 .. N : /\ T2[(k - 1) + j] = WlkOn(t, L, WlkStep(c, next[j]))
                             /\ Q2[(k - 1) + j].path = Append(e.path, next[j])
        /\ \A i \in 1 .. (k - 1) + N : i \in 1 .. k - 1 \/ \E j \in 1 .. N : i = (k - 1) + j
    <2>1. WlkSplit(T2, T, k, t, L, c, next, N)
      BY <1>2, <1>3, WlkTracesAre
    <2> QED
      BY <1>1, <1>2, <2>1 DEF WlkSplit, WlkPushed
  <1>5. /\ V \subseteq wlkOpen /\ wlkAt \in V
        /\ \A i \in 1 .. k, j \in Nat : j <= Len(wlkQ[i].path) => T[i][j] \in V
        /\ \A v \in V : (\E i \in 1 .. k : T[i][Len(wlkQ[i].path)] = v) \/ WlkDone(v, V)
    BY <1>1, <1>3 DEF WlkWalk, WlkVisited
  <1>6. ASSUME NEW j \in 1 .. N
        PROVE  /\ next[j] \in WlkNew(c, V) /\ WlkStep(c, next[j]) \in V2
               /\ Q2[(k - 1) + j].path = Append(e.path, next[j]) /\ Len(Append(e.path, next[j])) = L + 1
               /\ T2[(k - 1) + j][L + 1] = WlkStep(c, next[j])
               /\ \A i \in 0 .. L : T2[(k - 1) + j][i] = t[i]
    <2>1. next[j] \in WlkNew(c, V) /\ next[j] \in MapMoves
      BY <1>1, <1>2, <1>3 DEF MapHolds
    <2>2. WlkStep(c, next[j]) \in V2
      BY <2>1 DEF WlkReached
    <2>3. Len(Append(e.path, next[j])) = L + 1
      BY <1>3, <2>1, AppendProperties
    <2>4. PICK u : u = WlkOn(t, L, WlkStep(c, next[j])) /\ T2[(k - 1) + j] = u
      BY <1>4
    <2>5. u[L + 1] = WlkStep(c, next[j]) /\ \A i \in 0 .. L : u[i] = t[i]
      <3>1. PICK q : q = WlkStep(c, next[j])
        OBVIOUS
      <3>2. L \in Nat /\ u = WlkOn(t, L, q)
        BY ONLY <1>3, <2>4, <3>1
      <3>3. u[L + 1] = q /\ \A i \in 0 .. L : u[i] = t[i]
        BY ONLY <3>2, WlkOnIs
      <3> QED
        BY ONLY <3>1, <3>3
    <2> QED
      BY <1>4, <2>1, <2>2, <2>3, <2>4, <2>5
  <1>7. V \subseteq V2 /\ V2 \subseteq wlkOpen
    BY <1>5 DEF WlkReached, WlkNew
  <1>8. wlkAt' \in V2
    <2>1. CASE next # <<>>
      <3>1. t[L] \in V
        BY <1>3, <1>5
      <3> QED
        BY <1>1, <1>3, <1>7, <2>1, <3>1
    <2>2. CASE next = <<>> /\ k = 1
      BY <1>1, <1>5, <1>7, <2>2
    <2>3. CASE next = <<>> /\ k # 1
      <3>1. k - 1 \in 1 .. Len(wlkQ) - 1 /\ k - 1 \in 1 .. k /\ k - 1 \in 1 .. Len(wlkQ)
        BY <1>3, <2>3
      <3>2. PICK a : a = wlkQ[k - 1].path
        OBVIOUS
      <3>3. Len(a) >= 1
        BY <1>1, <3>1, <3>2 DEF WlkWalk, WlkStackOk, WlkLinked
      <3>4. Len(a) \in Nat
        BY <1>1, <3>1, <3>2 DEF WlkWalk, WlkStackOk, WlkEntries
      <3>5. Len(a) - 1 \in Nat /\ Len(a) - 1 <= Len(a)
        BY <3>3, <3>4
      <3>6. T[k - 1][Len(a) - 1] \in V
        BY <1>5, <3>1, <3>2, <3>5
      <3> QED
        BY <1>1, <1>7, <2>3, <3>2, <3>6
    <2> QED
      BY <2>1, <2>2, <2>3
  <1>9. ASSUME NEW i \in 1 .. (k - 1) + N, NEW j \in Nat, j <= Len(Q2[i].path) PROVE T2[i][j] \in V2
    <2>1. CASE i \in 1 .. k - 1
      <3>1. i \in 1 .. k
        BY <1>3, <2>1
      <3> QED
        BY <1>4, <1>5, <1>7, <1>9, <2>1, <3>1
    <2>2. CASE \E j2 \in 1 .. N : i = (k - 1) + j2
      <3>1. PICK j2 \in 1 .. N : i = (k - 1) + j2
        BY <2>2
      <3>2. j <= L + 1
        BY <1>6, <1>9, <3>1
      <3>3. CASE j = L + 1
        BY <1>6, <3>1, <3>3
      <3>4. CASE j # L + 1
        <4>0. L \in Nat /\ j \in Nat
          BY <1>3
        <4>1. j \in 0 .. L /\ j <= L
          BY ONLY <3>2, <3>4, <4>0
        <4>2. k \in 1 .. k
          BY <1>3
        <4>3. t[j] \in V
          BY <1>3, <1>5, <4>1, <4>2
        <4> QED
          BY <1>6, <1>7, <3>1, <4>1, <4>3
      <3> QED
        BY <3>3, <3>4
    <2> QED
      BY <1>4, <2>1, <2>2
  <1>10. \A v : WlkDone(v, V) => WlkDone(v, V2)'
    BY <1>1, <1>7 DEF WlkDone
  <1>11. WlkDone(c, V2)'
    <2>1. \A m \in MapMoves : WlkStep(c, m) \in wlkOpen => WlkStep(c, m) \in V2
      BY DEF WlkReached, WlkNew
    <2> QED
      BY <1>1, <2>1 DEF WlkDone
  <1>12. ASSUME NEW v \in V2
         PROVE  (\E i \in 1 .. (k - 1) + N : T2[i][Len(Q2[i].path)] = v) \/ WlkDone(v, V2)'
    <2>1. CASE v \in V
      <3>1. CASE WlkDone(v, V)
        BY <1>10, <3>1
      <3>2. CASE \E i \in 1 .. k : T[i][Len(wlkQ[i].path)] = v
        <4>1. PICK i \in 1 .. k : T[i][Len(wlkQ[i].path)] = v
          BY <3>2
        <4>2. CASE i = k
          BY <1>3, <1>11, <4>1, <4>2
        <4>3. CASE i # k
          <5>1. i \in 1 .. k - 1 /\ i \in 1 .. (k - 1) + N
            BY <1>3, <4>3
          <5> QED
            BY <1>4, <4>1, <5>1
        <4> QED
          BY <4>2, <4>3
      <3> QED
        BY <1>5, <2>1, <3>1, <3>2
    <2>2. CASE v \notin V
      <3>1. PICK m \in WlkNew(c, V) : v = WlkStep(c, m)
        BY <2>2 DEF WlkReached
      <3>2. PICK j \in 1 .. N : m = next[j]
        BY <1>1, <1>2, <3>1 DEF MapHolds
      <3>3. (k - 1) + j \in 1 .. (k - 1) + N
        BY <1>3
      <3>4. T2[(k - 1) + j][Len(Q2[(k - 1) + j].path)] = v
        BY <1>6, <3>1, <3>2
      <3> QED
        BY <3>3, <3>4
    <2> QED
      BY <2>1, <2>2
  <1>13. V2 \subseteq wlkOpen'
    BY <1>1, <1>7
  <1>14. \A i \in 1 .. Len(wlkQ'), j \in Nat : j <= Len(wlkQ'[i].path) => T2[i][j] \in V2
    BY <1>2, <1>3, <1>9
  <1>15. \A v \in V2 : (\E i \in 1 .. Len(wlkQ') : T2[i][Len(wlkQ'[i].path)] = v) \/ WlkDone(v, V2)'
    BY <1>2, <1>3, <1>12
  <1> QED
    BY <1>1, <1>8, <1>13, <1>14, <1>15 DEF WlkVisited

\* A push keeps the walk right.
LEMMA WlkPushKeeps ==
    ASSUME NEW T, NEW off, NEW n, NEW V, NEW k, NEW e, NEW t, NEW L, NEW c, NEW next, NEW off2, NEW n2,
           WlkPush(T, off, n, V, k, e, t, L, c, next, off2, n2),
           NEW T2, T2 = WlkTraces(T, k, t, L, c, next), NEW V2, V2 = WlkReached(c, V)
    PROVE  WlkWalk(T2, off2, n2, V2)'
  <1>1. WlkStackOk(T2, off2, n2)'
    BY WlkPushLinks
  <1>2. WlkVisited(T2, off2, V2)'
    BY WlkPushVisited
  <1>3. WlkDrawn(wlkKnown', off2, n2) /\ wlkOpen' \subseteq {p \in MapPlane : WlkInside(p)} /\ wlkEnd' \in wlkOpen'
    BY DEF WlkPush, WlkWalk
  <1> QED
    BY <1>1, <1>2, <1>3 DEF WlkWalk

\* The entries pushed for the moves next from a cell.
WlkChildren(cell, path, next) ==
    [i \in 1 .. Len(next) |-> [at |-> WlkStep(cell, next[i]), path |-> Append(path, next[i])]]

\* q before the columns are counted anew.
WlkQueue(cell, path, next) == WlkFront(wlkQ) \o WlkChildren(cell, path, next)

\* q after it.
WlkShifted(q, by) == [i \in DOMAIN q |-> [q[i] EXCEPT !.at = <<@[1], @[2] + by>>]]

\* Counting the columns anew moves a cell once more.
LEMMA WlkMovedTwice ==
    ASSUME NEW p \in MapPlane, NEW off \in Int, NEW by \in Int
    PROVE  /\ WlkMoved(p, off) \in MapPlane
           /\ <<WlkMoved(p, off)[1], WlkMoved(p, off)[2] + by>> = WlkMoved(p, off - by)
  <1>1. PICK y \in Int, x \in Int : p = <<y, x>>
    BY DEF MapPlane
  <1>2. WlkMoved(p, off) = <<y, x - off>> /\ WlkMoved(p, off - by) = <<y, x - (off - by)>>
    BY <1>1 DEF WlkMoved
  <1>3. (x - off) + by = x - (off - by) /\ x - off \in Int
    OBVIOUS
  <1> QED
    BY <1>2, <1>3 DEF MapPlane

\* Taking the top entry off and pushing the moves next.
LEMMA WlkQueueIs ==
    ASSUME NEW T, NEW off, NEW n, NEW V, WlkWalk(T, off, n, V), NEW k, NEW e, NEW t, NEW L, NEW c,
           WlkTop3(T, k, e, t, L, c), NEW next, MapHolds(next, WlkNew(c, V)),
           NEW q, q = WlkQueue(e.at, e.path, next)
    PROVE  WlkPushed(T, k, e, c, next, q, off)
  <1>1. PICK N : N = Len(next) /\ N \in Nat /\ \A j \in 1 .. N : next[j] \in WlkNew(c, V) /\ next[j] \in MapMoves
    BY DEF MapHolds
  <1>2. /\ k = Len(wlkQ) /\ k \in Nat /\ k >= 1 /\ wlkQ \in Seq(WlkEntries) /\ e.path \in Seq(MapMoves)
        /\ \A i \in 1 .. k : wlkQ[i] \in WlkEntries
    <2>1. /\ k = Len(wlkQ) /\ k \in Nat /\ k >= 1 /\ wlkQ \in Seq(WlkEntries) /\ e \in WlkEntries
      BY DEF WlkTop3, WlkWalk, WlkStackOk
    <2>2. e.path \in Seq(MapMoves)
      BY <2>1 DEF WlkEntries
    <2> QED
      BY <2>1, <2>2
  <1>3. PICK P : P = WlkFront(wlkQ) /\ P \in Seq(WlkEntries) /\ Len(P) = k - 1 /\ \A i \in 1 .. k - 1 : P[i] = wlkQ[i]
    <2>1. \A i \in 1 .. k - 1 : wlkQ[i] \in WlkEntries
      BY <1>2
    <2>2. /\ SubSeq(wlkQ, 1, k - 1) \in Seq(WlkEntries)
          /\ Len(SubSeq(wlkQ, 1, k - 1)) = IF 1 <= k - 1 THEN (k - 1) - 1 + 1 ELSE 0
          /\ \A i \in 1 .. (k - 1) - 1 + 1 : SubSeq(wlkQ, 1, k - 1)[i] = wlkQ[1 + i - 1]
      BY <1>2, <2>1, SubSeqProperties
    <2>3. (IF 1 <= k - 1 THEN (k - 1) - 1 + 1 ELSE 0) = k - 1 /\ (k - 1) - 1 + 1 = k - 1
      BY <1>2
    <2>4. \A i \in 1 .. k - 1 : 1 + i - 1 = i
      BY <1>2
    <2>5. WlkFront(wlkQ) = SubSeq(wlkQ, 1, k - 1)
      BY <1>2 DEF WlkFront
    <2> QED
      BY ONLY <2>2, <2>3, <2>4, <2>5
  <1>4. \A j \in 1 .. N : /\ WlkStep(e.at, next[j]) = WlkMoved(WlkStep(c, next[j]), off)
                          /\ WlkStep(e.at, next[j]) \in MapPlane /\ Append(e.path, next[j]) \in Seq(MapMoves)
    <2> SUFFICES ASSUME NEW j \in 1 .. N
                 PROVE  /\ WlkStep(e.at, next[j]) = WlkMoved(WlkStep(c, next[j]), off)
                        /\ WlkStep(e.at, next[j]) \in MapPlane /\ Append(e.path, next[j]) \in Seq(MapMoves)
      OBVIOUS
    <2>1. WlkStep(e.at, next[j]) = WlkMoved(WlkStep(c, next[j]), off)
      BY <1>1, WlkTopSeen
    <2>2. WlkStep(c, next[j]) \in MapPlane /\ off \in Int
      BY <1>1, WlkTopFacts, WlkStepBack
    <2>3. Append(e.path, next[j]) \in Seq(MapMoves)
      BY <1>1, <1>2, AppendProperties
    <2> QED
      BY <2>1, <2>2, <2>3, WlkMovedTwice
  <1>5. PICK Q : /\ Q = WlkChildren(e.at, e.path, next) /\ Q \in Seq(WlkEntries) /\ Len(Q) = N
                 /\ \A j \in 1 .. N : /\ Q[j].path = Append(e.path, next[j])
                                      /\ Q[j].at = WlkMoved(WlkStep(c, next[j]), off)
    <2>1. PICK Q : Q = [i \in 1 .. N |-> [at |-> WlkStep(e.at, next[i]), path |-> Append(e.path, next[i])]]
      OBVIOUS
    <2>2. \A j \in 1 .. N : Q[j].path = Append(e.path, next[j]) /\ Q[j].at = WlkStep(e.at, next[j]) /\ Q[j] \in WlkEntries
      BY <1>4, <2>1 DEF WlkEntries
    <2>3. Q \in Seq(WlkEntries) /\ Len(Q) = N
      <3>1. Q = [i \in 1 .. N |-> Q[i]] /\ \A i \in 1 .. N : Q[i] \in WlkEntries
        BY <2>1, <2>2
      <3> QED
        BY ONLY <1>1, <3>1
    <2>4. Q = WlkChildren(e.at, e.path, next)
      BY <1>1, <2>1 DEF WlkChildren
    <2> QED
      BY <1>4, <2>2, <2>3, <2>4
  <1>6. /\ q \in Seq(WlkEntries) /\ Len(q) = (k - 1) + N
        /\ \A i \in 1 .. (k - 1) + N : q[i] = IF i <= k - 1 THEN P[i] ELSE Q[i - (k - 1)]
    <2>1. q = P \o Q
      BY <1>3, <1>5 DEF WlkQueue
    <2> QED
      BY <1>3, <1>5, <2>1, ConcatProperties
  <1>7. ASSUME NEW i \in 1 .. k - 1
        PROVE  q[i].path = wlkQ[i].path /\ q[i].at = WlkMoved(T[i][Len(wlkQ[i].path)], off)
    <2>1. i \in 1 .. (k - 1) + N /\ i <= k - 1 /\ i \in 1 .. Len(wlkQ)
      BY <1>1, <1>2
    <2>2. q[i] = wlkQ[i]
      BY <1>3, <1>6, <2>1
    <2>3. WlkEntryOk(wlkQ[i], T[i], off, n)
      BY <2>1 DEF WlkWalk, WlkStackOk
    <2> QED
      BY <2>2, <2>3 DEF WlkEntryOk
  <1>8. ASSUME NEW j \in 1 .. N
        PROVE  /\ q[(k - 1) + j].path = Append(e.path, next[j])
               /\ q[(k - 1) + j].at = WlkMoved(WlkStep(c, next[j]), off)
    <2>1. (k - 1) + j \in 1 .. (k - 1) + N /\ ~((k - 1) + j <= k - 1) /\ ((k - 1) + j) - (k - 1) = j
      BY <1>1, <1>2
    <2>2. q[(k - 1) + j] = Q[j]
      BY <1>6, <2>1
    <2> QED
      BY <1>5, <2>2
  <1> QED
    BY <1>1, <1>6, <1>7, <1>8 DEF WlkPushed

\* Counting the columns anew.
LEMMA WlkShiftedIs ==
    ASSUME NEW T, NEW off, NEW n, NEW V, WlkWalk(T, off, n, V), NEW k, NEW e, NEW t, NEW L, NEW c,
           WlkTop3(T, k, e, t, L, c), NEW next, MapHolds(next, WlkNew(c, V)),
           NEW q, WlkPushed(T, k, e, c, next, q, off), NEW by \in Int, NEW r, r = WlkShifted(q, by)
    PROVE  WlkPushed(T, k, e, c, next, r, off - by)
  <1>1. PICK N : N = Len(next) /\ N \in Nat /\ \A j \in 1 .. N : next[j] \in WlkNew(c, V) /\ next[j] \in MapMoves
    BY DEF MapHolds
  <1>2. /\ k = Len(wlkQ) /\ k \in Nat /\ k >= 1 /\ \A i \in 1 .. k : wlkQ[i] \in WlkEntries
    BY DEF WlkTop3, WlkWalk, WlkStackOk
  <1>3. /\ q \in Seq(WlkEntries) /\ Len(q) = (k - 1) + N
        /\ \A i \in 1 .. k - 1 : /\ q[i].path = wlkQ[i].path
                                 /\ q[i].at = WlkMoved(T[i][Len(wlkQ[i].path)], off)
        /\ \A j \in 1 .. N : /\ q[(k - 1) + j].path = Append(e.path, next[j])
                             /\ q[(k - 1) + j].at = WlkMoved(WlkStep(c, next[j]), off)
    BY <1>1 DEF WlkPushed
  <1>4. PICK M : M = (k - 1) + N /\ M \in Nat
    BY <1>1, <1>2
  <1>5. off \in Int /\ off - by \in Int
    BY WlkTopFacts
  <1>6. DOMAIN q = 1 .. M /\ \A i \in 1 .. M : q[i] \in WlkEntries
    BY <1>3, <1>4
  <1>7. r = [i \in 1 .. M |-> [q[i] EXCEPT !.at = <<@[1], @[2] + by>>]]
    BY <1>6 DEF WlkShifted
  <1>8. ASSUME NEW i \in 1 .. M, NEW p \in MapPlane, q[i].at = WlkMoved(p, off)
        PROVE  r[i].path = q[i].path /\ r[i].at = WlkMoved(p, off - by) /\ r[i] \in WlkEntries
    <2>1. PICK d, f : d = q[i] /\ f = <<d.at[1], d.at[2] + by>> /\ d = [at |-> d.at, path |-> d.path] /\ d.path \in Seq(MapMoves)
      BY <1>6 DEF WlkEntries
    <2>2. r[i] = [d EXCEPT !.at = f]
      BY <1>7, <2>1
    <2>3. r[i] = [at |-> f, path |-> d.path]
      BY <2>1, <2>2
    <2>4. f = WlkMoved(p, off - by)
      BY <1>5, <1>8, <2>1, WlkMovedTwice
    <2>5. f \in MapPlane
      BY <1>5, <2>4, WlkMovedTwice
    <2> QED
      BY <2>1, <2>3, <2>4, <2>5 DEF WlkEntries
  <1>9. ASSUME NEW i \in 1 .. k - 1
        PROVE  /\ r[i].path = wlkQ[i].path /\ r[i] \in WlkEntries
               /\ r[i].at = WlkMoved(T[i][Len(wlkQ[i].path)], off - by)
    <2>1. i \in 1 .. M /\ i \in 1 .. Len(wlkQ)
      BY <1>1, <1>2, <1>4
    <2>2. WlkLed(T[i], wlkQ[i].path)
      BY <2>1 DEF WlkWalk, WlkStackOk, WlkEntryOk
    <2>3. Len(wlkQ[i].path) \in 0 .. Len(wlkQ[i].path)
      BY <2>2 DEF WlkLed
    <2>4. T[i][Len(wlkQ[i].path)] \in MapPlane
      BY <2>2, <2>3 DEF WlkLed, WlkWalk
    <2> QED
      BY <1>3, <1>8, <2>1, <2>4
  <1>10. ASSUME NEW j \in 1 .. N
         PROVE  /\ r[(k - 1) + j].path = Append(e.path, next[j]) /\ r[(k - 1) + j] \in WlkEntries
                /\ r[(k - 1) + j].at = WlkMoved(WlkStep(c, next[j]), off - by)
    <2>1. (k - 1) + j \in 1 .. M
      BY <1>1, <1>2, <1>4
    <2>2. WlkStep(c, next[j]) \in MapPlane
      BY <1>1, WlkTopFacts, WlkStepBack
    <2> QED
      BY <1>3, <1>8, <2>1, <2>2
  <1>11. ASSUME NEW i \in 1 .. M PROVE r[i] \in WlkEntries
    <2>1. CASE i <= k - 1
      BY <1>2, <1>9, <2>1
    <2>2. CASE ~(i <= k - 1)
      <3>1. i - (k - 1) \in 1 .. N /\ (k - 1) + (i - (k - 1)) = i
        BY <1>1, <1>2, <1>4, <2>2
      <3> QED
        BY <1>10, <3>1
    <2> QED
      BY <2>1, <2>2
  <1>12. r \in Seq(WlkEntries) /\ Len(r) = M
    <2>1. r = [i \in 1 .. M |-> r[i]] /\ \A i \in 1 .. M : r[i] \in WlkEntries
      BY <1>7, <1>11
    <2> QED
      BY ONLY <1>4, <2>1
  <1> QED
    BY <1>1, <1>4, <1>9, <1>10, <1>12 DEF WlkPushed

\* visit after the push.
WlkSeenNow(cell, next) == wlkVisit \cup {WlkStep(cell, next[i]) : i \in 1 .. Len(next)}

\* visit has the cells reached, and counting the columns anew moves them all.
LEMMA WlkVisitIs ==
    ASSUME NEW T, NEW off, NEW n, NEW V, WlkWalk(T, off, n, V), NEW k, NEW e, NEW t, NEW L, NEW c,
           WlkTop3(T, k, e, t, L, c), NEW next, MapHolds(next, WlkNew(c, V)),
           NEW S, S = WlkSeenNow(e.at, next), NEW V2, V2 = WlkReached(c, V)
    PROVE  /\ S = {WlkMoved(v, off) : v \in V2}
           /\ \A by \in Int : {<<p[1], p[2] + by>> : p \in S} = {WlkMoved(v, off - by) : v \in V2}
           /\ V2 \subseteq MapPlane
  <1>1. PICK N : /\ N = Len(next) /\ N \in Nat /\ \A j \in 1 .. N : next[j] \in WlkNew(c, V) /\ next[j] \in MapMoves
                 /\ \A m \in WlkNew(c, V) : \E j \in 1 .. N : next[j] = m
    BY DEF MapHolds
  <1>2. wlkVisit = {WlkMoved(v, off) : v \in V} /\ V \subseteq MapPlane /\ off \in Int /\ c \in MapPlane
    BY WlkTopFacts DEF WlkWalk, WlkVisited
  <1>3. \A m \in MapMoves : WlkStep(e.at, m) = WlkMoved(WlkStep(c, m), off)
    BY WlkTopSeen
  <1>4. V2 = V \cup {WlkStep(c, m) : m \in WlkNew(c, V)}
    BY DEF WlkReached
  <1>5. \A m \in WlkNew(c, V) : m \in MapMoves
    BY DEF WlkNew
  <1>6. V2 \subseteq MapPlane
    BY <1>2, <1>4, <1>5, WlkStepBack
  <1>7. S = wlkVisit \cup {WlkStep(e.at, next[i]) : i \in 1 .. N}
    BY <1>1 DEF WlkSeenNow
  <1>8. \A p \in S : \E v \in V2 : p = WlkMoved(v, off)
    <2> SUFFICES ASSUME NEW p \in S PROVE \E v \in V2 : p = WlkMoved(v, off)
      OBVIOUS
    <2>1. CASE p \in wlkVisit
      BY <1>2, <1>4, <2>1
    <2>2. CASE p \notin wlkVisit
      <3>1. PICK j \in 1 .. N : p = WlkStep(e.at, next[j])
        BY <1>7, <2>2
      <3>2. p = WlkMoved(WlkStep(c, next[j]), off) /\ WlkStep(c, next[j]) \in V2
        BY <1>1, <1>3, <1>4, <3>1
      <3> QED
        BY <3>2
    <2> QED
      BY <2>1, <2>2
  <1>9. \A v \in V2 : WlkMoved(v, off) \in S
    <2> SUFFICES ASSUME NEW v \in V2 PROVE WlkMoved(v, off) \in S
      OBVIOUS
    <2>1. CASE v \in V
      BY <1>2, <1>7, <2>1
    <2>2. CASE v \notin V
      <3>1. PICK m \in WlkNew(c, V) : v = WlkStep(c, m)
        BY <1>4, <2>2
      <3>2. PICK j \in 1 .. N : next[j] = m
        BY <1>1, <3>1
      <3>3. WlkMoved(v, off) = WlkStep(e.at, next[j])
        BY <1>3, <1>5, <3>1, <3>2
      <3> QED
        BY <1>7, <3>3
    <2> QED
      BY <2>1, <2>2
  <1>10. S = {WlkMoved(v, off) : v \in V2}
    BY <1>8, <1>9
  <1>11. ASSUME NEW by \in Int
         PROVE  {<<p[1], p[2] + by>> : p \in S} = {WlkMoved(v, off - by) : v \in V2}
    <2>1. \A v \in V2 : <<WlkMoved(v, off)[1], WlkMoved(v, off)[2] + by>> = WlkMoved(v, off - by)
      BY <1>2, <1>6, WlkMovedTwice
    <2>2. {<<p[1], p[2] + by>> : p \in S} = {<<WlkMoved(v, off)[1], WlkMoved(v, off)[2] + by>> : v \in V2}
      BY <1>8, <1>9
    <2> QED
      BY <2>1, <2>2
  <1> QED
    BY <1>6, <1>10, <1>11

\* The moves next from the top entry.
LEMMA WlkNextIs ==
    ASSUME NEW T, NEW off, NEW n, NEW V, WlkWalk(T, off, n, V), NEW k, NEW e, NEW t, NEW L, NEW c,
           WlkTop3(T, k, e, t, L, c), NEW next, next = WlkFreshMoves(e.at)
    PROVE  MapHolds(next, WlkNew(c, V))
  <1>1. next \in Seq(MapMoves) /\ {next[i] : i \in 1 .. Len(next)} = {m \in MapMoves : WlkFresh(e.at, m)}
    BY WlkFreshMovesAre
  <1>2. \A m \in MapMoves : WlkFresh(e.at, m) <=> m \in WlkNew(c, V)
    BY WlkTopSeen
  <1>3. {m \in MapMoves : WlkFresh(e.at, m)} = WlkNew(c, V)
    BY <1>2 DEF WlkNew
  <1> QED
    BY <1>1, <1>3 DEF MapHolds

\* The ways a turn goes, for the top entry e and the moves next from its cell.
WlkAtFlag(e) ==
    /\ WlkIsE(e.at) /\ wlkAt' = WlkGo(wlkAt, <<WlkLast(e.path)>>)
    /\ wlkPc' = "flag" /\ wlkKnown' = wlkKnown /\ wlkQ' = wlkQ /\ wlkVisit' = wlkVisit

WlkAtStart(e, next) ==
    /\ ~WlkIsE(e.at) /\ e.path = <<>>
    /\ wlkQ' = WlkQueue(e.at, e.path, next) /\ wlkVisit' = WlkSeenNow(e.at, next)
    /\ wlkPc' = wlkPc /\ wlkAt' = wlkAt /\ wlkKnown' = wlkKnown

WlkAtDeadEnd(e, next, q) ==
    /\ ~WlkIsE(e.at) /\ e.path # <<>> /\ next = <<>> /\ q = WlkQueue(e.at, e.path, next)
    /\ q = <<>> => wlkPc' = "error" /\ wlkAt' = wlkAt
    /\ q # <<>> => wlkPc' = wlkPc /\ wlkAt' = WlkGo(wlkAt, WlkReversePath(WlkFront(e.path), WlkLast(q).path))
    /\ wlkQ' = q /\ wlkVisit' = WlkSeenNow(e.at, next) /\ wlkKnown' = wlkKnown

WlkAtDraw(e, next, m, p, by) ==
    /\ ~WlkIsE(e.at) /\ e.path # <<>> /\ next # <<>>
    /\ m = WlkLast(e.path) /\ p = WlkGo(wlkAt, <<m>>) /\ by = WlkShift(m, e.at[2], p)
    /\ wlkAt' = p /\ wlkKnown' = WlkDraw(m, e.at[2], p)
    /\ wlkQ' = WlkShifted(WlkQueue(e.at, e.path, next), by)
    /\ wlkVisit' = {<<c[1], c[2] + by>> : c \in WlkSeenNow(e.at, next)}
    /\ wlkPc' = wlkPc

\* A turn for the top entry e, the moves next, q and visit after them.
WlkAsTurn(e, next, q, S) ==
    \/ WlkAtFlag(e)
    \/ /\ ~WlkIsE(e.at) /\ e.path = <<>>
       /\ wlkQ' = q /\ wlkVisit' = S /\ UNCHANGED <<wlkPc, wlkAt, wlkKnown>>
    \/ /\ ~WlkIsE(e.at) /\ e.path # <<>> /\ next = <<>>
       /\ IF q = <<>> THEN wlkPc' = "error" /\ UNCHANGED wlkAt
          ELSE /\ wlkAt' = WlkGo(wlkAt, WlkReversePath(WlkFront(e.path), WlkLast(q).path))
               /\ UNCHANGED wlkPc
       /\ wlkQ' = q /\ wlkVisit' = S /\ UNCHANGED wlkKnown
    \/ /\ ~WlkIsE(e.at) /\ e.path # <<>> /\ next # <<>>
       /\ LET m == WlkLast(e.path)
              p == WlkGo(wlkAt, <<m>>)
              x == e.at[2]
              by == WlkShift(m, x, p)
              shift(c) == <<c[1], c[2] + by>>
          IN  /\ wlkAt' = p
              /\ wlkKnown' = WlkDraw(m, x, p)
              /\ wlkQ' = [i \in DOMAIN q |-> [q[i] EXCEPT !.at = shift(@)]]
              /\ wlkVisit' = {shift(c) : c \in S}
       /\ UNCHANGED wlkPc

\* The turn goes one of the four ways.
LEMMA WlkTurnIs ==
    ASSUME WlkTurn, NEW e, e = WlkLast(wlkQ), NEW next, next = WlkFreshMoves(e.at)
    PROVE  /\ wlkPc = "walk" /\ wlkQ # <<>> /\ wlkOpen' = wlkOpen /\ wlkEnd' = wlkEnd
           /\ \/ WlkAtFlag(e) \/ WlkAtStart(e, next) \/ \E q : WlkAtDeadEnd(e, next, q)
              \/ \E m, p, by : WlkAtDraw(e, next, m, p, by)
  <1>1. wlkPc = "walk" /\ wlkQ # <<>> /\ wlkOpen' = wlkOpen /\ wlkEnd' = wlkEnd
    BY DEF WlkTurn
  <1>2. PICK q, S : q = WlkQueue(e.at, e.path, next) /\ S = WlkSeenNow(e.at, next)
    OBVIOUS
  <1>3. WlkAsTurn(e, next, q, S)
    <2>1. WlkAsTurn(WlkLast(wlkQ), WlkFreshMoves(WlkLast(wlkQ).at),
                    WlkQueue(WlkLast(wlkQ).at, WlkLast(wlkQ).path, WlkFreshMoves(WlkLast(wlkQ).at)),
                    WlkSeenNow(WlkLast(wlkQ).at, WlkFreshMoves(WlkLast(wlkQ).at)))
      BY DEF WlkTurn, WlkAsTurn, WlkAtFlag, WlkDraw, WlkQueue, WlkChildren, WlkSeenNow
    <2> QED
      BY <1>2, <2>1
  <1>4. CASE WlkAtFlag(e)
    BY <1>1, <1>4
  <1>5. CASE /\ ~WlkIsE(e.at) /\ e.path = <<>>
             /\ wlkQ' = q /\ wlkVisit' = S /\ UNCHANGED <<wlkPc, wlkAt, wlkKnown>>
    BY <1>1, <1>2, <1>5 DEF WlkAtStart
  <1>6. CASE /\ ~WlkIsE(e.at) /\ e.path # <<>> /\ next = <<>>
             /\ IF q = <<>> THEN wlkPc' = "error" /\ UNCHANGED wlkAt
                ELSE /\ wlkAt' = WlkGo(wlkAt, WlkReversePath(WlkFront(e.path), WlkLast(q).path))
                     /\ UNCHANGED wlkPc
             /\ wlkQ' = q /\ wlkVisit' = S /\ UNCHANGED wlkKnown
    <2>1. WlkAtDeadEnd(e, next, q)
      BY <1>2, <1>6 DEF WlkAtDeadEnd
    <2> QED
      BY <1>1, <2>1
  <1>7. CASE /\ ~WlkIsE(e.at) /\ e.path # <<>> /\ next # <<>>
             /\ LET m == WlkLast(e.path)
                    p == WlkGo(wlkAt, <<m>>)
                    x == e.at[2]
                    by == WlkShift(m, x, p)
                    shift(c) == <<c[1], c[2] + by>>
                IN  /\ wlkAt' = p
                    /\ wlkKnown' = WlkDraw(m, x, p)
                    /\ wlkQ' = [i \in DOMAIN q |-> [q[i] EXCEPT !.at = shift(@)]]
                    /\ wlkVisit' = {shift(c) : c \in S}
             /\ UNCHANGED wlkPc
    <2>1. PICK m, p, by : m = WlkLast(e.path) /\ p = WlkGo(wlkAt, <<m>>) /\ by = WlkShift(m, e.at[2], p)
      OBVIOUS
    <2>2. /\ wlkAt' = p /\ wlkKnown' = WlkDraw(m, e.at[2], p)
          /\ wlkQ' = [i \in DOMAIN q |-> [q[i] EXCEPT !.at = <<@[1], @[2] + by>>]]
          /\ wlkVisit' = {<<c[1], c[2] + by>> : c \in S} /\ wlkPc' = wlkPc
      BY <1>7, <2>1
    <2>3. WlkAtDraw(e, next, m, p, by)
      BY <1>2, <1>7, <2>1, <2>2 DEF WlkAtDraw, WlkShifted
    <2> QED
      BY <1>1, <2>3
  <1> QED
    BY <1>3, <1>4, <1>5, <1>6, <1>7 DEF WlkAsTurn

\* At the start the client stays where it is and pushes the moves next.
LEMMA WlkStartIsPush ==
    ASSUME NEW T, NEW off, NEW n, NEW V, WlkWalk(T, off, n, V), NEW k, NEW e, NEW t, NEW L, NEW c,
           WlkTop3(T, k, e, t, L, c), NEW next, MapHolds(next, WlkNew(c, V)),
           wlkOpen' = wlkOpen, wlkEnd' = wlkEnd, WlkAtStart(e, next)
    PROVE  WlkPush(T, off, n, V, k, e, t, L, c, next, off, n)
  <1>1. e.path = <<>> /\ wlkQ' = WlkQueue(e.at, e.path, next) /\ wlkVisit' = WlkSeenNow(e.at, next)
        /\ wlkAt' = wlkAt /\ wlkKnown' = wlkKnown
    BY DEF WlkAtStart
  <1>2. L = 0
    <2>1. L = Len(e.path) /\ Len(<<>>) = 0
      BY DEF WlkTop3
    <2> QED
      BY <1>1, <2>1
  <1>3. k = 1 /\ wlkAt = c /\ c # wlkEnd /\ WlkSees(wlkKnown, off, n, wlkAt)
    BY <1>2, WlkTopFacts
  <1>4. WlkPushed(T, k, e, c, next, wlkQ', off)
    <2>1. PICK q : q = wlkQ'
      OBVIOUS
    <2>2. WlkPushed(T, k, e, c, next, q, off)
      BY <1>1, <2>1, WlkQueueIs
    <2> QED
      BY <2>1, <2>2
  <1>5. wlkVisit' = {WlkMoved(v, off) : v \in WlkReached(c, V)}
    BY <1>1, WlkVisitIs
  <1>6. WlkDrawn(wlkKnown', off, n)
    BY <1>1 DEF WlkWalk
  <1> QED
    BY <1>1, <1>3, <1>4, <1>5, <1>6 DEF WlkPush, WlkReached

\* In a dead end nothing is pushed, and the way back ends where the entry below begins.
LEMMA WlkDeadEndIsPush ==
    ASSUME NEW T, NEW off, NEW n, NEW V, WlkWalk(T, off, n, V), NEW k, NEW e, NEW t, NEW L, NEW c,
           WlkTop3(T, k, e, t, L, c), NEW next, MapHolds(next, WlkNew(c, V)),
           wlkOpen' = wlkOpen, wlkEnd' = wlkEnd, NEW q, WlkAtDeadEnd(e, next, q)
    PROVE  WlkPush(T, off, n, V, k, e, t, L, c, next, off, n)
  <1>1. /\ ~WlkIsE(e.at) /\ e.path # <<>> /\ next = <<>> /\ q = WlkQueue(e.at, e.path, next)
        /\ q = <<>> => wlkAt' = wlkAt
        /\ q # <<>> => wlkAt' = WlkGo(wlkAt, WlkReversePath(WlkFront(e.path), WlkLast(q).path))
        /\ wlkQ' = q /\ wlkVisit' = WlkSeenNow(e.at, next) /\ wlkKnown' = wlkKnown
    BY DEF WlkAtDeadEnd
  <1>2. c # wlkEnd
    BY <1>1, WlkTopSeen
  <1>3. WlkPushed(T, k, e, c, next, q, off)
    BY <1>1, WlkQueueIs
  <1>4. /\ k = Len(wlkQ) /\ k \in Nat /\ k >= 1 /\ e = wlkQ[k] /\ t = T[k] /\ L = Len(e.path) /\ L \in Nat /\ c = t[L]
        /\ e \in WlkEntries
    BY DEF WlkTop3
  <1>5. L >= 1
    <2>1. e.path \in Seq(MapMoves)
      BY <1>4 DEF WlkEntries
    <2>2. L \in Nat \ {0}
      BY <1>1, <1>4, <2>1, EmptySeq
    <2> QED
      BY <2>2
  <1>6. q \in Seq(WlkEntries) /\ Len(q) = k - 1 /\ \A i \in 1 .. k - 1 : q[i].path = wlkQ[i].path
    <2>1. Len(next) = 0
      BY <1>1
    <2>2. q \in Seq(WlkEntries) /\ Len(q) = (k - 1) + Len(next) /\ \A i \in 1 .. k - 1 : q[i].path = wlkQ[i].path
      BY <1>3 DEF WlkPushed
    <2> QED
      BY <1>4, <2>1, <2>2
  <1>7. wlkAt' = IF k = 1 THEN wlkAt ELSE T[k - 1][Len(wlkQ[k - 1].path) - 1]
    <2>1. CASE k = 1
      <3>1. Len(q) = 0
        BY <1>6, <2>1
      <3>2. q = <<>>
        BY <1>6, <3>1, EmptySeq
      <3> QED
        BY <1>1, <2>1, <3>2
    <2>2. CASE k # 1
      <3>1. Len(q) # 0 /\ k - 1 \in 1 .. k - 1 /\ k - 1 \in 1 .. Len(wlkQ) - 1 /\ (k - 1) + 1 = k /\ k - 1 \in 1 .. Len(wlkQ)
        BY <1>4, <1>6, <2>2
      <3>2. q # <<>>
        <4>1. Len(<<>>) = 0
          OBVIOUS
        <4> QED
          BY <3>1, <4>1
      <3>3. PICK a, s, h : a = wlkQ[k - 1].path /\ s = T[k - 1] /\ h = Len(a)
        OBVIOUS
      <3>4. WlkLast(q).path = a
        BY <1>6, <3>1, <3>3 DEF WlkLast
      <3>5. WlkLinked(a, s, e.path, t)
        BY <1>4, <3>1, <3>3 DEF WlkWalk, WlkStackOk
      <3>6. h \in Nat
        <4>1. wlkQ[k - 1] \in WlkEntries
          BY <3>1 DEF WlkWalk, WlkStackOk
        <4> QED
          BY <3>3, <4>1 DEF WlkEntries
      <3>7. h \in 1 .. L /\ t[h - 1] = s[h - 1]
        BY <1>4, <3>3, <3>5, <3>6 DEF WlkLinked
      <3>8. WlkLed(t, e.path) /\ wlkAt = t[L - 1]
        BY <1>5, WlkTopFacts DEF WlkEntryOk
      <3>9. WlkGo(t[L - 1], WlkReversePath(WlkFront(e.path), a)) = t[h - 1]
        <4>1. PICK u : u = e.path
          OBVIOUS
        <4>2. WlkLed(t, u) /\ L = Len(u) /\ h = Len(a) /\ h \in 1 .. L
          BY <1>4, <3>3, <3>7, <3>8, <4>1
        <4>3. WlkGo(t[L - 1], WlkReversePath(WlkFront(u), a)) = t[h - 1]
          BY ONLY <4>2, WlkGoBack
        <4> QED
          BY <4>1, <4>3
      <3>10. wlkAt' = s[h - 1]
        BY <1>1, <3>2, <3>4, <3>7, <3>8, <3>9
      <3> QED
        BY <2>2, <3>3, <3>10
    <2> QED
      BY <2>1, <2>2
  <1>8. wlkVisit' = {WlkMoved(v, off) : v \in WlkReached(c, V)}
    BY <1>1, WlkVisitIs
  <1>9. WlkDrawn(wlkKnown', off, n)
    BY <1>1 DEF WlkWalk
  <1> QED
    BY <1>1, <1>2, <1>3, <1>7, <1>8, <1>9 DEF WlkPush, WlkReached

\* A step that goes on draws the map and pushes the moves next.
LEMMA WlkDrawIsPush ==
    ASSUME NEW T, NEW off, NEW n, NEW V, WlkWalk(T, off, n, V), NEW k, NEW e, NEW t, NEW L, NEW c,
           WlkTop3(T, k, e, t, L, c), NEW next, MapHolds(next, WlkNew(c, V)),
           wlkOpen' = wlkOpen, wlkEnd' = wlkEnd, NEW m, NEW p, NEW by, WlkAtDraw(e, next, m, p, by)
    PROVE  \E n2 : WlkPush(T, off, n, V, k, e, t, L, c, next, off - by, n2)
  <1>1. /\ ~WlkIsE(e.at) /\ e.path # <<>> /\ next # <<>>
        /\ m = WlkLast(e.path) /\ p = WlkGo(wlkAt, <<m>>) /\ by = WlkShift(m, e.at[2], p)
        /\ wlkAt' = p /\ wlkKnown' = WlkDraw(m, e.at[2], p)
        /\ wlkQ' = WlkShifted(WlkQueue(e.at, e.path, next), by)
        /\ wlkVisit' = {<<x[1], x[2] + by>> : x \in WlkSeenNow(e.at, next)}
    BY DEF WlkAtDraw
  <1>2. c # wlkEnd
    BY <1>1, WlkTopSeen
  <1>3. L = Len(e.path) /\ L \in Nat /\ e \in WlkEntries
    BY DEF WlkTop3
  <1>4. L >= 1
    <2>1. e.path \in Seq(MapMoves)
      BY <1>3 DEF WlkEntries
    <2>2. L \in Nat \ {0}
      BY <1>1, <1>3, <2>1, EmptySeq
    <2> QED
      BY <2>2
  <1>5. /\ c \in wlkOpen /\ WlkInside(c) /\ e.at = WlkMoved(c, off) /\ WlkInside(wlkAt)
        /\ WlkSees(wlkKnown, off, n, wlkAt) /\ c = WlkStep(wlkAt, e.path[L]) /\ e.path[L] \in MapMoves /\ off \in Int
    BY <1>4, WlkTopFacts
  <1>6. m = e.path[L] /\ m \in MapMoves
    BY <1>1, <1>3, <1>5 DEF WlkLast
  <1>7. p = c
    <2>1. WlkGo(wlkAt, <<m>>) = c
      BY <1>5, <1>6, WlkGoOne
    <2> QED
      BY <1>1, <2>1
  <1>8. PICK X : X = e.at[2] /\ X = c[2] - off
    BY <1>5 DEF WlkMoved
  <1>9. by \in Int
    <2>1. WlkShift(m, X, p) \in Int
      BY DEF WlkShift
    <2> QED
      BY <1>1, <1>8, <2>1
  <1>10. PICK n2 : WlkGrown(off, n, wlkKnown', off - by, n2, c)
    <2>1. \E n2 : WlkGrown(off, n, WlkDraw(m, X, c), off - WlkShift(m, X, c), n2, c)
      <3>1. WlkDrawn(wlkKnown, off, n)
        BY DEF WlkWalk
      <3> QED
        BY <1>5, <1>6, <1>8, <3>1, WlkDrawnStep
    <2> QED
      BY <1>1, <1>7, <1>8, <2>1
  <1>11. PICK K : K = wlkKnown'
    OBVIOUS
  <1>12. /\ WlkDrawn(K, off - by, n2) /\ WlkSees(K, off - by, n2, c)
         /\ \A x : WlkInside(x) /\ WlkSees(wlkKnown, off, n, x) => WlkSees(K, off - by, n2, x)
    BY <1>10, <1>11, WlkGrownShows
  <1>13. WlkPushed(T, k, e, c, next, wlkQ', off - by)
    <2>1. PICK q, r : q = WlkQueue(e.at, e.path, next) /\ r = WlkShifted(q, by)
      OBVIOUS
    <2>2. WlkPushed(T, k, e, c, next, q, off)
      BY <2>1, WlkQueueIs
    <2>3. WlkPushed(T, k, e, c, next, r, off - by)
      BY <1>9, <2>1, <2>2, WlkShiftedIs
    <2> QED
      BY <1>1, <2>1, <2>3
  <1>14. wlkVisit' = {WlkMoved(v, off - by) : v \in WlkReached(c, V)}
    BY <1>1, <1>9, WlkVisitIs
  <1>15. WlkPush(T, off, n, V, k, e, t, L, c, next, off - by, n2)
    BY <1>1, <1>2, <1>7, <1>11, <1>12, <1>13, <1>14 DEF WlkPush, WlkReached
  <1> QED
    BY <1>15

\* The first window K around cell s.
WlkFirstMap(s) ==
    [y \in 0 .. WlkH - 1 |-> IF y \in WlkRows(s) THEN WlkSeen(s) ELSE [i \in DOMAIN WlkSeen(s) |-> WlkPad]]

\* The first window is a map of the maze.
LEMMA WlkFirstDrawn ==
    ASSUME NEW s, WlkInside(s), NEW K, K = WlkFirstMap(s), NEW off, off = WlkFirst(s)
    PROVE  \E n : WlkDrawn(K, off, n) /\ WlkSees(K, off, n, s)
  <1>1. PICK y, x : s = <<y, x>> /\ y \in 1 .. WlkH - 2 /\ x \in 1 .. WlkW - 2
    BY WlkInsideIs
  <1>2. PICK w, e, n : w = WlkWest(x) /\ e = WlkEast(x) /\ n = e - w + 1
    OBVIOUS
  <1>3. /\ WlkH \in Nat /\ WlkW \in Nat /\ w \in 0 .. x - 1 /\ e \in x + 1 .. WlkW - 1 /\ off = w
        /\ WlkTop(y) \in 0 .. y - 1 /\ WlkBottom(y) \in y + 1 .. WlkH - 1 /\ y \in Int /\ x \in Int
    BY <1>1, <1>2, WlkWindowIs, WlkWindowBounds, WlkSizesAssumption
  <1>4. off \in Nat /\ n \in Nat /\ off + n <= WlkW
    BY <1>2, <1>3
  <1>5. PICK seen : seen = WlkSeen(s) /\ seen \in Seq(Int) /\ Len(seen) = n /\ \A i \in 1 .. n : seen[i] = w + i - 1
    BY <1>1, <1>2, WlkSeenIs
  <1>6. WlkRowOk(seen, off, n)
    BY <1>3, <1>5 DEF WlkRowOk
  <1>7. PICK pad : pad = [i \in 1 .. n |-> WlkPad]
    OBVIOUS
  <1>8. WlkRowOk(pad, off, n)
    <2>1. WlkPad \in Int
      BY DEF WlkPad
    <2>2. pad \in Seq(Int) /\ Len(pad) = n
      BY <1>4, <1>7, <2>1
    <2> QED
      BY <1>7, <2>2 DEF WlkRowOk
  <1>9. \A z \in 0 .. WlkH - 1 : K[z] = IF z \in WlkRows(s) THEN seen ELSE pad
    <2>1. DOMAIN seen = 1 .. n
      BY <1>5
    <2> QED
      BY <1>5, <1>7, <2>1 DEF WlkFirstMap
  <1>10. K = [z \in 0 .. WlkH - 1 |-> K[z]]
    BY DEF WlkFirstMap
  <1>11. WlkDrawn(K, off, n)
    BY <1>4, <1>6, <1>8, <1>9, <1>10 DEF WlkDrawn
  <1>12. WlkSees(K, off, n, s)
    <2> SUFFICES ASSUME NEW z \in WlkRows(s), NEW c \in w .. e PROVE WlkHas(K[z], off, n, c)
      BY <1>1, <1>2, WlkWindowIs DEF WlkSees
    <2>1. z \in 0 .. WlkH - 1
      BY <1>1, <1>3, WlkWindowIs
    <2>2. K[z] = seen
      BY <1>9, <2>1
    <2>3. c - off + 1 \in 1 .. n /\ w + (c - off + 1) - 1 = c
      BY <1>2, <1>3
    <2> QED
      BY <1>5, <2>2, <2>3 DEF WlkHas
  <1> QED
    BY <1>11, <1>12

\* The walk is right from the start.
LEMMA WlkConnectWalks ==
    ASSUME WlkConnect
    PROVE  \E T, off, n, V : WlkWalk(T, off, n, V)'
  <1>1. PICK s, open, end : s = wlkAt' /\ open = wlkOpen' /\ end = wlkEnd'
    OBVIOUS
  <1>2. open \in WlkMazes /\ s \in open /\ end \in open /\ s # end
    BY <1>1 DEF WlkConnect
  <1>3. open \subseteq {p \in MapPlane : WlkInside(p)}
    BY <1>2, WlkMazesAssumption, WlkSizesAssumption DEF WlkInside, MapPlane
  <1>4. PICK off, here : off = WlkFirst(s) /\ here = WlkMoved(s, off)
    OBVIOUS
  <1>5. PICK K, entry : K = WlkFirstMap(s) /\ entry = [at |-> here, path |-> <<>>]
    OBVIOUS
  <1>6. wlkKnown' = K
    BY <1>1, <1>5 DEF WlkConnect, WlkFirstMap
  <1>7. wlkQ' = <<entry>> /\ wlkVisit' = {here}
    BY <1>1, <1>4, <1>5 DEF WlkConnect, WlkMoved
  <1>8. s \in MapPlane /\ WlkInside(s)
    BY <1>2, <1>3
  <1>9. PICK n : WlkDrawn(K, off, n) /\ WlkSees(K, off, n, s)
    BY <1>4, <1>5, <1>8, WlkFirstDrawn
  <1>10. off \in Int
    BY <1>9 DEF WlkDrawn
  <1>11. PICK none : none = <<>> /\ none \in Seq(MapMoves) /\ Len(none) = 0
    BY EmptySeq
  <1>12. entry.at = here /\ entry.path = none /\ entry \in WlkEntries
    <2>1. here \in MapPlane
      BY <1>4, <1>8, <1>10, WlkMovedTwice
    <2> QED
      BY <1>5, <1>11, <2>1 DEF WlkEntries
  <1>13. PICK Q : Q = wlkQ' /\ Q \in Seq(WlkEntries) /\ Len(Q) = 1 /\ Q[1] = entry
    <2>1. <<entry>> \in Seq(WlkEntries) /\ Len(<<entry>>) = 1 /\ <<entry>>[1] = entry
      BY <1>12
    <2> QED
      BY <1>7, <2>1
  <1>14. PICK t, T : t = [j \in {0} |-> s] /\ T = [i \in {1} |-> t]
    OBVIOUS
  <1>15. t[0] = s /\ T[1] = t
    BY <1>14
  <1>16. WlkFrom(t, none) = s
    BY <1>11, <1>15 DEF WlkFrom
  <1>17. WlkLed(t, none)'
    <2>1. \A i \in 0 .. 0 : i = 0
      OBVIOUS
    <2>2. \A i \in 0 .. Len(none) : t[i] \in wlkOpen' /\ WlkInside(t[i])
      BY <1>1, <1>2, <1>8, <1>11, <1>15, <2>1
    <2>3. \A i \in 1 .. Len(none) : FALSE
      BY <1>11
    <2> QED
      BY <1>11, <2>2, <2>3 DEF WlkLed
  <1>18. WlkEntryOk(entry, t, off, n)'
    BY <1>1, <1>2, <1>4, <1>6, <1>9, <1>11, <1>12, <1>15, <1>16, <1>17 DEF WlkEntryOk
  <1>19. WlkStackOk(T, off, n)'
    <2>1. \A i \in 1 .. 1 : i = 1
      OBVIOUS
    <2>2. \A i \in 1 .. 1 - 1 : FALSE
      OBVIOUS
    <2>3. (\A i \in 1 .. Len(wlkQ) : WlkEntryOk(wlkQ[i], T[i], off, n))'
      BY <1>13, <1>15, <1>18, <2>1
    <2>4. \A i \in 1 .. Len(wlkQ') - 1 : WlkLinked(wlkQ'[i].path, T[i], wlkQ'[i + 1].path, T[i + 1])
      BY <1>13, <2>2
    <2>5. wlkAt' = WlkFrom(T[Len(wlkQ')], wlkQ'[Len(wlkQ')].path)
      BY <1>1, <1>12, <1>13, <1>15, <1>16
    <2> QED
      BY <1>13, <2>3, <2>4, <2>5 DEF WlkStackOk
  <1>20. WlkVisited(T, off, {s})'
    <2>1. \A i \in 1 .. Len(wlkQ'), j \in Nat : j <= Len(wlkQ'[i].path) => T[i][j] \in {s}
      <3>1. \A i \in 1 .. 1 : i = 1
        OBVIOUS
      <3>2. \A j \in Nat : j <= 0 => j = 0
        OBVIOUS
      <3> QED
        BY <1>11, <1>12, <1>13, <1>15, <3>1, <3>2
    <2>2. \A v \in {s} : \E i \in 1 .. Len(wlkQ') : T[i][Len(wlkQ'[i].path)] = v
      <3>1. 1 \in 1 .. Len(wlkQ') /\ T[1][Len(wlkQ'[1].path)] = s
        BY <1>11, <1>12, <1>13, <1>15
      <3> QED
        BY <3>1
    <2>3. {s} \subseteq wlkOpen' /\ wlkAt' \in {s} /\ wlkVisit' = {WlkMoved(v, off) : v \in {s}}
      BY <1>1, <1>2, <1>4, <1>7
    <2> QED
      BY <2>1, <2>2, <2>3 DEF WlkVisited
  <1>21. WlkWalk(T, off, n, {s})'
    BY <1>1, <1>2, <1>3, <1>6, <1>9, <1>19, <1>20 DEF WlkWalk
  <1> QED
    BY <1>21

\* The walk is right for some traces, columns and visited cells.
WlkGood == \E T, off, n, V : WlkWalk(T, off, n, V)

\* The inductive invariant of the walk.
WlkIInv ==
    /\ wlkPc \in {"off", "walk", "flag", "end", "error"}
    /\ wlkPc = "walk" => WlkGood
    /\ WlkMapRight
    /\ WlkFinds

\* A map of the maze is right.
LEMMA WlkGoodMap ==
    ASSUME WlkGood
    PROVE  WlkMapRight
  <1>1. PICK off, n : WlkDrawn(wlkKnown, off, n)
    BY DEF WlkGood, WlkWalk
  <1>2. off \in 0 .. WlkW /\ n \in Nat
    BY <1>1, WlkSizesAssumption DEF WlkDrawn
  <1>3. DOMAIN wlkKnown = 0 .. WlkH - 1
    BY <1>1 DEF WlkDrawn
  <1>4. ASSUME NEW y \in 0 .. WlkH - 1
        PROVE  /\ Len(wlkKnown[y]) = Len(wlkKnown[0])
               /\ \A i \in DOMAIN wlkKnown[y] : wlkKnown[y][i] \in {WlkPad, off + i - 1}
    <2>1. 0 \in 0 .. WlkH - 1
      BY WlkSizesAssumption
    <2>2. WlkRowOk(wlkKnown[y], off, n) /\ WlkRowOk(wlkKnown[0], off, n)
      BY <1>1, <2>1 DEF WlkDrawn
    <2> QED
      BY <1>2, <2>2 DEF WlkRowOk
  <1> QED
    BY <1>2, <1>3, <1>4 DEF WlkMapRight

\* With nothing left in q, all around the visited cells is visited.
LEMMA WlkGoodEmpty ==
    ASSUME WlkGood, wlkQ = <<>>
    PROVE  \E S \in SUBSET wlkOpen :
              /\ wlkAt \in S /\ wlkEnd \notin S
              /\ \A p \in S, m \in {"W", "S", "A", "D"} : WlkStep(p, m) \in wlkOpen => WlkStep(p, m) \in S
  <1>1. PICK T, off, V : WlkVisited(T, off, V)
    BY DEF WlkGood, WlkWalk
  <1>2. \A i \in 1 .. Len(wlkQ) : FALSE
    OBVIOUS
  <1>3. \A v \in V : WlkDone(v, V)
    BY <1>1, <1>2 DEF WlkVisited
  <1>4. V \in SUBSET wlkOpen /\ wlkAt \in V
    BY <1>1 DEF WlkVisited
  <1> QED
    BY <1>3, <1>4 DEF WlkDone, MapMoves

\* Before a turn the player is in place.
LEMMA WlkGoodPlace ==
    ASSUME wlkPc = "walk" => WlkGood
    PROVE  WlkInPlace
  <1> SUFFICES ASSUME wlkPc = "walk", wlkQ # <<>>, WlkLast(wlkQ).path # <<>>
               PROVE  WlkStep(wlkAt, WlkLast(WlkLast(wlkQ).path)) = <<WlkLast(wlkQ).at[1], WlkCol(WlkLast(wlkQ).at)>>
    BY DEF WlkInPlace
  <1>1. PICK T, off, n, V : WlkWalk(T, off, n, V)
    BY DEF WlkGood
  <1>2. PICK k, e, t, L, c : WlkTop3(T, k, e, t, L, c)
    BY <1>1, WlkTopIs
  <1>3. e = WlkLast(wlkQ) /\ L = Len(e.path) /\ L \in Nat /\ e \in WlkEntries
    BY <1>2 DEF WlkTop3
  <1>4. L >= 1
    <2>1. e.path \in Seq(MapMoves) /\ e.path # <<>>
      BY <1>3 DEF WlkEntries
    <2>2. L \in Nat \ {0}
      BY <1>3, <2>1, EmptySeq
    <2> QED
      BY <2>2
  <1>5. c = WlkStep(wlkAt, e.path[L])
    BY <1>1, <1>2, <1>4, WlkTopFacts
  <1>6. e.at[1] = c[1] /\ <<c[1], WlkCol(e.at)>> = c
    BY <1>1, <1>2, WlkTopSeen
  <1> QED
    BY <1>3, <1>5, <1>6 DEF WlkLast

\* A turn keeps the invariant.
LEMMA WlkTurnKeeps ==
    ASSUME WlkGood, WlkMapRight, WlkFinds, WlkTurn
    PROVE  WlkIInv'
  <1>1. PICK T, off, n, V : WlkWalk(T, off, n, V)
    BY DEF WlkGood
  <1>2. PICK next : next = WlkFreshMoves(WlkLast(wlkQ).at)
    OBVIOUS
  <1>3. /\ wlkPc = "walk" /\ wlkQ # <<>> /\ wlkOpen' = wlkOpen /\ wlkEnd' = wlkEnd
        /\ \/ WlkAtFlag(WlkLast(wlkQ)) \/ WlkAtStart(WlkLast(wlkQ), next)
           \/ \E q : WlkAtDeadEnd(WlkLast(wlkQ), next, q)
           \/ \E m, p, by : WlkAtDraw(WlkLast(wlkQ), next, m, p, by)
    BY <1>2, WlkTurnIs
  <1>4. PICK k, e, t, L, c : WlkTop3(T, k, e, t, L, c)
    BY <1>1, <1>3, WlkTopIs
  <1>5. e = WlkLast(wlkQ) /\ L = Len(e.path) /\ L \in Nat /\ e \in WlkEntries
    BY <1>4 DEF WlkTop3
  <1>6. MapHolds(next, WlkNew(c, V))
    BY <1>1, <1>2, <1>4, <1>5, WlkNextIs
  <1>7. CASE WlkAtFlag(e)
    <2>1. /\ WlkIsE(e.at) /\ wlkAt' = WlkGo(wlkAt, <<WlkLast(e.path)>>)
          /\ wlkPc' = "flag" /\ wlkKnown' = wlkKnown
      BY <1>7 DEF WlkAtFlag
    <2>2. c = wlkEnd
      BY <1>1, <1>4, <2>1, WlkTopSeen
    <2>3. L >= 1
      <3>1. L # 0
        BY <1>1, <1>4, <2>2, WlkTopFacts
      <3> QED
        BY <1>5, <3>1
    <2>4. c \in wlkOpen /\ c = WlkStep(wlkAt, e.path[L])
      BY <1>1, <1>4, <2>3, WlkTopFacts
    <2>5. WlkLast(e.path) = e.path[L]
      BY <1>5 DEF WlkLast
    <2>6. wlkAt' = wlkEnd'
      <3>1. WlkGo(wlkAt, <<e.path[L]>>) = c
        BY <2>4, WlkGoOne
      <3> QED
        BY <1>3, <2>1, <2>2, <2>5, <3>1
    <2>7. WlkMapRight'
      BY <2>1 DEF WlkMapRight
    <2> QED
      BY <2>1, <2>6, <2>7 DEF WlkIInv, WlkFinds
  <1>8. \A off2, n2 : WlkPush(T, off, n, V, k, e, t, L, c, next, off2, n2) => WlkGood'
    <2> SUFFICES ASSUME NEW off2, NEW n2, WlkPush(T, off, n, V, k, e, t, L, c, next, off2, n2) PROVE WlkGood'
      OBVIOUS
    <2>1. PICK T2, V2 : T2 = WlkTraces(T, k, t, L, c, next) /\ V2 = WlkReached(c, V)
      OBVIOUS
    <2>2. WlkWalk(T2, off2, n2, V2)'
      BY <2>1, WlkPushKeeps
    <2> QED
      BY <2>2 DEF WlkGood
  <1>9. CASE WlkAtStart(e, next)
    <2>1. WlkGood'
      BY <1>1, <1>3, <1>4, <1>6, <1>8, <1>9, WlkStartIsPush
    <2>2. wlkPc' = "walk"
      BY <1>3, <1>9 DEF WlkAtStart
    <2>3. WlkMapRight'
      BY <2>1, WlkGoodMap, PTL
    <2> QED
      BY <2>1, <2>2, <2>3 DEF WlkIInv, WlkFinds
  <1>10. CASE \E q : WlkAtDeadEnd(e, next, q)
    <2>1. PICK q : WlkAtDeadEnd(e, next, q)
      BY <1>10
    <2>2. WlkGood'
      BY <1>1, <1>3, <1>4, <1>6, <1>8, <2>1, WlkDeadEndIsPush
    <2>3. WlkMapRight'
      BY <2>2, WlkGoodMap, PTL
    <2>4. CASE q = <<>>
      <3>1. wlkPc' = "error" /\ wlkQ' = <<>>
        BY <2>1, <2>4 DEF WlkAtDeadEnd
      <3>2. (WlkGood /\ wlkQ = <<>>)'
        BY <2>2, <3>1
      <3>3. (\E S \in SUBSET wlkOpen :
              /\ wlkAt \in S /\ wlkEnd \notin S
              /\ \A p \in S, m \in {"W", "S", "A", "D"} : WlkStep(p, m) \in wlkOpen => WlkStep(p, m) \in S)'
        BY <3>2, WlkGoodEmpty, PTL
      <3> QED
        BY <2>3, <3>1, <3>3 DEF WlkIInv, WlkFinds
    <2>5. CASE q # <<>>
      <3>1. wlkPc' = "walk"
        BY <1>3, <2>1, <2>5 DEF WlkAtDeadEnd
      <3> QED
        BY <2>2, <2>3, <3>1 DEF WlkIInv, WlkFinds
    <2> QED
      BY <2>4, <2>5
  <1>11. CASE \E m, p, by : WlkAtDraw(e, next, m, p, by)
    <2>1. PICK m, p, by : WlkAtDraw(e, next, m, p, by)
      BY <1>11
    <2>2. WlkGood'
      BY <1>1, <1>3, <1>4, <1>6, <1>8, <2>1, WlkDrawIsPush
    <2>3. wlkPc' = "walk"
      BY <1>3, <2>1 DEF WlkAtDraw
    <2>4. WlkMapRight'
      BY <2>2, WlkGoodMap, PTL
    <2> QED
      BY <2>2, <2>3, <2>4 DEF WlkIInv, WlkFinds
  <1> QED
    BY <1>3, <1>5, <1>7, <1>9, <1>10, <1>11

\* It holds before the client connects.
LEMMA WlkInitIInv == WlkInit => WlkIInv
  <1> SUFFICES ASSUME WlkInit PROVE WlkIInv
    OBVIOUS
  <1>1. wlkPc = "off" /\ wlkKnown = [y \in 0 .. WlkH - 1 |-> <<>>]
    BY DEF WlkInit
  <1>2. WlkMapRight
    <2>1. 0 \in 0 .. WlkW
      BY WlkSizesAssumption
    <2>2. ASSUME NEW y \in 0 .. WlkH - 1
          PROVE  /\ Len(wlkKnown[y]) = Len(wlkKnown[0])
                 /\ \A i \in DOMAIN wlkKnown[y] : wlkKnown[y][i] \in {WlkPad, 0 + i - 1}
      <3>1. 0 \in 0 .. WlkH - 1
        BY WlkSizesAssumption
      <3>2. wlkKnown[y] = <<>> /\ wlkKnown[0] = <<>>
        BY <1>1, <3>1
      <3>3. DOMAIN wlkKnown[y] = {}
        BY <3>2
      <3> QED
        BY <3>2, <3>3
    <2>3. DOMAIN wlkKnown = 0 .. WlkH - 1
      BY <1>1
    <2> QED
      BY <2>1, <2>2, <2>3 DEF WlkMapRight
  <1> QED
    BY <1>1, <1>2 DEF WlkIInv, WlkFinds

\* Every step keeps it.
LEMMA WlkNextIInv == WlkIInv /\ [WlkNext]_wlkVars => WlkIInv'
  <1> SUFFICES ASSUME WlkIInv, [WlkNext]_wlkVars PROVE WlkIInv'
    OBVIOUS
  <1>1. CASE WlkConnect
    <2>1. WlkGood' /\ wlkPc' = "walk"
      BY <1>1, WlkConnectWalks DEF WlkGood, WlkConnect
    <2>2. WlkMapRight'
      BY <2>1, WlkGoodMap, PTL
    <2> QED
      BY <2>1, <2>2 DEF WlkIInv, WlkFinds
  <1>2. CASE WlkTurn
    <2>1. WlkGood /\ WlkMapRight /\ WlkFinds
      BY <1>2 DEF WlkIInv, WlkTurn
    <2> QED
      BY <1>2, <2>1, WlkTurnKeeps
  <1>3. CASE WlkGiveUp
    <2>1. /\ wlkPc = "walk" /\ wlkQ = <<>> /\ wlkPc' = "end"
          /\ wlkOpen' = wlkOpen /\ wlkEnd' = wlkEnd /\ wlkAt' = wlkAt /\ wlkKnown' = wlkKnown
      BY <1>3 DEF WlkGiveUp
    <2>2. PICK S \in SUBSET wlkOpen :
              /\ wlkAt \in S /\ wlkEnd \notin S
              /\ \A p \in S, m \in {"W", "S", "A", "D"} : WlkStep(p, m) \in wlkOpen => WlkStep(p, m) \in S
      BY <2>1, WlkGoodEmpty DEF WlkIInv
    <2>3. WlkFinds'
      <3>1. S \in SUBSET wlkOpen' /\ wlkAt' \in S /\ wlkEnd' \notin S
        BY <2>1, <2>2
      <3>2. \A p \in S, m \in {"W", "S", "A", "D"} : WlkStep(p, m) \in wlkOpen' => WlkStep(p, m) \in S
        BY <2>1, <2>2
      <3> QED
        BY <2>1, <3>1, <3>2 DEF WlkFinds
    <2>4. WlkMapRight'
      BY <2>1 DEF WlkIInv, WlkMapRight
    <2> QED
      BY <2>1, <2>3, <2>4 DEF WlkIInv
  <1>4. CASE UNCHANGED wlkVars
    <2>1. /\ wlkPc' = wlkPc /\ wlkOpen' = wlkOpen /\ wlkEnd' = wlkEnd /\ wlkAt' = wlkAt
          /\ wlkKnown' = wlkKnown /\ wlkQ' = wlkQ /\ wlkVisit' = wlkVisit
      BY <1>4 DEF wlkVars
    <2>2. WlkMapRight' /\ WlkFinds'
      BY <2>1 DEF WlkIInv, WlkMapRight, WlkFinds
    <2>3. WlkGood => WlkGood'
      <3> SUFFICES ASSUME NEW T, NEW off, NEW n, NEW V, WlkWalk(T, off, n, V) PROVE WlkWalk(T, off, n, V)'
        BY DEF WlkGood
      <3>1. \A s, path : WlkLed(s, path) => WlkLed(s, path)'
        BY <2>1 DEF WlkLed
      <3>2. \A e, t : WlkEntryOk(e, t, off, n) => WlkEntryOk(e, t, off, n)'
        BY <2>1, <3>1 DEF WlkEntryOk
      <3>3. WlkStackOk(T, off, n)'
        <4>0. PICK q : q = wlkQ
          OBVIOUS
        <4>1. \A i \in 1 .. Len(q) : WlkEntryOk(q[i], T[i], off, n)'
          BY <3>2, <4>0 DEF WlkWalk, WlkStackOk
        <4>2. (\A i \in 1 .. Len(wlkQ) : WlkEntryOk(wlkQ[i], T[i], off, n))'
          BY <2>1, <4>0, <4>1
        <4> QED
          BY <2>1, <4>2 DEF WlkWalk, WlkStackOk
      <3>4. WlkVisited(T, off, V)'
        BY <2>1 DEF WlkWalk, WlkVisited, WlkDone
      <3> QED
        BY <2>1, <3>3, <3>4 DEF WlkWalk
    <2> QED
      BY <2>1, <2>2, <2>3 DEF WlkIInv
  <1> QED
    BY <1>1, <1>2, <1>3, <1>4 DEF WlkNext

\* For any mazes and any window that shows two cells on each side, the map drawn is the
\* maze, each walk back ends at the right branch, and E is found if it can be reached.
LEMMA WlkRightCorrect == WlkSpec => []WlkRight
  <1>1. WlkIInv => WlkRight
    <2>1. WlkIInv => WlkInPlace
      BY WlkGoodPlace DEF WlkIInv
    <2> QED
      BY <2>1 DEF WlkIInv, WlkRight
  <1> QED
    BY <1>1, WlkInitIInv, WlkNextIInv, PTL DEF WlkSpec

\* For mazes of any size, 3-1.py to 3-4.py do what they should: the maze put
\* together is the maze and the moves sent are a shortest way to 'E', unless the first window
\* of 3-3.py begins above the maze; the map drawn on the
\* walk of 3-4.py is the maze, each walk back ends at the right branch, and the walk
\* finds 'E' unless it cannot be reached.
THEOREM MazesRightCorrect == MazeSpec => []MazesRight
  BY MapRightCorrect, WlkRightCorrect, PTL DEF MazeSpec, MazesRight
=============================================================================
