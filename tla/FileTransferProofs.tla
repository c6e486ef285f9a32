------------------------- MODULE FileTransferProofs -------------------------
(***************************************************************************)
(* Proofs about the UDP file transfer of np-lab6, for any number of files, *)
(* any sizes, any limits and a network with any budget of faults.          *)
(***************************************************************************)
EXTENDS FileTransfer, FiniteSetTheorems, SequenceTheorems, WellFoundedInduction, TLAPS

-----------------------------------------------------------------------------
(* Lemmas about the fragmentation.                                         *)

\* Division of a file's size by the fragment size (client.cpp, n and the
\* remainder).
LEMMA DivisionFacts ==
    ASSUME NEW a \in Nat, NEW b \in Nat \ {0}
    PROVE  /\ a \div b \in Nat
           /\ a % b \in Nat
           /\ a % b < b
           /\ a = b * (a \div b) + (a % b)
  OBVIOUS

\* Every file has at least one fragment, and fragments have a length.
LEMMA FragTypes ==
    ASSUME NEW f \in Files
    PROVE  /\ FragCount(f) \in Nat \ {0}
           /\ \A o \in Offsets(f) : FragLen(f, o) \in Nat /\ Fragment(f, o) \in Span
  <1> DEFINE a == FileSize[f]
             q == a \div FragSize
             r == a % FragSize
  <1>1. a \in Nat /\ FragSize \in Nat \ {0}
    BY FileSizeAssumption, FragSizeAssumption
  <1>2. q \in Nat /\ r \in Nat /\ r < FragSize /\ a = FragSize * q + r
    BY <1>1, DivisionFacts
  <1>3. /\ FragCount(f) = IF a < FragSize THEN 1
                           ELSE q + (IF r # 0 THEN 1 ELSE 0)
        /\ \A o : FragLen(f, o) = IF a < FragSize THEN a
                                 ELSE IF o < q THEN FragSize
                                      ELSE a - FragSize * q
    BY DEF FragCount, FragLen
  <1> HIDE DEF a, q, r
  <1>4. FragCount(f) \in Nat \ {0}
    <2>1. ASSUME q = 0 PROVE a < FragSize
      <3>1. FragSize * q = 0
        BY <1>1, <2>1
      <3> QED
        BY <1>1, <1>2, <3>1
    <2> QED
      BY <1>1, <1>2, <1>3, <2>1
  <1>5. ASSUME NEW o \in Offsets(f)
        PROVE  FragLen(f, o) \in Nat /\ Fragment(f, o) \in Span
    <2>1. o \in Nat
      BY <1>4 DEF Offsets
    <2>2. a - FragSize * q = r
      BY <1>1, <1>2
    <2>3. FragLen(f, o) \in Nat
      BY <1>1, <1>2, <1>3, <2>2
    <2>4. o * FragSize \in Nat
      BY <2>1, <1>1
    <2> QED
      BY <2>3, <2>4 DEF Fragment, Span
  <1> QED
    BY <1>4, <1>5

\* The pairs of Frag are the pairs of a file and an offset of it.
LEMMA FragPairs ==
    /\ \A f \in Files : \A o \in Offsets(f) : <<f, o>> \in Frag
    /\ \A fo \in Frag : /\ fo[1] \in Files
                        /\ fo[2] \in Offsets(fo[1])
                        /\ fo = <<fo[1], fo[2]>>
  BY DEF Frag

\* A vector of a file's fragments is neither empty nor "not stored".
LEMMA VectorsDiffer ==
    ASSUME NEW f \in Files, NEW v \in [Offsets(f) -> Span]
    PROVE  v # NoVector /\ v # NotStored
  <1>1. 0 \in Offsets(f) /\ -1 \notin Offsets(f)
    BY FragTypes DEF Offsets
  <1>2. DOMAIN v = Offsets(f) /\ DOMAIN NoVector = {} /\ DOMAIN NotStored = {-1}
    BY DEF NoVector, NotStored
  <1> QED
    BY <1>1, <1>2

LEMMA EmptyTypes == EmptyString \in Span /\ NoVector # NotStored
  <1>1. DOMAIN NoVector = {} /\ DOMAIN NotStored = {-1}
    BY DEF NoVector, NotStored
  <1> QED
    BY <1>1 DEF EmptyString, Span

-----------------------------------------------------------------------------
(* Type correctness.                                                       *)

\* What decompose leaves in fcnt_list[f] is a vector of the file's length.
LEMMA DecomposeType ==
    ASSUME TypeOK, NEW f \in Files, NEW o \in Offsets(f), NEW cut \in BOOLEAN,
           Receive(f, o, cut)
    PROVE  Decompose(f, o, cut) \in [Offsets(f) -> Span]
  <1>1. FragLen(f, o) \in Nat /\ Fragment(f, o) \in Span /\ EmptyString \in Span
    BY FragTypes, EmptyTypes
  <1>2. cut => FragLen(f, o) > 0
    BY FragPairs DEF TypeOK, Receive
  <1>3. Payload(f, o, cut) \in Span
    BY <1>1, <1>2 DEF Payload, Fragment, Span
  <1>4. fcnt_list[f] \in {NoVector} \cup [Offsets(f) -> Span]
    BY DEF TypeOK
  <1> QED
    BY <1>1, <1>3, <1>4 DEF Decompose

LEMMA TypeInit == Init => TypeOK
  <1> SUFFICES ASSUME Init PROVE TypeOK
    OBVIOUS
  <1>1. 0 \in 0 .. num_file /\ 0 \in 0 .. FdLimit
    BY NumFileAssumption, LimitsAssumption
  <1>2. 0 \in 0 .. MaxLoss /\ 0 \in 0 .. MaxDup /\ 0 \in 0 .. MaxDamage
    BY NetworkAssumption
  <1>3. \A f \in Files : record_list[f] \subseteq Offsets(f)
    BY DEF Init
  <1>4. /\ \A f \in Files : fcnt_list[f] \in {NoVector} \cup [Offsets(f) -> Span]
        /\ \A f \in Files : stored[f] \in {NotStored} \cup [Offsets(f) -> Span]
    BY DEF Init
  <1>5. \A fo \in Frag : cutdata[fo] > 0 => FragLen(fo[1], fo[2]) > 0
    BY DEF Init
  <1>6. /\ received_list \in [Files -> BOOLEAN]
        /\ f_stat \in [Files -> BOOLEAN]
        /\ term \in BOOLEAN
    BY DEF Init
  <1>7. /\ packet_list \in [Files -> Nat]
        /\ record_list \in [Files -> SUBSET Nat]
        /\ ACKed \in [Frag -> {-1, 0, 1}]
        /\ data \in [Frag -> Nat]
        /\ cutdata \in [Frag -> Nat]
        /\ acks \in [Frag -> Nat]
    BY DEF Init
  <1>8. DOMAIN fcnt_list = Files /\ DOMAIN stored = Files
    BY DEF Init
  <1> QED
    BY <1>1, <1>2, <1>3, <1>4, <1>5, <1>6, <1>7, <1>8 DEF Init, TypeOK

\* The end of an iteration of the client's send loop keeps the types.
LEMMA AfterRecvType ==
    ASSUME TypeOK, cpc = "await",
           NEW A \in [Frag -> {-1, 0, 1}], AfterRecv(A)
    PROVE  /\ cpc' = "scan" /\ seq_num' = seq_num /\ seq_num \in Files
           /\ offset' \in 0 .. FragCount(seq_num)
           /\ offset' \in Nat
           /\ ACKed' \in [Frag -> {-1, 0, 1}]
           /\ send_failed' \subseteq Frag
           /\ open_dirs' = open_dirs
  <1>1. seq_num \in Files /\ offset \in Offsets(seq_num) /\ <<seq_num, offset>> \in Frag
    BY FragPairs DEF TypeOK
  <1>2. offset' \in 0 .. FragCount(seq_num)
    BY <1>1, FragTypes DEF AfterRecv, Offsets
  <1> QED
    BY <1>1, <1>2, FragTypes DEF AfterRecv, TypeOK

LEMMA TypeClient == TypeOK /\ ClientStep => TypeOK'
  <1> SUFFICES ASSUME TypeOK, ClientStep PROVE TypeOK'
    OBVIOUS
  <1> USE DEF TypeOK, clientVars, serverVars, tables, netVars, budgets
  <1>1. CASE OpenDir
    BY <1>1, NumFileAssumption, LimitsAssumption DEF OpenDir, Files
  <1>2. CASE OpenFile
    BY <1>2, FragTypes DEF OpenFile
  <1>3. CASE CannotOpen
    BY <1>3 DEF CannotOpen
  <1>4. CASE SkipAcked
    BY <1>4, FragTypes DEF SkipAcked
  <1>5. CASE SendFragment
    <2>1. /\ seq_num \in Files /\ offset \in Offsets(seq_num)
          /\ <<seq_num, offset>> \in Frag
      BY <1>5, FragTypes, FragPairs DEF SendFragment, Offsets
    <2>2. Lookup(<<seq_num, offset>>) \in [Frag -> {-1, 0, 1}]
      BY <2>1 DEF Lookup
    <2>3. data' \in [Frag -> Nat]
      BY <1>5, <2>1 DEF SendFragment
    <2> QED
      BY <1>5, <2>1, <2>2, <2>3 DEF SendFragment
  <1>6. CASE RecvNothing
    <2>1. ACKed \in [Frag -> {-1, 0, 1}]
      OBVIOUS
    <2> QED
      BY <1>6, <2>1, AfterRecvType DEF RecvNothing
  <1>7. CASE RecvTerminate
    BY <1>7 DEF RecvTerminate
  <1>8. CASE NextFile
    BY <1>8, NumFileAssumption DEF NextFile, LastFile, Files
  <1>9. ASSUME NEW g \in Frag, RecvAck(g) PROVE TypeOK'
    <2>1. Credit(g) \in [Frag -> {-1, 0, 1}]
      BY DEF Credit
    <2>2. acks' \in [Frag -> Nat]
      BY <1>9 DEF RecvAck
    <2> QED
      BY <1>9, <2>1, <2>2, AfterRecvType DEF RecvAck
  <1> QED
    BY <1>1, <1>2, <1>3, <1>4, <1>5, <1>6, <1>7, <1>8, <1>9 DEF ClientStep

\* What every way through the server's handler leaves typed: the datagram is
\* taken from the network and the header's count noted.
LEMMA ReceiveType ==
    ASSUME TypeOK, NEW f \in Files, NEW o \in Offsets(f), NEW cut \in BOOLEAN,
           Receive(f, o, cut)
    PROVE  /\ packet_list' \in [Files -> Nat]
           /\ data' \in [Frag -> Nat]
           /\ cutdata' \in [Frag -> Nat]
           /\ \A fo \in Frag : cutdata'[fo] > 0 => cutdata[fo] > 0
           /\ UNCHANGED <<clientVars, term, budgets>>
  <1>1. FragCount(f) \in Nat /\ <<f, o>> \in Frag
    BY FragTypes, FragPairs
  <1>2. packet_list' \in [Files -> Nat] /\ UNCHANGED <<clientVars, term, budgets>>
    BY <1>1 DEF TypeOK, Receive
  <1>3. CASE ~cut
    <2>1. /\ cutdata' = cutdata /\ data[<<f, o>>] > 0
          /\ data' = [data EXCEPT ![<<f, o>>] = @ - 1]
      BY <1>3 DEF Receive
    <2>2. cutdata \in [Frag -> Nat] /\ data \in [Frag -> Nat]
      BY DEF TypeOK
    <2> QED
      BY <1>1, <1>2, <2>1, <2>2
  <1>4. CASE cut
    <2>1. /\ data' = data /\ cutdata[<<f, o>>] > 0
          /\ cutdata' = [cutdata EXCEPT ![<<f, o>>] = @ - 1]
      BY <1>4 DEF Receive
    <2>2. cutdata \in [Frag -> Nat] /\ data \in [Frag -> Nat]
      BY DEF TypeOK
    <2> QED
      BY <1>1, <1>2, <2>1, <2>2
  <1> QED
    BY <1>3, <1>4

LEMMA TypeHandle ==
    ASSUME TypeOK, NEW f \in Files, NEW o \in Offsets(f), NEW cut \in BOOLEAN,
           Handle(f, o, cut)
    PROVE  TypeOK'
  <1>0. Receive(f, o, cut)
    BY DEF Handle, IgnoreDone, Refuse, RejectDamaged, RecordFragment, CompleteFile, Record
  <1>1. /\ packet_list' \in [Files -> Nat]
        /\ data' \in [Frag -> Nat]
        /\ cutdata' \in [Frag -> Nat]
        /\ \A fo \in Frag : cutdata'[fo] > 0 => cutdata[fo] > 0
        /\ UNCHANGED <<clientVars, term, budgets>>
    BY <1>0, ReceiveType
  <1>2. Decompose(f, o, cut) \in [Offsets(f) -> Span]
    BY <1>0, DecomposeType
  <1>3. CountAfterDecompose(f) \in Int
    BY DEF CountAfterDecompose, TypeOK
  <1>4. <<f, o>> \in Frag /\ o \in Nat
    BY FragPairs, FragTypes DEF Offsets
  <1> DEFINE ServerTypes ==
        /\ spc' \in {"loop", "flood", "crashed"}
        /\ received_list' \in [Files -> BOOLEAN]
        /\ record_list' \in [Files -> SUBSET Nat]
        /\ \A h \in Files : record_list'[h] \subseteq Offsets(h)
        /\ DOMAIN fcnt_list' = Files
        /\ \A h \in Files : fcnt_list'[h] \in {NoVector} \cup [Offsets(h) -> Span]
        /\ f_stat' \in [Files -> BOOLEAN]
        /\ f_count' \in Int
        /\ i' \in Nat
        /\ DOMAIN stored' = Files
        /\ \A h \in Files : stored'[h] \in {NotStored} \cup [Offsets(h) -> Span]
        /\ acks' \in [Frag -> Nat]
  <1>5. CASE IgnoreDone(f, o, cut) \/ Refuse(f, o, cut)
    <2>1. ServerTypes
      BY <1>5 DEF TypeOK, IgnoreDone, Refuse
    <2> QED
      BY <1>1, <2>1 DEF TypeOK, clientVars, budgets
  <1>6. CASE RejectDamaged(f, o, cut)
    <2>1. ServerTypes
      BY <1>2, <1>3, <1>6 DEF TypeOK, RejectDamaged
    <2> QED
      BY <1>1, <2>1 DEF TypeOK, clientVars, budgets
  <1>7. ASSUME Record(f, o, cut)
        PROVE  /\ record_list' \in [Files -> SUBSET Nat]
               /\ \A h \in Files : record_list'[h] \subseteq Offsets(h)
               /\ f_stat' \in [Files -> BOOLEAN]
               /\ acks' \in [Frag -> Nat]
    BY <1>4, <1>7, LimitsAssumption DEF TypeOK, Record, SendAcks
  <1>8. CASE RecordFragment(f, o, cut)
    <2>1. ServerTypes
      BY <1>2, <1>3, <1>7, <1>8 DEF TypeOK, RecordFragment
    <2> QED
      BY <1>1, <2>1 DEF TypeOK, clientVars, budgets
  <1>9. CASE CompleteFile(f, o, cut)
    <2>1. ServerTypes
      BY <1>2, <1>3, <1>7, <1>9 DEF TypeOK, CompleteFile, MergePackets, WriteFile
    <2> QED
      BY <1>1, <2>1 DEF TypeOK, clientVars, budgets
  <1> QED
    BY <1>5, <1>6, <1>8, <1>9 DEF Handle

LEMMA TypeNetwork == TypeOK /\ NetworkStep => TypeOK'
  <1> SUFFICES ASSUME TypeOK, NetworkStep PROVE TypeOK'
    OBVIOUS
  <1> USE DEF TypeOK, clientVars, serverVars, tables, netVars, budgets
  <1>1. CASE LoseTerminate
    BY <1>1 DEF LoseTerminate
  <1>2. ASSUME NEW fo \in Frag, LoseData(fo) PROVE TypeOK'
    BY <1>2, NetworkAssumption DEF LoseData
  <1>3. ASSUME NEW fo \in Frag, LoseAck(fo) PROVE TypeOK'
    BY <1>3 DEF LoseAck
  <1>4. ASSUME NEW fo \in Frag, Duplicate(fo) PROVE TypeOK'
    BY <1>4, NetworkAssumption DEF Duplicate
  <1>5. ASSUME NEW fo \in Frag, Damage(fo) PROVE TypeOK'
    BY <1>5, NetworkAssumption DEF Damage
  <1> QED
    BY <1>1, <1>2, <1>3, <1>4, <1>5 DEF NetworkStep

\* Every variable of both programs and of the network keeps its type.
THEOREM TypeCorrect == Spec => []TypeOK
  <1>1. Init => TypeOK
    BY TypeInit
  <1>2. TypeOK /\ [Next]_vars => TypeOK'
    <2> SUFFICES ASSUME TypeOK, [Next]_vars PROVE TypeOK'
      OBVIOUS
    <2>1. CASE ClientStep
      BY <2>1, TypeClient
    <2>2. CASE FloodTerminate
      BY <2>2 DEF FloodTerminate, TypeOK, clientVars, serverVars, tables, budgets
    <2>3. ASSUME NEW f \in Files, NEW o \in Offsets(f), NEW cut \in BOOLEAN,
                 Handle(f, o, cut)
          PROVE  TypeOK'
      BY <2>3, TypeHandle
    <2>4. CASE NetworkStep
      BY <2>4, TypeNetwork
    <2>5. CASE UNCHANGED vars
      BY <2>5 DEF TypeOK, vars, clientVars, serverVars, tables, netVars, budgets
    <2> QED
      BY <2>1, <2>2, <2>3, <2>4, <2>5 DEF Next, ServerStep, Terminated
  <1> QED
    BY <1>1, <1>2, PTL DEF Spec

-----------------------------------------------------------------------------
(* The inductive invariant.                                                *)

ReceivedFiles == {f \in Files : received_list[f]}

\* A completed file has all its fragments recorded.
RecordFull == \A f \in Files : received_list[f] => record_list[f] = Offsets(f)

\* What is recorded of an unfinished file is in its vector, undamaged.
VectorHolds ==
    \A f \in Files : \A o \in Offsets(f) :
        o \in record_list[f] /\ ~received_list[f] =>
            fcnt_list[f] # NoVector /\ fcnt_list[f][o] = Fragment(f, o)

\* An ACK in flight names a recorded fragment.
AcksInFlight ==
    \A f \in Files : \A o \in Offsets(f) : acks[<<f, o>>] > 0 => o \in record_list[f]

\* While the server runs, completed and written are the same thing.
WrittenFiles == spc # "crashed" => \A f \in Files : received_list[f] => stored[f] # NotStored

\* i counts the completed files, and "terminate" is sent when all are.
CountsDone ==
    /\ i = Cardinality(ReceivedFiles)
    /\ spc = "flood" => i = num_file
    /\ term => spc = "flood"
    /\ cpc = "exited" => spc = "flood"

\* A file that is not in progress has no vector, one that is has.
VectorsOpen ==
    /\ \A f \in Files : fcnt_list[f] # NoVector <=> f \in OpenFiles
    /\ f_count = Cardinality(OpenFiles)
    /\ f_count <= MaxOpen + 1

TransferInv ==
    /\ TypeOK
    /\ RecordFull
    /\ VectorHolds
    /\ StoredIntact
    /\ AcksInFlight
    /\ AckSound
    /\ WrittenFiles
    /\ CountsDone
    /\ VectorsOpen

LEMMA FiniteFacts ==
    /\ IsFiniteSet(Files)
    /\ Cardinality(Files) = num_file
    /\ IsFiniteSet(OpenFiles) /\ Cardinality(OpenFiles) \in Nat
    /\ IsFiniteSet(ReceivedFiles) /\ Cardinality(ReceivedFiles) \in Nat
    /\ \A f \in Files : IsFiniteSet(Offsets(f)) /\ Cardinality(Offsets(f)) = FragCount(f)
  <1>1. IsFiniteSet(Files) /\ Cardinality(Files) = num_file
    <2>1. IsFiniteSet(0 .. num_file - 1)
          /\ Cardinality(0 .. num_file - 1) = IF 0 > num_file - 1 THEN 0 ELSE (num_file - 1) - 0 + 1
      BY NumFileAssumption, FS_Interval
    <2> QED
      BY <2>1, NumFileAssumption DEF Files
  <1>2. ASSUME NEW f \in Files
        PROVE  IsFiniteSet(Offsets(f)) /\ Cardinality(Offsets(f)) = FragCount(f)
    <2>1. FragCount(f) \in Nat \ {0}
      BY FragTypes
    <2>2. IsFiniteSet(0 .. FragCount(f) - 1)
          /\ Cardinality(0 .. FragCount(f) - 1)
                = IF 0 > FragCount(f) - 1 THEN 0 ELSE (FragCount(f) - 1) - 0 + 1
      BY <2>1, FS_Interval
    <2> QED
      BY <2>1, <2>2 DEF Offsets
  <1>3. OpenFiles \subseteq Files /\ ReceivedFiles \subseteq Files
    BY DEF OpenFiles, ReceivedFiles
  <1>4. /\ IsFiniteSet(OpenFiles) /\ Cardinality(OpenFiles) \in Nat
        /\ IsFiniteSet(ReceivedFiles) /\ Cardinality(ReceivedFiles) \in Nat
    BY <1>1, <1>3, FS_Subset, FS_CardinalityType
  <1> QED
    BY <1>1, <1>2, <1>4

LEMMA InvInit == Init => TransferInv
  <1> SUFFICES ASSUME Init PROVE TransferInv
    OBVIOUS
  <1>1. TypeOK
    BY TypeInit
  <1>2. ReceivedFiles = {} /\ OpenFiles = {}
    BY DEF Init, ReceivedFiles, OpenFiles
  <1>3. Cardinality({}) = 0
    BY FS_EmptySet
  <1>4. VectorsOpen
    BY <1>2, <1>3, LimitsAssumption DEF Init, VectorsOpen
  <1>5. CountsDone
    BY <1>2, <1>3 DEF Init, CountsDone
  <1>6. RecordFull /\ WrittenFiles
    BY DEF Init, RecordFull, WrittenFiles
  <1>7. VectorHolds
    BY DEF Init, VectorHolds
  <1>8. StoredIntact
    BY DEF Init, StoredIntact
  <1>9. AcksInFlight /\ AckSound
    BY FragPairs DEF Init, AcksInFlight, AckSound
  <1> QED
    BY <1>1, <1>4, <1>5, <1>6, <1>7, <1>8, <1>9 DEF TransferInv

\* The parts of the invariant that speak of the server alone survive every
\* step that leaves the server alone.
LEMMA ServerUnchanged ==
    ASSUME TransferInv,
           UNCHANGED <<spc, received_list, record_list, fcnt_list, f_stat, f_count, i, stored>>
    PROVE  /\ RecordFull' /\ VectorHolds' /\ StoredIntact' /\ WrittenFiles'
           /\ VectorsOpen'
           /\ i' = Cardinality(ReceivedFiles')
           /\ spc' = "flood" => i' = num_file
  <1> USE DEF TransferInv
  <1>1. RecordFull' /\ VectorHolds'
    BY DEF RecordFull, VectorHolds
  <1>2. StoredIntact' /\ WrittenFiles'
    BY DEF StoredIntact, WrittenFiles
  <1>3. VectorsOpen'
    BY DEF VectorsOpen, OpenFiles
  <1>4. i' = Cardinality(ReceivedFiles') /\ (spc' = "flood" => i' = num_file)
    BY DEF CountsDone, ReceivedFiles
  <1> QED
    BY <1>1, <1>2, <1>3, <1>4

LEMMA InvClient == TransferInv /\ ClientStep => TransferInv'
  <1> SUFFICES ASSUME TransferInv, ClientStep PROVE TransferInv'
    OBVIOUS
  <1>1. TypeOK'
    BY TypeClient DEF TransferInv
  <1>2. UNCHANGED serverVars
    BY DEF ClientStep, OpenDir, OpenFile, CannotOpen, SkipAcked, SendFragment,
           RecvNothing, RecvTerminate, NextFile, RecvAck
  <1>3. /\ RecordFull' /\ VectorHolds' /\ StoredIntact' /\ WrittenFiles'
        /\ VectorsOpen'
        /\ i' = Cardinality(ReceivedFiles')
        /\ spc' = "flood" => i' = num_file
    BY <1>2, ServerUnchanged DEF serverVars, tables
  <1>4. term' => spc' = "flood"
    BY <1>2 DEF TransferInv, CountsDone, ClientStep, OpenDir, OpenFile, CannotOpen,
           SkipAcked, SendFragment, RecvNothing, RecvTerminate, NextFile, RecvAck,
           serverVars, netVars
  <1>5. cpc' = "exited" => spc' = "flood"
    BY <1>2 DEF TransferInv, CountsDone, ClientStep, OpenDir, OpenFile, CannotOpen,
           SkipAcked, SendFragment, RecvNothing, RecvTerminate, NextFile, RecvAck,
           AfterRecv, serverVars
  <1>6. record_list' = record_list
    BY <1>2 DEF serverVars, tables
  <1>7. AcksInFlight' /\ AckSound'
    <2> USE DEF TransferInv
    <2>1. CASE \/ OpenDir \/ OpenFile \/ CannotOpen \/ SkipAcked \/ RecvTerminate
               \/ NextFile \/ RecvNothing
      <3>1. ACKed' = ACKed /\ acks' = acks
        BY <2>1 DEF OpenDir, OpenFile, CannotOpen, SkipAcked, RecvTerminate,
                    NextFile, RecvNothing, AfterRecv, netVars
      <3> QED
        BY <1>6, <3>1 DEF AcksInFlight, AckSound
    <2>2. CASE SendFragment
      <3>1. /\ acks' = acks
            /\ ACKed' = [ACKed EXCEPT ![<<seq_num, offset>>] = IF @ = -1 THEN 0 ELSE @]
        BY <2>2 DEF SendFragment, Lookup
      <3>2. \A fo \in Frag : ACKed'[fo] = 1 => ACKed[fo] = 1
        BY <3>1 DEF TypeOK
      <3> QED
        BY <1>6, <3>1, <3>2, FragPairs DEF AcksInFlight, AckSound
    <2>3. ASSUME NEW g \in Frag, RecvAck(g) PROVE AcksInFlight' /\ AckSound'
      <3>1. /\ acks[g] > 0
            /\ acks' = [acks EXCEPT ![g] = @ - 1]
            /\ ACKed' = [ACKed EXCEPT ![g] = 1]
        BY <2>3 DEF RecvAck, AfterRecv, Credit
      <3>2. \A fo \in Frag : acks'[fo] > 0 => acks[fo] > 0
        BY <3>1 DEF TypeOK
      <3>3. \A fo \in Frag : ACKed'[fo] = 1 => ACKed[fo] = 1 \/ acks[fo] > 0
        BY <3>1 DEF TypeOK
      <3> QED
        BY <1>6, <3>2, <3>3, FragPairs DEF AcksInFlight, AckSound
    <2> QED
      BY <2>1, <2>2, <2>3 DEF ClientStep
  <1> QED
    BY <1>1, <1>3, <1>4, <1>5, <1>7 DEF TransferInv, CountsDone

LEMMA InvNetwork == TransferInv /\ NetworkStep => TransferInv'
  <1> SUFFICES ASSUME TransferInv, NetworkStep PROVE TransferInv'
    OBVIOUS
  <1>1. TypeOK'
    BY TypeNetwork DEF TransferInv
  <1>2. UNCHANGED <<clientVars, serverVars>> /\ (term' => term)
    BY DEF NetworkStep, LoseTerminate, LoseData, LoseAck, Duplicate, Damage
  <1>3. /\ RecordFull' /\ VectorHolds' /\ StoredIntact' /\ WrittenFiles'
        /\ VectorsOpen'
        /\ i' = Cardinality(ReceivedFiles')
        /\ spc' = "flood" => i' = num_file
    BY <1>2, ServerUnchanged DEF serverVars, tables
  <1>4. (term' => spc' = "flood") /\ (cpc' = "exited" => spc' = "flood")
    BY <1>2 DEF TransferInv, CountsDone, clientVars, serverVars
  <1>5. record_list' = record_list /\ ACKed' = ACKed
    BY <1>2 DEF clientVars, serverVars, tables
  <1>6. \A fo \in Frag : acks'[fo] > 0 => acks[fo] > 0
    <2> USE DEF TransferInv, TypeOK
    <2>1. CASE LoseTerminate
      BY <2>1 DEF LoseTerminate
    <2>2. ASSUME NEW fo \in Frag, LoseAck(fo)
          PROVE  \A g \in Frag : acks'[g] > 0 => acks[g] > 0
      BY <2>2 DEF LoseAck
    <2>3. ASSUME NEW fo \in Frag, LoseData(fo) \/ Duplicate(fo) \/ Damage(fo)
          PROVE  acks' = acks
      BY <2>3 DEF LoseData, Duplicate, Damage
    <2> QED
      BY <2>1, <2>2, <2>3 DEF NetworkStep
  <1>7. AcksInFlight' /\ AckSound'
    BY <1>5, <1>6, FragPairs DEF TransferInv, AcksInFlight, AckSound
  <1> QED
    BY <1>1, <1>3, <1>4, <1>7 DEF TransferInv, CountsDone

\* After decompose the vector of an unfinished file holds all that is
\* recorded, and the fragment just received if its size is right.
LEMMA DecomposeHolds ==
    ASSUME TransferInv, NEW f \in Files, NEW o \in Offsets(f), NEW cut \in BOOLEAN,
           Receive(f, o, cut), ~Done(f)
    PROVE  /\ Decompose(f, o, cut) \in [Offsets(f) -> Span]
           /\ Decompose(f, o, cut) # NoVector /\ Decompose(f, o, cut) # NotStored
           /\ \A h \in record_list[f] : Decompose(f, o, cut)[h] = Fragment(f, h)
           /\ SizeMatches(f, o, cut) => Decompose(f, o, cut)[o] = Fragment(f, o)
  <1>1. Decompose(f, o, cut) \in [Offsets(f) -> Span]
    BY DecomposeType DEF TransferInv
  <1>2. record_list[f] \subseteq Offsets(f)
    BY DEF TransferInv, TypeOK
  <1>3. \A h \in record_list[f] : fcnt_list[f] # NoVector /\ fcnt_list[f][h] = Fragment(f, h)
    BY <1>2 DEF TransferInv, VectorHolds, Done
  <1>4. fcnt_list[f] # NoVector => fcnt_list[f] \in [Offsets(f) -> Span]
    BY DEF TransferInv, TypeOK
  <1>5. \A h \in record_list[f] : Decompose(f, o, cut)[h] = Fragment(f, h)
    BY <1>2, <1>3, <1>4 DEF Decompose
  <1>6. ASSUME SizeMatches(f, o, cut), o \notin record_list[f]
        PROVE  Decompose(f, o, cut)[o] = Fragment(f, o)
    <2>1. Decompose(f, o, cut)[o] = Payload(f, o, cut)
      BY <1>4, <1>6 DEF Decompose
    <2>2. FragLen(f, o) \in Nat
      BY FragTypes
    <2>3. Payload(f, o, cut).len = FragLen(f, o)
      BY <1>6, <2>1 DEF SizeMatches
    <2>4. ~cut
      BY <2>2, <2>3 DEF Payload
    <2> QED
      BY <2>1, <2>4 DEF Payload, Fragment
  <1> QED
    BY <1>1, <1>5, <1>6, VectorsDiffer

\* f_count after decompose has admitted a datagram of f.
LEMMA CountAdmitted ==
    ASSUME TransferInv, NEW f \in Files, ~Done(f), ~Refused(f)
    PROVE  /\ CountAfterDecompose(f) = Cardinality(OpenFiles \cup {f})
           /\ CountAfterDecompose(f) \in Nat
           /\ CountAfterDecompose(f) <= MaxOpen + 1
  <1>1. /\ fcnt_list[f] # NoVector <=> f \in OpenFiles
        /\ f_count = Cardinality(OpenFiles)
        /\ f_count <= MaxOpen + 1
    BY DEF TransferInv, VectorsOpen
  <1>2. f \in OpenFiles <=> f_stat[f]
    BY DEF OpenFiles, Done
  <1>3. f \notin OpenFiles => f_count <= MaxOpen
    <2>1. f_count \in Nat
      BY <1>1, FiniteFacts
    <2> QED
      BY <1>2, <2>1, LimitsAssumption DEF Refused
  <1>4. Cardinality(OpenFiles \cup {f})
          = IF f \in OpenFiles THEN Cardinality(OpenFiles) ELSE Cardinality(OpenFiles) + 1
    BY FiniteFacts, FS_AddElement
  <1> QED
    BY <1>1, <1>3, <1>4, FiniteFacts, LimitsAssumption DEF CountAfterDecompose

\* The client's and the network's variables in a step of the handler.
LEMMA HandleFrame ==
    ASSUME NEW f \in Files, NEW o \in Offsets(f), NEW cut \in BOOLEAN,
           Handle(f, o, cut)
    PROVE  /\ Receive(f, o, cut) /\ spc = "loop"
           /\ ACKed' = ACKed /\ cpc' = cpc /\ term' = term
  BY DEF Handle, IgnoreDone, Refuse, RejectDamaged, RecordFragment, CompleteFile,
         Record, Receive, clientVars

LEMMA HandleClient ==
    ASSUME NEW f \in Files, NEW o \in Offsets(f), NEW cut \in BOOLEAN,
           Handle(f, o, cut)
    PROVE  UNCHANGED clientVars
  BY DEF Handle, IgnoreDone, Refuse, RejectDamaged, RecordFragment, CompleteFile,
         Record, Receive

\* A datagram that the handler only looks at.
LEMMA InvIgnored ==
    ASSUME TransferInv, NEW f \in Files, NEW o \in Offsets(f), NEW cut \in BOOLEAN,
           IgnoreDone(f, o, cut) \/ Refuse(f, o, cut)
    PROVE  TransferInv'
  <1>1. TypeOK'
    BY TypeHandle DEF TransferInv, Handle
  <1>2. /\ UNCHANGED <<spc, received_list, record_list, fcnt_list, f_stat, f_count, i, stored>>
        /\ acks' = acks
    BY DEF IgnoreDone, Refuse
  <1>3. ACKed' = ACKed /\ cpc' = cpc /\ term' = term
    BY HandleFrame DEF Handle
  <1>4. /\ RecordFull' /\ VectorHolds' /\ StoredIntact' /\ WrittenFiles'
        /\ VectorsOpen'
        /\ i' = Cardinality(ReceivedFiles')
        /\ spc' = "flood" => i' = num_file
    BY <1>2, ServerUnchanged
  <1>5. CountsDone'
    BY <1>2, <1>3, <1>4 DEF TransferInv, CountsDone
  <1>6. AcksInFlight' /\ AckSound'
    BY <1>2, <1>3 DEF TransferInv, AcksInFlight, AckSound
  <1> QED
    BY <1>1, <1>4, <1>5, <1>6 DEF TransferInv

\* A damaged datagram: the file is opened, the vector is overwritten only
\* where nothing has been recorded.
LEMMA InvRejected ==
    ASSUME TransferInv, NEW f \in Files, NEW o \in Offsets(f), NEW cut \in BOOLEAN,
           RejectDamaged(f, o, cut)
    PROVE  TransferInv'
  <1>1. TypeOK'
    BY TypeHandle DEF TransferInv, Handle
  <1>2. /\ Receive(f, o, cut) /\ ~Done(f) /\ ~Refused(f)
        /\ fcnt_list' = [fcnt_list EXCEPT ![f] = Decompose(f, o, cut)]
        /\ f_count' = CountAfterDecompose(f)
        /\ f_stat' = [f_stat EXCEPT ![f] = TRUE]
        /\ UNCHANGED <<spc, received_list, record_list, i, stored, acks>>
    BY DEF RejectDamaged
  <1>3. ACKed' = ACKed /\ cpc' = cpc /\ term' = term
    BY HandleFrame DEF Handle
  <1>4. /\ Decompose(f, o, cut) # NoVector
        /\ \A h \in record_list[f] : Decompose(f, o, cut)[h] = Fragment(f, h)
    BY <1>2, DecomposeHolds
  <1>5. DOMAIN fcnt_list = Files /\ f_stat \in [Files -> BOOLEAN]
    BY DEF TransferInv, TypeOK
  <1>6. VectorHolds'
    BY <1>2, <1>4, <1>5 DEF TransferInv, VectorHolds
  <1>7. OpenFiles' = OpenFiles \cup {f}
    BY <1>2, <1>5 DEF OpenFiles, Done
  <1>8. VectorsOpen'
    BY <1>2, <1>4, <1>5, <1>7, CountAdmitted DEF TransferInv, VectorsOpen
  <1>9. RecordFull' /\ StoredIntact' /\ WrittenFiles' /\ AcksInFlight' /\ AckSound'
    BY <1>2, <1>3 DEF TransferInv, RecordFull, StoredIntact, WrittenFiles, AcksInFlight, AckSound
  <1>10. CountsDone'
    BY <1>2, <1>3 DEF TransferInv, CountsDone, ReceivedFiles
  <1> QED
    BY <1>1, <1>6, <1>8, <1>9, <1>10 DEF TransferInv

\* ACKs are sent for what is recorded in the same step.
LEMMA RecordAcks ==
    ASSUME TransferInv, NEW f \in Files, NEW o \in Offsets(f), NEW cut \in BOOLEAN,
           Record(f, o, cut), ACKed' = ACKed
    PROVE  AcksInFlight' /\ AckSound'
  <1>1. /\ record_list' = [record_list EXCEPT ![f] = @ \cup {o}]
        /\ acks' = [acks EXCEPT ![<<f, o>>] = @ + AckCopies]
    BY DEF Record, SendAcks
  <1>2. record_list \in [Files -> SUBSET Nat] /\ acks \in [Frag -> Nat] /\ <<f, o>> \in Frag
    BY FragPairs DEF TransferInv, TypeOK
  <1>3. o \in record_list'[f] /\ \A g \in Files : record_list[g] \subseteq record_list'[g]
    BY <1>1, <1>2
  <1>4. \A fo \in Frag : acks'[fo] > 0 => fo = <<f, o>> \/ acks[fo] > 0
    BY <1>1, <1>2
  <1>5. AcksInFlight'
    <2> SUFFICES ASSUME NEW g \in Files, NEW p \in Offsets(g), acks'[<<g, p>>] > 0
                 PROVE  p \in record_list'[g]
      BY DEF AcksInFlight
    <2>1. <<g, p>> \in Frag
      BY FragPairs
    <2> QED
      BY <1>3, <1>4, <2>1 DEF TransferInv, AcksInFlight
  <1>6. AckSound'
    BY <1>3 DEF TransferInv, AckSound
  <1> QED
    BY <1>5, <1>6

\* A fragment of a file that still misses others.
LEMMA InvRecorded ==
    ASSUME TransferInv, NEW f \in Files, NEW o \in Offsets(f), NEW cut \in BOOLEAN,
           RecordFragment(f, o, cut)
    PROVE  TransferInv'
  <1>1. TypeOK'
    BY TypeHandle DEF TransferInv, Handle
  <1>2. /\ Record(f, o, cut) /\ Receive(f, o, cut) /\ ~Done(f) /\ ~Refused(f)
        /\ SizeMatches(f, o, cut)
        /\ record_list' = [record_list EXCEPT ![f] = @ \cup {o}]
        /\ fcnt_list' = [fcnt_list EXCEPT ![f] = Decompose(f, o, cut)]
        /\ f_count' = CountAfterDecompose(f)
        /\ f_stat' = [f_stat EXCEPT ![f] = TRUE]
        /\ UNCHANGED <<spc, received_list, i, stored>>
    BY DEF RecordFragment, Record
  <1>3. ACKed' = ACKed /\ cpc' = cpc /\ term' = term
    BY HandleFrame DEF Handle
  <1>4. /\ Decompose(f, o, cut) # NoVector
        /\ \A h \in record_list[f] \cup {o} : Decompose(f, o, cut)[h] = Fragment(f, h)
    BY <1>2, DecomposeHolds
  <1>5. /\ DOMAIN fcnt_list = Files /\ f_stat \in [Files -> BOOLEAN]
        /\ record_list \in [Files -> SUBSET Nat]
    BY DEF TransferInv, TypeOK
  <1>6. VectorHolds'
    <2> SUFFICES ASSUME NEW g \in Files, NEW p \in Offsets(g),
                        p \in record_list'[g], ~received_list[g]
                 PROVE  fcnt_list'[g] # NoVector /\ fcnt_list'[g][p] = Fragment(g, p)
      BY <1>2 DEF VectorHolds
    <2>1. CASE g = f
      BY <1>2, <1>4, <1>5, <2>1
    <2>2. CASE g # f
      BY <1>2, <1>5, <2>2 DEF TransferInv, VectorHolds
    <2> QED
      BY <2>1, <2>2
  <1>7. OpenFiles' = OpenFiles \cup {f}
    BY <1>2, <1>5 DEF OpenFiles, Done
  <1>8. VectorsOpen'
    BY <1>2, <1>4, <1>5, <1>7, CountAdmitted DEF TransferInv, VectorsOpen
  <1>9. RecordFull'
    BY <1>2, <1>5 DEF TransferInv, RecordFull, Done
  <1>10. StoredIntact' /\ WrittenFiles'
    BY <1>2 DEF TransferInv, StoredIntact, WrittenFiles
  <1>11. CountsDone'
    BY <1>2, <1>3 DEF TransferInv, CountsDone, ReceivedFiles
  <1>12. AcksInFlight' /\ AckSound'
    BY <1>2, <1>3, RecordAcks
  <1> QED
    BY <1>1, <1>6, <1>8, <1>9, <1>10, <1>11, <1>12 DEF TransferInv

\* The last missing fragment: as many recorded fragments as the file has are
\* all its fragments, so the merged vector is the whole file.
LEMMA InvCompleted ==
    ASSUME TransferInv, NEW f \in Files, NEW o \in Offsets(f), NEW cut \in BOOLEAN,
           CompleteFile(f, o, cut)
    PROVE  TransferInv'
  <1> DEFINE vector == Decompose(f, o, cut)
  <1>1. TypeOK'
    BY TypeHandle DEF TransferInv, Handle
  <1>2. /\ Record(f, o, cut) /\ Receive(f, o, cut) /\ ~Done(f) /\ ~Refused(f)
        /\ SizeMatches(f, o, cut)
        /\ record_list' = [record_list EXCEPT ![f] = @ \cup {o}]
        /\ Cardinality(record_list'[f]) = packet_list'[f]
        /\ packet_list' = [packet_list EXCEPT ![f] = FragCount(f)]
        /\ fcnt_list' = [fcnt_list EXCEPT ![f] = NoVector]
        /\ f_count' = CountAfterDecompose(f) - 1
        /\ f_stat' = [f_stat EXCEPT ![f] = TRUE]
        /\ received_list' = [received_list EXCEPT ![f] = TRUE]
        /\ i' = i + 1
        /\ WriteFile(f, vector)
    BY DEF CompleteFile, MergePackets, Record, Receive
  <1>3. ACKed' = ACKed /\ cpc' = cpc /\ term' = term /\ spc = "loop"
    BY HandleFrame DEF Handle
  <1>4. /\ vector \in [Offsets(f) -> Span]
        /\ vector # NotStored
        /\ \A h \in record_list[f] \cup {o} : vector[h] = Fragment(f, h)
    BY <1>2, DecomposeHolds
  <1>5. /\ DOMAIN fcnt_list = Files /\ DOMAIN stored = Files
        /\ f_stat \in [Files -> BOOLEAN] /\ received_list \in [Files -> BOOLEAN]
        /\ record_list \in [Files -> SUBSET Nat]
        /\ packet_list \in [Files -> Nat]
        /\ record_list[f] \subseteq Offsets(f)
        /\ i \in Nat
    BY DEF TransferInv, TypeOK
  <1> HIDE DEF vector
  <1>6. record_list[f] \cup {o} = Offsets(f)
    <2>1. Cardinality(record_list[f] \cup {o}) = Cardinality(Offsets(f))
      BY <1>2, <1>5, FiniteFacts
    <2>2. record_list[f] \cup {o} \in SUBSET Offsets(f)
      BY <1>5
    <2> QED
      BY <2>1, <2>2, FiniteFacts, FS_Subset
  <1>7. vector = Fragments(f)
    BY <1>4, <1>6 DEF Fragments
  <1>8. RecordFull'
    BY <1>2, <1>5, <1>6 DEF TransferInv, RecordFull
  <1>9. VectorHolds'
    <2> SUFFICES ASSUME NEW g \in Files, NEW p \in Offsets(g),
                        p \in record_list'[g], ~received_list'[g]
                 PROVE  fcnt_list'[g] # NoVector /\ fcnt_list'[g][p] = Fragment(g, p)
      BY DEF VectorHolds
    <2>1. g # f
      BY <1>2, <1>5
    <2> QED
      BY <1>2, <1>5, <2>1 DEF TransferInv, VectorHolds
  <1>10. StoredIntact' /\ WrittenFiles'
    BY <1>2, <1>3, <1>4, <1>5, <1>7 DEF TransferInv, StoredIntact, WrittenFiles, WriteFile
  <1>11. AcksInFlight' /\ AckSound'
    BY <1>2, <1>3, RecordAcks
  <1>12. CountsDone'
    <2>1. ReceivedFiles' = ReceivedFiles \cup {f} /\ f \notin ReceivedFiles
      BY <1>2, <1>5 DEF ReceivedFiles, Done
    <2>2. Cardinality(ReceivedFiles') = Cardinality(ReceivedFiles) + 1
      BY <2>1, FiniteFacts, FS_AddElement
    <2>3. spc' = "flood" => i' = num_file
      BY <1>2 DEF WriteFile
    <2>4. ~term /\ cpc # "exited"
      BY <1>3 DEF TransferInv, CountsDone
    <2> QED
      BY <1>2, <1>3, <2>2, <2>3, <2>4 DEF TransferInv, CountsDone
  <1>13. VectorsOpen'
    <2>1. OpenFiles' = (OpenFiles \cup {f}) \ {f}
      BY <1>2, <1>5 DEF OpenFiles
    <2>2. IsFiniteSet(OpenFiles \cup {f})
      BY FiniteFacts, FS_AddElement
    <2>3. Cardinality(OpenFiles') = Cardinality(OpenFiles \cup {f}) - 1
      BY <2>1, <2>2, FS_RemoveElement
    <2>4. /\ CountAfterDecompose(f) = Cardinality(OpenFiles \cup {f})
          /\ CountAfterDecompose(f) \in Nat
          /\ CountAfterDecompose(f) <= MaxOpen + 1
      BY <1>2, CountAdmitted
    <2>5. f_count' = Cardinality(OpenFiles') /\ f_count' <= MaxOpen + 1
      BY <1>2, <2>3, <2>4, LimitsAssumption
    <2>6. \A g \in Files : fcnt_list'[g] # NoVector <=> g \in OpenFiles'
      BY <1>2, <1>5, <2>1 DEF TransferInv, VectorsOpen
    <2> QED
      BY <2>5, <2>6 DEF VectorsOpen
  <1> QED
    BY <1>1, <1>8, <1>9, <1>10, <1>11, <1>12, <1>13 DEF TransferInv

LEMMA InvFlood == TransferInv /\ FloodTerminate => TransferInv'
  <1> SUFFICES ASSUME TransferInv, FloodTerminate PROVE TransferInv'
    OBVIOUS
  <1>1. UNCHANGED <<clientVars, serverVars, data, cutdata, acks, budgets>> /\ spc = "flood"
    BY DEF FloodTerminate
  <1>2. TypeOK'
    BY DEF FloodTerminate, TransferInv, TypeOK, clientVars, serverVars, tables, budgets
  <1>3. /\ RecordFull' /\ VectorHolds' /\ StoredIntact' /\ WrittenFiles'
        /\ VectorsOpen'
        /\ i' = Cardinality(ReceivedFiles')
        /\ spc' = "flood" => i' = num_file
    BY <1>1, ServerUnchanged DEF serverVars, tables
  <1>4. CountsDone'
    BY <1>1, <1>3 DEF CountsDone, serverVars
  <1>5. AcksInFlight' /\ AckSound'
    BY <1>1 DEF TransferInv, AcksInFlight, AckSound, clientVars, serverVars, tables
  <1> QED
    BY <1>2, <1>3, <1>4, <1>5 DEF TransferInv

\* Client and server: TransferInv, from which the properties of both follow,
\* holds whatever the network loses, doubles, reorders or shortens.
THEOREM InvCorrect == Spec => []TransferInv
  <1>1. Init => TransferInv
    BY InvInit
  <1>2. TransferInv /\ [Next]_vars => TransferInv'
    <2> SUFFICES ASSUME TransferInv, [Next]_vars PROVE TransferInv'
      OBVIOUS
    <2>1. CASE ClientStep
      BY <2>1, InvClient
    <2>2. CASE FloodTerminate
      BY <2>2, InvFlood
    <2>3. ASSUME NEW f \in Files, NEW o \in Offsets(f), NEW cut \in BOOLEAN,
                 Handle(f, o, cut)
          PROVE  TransferInv'
      BY <2>3, InvIgnored, InvRejected, InvRecorded, InvCompleted DEF Handle
    <2>4. CASE NetworkStep
      BY <2>4, InvNetwork
    <2>5. CASE UNCHANGED vars
      <3>1. TypeOK'
        BY <2>5 DEF TransferInv, TypeOK, vars, clientVars, serverVars, tables, netVars, budgets
      <3>2. /\ RecordFull' /\ VectorHolds' /\ StoredIntact' /\ WrittenFiles'
            /\ VectorsOpen'
            /\ i' = Cardinality(ReceivedFiles')
            /\ spc' = "flood" => i' = num_file
        BY <2>5, ServerUnchanged DEF vars, serverVars, tables
      <3>3. CountsDone' /\ AcksInFlight' /\ AckSound'
        BY <2>5, <3>2 DEF TransferInv, CountsDone, AcksInFlight, AckSound,
                   vars, clientVars, serverVars, tables, netVars
      <3> QED
        BY <3>1, <3>2, <3>3 DEF TransferInv
    <2> QED
      BY <2>1, <2>2, <2>3, <2>4, <2>5 DEF Next, ServerStep, Terminated
  <1> QED
    BY <1>1, <1>2, PTL DEF Spec

\* Files are written whole and unchanged.
THEOREM StoredIntactCorrect == Spec => []StoredIntact
  <1>1. TransferInv => StoredIntact
    BY DEF TransferInv
  <1> QED
    BY <1>1, InvCorrect, PTL

\* The client skips only fragments the server holds.
THEOREM AckSoundCorrect == Spec => []AckSound
  <1>1. TransferInv => AckSound
    BY DEF TransferInv
  <1> QED
    BY <1>1, InvCorrect, PTL

\* f_count and the vectors agree, and at most MaxOpen + 1 files are open.
THEOREM OpenFilesBoundCorrect == Spec => []OpenFilesBound
  <1>1. TransferInv => OpenFilesBound
    BY DEF TransferInv, VectorsOpen, OpenFilesBound
  <1> QED
    BY <1>1, InvCorrect, PTL

LEMMA TermSoundFollows == TransferInv => TermSound
  <1> SUFFICES ASSUME TransferInv, cpc = "exited", NEW f \in Files
               PROVE  stored[f] = Fragments(f)
    BY DEF TermSound
  <1>1. spc = "flood" /\ Cardinality(ReceivedFiles) = Cardinality(Files)
    BY FiniteFacts DEF TransferInv, CountsDone
  <1>2. ReceivedFiles \in SUBSET Files
    BY DEF ReceivedFiles
  <1>3. ReceivedFiles = Files
    BY <1>1, <1>2, FiniteFacts, FS_Subset
  <1>4. received_list[f]
    BY <1>3 DEF ReceivedFiles
  <1> QED
    BY <1>1, <1>4 DEF TransferInv, WrittenFiles, StoredIntact

\* A client that was told "terminate" has all its files on the other side.
THEOREM TermSoundCorrect == Spec => []TermSound
  BY TermSoundFollows, InvCorrect, PTL

-----------------------------------------------------------------------------
(* The retry map is never filled.                                          *)

RetryInv ==
    /\ TypeOK
    /\ send_failed = {}
    /\ cpc = "await" => ACKed[<<seq_num, offset>>] # -1

\* The loop over send_failed in client.cpp is never entered.
THEOREM RetryQueueEmptyCorrect == Spec => []RetryQueueEmpty
  <1>1. Init => RetryInv
    BY TypeInit DEF Init, RetryInv
  <1>2. RetryInv /\ TypeOK' /\ [Next]_vars => RetryInv'
    <2> SUFFICES ASSUME RetryInv, TypeOK', [Next]_vars PROVE RetryInv'
      OBVIOUS
    <2> USE DEF RetryInv
    <2>1. CASE ClientStep
      <3>1. CASE \/ OpenDir \/ OpenFile \/ CannotOpen \/ SkipAcked \/ RecvTerminate
                 \/ NextFile
        BY <3>1 DEF OpenDir, OpenFile, CannotOpen, SkipAcked, RecvTerminate, NextFile
      <3>2. CASE SendFragment
        <4>1. <<seq_num, offset>> \in Frag
          BY <3>2, FragPairs, FragTypes DEF SendFragment, TypeOK, Offsets
        <4> QED
          BY <3>2, <4>1 DEF SendFragment, Lookup, TypeOK
      <3>3. CASE RecvNothing
        BY <3>3 DEF RecvNothing, AfterRecv
      <3>4. ASSUME NEW g \in Frag, RecvAck(g) PROVE RetryInv'
        <4>1. <<seq_num, offset>> \in Frag
          BY <3>4, FragPairs DEF RecvAck, TypeOK
        <4>2. Credit(g)[<<seq_num, offset>>] # -1
          BY <3>4, <4>1 DEF RecvAck, Credit, TypeOK
        <4> QED
          BY <3>4, <4>2 DEF RecvAck, AfterRecv
      <3> QED
        BY <2>1, <3>1, <3>2, <3>3, <3>4 DEF ClientStep
    <2>2. CASE ServerStep \/ NetworkStep \/ UNCHANGED vars
      <3>1. UNCHANGED clientVars
        BY <2>2, HandleClient DEF ServerStep, FloodTerminate, NetworkStep, LoseTerminate,
           LoseData, LoseAck, Duplicate, Damage, vars
      <3> QED
        BY <3>1 DEF clientVars
    <2> QED
      BY <2>1, <2>2 DEF Next, Terminated
  <1>3. RetryInv => RetryQueueEmpty
    BY DEF RetryInv, RetryQueueEmpty
  <1> QED
    BY <1>1, <1>2, <1>3, TypeCorrect, PTL DEF Spec

-----------------------------------------------------------------------------
(* The fragments of a file tile it.                                        *)

\* The first fragment starts at the first byte, each next one where the one
\* before ends, and the last one ends with the file (client.cpp's loop over
\* fread): merged in the order of their offsets they are the file.
THEOREM FragmentsTile ==
    ASSUME NEW f \in Files
    PROVE  /\ Fragment(f, 0).start = 0
           /\ \A o \in Offsets(f) :
                Fragment(f, o).start + Fragment(f, o).len =
                    IF o + 1 \in Offsets(f) THEN Fragment(f, o + 1).start ELSE FileSize[f]
  <1> DEFINE a == FileSize[f]
             q == a \div FragSize
             r == a % FragSize
  <1>1. a \in Nat /\ FragSize \in Nat \ {0}
    BY FileSizeAssumption, FragSizeAssumption
  <1>2. q \in Nat /\ r \in Nat /\ r < FragSize /\ a = FragSize * q + r
    BY <1>1, DivisionFacts
  <1>3. /\ FragCount(f) = IF a < FragSize THEN 1
                           ELSE q + (IF r # 0 THEN 1 ELSE 0)
        /\ \A o : FragLen(f, o) = IF a < FragSize THEN a
                                 ELSE IF o < q THEN FragSize
                                      ELSE a - FragSize * q
    BY DEF FragCount, FragLen
  <1>4. \A o : Fragment(f, o).start = o * FragSize /\ Fragment(f, o).len = FragLen(f, o)
    BY DEF Fragment
  <1>5. FragCount(f) \in Nat \ {0}
    BY FragTypes
  <1> HIDE DEF a, q, r
  <1>6. Fragment(f, 0).start = 0
    BY <1>1, <1>4
  <1>7. ASSUME NEW o \in Offsets(f)
        PROVE  o * FragSize + FragLen(f, o) =
                 IF o + 1 \in Offsets(f) THEN (o + 1) * FragSize ELSE a
    <2>1. o \in Nat /\ o < FragCount(f)
      BY <1>5 DEF Offsets
    <2>2. o + 1 \in Offsets(f) <=> o + 1 < FragCount(f)
      BY <1>5, <2>1 DEF Offsets
    <2>3. (o + 1) * FragSize = o * FragSize + FragSize
      BY <1>1, <2>1
    <2>4. CASE a < FragSize
      <3>1. o = 0 /\ FragLen(f, o) = a
        BY <1>3, <2>1, <2>4
      <3> QED
        BY <1>1, <1>3, <2>2, <2>4, <3>1
    <2>5. CASE ~(a < FragSize) /\ o < q
      <3>1. FragLen(f, o) = FragSize
        BY <1>3, <2>5
      <3>2. o + 1 \in Offsets(f) \/ (o + 1 = q /\ r = 0)
        BY <1>2, <1>3, <2>1, <2>2, <2>5
      <3>3. o + 1 = q /\ r = 0 => (o + 1) * FragSize = a
        BY <1>1, <1>2
      <3> QED
        BY <2>3, <3>1, <3>2, <3>3
    <2>6. CASE ~(a < FragSize) /\ ~(o < q)
      <3>1. o = q /\ o + 1 \notin Offsets(f)
        BY <1>2, <1>3, <2>1, <2>2, <2>6
      <3>2. FragLen(f, o) = a - FragSize * q
        BY <1>3, <2>6
      <3>3. o * FragSize = FragSize * q
        BY <1>1, <1>2, <3>1
      <3>4. FragSize * q \in Int
        BY <1>1, <1>2
      <3> QED
        BY <1>1, <3>1, <3>2, <3>3, <3>4
    <2> QED
      BY <2>4, <2>5, <2>6
  <1> QED
    BY <1>4, <1>6, <1>7 DEF a

-----------------------------------------------------------------------------
(* The refinement of FileStore: the bytes of a merged vector.              *)

\* A nonempty set of naturals has a least element: the form in which
\* induction over the fragments of a file is used below.
LEMMA LeastElement ==
    ASSUME NEW S, S \subseteq Nat, S # {}
    PROVE  \E x \in S : \A y \in S : x <= y
  <1> DEFINE less == OpToRel(<, Nat)
  <1>1. IsWellFoundedOn(less, Nat)
    BY NatLessThanWellFounded
  <1> HIDE DEF less
  <1>2. PICK x \in S : \A y \in S : ~(<<y, x>> \in less)
    BY <1>1, WFMin
  <1> USE DEF less
  <1>3. \A y \in S : ~(y < x)
    BY <1>2 DEF OpToRel
  <1> QED
    BY <1>3

\* The concatenation of the strings of a vector (MergePackets) when it is
\* known what the first k of them give together, for every k.
LEMMA FlattenBy ==
    ASSUME NEW n \in Nat \ {0}, NEW s, Len(s) = n,
           NEW w, \A k \in 1 .. n : w[k] = IF k = 1 THEN s[k] ELSE w[k - 1] \o s[k]
    PROVE  FlattenSeq(s) = w[n]
  <1> DEFINE F(g) == [k \in 1 .. n |-> IF k = 1 THEN s[k] ELSE g[k - 1] \o s[k]]
             h == CHOOSE g : g = F(g)
  <1>2. FlattenSeq(s) = h[n]
    BY DEF FlattenSeq
  <1>3. h = F(h)
    <2> DEFINE v == [k \in 1 .. n |-> w[k]]
    <2>1. \A k \in 1 .. n : k # 1 => k - 1 \in 1 .. n
      OBVIOUS
    <2>2. \A k \in 1 .. n : v[k] = IF k = 1 THEN s[k] ELSE v[k - 1] \o s[k]
      BY <2>1
    <2>3. v = F(v)
      BY <2>2
    <2> HIDE DEF v, F
    <2>4. \E g : g = F(g)
      BY <2>3
    <2> QED
      BY <2>4
  <1>4. \A k \in 1 .. n : h[k] = IF k = 1 THEN s[k] ELSE h[k - 1] \o s[k]
    <2>1. \A a, b : a = F(b) =>
              \A k \in 1 .. n : a[k] = IF k = 1 THEN s[k] ELSE b[k - 1] \o s[k]
      OBVIOUS
    <2> HIDE DEF h, F
    <2> QED
      BY <1>3, <2>1
  <1>5. \A k \in 1 .. n : w[k] = IF k = 1 THEN s[k] ELSE w[k - 1] \o s[k]
    OBVIOUS
  <1> HIDE DEF h, F
  <1>6. SUFFICES ASSUME h[n] # w[n] PROVE FALSE
    BY <1>2
  <1> DEFINE bad == {k \in 1 .. n : h[k] # w[k]}
  <1>7. PICK m \in bad : \A k \in bad : m <= k
    <2>1. bad \subseteq Nat /\ n \in bad
      BY <1>6
    <2> QED
      BY <2>1, LeastElement
  <1>8. m # 1
    BY <1>4, <1>5
  <1>9. m - 1 \in 1 .. n /\ h[m - 1] = w[m - 1]
    <2>1. m \in Nat /\ m - 1 \in 1 .. n
      BY <1>7, <1>8
    <2>2. m - 1 \notin bad
      BY <1>7, <2>1
    <2> QED
      BY <2>1, <2>2
  <1>10. m \in 1 .. n /\ h[m] # w[m]
    BY <1>7
  <1>11. h[m] = h[m - 1] \o s[m]
    BY <1>4, <1>8, <1>10
  <1>12. w[m] = w[m - 1] \o s[m]
    BY <1>5, <1>8, <1>10
  <1> QED
    BY <1>9, <1>10, <1>11, <1>12

\* Spans that touch are joined by concatenating their bytes.
LEMMA SpanBytesJoin ==
    ASSUME NEW a \in Nat, NEW b \in Nat, a <= b
    PROVE  SpanBytes([start |-> 0, len |-> a]) \o SpanBytes([start |-> a, len |-> b - a])
             = SpanBytes([start |-> 0, len |-> b])
  <1> DEFINE u == [k \in 1 .. a |-> 0 + k - 1]
             v == [k \in 1 .. b - a |-> a + k - 1]
             w == [k \in 1 .. b |-> 0 + k - 1]
  <1>1. b - a \in Nat
    OBVIOUS
  <1>2. u \in Seq(Int) /\ v \in Seq(Int) /\ w \in Seq(Int)
    BY <1>1
  <1>3. Len(u) = a /\ Len(v) = b - a /\ Len(w) = b
    BY <1>1
  <1>4. /\ u \o v \in Seq(Int)
        /\ Len(u \o v) = b
        /\ \A k \in 1 .. b : (u \o v)[k] = IF k <= a THEN u[k] ELSE v[k - a]
    BY <1>1, <1>2, <1>3, ConcatProperties
  <1>5. ASSUME NEW k \in 1 .. b PROVE (u \o v)[k] = w[k]
    BY <1>1, <1>4
  <1>6. u \o v = w
    BY <1>2, <1>3, <1>4, <1>5, SeqEqual
  <1> QED
    BY <1>6 DEF SpanBytes

\* MergePackets puts a file together again: the strings of its fragments,
\* concatenated in the order of their offsets, are the bytes of the source,
\* whatever the sizes of the file and of a fragment.
THEOREM MergedIsSource ==
    ASSUME NEW f \in Files
    PROVE  MergedBytes(Fragments(f)) = SourceBytes[f]
  <1> DEFINE n == FragCount(f)
             s == [k \in 1 .. n |-> SpanBytes(Fragment(f, k - 1))]
             end(k) == Fragment(f, k - 1).start + Fragment(f, k - 1).len
             w == [k \in 1 .. n |-> SpanBytes([start |-> 0, len |-> end(k)])]
  <1>1. n \in Nat \ {0}
    BY FragTypes
  <1>2. \A k \in 1 .. n : k - 1 \in Offsets(f)
    BY <1>1 DEF Offsets
  <1>3. /\ DOMAIN Fragments(f) = 0 .. n - 1
        /\ \A k \in 1 .. n : Fragments(f)[k - 1] = Fragment(f, k - 1)
    BY <1>2 DEF Fragments, Offsets
  <1>4. Cardinality(0 .. n - 1) = n
    BY <1>1, FS_Interval
  <1>5. MergedBytes(Fragments(f)) = FlattenSeq(s)
    BY <1>3, <1>4 DEF MergedBytes
  <1>6. \A k \in 1 .. n : Fragment(f, k - 1) \in Span
    BY <1>2, FragTypes
  <1>7. /\ Fragment(f, 0).start = 0
        /\ \A o \in Offsets(f) : Fragment(f, o).start + Fragment(f, o).len =
               IF o + 1 \in Offsets(f) THEN Fragment(f, o + 1).start ELSE FileSize[f]
    BY FragmentsTile
  <1>8. \A k \in 1 .. n : Fragment(f, k - 1) =
            [start |-> Fragment(f, k - 1).start, len |-> Fragment(f, k - 1).len]
    BY <1>6 DEF Span
  <1>9. \A k \in 1 .. n : Fragment(f, k - 1).start \in Nat /\ Fragment(f, k - 1).len \in Nat
    BY <1>6 DEF Span
  <1>10. ASSUME NEW k \in 1 .. n, k # 1
         PROVE  w[k] = w[k - 1] \o s[k]
    <2>1. k - 1 \in 1 .. n
      BY <1>1, <1>10
    <2>2. end(k - 1) = Fragment(f, k - 1).start
      <3>1. (k - 1) - 1 \in Offsets(f) /\ ((k - 1) - 1) + 1 = k - 1 /\ k - 1 \in Offsets(f)
        BY <1>2, <2>1
      <3> QED
        BY <1>7, <3>1
    <2> DEFINE a == Fragment(f, k - 1).start
               c == Fragment(f, k - 1).len
    <2>3. a \in Nat /\ c \in Nat
      BY <1>9
    <2>4. Fragment(f, k - 1) = [start |-> a, len |-> c]
      BY <1>8
    <2>5. w[k] = SpanBytes([start |-> 0, len |-> a + c])
      OBVIOUS
    <2>6. w[k - 1] = SpanBytes([start |-> 0, len |-> a])
      BY <2>1, <2>2
    <2>7. s[k] = SpanBytes([start |-> a, len |-> c])
      BY <2>4
    <2> HIDE DEF a, c, w, s
    <2>8. a + c \in Nat /\ a <= a + c /\ (a + c) - a = c
      BY <2>3
    <2> QED
      BY <2>3, <2>5, <2>6, <2>7, <2>8, SpanBytesJoin
  <1>11. w[1] = s[1]
    <2>1. 1 \in 1 .. n /\ 1 - 1 = 0
      BY <1>1
    <2>2. end(1) = Fragment(f, 0).len
      BY <1>7, <1>9, <2>1
    <2> QED
      BY <1>7, <1>8, <2>1, <2>2
  <1>12. w[n] = SourceBytes[f]
    <2>1. n \in 1 .. n /\ n - 1 \in Offsets(f) /\ (n - 1) + 1 \notin Offsets(f)
      BY <1>1 DEF Offsets
    <2>2. end(n) = FileSize[f]
      BY <1>7, <2>1
    <2>3. FileSize[f] \in Nat
      BY FileSizeAssumption
    <2>4. w[n] = [k \in 1 .. FileSize[f] |-> 0 + k - 1]
      BY <2>1, <2>2 DEF SpanBytes
    <2> QED
      BY <2>3, <2>4 DEF SourceBytes
  <1>13. \A k \in 1 .. n : w[k] = IF k = 1 THEN s[k] ELSE w[k - 1] \o s[k]
    <2> HIDE DEF w, s, n
    <2> QED
      BY <1>10, <1>11
  <1>14. Len(s) = n
    BY <1>1, LenProperties
  <1> HIDE DEF w, s, n
  <1>15. FlattenSeq(s) = w[n]
    BY <1>1, <1>13, <1>14, FlattenBy
  <1> QED
    BY <1>5, <1>12, <1>15

-----------------------------------------------------------------------------
(* The refinement of FileStore: its steps.                                 *)

\* A file that has been written counts as received, so it is written once.
WrittenReceived == \A f \in Files : stored[f] # NotStored => received_list[f]

\* The steps that the refinement mapping can see: the end of the client and
\* the completion of a file.
LEMMA VisibleSteps ==
    ASSUME [Next]_vars
    PROVE  \/ /\ UNCHANGED <<stored, received_list>>
              /\ cpc' = "exited" <=> cpc = "exited"
           \/ RecvTerminate
           \/ \E f \in Files : \E o \in Offsets(f) : \E cut \in BOOLEAN : CompleteFile(f, o, cut)
  <1>1. CASE ClientStep
    BY <1>1 DEF ClientStep, OpenDir, OpenFile, CannotOpen, SkipAcked, SendFragment, RecvNothing,
                RecvAck, AfterRecv, NextFile, serverVars, tables
  <1>2. CASE FloodTerminate
    BY <1>2 DEF FloodTerminate, clientVars, serverVars, tables
  <1>3. ASSUME NEW f \in Files, NEW o \in Offsets(f), NEW cut \in BOOLEAN,
               Handle(f, o, cut)
        PROVE  CompleteFile(f, o, cut) \/ UNCHANGED <<stored, received_list, cpc>>
    BY <1>3, HandleFrame DEF Handle, IgnoreDone, Refuse, RejectDamaged, RecordFragment
  <1>4. CASE NetworkStep
    BY <1>4 DEF NetworkStep, LoseTerminate, LoseData, LoseAck, Duplicate, Damage,
                clientVars, serverVars, tables
  <1>5. CASE UNCHANGED vars
    BY <1>5 DEF vars, clientVars, serverVars, tables
  <1> QED
    BY <1>1, <1>2, <1>3, <1>4, <1>5 DEF Next, ServerStep, Terminated

\* What completing a file does to the directory of the server.
LEMMA CompleteStored ==
    ASSUME TransferInv, NEW f \in Files, NEW o \in Offsets(f), NEW cut \in BOOLEAN,
           CompleteFile(f, o, cut)
    PROVE  /\ ~received_list[f] /\ received_list' = [received_list EXCEPT ![f] = TRUE]
           /\ cpc' = cpc
           /\ \/ UNCHANGED stored
              \/ \E v \in [Offsets(f) -> Span] : stored' = [stored EXCEPT ![f] = v]
  <1>1. Handle(f, o, cut)
    BY DEF Handle
  <1>2. cpc' = cpc
    BY <1>1, HandleFrame
  <1>3. Decompose(f, o, cut) \in [Offsets(f) -> Span]
    BY <1>1, HandleFrame, DecomposeType DEF TransferInv
  <1> QED
    BY <1>2, <1>3 DEF CompleteFile, Record, Done, WriteFile

LEMMA WrittenReceivedStep == TransferInv /\ WrittenReceived /\ [Next]_vars => WrittenReceived'
  <1> SUFFICES ASSUME TransferInv, WrittenReceived, [Next]_vars PROVE WrittenReceived'
    OBVIOUS
  <1>1. DOMAIN stored = Files /\ received_list \in [Files -> BOOLEAN]
    BY DEF TransferInv, TypeOK
  <1>2. CASE UNCHANGED <<stored, received_list>>
    BY <1>2 DEF WrittenReceived
  <1>3. CASE RecvTerminate
    BY <1>3 DEF WrittenReceived, RecvTerminate, serverVars, tables
  <1>4. ASSUME NEW f \in Files, NEW o \in Offsets(f), NEW cut \in BOOLEAN,
               CompleteFile(f, o, cut)
        PROVE  WrittenReceived'
    BY <1>1, <1>4, CompleteStored DEF WrittenReceived
  <1> QED
    BY <1>2, <1>3, <1>4, VisibleSteps

LEMMA TermSoundStep == TransferInv' => TermSound'
  BY TermSoundFollows, PTL

\* The directory of the refinement mapping, in a state of the invariant.
LEMMA MappedStoreIs ==
    ASSUME StoredIntact
    PROVE  MappedStore = [f \in Files |-> IF stored[f] = NotStored THEN AbsentFile
                                          ELSE SourceBytes[f]]
  BY MergedIsSource DEF StoredIntact, MappedStore

LEMMA AbsentDiffers ==
    ASSUME NEW f \in Files
    PROVE  SourceBytes[f] # AbsentFile /\ Fragments(f) # NotStored
  <1>1. DOMAIN SourceBytes[f] = 1 .. FileSize[f] /\ DOMAIN AbsentFile = {-1}
    BY DEF SourceBytes, AbsentFile
  <1>2. FileSize[f] \in Nat
    BY FileSizeAssumption
  <1>3. -1 \notin 1 .. FileSize[f]
    BY <1>2
  <1>4. DOMAIN Fragments(f) = Offsets(f) /\ DOMAIN NotStored = {-1} /\ 0 \in Offsets(f)
    BY FragTypes DEF Fragments, NotStored, Offsets
  <1>5. -1 \notin Offsets(f) 
    BY FragTypes DEF Offsets
  <1>6. DOMAIN SourceBytes[f] # DOMAIN AbsentFile
    BY <1>1, <1>3
  <1>7. DOMAIN Fragments(f) # DOMAIN NotStored
    BY <1>4, <1>5
  <1> QED
    BY <1>6, <1>7

\* client.cpp and server.cpp implement FileStore: writing a file delivers
\* it, leaving through term_flag is being told, and every other step of the
\* two programs and of the network changes nothing FileStore speaks of.
THEOREM ImplementsFileStoreCorrect == Spec => ImplementsFileStore
  <1>1. Init => Abstract!Init
    <2> SUFFICES ASSUME Init PROVE Abstract!Init
      OBVIOUS
    <2>1. \A f \in Files : stored[f] = NotStored
      BY DEF Init
    <2>2. MappedStore = [f \in Files |-> AbsentFile]
      BY <2>1 DEF MappedStore
    <2>3. MappedTold = FALSE
      BY DEF Init, MappedTold
    <2> QED
      BY <2>2, <2>3 DEF Abstract!Init
  <1>2. Init => WrittenReceived
    BY DEF Init, WrittenReceived
  <1>3. TransferInv /\ WrittenReceived /\ TransferInv' /\ [Next]_vars
          => [Abstract!Next]_(Abstract!storeVars)
    <2> SUFFICES ASSUME TransferInv, WrittenReceived, TransferInv', [Next]_vars
                 PROVE  Abstract!Next \/ UNCHANGED <<MappedStore, MappedTold>>
      BY DEF Abstract!storeVars
    <2>1. StoredIntact /\ StoredIntact' /\ DOMAIN stored = Files
      BY DEF TransferInv, TypeOK
    <2>2. /\ MappedStore = [f \in Files |-> IF stored[f] = NotStored THEN AbsentFile
                                            ELSE SourceBytes[f]]
          /\ MappedStore' = [f \in Files |-> IF stored'[f] = NotStored THEN AbsentFile
                                             ELSE SourceBytes[f]]
      <3>1. StoredIntact' => MappedStore' = [f \in Files |->
                IF stored'[f] = NotStored THEN AbsentFile ELSE SourceBytes[f]]
        BY MergedIsSource DEF StoredIntact, MappedStore
      <3> QED
        BY <2>1, <3>1, MappedStoreIs
    <2>3. CASE UNCHANGED <<stored, received_list>> /\ (cpc' = "exited" <=> cpc = "exited")
      BY <2>2, <2>3 DEF MappedTold
    <2>4. CASE RecvTerminate
      <3>1. UNCHANGED stored /\ ~MappedTold /\ MappedTold' = TRUE
        BY <2>4 DEF RecvTerminate, MappedTold, serverVars, tables
      <3>2. \A f \in Files : stored[f] = Fragments(f)
        <4>1. TermSound'
          BY TermSoundStep
        <4>2. cpc' = "exited"
          BY <2>4 DEF RecvTerminate
        <4> QED
          BY <3>1, <4>1, <4>2 DEF TermSound
      <3>3. MappedStore = SourceBytes
        <4>1. SourceBytes = [f \in Files |-> SourceBytes[f]]
          BY DEF SourceBytes
        <4> QED
          BY <2>2, <3>2, <4>1, AbsentDiffers
      <3>4. UNCHANGED MappedStore
        BY <2>2, <3>1
      <3>5. Abstract!Tell
        BY <3>1, <3>3, <3>4 DEF Abstract!Tell
      <3> QED
        BY <3>5 DEF Abstract!Next
    <2>5. ASSUME NEW f \in Files, NEW o \in Offsets(f), NEW cut \in BOOLEAN,
                 CompleteFile(f, o, cut)
          PROVE  Abstract!Next \/ UNCHANGED <<MappedStore, MappedTold>>
      <3>1. UNCHANGED MappedTold /\ ~received_list[f]
        BY <2>5, CompleteStored DEF MappedTold
      <3>2. stored[f] = NotStored
        BY <3>1 DEF WrittenReceived
      <3>3. CASE UNCHANGED stored
        BY <2>2, <3>1, <3>3
      <3>4. ASSUME NEW v \in [Offsets(f) -> Span], stored' = [stored EXCEPT ![f] = v]
            PROVE  Abstract!Deliver(f)
        <4>1. v # NotStored
          BY VectorsDiffer
        <4>2. MappedStore[f] = AbsentFile
          BY <2>2, <3>2
        <4>3. MappedStore' = [MappedStore EXCEPT ![f] = SourceBytes[f]]
          BY <2>1, <2>2, <3>4, <4>1
        <4> QED
          BY <3>1, <4>2, <4>3 DEF Abstract!Deliver
      <3> QED
        BY <2>5, <3>3, <3>4, CompleteStored DEF Abstract!Next
    <2> QED
      BY <2>3, <2>4, <2>5, VisibleSteps
  <1> QED
    BY <1>1, <1>2, <1>3, InvCorrect, WrittenReceivedStep, PTL
       DEF Spec, ImplementsFileStore, Abstract!Spec
=============================================================================
