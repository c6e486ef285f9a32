---------------------------- MODULE FileTransfer ----------------------------
(***************************************************************************)
(* The UDP file transfer of np-lab6: client.cpp sends every fragment of    *)
(* every file over and over until it is acknowledged, server.cpp collects  *)
(* the fragments, acknowledges each of them five times, writes a file when *)
(* it has all its fragments and, once it has all files, sends "terminate"  *)
(* for ever.  The network between them loses, duplicates, delays, reorders *)
(* and may shorten datagrams.                                              *)
(*                                                                         *)
(* Data abstraction: the bytes of a file are named by their positions, so  *)
(* a payload is the span [start, len] of the file it was read from, and a  *)
(* vector of strings of the server is a function from offsets to spans.    *)
(***************************************************************************)
EXTENDS Integers, FiniteSets, SequencesExt

CONSTANTS
    num_file,       \* number of files, argv[2] of both programs
    FileSize,       \* their sizes in bytes
    FragSize,       \* bytes in a full fragment: 1000 in client.cpp
    MaxOpen,        \* f_count above which no new file is started: 300
    AckCopies,      \* how often an ACK is sent: 5
    FdLimit,        \* descriptors the client may open besides its socket
    Unwritable,     \* files the server cannot create in its directory
    MaxLoss,        \* bound: datagrams the network may lose
    MaxDup,         \* bound: datagrams the network may duplicate
    MaxDamage       \* bound: data datagrams the network may shorten

Files == 0 .. num_file - 1

ASSUME NumFileAssumption == num_file \in Nat \ {0}
ASSUME FileSizeAssumption == FileSize \in [Files -> Nat]
ASSUME FragSizeAssumption == FragSize \in Nat \ {0}
ASSUME LimitsAssumption ==
    /\ MaxOpen \in Nat
    /\ AckCopies \in Nat \ {0}
    /\ FdLimit \in Nat \ {0}
    /\ Unwritable \subseteq Files
ASSUME NetworkAssumption ==
    /\ MaxLoss \in Nat
    /\ MaxDup \in Nat
    /\ MaxDamage \in Nat

-----------------------------------------------------------------------------
(* How the client cuts a file into fragments.                              *)

\* Mutant: the rest of a file after its full fragments is forgotten.
FragCountFloor(f) ==
    IF FileSize[f] < FragSize THEN 1 ELSE FileSize[f] \div FragSize

\* A file shorter than a fragment, an empty one included, is one fragment.
FragCount(f) ==
    IF FileSize[f] < FragSize
    THEN 1
    ELSE FileSize[f] \div FragSize + (IF FileSize[f] % FragSize # 0 THEN 1 ELSE 0)

FragLen(f, o) ==
    IF FileSize[f] < FragSize
    THEN FileSize[f]
    ELSE IF o < FileSize[f] \div FragSize
         THEN FragSize
         ELSE FileSize[f] - FragSize * (FileSize[f] \div FragSize)

Fragment(f, o) == [start |-> o * FragSize, len |-> FragLen(f, o)]

Offsets(f) == 0 .. FragCount(f) - 1

\* The fragments of all files, named by the pair <seq_num, offset>.
Frag == UNION {{f} \X Offsets(f) : f \in Files}

\* The vector of all the fragments of a file, in order.
Fragments(f) == [o \in Offsets(f) |-> Fragment(f, o)]

Span == [start : Nat, len : Nat]
EmptyString == [start |-> 0, len |-> 0]
NoVector == [o \in {} |-> EmptyString]       \* an empty vector<string>
NotStored == [o \in {-1} |-> EmptyString]    \* no file written

-----------------------------------------------------------------------------
VARIABLES
    \* client.cpp
    cpc,            \* "open", "fopen", "scan", "await", "exited", "aborted"
    seq_num,        \* the file of this pass
    offset,         \* the fragment of this file
    ACKed,          \* -1: no entry in the map; 0, 1: the entry's value
    send_failed,    \* keys of the retry map
    open_dirs,      \* directory streams opened and not closed
    \* server.cpp
    spc,            \* "loop", "flood", "crashed"
    packet_list, received_list, record_list, fcnt_list, f_stat, f_count, i,
    stored,         \* the directory it writes to: file -> merged vector
    \* the network
    data,           \* copies in flight of each fragment's datagram
    cutdata,        \* copies in flight whose payload lost its last byte
    acks,           \* copies in flight of each fragment's ACK
    term,           \* some "terminate" is in flight
    losses, dups, damages

clientVars == <<cpc, seq_num, offset, ACKed, send_failed, open_dirs>>
tables == <<packet_list, received_list, record_list, fcnt_list, f_stat, f_count, i, stored>>
serverVars == <<spc, tables>>
budgets == <<losses, dups, damages>>
netVars == <<data, cutdata, acks, term, budgets>>
vars == <<clientVars, serverVars, netVars>>

TypeOK ==
    /\ cpc \in {"open", "fopen", "scan", "await", "exited", "aborted"}
    /\ seq_num \in 0 .. num_file
    /\ offset \in Nat
    /\ cpc \in {"fopen", "scan", "await"} => seq_num \in Files
    /\ cpc = "scan" => offset \in 0 .. FragCount(seq_num)
    /\ cpc = "await" => offset \in Offsets(seq_num)
    /\ ACKed \in [Frag -> {-1, 0, 1}]
    /\ send_failed \subseteq Frag
    /\ open_dirs \in 0 .. FdLimit
    /\ spc \in {"loop", "flood", "crashed"}
    /\ packet_list \in [Files -> Nat]
    /\ received_list \in [Files -> BOOLEAN]
    /\ record_list \in [Files -> SUBSET Nat]
    /\ \A f \in Files : record_list[f] \subseteq Offsets(f)
    /\ DOMAIN fcnt_list = Files
    /\ \A f \in Files : fcnt_list[f] \in {NoVector} \cup [Offsets(f) -> Span]
    /\ f_stat \in [Files -> BOOLEAN]
    /\ f_count \in Int
    /\ i \in Nat
    /\ DOMAIN stored = Files
    /\ \A f \in Files : stored[f] \in {NotStored} \cup [Offsets(f) -> Span]
    /\ data \in [Frag -> Nat]
    /\ cutdata \in [Frag -> Nat]
    /\ \A fo \in Frag : cutdata[fo] > 0 => FragLen(fo[1], fo[2]) > 0
    /\ acks \in [Frag -> Nat]
    /\ term \in BOOLEAN
    /\ losses \in 0 .. MaxLoss
    /\ dups \in 0 .. MaxDup
    /\ damages \in 0 .. MaxDamage

Init ==
    /\ cpc = "open"
    /\ seq_num = 0
    /\ offset = 0
    /\ ACKed = [fo \in Frag |-> -1]
    /\ send_failed = {}
    /\ open_dirs = 0
    /\ spc = "loop"
    /\ packet_list = [f \in Files |-> 0]
    /\ received_list = [f \in Files |-> FALSE]
    /\ record_list = [f \in Files |-> {}]
    /\ fcnt_list = [f \in Files |-> NoVector]
    /\ f_stat = [f \in Files |-> FALSE]
    /\ f_count = 0
    /\ i = 0
    /\ stored = [f \in Files |-> NotStored]
    /\ data = [fo \in Frag |-> 0]
    /\ cutdata = [fo \in Frag |-> 0]
    /\ acks = [fo \in Frag |-> 0]
    /\ term = FALSE
    /\ losses = 0
    /\ dups = 0
    /\ damages = 0

-----------------------------------------------------------------------------
(* The client.                                                             *)

\* A new pass over the directory.  Without a free descriptor opendir fails
\* and the loop only spins.  The stream is never closed.
OpenDir ==
    /\ cpc = "open"
    /\ send_failed = {}
    /\ open_dirs < FdLimit
    /\ open_dirs' = open_dirs + 1
    /\ seq_num' = 0
    /\ cpc' = "fopen"
    /\ UNCHANGED <<offset, ACKed, send_failed, serverVars, netVars>>

OpenFile ==
    /\ cpc = "fopen"
    /\ open_dirs < FdLimit
    /\ offset' = 0
    /\ cpc' = "scan"
    /\ UNCHANGED <<seq_num, ACKed, send_failed, open_dirs, serverVars, netVars>>

\* Mutant: a file that cannot be opened ends the pass, not the process.
CannotOpenGoesOn ==
    /\ cpc = "fopen"
    /\ open_dirs = FdLimit
    /\ cpc' = "open"
    /\ UNCHANGED <<seq_num, offset, ACKed, send_failed, open_dirs, serverVars, netVars>>

\* fopen finds no descriptor left: "Cannot open file", exit(0).
CannotOpen ==
    /\ cpc = "fopen"
    /\ open_dirs = FdLimit
    /\ cpc' = "aborted"
    /\ UNCHANGED <<seq_num, offset, ACKed, send_failed, open_dirs, serverVars, netVars>>

\* ACKed[{seq_num, offset}] is true: neither sendto nor recvfrom.
SkipAcked ==
    /\ cpc = "scan"
    /\ offset < FragCount(seq_num)
    /\ ACKed[<<seq_num, offset>>] = 1
    /\ offset' = offset + 1
    /\ UNCHANGED <<cpc, seq_num, ACKed, send_failed, open_dirs, serverVars, netVars>>

\* Mutant: the lookup is a find.
LookupWithoutInsert(fo) == ACKed

\* The map after the lookup ACKed[fo]: operator[] inserts a missing key.
Lookup(fo) == [ACKed EXCEPT ![fo] = IF @ = -1 THEN 0 ELSE @]

SendFragment ==
    LET fo == <<seq_num, offset>> IN
    /\ cpc = "scan"
    /\ offset < FragCount(seq_num)
    /\ ACKed[fo] # 1
    /\ ACKed' = Lookup(fo)
    /\ data' = [data EXCEPT ![fo] = @ + 1]
    /\ cpc' = "await"
    /\ UNCHANGED <<seq_num, offset, send_failed, open_dirs, serverVars, cutdata, acks, term, budgets>>

\* What follows recvfrom unless "terminate" came: a fragment without an
\* entry in the map goes to the retry map, and the loop moves on.
AfterRecv(newACKed) ==
    /\ ACKed' = newACKed
    /\ send_failed' = IF newACKed[<<seq_num, offset>>] = -1
                      THEN send_failed \cup {<<seq_num, offset>>}
                      ELSE send_failed
    /\ offset' = offset + 1
    /\ cpc' = "scan"
    /\ UNCHANGED <<seq_num, open_dirs>>

\* Nothing has arrived within the 100 microseconds.
RecvNothing ==
    /\ cpc = "await"
    /\ AfterRecv(ACKed)
    /\ UNCHANGED <<serverVars, netVars>>

\* Mutant: whatever ACK arrives is taken for the fragment just sent.
CreditCurrent(g) == [ACKed EXCEPT ![<<seq_num, offset>>] = 1]

\* The map after the ACK for g was read while waiting after <seq_num, offset>.
Credit(g) == [ACKed EXCEPT ![g] = 1]

RecvAck(g) ==
    /\ cpc = "await"
    /\ acks[g] > 0
    /\ acks' = [acks EXCEPT ![g] = @ - 1]
    /\ AfterRecv(Credit(g))
    /\ UNCHANGED <<serverVars, data, cutdata, term, budgets>>

RecvTerminate ==
    /\ cpc = "await"
    /\ term
    /\ cpc' = "exited"
    /\ UNCHANGED <<seq_num, offset, ACKed, send_failed, open_dirs, serverVars, netVars>>

\* Mutant: off by one.
LastFileLate == seq_num = num_file

\* cnt == num_file: the pass has seen all the files it was told of.
LastFile == seq_num + 1 = num_file

NextFile ==
    /\ cpc = "scan"
    /\ offset = FragCount(seq_num)
    /\ seq_num' = seq_num + 1
    /\ cpc' = IF LastFile THEN "open" ELSE "fopen"
    /\ UNCHANGED <<offset, ACKed, send_failed, open_dirs, serverVars, netVars>>

ClientStep ==
    \/ OpenDir \/ OpenFile \/ CannotOpen \/ SkipAcked \/ SendFragment
    \/ RecvNothing \/ RecvTerminate \/ NextFile
    \/ \E g \in Frag : RecvAck(g)

-----------------------------------------------------------------------------
(* The server: one action per way through decompose and the loop of main.  *)

\* recvfrom returns the datagram of <f, o>, shortened when cut; decompose
\* notes the number of fragments its header tells before anything else.
Receive(f, o, cut) ==
    /\ spc = "loop"
    /\ packet_list' = [packet_list EXCEPT ![f] = FragCount(f)]
    /\ \/ /\ ~cut
          /\ data[<<f, o>>] > 0
          /\ data' = [data EXCEPT ![<<f, o>>] = @ - 1]
          /\ UNCHANGED cutdata
       \/ /\ cut
          /\ cutdata[<<f, o>>] > 0
          /\ cutdata' = [cutdata EXCEPT ![<<f, o>>] = @ - 1]
          /\ UNCHANGED data
    /\ UNCHANGED <<clientVars, term, budgets>>

Payload(f, o, cut) ==
    [start |-> o * FragSize, len |-> IF cut THEN FragLen(f, o) - 1 ELSE FragLen(f, o)]

\* Mutant: no test of received_list.
NeverDone(f) == FALSE

\* The file is complete already.
Done(f) == received_list[f]

\* Mutant: off by one.
RefusedLate(f) == ~f_stat[f] /\ f_count > MaxOpen + 1

\* The file has not been started and too many are open.
Refused(f) == ~f_stat[f] /\ f_count > MaxOpen

\* The vector of f after decompose: established when it was empty, the
\* payload written unless the fragment has been recorded.
Decompose(f, o, cut) ==
    LET vector == IF fcnt_list[f] = NoVector
                  THEN [k \in Offsets(f) |-> EmptyString]
                  ELSE fcnt_list[f]
    IN  IF o \in record_list[f]
        THEN vector
        ELSE [vector EXCEPT ![o] = Payload(f, o, cut)]

CountAfterDecompose(f) ==
    IF fcnt_list[f] = NoVector THEN f_count + 1 ELSE f_count

\* Mutant: no comparison of sizes.
SizeUnchecked(f, o, cut) == TRUE

\* The comparison of the stored string's size with the header's frag_size.
SizeMatches(f, o, cut) == Decompose(f, o, cut)[o].len = FragLen(f, o)

SendAcks(f, o) == acks' = [acks EXCEPT ![<<f, o>>] = @ + AckCopies]

IgnoreDone(f, o, cut) ==
    /\ Receive(f, o, cut)
    /\ Done(f)
    /\ UNCHANGED <<spc, received_list, record_list, fcnt_list, f_stat, f_count, i, stored, acks>>

Refuse(f, o, cut) ==
    /\ Receive(f, o, cut)
    /\ ~Done(f)
    /\ Refused(f)
    /\ UNCHANGED <<spc, received_list, record_list, fcnt_list, f_stat, f_count, i, stored, acks>>

\* The payload stays in the vector, unrecorded and unacknowledged.
RejectDamaged(f, o, cut) ==
    /\ Receive(f, o, cut)
    /\ ~Done(f)
    /\ ~Refused(f)
    /\ ~SizeMatches(f, o, cut)
    /\ fcnt_list' = [fcnt_list EXCEPT ![f] = Decompose(f, o, cut)]
    /\ f_count' = CountAfterDecompose(f)
    /\ f_stat' = [f_stat EXCEPT ![f] = TRUE]
    /\ UNCHANGED <<spc, received_list, record_list, i, stored, acks>>

\* A fragment is acknowledged and recorded.
Record(f, o, cut) ==
    /\ Receive(f, o, cut)
    /\ ~Done(f)
    /\ ~Refused(f)
    /\ SizeMatches(f, o, cut)
    /\ SendAcks(f, o)
    /\ record_list' = [record_list EXCEPT ![f] = @ \cup {o}]
    /\ f_stat' = [f_stat EXCEPT ![f] = TRUE]

RecordFragment(f, o, cut) ==
    /\ Record(f, o, cut)
    /\ Cardinality(record_list'[f]) # packet_list'[f]
    /\ fcnt_list' = [fcnt_list EXCEPT ![f] = Decompose(f, o, cut)]
    /\ f_count' = CountAfterDecompose(f)
    /\ UNCHANGED <<spc, received_list, i, stored>>

\* Mutant: fclose only after a successful fopen.
WriteFileSurvives(f, vector) ==
    /\ stored' = [stored EXCEPT ![f] = IF f \in Unwritable THEN @ ELSE vector]
    /\ spc' = IF i + 1 = num_file THEN "flood" ELSE "loop"

\* A file that cannot be created ends the process in fclose(NULL).
WriteFile(f, vector) ==
    \/ /\ f \notin Unwritable
       /\ stored' = [stored EXCEPT ![f] = vector]
       /\ spc' = IF i + 1 = num_file THEN "flood" ELSE "loop"
    \/ /\ f \in Unwritable
       /\ spc' = "crashed"
       /\ UNCHANGED stored

\* The vector is cleared once its strings have been put together.
MergePackets(f) ==
    /\ fcnt_list' = [fcnt_list EXCEPT ![f] = NoVector]
    /\ f_count' = CountAfterDecompose(f) - 1

\* The last fragment: the file counts as received, its vector is merged and
\* cleared, and it is written.
CompleteFile(f, o, cut) ==
    /\ Record(f, o, cut)
    /\ Cardinality(record_list'[f]) = packet_list'[f]
    /\ i' = i + 1
    /\ received_list' = [received_list EXCEPT ![f] = TRUE]
    /\ MergePackets(f)
    /\ WriteFile(f, Decompose(f, o, cut))

\* "-1 -1 terminate", again and again.
FloodTerminate ==
    /\ spc = "flood"
    /\ term' = TRUE
    /\ UNCHANGED <<clientVars, serverVars, data, cutdata, acks, budgets>>

Handle(f, o, cut) ==
    \/ IgnoreDone(f, o, cut) \/ Refuse(f, o, cut) \/ RejectDamaged(f, o, cut)
    \/ RecordFragment(f, o, cut) \/ CompleteFile(f, o, cut)

ServerStep ==
    \/ FloodTerminate
    \/ \E f \in Files : \E o \in Offsets(f) : \E cut \in BOOLEAN : Handle(f, o, cut)

-----------------------------------------------------------------------------
(* The network.                                                            *)

LoseData(fo) ==
    /\ losses < MaxLoss
    /\ losses' = losses + 1
    /\ \/ /\ data[fo] > 0
          /\ data' = [data EXCEPT ![fo] = @ - 1]
          /\ UNCHANGED cutdata
       \/ /\ cutdata[fo] > 0
          /\ cutdata' = [cutdata EXCEPT ![fo] = @ - 1]
          /\ UNCHANGED data
    /\ UNCHANGED <<clientVars, serverVars, acks, term, dups, damages>>

\* Losing ACKs is unbounded: the client may stop reading them at any time.
LoseAck(fo) ==
    /\ acks[fo] > 0
    /\ acks' = [acks EXCEPT ![fo] = @ - 1]
    /\ UNCHANGED <<clientVars, serverVars, data, cutdata, term, budgets>>

LoseTerminate ==
    /\ term
    /\ term' = FALSE
    /\ UNCHANGED <<clientVars, serverVars, data, cutdata, acks, budgets>>

Duplicate(fo) ==
    /\ dups < MaxDup
    /\ dups' = dups + 1
    /\ data[fo] > 0
    /\ data' = [data EXCEPT ![fo] = @ + 1]
    /\ UNCHANGED <<clientVars, serverVars, cutdata, acks, term, losses, damages>>

\* A shortened payload, the damage the size comparison is there for.
Damage(fo) ==
    /\ damages < MaxDamage
    /\ damages' = damages + 1
    /\ data[fo] > 0
    /\ FragLen(fo[1], fo[2]) > 0
    /\ data' = [data EXCEPT ![fo] = @ - 1]
    /\ cutdata' = [cutdata EXCEPT ![fo] = @ + 1]
    /\ UNCHANGED <<clientVars, serverVars, acks, term, losses, dups>>

NetworkStep ==
    \/ LoseTerminate
    \/ \E fo \in Frag : LoseData(fo) \/ LoseAck(fo) \/ Duplicate(fo) \/ Damage(fo)

-----------------------------------------------------------------------------
\* Both programs have ended, or the client has and the server waits for ever.
Terminated ==
    /\ cpc \in {"exited", "aborted"}
    /\ UNCHANGED vars

Next == ClientStep \/ ServerStep \/ NetworkStep \/ Terminated

Spec == Init /\ [][Next]_vars

\* Both processes keep running; nothing is assumed of the network.
FairSpec == Spec /\ WF_vars(ClientStep) /\ WF_vars(ServerStep)

-----------------------------------------------------------------------------
\* Every file the server has written consists of exactly the client's
\* fragments of that file, in order (MergePackets and fwrite, server.cpp).
StoredIntact ==
    \A f \in Files : stored[f] # NotStored => stored[f] = Fragments(f)

\* The client never believes in a delivery that did not happen: a fragment
\* its ACKed map holds as acknowledged is recorded by the server, whatever
\* was lost, duplicated or reordered, so skipping it in later passes is safe.
AckSound ==
    \A f \in Files : \A o \in Offsets(f) :
        ACKed[<<f, o>>] = 1 => o \in record_list[f]

\* "terminate" means what it says: a client that left through term_flag left
\* all its files complete on the server's disk.
TermSound ==
    cpc = "exited" => \A f \in Files : stored[f] = Fragments(f)

OpenFiles == {f \in Files : f_stat[f] /\ ~received_list[f]}

\* f_count counts the files in progress, exceeds the limit of 300 by at most
\* one, and exactly those files have a vector, so the indexing of fcnt_list
\* in main never meets an empty vector.
OpenFilesBound ==
    /\ f_count = Cardinality(OpenFiles)
    /\ f_count <= MaxOpen + 1
    /\ \A f \in Files : fcnt_list[f] # NoVector <=> f \in OpenFiles

\* The retry map stays empty: the lookup in the if of client.cpp's send loop
\* has already inserted the key the later find looks for.
RetryQueueEmpty == send_failed = {}

\* The client process always ends, even when no "terminate" ever reaches it.
ClientStops == <>(cpc \in {"exited", "aborted"})

\* All files arrive, whatever the network does to ACKs and although the
\* client stops after a fixed number of passes.
AllReceived == <>(\A f \in Files : stored[f] = Fragments(f))

-----------------------------------------------------------------------------
(* The refinement: FileTransfer implements FileStore.  The mapping turns   *)
(* the vectors the server has written back into bytes and compares files   *)
(* byte by byte.                                                           *)

\* The bytes of a file in order, each named by its position in the source.
SourceBytes == [f \in Files |-> [k \in 1 .. FileSize[f] |-> k - 1]]

SpanBytes(s) == [k \in 1 .. s.len |-> s.start + k - 1]

\* MergePackets: the concatenation of the strings of a vector.
MergedBytes(vector) ==
    FlattenSeq([k \in 1 .. Cardinality(DOMAIN vector) |-> SpanBytes(vector[k - 1])])

\* No sequence of bytes, but a function, so that TLC can compare it with one.
AbsentFile == [k \in {-1} |-> -1]

\* The refinement mapping: the files in the server's directory as bytes, and
\* the client that has left through term_flag.
MappedStore ==
    [f \in Files |-> IF stored[f] = NotStored THEN AbsentFile ELSE MergedBytes(stored[f])]

MappedTold == cpc = "exited"

Abstract == INSTANCE FileStore WITH
    Source <- SourceBytes, Absent <- AbsentFile, store <- MappedStore, told <- MappedTold

\* client.cpp and server.cpp together implement FileStore: the bytes of each
\* file appear once and are the source's bytes, and the client exits through
\* term_flag only after all files have appeared.
ImplementsFileStore == Abstract!Spec
=============================================================================
