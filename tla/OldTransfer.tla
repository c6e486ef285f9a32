----------------------------- MODULE OldTransfer -----------------------------
(***************************************************************************)
(* The older pair of the UDP file transfer, np-lab6/client_test.cpp and    *)
(* server_test.cpp.  The client sends a fragment, looks once for an        *)
(* answer, and credits it only to the fragment it has just sent; the first *)
(* credited fragment of a file ends the file's turn.  Each pass over the   *)
(* files opens the directory and does not close it; when no descriptor is  *)
(* left for a file the client exits, whatever the server has.  The server  *)
(* answers each fragment with one ACK, or "nono", and when it has all      *)
(* files says terminate for ever; it dies when it cannot create a file.    *)
(*                                                                         *)
(* A fragment is a pair <<file, offset>>.  UDP (external) loses and        *)
(* reorders; what is on the way is a set.                                  *)
(***************************************************************************)
EXTENDS Integers, FiniteSets

CONSTANTS
    OldFiles,       \* num_file
    OldFrags,       \* content.size() of each file
    OldPasses       \* directories that can be open with a descriptor left for a file

ASSUME OldFragsAssumption ==
    /\ OldFiles \in Nat \ {0} /\ OldFrags \in [1 .. OldFiles -> Nat \ {0}]
    /\ OldPasses \in Nat \ {0}

VARIABLES
    oldPc,          \* client: "pass", "recv" or "exit"
    oldAt,          \* client: seq_num and offset
    oldOpened,      \* client: directories opened, one for each pass
    oldKeys, oldAcked,  \* client: keys of ACKed, and those whose value is 1
    oldFailed,      \* client: keys of send_failed
    oldData, oldAcks,   \* on the way to the server, to the client
    oldRecord,      \* server: record_list
    oldReceived,    \* server: received_list, the files written
    oldDied         \* server: fclose(NULL) has ended it

oldServerVars == <<oldRecord, oldReceived, oldDied>>
oldVars == <<oldPc, oldAt, oldOpened, oldKeys, oldAcked, oldFailed, oldData, oldAcks,
             oldServerVars>>

OldFragments == UNION {{f} \X (0 .. OldFrags[f] - 1) : f \in 1 .. OldFiles}
OldDone == oldReceived = 1 .. OldFiles

OldInit ==
    /\ oldPc = "pass" /\ oldAt = <<1, 0>> /\ oldOpened = 1 /\ oldKeys = {}
    /\ oldAcked = {} /\ oldFailed = {} /\ oldData = {} /\ oldAcks = {}
    /\ oldRecord = [f \in 1 .. OldFiles |-> {}] /\ oldReceived = {} /\ oldDied = FALSE

\* The next fragment of the file; the next file; a new pass over the
\* directory.  send_failed is empty, so the loop that sends it again is left
\* at once (OldFailedEmpty).
OldFollowing(p) ==
    IF p[2] + 1 < OldFrags[p[1]] THEN <<p[1], p[2] + 1>>
    ELSE IF p[1] < OldFiles THEN <<p[1] + 1, 0>> ELSE <<1, 0>>
OldNextFile(p) == IF p[1] < OldFiles THEN <<p[1] + 1, 0>> ELSE <<1, 0>>

\* The client goes on at p.  Back at the first file it opens the directory
\* once more, and exits if that was the last descriptor.
OldGoOn(p) ==
    /\ oldAt' = p
    /\ IF p # <<1, 0>> THEN oldPc' = "pass" /\ UNCHANGED oldOpened
       ELSE /\ oldOpened' = oldOpened + 1
            /\ oldPc' = IF oldOpened < OldPasses THEN "pass" ELSE "exit"

\* ACKed[{seq_num, offset}] inserts the key it does not find.
OldLookedUp(p) == oldKeys \cup {p}

OldSkip ==
    /\ oldPc = "pass" /\ oldAt \in oldAcked
    /\ OldGoOn(OldFollowing(oldAt))
    /\ UNCHANGED <<oldKeys, oldAcked, oldFailed, oldData, oldAcks, oldServerVars>>

OldSend ==
    /\ oldPc = "pass" /\ oldAt \notin oldAcked
    /\ oldKeys' = OldLookedUp(oldAt)
    /\ oldData' = oldData \cup {oldAt}
    /\ oldPc' = "recv"
    /\ UNCHANGED <<oldAt, oldOpened, oldAcked, oldFailed, oldAcks, oldServerVars>>

\* Mutant: any ACK is credited to the fragment just sent.
OldCreditsAny(ack) == TRUE

OldCredits(ack) == ack = oldAt

\* Not the ACK of this fragment: it would be kept for sending again.
OldNotAcked ==
    /\ oldFailed' = IF oldAt \in oldKeys THEN oldFailed ELSE oldFailed \cup {oldAt}
    /\ OldGoOn(OldFollowing(oldAt)) /\ UNCHANGED oldAcked

\* recvfrom with MSG_DONTWAIT: an ACK, which may be that of another fragment.
OldRecvAck ==
    /\ oldPc = "recv"
    /\ \E ack \in oldAcks :
          /\ oldAcks' = oldAcks \ {ack}
          /\ IF OldCredits(ack)
             THEN /\ oldAcked' = oldAcked \cup {oldAt}
                  /\ OldGoOn(OldNextFile(oldAt)) /\ UNCHANGED oldFailed
             ELSE OldNotAcked
    /\ UNCHANGED <<oldKeys, oldData, oldServerVars>>

\* Nothing there, or the "nono" of the server: not an ACK.
OldRecvOther ==
    /\ oldPc = "recv" /\ OldNotAcked
    /\ UNCHANGED <<oldKeys, oldData, oldAcks, oldServerVars>>

\* terminate sets term_flag: the client exits.
OldRecvTerminate ==
    /\ oldPc = "recv" /\ OldDone
    /\ oldPc' = "exit"
    /\ UNCHANGED <<oldAt, oldOpened, oldKeys, oldAcked, oldFailed, oldData, oldAcks,
                   oldServerVars>>

OldComplete(f, record) == Cardinality(record) = OldFrags[f]

\* A file that has just become complete is written, or cannot be created,
\* which ends the server at fclose(NULL).
OldWrite(f, record) ==
    IF OldComplete(f, record) /\ f \notin oldReceived
    THEN \/ oldReceived' = oldReceived \cup {f} /\ UNCHANGED oldDied
         \/ oldDied' = TRUE /\ UNCHANGED oldReceived
    ELSE UNCHANGED <<oldReceived, oldDied>>

\* The receive loop: decompose, ACK, record, and write a file once complete;
\* or the text behind the first '>' is not as long as the fragment says, and
\* "nono" goes back.  After the last file the server reads no more.
OldReceive(p) ==
    /\ ~OldDone /\ ~oldDied /\ p \in oldData
    /\ oldData' = oldData \ {p}
    /\ \/ UNCHANGED <<oldAcks, oldServerVars>>
       \/ /\ oldAcks' = oldAcks \cup {p}
          /\ LET record == oldRecord[p[1]] \cup {p[2]}
             IN  /\ oldRecord' = [oldRecord EXCEPT ![p[1]] = record]
                 /\ OldWrite(p[1], record)
    /\ UNCHANGED <<oldPc, oldAt, oldOpened, oldKeys, oldAcked, oldFailed>>

\* Unreliable delivery.
OldLose ==
    /\ \/ \E p \in oldData : oldData' = oldData \ {p} /\ UNCHANGED oldAcks
       \/ \E p \in oldAcks : oldAcks' = oldAcks \ {p} /\ UNCHANGED oldData
    /\ UNCHANGED <<oldPc, oldAt, oldOpened, oldKeys, oldAcked, oldFailed, oldServerVars>>

OldClient == OldSkip \/ OldSend \/ OldRecvAck \/ OldRecvOther \/ OldRecvTerminate
OldNext == OldClient \/ (\E p \in OldFragments : OldReceive(p)) \/ OldLose

OldSpec == OldInit /\ [][OldNext]_oldVars

(***************************************************************************)
(* The list of failed fragments, and with it the loop meant to send them   *)
(* again, is never used: the test of ACKed has inserted the key before the *)
(* client asks whether it is there.                                        *)
(***************************************************************************)
OldFailedEmpty == oldFailed = {}

(***************************************************************************)
(* A fragment the client will not send again has reached the server, late  *)
(* and reordered ACKs notwithstanding.                                     *)
(***************************************************************************)
OldCreditSound == \A p \in oldAcked : p[2] \in oldRecord[p[1]]

(***************************************************************************)
(* A file is written only when all its fragments are recorded, whichever   *)
(* order and however often they came.                                      *)
(***************************************************************************)
OldWrittenWhole == \A f \in oldReceived : oldRecord[f] = 0 .. OldFrags[f] - 1

(***************************************************************************)
(* The client ends, also when the server has died or nothing arrives: not  *)
(* because it has given up, but because each pass keeps a directory open.  *)
(* It may end with files missing: a pass credits one fragment of a file at *)
(* most, and only if its ACK comes at once.                                *)
(***************************************************************************)
OldClientEnds == (oldPc = "recv") ~> (oldPc = "exit")

\* The older transfer believes, writes and resends only what it should.
OldSafe ==
    /\ OldFailedEmpty
    /\ OldCreditSound
    /\ OldWrittenWhole
=============================================================================
