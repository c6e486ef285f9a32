-------------------------- MODULE ChatServerProofs --------------------------
(***************************************************************************)
(* Proofs about the chat server of hw2, for any users, descriptors, rooms  *)
(* and number of connections, over any interleaving of the commands.       *)
(*                                                                         *)
(* Two things are told apart: names that were in two overlapping commands  *)
(* (raced) from the others, because no lock holds a command together, and  *)
(* names that fit into the string object from those that do not, because   *)
(* logout, exit and disconnect use a name after its entry was erased.      *)
(***************************************************************************)
EXTENDS ChatServer, ChatWire, ChatFilter, SequenceTheorems, WellFoundedInduction, TLAPS

SessionTypes ==
    /\ registered_users \subseteq Users
    /\ logged_in_clients \subseteq Fds
    /\ logged_in_usernames \subseteq registered_users
    /\ client_usernames \in [Fds -> registered_users \cup {Empty}]
    /\ client_statuses \in [Users -> {Empty, "online", "offline", "busy"}]

RoomTypes ==
    /\ client_chat_rooms \in [Fds -> AnyRoom \cup {NoRoom}]
    /\ chat_rooms \subseteq AnyRoom
    /\ chat_room_creators \in [AnyRoom -> registered_users \cup {Empty}]
    /\ in \in BOOLEAN

ThreadTypes ==
    /\ process \in {"up", "aborted", "killed"}
    /\ open \subseteq Fds
    /\ eof \subseteq open
    /\ readers \in [Fds -> Nat]
    /\ held \in [Fds -> Nat]
    /\ failing \in [Fds -> Nat]
    /\ closing \in [Fds -> Nat]
    /\ accepts \in 0 .. MaxAccepts

ThreadsMidway == [at : SessionPlaces \cup RoomPlaces, fd : Fds,
                  user : registered_users \cup {Empty}, room : AnyRoom, copy : 1 .. MaxAccepts]

MidwayTypes ==
    /\ midway \subseteq ThreadsMidway
    /\ raced \subseteq Users \cup {Empty}
    /\ disputed \subseteq Rooms

LEMMA TypeParts ==
    /\ TypeOK <=> SessionTypes /\ RoomTypes /\ ThreadTypes /\ MidwayTypes
    /\ TypeOK' <=> SessionTypes' /\ RoomTypes' /\ ThreadTypes' /\ MidwayTypes'
  BY DEF TypeOK, SessionTypes, RoomTypes, ThreadTypes, MidwayTypes, ThreadsMidway

-----------------------------------------------------------------------------
(* What the parts of the handlers do to the threads and to the tables.     *)

\* The threads that still have the disconnect branch of d ahead of them and
\* are not midway.
Threads(d) == readers[d] + held[d] + failing[d]

\* What a thread that arrives at a place has found.
LEMMA ArriveNew ==
    ASSUME NEW S, NEW p, NEW c, NEW u, NEW r, Arrive(S, p, c, u, r)
    PROVE  \E y : /\ y \notin S /\ midway' = S \cup {y}
                  /\ y.at = p /\ y.fd = c /\ y.user = u /\ y.room = r
  <1>1. PICK i \in 1 .. MaxAccepts :
            /\ [at |-> p, fd |-> c, user |-> u, room |-> r, copy |-> i] \notin S
            /\ midway' = S \cup {[at |-> p, fd |-> c, user |-> u, room |-> r, copy |-> i]}
    BY DEF Arrive
  <1> DEFINE y == [at |-> p, fd |-> c, user |-> u, room |-> r, copy |-> i]
  <1>2. /\ y \notin S /\ midway' = S \cup {y}
        /\ y.at = p /\ y.fd = c /\ y.user = u /\ y.room = r
    BY <1>1
  <1> QED
    BY <1>2

LEMMA ArriveType ==
    ASSUME MidwayTypes, NEW S, S \subseteq midway,
           NEW p, p \in SessionPlaces \cup RoomPlaces, NEW c, c \in Fds,
           NEW u, u \in registered_users \cup {Empty}, NEW r, r \in AnyRoom,
           Arrive(S, p, c, u, r), registered_users' = registered_users
    PROVE  midway' \subseteq ThreadsMidway'
  <1>1. PICK i \in 1 .. MaxAccepts :
            midway' = S \cup {[at |-> p, fd |-> c, user |-> u, room |-> r, copy |-> i]}
    BY DEF Arrive
  <1>2. [at |-> p, fd |-> c, user |-> u, room |-> r, copy |-> i] \in ThreadsMidway
    BY DEF ThreadsMidway
  <1>3. ThreadsMidway' = ThreadsMidway
    BY DEF ThreadsMidway
  <1> QED
    BY <1>1, <1>2, <1>3 DEF MidwayTypes

\* The types of those that are midway do not change when users are added.
LEMMA MidwayTypesStable ==
    ASSUME MidwayTypes, midway' \subseteq midway, UNCHANGED races,
           registered_users \subseteq registered_users'
    PROVE  MidwayTypes'
  <1>1. ThreadsMidway \subseteq ThreadsMidway'
    BY DEF ThreadsMidway
  <1> QED
    BY <1>1 DEF MidwayTypes, races

\* A line is given to a descriptor that has a thread, which leaves recv.
LEMMA ReceiveThreads ==
    ASSUME ThreadTypes, NEW c, c \in Fds, NEW n, n \in {0, 1}, Receive(c, readers[c] + n)
    PROVE  /\ ThreadTypes'
           /\ Threads(c) > 0
           /\ Threads(c)' = Threads(c) + n - 1
           /\ \A d \in Fds \ {c} : Threads(d)' = Threads(d)
           /\ process = "up"
  BY DEF ThreadTypes, Receive, Threads

LEMMA FinishThreads ==
    ASSUME ThreadTypes, NEW x, x.fd \in Fds, Finish(x)
    PROVE  /\ ThreadTypes'
           /\ Threads(x.fd)' = Threads(x.fd) + 1
           /\ \A d \in Fds \ {x.fd} : Threads(d)' = Threads(d)
  BY DEF ThreadTypes, Finish, Threads

\* close() moves threads of its descriptor but loses none: those it leaves
\* are the ones the caller has left.
LEMMA CloseThreads ==
    ASSUME ThreadTypes, NEW c, c \in Fds, NEW rd, rd \in Nat, NEW others, others \in 0 .. rd,
           Close(c, rd, others, held[c], failing[c])
    PROVE  /\ open' \subseteq Fds /\ eof' \subseteq open'
           /\ readers' \in [Fds -> Nat]
           /\ held' \in [Fds -> Nat]
           /\ failing' \in [Fds -> Nat]
           /\ Threads(c)' = rd + held[c] + failing[c]
           /\ \A d \in Fds \ {c} : Threads(d)' = Threads(d)
  <1>1. PICK k \in 0 .. (IF c \in open THEN others ELSE 0) :
          /\ readers' = [readers EXCEPT ![c] = rd - k]
          /\ held' = [held EXCEPT ![c] = IF c \in eof THEN held[c] ELSE held[c] + k]
          /\ failing' = [failing EXCEPT ![c] = IF c \in eof THEN failing[c] + k ELSE failing[c]]
    BY DEF Close
  <1>2. k \in Nat /\ k <= rd
    OBVIOUS
  <1>3. open' = open \ {c} /\ eof' = eof \ {c}
    BY DEF Close
  <1> QED
    BY <1>1, <1>2, <1>3 DEF ThreadTypes, Threads

\* AfterLoop only takes descriptors into the lobby.
LEMMA AfterLoopType ==
    ASSUME RoomTypes, NEW S
    PROVE  AfterLoop(S) \in [Fds -> AnyRoom \cup {NoRoom}]
  BY DEF RoomTypes, AfterLoop, AnyRoom

LEMMA WithStatusType ==
    ASSUME SessionTypes, NEW n, NEW st, st \in {"online", "offline", "busy"}
    PROVE  WithStatus(n, st) \in [Users -> {Empty, "online", "offline", "busy"}]
  BY DEF SessionTypes, WithStatus

\* The end of the session of u on c: the tables lose c, and a name that u is
\* or that has become of it, of which another is shown as offline.
Ends(c, u) ==
    /\ logged_in_clients' = logged_in_clients \ {c}
    /\ client_usernames' = [client_usernames EXCEPT ![c] = Empty]
    /\ \E n \in Dangling(u) : logged_in_usernames' = logged_in_usernames \ {n}
    /\ \E n \in Dangling(u) : client_statuses' = WithStatus(n, "offline")
    /\ UNCHANGED registered_users

LEMMA EndSessionEnds ==
    ASSUME NEW c, NEW u, EndSession(c, u)
    PROVE  Ends(c, u)
  BY DEF EndSession, Ends, Dangling

LEMMA ExitedEnds ==
    ASSUME NEW x, Exited(x), x.user # Empty
    PROVE  Ends(x.fd, x.user)
  <1>1. PICK n \in Dangling(x.user) : /\ client_statuses' = WithStatus(n, "offline")
                                      /\ logged_in_usernames' = logged_in_usernames \ {n}
    BY DEF Exited
  <1> QED
    BY <1>1 DEF Exited, Ends

LEMMA EndsType ==
    ASSUME SessionTypes, NEW c, NEW u, Ends(c, u)
    PROVE  SessionTypes' /\ registered_users' = registered_users
  <1>1. client_statuses' \in [Users -> {Empty, "online", "offline", "busy"}]
    BY WithStatusType DEF Ends
  <1> QED
    BY <1>1 DEF Ends, SessionTypes

\* The types of the tables about rooms do not change when users are added.
LEMMA RoomTypesStable ==
    ASSUME RoomTypes, UNCHANGED roomVars, registered_users \subseteq registered_users'
    PROVE  RoomTypes'
  BY DEF RoomTypes, roomVars

LEMMA SessionTypesStable ==
    ASSUME SessionTypes, UNCHANGED sessionVars
    PROVE  SessionTypes' /\ registered_users' = registered_users
  BY DEF SessionTypes, sessionVars

-----------------------------------------------------------------------------
(* Type correctness.                                                       *)

LEMMA TypeInit == Init => TypeOK
  <1> SUFFICES ASSUME Init PROVE TypeOK
    OBVIOUS
  <1>1. SessionTypes
    BY DEF Init, SessionTypes
  <1>2. RoomTypes
    BY DEF Init, RoomTypes, AnyRoom
  <1>3. ThreadTypes
    BY BoundAssumption DEF Init, ThreadTypes
  <1>4. MidwayTypes
    BY DEF Init, MidwayTypes
  <1> QED
    BY <1>1, <1>2, <1>3, <1>4, TypeParts

LEMMA GoneType ==
    ASSUME TypeOK, NEW how, how \in {"aborted", "killed"}, Gone(how)
    PROVE  TypeOK'
  BY DEF TypeOK, Gone, AnyRoom

\* A command that is begun, or one that is one step.
LEMMA BeginType ==
    ASSUME TypeOK, NEW c, c \in Fds,
           NEW p, p \in SessionPlaces \cup RoomPlaces,
           NEW u, u \in registered_users \cup {Empty}, NEW r, r \in AnyRoom,
           Begin(p, c, u, r)
    PROVE  /\ SessionTypes' /\ ThreadTypes' /\ midway' \subseteq ThreadsMidway'
           /\ registered_users' = registered_users
  <1>1. SessionTypes /\ ThreadTypes /\ MidwayTypes
    BY TypeParts
  <1>2. UNCHANGED sessionVars /\ Arrive(midway, p, c, u, r)
    BY DEF Begin
  <1>3. readers[c] \in Nat
    BY <1>1 DEF ThreadTypes
  <1>4. Receive(c, readers[c] + 0)
    <2>1. readers[c] + 0 = readers[c]
      BY <1>3
    <2> QED
      BY <2>1 DEF Begin
  <1>5. ThreadTypes'
    BY <1>1, <1>4, ReceiveThreads
  <1>6. SessionTypes' /\ registered_users' = registered_users
    BY <1>1, <1>2, SessionTypesStable
  <1>7. midway' \subseteq ThreadsMidway'
    BY <1>1, <1>2, <1>6, ArriveType
  <1> QED
    BY <1>5, <1>6, <1>7

LEMMA CommandType ==
    ASSUME TypeOK, NEW c, c \in Fds, Command(c), registered_users \subseteq registered_users'
    PROVE  ThreadTypes' /\ MidwayTypes'
  <1>1. ThreadTypes /\ MidwayTypes
    BY TypeParts
  <1>2. ThreadTypes'
    BY <1>1, ReceiveThreads DEF Command
  <1>3. MidwayTypes'
    BY <1>1, MidwayTypesStable DEF Command
  <1> QED
    BY <1>2, <1>3

LEMMA RegisterType ==
    ASSUME TypeOK, NEW c, c \in Fds, NEW u, u \in Users, Register(c, u)
    PROVE  TypeOK'
  <1>1. SessionTypes /\ RoomTypes
    BY TypeParts
  <1>2. registered_users \subseteq registered_users'
    BY DEF Register
  <1>3. ThreadTypes' /\ MidwayTypes'
    BY <1>2, CommandType DEF Register
  <1>4. SessionTypes'
    BY <1>1 DEF Register, SessionTypes
  <1>5. RoomTypes'
    BY <1>1, <1>2, RoomTypesStable DEF Register
  <1> QED
    BY <1>3, <1>4, <1>5, TypeParts

LEMMA AnswerType ==
    ASSUME TypeOK, NEW c, c \in Fds, Answer(c)
    PROVE  TypeOK'
  <1>1. SessionTypes /\ RoomTypes
    BY TypeParts
  <1>2. SessionTypes' /\ registered_users' = registered_users
    BY <1>1, SessionTypesStable DEF Answer
  <1>3. ThreadTypes' /\ MidwayTypes'
    BY <1>2, CommandType DEF Answer
  <1>4. RoomTypes'
    BY <1>1, <1>2, RoomTypesStable DEF Answer
  <1> QED
    BY <1>2, <1>3, <1>4, TypeParts

LEMMA UserOfType ==
    ASSUME SessionTypes, NEW c, c \in Fds
    PROVE  UserOf(c) \in registered_users \cup {Empty}
  BY DEF SessionTypes, UserOf

LEMMA RecordRaceType ==
    ASSUME TypeOK, NEW p, NEW c, NEW u, u \in registered_users \cup {Empty}, RecordRace(p, c, u)
    PROVE  /\ raced' \subseteq Users \cup {Empty}
           /\ disputed' \subseteq Rooms
           /\ raced \subseteq raced'
  <1>1. \A x \in midway : x.user \in Users \cup {Empty}
    BY DEF TypeOK
  <1>2. {x.user : x \in Rivals(p, c, u)} \subseteq Users \cup {Empty}
    BY <1>1 DEF Rivals
  <1>3. u \in Users \cup {Empty}
    BY DEF TypeOK
  <1> QED
    BY <1>2, <1>3 DEF TypeOK, RecordRace

LEMMA BeginSessionType ==
    ASSUME TypeOK, NEW c, c \in Fds, NEW p, p \in SessionPlaces,
           NEW u, u \in registered_users \cup {Empty}, BeginSession(p, c, u)
    PROVE  TypeOK'
  <1>1. Begin(p, c, u, Lobby) /\ RecordRace(p, c, u) /\ UNCHANGED roomVars
    BY DEF BeginSession
  <1>2. Lobby \in AnyRoom
    BY DEF AnyRoom
  <1>3. /\ SessionTypes' /\ ThreadTypes' /\ midway' \subseteq ThreadsMidway'
        /\ registered_users' = registered_users
    BY <1>1, <1>2, BeginType
  <1>4. raced' \subseteq Users \cup {Empty} /\ disputed' \subseteq Rooms
    BY <1>1, RecordRaceType
  <1>5. RoomTypes'
    BY <1>1, <1>3, RoomTypesStable, TypeParts
  <1> QED
    BY <1>3, <1>4, <1>5, TypeParts DEF MidwayTypes

LEMMA CleanupType ==
    ASSUME TypeOK, NEW c, c \in Fds, Cleanup(c)
    PROVE  TypeOK'
  <1>1. SessionTypes /\ RoomTypes /\ ThreadTypes /\ MidwayTypes
    BY TypeParts
  <1>2. /\ Arrive(midway, "cleanup", c, UserOf(c), Lobby)
        /\ RecordRace("cleanup", c, UserOf(c))
        /\ UNCHANGED sessionVars /\ UNCHANGED roomVars
        /\ UNCHANGED <<process, open, eof, readers, held, closing, accepts>>
        /\ failing[c] > 0 /\ failing' = [failing EXCEPT ![c] = @ - 1]
    BY DEF Cleanup
  <1>3. UserOf(c) \in registered_users \cup {Empty} /\ Lobby \in AnyRoom
        /\ "cleanup" \in SessionPlaces \cup RoomPlaces
    BY <1>1, UserOfType DEF AnyRoom, SessionPlaces
  <1>4. SessionTypes' /\ registered_users' = registered_users
    BY <1>1, <1>2, SessionTypesStable
  <1>5. midway' \subseteq ThreadsMidway'
    BY <1>1, <1>2, <1>3, <1>4, ArriveType
  <1>6. raced' \subseteq Users \cup {Empty} /\ disputed' \subseteq Rooms
    BY <1>2, <1>3, RecordRaceType
  <1>7. RoomTypes'
    BY <1>1, <1>2, <1>4, RoomTypesStable
  <1>8. ThreadTypes'
    BY <1>1, <1>2 DEF ThreadTypes
  <1> QED
    BY <1>4, <1>5, <1>6, <1>7, <1>8, TypeParts DEF MidwayTypes

LEMMA RecordDisputeType ==
    ASSUME TypeOK, NEW places, NEW r, r \in Rooms, RecordDispute(places, r)
    PROVE  raced' = raced /\ disputed' \subseteq Rooms /\ disputed \subseteq disputed'
  BY DEF TypeOK, RecordDispute

LEMMA EnterTestsType ==
    ASSUME TypeOK, NEW c, c \in Fds, NEW r, r \in Rooms, EnterTests(c, r)
    PROVE  TypeOK'
  <1> DEFINE free == chat_room_creators[r] = Empty
  <1>1. /\ Begin(IF free THEN "own" ELSE "join", c, Empty, r)
        /\ RecordDispute(IF free THEN {"own"} ELSE {}, r)
        /\ UNCHANGED roomVars
    BY DEF EnterTests
  <1>2. r \in AnyRoom /\ Empty \in registered_users \cup {Empty}
        /\ (IF free THEN "own" ELSE "join") \in SessionPlaces \cup RoomPlaces
    BY DEF AnyRoom, RoomPlaces
  <1>3. /\ SessionTypes' /\ ThreadTypes' /\ midway' \subseteq ThreadsMidway'
        /\ registered_users' = registered_users
    BY <1>1, <1>2, BeginType
  <1>4. raced' = raced /\ disputed' \subseteq Rooms
    BY <1>1, RecordDisputeType
  <1>5. RoomTypes'
    BY <1>1, <1>3, RoomTypesStable, TypeParts
  <1> QED
    BY <1>3, <1>4, <1>5, TypeParts DEF MidwayTypes

LEMMA CloseChatRoomType ==
    ASSUME TypeOK, NEW c, c \in Fds, NEW r, r \in Rooms, CloseChatRoom(c, r)
    PROVE  TypeOK'
  <1>1. /\ Begin("expel", c, client_usernames[c], r)
        /\ RecordDispute({"expel", "erase"}, r)
        /\ UNCHANGED roomVars
    BY DEF CloseChatRoom
  <1>2. r \in AnyRoom /\ client_usernames[c] \in registered_users \cup {Empty}
        /\ "expel" \in SessionPlaces \cup RoomPlaces
    BY DEF AnyRoom, RoomPlaces, TypeOK
  <1>3. /\ SessionTypes' /\ ThreadTypes' /\ midway' \subseteq ThreadsMidway'
        /\ registered_users' = registered_users
    BY <1>1, <1>2, BeginType
  <1>4. raced' = raced /\ disputed' \subseteq Rooms
    BY <1>1, RecordDisputeType
  <1>5. RoomTypes'
    BY <1>1, <1>3, RoomTypesStable, TypeParts
  <1> QED
    BY <1>3, <1>4, <1>5, TypeParts DEF MidwayTypes

LEMMA LineType ==
    ASSUME TypeOK, NEW c, c \in Fds, Line(c)
    PROVE  TypeOK'
  <1>1. Begin("line", c, Empty, Lobby) /\ UNCHANGED roomVars /\ UNCHANGED races
    BY DEF Line
  <1>2. Lobby \in AnyRoom /\ Empty \in registered_users \cup {Empty}
        /\ "line" \in SessionPlaces \cup RoomPlaces
    BY DEF AnyRoom, RoomPlaces
  <1>3. /\ SessionTypes' /\ ThreadTypes' /\ midway' \subseteq ThreadsMidway'
        /\ registered_users' = registered_users
    BY <1>1, <1>2, BeginType
  <1>4. RoomTypes'
    BY <1>1, <1>3, RoomTypesStable, TypeParts
  <1> QED
    BY <1>1, <1>3, <1>4, TypeParts DEF MidwayTypes, races

LEMMA AcceptType ==
    ASSUME TypeOK, NEW c, c \in Fds, Accept(c)
    PROVE  TypeOK'
  <1>1. SessionTypes /\ RoomTypes /\ ThreadTypes /\ MidwayTypes
    BY TypeParts
  <1>2. /\ Arrive(midway, "start", c, Empty, Lobby)
        /\ UNCHANGED sessionVars /\ UNCHANGED roomVars /\ UNCHANGED races
        /\ UNCHANGED <<process, eof, readers, held, failing, closing>>
        /\ open' = open \cup {c} /\ accepts < MaxAccepts /\ accepts' = accepts + 1
    BY DEF Accept
  <1>3. Lobby \in AnyRoom /\ Empty \in registered_users \cup {Empty}
        /\ "start" \in SessionPlaces \cup RoomPlaces
    BY DEF AnyRoom, RoomPlaces
  <1>4. SessionTypes' /\ registered_users' = registered_users
    BY <1>1, <1>2, SessionTypesStable
  <1>5. midway' \subseteq ThreadsMidway'
    BY <1>1, <1>2, <1>3, <1>4, ArriveType
  <1>6. RoomTypes'
    BY <1>1, <1>2, <1>4, RoomTypesStable
  <1>7. ThreadTypes'
    <2>1. accepts + 1 \in 0 .. MaxAccepts
      BY <1>1, <1>2, BoundAssumption DEF ThreadTypes
    <2> QED
      BY <1>1, <1>2, <2>1 DEF ThreadTypes
  <1> QED
    BY <1>1, <1>2, <1>4, <1>5, <1>6, <1>7, TypeParts DEF MidwayTypes, races

LEMMA HangupType ==
    ASSUME TypeOK, NEW c, c \in Fds, Hangup(c)
    PROVE  TypeOK'
  <1>1. SessionTypes' /\ registered_users' = registered_users
    BY TypeParts, SessionTypesStable DEF Hangup
  <1>2. RoomTypes'
    BY <1>1, TypeParts, RoomTypesStable DEF Hangup
  <1>3. MidwayTypes'
    BY <1>1, TypeParts, MidwayTypesStable DEF Hangup
  <1>4. ThreadTypes'
    BY TypeParts DEF Hangup, ThreadTypes
  <1> QED
    BY <1>1, <1>2, <1>3, <1>4, TypeParts

LEMMA RecvFailsType ==
    ASSUME TypeOK, NEW c, c \in Fds, RecvFails(c) \/ HeldRecvFails(c)
    PROVE  TypeOK'
  <1>1. UNCHANGED sessionVars /\ UNCHANGED roomVars /\ UNCHANGED midway /\ UNCHANGED races
    BY DEF RecvFails, HeldRecvFails
  <1>2. SessionTypes' /\ registered_users' = registered_users
    BY <1>1, TypeParts, SessionTypesStable
  <1>3. RoomTypes'
    BY <1>1, <1>2, TypeParts, RoomTypesStable
  <1>4. MidwayTypes'
    BY <1>1, <1>2, TypeParts, MidwayTypesStable
  <1>5. ThreadTypes'
    BY TypeParts DEF RecvFails, HeldRecvFails, ThreadTypes
  <1> QED
    BY <1>2, <1>3, <1>4, <1>5, TypeParts

LEMMA FinalCloseType ==
    ASSUME TypeOK, NEW c, c \in Fds, FinalClose(c)
    PROVE  TypeOK'
  <1>1. /\ UNCHANGED sessionVars /\ UNCHANGED roomVars /\ UNCHANGED midway /\ UNCHANGED races
        /\ UNCHANGED <<process, accepts>>
        /\ closing[c] > 0 /\ closing' = [closing EXCEPT ![c] = @ - 1]
        /\ Close(c, readers[c], readers[c], held[c], failing[c])
    BY DEF FinalClose
  <1>2. SessionTypes' /\ registered_users' = registered_users
    BY <1>1, TypeParts, SessionTypesStable
  <1>3. RoomTypes'
    BY <1>1, <1>2, TypeParts, RoomTypesStable
  <1>4. MidwayTypes'
    BY <1>1, <1>2, TypeParts, MidwayTypesStable
  <1>5. ThreadTypes
    BY TypeParts
  <1>6. readers[c] \in Nat /\ readers[c] \in 0 .. readers[c]
    BY <1>5 DEF ThreadTypes
  <1>7. /\ open' \subseteq Fds /\ eof' \subseteq open'
        /\ readers' \in [Fds -> Nat] /\ held' \in [Fds -> Nat] /\ failing' \in [Fds -> Nat]
    BY <1>1, <1>5, <1>6, CloseThreads
  <1>8. ThreadTypes'
    BY <1>1, <1>5, <1>7 DEF ThreadTypes
  <1> QED
    BY <1>2, <1>3, <1>4, <1>8, TypeParts

\* A thread that is midway has a descriptor, a user and a room.
LEMMA MidwayFields ==
    ASSUME TypeOK, NEW x, x \in midway
    PROVE  /\ x.at \in SessionPlaces \cup RoomPlaces
           /\ x.fd \in Fds
           /\ x.user \in registered_users \cup {Empty}
           /\ x.room \in AnyRoom
  BY TypeParts DEF MidwayTypes, ThreadsMidway

\* The end of a command.
LEMMA FinishType ==
    ASSUME TypeOK, NEW x, x \in midway, Finish(x), registered_users' = registered_users
    PROVE  ThreadTypes' /\ MidwayTypes'
  <1>1. ThreadTypes'
    BY TypeParts, MidwayFields, FinishThreads
  <1>2. midway' \subseteq midway /\ UNCHANGED races
    BY DEF Finish
  <1>3. MidwayTypes'
    BY <1>2, TypeParts, MidwayTypesStable
  <1> QED
    BY <1>1, <1>3

LEMMA StartThreadType ==
    ASSUME TypeOK, NEW x, x \in midway, StartThread(x)
    PROVE  TypeOK'
  <1>1. SessionTypes' /\ registered_users' = registered_users
    BY TypeParts, SessionTypesStable DEF StartThread
  <1>2. RoomTypes'
    BY <1>1, TypeParts, RoomTypesStable DEF StartThread
  <1>3. ThreadTypes' /\ MidwayTypes'
    BY <1>1, FinishType DEF StartThread
  <1> QED
    BY <1>1, <1>2, <1>3, TypeParts

LEMMA LoggedInType ==
    ASSUME TypeOK, NEW x, x \in midway, LoggedIn(x), x.user # Empty
    PROVE  TypeOK'
  <1>1. SessionTypes /\ x.fd \in Fds /\ x.user \in registered_users
    BY TypeParts, MidwayFields
  <1>2. /\ Finish(x) /\ UNCHANGED roomVars
        /\ logged_in_clients' = logged_in_clients \cup {x.fd}
        /\ client_usernames' = [client_usernames EXCEPT ![x.fd] = x.user]
        /\ client_statuses' = WithStatus(x.user, "online")
        /\ logged_in_usernames' = logged_in_usernames \cup {x.user}
        /\ registered_users' = registered_users
    BY DEF LoggedIn
  <1>3. client_statuses' \in [Users -> {Empty, "online", "offline", "busy"}]
    BY <1>1, <1>2, WithStatusType
  <1>4. SessionTypes'
    BY <1>1, <1>2, <1>3 DEF SessionTypes
  <1>5. RoomTypes'
    BY <1>2, TypeParts, RoomTypesStable
  <1>6. ThreadTypes' /\ MidwayTypes'
    BY <1>2, FinishType
  <1> QED
    BY <1>4, <1>5, <1>6, TypeParts

LEMMA StatusSetType ==
    ASSUME TypeOK, NEW x, x \in midway, StatusSet(x)
    PROVE  TypeOK'
  <1>1. /\ Finish(x) /\ UNCHANGED roomVars /\ x.at \in {"online", "offline", "busy"}
        /\ client_statuses' = WithStatus(x.user, x.at)
        /\ UNCHANGED <<registered_users, logged_in_clients, logged_in_usernames,
                       client_usernames>>
    BY DEF StatusSet
  <1>2. client_statuses' \in [Users -> {Empty, "online", "offline", "busy"}]
    BY <1>1, TypeParts, WithStatusType
  <1>3. SessionTypes'
    BY <1>1, <1>2, TypeParts DEF SessionTypes
  <1>4. RoomTypes'
    BY <1>1, TypeParts, RoomTypesStable
  <1>5. ThreadTypes' /\ MidwayTypes'
    BY <1>1, FinishType
  <1> QED
    BY <1>3, <1>4, <1>5, TypeParts

LEMMA LoggedOutType ==
    ASSUME TypeOK, NEW x, x \in midway, LoggedOut(x)
    PROVE  TypeOK'
  <1>1. Ends(x.fd, x.user) /\ Finish(x) /\ UNCHANGED roomVars
    BY EndSessionEnds DEF LoggedOut
  <1>2. SessionTypes' /\ registered_users' = registered_users
    BY <1>1, TypeParts, EndsType
  <1>3. RoomTypes'
    BY <1>1, <1>2, TypeParts, RoomTypesStable
  <1>4. ThreadTypes' /\ MidwayTypes'
    BY <1>1, <1>2, FinishType
  <1> QED
    BY <1>2, <1>3, <1>4, TypeParts

\* "exit" closes the descriptor and leaves the thread in the loop.
LEMMA ExitedType ==
    ASSUME TypeOK, NEW x, x \in midway, Exited(x)
    PROVE  /\ TypeOK'
           /\ Threads(x.fd)' = Threads(x.fd) + 1
           /\ \A d \in Fds \ {x.fd} : Threads(d)' = Threads(d)
  <1>1. /\ midway' = midway \ {x} /\ UNCHANGED roomVars /\ UNCHANGED races
        /\ UNCHANGED <<registered_users, process, closing, accepts>>
        /\ Close(x.fd, readers[x.fd] + 1, readers[x.fd], held[x.fd], failing[x.fd])
    BY DEF Exited
  <1>2. SessionTypes'
    <2>1. CASE x.user # Empty
      BY <2>1, ExitedEnds, EndsType, TypeParts
    <2>2. CASE x.user = Empty
      <3>1. UNCHANGED <<logged_in_clients, client_usernames, client_statuses,
                        logged_in_usernames>>
        BY <2>2 DEF Exited
      <3> QED
        BY <1>1, <3>1, TypeParts, SessionTypesStable DEF sessionVars
    <2> QED
      BY <2>1, <2>2
  <1>3. RoomTypes'
    BY <1>1, TypeParts, RoomTypesStable
  <1>4. MidwayTypes'
    BY <1>1, TypeParts, MidwayTypesStable
  <1>5. ThreadTypes /\ x.fd \in Fds
    BY TypeParts, MidwayFields
  <1>6. readers[x.fd] + 1 \in Nat /\ readers[x.fd] \in 0 .. (readers[x.fd] + 1)
    BY <1>5 DEF ThreadTypes
  <1>7. /\ open' \subseteq Fds /\ eof' \subseteq open'
        /\ readers' \in [Fds -> Nat] /\ held' \in [Fds -> Nat] /\ failing' \in [Fds -> Nat]
    BY <1>1, <1>5, <1>6, CloseThreads
  <1>8. ThreadTypes'
    BY <1>1, <1>5, <1>7 DEF ThreadTypes
  <1>9. Threads(x.fd)' = readers[x.fd] + 1 + held[x.fd] + failing[x.fd]
    BY <1>1, <1>5, <1>6, CloseThreads
  <1>10. Threads(x.fd)' = Threads(x.fd) + 1
    BY <1>5, <1>9 DEF Threads, ThreadTypes
  <1>11. \A d \in Fds \ {x.fd} : Threads(d)' = Threads(d)
    BY <1>1, <1>5, <1>6, CloseThreads
  <1> QED
    BY <1>2, <1>3, <1>4, <1>8, <1>10, <1>11, TypeParts

\* The disconnect branch ends a session that it has found.
LEMMA CleanedUpType ==
    ASSUME TypeOK, NEW x, x \in midway, CleanedUp(x)
    PROVE  TypeOK' /\ \A d \in Fds : Threads(d)' = Threads(d)
  <1>1. /\ midway' = midway \ {x} /\ UNCHANGED roomVars /\ UNCHANGED races
        /\ UNCHANGED <<process, accepts>>
        /\ closing' = [closing EXCEPT ![x.fd] = @ + 1]
        /\ Close(x.fd, readers[x.fd], readers[x.fd], held[x.fd], failing[x.fd])
    BY DEF CleanedUp
  <1>2. SessionTypes' /\ registered_users' = registered_users
    <2>1. CASE x.user # Empty
      <3>1. EndSession(x.fd, x.user)
        BY <2>1 DEF CleanedUp
      <3> QED
        BY <3>1, EndSessionEnds, EndsType, TypeParts
    <2>2. CASE x.user = Empty
      <3>1. UNCHANGED sessionVars
        BY <2>2 DEF CleanedUp
      <3> QED
        BY <3>1, TypeParts, SessionTypesStable
    <2> QED
      BY <2>1, <2>2
  <1>3. RoomTypes'
    BY <1>1, <1>2, TypeParts, RoomTypesStable
  <1>4. MidwayTypes'
    BY <1>1, <1>2, TypeParts, MidwayTypesStable
  <1>5. ThreadTypes /\ x.fd \in Fds
    BY TypeParts, MidwayFields
  <1>6. readers[x.fd] \in Nat /\ readers[x.fd] \in 0 .. readers[x.fd]
    BY <1>5 DEF ThreadTypes
  <1>7. /\ open' \subseteq Fds /\ eof' \subseteq open'
        /\ readers' \in [Fds -> Nat] /\ held' \in [Fds -> Nat] /\ failing' \in [Fds -> Nat]
    BY <1>1, <1>5, <1>6, CloseThreads
  <1>8. ThreadTypes'
    BY <1>1, <1>5, <1>7 DEF ThreadTypes
  <1>9. Threads(x.fd)' = readers[x.fd] + held[x.fd] + failing[x.fd]
    BY <1>1, <1>5, <1>6, CloseThreads
  <1>10. \A d \in Fds \ {x.fd} : Threads(d)' = Threads(d)
    BY <1>1, <1>5, <1>6, CloseThreads
  <1> QED
    BY <1>2, <1>3, <1>4, <1>8, <1>9, <1>10, TypeParts DEF Threads

\* A thread that goes on in a command about a room.
LEMMA MoveType ==
    ASSUME TypeOK, NEW x, x \in midway, NEW p, p \in RoomPlaces,
           NEW r, r \in AnyRoom, Move(x, p, r)
    PROVE  /\ SessionTypes' /\ ThreadTypes' /\ MidwayTypes'
           /\ registered_users' = registered_users
  <1>1. /\ Arrive(midway \ {x}, p, x.fd, x.user, r)
        /\ UNCHANGED sessionVars /\ UNCHANGED threadVars /\ UNCHANGED races
        /\ UNCHANGED <<process, accepts>>
    BY DEF Move
  <1>2. SessionTypes' /\ registered_users' = registered_users
    BY <1>1, TypeParts, SessionTypesStable
  <1>3. p \in SessionPlaces \cup RoomPlaces /\ midway \ {x} \subseteq midway
    OBVIOUS
  <1>4. x.fd \in Fds /\ x.user \in registered_users \cup {Empty}
    BY MidwayFields
  <1>5. midway' \subseteq ThreadsMidway'
    BY <1>1, <1>2, <1>3, <1>4, TypeParts, ArriveType
  <1>6. ThreadTypes'
    BY <1>1, TypeParts DEF ThreadTypes, threadVars
  <1> QED
    BY <1>1, <1>2, <1>5, <1>6, TypeParts DEF MidwayTypes, races

LEMMA BecomeOwnerType ==
    ASSUME TypeOK, NEW x, x \in midway, BecomeOwner(x)
    PROVE  TypeOK'
  <1>1. /\ Move(x, "join", x.room)
        /\ chat_room_creators'
             = [chat_room_creators EXCEPT ![x.room] = client_usernames[x.fd]]
        /\ UNCHANGED <<client_chat_rooms, chat_rooms, in>>
    BY DEF BecomeOwner
  <1>2. x.fd \in Fds /\ x.room \in AnyRoom /\ "join" \in RoomPlaces
    BY MidwayFields DEF RoomPlaces
  <1>3. /\ SessionTypes' /\ ThreadTypes' /\ MidwayTypes'
        /\ registered_users' = registered_users
    BY <1>1, <1>2, MoveType
  <1>4. client_usernames[x.fd] \in registered_users \cup {Empty}
    BY <1>2, TypeParts DEF SessionTypes
  <1>5. RoomTypes'
    BY <1>1, <1>2, <1>3, <1>4, TypeParts DEF RoomTypes
  <1> QED
    BY <1>3, <1>5, TypeParts

LEMMA ExpelAllType ==
    ASSUME TypeOK, NEW x, x \in midway, ExpelAll(x)
    PROVE  TypeOK'
  <1>1. /\ Move(x, "erase", x.room)
        /\ client_chat_rooms' = [d \in Fds |->
             IF d \in Expelled(x.room) THEN NoRoom ELSE AfterLoop(logged_in_clients)[d]]
        /\ UNCHANGED <<chat_rooms, chat_room_creators, in>>
    BY DEF ExpelAll
  <1>2. x.room \in AnyRoom /\ "erase" \in RoomPlaces
    BY MidwayFields DEF RoomPlaces
  <1>3. /\ SessionTypes' /\ ThreadTypes' /\ MidwayTypes'
        /\ registered_users' = registered_users
    BY <1>1, <1>2, MoveType
  <1>4. client_chat_rooms' \in [Fds -> AnyRoom \cup {NoRoom}]
    BY <1>1, TypeParts, AfterLoopType
  <1>5. RoomTypes'
    BY <1>1, <1>3, <1>4, TypeParts DEF RoomTypes
  <1> QED
    BY <1>3, <1>5, TypeParts

LEMMA ReadRoomType ==
    ASSUME TypeOK, NEW x, x \in midway, ReadRoom(x)
    PROVE  TypeOK'
  <1> DEFINE r == IF client_chat_rooms[x.fd] = NoRoom THEN Lobby
                  ELSE client_chat_rooms[x.fd]
  <1>1. /\ Move(x, "chat", r)
        /\ client_chat_rooms' = [client_chat_rooms EXCEPT ![x.fd] = r]
        /\ UNCHANGED <<chat_rooms, chat_room_creators, in>>
    BY DEF ReadRoom
  <1>2. x.fd \in Fds /\ "chat" \in RoomPlaces
    BY MidwayFields DEF RoomPlaces
  <1>3. r \in AnyRoom
    BY <1>2, TypeParts DEF RoomTypes, AnyRoom
  <1> HIDE DEF r
  <1>4. /\ SessionTypes' /\ ThreadTypes' /\ MidwayTypes'
        /\ registered_users' = registered_users
    BY <1>1, <1>2, <1>3, MoveType
  <1>5. RoomTypes'
    BY <1>1, <1>3, <1>4, TypeParts DEF RoomTypes
  <1> QED
    BY <1>4, <1>5, TypeParts

LEMMA EnterChatRoomType ==
    ASSUME TypeOK, NEW x, x \in midway, EnterChatRoom(x)
    PROVE  TypeOK'
  <1>1. /\ Finish(x)
        /\ client_chat_rooms' = [AfterLoop(logged_in_clients \ {x.fd}) EXCEPT ![x.fd] = x.room]
        /\ chat_rooms' = chat_rooms \cup {x.room}
        /\ in' = TRUE
        /\ UNCHANGED sessionVars /\ UNCHANGED chat_room_creators
    BY DEF EnterChatRoom
  <1>2. SessionTypes' /\ registered_users' = registered_users
    BY <1>1, TypeParts, SessionTypesStable
  <1>3. ThreadTypes' /\ MidwayTypes'
    BY <1>1, <1>2, FinishType
  <1>4. AfterLoop(logged_in_clients \ {x.fd}) \in [Fds -> AnyRoom \cup {NoRoom}]
    BY TypeParts, AfterLoopType
  <1>5. x.fd \in Fds /\ x.room \in AnyRoom
    BY MidwayFields
  <1>6. RoomTypes'
    BY <1>1, <1>2, <1>4, <1>5, TypeParts DEF RoomTypes
  <1> QED
    BY <1>2, <1>3, <1>6, TypeParts

LEMMA EraseRoomType ==
    ASSUME TypeOK, NEW x, x \in midway, EraseRoom(x)
    PROVE  TypeOK'
  <1>1. /\ Finish(x)
        /\ chat_rooms' = chat_rooms \ {x.room}
        /\ chat_room_creators' = [chat_room_creators EXCEPT ![x.room] = Empty]
        /\ UNCHANGED sessionVars /\ UNCHANGED <<client_chat_rooms, in>>
    BY DEF EraseRoom, WithoutOwner
  <1>2. SessionTypes' /\ registered_users' = registered_users
    BY <1>1, TypeParts, SessionTypesStable
  <1>3. ThreadTypes' /\ MidwayTypes'
    BY <1>1, <1>2, FinishType
  <1>4. RoomTypes'
    BY <1>1, <1>2, TypeParts DEF RoomTypes
  <1> QED
    BY <1>2, <1>3, <1>4, TypeParts

\* The commands of a client that is in a room only move clients to rooms and
\* make rooms.
Chats(x) == \/ Pin(x) \/ ExitChatRoom(x) \/ ListRoomUsers(x) \/ Post(x) \/ ChatAnswer(x)

LEMMA ChatsParts ==
    ASSUME TypeOK, NEW x, x \in midway, Chats(x)
    PROVE  /\ Finish(x) /\ UNCHANGED sessionVars /\ UNCHANGED chat_room_creators
           /\ client_chat_rooms' \in [Fds -> AnyRoom \cup {NoRoom}]
           /\ chat_rooms \subseteq chat_rooms' /\ chat_rooms' \subseteq AnyRoom
           /\ in' \in BOOLEAN
  <1>1. Finish(x) /\ UNCHANGED sessionVars /\ UNCHANGED chat_room_creators
    BY DEF Chats, Pin, ExitChatRoom, ListRoomUsers, Post, ChatAnswer, Chat
  <1>2. RoomTypes /\ x.fd \in Fds /\ x.room \in AnyRoom
    BY TypeParts, MidwayFields
  <1>3. /\ AfterLoop(logged_in_clients \ {x.fd}) \in [Fds -> AnyRoom \cup {NoRoom}]
        /\ AfterLoop(logged_in_clients) \in [Fds -> AnyRoom \cup {NoRoom}]
    BY <1>2, AfterLoopType
  <1>4. client_chat_rooms' \in [Fds -> AnyRoom \cup {NoRoom}]
    BY <1>2, <1>3 DEF Chats, Pin, ExitChatRoom, ListRoomUsers, Post, ChatAnswer, RoomTypes
  <1>5. chat_rooms \subseteq chat_rooms' /\ chat_rooms' \subseteq AnyRoom
    BY <1>2 DEF Chats, Pin, ExitChatRoom, ListRoomUsers, Post, ChatAnswer, RoomTypes
  <1>6. in' \in BOOLEAN
    BY <1>2 DEF Chats, Pin, ExitChatRoom, ListRoomUsers, Post, ChatAnswer, RoomTypes
  <1> QED
    BY <1>1, <1>4, <1>5, <1>6

LEMMA ChatsType ==
    ASSUME TypeOK, NEW x, x \in midway, Chats(x)
    PROVE  TypeOK'
  <1>1. /\ Finish(x) /\ UNCHANGED sessionVars /\ UNCHANGED chat_room_creators
        /\ client_chat_rooms' \in [Fds -> AnyRoom \cup {NoRoom}]
        /\ chat_rooms' \subseteq AnyRoom
        /\ in' \in BOOLEAN
    BY ChatsParts
  <1>2. SessionTypes' /\ registered_users' = registered_users
    BY <1>1, TypeParts, SessionTypesStable
  <1>3. ThreadTypes' /\ MidwayTypes'
    BY <1>1, <1>2, FinishType
  <1>4. RoomTypes'
    BY <1>1, <1>2, TypeParts DEF RoomTypes
  <1> QED
    BY <1>2, <1>3, <1>4, TypeParts

-----------------------------------------------------------------------------
(* The steps of the server, and the types.                                 *)

\* A login under way is about a user.
LoginNamed == \A x \in midway : x.at = "login" => x.user # Empty

\* Steps that leave the tables of sessions to other threads; those at a place
\* of a session were there before.
Idle ==
    /\ UNCHANGED <<logged_in_clients, logged_in_usernames, client_usernames,
                   client_statuses, raced>>
    /\ \A y \in midway' : y.at \in SessionPlaces => y \in midway

\* A thread arrives at the place p of a session.
Begun(p, c, u) ==
    /\ UNCHANGED sessionVars
    /\ Arrive(midway, p, c, u, Lobby)
    /\ RecordRace(p, c, u)
    /\ IF p = "login" THEN c \notin logged_in_clients /\ u \in registered_users /\ NameFree(u)
       ELSE u = UserOf(c)
    /\ p \in {"logout", "online", "offline", "busy"} => c \in logged_in_clients

\* A thread ends the session that it has found.
Ended(x) ==
    /\ x.at \in SessionPlaces \ {"login"} /\ x.user # Empty
    /\ Ends(x.fd, x.user)
    /\ midway' = midway \ {x}
    /\ raced' = raced

BeginStep(c) ==
    \/ \E u \in Users : Login(c, u)
    \/ Logout(c) \/ Exit(c)
    \/ \E st \in {"online", "offline", "busy"} : SetStatus(c, st)
    \/ Cleanup(c)

\* The steps of Next by what they do to the threads.
LEMMA NextCases ==
    ASSUME [Next]_vars
    PROVE  \/ UNCHANGED vars
           \/ \E how \in {"aborted", "killed"} : Gone(how)
           \/ \E c \in Fds : \/ Accept(c) \/ Hangup(c) \/ HeldRecvFails(c) \/ RecvFails(c)
                             \/ FinalClose(c) \/ Answer(c)
           \/ \E c \in Fds, u \in Users : Register(c, u)
           \/ \E c \in Fds : BeginStep(c)
           \/ \E c \in Fds, r \in Rooms : EnterTests(c, r) \/ CloseChatRoom(c, r)
           \/ \E c \in Fds : Line(c)
           \/ \E x \in midway : \/ StartThread(x) \/ CleanedUp(x) \/ LoggedIn(x)
                                \/ LoggedOut(x) \/ Exited(x) \/ StatusSet(x)
           \/ \E x \in midway : \/ BecomeOwner(x) \/ EnterChatRoom(x) \/ ExpelAll(x)
                                \/ EraseRoom(x) \/ ReadRoom(x) \/ Chats(x)
  <1>1. CASE UNCHANGED vars
    BY <1>1
  <1>2. CASE \E c \in Fds : Accept(c) \/ Hangup(c) \/ HeldRecvFails(c) \/ BrokenPipe(c)
    <2>1. \A c \in Fds : BrokenPipe(c) => Gone("killed")
      BY DEF BrokenPipe
    <2> QED
      BY <1>2, <2>1
  <1>3. CASE ThreadStep
    <2>1. CASE \E c \in Fds : RecvFails(c) \/ Cleanup(c) \/ FinalClose(c)
      BY <2>1 DEF BeginStep
    <2>2. CASE \E x \in midway : FinishUserCommand(x)
      BY <2>2 DEF FinishUserCommand
    <2>3. CASE \E x \in midway : FinishRoomCommand(x)
      <3>1. \A x \in midway : PinNothing(x) => Gone("aborted")
        BY DEF PinNothing
      <3> QED
        BY <2>3, <3>1 DEF FinishRoomCommand, Chats
    <2> QED
      BY <1>3, <2>1, <2>2, <2>3 DEF ThreadStep
  <1>4. CASE UserCommand
    BY <1>4 DEF UserCommand, BeginStep
  <1>5. CASE RoomCommand
    BY <1>5 DEF RoomCommand
  <1>6. CASE Waiting
    BY <1>6 DEF Waiting
  <1> QED
    BY <1>1, <1>2, <1>3, <1>4, <1>5, <1>6 DEF Next

\* The tests of a command about the session of c.
LEMMA BeginStepBegun ==
    ASSUME SessionTypes, NEW c, c \in Fds, BeginStep(c)
    PROVE  \E p \in SessionPlaces, u \in registered_users \cup {Empty} :
              Begun(p, c, u) /\ (BeginSession(p, c, u) \/ Cleanup(c))
  <1>1. UserOf(c) \in registered_users \cup {Empty}
    BY UserOfType
  <1>2. ASSUME NEW u, u \in Users, Login(c, u)
        PROVE  Begun("login", c, u) /\ BeginSession("login", c, u) /\ u \in registered_users
    BY <1>2 DEF Login, BeginSession, Begin, Begun, KnownUser
  <1>3. CASE Logout(c)
    <2>1. Begun("logout", c, UserOf(c)) /\ BeginSession("logout", c, UserOf(c))
      BY <1>3 DEF Logout, BeginSession, Begin, Begun
    <2> QED
      BY <1>1, <2>1 DEF SessionPlaces
  <1>4. CASE Exit(c)
    <2>1. Begun("exit", c, UserOf(c)) /\ BeginSession("exit", c, UserOf(c))
      BY <1>4 DEF Exit, BeginSession, Begin, Begun
    <2> QED
      BY <1>1, <2>1 DEF SessionPlaces
  <1>5. ASSUME NEW st, st \in {"online", "offline", "busy"}, SetStatus(c, st)
        PROVE  Begun(st, c, UserOf(c)) /\ BeginSession(st, c, UserOf(c))
    BY <1>5 DEF SetStatus, BeginSession, Begin, Begun
  <1>6. CASE Cleanup(c)
    <2>1. Begun("cleanup", c, UserOf(c))
      BY <1>6 DEF Cleanup, Begun
    <2> QED
      BY <1>1, <1>6, <2>1 DEF SessionPlaces
  <1>7. "login" \in SessionPlaces /\ {"online", "offline", "busy"} \subseteq SessionPlaces
    BY DEF SessionPlaces
  <1>8. CASE \E u \in Users : Login(c, u)
    BY <1>2, <1>7, <1>8
  <1>9. CASE \E st \in {"online", "offline", "busy"} : SetStatus(c, st)
    BY <1>1, <1>5, <1>7, <1>9
  <1> QED
    BY <1>3, <1>4, <1>6, <1>8, <1>9 DEF BeginStep

LEMMA TypeStep == TypeOK /\ LoginNamed /\ [Next]_vars => TypeOK'
  <1> SUFFICES ASSUME TypeOK, LoginNamed, [Next]_vars PROVE TypeOK'
    OBVIOUS
  <1>1. CASE UNCHANGED vars
    BY <1>1 DEF TypeOK, vars, sessionVars, roomVars, threadVars, races
  <1>2. CASE \E how \in {"aborted", "killed"} : Gone(how)
    BY <1>2, GoneType
  <1>3. CASE \E c \in Fds : \/ Accept(c) \/ Hangup(c) \/ HeldRecvFails(c) \/ RecvFails(c)
                             \/ FinalClose(c) \/ Answer(c)
    BY <1>3, AcceptType, HangupType, RecvFailsType, FinalCloseType, AnswerType
  <1>4. CASE \E c \in Fds, u \in Users : Register(c, u)
    BY <1>4, RegisterType
  <1>5. CASE \E c \in Fds : BeginStep(c)
    <2>1. PICK c \in Fds : BeginStep(c)
      BY <1>5
    <2>2. PICK p \in SessionPlaces, u \in registered_users \cup {Empty} :
              BeginSession(p, c, u) \/ Cleanup(c)
      BY <2>1, TypeParts, BeginStepBegun
    <2> QED
      BY <2>2, BeginSessionType, CleanupType
  <1>6. CASE \E c \in Fds, r \in Rooms : EnterTests(c, r) \/ CloseChatRoom(c, r)
    BY <1>6, EnterTestsType, CloseChatRoomType
  <1>7. CASE \E c \in Fds : Line(c)
    BY <1>7, LineType
  <1>8. CASE \E x \in midway : \/ StartThread(x) \/ CleanedUp(x) \/ LoggedIn(x)
                               \/ LoggedOut(x) \/ Exited(x) \/ StatusSet(x)
    <2>1. PICK x \in midway : \/ StartThread(x) \/ CleanedUp(x) \/ LoggedIn(x)
                              \/ LoggedOut(x) \/ Exited(x) \/ StatusSet(x)
      BY <1>8
    <2>2. CASE LoggedIn(x)
      <3>1. x.user # Empty
        BY <2>2 DEF LoggedIn, LoginNamed
      <3> QED
        BY <2>2, <3>1, LoggedInType
    <2>3. CASE CleanedUp(x)
      BY <2>3, CleanedUpType
    <2>4. CASE Exited(x)
      BY <2>4, ExitedType
    <2> QED
      BY <2>1, <2>2, <2>3, <2>4, StartThreadType, LoggedOutType, StatusSetType
  <1>9. CASE \E x \in midway : \/ BecomeOwner(x) \/ EnterChatRoom(x) \/ ExpelAll(x)
                               \/ EraseRoom(x) \/ ReadRoom(x) \/ Chats(x)
    BY <1>9, BecomeOwnerType, EnterChatRoomType, ExpelAllType, EraseRoomType, ReadRoomType,
       ChatsType
  <1> QED
    BY <1>1, <1>2, <1>3, <1>4, <1>5, <1>6, <1>7, <1>8, <1>9, NextCases

-----------------------------------------------------------------------------
(* Sessions.                                                               *)

AtSession == {x \in midway : x.at \in SessionPlaces}

\* A descriptor is logged in exactly if it has a name.
Clients == \A c \in Fds : c \in logged_in_clients <=> client_usernames[c] # Empty

\* Two threads that are at work on one descriptor, or in a login of one name,
\* have been seen to overlap.
Apart ==
    \A x, y \in AtSession : x # y =>
        /\ x.fd = y.fd => x.user \in raced /\ y.user \in raced
        /\ x.at = "login" /\ y.at = "login" /\ x.user = y.user => x.user \in raced

\* What a thread found is still so, unless it has overlapped with another:
\* nobody is logged in on its descriptor nor under its name, ...
Logins ==
    \A x \in AtSession : x.at = "login" =>
        /\ x.user # Empty
        /\ client_usernames[x.fd] \in raced \cup {Empty}
        /\ x.user \notin raced => x.user \notin logged_in_usernames

\* ... or the session it found is still there.
Others ==
    \A x \in AtSession : x.at # "login" =>
        /\ client_usernames[x.fd] \in raced \cup {Empty, x.user}
        /\ x.user \notin raced \cup {Empty} => client_usernames[x.fd] = x.user
        /\ x.at \in {"logout", "online", "offline", "busy"} => x.user # Empty

\* A name of a session is in use, and of one session only.
SessionsSound ==
    \A u \in Users \ raced : \A c \in Fds : client_usernames[c] = u =>
        /\ u \in logged_in_usernames
        /\ \A d \in Fds : client_usernames[d] = u => c = d

\* A name whose characters are inside its string is free after its session,
\* and is shown as logged in only during it.
NamesFreed ==
    \A u \in Users \ (LongNames \cup raced) :
        /\ u \in logged_in_usernames => \E c \in Fds : client_usernames[c] = u
        /\ client_statuses[u] \in {"online", "busy"} => u \in logged_in_usernames

SessionInv ==
    /\ Clients /\ Apart /\ Logins /\ Others
    /\ SessionsSound /\ NamesFreed

\* The steps of Next by what they do to the tables of sessions.
LEMMA ArriveIdle ==
    ASSUME NEW S, S \subseteq midway, NEW p, p \notin SessionPlaces, NEW c, NEW u, NEW r,
           Arrive(S, p, c, u, r), UNCHANGED sessionVars, raced' = raced
    PROVE  Idle
  <1>1. PICK y : midway' = S \cup {y} /\ y.at = p
    BY ArriveNew
  <1> QED
    BY <1>1 DEF Idle, sessionVars

LEMMA SessionCases ==
    ASSUME TypeOK, Others, [Next]_vars
    PROVE  \/ Idle
           \/ \E how \in {"aborted", "killed"} : Gone(how)
           \/ \E c \in Fds, p \in SessionPlaces, u \in registered_users \cup {Empty} :
                 Begun(p, c, u)
           \/ \E x \in midway : LoggedIn(x) \/ Ended(x) \/ StatusSet(x)
  <1>1. CASE UNCHANGED vars
    BY <1>1 DEF vars, sessionVars, races, Idle
  <1>2. CASE \E how \in {"aborted", "killed"} : Gone(how)
    BY <1>2
  <1>3. CASE \E c \in Fds : \/ Accept(c) \/ Hangup(c) \/ HeldRecvFails(c) \/ RecvFails(c)
                             \/ FinalClose(c) \/ Answer(c)
    <2>1. PICK c \in Fds : \/ Accept(c) \/ Hangup(c) \/ HeldRecvFails(c) \/ RecvFails(c)
                           \/ FinalClose(c) \/ Answer(c)
      BY <1>3
    <2>2. CASE Accept(c)
      <3>1. Arrive(midway, "start", c, Empty, Lobby) /\ UNCHANGED sessionVars /\ raced' = raced
        BY <2>2 DEF Accept, races
      <3> QED
        BY <3>1, ArriveIdle DEF SessionPlaces
    <2>3. CASE \/ Hangup(c) \/ HeldRecvFails(c) \/ RecvFails(c) \/ FinalClose(c) \/ Answer(c)
      <3>1. UNCHANGED sessionVars /\ midway' = midway /\ UNCHANGED races
        BY <2>3 DEF Hangup, HeldRecvFails, RecvFails, FinalClose, Answer, Command
      <3> QED
        BY <3>1 DEF Idle, sessionVars, races
    <2> QED
      BY <2>1, <2>2, <2>3
  <1>4. CASE \E c \in Fds, u \in Users : Register(c, u)
    BY <1>4 DEF Register, Command, Idle, races
  <1>5. CASE \E c \in Fds : BeginStep(c)
    BY <1>5, TypeParts, BeginStepBegun
  <1>6. CASE \E c \in Fds, r \in Rooms : EnterTests(c, r) \/ CloseChatRoom(c, r)
    <2>1. PICK c \in Fds, r \in Rooms : EnterTests(c, r) \/ CloseChatRoom(c, r)
      BY <1>6
    <2>2. PICK p \in {"own", "join", "expel"} :
              \E u : Arrive(midway, p, c, u, r) /\ UNCHANGED sessionVars /\ raced' = raced
      BY <2>1 DEF EnterTests, CloseChatRoom, Begin, RecordDispute
    <2> QED
      BY <2>2, ArriveIdle DEF SessionPlaces
  <1>7. CASE \E c \in Fds : Line(c)
    <2>1. PICK c \in Fds : Line(c)
      BY <1>7
    <2>2. Arrive(midway, "line", c, Empty, Lobby) /\ UNCHANGED sessionVars /\ raced' = raced
      BY <2>1 DEF Line, Begin, races
    <2> QED
      BY <2>2, ArriveIdle DEF SessionPlaces
  <1>8. CASE \E x \in midway : \/ StartThread(x) \/ CleanedUp(x) \/ LoggedIn(x)
                               \/ LoggedOut(x) \/ Exited(x) \/ StatusSet(x)
    <2>1. PICK x \in midway : \/ StartThread(x) \/ CleanedUp(x) \/ LoggedIn(x)
                              \/ LoggedOut(x) \/ Exited(x) \/ StatusSet(x)
      BY <1>8
    <2>2. CASE StartThread(x)
      BY <2>2 DEF StartThread, Finish, Idle, sessionVars, races
    <2>3. CASE CleanedUp(x)
      <3>1. x.at = "cleanup" /\ midway' = midway \ {x} /\ raced' = raced
        BY <2>3 DEF CleanedUp, races
      <3>2. CASE x.user = Empty
        BY <2>3, <3>1, <3>2 DEF CleanedUp, Idle, sessionVars
      <3>3. CASE x.user # Empty
        <4>1. Ends(x.fd, x.user)
          BY <2>3, <3>3, EndSessionEnds DEF CleanedUp
        <4> QED
          BY <3>1, <3>3, <4>1 DEF Ended, SessionPlaces
      <3> QED
        BY <3>2, <3>3
    <2>4. CASE LoggedOut(x)
      <3>1. Ends(x.fd, x.user)
        BY <2>4, EndSessionEnds DEF LoggedOut
      <3>2. x.at = "logout" /\ midway' = midway \ {x} /\ raced' = raced
        BY <2>4 DEF LoggedOut, Finish, races
      <3>3. x.user # Empty
        BY <3>2 DEF Others, AtSession, SessionPlaces
      <3> QED
        BY <3>1, <3>2, <3>3 DEF Ended, SessionPlaces
    <2>5. CASE Exited(x)
      <3>1. x.at = "exit" /\ midway' = midway \ {x} /\ raced' = raced
        BY <2>5 DEF Exited, races
      <3>2. CASE x.user = Empty
        BY <2>5, <3>1, <3>2 DEF Exited, Idle
      <3>3. CASE x.user # Empty
        <4>1. Ends(x.fd, x.user)
          BY <2>5, <3>3, ExitedEnds
        <4> QED
          BY <3>1, <3>3, <4>1 DEF Ended, SessionPlaces
      <3> QED
        BY <3>2, <3>3
    <2> QED
      BY <2>1, <2>2, <2>3, <2>4, <2>5
  <1>9. CASE \E x \in midway : \/ BecomeOwner(x) \/ EnterChatRoom(x) \/ ExpelAll(x)
                               \/ EraseRoom(x) \/ ReadRoom(x) \/ Chats(x)
    <2>1. PICK x \in midway : \/ BecomeOwner(x) \/ EnterChatRoom(x) \/ ExpelAll(x)
                              \/ EraseRoom(x) \/ ReadRoom(x) \/ Chats(x)
      BY <1>9
    <2>2. CASE BecomeOwner(x) \/ ExpelAll(x) \/ ReadRoom(x)
      <3>1. PICK p \in {"join", "erase", "chat"} : \E r : Move(x, p, r)
        BY <2>2 DEF BecomeOwner, ExpelAll, ReadRoom
      <3>2. PICK r : Move(x, p, r)
        BY <3>1
      <3>3. /\ Arrive(midway \ {x}, p, x.fd, x.user, r)
            /\ UNCHANGED sessionVars /\ raced' = raced
        BY <3>2 DEF Move, races
      <3> QED
        BY <3>3, ArriveIdle DEF SessionPlaces
    <2>3. CASE EnterChatRoom(x) \/ EraseRoom(x) \/ Chats(x)
      <3>1. Finish(x) /\ UNCHANGED sessionVars
        BY <2>3, ChatsParts DEF EnterChatRoom, EraseRoom
      <3> QED
        BY <3>1 DEF Finish, Idle, sessionVars, races
    <2> QED
      BY <2>1, <2>2, <2>3
  <1> QED
    BY <1>1, <1>2, <1>3, <1>4, <1>5, <1>6, <1>7, <1>8, <1>9, NextCases

LEMMA SessionInvIdle == SessionInv /\ Idle => SessionInv'
  <1> SUFFICES ASSUME SessionInv, Idle PROVE SessionInv'
    OBVIOUS
  <1>1. AtSession' \subseteq AtSession
    BY DEF Idle, AtSession
  <1>2. /\ UNCHANGED <<logged_in_clients, logged_in_usernames, client_usernames>>
        /\ UNCHANGED <<client_statuses, raced>>
    BY DEF Idle
  <1>3. Clients' /\ Apart'
    BY <1>1, <1>2 DEF SessionInv, Clients, Apart
  <1>4. Logins' /\ Others'
    BY <1>1, <1>2 DEF SessionInv, Logins, Others
  <1>5. SessionsSound' /\ NamesFreed'
    BY <1>2 DEF SessionInv, SessionsSound, NamesFreed
  <1> QED
    BY <1>3, <1>4, <1>5 DEF SessionInv

LEMMA SessionInvGone ==
    ASSUME NEW how, Gone(how)
    PROVE  SessionInv'
  <1>1. /\ midway' = {} /\ logged_in_clients' = {} /\ logged_in_usernames' = {}
        /\ client_usernames' = [c \in Fds |-> Empty]
        /\ client_statuses' = [u \in Users |-> Empty]
    BY DEF Gone
  <1>2. AtSession' = {}
    BY <1>1 DEF AtSession
  <1>3. Clients' /\ Apart' /\ Logins' /\ Others'
    BY <1>1, <1>2 DEF Clients, Apart, Logins, Others
  <1>4. Empty \notin Users /\ Empty \notin {"online", "busy"}
    BY UsersAssumption DEF Empty
  <1>5. SessionsSound' /\ NamesFreed'
    BY <1>1, <1>4 DEF SessionsSound, NamesFreed
  <1> QED
    BY <1>3, <1>5 DEF SessionInv

\* A thread that begins finds what the tables say, and whoever it overlaps
\* with is recorded.
LEMMA SessionInvBegun ==
    ASSUME TypeOK, SessionInv, NEW c, c \in Fds, NEW p, p \in SessionPlaces,
           NEW u, u \in registered_users \cup {Empty}, Begun(p, c, u)
    PROVE  SessionInv'
  <1>1. /\ UNCHANGED sessionVars /\ RecordRace(p, c, u)
        /\ Arrive(midway, p, c, u, Lobby)
    BY DEF Begun
  <1>2. PICK y : midway' = midway \cup {y} /\ y.at = p /\ y.fd = c /\ y.user = u
    BY <1>1, ArriveNew
  <1>3. AtSession' = AtSession \cup {y}
    BY <1>2 DEF AtSession
  <1>4. /\ raced \subseteq raced'
        /\ Rivals(p, c, u) # {} => u \in raced' /\ \A x \in Rivals(p, c, u) : x.user \in raced'
    BY <1>1 DEF RecordRace
  <1>5. \A x \in AtSession : x.fd = c => x.user \in raced' /\ u \in raced'
    BY <1>4 DEF Rivals, AtSession
  <1>6. \A x \in AtSession : x.at = "login" /\ p = "login" /\ x.user = u => u \in raced'
    BY <1>4 DEF Rivals, AtSession
  <1>7. Clients'
    BY <1>1 DEF SessionInv, Clients, sessionVars
  <1>8. Apart'
    <2>1. \A x, z \in AtSession : x # z =>
            /\ x.fd = z.fd => x.user \in raced' /\ z.user \in raced'
            /\ x.at = "login" /\ z.at = "login" /\ x.user = z.user => x.user \in raced'
      BY <1>4 DEF SessionInv, Apart
    <2> QED
      BY <1>2, <1>3, <1>5, <1>6, <2>1 DEF Apart
  <1>9. client_usernames[c] = UserOf(c)
    BY DEF SessionInv, Clients, UserOf
  <1>10. p = "login" => u # Empty /\ client_usernames[c] = Empty /\ u \notin logged_in_usernames
    <2>1. p = "login" => c \notin logged_in_clients /\ u \in registered_users /\ NameFree(u)
      BY DEF Begun
    <2>2. Empty \notin registered_users
      BY UsersAssumption DEF TypeOK
    <2> QED
      BY <1>9, <2>1, <2>2 DEF UserOf, NameFree
  <1>11. p # "login" => u = client_usernames[c]
    BY <1>9 DEF Begun
  <1>12. p \in {"logout", "online", "offline", "busy"} => u # Empty
    <2>1. p \in {"logout", "online", "offline", "busy"} => c \in logged_in_clients /\ p # "login"
      BY DEF Begun
    <2> QED
      BY <1>11, <2>1 DEF SessionInv, Clients
  <1>13. client_usernames' = client_usernames /\ logged_in_usernames' = logged_in_usernames
    BY <1>1 DEF sessionVars
  <1>14. Logins'
    <2>1. \A x \in AtSession : x.at = "login" =>
            /\ x.user # Empty
            /\ client_usernames[x.fd] \in raced' \cup {Empty}
            /\ x.user \notin raced' => x.user \notin logged_in_usernames
      BY <1>4 DEF SessionInv, Logins
    <2> QED
      BY <1>2, <1>3, <1>10, <1>13, <2>1 DEF Logins
  <1>15. Others'
    <2>1. \A x \in AtSession : x.at # "login" =>
            /\ client_usernames[x.fd] \in raced' \cup {Empty, x.user}
            /\ x.user \notin raced' \cup {Empty} => client_usernames[x.fd] = x.user
            /\ x.at \in {"logout", "online", "offline", "busy"} => x.user # Empty
      BY <1>4 DEF SessionInv, Others
    <2> QED
      BY <1>2, <1>3, <1>11, <1>12, <1>13, <2>1 DEF Others
  <1>16. SessionsSound' /\ NamesFreed'
    BY <1>1, <1>4 DEF SessionInv, SessionsSound, NamesFreed, sessionVars
  <1> QED
    BY <1>7, <1>8, <1>14, <1>15, <1>16 DEF SessionInv

LEMMA SessionInvStatusSet ==
    ASSUME TypeOK, SessionInv, NEW x, x \in midway, StatusSet(x)
    PROVE  SessionInv'
  <1>1. /\ UNCHANGED <<logged_in_clients, logged_in_usernames, client_usernames>>
        /\ raced' = raced /\ midway' \subseteq midway
        /\ x.at \in {"online", "offline", "busy"}
        /\ client_statuses' = WithStatus(x.user, x.at)
    BY DEF StatusSet, Finish, races
  <1>2. AtSession' \subseteq AtSession
    BY <1>1 DEF AtSession
  <1>3. Clients' /\ Apart' /\ SessionsSound'
    BY <1>1, <1>2 DEF SessionInv, Clients, Apart, SessionsSound
  <1>4. Logins' /\ Others'
    BY <1>1, <1>2 DEF SessionInv, Logins, Others
  <1>5. ASSUME NEW v, v \in Users \ (LongNames \cup raced),
               client_statuses'[v] \in {"online", "busy"}
        PROVE  v \in logged_in_usernames
    <2>1. CASE v = x.user
      <3>1. x \in AtSession /\ x.at # "login" /\ x.user \notin raced \cup {Empty}
        BY <1>1, <1>5, <2>1, UsersAssumption DEF AtSession, SessionPlaces
      <3>2. client_usernames[x.fd] = x.user /\ x.fd \in Fds
        BY <3>1, MidwayFields DEF SessionInv, Others
      <3> QED
        BY <1>5, <2>1, <3>2 DEF SessionInv, SessionsSound
    <2>2. CASE v # x.user
      <3>1. client_statuses'[v] = client_statuses[v]
        BY <1>1, <2>2 DEF WithStatus, TypeOK
      <3> QED
        BY <1>5, <3>1 DEF SessionInv, NamesFreed
    <2> QED
      BY <2>1, <2>2
  <1>6. NamesFreed'
    BY <1>1, <1>5 DEF SessionInv, NamesFreed
  <1> QED
    BY <1>3, <1>4, <1>6 DEF SessionInv

\* The writes of a login.
LEMMA SessionInvLoggedIn ==
    ASSUME TypeOK, SessionInv, NEW x, x \in midway, LoggedIn(x)
    PROVE  SessionInv'
  <1>1. /\ x.at = "login" /\ raced' = raced /\ midway' = midway \ {x}
        /\ logged_in_clients' = logged_in_clients \cup {x.fd}
        /\ client_usernames' = [client_usernames EXCEPT ![x.fd] = x.user]
        /\ client_statuses' = WithStatus(x.user, "online")
        /\ logged_in_usernames' = logged_in_usernames \cup {x.user}
    BY DEF LoggedIn, Finish, races
  <1>2. AtSession' = AtSession \ {x} /\ x \in AtSession
    BY <1>1 DEF AtSession, SessionPlaces
  <1>3. x.fd \in Fds /\ x.user # Empty
    BY <1>1, <1>2, MidwayFields DEF SessionInv, Logins
  <1>4. \A d \in Fds : client_usernames'[d]
                         = IF d = x.fd THEN x.user ELSE client_usernames[d]
    BY <1>1, <1>3 DEF TypeOK
  <1>5. client_usernames[x.fd] \in raced \cup {Empty}
        /\ (x.user \notin raced => x.user \notin logged_in_usernames)
    BY <1>1, <1>2 DEF SessionInv, Logins
  <1>6. \A y \in AtSession' : /\ y \in AtSession /\ y.fd \in Fds
                              /\ y.fd = x.fd => x.user \in raced /\ y.user \in raced
                              /\ y.at = "login" /\ y.user = x.user => y.user \in raced
    <2>1. \A y \in AtSession : y.fd \in Fds
      BY MidwayFields DEF AtSession
    <2> QED
      BY <1>1, <1>2, <2>1 DEF SessionInv, Apart
  <1>7. Clients'
    BY <1>1, <1>3, <1>4 DEF SessionInv, Clients
  <1>8. Apart'
    BY <1>1, <1>6 DEF SessionInv, Apart
  <1>9. Logins'
    <2>1. ASSUME NEW y, y \in AtSession', y.at = "login"
          PROVE  /\ y.user # Empty
                 /\ client_usernames'[y.fd] \in raced \cup {Empty}
                 /\ y.user \notin raced => y.user \notin logged_in_usernames'
      <3>1. y \in AtSession /\ y.fd \in Fds
        BY <1>6, <2>1
      <3>2. y.user # Empty /\ (y.user \notin raced => y.user \notin logged_in_usernames)
        BY <2>1, <3>1 DEF SessionInv, Logins
      <3>3. client_usernames[y.fd] \in raced \cup {Empty}
        BY <2>1, <3>1 DEF SessionInv, Logins
      <3>4. client_usernames'[y.fd] \in raced \cup {Empty}
        BY <1>4, <1>6, <2>1, <3>1, <3>3
      <3> QED
        BY <1>1, <1>6, <2>1, <3>2, <3>4
    <2> QED
      BY <1>1, <2>1 DEF Logins
  <1>10. Others'
    <2>1. ASSUME NEW y, y \in AtSession', y.at # "login"
          PROVE  /\ client_usernames'[y.fd] \in raced \cup {Empty, y.user}
                 /\ y.user \notin raced \cup {Empty} => client_usernames'[y.fd] = y.user
                 /\ y.at \in {"logout", "online", "offline", "busy"} => y.user # Empty
      <3>1. y \in AtSession /\ y.fd \in Fds
        BY <1>6, <2>1
      <3>2. /\ client_usernames[y.fd] \in raced \cup {Empty, y.user}
            /\ y.user \notin raced \cup {Empty} => client_usernames[y.fd] = y.user
            /\ y.at \in {"logout", "online", "offline", "busy"} => y.user # Empty
        BY <2>1, <3>1 DEF SessionInv, Others
      <3> QED
        BY <1>4, <1>6, <2>1, <3>1, <3>2
    <2> QED
      BY <1>1, <2>1 DEF Others
  <1>11. SessionsSound'
    <2>1. ASSUME NEW u, u \in Users \ raced, NEW c, c \in Fds, client_usernames'[c] = u,
                 NEW d, d \in Fds, client_usernames'[d] = u
          PROVE  u \in logged_in_usernames' /\ c = d
      <3>1. \A e \in Fds : client_usernames[e] = u => u \in logged_in_usernames
        BY <2>1 DEF SessionInv, SessionsSound
      <3>2. CASE u = x.user
        BY <1>1, <1>4, <1>5, <2>1, <3>1, <3>2
      <3>3. CASE u # x.user
        <4>1. client_usernames[c] = u /\ client_usernames[d] = u
          BY <1>4, <2>1, <3>3
        <4> QED
          BY <1>1, <2>1, <4>1 DEF SessionInv, SessionsSound
      <3> QED
        BY <3>2, <3>3
    <2> QED
      BY <1>1, <2>1 DEF SessionsSound
  <1>12. NamesFreed'
    <2>1. ASSUME NEW u, u \in Users \ (LongNames \cup raced)
          PROVE  /\ u \in logged_in_usernames' => \E c \in Fds : client_usernames'[c] = u
                 /\ client_statuses'[u] \in {"online", "busy"} => u \in logged_in_usernames'
      <3>1. CASE u = x.user
        BY <1>1, <1>3, <1>4, <3>1
      <3>2. CASE u # x.user
        <4>1. u \in logged_in_usernames' <=> u \in logged_in_usernames
          BY <1>1, <3>2
        <4>2. client_statuses'[u] = client_statuses[u]
          BY <1>1, <2>1, <3>2 DEF WithStatus, TypeOK
        <4>3. ASSUME NEW c, c \in Fds, client_usernames[c] = u
              PROVE  client_usernames'[c] = u
          <5>1. u \notin raced \cup {Empty}
            BY <2>1, UsersAssumption
          <5>2. c # x.fd
            BY <1>5, <4>3, <5>1
          <5> QED
            BY <1>4, <4>3, <5>2
        <4> QED
          BY <2>1, <4>1, <4>2, <4>3 DEF SessionInv, NamesFreed
      <3> QED
        BY <3>1, <3>2
    <2> QED
      BY <1>1, <2>1 DEF NamesFreed
  <1> QED
    BY <1>7, <1>8, <1>9, <1>10, <1>11, <1>12 DEF SessionInv

\* The end of a session.
LEMMA SessionInvEnded ==
    ASSUME TypeOK, SessionInv, NEW x, x \in midway, Ended(x)
    PROVE  SessionInv'
  <1>1. /\ x.at \in SessionPlaces /\ x.at # "login" /\ x.user # Empty
        /\ raced' = raced /\ midway' = midway \ {x}
    BY DEF Ended
  <1>2. /\ logged_in_clients' = logged_in_clients \ {x.fd}
        /\ client_usernames' = [client_usernames EXCEPT ![x.fd] = Empty]
    BY DEF Ended, Ends
  <1>3. PICK n \in Dangling(x.user) : logged_in_usernames' = logged_in_usernames \ {n}
    BY DEF Ended, Ends
  <1>4. PICK m \in Dangling(x.user) : client_statuses' = WithStatus(m, "offline")
    BY DEF Ended, Ends
  <1>5. AtSession' = AtSession \ {x} /\ x \in AtSession
    BY <1>1 DEF AtSession
  <1>6. x.fd \in Fds
    BY MidwayFields
  <1>7. \A d \in Fds : client_usernames'[d] = IF d = x.fd THEN Empty ELSE client_usernames[d]
    BY <1>2, <1>6 DEF TypeOK
  <1>8. /\ client_usernames[x.fd] \in raced \cup {Empty, x.user}
        /\ x.user \notin raced => client_usernames[x.fd] = x.user
    BY <1>1, <1>5 DEF SessionInv, Others
  <1>9. \A y \in AtSession' : /\ y \in AtSession /\ y.fd \in Fds
                              /\ y.fd = x.fd => y.user \in raced
    <2>1. \A y \in AtSession : y.fd \in Fds
      BY MidwayFields DEF AtSession
    <2> QED
      BY <1>5, <2>1 DEF SessionInv, Apart
  <1>10. Clients'
    BY <1>2, <1>7 DEF SessionInv, Clients
  <1>11. Apart'
    BY <1>1, <1>9 DEF SessionInv, Apart
  <1>12. Logins'
    <2>1. ASSUME NEW y, y \in AtSession', y.at = "login"
          PROVE  /\ y.user # Empty
                 /\ client_usernames'[y.fd] \in raced \cup {Empty}
                 /\ y.user \notin raced => y.user \notin logged_in_usernames'
      <3>1. y \in AtSession /\ y.fd \in Fds
        BY <1>9, <2>1
      <3>2. y.user # Empty /\ (y.user \notin raced => y.user \notin logged_in_usernames)
        BY <2>1, <3>1 DEF SessionInv, Logins
      <3>3. client_usernames[y.fd] \in raced \cup {Empty}
        BY <2>1, <3>1 DEF SessionInv, Logins
      <3> QED
        BY <1>3, <1>7, <3>1, <3>2, <3>3
    <2> QED
      BY <1>1, <2>1 DEF Logins
  <1>13. Others'
    <2>1. ASSUME NEW y, y \in AtSession', y.at # "login"
          PROVE  /\ client_usernames'[y.fd] \in raced \cup {Empty, y.user}
                 /\ y.user \notin raced \cup {Empty} => client_usernames'[y.fd] = y.user
                 /\ y.at \in {"logout", "online", "offline", "busy"} => y.user # Empty
      <3>1. y \in AtSession /\ y.fd \in Fds
        BY <1>9, <2>1
      <3>2. /\ client_usernames[y.fd] \in raced \cup {Empty, y.user}
            /\ y.user \notin raced \cup {Empty} => client_usernames[y.fd] = y.user
            /\ y.at \in {"logout", "online", "offline", "busy"} => y.user # Empty
        BY <2>1, <3>1 DEF SessionInv, Others
      <3> QED
        BY <1>7, <1>9, <2>1, <3>1, <3>2
    <2> QED
      BY <1>1, <2>1 DEF Others
  <1>14. \A v \in Users : v # x.user => n # v /\ m # v
    BY <1>3, <1>4, UsersAssumption DEF Dangling
  <1>15. SessionsSound'
    <2>1. ASSUME NEW u, u \in Users \ raced, NEW c, c \in Fds, client_usernames'[c] = u
          PROVE  /\ u \in logged_in_usernames'
                 /\ \A d \in Fds : client_usernames'[d] = u => c = d
      <3>1. u # Empty
        BY <2>1, UsersAssumption
      <3>2. c # x.fd /\ client_usernames[c] = u
        BY <1>7, <2>1, <3>1
      <3>3. u \in logged_in_usernames /\ \A d \in Fds : client_usernames[d] = u => c = d
        BY <2>1, <3>2 DEF SessionInv, SessionsSound
      <3>4. u # x.user
        BY <1>6, <1>8, <2>1, <3>2, <3>3
      <3>5. u \in logged_in_usernames'
        BY <1>3, <1>14, <2>1, <3>3, <3>4
      <3> QED
        BY <1>7, <3>1, <3>3, <3>5
    <2> QED
      BY <1>1, <2>1 DEF SessionsSound
  <1>16. NamesFreed'
    <2>1. ASSUME NEW u, u \in Users \ (LongNames \cup raced)
          PROVE  /\ u \in logged_in_usernames' => \E c \in Fds : client_usernames'[c] = u
                 /\ client_statuses'[u] \in {"online", "busy"} => u \in logged_in_usernames'
      <3>1. CASE u = x.user
        <4>1. n = u /\ m = u
          BY <1>3, <1>4, <2>1, <3>1 DEF Dangling
        <4>2. u \notin logged_in_usernames'
          BY <1>3, <4>1
        <4>3. client_statuses'[u] = "offline"
          BY <1>1, <1>4, <2>1, <3>1, <4>1 DEF WithStatus, TypeOK
        <4> QED
          BY <4>2, <4>3
      <3>2. CASE u # x.user
        <4>1. u \in logged_in_usernames' <=> u \in logged_in_usernames
          BY <1>3, <1>14, <2>1, <3>2
        <4>2. client_statuses'[u] = client_statuses[u]
          BY <1>4, <1>14, <2>1, <3>2 DEF WithStatus, TypeOK
        <4>3. ASSUME NEW c, c \in Fds, client_usernames[c] = u
              PROVE  client_usernames'[c] = u
          <5>1. u \notin raced \cup {Empty}
            BY <2>1, UsersAssumption
          <5>2. c # x.fd
            BY <1>8, <3>2, <4>3, <5>1
          <5> QED
            BY <1>7, <4>3, <5>2
        <4> QED
          BY <2>1, <4>1, <4>2, <4>3 DEF SessionInv, NamesFreed
      <3> QED
        BY <3>1, <3>2
    <2> QED
      BY <1>1, <2>1 DEF NamesFreed
  <1> QED
    BY <1>10, <1>11, <1>12, <1>13, <1>15, <1>16 DEF SessionInv

LEMMA SessionInvInit == Init => SessionInv
  <1> SUFFICES ASSUME Init PROVE SessionInv
    OBVIOUS
  <1>1. /\ midway = {} /\ logged_in_clients = {} /\ logged_in_usernames = {}
        /\ client_usernames = [c \in Fds |-> Empty]
        /\ client_statuses = [u \in Users |-> Empty]
    BY DEF Init
  <1>2. Clients /\ Apart /\ Logins /\ Others
    BY <1>1 DEF Clients, Apart, Logins, Others, AtSession
  <1>3. Empty \notin Users /\ Empty \notin {"online", "busy"}
    BY UsersAssumption DEF Empty
  <1>4. SessionsSound /\ NamesFreed
    BY <1>1, <1>3 DEF SessionsSound, NamesFreed
  <1> QED
    BY <1>2, <1>4 DEF SessionInv

LEMMA SessionInvStep == TypeOK /\ SessionInv /\ [Next]_vars => SessionInv'
  <1> SUFFICES ASSUME TypeOK, SessionInv, [Next]_vars PROVE SessionInv'
    OBVIOUS
  <1>1. Others
    BY DEF SessionInv
  <1>2. CASE Idle
    BY <1>2, SessionInvIdle
  <1>3. CASE \E how \in {"aborted", "killed"} : Gone(how)
    BY <1>3, SessionInvGone
  <1>4. CASE \E c \in Fds, p \in SessionPlaces, u \in registered_users \cup {Empty} :
                Begun(p, c, u)
    BY <1>4, SessionInvBegun
  <1>5. CASE \E x \in midway : LoggedIn(x) \/ Ended(x) \/ StatusSet(x)
    BY <1>5, SessionInvLoggedIn, SessionInvEnded, SessionInvStatusSet
  <1> QED
    BY <1>1, <1>2, <1>3, <1>4, <1>5, SessionCases

-----------------------------------------------------------------------------
(* Sessions and their threads.                                             *)

\* A thread of d has the disconnect branch ahead of it, or is in it and has
\* found the session.
Watches(x, d) == x.fd = d /\ (x.at = "cleanup" => x.user # Empty)

Served(d) == Threads(d) > 0 \/ \E x \in midway : Watches(x, d)

LEMMA ServedParts ==
    /\ SessionHasThread <=> \A c \in logged_in_clients : Served(c)
    /\ SessionHasThread' <=> \A c \in logged_in_clients' : Served(c)'
  BY DEF SessionHasThread, Served, Threads, Watches

\* Threads come, and none goes.
LEMMA ServedByMore ==
    ASSUME SessionHasThread, TypeOK, logged_in_clients' \subseteq logged_in_clients,
           midway \subseteq midway', \A d \in Fds : Threads(d)' = Threads(d)
    PROVE  SessionHasThread'
  <1>1. \A c \in logged_in_clients' : c \in logged_in_clients /\ c \in Fds
    BY DEF TypeOK
  <1>2. \A c \in logged_in_clients' : Served(c)'
    BY <1>1, ServedParts DEF Served
  <1> QED
    BY <1>2, ServedParts

\* A thread of c leaves recv for a place where it still watches c.
LEMMA ServedByArrival ==
    ASSUME SessionHasThread, TypeOK, logged_in_clients' = logged_in_clients,
           NEW c, NEW S, NEW p, NEW u, NEW r, Arrive(S, p, c, u, r),
           p = "cleanup" /\ c \in logged_in_clients => u # Empty,
           \A x \in midway \ S : x.fd = c,
           \A d \in Fds \ {c} : Threads(d)' = Threads(d)
    PROVE  SessionHasThread'
  <1>1. PICK y : midway' = S \cup {y} /\ y.at = p /\ y.fd = c /\ y.user = u
    BY ArriveNew
  <1>2. ASSUME NEW d, d \in logged_in_clients
        PROVE  Served(d)'
    <2>1. d \in Fds /\ Served(d)
      BY <1>2, ServedParts DEF TypeOK
    <2>2. CASE d = c
      BY <1>1, <1>2, <2>2 DEF Served, Watches
    <2>3. CASE d # c
      <3>1. Threads(d)' = Threads(d)
        BY <2>1, <2>3
      <3>2. \A x \in midway : Watches(x, d) => x \in midway'
        BY <1>1, <2>3 DEF Watches
      <3> QED
        BY <2>1, <3>1, <3>2 DEF Served
    <2> QED
      BY <2>2, <2>3
  <1> QED
    BY <1>2, ServedParts

\* A thread goes back to recv, or away without a session.
LEMMA ServedByReturn ==
    ASSUME SessionHasThread, TypeOK, NEW x, x \in midway, midway' = midway \ {x},
           logged_in_clients' \subseteq logged_in_clients \cup {x.fd},
           \A d \in Fds \ {x.fd} : Threads(d)' = Threads(d),
           x.fd \in logged_in_clients' =>
              Threads(x.fd)' > 0 \/ (~Watches(x, x.fd) /\ Threads(x.fd)' = Threads(x.fd)
                                     /\ x.fd \in logged_in_clients)
    PROVE  SessionHasThread'
  <1>1. ASSUME NEW d, d \in logged_in_clients'
        PROVE  Served(d)'
    <2>1. CASE d = x.fd /\ Threads(x.fd)' > 0
      BY <2>1 DEF Served
    <2>2. CASE d = x.fd /\ ~(Threads(x.fd)' > 0)
      <3>1. /\ ~Watches(x, d) /\ Threads(d)' = Threads(d)
            /\ d \in logged_in_clients
        BY <1>1, <2>2
      <3>2. Served(d)
        BY <3>1, ServedParts
      <3> QED
        BY <3>1, <3>2 DEF Served, Watches
    <2>3. CASE d # x.fd
      <3>1. d \in logged_in_clients /\ d \in Fds
        BY <1>1, <2>3 DEF TypeOK
      <3>2. Served(d) /\ Threads(d)' = Threads(d)
        BY <2>3, <3>1, ServedParts
      <3> QED
        BY <2>3, <3>2 DEF Served, Watches
    <2> QED
      BY <2>1, <2>2, <2>3
  <1> QED
    BY <1>1, ServedParts

LEMMA BeginServes ==
    ASSUME SessionHasThread, TypeOK, NEW c, c \in Fds, NEW p, p # "cleanup", NEW u, NEW r,
           Begin(p, c, u, r)
    PROVE  SessionHasThread'
  <1>1. ThreadTypes
    BY TypeParts
  <1>2. readers[c] + 0 = readers[c]
    BY <1>1 DEF ThreadTypes
  <1>3. /\ Receive(c, readers[c] + 0) /\ Arrive(midway, p, c, u, r)
        /\ logged_in_clients' = logged_in_clients
    BY <1>2 DEF Begin, sessionVars
  <1>4. \A d \in Fds \ {c} : Threads(d)' = Threads(d)
    BY <1>1, <1>3, ReceiveThreads
  <1>5. \A x \in midway \ midway : x.fd = c
    OBVIOUS
  <1> QED
    BY <1>3, <1>4, <1>5, ServedByArrival

LEMMA MoveServes ==
    ASSUME SessionHasThread, TypeOK, NEW x, x \in midway, NEW p, p # "cleanup", NEW r,
           Move(x, p, r)
    PROVE  SessionHasThread'
  <1>1. /\ Arrive(midway \ {x}, p, x.fd, x.user, r)
        /\ logged_in_clients' = logged_in_clients
        /\ UNCHANGED threadVars
    BY DEF Move, sessionVars
  <1>2. \A d \in Fds \ {x.fd} : Threads(d)' = Threads(d)
    BY <1>1 DEF threadVars, Threads
  <1>3. \A z \in midway \ (midway \ {x}) : z.fd = x.fd
    OBVIOUS
  <1> QED
    BY <1>1, <1>2, <1>3, ServedByArrival

LEMMA FinishServes ==
    ASSUME SessionHasThread, TypeOK, NEW x, x \in midway, Finish(x),
           logged_in_clients' \subseteq logged_in_clients \cup {x.fd}
    PROVE  SessionHasThread'
  <1>1. ThreadTypes /\ x.fd \in Fds
    BY TypeParts, MidwayFields
  <1>2. /\ Threads(x.fd)' = Threads(x.fd) + 1
        /\ \A d \in Fds \ {x.fd} : Threads(d)' = Threads(d)
    BY <1>1, FinishThreads
  <1>3. Threads(x.fd)' > 0
    BY <1>1, <1>2 DEF ThreadTypes, Threads
  <1>4. midway' = midway \ {x}
    BY DEF Finish
  <1> QED
    BY <1>2, <1>3, <1>4, ServedByReturn

LEMMA CleanupServes ==
    ASSUME SessionHasThread, TypeOK, Clients, NEW c, c \in Fds, Cleanup(c)
    PROVE  SessionHasThread'
  <1>1. /\ Arrive(midway, "cleanup", c, UserOf(c), Lobby)
        /\ logged_in_clients' = logged_in_clients
        /\ UNCHANGED readers /\ UNCHANGED held /\ failing' = [failing EXCEPT ![c] = @ - 1]
    BY DEF Cleanup, sessionVars
  <1>2. \A d \in Fds \ {c} : Threads(d)' = Threads(d)
    BY <1>1 DEF TypeOK, Threads
  <1>3. c \in logged_in_clients => UserOf(c) # Empty
    BY DEF Clients, UserOf
  <1>4. \A x \in midway \ midway : x.fd = c
    OBVIOUS
  <1> QED
    BY <1>1, <1>2, <1>3, <1>4, ServedByArrival

LEMMA SessionHasThreadStep ==
    TypeOK /\ Clients /\ SessionHasThread /\ [Next]_vars => SessionHasThread'
  <1> SUFFICES ASSUME TypeOK, Clients, SessionHasThread, [Next]_vars PROVE SessionHasThread'
    OBVIOUS
  <1>1. CASE UNCHANGED vars
    BY <1>1 DEF vars, sessionVars, threadVars, SessionHasThread
  <1>2. CASE \E how \in {"aborted", "killed"} : Gone(how)
    BY <1>2 DEF Gone, SessionHasThread
  <1>3. CASE \E c \in Fds : \/ Accept(c) \/ Hangup(c) \/ HeldRecvFails(c) \/ RecvFails(c)
                             \/ FinalClose(c) \/ Answer(c)
    <2>1. PICK c \in Fds : \/ Accept(c) \/ Hangup(c) \/ HeldRecvFails(c) \/ RecvFails(c)
                           \/ FinalClose(c) \/ Answer(c)
      BY <1>3
    <2>2. CASE Accept(c)
      <3>1. /\ Arrive(midway, "start", c, Empty, Lobby)
            /\ logged_in_clients' = logged_in_clients
            /\ UNCHANGED <<readers, held, failing>>
        BY <2>2 DEF Accept, sessionVars
      <3>2. midway \subseteq midway'
        BY <3>1, ArriveNew
      <3>3. \A d \in Fds : Threads(d)' = Threads(d)
        BY <3>1 DEF Threads
      <3> QED
        BY <3>1, <3>2, <3>3, ServedByMore
    <2>3. CASE Hangup(c)
      <3>1. \A d \in Fds : Threads(d)' = Threads(d)
        BY <2>3 DEF Hangup, Threads
      <3> QED
        BY <2>3, <3>1, ServedByMore DEF Hangup, sessionVars
    <2>4. CASE HeldRecvFails(c) \/ RecvFails(c)
      <3>1. \A d \in Fds : Threads(d)' = Threads(d)
        BY <2>4 DEF HeldRecvFails, RecvFails, Threads, TypeOK
      <3> QED
        BY <2>4, <3>1, ServedByMore DEF HeldRecvFails, RecvFails, sessionVars
    <2>5. CASE FinalClose(c)
      <3>1. ThreadTypes /\ Close(c, readers[c], readers[c], held[c], failing[c])
        BY <2>5, TypeParts DEF FinalClose
      <3>2. readers[c] \in Nat /\ readers[c] \in 0 .. readers[c]
        BY <3>1 DEF ThreadTypes
      <3>3. Threads(c)' = readers[c] + held[c] + failing[c]
        BY <3>1, <3>2, CloseThreads
      <3>4. \A d \in Fds \ {c} : Threads(d)' = Threads(d)
        BY <3>1, <3>2, CloseThreads
      <3>5. \A d \in Fds : Threads(d)' = Threads(d)
        BY <3>3, <3>4 DEF Threads
      <3> QED
        BY <2>5, <3>5, ServedByMore DEF FinalClose, sessionVars
    <2>6. CASE Answer(c)
      <3>1. ThreadTypes /\ Receive(c, readers[c] + 1)
        BY <2>6, TypeParts DEF Answer, Command
      <3>2. Threads(c)' = Threads(c) + 1 - 1 /\ \A d \in Fds \ {c} : Threads(d)' = Threads(d)
        BY <3>1, ReceiveThreads
      <3>3. \A d \in Fds : Threads(d)' = Threads(d)
        BY <3>1, <3>2 DEF Threads, ThreadTypes
      <3> QED
        BY <2>6, <3>3, ServedByMore DEF Answer, Command, sessionVars
    <2> QED
      BY <2>1, <2>2, <2>3, <2>4, <2>5, <2>6
  <1>4. CASE \E c \in Fds, u \in Users : Register(c, u)
    <2>1. PICK c \in Fds, u \in Users : Register(c, u)
      BY <1>4
    <2>2. ThreadTypes /\ Receive(c, readers[c] + 1)
      BY <2>1, TypeParts DEF Register, Command
    <2>3. Threads(c)' = Threads(c) + 1 - 1 /\ \A d \in Fds \ {c} : Threads(d)' = Threads(d)
      BY <2>2, ReceiveThreads
    <2>4. \A d \in Fds : Threads(d)' = Threads(d)
      BY <2>2, <2>3 DEF Threads, ThreadTypes
    <2> QED
      BY <2>1, <2>4, ServedByMore DEF Register, Command
  <1>5. CASE \E c \in Fds : BeginStep(c)
    <2>1. PICK c \in Fds : BeginStep(c)
      BY <1>5
    <2>2. CASE Cleanup(c)
      BY <2>2, CleanupServes
    <2>3. CASE \E p \in {"login", "logout", "exit", "online", "offline", "busy"} :
                   \E u : BeginSession(p, c, u)
      <3>1. PICK p \in {"login", "logout", "exit", "online", "offline", "busy"} :
                \E u : BeginSession(p, c, u)
        BY <2>3
      <3>2. PICK u : BeginSession(p, c, u)
        BY <3>1
      <3>3. Begin(p, c, u, Lobby)
        BY <3>2 DEF BeginSession
      <3> QED
        BY <3>3, BeginServes
    <2> QED
      BY <2>1, <2>2, <2>3 DEF BeginStep, Login, Logout, Exit, SetStatus
  <1>6. CASE \E c \in Fds, r \in Rooms : EnterTests(c, r) \/ CloseChatRoom(c, r)
    <2>1. PICK c \in Fds, r \in Rooms : EnterTests(c, r) \/ CloseChatRoom(c, r)
      BY <1>6
    <2>2. PICK p \in {"own", "join", "expel"} : \E u : Begin(p, c, u, r)
      BY <2>1 DEF EnterTests, CloseChatRoom
    <2>3. PICK u : Begin(p, c, u, r)
      BY <2>2
    <2> QED
      BY <2>3, BeginServes
  <1>7. CASE \E c \in Fds : Line(c)
    <2>1. PICK c \in Fds : Begin("line", c, Empty, Lobby)
      BY <1>7 DEF Line
    <2> QED
      BY <2>1, BeginServes
  <1>8. CASE \E x \in midway : \/ StartThread(x) \/ CleanedUp(x) \/ LoggedIn(x)
                               \/ LoggedOut(x) \/ Exited(x) \/ StatusSet(x)
    <2>1. PICK x \in midway : \/ StartThread(x) \/ CleanedUp(x) \/ LoggedIn(x)
                              \/ LoggedOut(x) \/ Exited(x) \/ StatusSet(x)
      BY <1>8
    <2>2. CASE \/ StartThread(x) \/ LoggedIn(x) \/ LoggedOut(x) \/ StatusSet(x)
      <3>1. Finish(x)
        BY <2>2 DEF StartThread, LoggedIn, LoggedOut, StatusSet
      <3>2. logged_in_clients' \subseteq logged_in_clients \cup {x.fd}
        BY <2>2 DEF StartThread, LoggedIn, LoggedOut, StatusSet, EndSession, sessionVars
      <3> QED
        BY <3>1, <3>2, FinishServes
    <2>3. CASE Exited(x)
      <3>1. /\ Threads(x.fd)' = Threads(x.fd) + 1
            /\ \A d \in Fds \ {x.fd} : Threads(d)' = Threads(d)
        BY <2>3, ExitedType
      <3>2. x.fd \in Fds /\ ThreadTypes
        BY MidwayFields, TypeParts
      <3>3. Threads(x.fd)' > 0
        BY <3>1, <3>2 DEF Threads, ThreadTypes
      <3>4. midway' = midway \ {x} /\ logged_in_clients' \subseteq logged_in_clients \cup {x.fd}
        BY <2>3 DEF Exited
      <3> QED
        BY <3>1, <3>3, <3>4, ServedByReturn
    <2>4. CASE CleanedUp(x)
      <3>1. \A d \in Fds : Threads(d)' = Threads(d)
        BY <2>4, CleanedUpType
      <3>2. x.at = "cleanup" /\ midway' = midway \ {x}
        BY <2>4 DEF CleanedUp
      <3>3. x.user # Empty => logged_in_clients' = logged_in_clients \ {x.fd}
        BY <2>4 DEF CleanedUp, EndSession
      <3>4. x.user = Empty => logged_in_clients' = logged_in_clients /\ ~Watches(x, x.fd)
        BY <2>4, <3>2 DEF CleanedUp, Watches, sessionVars
      <3>5. x.fd \in Fds
        BY MidwayFields
      <3>6. x.fd \in logged_in_clients' =>
               ~Watches(x, x.fd) /\ Threads(x.fd)' = Threads(x.fd) /\ x.fd \in logged_in_clients
        BY <3>1, <3>3, <3>4, <3>5
      <3>7. logged_in_clients' \subseteq logged_in_clients \cup {x.fd}
        BY <3>3, <3>4
      <3>8. \A d \in Fds \ {x.fd} : Threads(d)' = Threads(d)
        BY <3>1
      <3> QED
        BY <3>2, <3>6, <3>7, <3>8, ServedByReturn
    <2> QED
      BY <2>1, <2>2, <2>3, <2>4
  <1>9. CASE \E x \in midway : \/ BecomeOwner(x) \/ EnterChatRoom(x) \/ ExpelAll(x)
                               \/ EraseRoom(x) \/ ReadRoom(x) \/ Chats(x)
    <2>1. PICK x \in midway : \/ BecomeOwner(x) \/ EnterChatRoom(x) \/ ExpelAll(x)
                              \/ EraseRoom(x) \/ ReadRoom(x) \/ Chats(x)
      BY <1>9
    <2>2. CASE BecomeOwner(x) \/ ExpelAll(x) \/ ReadRoom(x)
      <3>1. PICK p \in {"join", "erase", "chat"} : \E r : Move(x, p, r)
        BY <2>2 DEF BecomeOwner, ExpelAll, ReadRoom
      <3>2. PICK r : Move(x, p, r)
        BY <3>1
      <3> QED
        BY <3>2, MoveServes
    <2>3. CASE EnterChatRoom(x) \/ EraseRoom(x) \/ Chats(x)
      <3>1. Finish(x) /\ UNCHANGED sessionVars
        BY <2>3, ChatsParts DEF EnterChatRoom, EraseRoom
      <3> QED
        BY <3>1, FinishServes DEF sessionVars
    <2> QED
      BY <2>1, <2>2, <2>3
  <1> QED
    BY <1>1, <1>2, <1>3, <1>4, <1>5, <1>6, <1>7, <1>8, <1>9, NextCases

-----------------------------------------------------------------------------
(* Rooms and their owners.                                                 *)

\* Unless threads have overlapped there, a room has at most one thread that
\* found it without an owner, and it is; and one that closes it, for its owner.
Owning ==
    \A r \in Rooms \ disputed :
        /\ \A x, y \in midway : x.room = r /\ y.room = r /\ x.at = "own" /\ y.at = "own" => x = y
        /\ \A x, y \in midway :
              x.room = r /\ y.room = r /\ x.at \in {"expel", "erase"} /\ y.at \in {"expel", "erase"}
                 => x = y
        /\ \A x \in midway : x.room = r /\ x.at = "own" => chat_room_creators[r] = Empty
        /\ \A x \in midway : x.room = r /\ x.at \in {"expel", "erase"}
                                => chat_room_creators[r] = x.user /\ x.user # Empty

RoomInv == Owning /\ OwnedRoomExists

\* The step that RoomRules allows for the room r.
RuleStep(r) ==
    process' = "up" /\ chat_room_creators[r] # Empty =>
       \/ chat_room_creators'[r] = chat_room_creators[r] /\ (r \in chat_rooms => r \in chat_rooms')
       \/ /\ chat_room_creators'[r] = Empty /\ r \notin chat_rooms'
          /\ \E x \in midway \ midway' :
                x.at = "erase" /\ x.room = r /\ x.user = chat_room_creators[r]

Rule == \A r \in Rooms \ disputed' : RuleStep(r)

\* Steps that leave the owners and the closing of rooms to other threads.
RoomIdle ==
    /\ UNCHANGED <<chat_room_creators, disputed>>
    /\ chat_rooms \subseteq chat_rooms'
    /\ \A y \in midway' : y.at \in {"own", "expel", "erase"} => y \in midway
    /\ \A x \in midway : x.at = "join" => x \in midway' \/ x.room \in chat_rooms'

LEMMA RoomInvIdle == RoomInv /\ RoomIdle => RoomInv' /\ Rule
  <1> SUFFICES ASSUME RoomInv, RoomIdle PROVE RoomInv' /\ Rule
    OBVIOUS
  <1>1. Owning'
    BY DEF RoomInv, Owning, RoomIdle
  <1>2. OwnedRoomExists'
    BY DEF RoomInv, OwnedRoomExists, RoomIdle
  <1>3. Rule
    BY DEF Rule, RuleStep, RoomIdle
  <1> QED
    BY <1>1, <1>2, <1>3 DEF RoomInv

LEMMA RoomInvGone ==
    ASSUME NEW how, how \in {"aborted", "killed"}, Gone(how)
    PROVE  RoomInv' /\ Rule
  <1>1. /\ midway' = {} /\ chat_room_creators' = [r \in AnyRoom |-> Empty]
        /\ process' # "up"
    BY DEF Gone
  <1>2. Owning' /\ OwnedRoomExists'
    BY <1>1 DEF Owning, OwnedRoomExists, AnyRoom
  <1> QED
    BY <1>1, <1>2 DEF RoomInv, Rule, RuleStep

\* A thread arrives at a place that is none of a close or of a new owner.
LEMMA RoomIdleArrival ==
    ASSUME NEW S, S \subseteq midway, NEW p, p \notin {"own", "expel", "erase"},
           NEW c, NEW u, NEW r, Arrive(S, p, c, u, r),
           \A x \in midway \ S : x.at # "join",
           UNCHANGED <<chat_rooms, chat_room_creators, disputed>>
    PROVE  RoomIdle
  <1>1. PICK y : midway' = S \cup {y} /\ y.at = p
    BY ArriveNew
  <1> QED
    BY <1>1 DEF RoomIdle

LEMMA EnterTestsRooms ==
    ASSUME TypeOK, RoomInv, NEW c, NEW r, r \in Rooms, EnterTests(c, r)
    PROVE  RoomInv' /\ Rule
  <1> DEFINE free == chat_room_creators[r] = Empty
  <1>1. /\ Arrive(midway, IF free THEN "own" ELSE "join", c, Empty, r)
        /\ RecordDispute(IF free THEN {"own"} ELSE {}, r)
        /\ UNCHANGED <<chat_rooms, chat_room_creators>>
    BY DEF EnterTests, Begin, roomVars
  <1>2. CASE ~free
    <2>1. Arrive(midway, "join", c, Empty, r) /\ disputed' = disputed
      BY <1>1, <1>2 DEF RecordDispute
    <2>2. RoomIdle
      BY <1>1, <2>1, RoomIdleArrival
    <2> QED
      BY <2>2, RoomInvIdle
  <1>3. CASE free
    <2>1. Arrive(midway, "own", c, Empty, r) /\ RecordDispute({"own"}, r)
      BY <1>1, <1>3
    <2>2. PICK y : midway' = midway \cup {y} /\ y.at = "own" /\ y.room = r
      BY <2>1, ArriveNew
    <2>3. /\ disputed \subseteq disputed'
          /\ r \notin disputed' => \A x \in midway : ~(x.at = "own" /\ x.room = r)
      BY <2>1 DEF RecordDispute
    <2>4. Owning'
      <3>1. \A q \in Rooms \ disputed' : q \in Rooms \ disputed
        BY <2>3
      <3> QED
        BY <1>1, <1>3, <2>2, <2>3, <3>1 DEF RoomInv, Owning
    <2>5. OwnedRoomExists'
      BY <1>1, <2>2 DEF RoomInv, OwnedRoomExists
    <2>6. Rule
      BY <1>1 DEF Rule, RuleStep
    <2> QED
      BY <2>4, <2>5, <2>6 DEF RoomInv
  <1> QED
    BY <1>2, <1>3

LEMMA CloseChatRoomRooms ==
    ASSUME TypeOK, RoomInv, Clients, NEW c, c \in Fds, NEW r, r \in Rooms, CloseChatRoom(c, r)
    PROVE  RoomInv' /\ Rule
  <1>1. /\ Arrive(midway, "expel", c, client_usernames[c], r)
        /\ RecordDispute({"expel", "erase"}, r)
        /\ UNCHANGED <<chat_rooms, chat_room_creators>>
        /\ c \in logged_in_clients
        /\ chat_room_creators[r] = client_usernames[c]
    BY DEF CloseChatRoom, Begin, roomVars, MayClose
  <1>2. PICK y : /\ midway' = midway \cup {y} /\ y.at = "expel" /\ y.room = r
                 /\ y.user = client_usernames[c]
    BY <1>1, ArriveNew
  <1>3. /\ disputed \subseteq disputed'
        /\ r \notin disputed' => \A x \in midway : ~(x.at \in {"expel", "erase"} /\ x.room = r)
    BY <1>1 DEF RecordDispute
  <1>4. client_usernames[c] # Empty
    BY <1>1 DEF Clients
  <1>5. Owning'
    <2>1. \A q \in Rooms \ disputed' : q \in Rooms \ disputed
      BY <1>3
    <2> QED
      BY <1>1, <1>2, <1>3, <1>4, <2>1 DEF RoomInv, Owning
  <1>6. OwnedRoomExists'
    BY <1>1, <1>2 DEF RoomInv, OwnedRoomExists
  <1>7. Rule
    BY <1>1 DEF Rule, RuleStep
  <1> QED
    BY <1>5, <1>6, <1>7 DEF RoomInv

LEMMA BecomeOwnerRooms ==
    ASSUME TypeOK, RoomInv, NEW x, x \in midway, BecomeOwner(x)
    PROVE  RoomInv' /\ Rule
  <1>1. /\ Arrive(midway \ {x}, "join", x.fd, x.user, x.room)
        /\ x.at = "own" /\ chat_rooms' = chat_rooms /\ disputed' = disputed
        /\ chat_room_creators'
             = [chat_room_creators EXCEPT ![x.room] = client_usernames[x.fd]]
    BY DEF BecomeOwner, Move, races
  <1>2. PICK y : midway' = (midway \ {x}) \cup {y} /\ y.at = "join" /\ y.room = x.room
    BY <1>1, ArriveNew
  <1>3. \A q \in Rooms : q # x.room => chat_room_creators'[q] = chat_room_creators[q]
    BY <1>1 DEF TypeOK, AnyRoom
  <1>4. Owning'
    <2>1. ASSUME NEW q, q \in Rooms \ disputed
          PROVE  /\ \A z, w \in midway' : z.room = q /\ w.room = q /\ z.at = "own" /\ w.at = "own"
                       => z = w
                 /\ \A z, w \in midway' : /\ z.room = q /\ w.room = q
                                          /\ z.at \in {"expel", "erase"} /\ w.at \in {"expel", "erase"}
                       => z = w
                 /\ \A z \in midway' : z.room = q /\ z.at = "own" => chat_room_creators'[q] = Empty
                 /\ \A z \in midway' : z.room = q /\ z.at \in {"expel", "erase"}
                       => chat_room_creators'[q] = z.user /\ z.user # Empty
      <3>1. \A z \in midway' : z.at \in {"own", "expel", "erase"} => z \in midway /\ z # x
        BY <1>2
      <3>2. CASE q # x.room
        BY <1>3, <2>1, <3>1, <3>2 DEF RoomInv, Owning
      <3>3. CASE q = x.room
        <4>1. chat_room_creators[q] = Empty /\ \A z \in midway : z.room = q /\ z.at = "own" => z = x
          BY <1>1, <2>1, <3>3 DEF RoomInv, Owning
        <4>2. \A z \in midway : z.room = q => z.at \notin {"expel", "erase"}
          BY <2>1, <4>1 DEF RoomInv, Owning
        <4> QED
          BY <3>1, <4>1, <4>2
      <3> QED
        BY <3>2, <3>3
    <2> QED
      BY <1>1, <2>1 DEF Owning
  <1>5. OwnedRoomExists'
    <2>1. ASSUME NEW q, q \in Rooms, chat_room_creators'[q] # Empty
          PROVE  q \in chat_rooms' \/ \E z \in midway' : z.at = "join" /\ z.room = q
      <3>1. CASE q = x.room
        BY <1>2, <3>1
      <3>2. CASE q # x.room
        BY <1>1, <1>2, <1>3, <2>1, <3>2 DEF RoomInv, OwnedRoomExists
      <3> QED
        BY <3>1, <3>2
    <2> QED
      BY <2>1 DEF OwnedRoomExists
  <1>6. Rule
    <2>1. x.room \in Rooms \ disputed => chat_room_creators[x.room] = Empty
      BY <1>1 DEF RoomInv, Owning
    <2> QED
      BY <1>1, <1>3, <2>1 DEF Rule, RuleStep
  <1> QED
    BY <1>4, <1>5, <1>6 DEF RoomInv

LEMMA ExpelAllRooms ==
    ASSUME TypeOK, RoomInv, NEW x, x \in midway, ExpelAll(x)
    PROVE  RoomInv' /\ Rule
  <1>1. /\ Arrive(midway \ {x}, "erase", x.fd, x.user, x.room)
        /\ x.at = "expel" /\ disputed' = disputed
        /\ UNCHANGED <<chat_rooms, chat_room_creators>>
    BY DEF ExpelAll, Move, races
  <1>2. PICK y : /\ midway' = (midway \ {x}) \cup {y} /\ y.at = "erase"
                 /\ y.user = x.user /\ y.room = x.room
    BY <1>1, ArriveNew
  <1>3. Owning'
    BY <1>1, <1>2 DEF RoomInv, Owning
  <1>4. OwnedRoomExists'
    BY <1>1, <1>2 DEF RoomInv, OwnedRoomExists
  <1>5. Rule
    BY <1>1 DEF Rule, RuleStep
  <1> QED
    BY <1>3, <1>4, <1>5 DEF RoomInv

LEMMA EraseRoomRooms ==
    ASSUME TypeOK, RoomInv, NEW x, x \in midway, EraseRoom(x)
    PROVE  RoomInv' /\ Rule
  <1>1. /\ x.at = "erase" /\ midway' = midway \ {x} /\ disputed' = disputed
        /\ chat_rooms' = chat_rooms \ {x.room}
        /\ chat_room_creators' = [chat_room_creators EXCEPT ![x.room] = Empty]
    BY DEF EraseRoom, Finish, WithoutOwner, races
  <1>2. \A q \in Rooms : chat_room_creators'[q]
                           = IF q = x.room THEN Empty ELSE chat_room_creators[q]
    BY <1>1 DEF TypeOK, AnyRoom
  <1>3. Owning'
    BY <1>1, <1>2 DEF RoomInv, Owning
  <1>4. OwnedRoomExists'
    BY <1>1, <1>2 DEF RoomInv, OwnedRoomExists
  <1>5. Rule
    <2>1. ASSUME NEW r, r \in Rooms \ disputed'
          PROVE  RuleStep(r)
      <3>1. CASE r = x.room
        <4>1. r \in Rooms \ disputed
          BY <1>1, <2>1
        <4>2. chat_room_creators[r] = x.user
          BY <1>1, <3>1, <4>1 DEF RoomInv, Owning
        <4>3. x \in midway \ midway'
          BY <1>1
        <4>4. chat_room_creators'[r] = Empty /\ r \notin chat_rooms'
          BY <1>1, <1>2, <2>1, <3>1
        <4> QED
          BY <1>1, <3>1, <4>2, <4>3, <4>4 DEF RuleStep
      <3>2. CASE r # x.room
        BY <1>1, <1>2, <2>1, <3>2 DEF RuleStep
      <3> QED
        BY <3>1, <3>2
    <2> QED
      BY <2>1 DEF Rule
  <1> QED
    BY <1>3, <1>4, <1>5 DEF RoomInv

LEMMA RoomInvInit == Init => RoomInv
  BY DEF Init, RoomInv, Owning, OwnedRoomExists, AnyRoom

LEMMA RoomInvStep ==
    TypeOK /\ SessionInv /\ RoomInv /\ [Next]_vars => RoomInv' /\ Rule
  <1> SUFFICES ASSUME TypeOK, SessionInv, RoomInv, [Next]_vars PROVE RoomInv' /\ Rule
    OBVIOUS
  <1> USE RoomInvIdle
  <1>1. CASE UNCHANGED vars
    BY <1>1 DEF vars, roomVars, races, RoomIdle
  <1>2. CASE \E how \in {"aborted", "killed"} : Gone(how)
    BY <1>2, RoomInvGone
  <1>3. CASE \E c \in Fds : \/ Accept(c) \/ Hangup(c) \/ HeldRecvFails(c) \/ RecvFails(c)
                             \/ FinalClose(c) \/ Answer(c)
    <2>1. PICK c \in Fds : \/ Accept(c) \/ Hangup(c) \/ HeldRecvFails(c) \/ RecvFails(c)
                           \/ FinalClose(c) \/ Answer(c)
      BY <1>3
    <2>2. CASE Accept(c)
      <3>1. /\ Arrive(midway, "start", c, Empty, Lobby)
            /\ UNCHANGED <<chat_rooms, chat_room_creators, disputed>>
        BY <2>2 DEF Accept, roomVars, races
      <3>2. RoomIdle
        BY <3>1, RoomIdleArrival
      <3> QED
        BY <3>2
    <2>3. CASE \/ Hangup(c) \/ HeldRecvFails(c) \/ RecvFails(c) \/ FinalClose(c) \/ Answer(c)
      <3>1. UNCHANGED roomVars /\ midway' = midway /\ UNCHANGED races
        BY <2>3 DEF Hangup, HeldRecvFails, RecvFails, FinalClose, Answer, Command
      <3>2. RoomIdle
        BY <3>1 DEF RoomIdle, roomVars, races
      <3> QED
        BY <3>2
    <2> QED
      BY <2>1, <2>2, <2>3
  <1>4. CASE \E c \in Fds, u \in Users : Register(c, u)
    <2>1. RoomIdle
      BY <1>4 DEF Register, Command, RoomIdle, roomVars, races
    <2> QED
      BY <2>1
  <1>5. CASE \E c \in Fds : BeginStep(c)
    <2>1. PICK c \in Fds : BeginStep(c)
      BY <1>5
    <2>2. PICK p \in SessionPlaces, u \in registered_users \cup {Empty} :
              Begun(p, c, u) /\ (BeginSession(p, c, u) \/ Cleanup(c))
      BY <2>1, TypeParts, BeginStepBegun
    <2>3. Arrive(midway, p, c, u, Lobby) /\ UNCHANGED disputed
      BY <2>2 DEF Begun, RecordRace
    <2>4. UNCHANGED roomVars
      BY <2>2 DEF BeginSession, Cleanup
    <2>5. RoomIdle
      <3>1. p \notin {"own", "expel", "erase"}
        BY DEF SessionPlaces
      <3> QED
        BY <2>3, <2>4, <3>1, RoomIdleArrival DEF roomVars
    <2> QED
      BY <2>5
  <1>6. CASE \E c \in Fds, r \in Rooms : EnterTests(c, r) \/ CloseChatRoom(c, r)
    <2>1. Clients
      BY DEF SessionInv
    <2> QED
      BY <1>6, <2>1, EnterTestsRooms, CloseChatRoomRooms
  <1>7. CASE \E c \in Fds : Line(c)
    <2>1. PICK c \in Fds : Line(c)
      BY <1>7
    <2>2. /\ Arrive(midway, "line", c, Empty, Lobby)
          /\ UNCHANGED <<chat_rooms, chat_room_creators, disputed>>
      BY <2>1 DEF Line, Begin, roomVars, races
    <2>3. RoomIdle
      BY <2>2, RoomIdleArrival
    <2> QED
      BY <2>3
  <1>8. CASE \E x \in midway : \/ StartThread(x) \/ CleanedUp(x) \/ LoggedIn(x)
                               \/ LoggedOut(x) \/ Exited(x) \/ StatusSet(x)
    <2>1. PICK x \in midway : \/ StartThread(x) \/ CleanedUp(x) \/ LoggedIn(x)
                              \/ LoggedOut(x) \/ Exited(x) \/ StatusSet(x)
      BY <1>8
    <2>2. /\ UNCHANGED roomVars /\ UNCHANGED races /\ midway' = midway \ {x}
          /\ x.at # "join"
      BY <2>1 DEF StartThread, CleanedUp, LoggedIn, LoggedOut, Exited, StatusSet, Finish
    <2>3. RoomIdle
      BY <2>2 DEF RoomIdle, roomVars, races
    <2> QED
      BY <2>3
  <1>9. CASE \E x \in midway : \/ BecomeOwner(x) \/ EnterChatRoom(x) \/ ExpelAll(x)
                               \/ EraseRoom(x) \/ ReadRoom(x) \/ Chats(x)
    <2>1. PICK x \in midway : \/ BecomeOwner(x) \/ EnterChatRoom(x) \/ ExpelAll(x)
                              \/ EraseRoom(x) \/ ReadRoom(x) \/ Chats(x)
      BY <1>9
    <2>2. CASE EnterChatRoom(x)
      <3>1. RoomIdle
        BY <2>2 DEF EnterChatRoom, Finish, RoomIdle, races
      <3> QED
        BY <3>1
    <2>3. CASE ReadRoom(x)
      <3>1. x.at = "line" /\ \E r : Move(x, "chat", r)
        BY <2>3 DEF ReadRoom
      <3>2. PICK r : Move(x, "chat", r)
        BY <3>1
      <3>3. Arrive(midway \ {x}, "chat", x.fd, x.user, r) /\ disputed' = disputed
        BY <3>2 DEF Move, races
      <3>4. UNCHANGED <<chat_rooms, chat_room_creators>>
        BY <2>3 DEF ReadRoom
      <3>5. \A z \in midway \ (midway \ {x}) : z.at # "join"
        BY <3>1
      <3>6. RoomIdle
        BY <3>3, <3>4, <3>5, RoomIdleArrival
      <3> QED
        BY <3>6
    <2>4. CASE Chats(x)
      <3>1. /\ Finish(x) /\ UNCHANGED chat_room_creators
            /\ chat_rooms \subseteq chat_rooms'
        BY <2>4, ChatsParts
      <3>2. x.at = "chat"
        BY <2>4 DEF Chats, Pin, ExitChatRoom, ListRoomUsers, Post, ChatAnswer, Chat
      <3>3. RoomIdle
        BY <3>1, <3>2 DEF RoomIdle, Finish, races
      <3> QED
        BY <3>3
    <2> QED
      BY <2>1, <2>2, <2>3, <2>4, BecomeOwnerRooms, ExpelAllRooms, EraseRoomRooms
  <1> QED
    BY <1>1, <1>2, <1>3, <1>4, <1>5, <1>6, <1>7, <1>8, <1>9, NextCases

-----------------------------------------------------------------------------
(* The theorems.                                                           *)

\* The inductive invariant: the types, what threads in mid-command rely on,
\* the sessions with the threads that end them, and the rooms with owners.
ChatInv ==
    /\ TypeOK
    /\ SessionInv
    /\ SessionHasThread
    /\ RoomInv

LEMMA ChatInvInit == Init => ChatInv
  <1>1. Init => SessionHasThread
    BY DEF Init, SessionHasThread
  <1> QED
    BY <1>1, TypeInit, SessionInvInit, RoomInvInit DEF ChatInv

LEMMA ChatInvStep == ChatInv /\ [Next]_vars => ChatInv' /\ Rule
  <1> SUFFICES ASSUME ChatInv, [Next]_vars PROVE ChatInv' /\ Rule
    OBVIOUS
  <1>1. TypeOK /\ SessionInv /\ SessionHasThread /\ RoomInv
    BY DEF ChatInv
  <1>2. Clients
    BY <1>1 DEF SessionInv
  <1>3. LoginNamed
    BY <1>1 DEF SessionInv, Logins, AtSession, SessionPlaces, LoginNamed
  <1>4. TypeOK'
    BY <1>1, <1>3, TypeStep
  <1>5. SessionInv'
    BY <1>1, SessionInvStep
  <1>6. SessionHasThread'
    BY <1>1, <1>2, SessionHasThreadStep
  <1>7. RoomInv' /\ Rule
    BY <1>1, RoomInvStep
  <1> QED
    BY <1>4, <1>5, <1>6, <1>7 DEF ChatInv

\* In every reachable state the tables, the threads that are in the middle of
\* a command, the sessions with their threads and the rooms with their owners
\* fit together as ChatInv says, over any interleaving of the commands.
THEOREM InvCorrect == Spec => []ChatInv
  <1>1. ChatInv /\ [Next]_vars => ChatInv'
    BY ChatInvStep
  <1> QED
    BY <1>1, ChatInvInit, PTL DEF Spec

\* The variables of the chat server keep their types.
THEOREM TypeCorrect == Spec => []TypeOK
  <1>1. ChatInv => TypeOK
    BY DEF ChatInv
  <1> QED
    BY <1>1, InvCorrect, PTL

\* A name that was never in two commands at once is the name of at most one
\* session, which is in the tables of clients and of names, whatever commands
\* overlap otherwise and whatever names are long.
THEOREM SessionsCorrect == Spec => [](Clients /\ SessionsSound)
  <1>1. ChatInv => Clients /\ SessionsSound
    BY DEF ChatInv, SessionInv
  <1> QED
    BY <1>1, InvCorrect, PTL

\* Where every name is within its string object, what the exit and logout of
\* a session erase is its own name, and all tables agree.
THEOREM TablesAgreeCorrect ==
    ASSUME LongNames = {}
    PROVE  Spec => []TablesAgree
  <1>1. ASSUME ChatInv PROVE TablesAgree
    <2>1. SessionsSound /\ NamesFreed /\ Clients
      BY <1>1 DEF ChatInv, SessionInv
    <2>2. \A u \in Users : u # Empty
      BY UsersAssumption
    <2>3. SessionsAgree
      BY <2>1, <2>2 DEF SessionsSound, NamesFreed, Clients, SessionsAgree
    <2>4. StatusAgree
      BY <2>1 DEF NamesFreed, StatusAgree
    <2> QED
      BY <2>3, <2>4 DEF TablesAgree
  <1>2. ChatInv => TablesAgree
    BY <1>1
  <1> QED
    BY <1>2, InvCorrect, PTL

\* A descriptor that is logged in has a thread that will log it out, however
\* descriptors are closed twice and handed out again.
THEOREM SessionHasThreadCorrect == Spec => []SessionHasThread
  <1>1. ChatInv => SessionHasThread
    BY DEF ChatInv
  <1> QED
    BY <1>1, InvCorrect, PTL

\* A room with an owner exists, or is about to.
THEOREM OwnedRoomExistsCorrect == Spec => []OwnedRoomExists
  <1>1. ChatInv => OwnedRoomExists
    BY DEF ChatInv, RoomInv
  <1> QED
    BY <1>1, InvCorrect, PTL

\* A room keeps its owner until a close that its owner began erases it,
\* unless two threads found it without an owner, or closed it, at once.
THEOREM RoomRulesCorrect == Spec => RoomRules
  <1>1. Rule <=> \A r \in Rooms \ disputed' : RuleStep(r)
    BY DEF Rule
  <1>2. ChatInv /\ [Next]_vars =>
          [\A r \in Rooms \ disputed' : process' = "up" /\ chat_room_creators[r] # Empty =>
             \/ chat_room_creators'[r] = chat_room_creators[r] /\ (r \in chat_rooms => r \in chat_rooms')
             \/ /\ chat_room_creators'[r] = Empty /\ r \notin chat_rooms'
                /\ \E x \in midway \ midway' :
                      x.at = "erase" /\ x.room = r /\ x.user = chat_room_creators[r]]_vars
    BY <1>1, ChatInvStep DEF RuleStep
  <1> QED
    BY <1>2, InvCorrect, PTL DEF Spec, RoomRules

(***************************************************************************)
(* The lines of the clients (ChatWire), for any clients, lines and buffer. *)
(* First what strtok() makes of a whole line, then the invariant: a thread *)
(* no other has disturbed holds its client's line, cut where it should be. *)
(***************************************************************************)

\* Words, the line end and nullptr.
WireSymbols == STRING \cup {NL, "none"}

\* A line as a client writes it: words, none of them a line end or nullptr.
WireIsLine(l) == l \in Seq(WireSymbols) /\ \A i \in 1 .. Len(l) : l[i] # NL /\ l[i] # "none"

LEMMA WireLineFacts == \A l \in WireLines : WireIsLine(l)
  <1> SUFFICES ASSUME NEW l \in WireLines PROVE WireIsLine(l)
    OBVIOUS
  <1>1. l \in Seq(STRING) /\ \A i \in DOMAIN l : l[i] # NL /\ l[i] # "none"
    BY WireLinesAssumption
  <1>2. STRING \subseteq WireSymbols
    BY DEF WireSymbols
  <1>3. DOMAIN l = 1 .. Len(l)
    BY <1>1
  <1>4. l \in Seq(WireSymbols)
    BY <1>1, <1>2, SeqMonotonic
  <1> QED
    BY <1>1, <1>3, <1>4 DEF WireIsLine

\* A line as handle_client receives it.
LEMMA WireChunk ==
    ASSUME NEW l, WireIsLine(l)
    PROVE  /\ l \in Seq(WireSymbols) /\ Len(l) \in Nat
           /\ Append(l, NL) \in Seq(WireSymbols) /\ Len(Append(l, NL)) = Len(l) + 1
           /\ Append(l, NL)[Len(l) + 1] = NL
           /\ \A i \in 1 .. Len(l) : Append(l, NL)[i] = l[i]
           /\ Append(l, NL) # <<>>
           /\ l = <<>> <=> Len(l) = 0
  <1>1. l \in Seq(WireSymbols) /\ NL \in WireSymbols
    BY DEF WireIsLine, WireSymbols
  <1>2. Len(<<>>) = 0
    OBVIOUS
  <1>3. Append(l, NL) \in Seq(WireSymbols) /\ Len(Append(l, NL)) = Len(l) + 1
    BY <1>1, AppendProperties
  <1>4. /\ Append(l, NL)[Len(l) + 1] = NL
        /\ \A i \in 1 .. Len(l) : Append(l, NL)[i] = l[i]
    BY <1>1, AppendProperties
  <1>5. Len(l) \in Nat /\ (l = <<>> <=> Len(l) = 0)
    BY <1>1, EmptySeq
  <1>6. Append(l, NL) # <<>>
    BY <1>2, <1>3, <1>5
  <1> QED
    BY <1>1, <1>3, <1>4, <1>5, <1>6

\* strtok() skips nothing in front of a word, and all of an empty string.
LEMMA WireSkipNothing ==
    /\ WireSkip(<<>>) = <<>>
    /\ \A s \in Seq(WireSymbols) : Len(s) > 0 /\ s[1] # NL => WireSkip(s) = s
  <1>1. WireSkip(<<>>) = <<>>
    BY DEF WireSkip
  <1>2. ASSUME NEW s \in Seq(WireSymbols), Len(s) > 0, s[1] # NL
        PROVE  WireSkip(s) = s
    <2>1. DOMAIN s = 1 .. Len(s) /\ Len(s) \in Nat /\ 1 \in DOMAIN s
      BY <1>2
    <2> DEFINE P(j) == s[j] # NL /\ \A k \in 1 .. j - 1 : s[k] = NL
    <2>2. P(1)
      BY <1>2
    <2>3. \A j \in DOMAIN s : P(j) => j = 1
      <3> SUFFICES ASSUME NEW j \in DOMAIN s, P(j), j # 1 PROVE FALSE
        OBVIOUS
      <3>1. 1 \in 1 .. j - 1
        BY <2>1
      <3> QED
        BY <1>2, <3>1
    <2> HIDE DEF P
    <2>4. (CHOOSE j \in DOMAIN s : P(j)) = 1
      BY <2>1, <2>2, <2>3
    <2>5. ~ \A i \in DOMAIN s : s[i] = NL
      BY <1>2, <2>1
    <2>6. SubSeq(s, 1, Len(s)) = s
      BY <1>2, <2>1
    <2> QED
      BY <2>4, <2>5, <2>6 DEF WireSkip, P
  <1> QED
    BY <1>1, <1>2

\* The rest of a line is a line.
LEMMA WireTailLine ==
    ASSUME NEW l, WireIsLine(l), l # <<>>
    PROVE  /\ WireIsLine(Tail(l)) /\ Len(Tail(l)) = Len(l) - 1 /\ Len(l) >= 1
           /\ \A i \in 1 .. Len(Tail(l)) : Tail(l)[i] = l[i + 1]
           /\ Head(l) = l[1] /\ l[1] # NL
  <1>1. l \in Seq(WireSymbols) /\ Len(l) \in Nat /\ Len(l) # 0
    BY WireChunk
  <1>2. /\ Tail(l) \in Seq(WireSymbols) /\ Len(Tail(l)) = Len(l) - 1
        /\ \A i \in 1 .. Len(Tail(l)) : Tail(l)[i] = l[i + 1]
    BY <1>1, HeadTailProperties
  <1> DEFINE t == Tail(l)
  <1> HIDE DEF t
  <1>3. t \in Seq(WireSymbols) /\ Len(t) = Len(l) - 1 /\ \A i \in 1 .. Len(t) : t[i] = l[i + 1]
    BY <1>2 DEF t
  <1>4. \A i \in 1 .. Len(t) : t[i] # NL /\ t[i] # "none"
    <2> SUFFICES ASSUME NEW i \in 1 .. Len(t) PROVE t[i] # NL /\ t[i] # "none"
      OBVIOUS
    <2>1. i + 1 \in 1 .. Len(l)
      BY <1>1, <1>3
    <2> QED
      BY <1>3, <2>1 DEF WireIsLine
  <1>5. WireIsLine(t)
    BY <1>3, <1>4 DEF WireIsLine
  <1>6. 1 \in 1 .. Len(l) /\ Head(l) = l[1]
    BY <1>1
  <1>7. l[1] # NL
    BY <1>6 DEF WireIsLine
  <1> QED
    BY <1>1, <1>3, <1>5, <1>6, <1>7 DEF t

\* What strtok() leaves of a whole line after its first word.
WireLeft(l) == IF Len(l) <= 1 THEN <<>> ELSE Append(Tail(l), NL)

\* The first word of a line, and what is left.
LEMMA WireFirstWord ==
    ASSUME NEW l, WireIsLine(l)
    PROVE  /\ WireWord(Append(l, NL)) = IF l = <<>> THEN WireNone ELSE <<l[1]>>
           /\ WireAfterWord(Append(l, NL)) = WireLeft(l)
  <1>1. PICK s : s = Append(l, NL)
    OBVIOUS
  <1>2. /\ l \in Seq(WireSymbols) /\ Len(l) \in Nat /\ s \in Seq(WireSymbols) /\ Len(s) = Len(l) + 1
        /\ s[Len(l) + 1] = NL /\ (\A i \in 1 .. Len(l) : s[i] = l[i]) /\ s # <<>>
        /\ (l = <<>> <=> Len(l) = 0)
    BY <1>1, WireChunk
  <1>3. CASE l = <<>>
    <2>1. Len(l) = 0 /\ \A i \in DOMAIN s : s[i] = NL
      BY <1>2, <1>3
    <2>2. WireSkip(s) = <<>>
      BY <2>1 DEF WireSkip
    <2> QED
      BY <1>1, <1>3, <2>1, <2>2 DEF WireWord, WireAfterWord, WireLeft
  <1>4. CASE l # <<>>
    <2>1. PICK t : t = Tail(l)
      OBVIOUS
    <2>2. /\ WireIsLine(t) /\ Len(t) = Len(l) - 1 /\ Len(l) >= 1 /\ l[1] # NL /\ Head(l) = l[1]
          /\ \A i \in 1 .. Len(t) : t[i] = l[i + 1]
      BY <1>4, <2>1, WireTailLine
    <2>3. Len(s) > 0 /\ s[1] # NL
      <3>1. 1 \in 1 .. Len(l)
        BY <1>2, <2>2
      <3> QED
        BY <1>2, <2>2, <3>1
    <2>4. WireSkip(s) = s
      BY <1>2, <2>3, WireSkipNothing
    <2>5. Head(s) = l[1] /\ Tail(s) = Append(t, NL)
      BY <1>1, <1>2, <1>4, <2>1, <2>2, HeadTailAppend
    <2>6. WireWord(s) = <<l[1]>>
      BY <1>2, <2>4, <2>5 DEF WireWord
    <2>7. PICK r : r = Append(t, NL)
      OBVIOUS
    <2>8. WireAfterWord(s) = IF r # <<>> /\ r[1] = NL THEN Tail(r) ELSE r
      BY <1>2, <2>4, <2>5, <2>7 DEF WireAfterWord
    <2>9. /\ t \in Seq(WireSymbols) /\ Len(t) \in Nat /\ r # <<>> /\ r[Len(t) + 1] = NL
          /\ (\A i \in 1 .. Len(t) : r[i] = t[i]) /\ (t = <<>> <=> Len(t) = 0)
      BY <2>2, <2>7, WireChunk
    <2>10. CASE Len(l) = 1
      <3>1. t = <<>> /\ Len(t) = 0
        BY <2>2, <2>9, <2>10
      <3>2. r[1] = NL
        BY <2>9, <3>1
      <3>3. Tail(r) = <<>>
        BY <2>7, <2>9, <3>1, HeadTailAppend
      <3>4. WireLeft(l) = <<>>
        BY <2>10 DEF WireLeft
      <3> QED
        BY <1>1, <1>4, <2>6, <2>8, <2>9, <3>2, <3>3, <3>4
    <2>11. CASE Len(l) # 1
      <3>1. Len(l) > 1 /\ 1 \in 1 .. Len(t)
        BY <1>2, <2>2, <2>9, <2>11
      <3>2. r[1] # NL
        BY <2>2, <2>9, <3>1 DEF WireIsLine
      <3>3. WireLeft(l) = r
        BY <2>1, <2>7, <1>2, <3>1 DEF WireLeft
      <3> QED
        BY <1>1, <1>4, <2>6, <2>8, <2>9, <3>2, <3>3
    <2> QED
      BY <2>10, <2>11
  <1> QED
    BY <1>3, <1>4

\* strtok(_, "\n") returns all the words of a line.
LEMMA WireWholeText ==
    ASSUME NEW t, WireIsLine(t), t # <<>>
    PROVE  WireText(Append(t, NL)) = t
  <1>1. PICK s : s = Append(t, NL)
    OBVIOUS
  <1> DEFINE ends == {i \in DOMAIN s : s[i] = NL}
  <1>2. /\ t \in Seq(WireSymbols) /\ Len(t) \in Nat /\ s \in Seq(WireSymbols) /\ Len(s) = Len(t) + 1
        /\ s[Len(t) + 1] = NL /\ (\A i \in 1 .. Len(t) : s[i] = t[i]) /\ s # <<>>
    BY <1>1, WireChunk
  <1>3. Len(t) >= 1 /\ t[1] # NL
    BY WireTailLine
  <1>4. Len(s) > 0 /\ s[1] # NL
    <2>1. 1 \in 1 .. Len(t)
      BY <1>2, <1>3
    <2> QED
      BY <1>2, <1>3, <2>1
  <1>5. WireSkip(s) = s
    BY <1>2, <1>4, WireSkipNothing
  <1>6. ends = {Len(t) + 1}
    <2>1. DOMAIN s = 1 .. Len(t) + 1
      BY <1>2
    <2>2. \A i \in 1 .. Len(t) : s[i] # NL
      BY <1>2 DEF WireIsLine
    <2>3. \A i \in 1 .. Len(t) + 1 : i \in 1 .. Len(t) \/ i = Len(t) + 1
      BY <1>2
    <2>4. Len(t) + 1 \in 1 .. Len(t) + 1
      BY <1>2
    <2> QED
      BY <1>2, <2>1, <2>2, <2>3, <2>4
  <1>7. SubSeq(s, 1, Len(t)) = t
    <2>1. SubSeq(t \o <<NL>>, 1, Len(t)) = t
      <3>1. 1 \in 1 .. Len(t) /\ Len(t) \in 1 .. Len(t)
        BY <1>2, <1>3
      <3>2. <<NL>> \in Seq(WireSymbols)
        BY DEF WireSymbols
      <3> QED
        BY <1>2, <3>1, <3>2, SubSeqOfConcat1, SubSeqFull
    <2>2. s = t \o <<NL>>
      BY <1>1, <1>2, AppendIsConcat DEF WireSymbols
    <2> QED
      BY <2>1, <2>2
  <1>8. (CHOOSE i \in ends : \A j \in ends : i <= j) = Len(t) + 1
    <2> HIDE DEF ends
    <2> QED
      BY <1>2, <1>6
  <1>9. ends # {}
    BY <1>6
  <1>10. WireText(s) = SubSeq(s, 1, (CHOOSE i \in ends : \A j \in ends : i <= j) - 1)
    BY <1>2, <1>5, <1>9 DEF WireText
  <1>11. (Len(t) + 1) - 1 = Len(t)
    BY <1>2
  <1> HIDE DEF ends
  <1> QED
    BY <1>1, <1>7, <1>8, <1>10, <1>11

\* What strtok(_, "\n") returns after the first word of a line.
LEMMA WireRestOfLine ==
    ASSUME NEW l, WireIsLine(l), l # <<>>
    PROVE  WireText(WireLeft(l)) = IF Len(l) = 1 THEN WireNone ELSE Tail(l)
  <1>1. PICK t : t = Tail(l)
    OBVIOUS
  <1>2. /\ WireIsLine(t) /\ Len(t) = Len(l) - 1 /\ Len(t) \in Nat /\ (t = <<>> <=> Len(t) = 0)
        /\ Len(l) \in Nat /\ Len(l) >= 1
    BY <1>1, WireTailLine, WireChunk
  <1>3. CASE Len(l) = 1
    <2>1. WireLeft(l) = <<>>
      BY <1>3 DEF WireLeft
    <2> QED
      BY <1>3, <2>1, WireSkipNothing DEF WireText
  <1>4. CASE Len(l) # 1
    <2>1. Len(l) > 1 /\ t # <<>>
      BY <1>2, <1>4
    <2>2. WireLeft(l) = Append(t, NL)
      BY <1>1, <1>2, <2>1 DEF WireLeft
    <2>3. WireText(Append(t, NL)) = t
      BY <1>2, <2>1, WireWholeText
    <2> QED
      BY <1>1, <1>4, <2>2, <2>3
  <1> QED
    BY <1>3, <1>4

\* handle_command takes from a line, read whole and undisturbed, what the
\* line means.
LEMMA WireArgsRight ==
    ASSUME NEW l, WireIsLine(l), l # <<>>
    PROVE  <<l[1]>> \o WireArgs(l[1], WireLeft(l)) = WireMeaning(l)
  <1> DEFINE word(k) == IF k <= Len(l) THEN <<l[k]>> ELSE WireNone
  <1>1. l \in Seq(WireSymbols) /\ Len(l) \in Nat /\ Len(l) >= 1
    BY EmptySeq DEF WireIsLine
  <1>0. (Len(l) = 1 /\ Len(l) <= 1) \/ (Len(l) > 1 /\ ~(Len(l) <= 1))
    BY <1>1
  <1>2. \/ WireLeft(l) = <<>> /\ Len(l) = 1
        \/ WireLeft(l) = Append(Tail(l), NL) /\ Len(l) > 1
    <2>1. CASE Len(l) = 1 /\ Len(l) <= 1
      BY <2>1, Zenon DEF WireLeft
    <2>2. CASE Len(l) > 1 /\ ~(Len(l) <= 1)
      BY <2>2, Zenon DEF WireLeft
    <2> QED
      BY <1>0, <2>1, <2>2
  <1>t. PICK t : t = Tail(l)
    OBVIOUS
  <1>u. /\ WireIsLine(t) /\ Len(t) = Len(l) - 1 /\ Len(t) \in Nat
        /\ (\A i \in 1 .. Len(t) : t[i] = l[i + 1]) /\ (t = <<>> <=> Len(t) = 0)
    BY <1>1, <1>t, WireTailLine, WireChunk
  <1>3. WireSkip(<<>>) = <<>>
    BY WireSkipNothing
  <1>4. WireWord(<<>>) = WireNone /\ WireAfterWord(<<>>) = <<>> /\ WireText(<<>>) = WireNone
    BY <1>3 DEF WireWord, WireAfterWord, WireText
  <1>5. WireWord(WireLeft(l)) = word(2)
    <2>1. CASE WireLeft(l) = <<>> /\ Len(l) = 1
      BY <1>4, <2>1
    <2>2. CASE WireLeft(l) = Append(t, NL) /\ Len(l) > 1
      <3>1. 1 \in 1 .. Len(t) /\ t # <<>> /\ t[1] = l[2] /\ 2 <= Len(l)
        BY <1>1, <1>u, <2>2
      <3> QED
        BY <1>u, <2>2, <3>1, WireFirstWord
    <2> QED
      BY <1>2, <1>t, <2>1, <2>2
  <1>6. WireWord(WireAfterWord(WireLeft(l))) = word(3)
    <2>1. CASE WireLeft(l) = <<>> /\ Len(l) = 1
      BY <1>1, <1>4, <2>1
    <2>2. CASE WireLeft(l) = Append(t, NL) /\ Len(l) > 1
      <3>1. WireAfterWord(WireLeft(l)) = WireLeft(t)
        BY <1>u, <2>2, WireFirstWord
      <3>2. CASE Len(l) = 2
        <4>1. WireLeft(t) = <<>> /\ ~(3 <= Len(l))
          BY <1>u, <3>2 DEF WireLeft
        <4> QED
          BY <1>4, <3>1, <4>1
      <3>3. CASE Len(l) > 2
        <4>1. PICK q : q = Tail(t)
          OBVIOUS
        <4>2. Len(t) > 1 /\ t # <<>>
          BY <1>1, <1>u, <3>3
        <4>3. /\ WireIsLine(q) /\ Len(q) = Len(t) - 1 /\ (\A i \in 1 .. Len(q) : q[i] = t[i + 1])
              /\ (q = <<>> <=> Len(q) = 0)
          BY <1>u, <4>1, <4>2, WireTailLine, WireChunk
        <4>4. WireLeft(t) = Append(q, NL)
          BY <1>u, <4>1, <4>2 DEF WireLeft
        <4>5. 1 \in 1 .. Len(q) /\ q # <<>> /\ 1 + 1 \in 1 .. Len(t) /\ 3 <= Len(l)
          BY <1>1, <1>u, <3>3, <4>2, <4>3
        <4>6. q[1] = t[1 + 1] /\ t[1 + 1] = l[(1 + 1) + 1]
          BY <1>u, <4>3, <4>5
        <4>7. q[1] = l[3]
          BY <4>6
        <4>8. WireWord(Append(q, NL)) = <<q[1]>>
          BY <4>3, <4>5, WireFirstWord
        <4> QED
          BY <3>1, <4>4, <4>5, <4>7, <4>8
      <3>4. Len(l) = 2 \/ Len(l) > 2
        <4>1. Len(l) \in Nat /\ Len(l) > 1
          BY <1>1, <2>2
        <4> QED
          BY ONLY <4>1
      <3> QED
        BY <3>2, <3>3, <3>4
    <2> QED
      BY <1>2, <1>t, <2>1, <2>2
  <1>7. WireText(WireLeft(l)) = IF Len(l) = 1 THEN WireNone ELSE Tail(l)
    BY WireRestOfLine
  <1>8. word(1) = <<l[1]>>
    BY <1>1
  <1>9. CASE l[1] = "login"
    <2>1. WireArgs(l[1], WireLeft(l)) = word(2) \o word(3)
      BY <1>5, <1>6, <1>9 DEF WireArgs
    <2>2. WireMeaning(l) = word(1) \o word(2) \o word(3)
      BY <1>9 DEF WireMeaning
    <2>3. \A a, b \in Seq(WireSymbols) : (<<l[1]>> \o a) \o b = <<l[1]>> \o (a \o b)
      BY <1>1, ConcatAssociative
    <2>4. word(2) \in Seq(WireSymbols) /\ word(3) \in Seq(WireSymbols)
      <3>1. \A x \in WireSymbols : <<x>> \in Seq(WireSymbols)
        OBVIOUS
      <3>2. WireNone \in Seq(WireSymbols)
        BY <3>1 DEF WireNone, WireSymbols
      <3>3. \A k \in 1 .. Len(l) : l[k] \in WireSymbols
        BY <1>1, ElementOfSeq
      <3>4. \A k \in {2, 3} : k <= Len(l) => k \in 1 .. Len(l)
        BY <1>1
      <3> QED
        BY <3>1, <3>2, <3>3, <3>4
    <2> HIDE DEF word
    <2> QED
      BY <1>8, <2>1, <2>2, <2>3, <2>4
  <1>10. CASE l[1] = "logout"
    <2>1. WireArgs(l[1], WireLeft(l)) = word(2)
      BY <1>5, <1>10 DEF WireArgs
    <2>2. WireMeaning(l) = word(1) \o word(2)
      BY <1>10 DEF WireMeaning
    <2> QED
      BY <1>8, <2>1, <2>2
  <1>11. CASE l[1] # "login" /\ l[1] # "logout"
    <2>1. WireArgs(l[1], WireLeft(l)) = IF Len(l) = 1 THEN WireNone ELSE Tail(l)
      BY <1>7, <1>11 DEF WireArgs
    <2>2. WireMeaning(l) = IF Len(l) = 1 THEN l \o WireNone ELSE l
      BY <1>11 DEF WireMeaning
    <2>3. CASE Len(l) = 1
      <3>1. l = <<l[1]>>
        BY <1>1, <2>3
      <3> QED
        BY <2>1, <2>2, <2>3, <3>1
    <2>4. CASE Len(l) # 1
      <3>1. <<l[1]>> \o Tail(l) = l
        BY <1>1, ConcatProperties
      <3> QED
        BY <2>1, <2>2, <2>4, <3>1
    <2> QED
      BY <2>3, <2>4
  <1> QED
    BY <1>9, <1>10, <1>11

\* The commands a thread has carried out are the lines its client sent.
WireCarriedOut(c) ==
    \A i \in DOMAIN wireLog[c] : wireLog[c][i] = WireMeaning(wireSent[c][i])

\* A thread no one has disturbed, between two lines or in a command: then it
\* is the only one in a command, and what it and strtok() hold is its line.
WireUndisturbed(c) ==
    \/ wireTok[c] = <<>> /\ Len(wireLog[c]) <= Len(wireSent[c])
    \/ /\ Len(wireLog[c]) < Len(wireSent[c])
       /\ \A d \in WireClients : wireTok[d] # <<>> => d = c
       /\ LET l == wireSent[c][Len(wireLog[c]) + 1]
          IN  /\ wireTok[c] = IF l = <<>> THEN WireNone ELSE <<l[1]>>
              /\ wireRest = WireLeft(l)

WireTypes ==
    /\ wireSent \in [WireClients -> Seq(WireLines)]
    /\ wireClean \subseteq WireClients
    /\ wireDead \in BOOLEAN
    /\ DOMAIN wireTok = WireClients
    /\ DOMAIN wireLog = WireClients
    /\ \A c \in WireClients : \E S : wireLog[c] \in Seq(S)

WireInv ==
    /\ WireTypes
    /\ \A c \in wireClean : WireCarriedOut(c)
    /\ ~wireDead => \A c \in wireClean : WireUndisturbed(c)
    /\ WireDeathExplained

\* A log grows by one entry.
LEMMA WireLogAppend ==
    ASSUME NEW s, \E S : s \in Seq(S), NEW e
    PROVE  /\ \E S : Append(s, e) \in Seq(S)
           /\ Len(s) \in Nat /\ DOMAIN s = 1 .. Len(s)
           /\ Len(Append(s, e)) = Len(s) + 1
           /\ DOMAIN Append(s, e) = 1 .. Len(s) + 1
           /\ \A i \in 1 .. Len(s) : Append(s, e)[i] = s[i]
           /\ Append(s, e)[Len(s) + 1] = e
  <1>1. PICK S : s \in Seq(S)
    OBVIOUS
  <1> DEFINE T == S \cup {e}
  <1>2. s \in Seq(T) /\ e \in T
    BY <1>1, SeqMonotonic
  <1> HIDE DEF T
  <1>3. /\ Append(s, e) \in Seq(T) /\ Len(Append(s, e)) = Len(s) + 1
        /\ \A i \in 1 .. Len(s) : Append(s, e)[i] = s[i]
        /\ Append(s, e)[Len(s) + 1] = e
    BY <1>2, AppendProperties
  <1>4. Len(s) \in Nat /\ DOMAIN s = 1 .. Len(s) /\ DOMAIN Append(s, e) = 1 .. Len(Append(s, e))
    BY <1>2, <1>3, LenProperties
  <1> QED
    BY <1>3, <1>4

\* A thread that holds a line is in a command.
LEMMA WireInCommand ==
    ASSUME NEW c, WireUndisturbed(c), wireTok[c] # <<>>
    PROVE  /\ Len(wireLog[c]) < Len(wireSent[c])
           /\ \A d \in WireClients : wireTok[d] # <<>> => d = c
           /\ LET l == wireSent[c][Len(wireLog[c]) + 1]
              IN  /\ wireTok[c] = IF l = <<>> THEN WireNone ELSE <<l[1]>>
                  /\ wireRest = WireLeft(l)
  BY DEF WireUndisturbed

\* The number of commands carried out, and of lines sent.
LEMMA WireLens ==
    ASSUME WireTypes, NEW c \in WireClients
    PROVE  /\ wireSent[c] \in Seq(WireLines) /\ Len(wireSent[c]) \in Nat
           /\ Len(wireLog[c]) \in Nat /\ DOMAIN wireLog[c] = 1 .. Len(wireLog[c])
           /\ DOMAIN wireSent[c] = 1 .. Len(wireSent[c])
           /\ WireUndisturbed(c) => Len(wireLog[c]) <= Len(wireSent[c])
  <1>1. wireSent[c] \in Seq(WireLines)
    BY DEF WireTypes
  <1>2. \E S : wireLog[c] \in Seq(S)
    BY DEF WireTypes
  <1>3. Len(wireLog[c]) \in Nat /\ DOMAIN wireLog[c] = 1 .. Len(wireLog[c])
    BY <1>2, LenProperties
  <1>4. Len(wireSent[c]) \in Nat /\ DOMAIN wireSent[c] = 1 .. Len(wireSent[c])
    BY <1>1, LenProperties
  <1>5. WireUndisturbed(c) => Len(wireLog[c]) <= Len(wireSent[c])
    BY <1>3, <1>4 DEF WireUndisturbed
  <1> QED
    BY <1>1, <1>3, <1>4, <1>5

LEMMA WireSendStep ==
    ASSUME WireInv, NEW c \in WireClients, WireSend(c)
    PROVE  WireInv'
  <1> USE DEF WireInv
  <1>1. PICK l \in WireLines : wireSent' = [wireSent EXCEPT ![c] = Append(@, l)]
    BY DEF WireSend
  <1>2. /\ ~wireDead /\ ~wireDead' /\ UNCHANGED <<wireTok, wireRest, wireLog, wireClean>>
    BY DEF WireSend
  <1>3. wireSent[c] \in Seq(WireLines) /\ Len(wireSent[c]) \in Nat
    BY WireLens
  <1>4. /\ Append(wireSent[c], l) \in Seq(WireLines)
        /\ Len(Append(wireSent[c], l)) = Len(wireSent[c]) + 1
        /\ \A i \in 1 .. Len(wireSent[c]) : Append(wireSent[c], l)[i] = wireSent[c][i]
    BY <1>3, AppendProperties
  <1>5. WireTypes'
    <2>1. wireSent' \in [WireClients -> Seq(WireLines)]
      BY <1>1, <1>4 DEF WireTypes
    <2>2. \A d \in WireClients : \E S : wireLog'[d] \in Seq(S)
      <3>1. \A d \in WireClients : \E S : wireLog[d] \in Seq(S)
        BY DEF WireTypes
      <3>2. wireLog' = wireLog
        BY <1>2
      <3> QED
        BY <3>1, <3>2, Zenon
    <2>3. /\ wireClean' \subseteq WireClients /\ wireDead' \in BOOLEAN
          /\ DOMAIN wireTok' = WireClients /\ DOMAIN wireLog' = WireClients
      <3>1. wireDead' = wireDead
        BY DEF WireSend
      <3> QED
        BY <1>2, <3>1 DEF WireTypes
    <2> QED
      BY <2>1, <2>2, <2>3, Zenon DEF WireTypes
  <1>6. /\ wireSent'[c] = Append(wireSent[c], l)
        /\ \A d \in WireClients : d # c => wireSent'[d] = wireSent[d]
    BY <1>1 DEF WireTypes
  <1>7. \A d \in WireClients : /\ Len(wireSent'[d]) >= Len(wireSent[d])
                               /\ \A i \in 1 .. Len(wireSent[d]) : wireSent'[d][i] = wireSent[d][i]
    <2> SUFFICES ASSUME NEW d \in WireClients
                 PROVE  /\ Len(wireSent'[d]) >= Len(wireSent[d])
                        /\ \A i \in 1 .. Len(wireSent[d]) : wireSent'[d][i] = wireSent[d][i]
      OBVIOUS
    <2>1. CASE d = c
      BY <1>3, <1>4, <1>6, <2>1
    <2>2. CASE d # c
      BY <1>6, <2>2, WireLens
    <2> QED
      BY <2>1, <2>2
  <1>8. ASSUME NEW d \in wireClean
        PROVE  WireCarriedOut(d)' /\ WireUndisturbed(d)'
    <2>1. d \in WireClients /\ WireUndisturbed(d) /\ WireCarriedOut(d)
      BY <1>2 DEF WireTypes
    <2>2. /\ Len(wireLog[d]) \in Nat /\ Len(wireSent[d]) \in Nat /\ Len(wireSent'[d]) \in Nat
          /\ DOMAIN wireLog[d] = 1 .. Len(wireLog[d]) /\ Len(wireLog[d]) <= Len(wireSent[d])
      <3>1. Len(wireSent'[d]) \in Nat
        BY <1>3, <1>4, <1>6, <2>1, WireLens
      <3> QED
        BY <2>1, <3>1, WireLens
    <2>3. \A i \in 1 .. Len(wireLog[d]) : i \in 1 .. Len(wireSent[d])
      BY <2>2
    <2>4. WireCarriedOut(d)'
      BY <1>2, <1>7, <2>1, <2>2, <2>3 DEF WireCarriedOut
    <2>5. WireUndisturbed(d)'
      <3>1. CASE wireTok[d] = <<>>
        BY <1>2, <1>7, <2>1, <2>2, <3>1 DEF WireUndisturbed
      <3>2. CASE wireTok[d] # <<>>
        <4>1. /\ Len(wireLog[d]) < Len(wireSent[d])
              /\ \A e \in WireClients : wireTok[e] # <<>> => e = d
              /\ LET m == wireSent[d][Len(wireLog[d]) + 1]
                 IN  /\ wireTok[d] = IF m = <<>> THEN WireNone ELSE <<m[1]>>
                     /\ wireRest = WireLeft(m)
          BY <2>1, <3>2, WireInCommand
        <4>2. Len(wireLog[d]) + 1 \in 1 .. Len(wireSent[d]) /\ Len(wireLog[d]) < Len(wireSent'[d])
          BY <1>7, <2>1, <2>2, <4>1
        <4>3. wireSent'[d][Len(wireLog[d]) + 1] = wireSent[d][Len(wireLog[d]) + 1]
          BY <1>7, <2>1, <4>2
        <4> QED
          BY <1>2, <4>1, <4>2, <4>3 DEF WireUndisturbed
      <3> QED
        BY <3>1, <3>2
    <2> QED
      BY <2>4, <2>5
  <1>9. WireDeathExplained'
    BY <1>2 DEF WireDeathExplained
  <1> QED
    BY <1>2, <1>5, <1>8, <1>9

LEMMA WireRecvStep ==
    ASSUME WireInv, NEW c \in WireClients, WireRecv(c)
    PROVE  WireInv'
  <1> USE DEF WireInv
  <1> DEFINE busy == {d \in WireClients : wireTok[d] # <<>>}
             done == Len(wireLog[c])
  <1>1. PICK chunk :
            /\ wireTok' = [wireTok EXCEPT ![c] = WireWord(chunk)]
            /\ wireRest' = WireAfterWord(chunk)
            /\ wireClean' = (wireClean \ (IF /\ c \in wireClean
                                             /\ done < Len(wireSent[c])
                                             /\ chunk = Append(wireSent[c][done + 1], NL)
                                          THEN {} ELSE {c}))
                            \ (IF busy = {} THEN {} ELSE busy \cup {c})
    BY DEF WireRecv
  <1>2. ~wireDead /\ wireTok[c] = <<>> /\ UNCHANGED <<wireSent, wireLog, wireDead>>
    BY DEF WireRecv
  <1>3. WireTypes'
    BY <1>1, <1>2 DEF WireTypes
  <1>4. /\ wireClean' \subseteq wireClean
        /\ \A d \in wireClean' : d \in busy => FALSE
        /\ c \in wireClean' => /\ busy = {} /\ c \in wireClean /\ done < Len(wireSent[c])
                               /\ chunk = Append(wireSent[c][done + 1], NL)
    BY <1>1
  <1>5. \A d \in WireClients : d # c => wireTok'[d] = wireTok[d]
    BY <1>1
  <1>6. ASSUME NEW d \in wireClean'
        PROVE  WireCarriedOut(d)' /\ WireUndisturbed(d)'
    <2>1. d \in WireClients /\ WireUndisturbed(d) /\ WireCarriedOut(d) /\ wireTok[d] = <<>>
      BY <1>2, <1>4 DEF WireTypes
    <2>2. WireCarriedOut(d)'
      BY <1>2, <2>1 DEF WireCarriedOut
    <2>3. CASE d # c
      <3>1. wireTok'[d] = <<>>
        BY <1>5, <2>1, <2>3
      <3>2. Len(wireLog[d]) <= Len(wireSent[d])
        BY <2>1, WireLens
      <3> QED
        BY <1>2, <2>2, <3>1, <3>2 DEF WireUndisturbed
    <2>4. CASE d = c
      <3>1. PICK l : l = wireSent[c][done + 1]
        OBVIOUS
      <3>2. busy = {} /\ done < Len(wireSent[c]) /\ chunk = Append(l, NL)
        BY <1>4, <2>4, <3>1
      <3>3. WireIsLine(l)
        <4>1. done + 1 \in 1 .. Len(wireSent[c])
          BY <3>2, WireLens
        <4>2. l \in WireLines
          BY <3>1, <4>1, WireLens, ElementOfSeq
        <4> QED
          BY <4>2, WireLineFacts
      <3>4. /\ wireTok'[c] = IF l = <<>> THEN WireNone ELSE <<l[1]>>
            /\ wireRest' = WireLeft(l)
        BY <1>1, <3>2, <3>3, WireFirstWord DEF WireTypes
      <3>5. \A e \in WireClients : wireTok'[e] # <<>> => e = c
        BY <1>5, <3>2
      <3> QED
        BY <1>2, <2>2, <2>4, <3>1, <3>2, <3>4, <3>5 DEF WireUndisturbed
    <2> QED
      BY <2>3, <2>4
  <1>7. WireDeathExplained'
    BY <1>2 DEF WireDeathExplained
  <1> QED
    BY <1>2, <1>3, <1>6, <1>7

LEMMA WireHandleStep ==
    ASSUME WireInv, NEW c \in WireClients, WireHandle(c)
    PROVE  WireInv'
  <1> USE DEF WireInv
  <1> DEFINE tok == wireTok[c][1]
             args == WireArgs(tok, wireRest)
  <1>1. PICK entry : entry = IF wireTok[c] = WireNone THEN WireNone ELSE <<tok>> \o args
    OBVIOUS
  <1>2. /\ ~wireDead /\ wireTok[c] # <<>>
        /\ wireDead' = (tok = "/pin" /\ args = WireNone)
        /\ wireLog' = [wireLog EXCEPT ![c] = Append(@, entry)]
        /\ wireTok' = [wireTok EXCEPT ![c] = <<>>]
        /\ UNCHANGED <<wireSent, wireClean>>
    BY <1>1 DEF WireHandle
  <1>3. \E S : wireLog[c] \in Seq(S)
    BY DEF WireTypes
  <1>4. /\ wireLog'[c] = Append(wireLog[c], entry)
        /\ \A d \in WireClients : d # c => wireLog'[d] = wireLog[d] /\ wireTok'[d] = wireTok[d]
        /\ wireTok'[c] = <<>>
    BY <1>2 DEF WireTypes
  <1> DEFINE done == Len(wireLog[c])
  <1>5. /\ \E S : wireLog'[c] \in Seq(S)
        /\ done \in Nat /\ Len(wireLog'[c]) = done + 1
        /\ DOMAIN wireLog[c] = 1 .. done /\ DOMAIN wireLog'[c] = 1 .. done + 1
        /\ \A i \in 1 .. done : wireLog'[c][i] = wireLog[c][i]
        /\ wireLog'[c][done + 1] = entry
    <2>1. PICK s : s = wireLog[c]
      OBVIOUS
    <2>2. \E S : s \in Seq(S)
      BY <1>3, <2>1
    <2>3. /\ \E S : Append(s, entry) \in Seq(S)
          /\ Len(s) \in Nat /\ DOMAIN s = 1 .. Len(s)
          /\ Len(Append(s, entry)) = Len(s) + 1
          /\ DOMAIN Append(s, entry) = 1 .. Len(s) + 1
          /\ \A i \in 1 .. Len(s) : Append(s, entry)[i] = s[i]
          /\ Append(s, entry)[Len(s) + 1] = entry
      BY ONLY <2>2, WireLogAppend
    <2>4. wireLog'[c] = Append(s, entry) /\ done = Len(s)
      BY <1>4, <2>1
    <2> QED
      BY ONLY <2>1, <2>3, <2>4, Zenon
  <1>6. WireTypes'
    <2>1. wireDead' \in BOOLEAN
      BY <1>2
    <2>2. \A d \in WireClients : \E S : wireLog'[d] \in Seq(S)
      BY <1>4, <1>5 DEF WireTypes
    <2> QED
      BY <1>2, <2>1, <2>2 DEF WireTypes
  <1>7. ASSUME NEW d \in wireClean, d # c
        PROVE  WireCarriedOut(d)' /\ WireUndisturbed(d)'
    <2>1. d \in WireClients /\ WireUndisturbed(d) /\ WireCarriedOut(d)
      BY <1>2 DEF WireTypes
    <2>2. wireTok[d] = <<>>
      BY <1>2, <1>7, <2>1, WireInCommand
    <2>3. Len(wireLog[d]) <= Len(wireSent[d])
      BY <2>1, WireLens
    <2> QED
      BY <1>2, <1>4, <1>7, <2>1, <2>2, <2>3 DEF WireCarriedOut, WireUndisturbed
  <1>8. ASSUME c \in wireClean
        PROVE  /\ WireCarriedOut(c)' /\ WireUndisturbed(c)'
               /\ wireDead' => \E i \in DOMAIN wireSent[c] : wireSent[c][i] = <<"/pin">>
    <2>1. PICK l : l = wireSent[c][done + 1]
      OBVIOUS
    <2>2. /\ WireCarriedOut(c) /\ done < Len(wireSent[c])
          /\ wireTok[c] = IF l = <<>> THEN WireNone ELSE <<l[1]>>
          /\ wireRest = WireLeft(l)
      BY <1>2, <1>8, <2>1, WireInCommand
    <2>3. /\ done + 1 \in 1 .. Len(wireSent[c]) /\ Len(wireSent[c]) \in Nat
          /\ DOMAIN wireSent[c] = 1 .. Len(wireSent[c])
      BY <1>5, <2>2, WireLens
    <2>4. WireIsLine(l)
      <3>1. l \in WireLines
        BY <2>1, <2>3, WireLens, ElementOfSeq
      <3> QED
        BY <3>1, WireLineFacts
    <2>6. l # <<>> => entry = WireMeaning(l) /\ (wireDead' => l = <<"/pin">>)
      <3> SUFFICES ASSUME l # <<>>
                   PROVE  entry = WireMeaning(l) /\ (wireDead' => l = <<"/pin">>)
        OBVIOUS
      <3>1. l[1] # "none" /\ Len(l) >= 1 /\ Len(l) \in Nat
        <4>1. Len(l) >= 1 /\ Len(l) \in Nat
          BY <2>4, WireTailLine, WireChunk
        <4>2. 1 \in 1 .. Len(l)
          BY <4>1
        <4> QED
          BY <2>4, <4>1, <4>2 DEF WireIsLine
      <3>2. wireTok[c] # WireNone /\ tok = l[1]
        BY <2>2, <3>1 DEF WireNone
      <3>3. entry = WireMeaning(l)
        BY <1>1, <2>2, <2>4, <3>2, WireArgsRight
      <3>4. ASSUME wireDead'
            PROVE  l = <<"/pin">>
        <4>1. l[1] = "/pin" /\ WireArgs(l[1], WireLeft(l)) = WireNone
          BY <1>2, <2>2, <3>2, <3>4
        <4>2. WireArgs(l[1], WireLeft(l)) = WireText(WireLeft(l))
          BY <4>1 DEF WireArgs
        <4>3. (IF Len(l) = 1 THEN WireNone ELSE Tail(l)) = WireNone
          BY <2>4, <4>1, <4>2, WireRestOfLine
        <4>4. Len(l) = 1
          <5> SUFFICES ASSUME Len(l) # 1 PROVE FALSE
            OBVIOUS
          <5>1. Tail(l) = <<"none">>
            BY <4>3 DEF WireNone
          <5>2. WireIsLine(Tail(l))
            BY <2>4, WireTailLine
          <5>3. Len(<<"none">>) = 1 /\ <<"none">>[1] = "none"
            OBVIOUS
          <5>4. 1 \in 1 .. Len(<<"none">>)
            BY <5>3
          <5> QED
            BY <5>1, <5>2, <5>3, <5>4 DEF WireIsLine
        <4> QED
          BY <2>4, <4>1, <4>4 DEF WireIsLine
      <3> QED
        BY <3>3, <3>4
    <2>7. entry = WireMeaning(l) /\ (wireDead' => l = <<"/pin">>)
      <3> HIDE DEF tok, args
      <3>1. CASE l = <<>>
        <4>1. entry = WireMeaning(l) /\ tok = "none"
          BY <1>1, <2>2, <3>1 DEF WireMeaning, WireNone, tok
        <4> QED
          BY <1>2, <4>1
      <3> QED
        BY <2>6, <3>1
    <2>8. WireCarriedOut(c)'
      <3>1. \A i \in 1 .. done + 1 : wireLog'[c][i] = WireMeaning(wireSent[c][i])
        <4> SUFFICES ASSUME NEW i \in 1 .. done + 1
                     PROVE  wireLog'[c][i] = WireMeaning(wireSent[c][i])
          OBVIOUS
        <4>1. CASE i = done + 1
          BY <1>5, <2>1, <2>7, <4>1
        <4>2. CASE i # done + 1
          <5>1. i \in 1 .. done
            BY <1>5, <4>2
          <5>2. wireLog[c][i] = WireMeaning(wireSent[c][i])
            BY <1>5, <2>2, <5>1 DEF WireCarriedOut
          <5> QED
            BY <1>5, <5>1, <5>2
        <4> QED
          BY <4>1, <4>2
      <3> QED
        BY <1>2, <1>5, <3>1 DEF WireCarriedOut
    <2>9. WireUndisturbed(c)'
      <3>1. Len(wireLog'[c]) <= Len(wireSent[c])
        BY <1>5, <2>2, <2>3
      <3> QED
        BY <1>2, <1>4, <3>1 DEF WireUndisturbed
    <2> QED
      BY <2>1, <2>3, <2>7, <2>8, <2>9
  <1>9. WireDeathExplained'
    BY <1>2, <1>8 DEF WireDeathExplained
  <1> QED
    BY <1>2, <1>6, <1>7, <1>8, <1>9

\* A client whose lines arrive whole while no other thread is in a command
\* has them carried out with their own arguments, and a process of such
\* clients dies of a /pin without text only: for any clients and lines.
THEOREM WireSafeCorrect == WireSpec => []WireSafe
  <1>1. WireInit => WireInv
    <2> SUFFICES ASSUME WireInit PROVE WireInv
      OBVIOUS
    <2>1. <<>> \in Seq(WireLines) /\ <<>> \in Seq({}) /\ Len(<<>>) = 0 /\ DOMAIN <<>> = {}
      BY EmptySeq
    <2>2. WireTypes
      BY <2>1 DEF WireInit, WireTypes
    <2>3. \A c \in WireClients : WireCarriedOut(c) /\ WireUndisturbed(c)
      BY <2>1 DEF WireInit, WireCarriedOut, WireUndisturbed
    <2> QED
      BY <2>2, <2>3 DEF WireInit, WireInv, WireDeathExplained
  <1>2. WireInv /\ [WireNext]_wireVars => WireInv'
    <2>1. WireInv /\ UNCHANGED wireVars => WireInv'
      BY DEF wireVars, WireInv, WireTypes, WireCarriedOut, WireUndisturbed, WireDeathExplained
    <2> QED
      BY <2>1, WireSendStep, WireRecvStep, WireHandleStep DEF WireNext
  <1>3. WireInv => WireSafe
    BY DEF WireInv, WireSafe, WireOneToOne, WireCarriedOut
  <1> QED
    BY <1>1, <1>2, <1>3, PTL DEF WireSpec

(***************************************************************************)
(* The content filter (ChatFilter), for any keywords and messages.  The    *)
(* invariant: what was copied since the last star is the part of the       *)
(* message just before i, and no keyword begins in it.                     *)
(***************************************************************************)

FltTypes ==
    /\ fltMessage \in Seq(FltSymbols)
    /\ fltI \in Nat \ {0}
    /\ fltOut \in Seq(FltSymbols \cup {FltStar})

\* A keyword in a message, symbol by symbol.
FltReads(s, kw, p) ==
    p + Len(kw) - 1 <= Len(s) /\ \A i \in 1 .. Len(kw) : s[p + i - 1] = kw[i]

\* What was copied since the last star is the message just before i, and no
\* keyword begins in it.
FltTail(out, msg, i, n, m) ==
    (\A j \in n - m + 1 .. n : out[j] # FltStar) =>
        /\ m < i /\ i <= Len(msg) + 1
        /\ \A j \in 1 .. m : out[n - m + j] = msg[i - m + j - 1]
        /\ \A k \in DOMAIN FltKeywords : ~FltReads(msg, FltKeywords[k], i - m)
FltCopied ==
    \A m \in 1 .. Len(fltOut) : FltTail(fltOut, fltMessage, fltI, Len(fltOut), m)

\* No keyword got through so far.
FltCleanSoFar ==
    \A k \in DOMAIN FltKeywords, p \in Nat \ {0} : ~FltReads(fltOut, FltKeywords[k], p)

FltInv == FltTypes /\ FltCopied /\ FltCleanSoFar

\* find() compares symbol by symbol.
LEMMA FltAtReads ==
    ASSUME NEW S, NEW s \in Seq(S), NEW kw \in Seq(S), NEW p \in Nat \ {0}
    PROVE  FltAt(s, kw, p) <=> FltReads(s, kw, p)
  <1>1. Len(s) \in Nat /\ Len(kw) \in Nat
    OBVIOUS
  <1>2. CASE p + Len(kw) - 1 <= Len(s)
    <2>1. PICK t : t = SubSeq(s, p, p + Len(kw) - 1)
      OBVIOUS
    <2>2. p + Len(kw) - 1 \in p - 1 .. Len(s) /\ p \in 1 .. Len(s) + 1
      BY <1>1, <1>2
    <2>3. /\ t \in Seq(S) /\ Len(t) = Len(kw)
          /\ \A i \in 1 .. Len(kw) : t[i] = s[p + i - 1]
      BY <1>1, <1>2, <2>1, SubSeqProperties
    <2>4. t = kw <=> \A i \in 1 .. Len(kw) : t[i] = kw[i]
      BY <2>3, SeqEqual
    <2> QED
      BY <1>2, <2>1, <2>3, <2>4 DEF FltAt, FltReads
  <1>3. CASE ~(p + Len(kw) - 1 <= Len(s))
    BY <1>3 DEF FltAt, FltReads
  <1> QED
    BY <1>2, <1>3

\* Where no keyword stops the loop, none begins.
LEMMA FltNoHit ==
    ASSUME FltTypes, fltI <= Len(fltMessage), NEW k \in DOMAIN FltKeywords, ~FltHit(k)
    PROVE  ~FltReads(fltMessage, FltKeywords[k], fltI)
  <1> DEFINE kw == FltKeywords[k]
             places == {p \in fltI .. Len(fltMessage) : FltAt(fltMessage, kw, p)}
  <1> SUFFICES ASSUME FltReads(fltMessage, kw, fltI) PROVE FALSE
    OBVIOUS
  <1>1. FltAt(fltMessage, kw, fltI)
    BY FltAtReads, FltKeywordsAssumption DEF FltTypes
  <1>2. fltI \in places /\ places \subseteq Int /\ \A q \in places : fltI <= q
    BY <1>1 DEF FltTypes
  <1>3. FltFind(kw) = fltI
    <2>1. FltFind(kw) = CHOOSE p \in places : \A q \in places : p <= q
      BY <1>2 DEF FltFind
    <2> HIDE DEF places
    <2>2. FltFind(kw) \in places /\ \A q \in places : FltFind(kw) <= q
      BY <1>2, <2>1
    <2>3. PICK f : f = FltFind(kw)
      OBVIOUS
    <2>4. f \in Int /\ fltI \in Int /\ f <= fltI /\ fltI <= f
      BY <1>2, <2>2, <2>3
    <2>5. f = fltI
      BY <2>4
    <2> QED
      BY <2>3, <2>5
  <1> QED
    BY <1>3 DEF FltHit, FltTypes

\* Every set of numbers that is not empty has a least one.
LEMMA LeastElement ==
    ASSUME NEW S, S \subseteq Nat, S # {}
    PROVE  \E x \in S : \A y \in S : x <= y
  <1> DEFINE less == OpToRel(<, Nat)
  <1>1. IsWellFoundedOn(less, Nat)
    BY NatLessThanWellFounded
  <1> HIDE DEF less
  <1>2. PICK x \in S : \A y \in S : ~(<<y, x>> \in less)
    BY <1>1, WFMin
  <1> USE DEF less
  <1>3. \A y \in S : ~(y < x)
    BY <1>2 DEF OpToRel
  <1> QED
    BY <1>3

\* A place of find() is in the message.
LEMMA FltFound ==
    ASSUME FltTypes, NEW kw \in Seq(FltSymbols) \ {<<>>}, FltFind(kw) # 0
    PROVE  FltFind(kw) \in fltI .. Len(fltMessage)
  <1> DEFINE places == {p \in fltI .. Len(fltMessage) : FltAt(fltMessage, kw, p)}
  <1>1. places # {} /\ FltFind(kw) = CHOOSE p \in places : \A q \in places : p <= q
    BY DEF FltFind
  <1>2. \E p \in places : \A q \in places : p <= q
    <2>1. places \subseteq Nat
      BY DEF FltTypes
    <2> QED
      BY <1>1, <2>1, LeastElement
  <1>3. FltFind(kw) \in places
    BY <1>1, <1>2
  <1> QED
    BY <1>3


\* A symbol is copied.
LEMMA FltCopyStep ==
    ASSUME FltInv, fltI <= Len(fltMessage),
           \A k \in DOMAIN FltKeywords : ~FltHit(k),
           fltOut' = Append(fltOut, fltMessage[fltI]), fltI' = fltI + 1, UNCHANGED fltMessage
    PROVE  FltInv'
  <1> USE DEF FltInv
  <1>1. PICK x, n : x = fltMessage[fltI] /\ n = Len(fltOut)
    OBVIOUS
  <1>2. /\ x \in FltSymbols /\ x # FltStar /\ n \in Nat
        /\ Len(fltMessage) \in Nat /\ fltI \in Nat
    BY <1>1, ElementOfSeq, FltKeywordsAssumption DEF FltTypes
  <1>3. PICK o : o = Append(fltOut, x)
    OBVIOUS
  <1>4. /\ o \in Seq(FltSymbols \cup {FltStar}) /\ Len(o) = n + 1 /\ o[n + 1] = x
        /\ \A i \in 1 .. n : o[i] = fltOut[i]
    BY <1>1, <1>2, <1>3, AppendProperties DEF FltTypes
  <1>5. fltOut' = o
    BY <1>1, <1>3
  <1>6. FltTypes'
    BY <1>4, <1>5 DEF FltTypes
  <1>7. \A k \in DOMAIN FltKeywords : ~FltReads(fltMessage, FltKeywords[k], fltI)
    BY FltNoHit
  <1>8. ASSUME NEW m \in 1 .. n + 1, \A j \in (n + 1) - m + 1 .. n + 1 : o[j] # FltStar
        PROVE  /\ m < fltI + 1 /\ fltI + 1 <= Len(fltMessage) + 1
               /\ \A j \in 1 .. m : o[(n + 1) - m + j] = fltMessage[(fltI + 1) - m + j - 1]
               /\ \A k \in DOMAIN FltKeywords : ~FltReads(fltMessage, FltKeywords[k], (fltI + 1) - m)
    <2>1. CASE m = 1
      <3>1. /\ \A j \in 1 .. m : o[(n + 1) - m + j] = fltMessage[(fltI + 1) - m + j - 1]
            /\ fltI + 1 - m = fltI /\ m < fltI + 1
        BY <1>1, <1>2, <1>4, <2>1 DEF FltTypes
      <3> QED
        BY <1>2, <1>7, <3>1
    <2>2. CASE m # 1
      <3>1. PICK h : h = m - 1
        OBVIOUS
      <3>2. h \in 1 .. n /\ m = h + 1
        BY <1>2, <2>2, <3>1
      <3>3. \A j \in n - h + 1 .. n : fltOut[j] # FltStar
        <4> SUFFICES ASSUME NEW j \in n - h + 1 .. n PROVE fltOut[j] # FltStar
          OBVIOUS
        <4>1. j \in (n + 1) - m + 1 .. n + 1 /\ j \in 1 .. n
          BY <1>2, <3>2
        <4> QED
          BY <1>4, <1>8, <4>1
      <3>4. /\ h < fltI
            /\ \A j \in 1 .. h : fltOut[n - h + j] = fltMessage[fltI - h + j - 1]
            /\ \A k \in DOMAIN FltKeywords : ~FltReads(fltMessage, FltKeywords[k], fltI - h)
        BY <1>1, <3>2, <3>3 DEF FltCopied, FltTail
      <3>5. (fltI + 1) - m = fltI - h /\ (n + 1) - m = n - h /\ m < fltI + 1
        <4>1. h < fltI /\ h \in Nat /\ m = h + 1
          BY <1>2, <3>2, <3>4
        <4> QED
          BY ONLY <1>2, <4>1
      <3>6. ASSUME NEW j \in 1 .. m
            PROVE  o[n - h + j] = fltMessage[fltI - h + j - 1]
        <4>1. CASE j = m
          <5>1. n - h + j = n + 1 /\ fltI - h + j - 1 = fltI
            BY <1>2, <3>2, <4>1
          <5> QED
            BY <1>1, <1>4, <5>1
        <4>2. CASE j # m
          <5>1. j \in 1 .. h /\ n - h + j \in 1 .. n
            BY <1>2, <3>2, <4>2
          <5> QED
            BY <1>4, <3>4, <5>1
        <4> QED
          BY <4>1, <4>2
      <3>7. \A k \in DOMAIN FltKeywords : ~FltReads(fltMessage, FltKeywords[k], (fltI + 1) - m)
        BY ONLY <3>4, <3>5, Zenon
      <3>8. \A j \in 1 .. m : o[(n + 1) - m + j] = fltMessage[(fltI + 1) - m + j - 1]
        BY ONLY <3>5, <3>6, Zenon
      <3>9. fltI + 1 <= Len(fltMessage) + 1
        BY <1>2
      <3> QED
        BY ONLY <3>5, <3>7, <3>8, <3>9, Zenon
    <2> QED
      BY <2>1, <2>2
  <1>9. FltCopied'
    <2>1. Len(fltOut') = n + 1 /\ fltOut' = o /\ fltI' = fltI + 1 /\ fltMessage' = fltMessage
      BY <1>4, <1>5
    <2>2. ASSUME NEW m \in 1 .. n + 1
          PROVE  FltTail(o, fltMessage, fltI + 1, n + 1, m)
      <3>1. CASE \A j \in (n + 1) - m + 1 .. n + 1 : o[j] # FltStar
        BY <1>2, <1>8, <3>1 DEF FltTail
      <3>2. CASE ~ \A j \in (n + 1) - m + 1 .. n + 1 : o[j] # FltStar
        BY <1>2, <3>2 DEF FltTail
      <3> QED
        BY <3>1, <3>2
    <2> QED
      BY ONLY <2>1, <2>2, Zenon DEF FltCopied
  <1>10. ASSUME NEW k \in DOMAIN FltKeywords, NEW p \in Nat \ {0}, FltReads(o, FltKeywords[k], p)
         PROVE  FALSE
    <2>1. PICK kw, l : kw = FltKeywords[k] /\ l = Len(kw)
      OBVIOUS
    <2>2. /\ kw \in Seq(FltSymbols) /\ l \in Nat /\ l # 0
          /\ \A i \in 1 .. l : kw[i] # FltStar
      BY <2>1, EmptySeq, FltKeywordsAssumption
    <2>3. p + l - 1 <= n + 1 /\ \A i \in 1 .. l : o[p + i - 1] = kw[i]
      BY <1>4, <1>10, <2>1 DEF FltReads
    <2>4. CASE p + l - 1 <= n
      <3>1. \A i \in 1 .. l : fltOut[p + i - 1] = kw[i]
        <4> SUFFICES ASSUME NEW i \in 1 .. l PROVE fltOut[p + i - 1] = kw[i]
          OBVIOUS
        <4>1. p + i - 1 \in 1 .. n
          BY <1>2, <2>2, <2>4
        <4> QED
          BY <1>4, <2>3, <4>1
      <3> QED
        BY <1>1, <2>1, <2>4, <3>1 DEF FltCleanSoFar, FltReads
    <2>5. CASE ~(p + l - 1 <= n)
      <3>1. p = (n + 1) - l + 1 /\ l \in 1 .. n + 1
        BY <1>2, <2>2, <2>3, <2>5
      <3>2. ASSUME NEW j \in (n + 1) - l + 1 .. n + 1
            PROVE  o[j] # FltStar
        <4>1. j - p + 1 \in 1 .. l /\ p + (j - p + 1) - 1 = j
          BY <1>2, <2>2, <3>1
        <4>2. o[j] = kw[j - p + 1]
          BY <2>3, <4>1
        <4> QED
          BY <2>2, <4>1, <4>2
      <3>3. /\ l < fltI + 1 /\ fltI + 1 <= Len(fltMessage) + 1
            /\ \A j \in 1 .. l : o[(n + 1) - l + j] = fltMessage[(fltI + 1) - l + j - 1]
            /\ ~FltReads(fltMessage, kw, (fltI + 1) - l)
        BY <1>8, <2>1, <3>1, <3>2
      <3>4. \A i \in 1 .. l : fltMessage[(fltI + 1) - l + i - 1] = kw[i]
        <4> SUFFICES ASSUME NEW i \in 1 .. l PROVE fltMessage[(fltI + 1) - l + i - 1] = kw[i]
          OBVIOUS
        <4>1. (n + 1) - l + i = p + i - 1
          BY <1>2, <2>2, <3>1
        <4> QED
          BY <2>3, <3>3, <4>1
      <3>5. (fltI + 1) - l + l - 1 <= Len(fltMessage)
        BY <1>2, <2>2, <3>3
      <3> QED
        BY <2>1, <3>3, <3>4, <3>5 DEF FltReads
    <2> QED
      BY <2>4, <2>5
  <1>11. FltCleanSoFar'
    BY <1>5, <1>10 DEF FltCleanSoFar
  <1> QED
    BY <1>6, <1>9, <1>11

\* Stars are written for a keyword.
LEMMA FltStarStep ==
    ASSUME FltInv, NEW h \in DOMAIN FltKeywords, FltHit(h),
           fltOut' = fltOut \o [i \in DOMAIN FltKeywords[h] |-> FltStar],
           fltI' = FltFind(FltKeywords[h]) + Len(FltKeywords[h]), UNCHANGED fltMessage
    PROVE  FltInv'
  <1> USE DEF FltInv
  <1>1. PICK x, n : x = Len(FltKeywords[h]) /\ n = Len(fltOut)
    OBVIOUS
  <1>2. FltKeywords[h] \in Seq(FltSymbols) \ {<<>>} /\ x \in Nat /\ x # 0
    BY <1>1, EmptySeq, FltKeywordsAssumption
  <1>3. n \in Nat /\ fltOut \in Seq(FltSymbols \cup {FltStar})
    BY <1>1 DEF FltTypes
  <1>4. PICK stars : stars = [i \in 1 .. x |-> FltStar]
    OBVIOUS
  <1>5. stars \in Seq(FltSymbols \cup {FltStar}) /\ Len(stars) = x /\ \A i \in 1 .. x : stars[i] = FltStar
    BY <1>2, <1>4
  <1>6. PICK o : o = fltOut \o stars
    OBVIOUS
  <1>7. /\ o \in Seq(FltSymbols \cup {FltStar}) /\ Len(o) = n + x
        /\ \A i \in 1 .. n : o[i] = fltOut[i]
        /\ \A i \in n + 1 .. n + x : o[i] = FltStar
    <2>1. /\ o \in Seq(FltSymbols \cup {FltStar}) /\ Len(o) = n + x
          /\ \A i \in 1 .. n + x : o[i] = IF i <= n THEN fltOut[i] ELSE stars[i - n]
      <3>1. PICK f : f = fltOut
        OBVIOUS
      <3>2. /\ f \o stars \in Seq(FltSymbols \cup {FltStar}) /\ Len(f \o stars) = Len(f) + Len(stars)
            /\ \A i \in 1 .. Len(f) + Len(stars) :
                  (f \o stars)[i] = IF i <= Len(f) THEN f[i] ELSE stars[i - Len(f)]
        BY <1>3, <1>5, <3>1, ConcatProperties
      <3> QED
        BY ONLY <1>1, <1>5, <1>6, <3>1, <3>2, Zenon
    <2>2. \A i \in 1 .. n : o[i] = fltOut[i]
      BY <1>2, <1>3, <2>1
    <2>3. ASSUME NEW i \in n + 1 .. n + x PROVE o[i] = FltStar
      <3>1. i \in 1 .. n + x /\ ~(i <= n) /\ i - n \in 1 .. x
        BY <1>2, <1>3
      <3> QED
        BY <1>5, <2>1, <3>1
    <2> QED
      BY <2>1, <2>2, <2>3
  <1>8. fltOut' = o
    <2>1. DOMAIN FltKeywords[h] = 1 .. x
      BY <1>1, <1>2
    <2> QED
      BY <1>4, <1>6, <2>1
  <1>9. fltI' \in Nat \ {0}
    <2>1. FltFind(FltKeywords[h]) # 0
      BY DEF FltHit
    <2>2. FltFind(FltKeywords[h]) \in fltI .. Len(fltMessage)
      BY <1>2, <2>1, FltFound
    <2> QED
      BY <1>1, <1>2, <2>2 DEF FltTypes
  <1>10. FltTypes'
    BY <1>7, <1>8, <1>9 DEF FltTypes
  <1>11. FltCopied'
    <2>1. Len(fltOut') = n + x /\ fltOut' = o
      BY <1>7, <1>8
    <2>2. ASSUME NEW m \in 1 .. n + x
          PROVE  FltTail(o, fltMessage', fltI', n + x, m)
      <3>1. n + x \in n + x - m + 1 .. n + x /\ n + x \in n + 1 .. n + x
        BY <1>2, <1>3
      <3> QED
        BY <1>7, <3>1 DEF FltTail
    <2> QED
      BY ONLY <2>1, <2>2, Zenon DEF FltCopied
  <1>12. ASSUME NEW k \in DOMAIN FltKeywords, NEW p \in Nat \ {0}, FltReads(o, FltKeywords[k], p)
         PROVE  FALSE
    <2>1. PICK kw, l : kw = FltKeywords[k] /\ l = Len(kw)
      OBVIOUS
    <2>2. /\ kw \in Seq(FltSymbols) /\ l \in Nat /\ l # 0
          /\ \A i \in 1 .. l : kw[i] # FltStar
      BY <2>1, EmptySeq, FltKeywordsAssumption
    <2>3. p + l - 1 <= n + x /\ \A i \in 1 .. l : o[p + i - 1] = kw[i]
      BY <1>7, <1>12, <2>1 DEF FltReads
    <2>4. p + l - 1 <= n
      <3> SUFFICES ASSUME ~(p + l - 1 <= n) PROVE FALSE
        OBVIOUS
      <3>1. p + l - 1 \in n + 1 .. n + x /\ l \in 1 .. l
        BY <1>2, <1>3, <2>2, <2>3
      <3>2. o[p + l - 1] = kw[l] /\ o[p + l - 1] = FltStar
        BY <1>7, <2>3, <3>1
      <3> QED
        BY <2>2, <3>1, <3>2
    <2>5. \A i \in 1 .. l : fltOut[p + i - 1] = kw[i]
      <3> SUFFICES ASSUME NEW i \in 1 .. l PROVE fltOut[p + i - 1] = kw[i]
        OBVIOUS
      <3>1. p + i - 1 \in 1 .. n
        BY <1>3, <2>2, <2>4
      <3> QED
        BY <1>7, <2>3, <3>1
    <2> QED
      BY <1>1, <2>1, <2>4, <2>5 DEF FltCleanSoFar, FltReads
  <1>13. FltCleanSoFar'
    BY <1>8, <1>12 DEF FltCleanSoFar
  <1> QED
    BY <1>10, <1>11, <1>13

\* Before the call: nothing is filtered yet.
FltIdle == fltPc \in {"idle", "filter", "done"} /\ (fltPc = "idle" => fltI = 1 /\ fltOut = <<>>)

LEMMA FltCallStep ==
    ASSUME FltInv, FltIdle, FltCall
    PROVE  FltInv' /\ FltIdle'
  <1>1. fltOut' = <<>> /\ fltI' = 1 /\ fltPc' = "filter"
    BY DEF FltIdle, FltCall
  <1>2. fltMessage' \in Seq(FltSymbols)
    <2>1. PICK n \in 1 .. FltMaxLen : fltMessage' \in [1 .. n -> FltSymbols]
      BY DEF FltCall
    <2> QED
      BY <2>1
  <1>3. FltTypes'
    BY <1>1, <1>2, EmptySeq DEF FltTypes
  <1>4. Len(<<>>) = 0
    OBVIOUS
  <1>5. FltCopied'
    BY <1>1, <1>4 DEF FltCopied
  <1>6. FltCleanSoFar'
    <2> SUFFICES ASSUME NEW k \in DOMAIN FltKeywords, NEW p \in Nat \ {0},
                        FltReads(<<>>, FltKeywords[k], p)
                 PROVE  FALSE
      BY <1>1 DEF FltCleanSoFar
    <2>1. Len(FltKeywords[k]) \in Nat /\ Len(FltKeywords[k]) # 0
      BY EmptySeq, FltKeywordsAssumption
    <2> QED
      BY <1>4, <2>1 DEF FltReads
  <1> QED
    BY <1>1, <1>3, <1>5, <1>6 DEF FltInv, FltIdle

LEMMA FltTurnStep ==
    ASSUME FltInv, FltIdle, FltTurn
    PROVE  FltInv' /\ FltIdle'
  <1> DEFINE hits == {k \in DOMAIN FltKeywords : FltHit(k)}
             h == CHOOSE j \in hits : \A l \in hits : j <= l
  <1>1. UNCHANGED fltMessage /\ fltPc = "filter" /\ fltPc' \in {"filter", "done"}
    BY DEF FltTurn
  <1>2. ASSUME fltPc' = "done" /\ UNCHANGED <<fltI, fltOut>>
        PROVE  FltInv'
    BY <1>1, <1>2 DEF FltInv, FltTypes, FltCopied, FltTail, FltCleanSoFar
  <1>3. ASSUME /\ hits # {}
               /\ fltOut' = fltOut \o [i \in DOMAIN FltKeywords[h] |-> FltStar]
               /\ fltI' = FltFind(FltKeywords[h]) + Len(FltKeywords[h])
        PROVE  FltInv'
    <2>1. hits \subseteq Nat
      BY FltKeywordsAssumption
    <2>2. \E j \in hits : \A l \in hits : j <= l
      BY <1>3, <2>1, LeastElement
    <2>3. h \in DOMAIN FltKeywords /\ FltHit(h)
      BY <2>2
    <2> QED
      BY <1>1, <1>3, <2>3, FltStarStep
  <1>4. ASSUME /\ fltI <= Len(fltMessage) /\ hits = {}
               /\ fltOut' = Append(fltOut, fltMessage[fltI]) /\ fltI' = fltI + 1
        PROVE  FltInv'
    BY <1>1, <1>4, FltCopyStep
  <1>5. FltInv'
    BY <1>2, <1>3, <1>4 DEF FltTurn
  <1> QED
    BY <1>1, <1>5 DEF FltIdle

\* No keyword gets through filter_message, whatever the keywords and the
\* message: FltClean for all of them.
THEOREM FltCleanCorrect == FltSpec => []FltClean
  <1>1. FltInit => FltInv /\ FltIdle
    <2> SUFFICES ASSUME FltInit PROVE FltInv /\ FltIdle
      OBVIOUS
    <2>1. Len(<<>>) = 0
      OBVIOUS
    <2>2. FltTypes
      BY EmptySeq DEF FltInit, FltTypes
    <2>3. FltCopied
      BY <2>1 DEF FltInit, FltCopied
    <2>4. FltCleanSoFar
      <3> SUFFICES ASSUME NEW k \in DOMAIN FltKeywords, NEW p \in Nat \ {0},
                          FltReads(<<>>, FltKeywords[k], p)
                   PROVE  FALSE
        BY DEF FltInit, FltCleanSoFar
      <3>1. Len(FltKeywords[k]) \in Nat /\ Len(FltKeywords[k]) # 0
        BY EmptySeq, FltKeywordsAssumption
      <3> QED
        BY <2>1, <3>1 DEF FltReads
    <2> QED
      BY <2>2, <2>3, <2>4 DEF FltInit, FltInv, FltIdle
  <1>2. FltInv /\ FltIdle /\ [FltNext]_fltVars => FltInv' /\ FltIdle'
    <2>1. FltInv /\ FltIdle /\ UNCHANGED fltVars => FltInv' /\ FltIdle'
      BY DEF fltVars, FltInv, FltIdle, FltTypes, FltCopied, FltTail, FltCleanSoFar
    <2> QED
      BY <2>1, FltCallStep, FltTurnStep DEF FltNext
  <1>3. FltInv => FltClean
    <2> SUFFICES ASSUME FltInv, NEW k \in DOMAIN FltKeywords, NEW p \in DOMAIN fltOut
                 PROVE  ~FltAt(fltOut, FltKeywords[k], p)
      BY DEF FltClean
    <2>1. /\ fltOut \in Seq(FltSymbols \cup {FltStar}) /\ p \in Nat \ {0}
          /\ FltKeywords[k] \in Seq(FltSymbols \cup {FltStar})
      <3>1. FltKeywords[k] \in Seq(FltSymbols)
        BY FltKeywordsAssumption
      <3>2. FltKeywords[k] \in Seq(FltSymbols \cup {FltStar})
        BY <3>1, SeqMonotonic
      <3> QED
        BY <3>2 DEF FltInv, FltTypes
    <2> QED
      BY <2>1, FltAtReads DEF FltInv, FltCleanSoFar
  <1> QED
    BY <1>1, <1>2, <1>3, PTL DEF FltSpec
=============================================================================
