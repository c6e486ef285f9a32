----------------------------- MODULE ChatServer -----------------------------
(***************************************************************************)
(* The chat server of hw2 (hw2_chat_server.cpp): one detached thread per   *)
(* accepted connection runs handle_client, which hands every line to       *)
(* handle_command; all state is in global maps keyed by descriptor, user   *)
(* name or room number.                                                    *)
(*                                                                         *)
(* The handlers hold no lock, so a command is cut where it tests the       *)
(* tables and where it then writes them: `midway' holds the threads in     *)
(* between, with what they found.  The tests of one command are one step,  *)
(* and so are its writes.  register tests and adds to one table, and is    *)
(* one step.  The mutex of the disconnect branch keeps out only the        *)
(* other disconnects.                                                      *)
(*                                                                         *)
(* The life of the descriptors is modelled thread by thread: "exit" closes *)
(* the socket inside the handler and lets its thread go on to recv, a      *)
(* disconnect closes it twice, and accept hands out the lowest free        *)
(* descriptor, so two threads may serve one connection.                    *)
(*                                                                         *)
(* Total functions stand for the maps, with the value operator[] would     *)
(* insert for a missing key; client_chat_rooms, where a missing key and    *)
(* the inserted 0 differ, has NoRoom for a missing key.                    *)
(***************************************************************************)
EXTENDS Integers, FiniteSets

CONSTANTS
    Users,          \* user names
    LongNames,      \* those whose characters are outside the string object
    Fds,            \* descriptors for connections, lowest first
    Rooms,          \* room numbers that are used, within 1 .. 100
    SessionCommands,    \* bound: commands about sessions that are used
    MaxAccepts      \* bound: connections accepted in a behaviour

Empty == ""             \* the string operator[] inserts

ASSUME UsersAssumption == LongNames \subseteq Users /\ Empty \notin Users
ASSUME FdsAssumption == Fds \subseteq Nat /\ IsFiniteSet(Fds)
ASSUME RoomsAssumption == Rooms \subseteq 1 .. 100
ASSUME BoundAssumption == MaxAccepts \in Nat

NoRoom == -1
Lobby == 0              \* the number operator[] inserts
AnyRoom == Rooms \cup {Lobby}

\* Where threads are between a test and the use of what it found: in a
\* command about its session, ...
SessionPlaces ==
    {"login", "logout", "exit", "online", "offline", "busy", "cleanup"}

\* ... or about a room: it found no owner, or has one to welcome; it may close
\* the room, or has expelled its clients; its client is in a room, or it has
\* the number of that room.  A new thread is at "start".
RoomPlaces == {"start", "own", "join", "expel", "erase", "line", "chat"}

VARIABLES
    registered_users, logged_in_clients, logged_in_usernames,
    client_usernames, client_statuses, client_chat_rooms,
    chat_rooms,         \* numbers of the existing rooms
    chat_room_creators,
    in,
    process,            \* "up", "aborted" (an exception), "killed" (a signal)
    open,               \* open descriptors
    eof,                \* those whose peer has closed the connection
    readers,            \* threads that are in the loop of handle_client
    held,               \* threads blocked in recv on a socket that was closed
    failing,            \* threads whose recv has failed
    closing,            \* threads that left the loop, one close still to do
    accepts,
    midway,             \* threads between tests and writes, with what they found
    raced,              \* names of overlapping commands (history)
    disputed            \* rooms of overlapping commands (history)

sessionVars == <<registered_users, logged_in_clients, logged_in_usernames,
                 client_usernames, client_statuses>>
roomVars == <<client_chat_rooms, chat_rooms, chat_room_creators, in>>
threadVars == <<open, eof, readers, held, failing, closing>>
races == <<raced, disputed>>
vars == <<sessionVars, roomVars, threadVars, process, accepts, midway, races>>

TypeOK ==
    /\ registered_users \subseteq Users
    /\ logged_in_clients \subseteq Fds
    /\ logged_in_usernames \subseteq registered_users
    /\ client_usernames \in [Fds -> registered_users \cup {Empty}]
    /\ client_statuses \in [Users -> {Empty, "online", "offline", "busy"}]
    /\ client_chat_rooms \in [Fds -> AnyRoom \cup {NoRoom}]
    /\ chat_rooms \subseteq AnyRoom
    /\ chat_room_creators \in [AnyRoom -> registered_users \cup {Empty}]
    /\ in \in BOOLEAN
    /\ process \in {"up", "aborted", "killed"}
    /\ open \subseteq Fds
    /\ eof \subseteq open
    /\ readers \in [Fds -> Nat]
    /\ held \in [Fds -> Nat]
    /\ failing \in [Fds -> Nat]
    /\ closing \in [Fds -> Nat]
    /\ accepts \in 0 .. MaxAccepts
    /\ midway \subseteq [at : SessionPlaces \cup RoomPlaces, fd : Fds,
                        user : registered_users \cup {Empty}, room : AnyRoom,
                        copy : 1 .. MaxAccepts]
    /\ raced \subseteq Users \cup {Empty}
    /\ disputed \subseteq Rooms

Init ==
    /\ registered_users = {}
    /\ logged_in_clients = {}
    /\ logged_in_usernames = {}
    /\ client_usernames = [c \in Fds |-> Empty]
    /\ client_statuses = [u \in Users |-> Empty]
    /\ client_chat_rooms = [c \in Fds |-> NoRoom]
    /\ chat_rooms = {}
    /\ chat_room_creators = [r \in AnyRoom |-> Empty]
    /\ in = FALSE
    /\ process = "up"
    /\ open = {}
    /\ eof = {}
    /\ readers = [c \in Fds |-> 0]
    /\ held = [c \in Fds |-> 0]
    /\ failing = [c \in Fds |-> 0]
    /\ closing = [c \in Fds |-> 0]
    /\ accepts = 0
    /\ midway = {}
    /\ raced = {}
    /\ disputed = {}

\* The process ends, and its tables and threads with it.
Gone(how) ==
    /\ process' = how
    /\ registered_users' = {} /\ logged_in_clients' = {} /\ logged_in_usernames' = {}
    /\ client_usernames' = [c \in Fds |-> Empty]
    /\ client_statuses' = [u \in Users |-> Empty]
    /\ client_chat_rooms' = [c \in Fds |-> NoRoom]
    /\ chat_rooms' = {} /\ chat_room_creators' = [r \in AnyRoom |-> Empty] /\ in' = FALSE
    /\ open' = {} /\ eof' = {}
    /\ readers' = [c \in Fds |-> 0] /\ held' = [c \in Fds |-> 0]
    /\ failing' = [c \in Fds |-> 0] /\ closing' = [c \in Fds |-> 0]
    /\ midway' = {} /\ raced' = {} /\ disputed' = {}
    /\ UNCHANGED accepts

-----------------------------------------------------------------------------
(* Connections and threads.                                                *)

\* A thread gets to a place when those of S are midway.
Arrive(S, p, c, u, r) ==
    \E i \in 1 .. MaxAccepts :
        LET there(j) == [at |-> p, fd |-> c, user |-> u, room |-> r, copy |-> j] IN
        /\ there(i) \notin S
        /\ \A j \in 1 .. i - 1 : there(j) \in S
        /\ midway' = S \cup {there(i)}

\* Main accepts; it is back in accept when the last thread has started.
Accept(c) ==
    /\ process = "up"
    /\ accepts < MaxAccepts
    /\ accepts' = accepts + 1
    /\ \A x \in midway : x.at # "start"
    /\ c \notin open
    /\ \A d \in Fds \ open : c <= d
    /\ open' = open \cup {c}
    /\ Arrive(midway, "start", c, Empty, Lobby)
    /\ UNCHANGED <<sessionVars, roomVars, process, eof, readers, held, failing, closing, races>>

\* The client closes its end; what it has sent before has been read.
Hangup(c) ==
    /\ process = "up"
    /\ c \in open \ eof
    /\ eof' = eof \cup {c}
    /\ UNCHANGED <<sessionVars, roomVars, process, open, readers, held, failing, closing,
                   accepts, midway, races>>

\* recv returns a line to a thread of descriptor c: rd threads are left in
\* recv.  A thread that was blocked there when c was closed still gets what
\* its old client sends.
Receive(c, rd) ==
    /\ process = "up"
    /\ \/ /\ readers[c] > 0
          /\ c \in open \ eof
          /\ readers' = [readers EXCEPT ![c] = rd - 1]
          /\ UNCHANGED held
       \/ /\ held[c] > 0
          /\ held' = [held EXCEPT ![c] = @ - 1]
          /\ readers' = [readers EXCEPT ![c] = rd]
    /\ UNCHANGED <<open, eof, failing, closing, process, accepts>>

\* A command that is one step: its thread is back in recv.
Command(c) == Receive(c, readers[c] + 1) /\ UNCHANGED <<midway, races>>

\* A command whose tests have been passed.
Begin(p, c, u, r) ==
    /\ Receive(c, readers[c])
    /\ Arrive(midway, p, c, u, r)
    /\ UNCHANGED sessionVars

\* The thread x goes on to the place p.
Move(x, p, r) ==
    /\ process = "up"
    /\ Arrive(midway \ {x}, p, x.fd, x.user, r)
    /\ UNCHANGED <<sessionVars, threadVars, process, accepts, races>>

\* The last writes of a command: the thread x is back in recv.
Finish(x) ==
    /\ process = "up"
    /\ midway' = midway \ {x}
    /\ readers' = [readers EXCEPT ![x.fd] = @ + 1]
    /\ UNCHANGED <<open, eof, held, failing, closing, process, accepts, races>>

\* A line that only gets an answer: a test fails, or whoami, list-user,
\* list-chat-room, whose loops change nothing.
Answer(c) == Command(c) /\ UNCHANGED <<sessionVars, roomVars>>

\* The mutex of the disconnect branch, which main needs for a moment too.
MutexFree == \A x \in midway : x.at # "cleanup"

StartThread(x) ==
    /\ x.at = "start"
    /\ Finish(x)
    /\ MutexFree
    /\ UNCHANGED <<sessionVars, roomVars>>

\* close(c) by a thread that leaves rd threads in the loop (others of them
\* not the caller itself), hd blocked on an older socket and fl with a failed
\* recv.  Some of the others may have been blocked in recv: they stay so, or
\* have got the end of file.
Close(c, rd, others, hd, fl) ==
    /\ open' = open \ {c}
    /\ eof' = eof \ {c}
    /\ \E k \in 0 .. (IF c \in open THEN others ELSE 0) :
          /\ readers' = [readers EXCEPT ![c] = rd - k]
          /\ held' = [held EXCEPT ![c] = IF c \in eof THEN hd ELSE hd + k]
          /\ failing' = [failing EXCEPT ![c] = IF c \in eof THEN fl + k ELSE fl]

\* The threads a command at p about the session on c overlaps with: those at
\* work on the same descriptor, and in another login of the same name.
Rivals(p, c, u) ==
    {x \in midway : /\ x.at \in SessionPlaces
                    /\ \/ x.fd = c
                       \/ p = "login" /\ x.at = "login" /\ x.user = u}

\* The names of commands that overlap are recorded.
RecordRace(p, c, u) ==
    /\ raced' = IF Rivals(p, c, u) = {} THEN raced
                ELSE raced \cup {u} \cup {x.user : x \in Rivals(p, c, u)}
    /\ UNCHANGED disputed

\* What a dangling reference to the name u may still read: a short name is
\* within the freed node and survives, a long one may be overwritten.
Dangling(u) == IF u \in LongNames THEN {u, Empty} ELSE {u}

\* client_statuses[n] = s through such a reference; a garbled name is no
\* registered user's.
WithStatus(n, s) ==
    IF n = Empty THEN client_statuses ELSE [client_statuses EXCEPT ![n] = s]

\* Mutant of EndSession: the descriptor stays in logged_in_clients.
EndSessionKeepsClient(c, u) ==
    /\ logged_in_usernames' = logged_in_usernames \ {u}
    /\ client_usernames' = [client_usernames EXCEPT ![c] = Empty]
    /\ \E n \in Dangling(u) : client_statuses' = WithStatus(n, "offline")
    /\ UNCHANGED <<registered_users, logged_in_clients>>

\* What "logout" and the disconnect branch do for a client that is logged in
\* as u: client_usernames.erase leaves the name used for the status dangling.
EndSession(c, u) ==
    /\ logged_in_clients' = logged_in_clients \ {c}
    /\ logged_in_usernames' = logged_in_usernames \ {u}
    /\ client_usernames' = [client_usernames EXCEPT ![c] = Empty]
    /\ \E n \in Dangling(u) : client_statuses' = WithStatus(n, "offline")
    /\ UNCHANGED registered_users

\* Mutant: bytes_received == 0 instead of <= 0.
RecvFailsAtEof(c) ==
    /\ process = "up"
    /\ readers[c] > 0
    /\ c \in eof
    /\ readers' = [readers EXCEPT ![c] = @ - 1]
    /\ failing' = [failing EXCEPT ![c] = @ + 1]
    /\ UNCHANGED <<sessionVars, roomVars, process, open, eof, held, closing, accepts,
                   midway, races>>

\* recv returns 0 or an error: end of file or a closed descriptor.
RecvFails(c) ==
    /\ process = "up"
    /\ readers[c] > 0
    /\ c \notin open \/ c \in eof
    /\ readers' = [readers EXCEPT ![c] = @ - 1]
    /\ failing' = [failing EXCEPT ![c] = @ + 1]
    /\ UNCHANGED <<sessionVars, roomVars, process, open, eof, held, closing, accepts,
                   midway, races>>

\* The client of a socket that was closed under its thread hangs up.
HeldRecvFails(c) ==
    /\ process = "up"
    /\ held[c] > 0
    /\ held' = [held EXCEPT ![c] = @ - 1]
    /\ failing' = [failing EXCEPT ![c] = @ + 1]
    /\ UNCHANGED <<sessionVars, roomVars, process, open, eof, readers, closing, accepts,
                   midway, races>>

\* The user whose session is on c, if there is one.
UserOf(c) == IF c \in logged_in_clients THEN client_usernames[c] ELSE Empty

\* The disconnect branch takes the mutex and looks for a session on c ...
Cleanup(c) ==
    /\ process = "up"
    /\ failing[c] > 0
    /\ failing' = [failing EXCEPT ![c] = @ - 1]
    /\ MutexFree
    /\ Arrive(midway, "cleanup", c, UserOf(c), Lobby)
    /\ RecordRace("cleanup", c, UserOf(c))
    /\ UNCHANGED <<sessionVars, roomVars, process, open, eof, readers, held, closing, accepts>>

\* ... ends it, and closes the descriptor for the first time.
CleanedUp(x) ==
    /\ x.at = "cleanup"
    /\ process = "up"
    /\ midway' = midway \ {x}
    /\ closing' = [closing EXCEPT ![x.fd] = @ + 1]
    /\ IF x.user # Empty THEN EndSession(x.fd, x.user) ELSE UNCHANGED sessionVars
    /\ Close(x.fd, readers[x.fd], readers[x.fd], held[x.fd], failing[x.fd])
    /\ UNCHANGED <<roomVars, process, accepts, races>>

\* The second close, after the loop.
FinalClose(c) ==
    /\ process = "up"
    /\ closing[c] > 0
    /\ closing' = [closing EXCEPT ![c] = @ - 1]
    /\ Close(c, readers[c], readers[c], held[c], failing[c])
    /\ UNCHANGED <<sessionVars, roomVars, process, accepts, midway, races>>

\* A thread sends to a client that has hung up: the welcome, the answer to
\* its last command or the line of another client.  No send has MSG_NOSIGNAL
\* and SIGPIPE keeps its default action.
BrokenPipe(c) ==
    /\ process = "up"
    /\ c \in eof
    /\ Gone("killed")

-----------------------------------------------------------------------------
(* Commands about users.                                                   *)

Register(c, u) ==
    /\ Command(c)
    /\ u \notin registered_users
    /\ registered_users' = registered_users \cup {u}
    /\ UNCHANGED <<logged_in_clients, logged_in_usernames, client_usernames,
                   client_statuses, roomVars>>

\* The tests of a command about the session.
BeginSession(p, c, u) ==
    /\ p \in SessionCommands
    /\ Begin(p, c, u, Lobby)
    /\ RecordRace(p, c, u)
    /\ UNCHANGED roomVars

\* Mutant: a name that is not registered has no password to compare with.
AnyName(u) == TRUE

\* The name is registered; the password is taken to be right.
KnownUser(u) == u \in registered_users

\* Mutant: no test of logged_in_usernames.
NameAlwaysFree(u) == TRUE

NameFree(u) == u \notin logged_in_usernames

\* "login" with the right password: the tests ...
Login(c, u) ==
    /\ BeginSession("login", c, u)
    /\ c \notin logged_in_clients
    /\ KnownUser(u)
    /\ NameFree(u)

\* ... and the writes.
LoggedIn(x) ==
    /\ x.at = "login"
    /\ Finish(x)
    /\ logged_in_clients' = logged_in_clients \cup {x.fd}
    /\ client_usernames' = [client_usernames EXCEPT ![x.fd] = x.user]
    /\ client_statuses' = WithStatus(x.user, "online")
    /\ logged_in_usernames' = logged_in_usernames \cup {x.user}
    /\ UNCHANGED <<registered_users, roomVars>>

Logout(c) ==
    /\ BeginSession("logout", c, UserOf(c))
    /\ c \in logged_in_clients

LoggedOut(x) ==
    /\ x.at = "logout"
    /\ Finish(x)
    /\ EndSession(x.fd, x.user)
    /\ UNCHANGED roomVars

\* "exit" while the global flag in is false.
Exit(c) ==
    /\ BeginSession("exit", c, UserOf(c))
    /\ ~in

\* Here the dangling name is also the one removed from logged_in_usernames.
\* The thread closes the socket and goes back to recv.
Exited(x) ==
    /\ x.at = "exit"
    /\ process = "up"
    /\ midway' = midway \ {x}
    /\ IF x.user # Empty
       THEN /\ logged_in_clients' = logged_in_clients \ {x.fd}
            /\ client_usernames' = [client_usernames EXCEPT ![x.fd] = Empty]
            /\ \E n \in Dangling(x.user) :
                  /\ client_statuses' = WithStatus(n, "offline")
                  /\ logged_in_usernames' = logged_in_usernames \ {n}
       ELSE UNCHANGED <<logged_in_clients, client_usernames, client_statuses,
                        logged_in_usernames>>
    /\ Close(x.fd, readers[x.fd] + 1, readers[x.fd], held[x.fd], failing[x.fd])
    /\ UNCHANGED <<registered_users, roomVars, process, closing, accepts, races>>

SetStatus(c, st) ==
    /\ BeginSession(st, c, UserOf(c))
    /\ c \in logged_in_clients

StatusSet(x) ==
    /\ x.at \in {"online", "offline", "busy"}
    /\ Finish(x)
    /\ client_statuses' = WithStatus(x.user, x.at)
    /\ UNCHANGED <<registered_users, logged_in_clients, logged_in_usernames,
                   client_usernames, roomVars>>

-----------------------------------------------------------------------------
(* Commands about rooms.                                                   *)

\* client_chat_rooms after a loop over the clients S that asks for the room
\* of each: operator[] puts those that are in no room into room 0.
AfterLoop(S) ==
    [c \in Fds |-> IF c \in S /\ client_chat_rooms[c] = NoRoom
                   THEN Lobby ELSE client_chat_rooms[c]]

\* A room two threads found without an owner, or may both close, is recorded.
RecordDispute(places, r) ==
    /\ disputed' = IF \E x \in midway : x.at \in places /\ x.room = r
                   THEN disputed \cup {r} ELSE disputed
    /\ UNCHANGED raced

\* The tests of a client that enters: it is logged in, and the room is found
\* without an owner or with one.
EnterTests(c, r) ==
    LET free == chat_room_creators[r] = Empty IN
    /\ Begin(IF free THEN "own" ELSE "join", c, Empty, r)
    /\ c \in logged_in_clients
    /\ RecordDispute(IF free THEN {"own"} ELSE {}, r)
    /\ UNCHANGED roomVars

\* Whoever found no owner becomes the owner ...
BecomeOwner(x) ==
    /\ x.at = "own"
    /\ Move(x, "join", x.room)
    /\ chat_room_creators' = [chat_room_creators EXCEPT ![x.room] = client_usernames[x.fd]]
    /\ UNCHANGED <<client_chat_rooms, chat_rooms, in>>

\* ... and is in the room, which exists from then on.
EnterChatRoom(x) ==
    /\ x.at = "join"
    /\ Finish(x)
    /\ client_chat_rooms' = [AfterLoop(logged_in_clients \ {x.fd}) EXCEPT ![x.fd] = x.room]
    /\ chat_rooms' = chat_rooms \cup {x.room}
    /\ in' = TRUE
    /\ UNCHANGED <<sessionVars, chat_room_creators>>

\* Mutant: no test of the owner.
AnyoneMayClose(c, r) == TRUE

MayClose(c, r) == chat_room_creators[r] = client_usernames[c]

\* Mutant: the owner of a closed room stays.
OwnerKept(r) == chat_room_creators

WithoutOwner(r) == [chat_room_creators EXCEPT ![r] = Empty]

\* The clients a close takes out of client_chat_rooms: those logged in at the
\* moment.
Expelled(r) == {d \in logged_in_clients : client_chat_rooms[d] = r}

\* The tests of "close-chat-room", ...
CloseChatRoom(c, r) ==
    /\ Begin("expel", c, client_usernames[c], r)
    /\ c \in logged_in_clients
    /\ r \in chat_rooms
    /\ MayClose(c, r)
    /\ RecordDispute({"expel", "erase"}, r)
    /\ UNCHANGED roomVars

\* ... its loop, ...
ExpelAll(x) ==
    /\ x.at = "expel"
    /\ Move(x, "erase", x.room)
    /\ client_chat_rooms' = [d \in Fds |->
            IF d \in Expelled(x.room) THEN NoRoom ELSE AfterLoop(logged_in_clients)[d]]
    /\ UNCHANGED <<chat_rooms, chat_room_creators, in>>

\* ... and the end of the room.
EraseRoom(x) ==
    /\ x.at = "erase"
    /\ Finish(x)
    /\ chat_rooms' = chat_rooms \ {x.room}
    /\ chat_room_creators' = WithoutOwner(x.room)
    /\ UNCHANGED <<sessionVars, client_chat_rooms, in>>

\* Any other line of a descriptor in client_chat_rooms, logged in or not ...
Line(c) ==
    /\ Begin("line", c, Empty, Lobby)
    /\ client_chat_rooms[c] # NoRoom
    /\ UNCHANGED <<roomVars, races>>

\* ... reads the number of the room, and inserts 0 if it is gone.
ReadRoom(x) ==
    LET r == IF client_chat_rooms[x.fd] = NoRoom THEN Lobby ELSE client_chat_rooms[x.fd] IN
    /\ x.at = "line"
    /\ Move(x, "chat", r)
    /\ client_chat_rooms' = [client_chat_rooms EXCEPT ![x.fd] = r]
    /\ UNCHANGED <<chat_rooms, chat_room_creators, in>>

Chat(x) ==
    /\ x.at = "chat"
    /\ Finish(x)
    /\ UNCHANGED <<sessionVars, chat_room_creators>>

\* "/pin" with a text of at most 150 characters.  The pins are left out.
Pin(x) ==
    /\ Chat(x)
    /\ client_chat_rooms' = AfterLoop(logged_in_clients \ {x.fd})
    /\ UNCHANGED <<chat_rooms, in>>

\* "/pin" without a text builds a string from a null pointer: the exception
\* is not caught and ends the process.
PinNothing(x) ==
    /\ x.at = "chat"
    /\ process = "up"
    /\ Gone("aborted")

\* "/exit-chat-room" looks a second time whether it is in a room.
ExitChatRoom(x) ==
    /\ Chat(x)
    /\ client_chat_rooms[x.fd] # NoRoom
    /\ client_chat_rooms' = [AfterLoop(logged_in_clients \ {x.fd}) EXCEPT ![x.fd] = NoRoom]
    /\ in' = FALSE
    /\ UNCHANGED chat_rooms

\* "/list-user": its loop is the one that changes something.
ListRoomUsers(x) ==
    /\ Chat(x)
    /\ client_chat_rooms' = AfterLoop(logged_in_clients)
    /\ UNCHANGED <<chat_rooms, in>>

\* A line of at most 150 characters, "exit" included while in.
Post(x) ==
    /\ Chat(x)
    /\ chat_rooms' = chat_rooms \cup {x.room}
    /\ client_chat_rooms' = AfterLoop(logged_in_clients)
    /\ UNCHANGED in

\* Unknown commands, lines that are too long, tests above that fail, and
\* "/delete-pin".
ChatAnswer(x) == Chat(x) /\ UNCHANGED <<client_chat_rooms, chat_rooms, in>>

-----------------------------------------------------------------------------
UserCommand ==
    \E c \in Fds :
        \/ \E u \in Users : Register(c, u) \/ Login(c, u)
        \/ Logout(c) \/ Exit(c) \/ Answer(c)
        \/ \E st \in {"online", "offline", "busy"} : SetStatus(c, st)

RoomCommand ==
    \E c \in Fds :
        \/ \E r \in Rooms : EnterTests(c, r) \/ CloseChatRoom(c, r)
        \/ Line(c)

\* A thread goes on after its tests: with a command about its session or its
\* connection, ...
FinishUserCommand(x) ==
    StartThread(x) \/ CleanedUp(x) \/ LoggedIn(x) \/ LoggedOut(x) \/ Exited(x) \/ StatusSet(x)

\* ... or about a room.
FinishRoomCommand(x) ==
    \/ BecomeOwner(x) \/ EnterChatRoom(x) \/ ExpelAll(x) \/ EraseRoom(x)
    \/ ReadRoom(x) \/ Pin(x) \/ PinNothing(x) \/ ExitChatRoom(x)
    \/ ListRoomUsers(x) \/ Post(x) \/ ChatAnswer(x)

ThreadStep ==
    \/ \E c \in Fds : RecvFails(c) \/ Cleanup(c) \/ FinalClose(c)
    \/ \E x \in midway : FinishUserCommand(x) \/ FinishRoomCommand(x)

\* The server waits in accept, or has been terminated.
Waiting ==
    /\ accepts = MaxAccepts \/ process # "up"
    /\ UNCHANGED vars

Next ==
    \/ \E c \in Fds : Accept(c) \/ Hangup(c) \/ HeldRecvFails(c) \/ BrokenPipe(c)
    \/ ThreadStep
    \/ UserCommand
    \/ RoomCommand
    \/ Waiting

Spec == Init /\ [][Next]_vars

\* Threads run; clients need not do anything.
FairSpec == Spec /\ WF_vars(ThreadStep)
-----------------------------------------------------------------------------
\* Whatever commands overlap, the tables agree about every name that was not
\* in two commands at once: it is in use exactly if a session has it, one
\* session only, and a descriptor has it only while it is logged in.
SessionsAgree ==
    \A u \in Users \ raced :
        /\ (u \in logged_in_usernames) <=> (\E c \in Fds : client_usernames[c] = u)
        /\ \A c, d \in Fds : client_usernames[c] = u /\ client_usernames[d] = u => c = d
        /\ \A c \in Fds : client_usernames[c] = u => c \in logged_in_clients

\* list-user shows as online or busy only users that are logged in.
StatusAgree ==
    \A u \in Users \ raced :
        client_statuses[u] \in {"online", "busy"} => u \in logged_in_usernames

\* The tables of sessions agree with each other and with the statuses, over
\* any interleaving of logins, logouts, exits and disconnects; two logins of
\* one name at once, or two threads at work on one descriptor, spoil the
\* entries of the names they are about and no others.
TablesAgree ==
    /\ SessionsAgree
    /\ StatusAgree

\* Every session has a thread that will log it out: as long as a descriptor
\* is logged in, some thread of handle_client still has its disconnect
\* branch for this descriptor ahead of it, or has found the session there,
\* however descriptors are closed twice and handed out again.
SessionHasThread ==
    \A c \in logged_in_clients :
        \/ readers[c] + held[c] + failing[c] > 0
        \/ \E x \in midway : x.fd = c /\ (x.at = "cleanup" => x.user # Empty)

\* When all clients have hung up and no more come, all users get logged out
\* by the disconnect branch, but for names that were in two commands at once,
\* and all threads end, unless the process does.
Drained ==
    (accepts = MaxAccepts /\ open \subseteq eof /\ \A c \in Fds : held[c] = 0)
        ~> \/ /\ logged_in_clients = {} /\ logged_in_usernames \subseteq raced
              /\ \A c \in Fds : readers[c] + failing[c] + closing[c] = 0
              /\ midway = {}
           \/ process # "up"

\* A room with an owner exists, so that its owner can close it and the next
\* one to enter after that becomes the new owner; or a client that has seen
\* the owner is about to make it.
OwnedRoomExists ==
    \A r \in Rooms : chat_room_creators[r] # Empty =>
        r \in chat_rooms \/ \E x \in midway : x.at = "join" /\ x.room = r

\* Unless two threads found a room without an owner at once, or were closing
\* it at once, it keeps its owner, whoever enters, leaves, logs out or
\* disconnects, and whatever goes on between the tests of a close and its
\* end, until a close that was begun by this owner erases the room.
RoomRules ==
    [][\A r \in Rooms \ disputed' : process' = "up" /\ chat_room_creators[r] # Empty =>
         \/ chat_room_creators'[r] = chat_room_creators[r] /\ (r \in chat_rooms => r \in chat_rooms')
         \/ /\ chat_room_creators'[r] = Empty /\ r \notin chat_rooms'
            /\ \E x \in midway \ midway' :
                  x.at = "erase" /\ x.room = r /\ x.user = chat_room_creators[r]]_vars
=============================================================================
