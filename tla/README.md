# Verification of the intro-NP network programs

This directory holds TLA+ models of the programs in this repository, the TLC
configurations that check them on small instances, and TLAPS proofs of the
central results for all instances.

## 1. Inventory

The repository collects the programs of a network programming course, and the
sources of the course's textbook (`unpv13e`), whose programs the course builds on.

| Component | State | What is hard | Correct when |
|---|---|---|---|
| **UDP file transfer** `np-lab6/client.cpp`, `server.cpp` | client: `ACKed`, `send_failed`, position in the pass, open directory streams; server: `received_list`, `record_list`, `fcnt_list`, `f_stat`, `f_count`, the files | loss, duplication, reordering, damage; late ACKs; limits on both sides; termination | only whole files are written, each once; a fragment is dropped from the client's list only when the server holds it; `terminate` means all is there; all ends |
| **older pair** `client_test.cpp`, `server_test.cpp` | the same, simpler | an ACK counts only for the fragment just sent; each pass costs a descriptor | only whole files are written; a fragment dropped by the client is at the server; the client ends |
| **Chat server** `hw2/110550158_hw2/hw2_chat_server.cpp` | maps for users, sessions, statuses, rooms, owners, pins; a thread per connection; descriptors; the pointer of `strtok` | threads without a lock, sockets closed twice, numbers reused, maps that insert when read, references into erased nodes, lines cut or joined by TCP | the session tables agree; every session will be ended; ownership of rooms; a line is carried out once with its own words |
| **TUN VPN** `np-lab8/lab_tun/dist/tunvpn.cpp` | two client sockets, TUN devices | stream without framing, routing by last number | packets arrive in order, none twice |
| **Web server** `hw1/hw_staticweb/demo/server.c`, `server_https.c` | a process per connection, TLS counters | processes nobody waits for, two processes in one TLS session | everyone gets the answer the tests expect |
| **Bandwidth probe** `np-lab5/dist` | byte counts | an acknowledgement that comes joined with data | a report is printed |
| **Computations** `np-lab1/1.py`, `np-lab2/2.cpp`, `np-lab3/*.py`, `np-lab7/*.cpp` | local | edges of tables, windows and recursions | the result is the one of a reference definition |
| **sock** `unpv13e/sock` | options, sockets, buffers | order of options, signals between processes, half-close, peeking | every option is set in time; no byte is lost |
| **Servers** `unpv13e/server`, `tcpcliserv`, `threads`, `nonblock`, `advio` | children, threads, locks, pipes, rings, tables of clients | shared accept, passed descriptors, dying children, zombies | each connection is in one place and served once |
| **Clients** `unpv13e/select`, `advio`, `nonblock`, `threads`, `bcast`, `mcast`, `rtt`, `sigio` | buffers, timers, flags set by handlers | signals between test and call, ends of file in both directions, late replies | all that was sent is shown; the wait ends |
| **ICMP programs** `unpv13e/icmpd`, `ping`, `traceroute` | tables of clients and replies | messages about someone else's datagrams | a message reaches the one it is about |
| **udpcksum** `unpv13e/udpcksum` | count and time limit of queries, `canjump`, the alarm | a jump out of a signal handler, a capture that shows foreign packets | the limits double; "no response" is true; what is printed is true of the packet read; the query's checksum verifies |
| **texts of addresses** `unpv13e/libfree` | none | the longest run of zeros, `::`, a mapped IPv4 address at the end | a text that is written is read back as the same address |
| **getaddrinfo** `unpv13e/libgai`, `libfree` | a list under construction | failing allocations, cloning while iterating | the list promised, and nothing leaks |
| one-off clients, wrappers, small examples | none | nothing | see section 6 |

Components interact only where they are two ends of one protocol: the two
programs of np-lab6 over UDP, client and server of np-lab5 and np-lab8, the ICMP
daemon and its clients, the threads of the chat server through its global maps
and the descriptor table of the process. Each such pair is in one module.

## 2. Modules

| Module | Models | Properties |
|---|---|---|
| `FileStore` | what the file transfer promises | refined by `FileTransfer` |
| `FileTransfer` | `client.cpp`, `server.cpp` and the network between them | section 2.1, and `ImplementsFileStore` |
| `FileTransferProofs` | TLAPS proofs about it | section 4 |
| `ChatServer` | sessions, rooms, threads and descriptors of the chat server | section 2.2 |
| `ChatWire` | its `recv` and `strtok`, in several threads | `WireOneToOne`: lines that come whole, with no other thread in a command, are carried out one to one. `WireDeathExplained`: the process then dies of `/pin` without a text only |
| `ChatFilter` | `filter_message` | `FltClean`: no keyword gets through |
| `OldTransfer` | `client_test.cpp`, `server_test.cpp` | `OldCreditSound`, `OldWrittenWhole`, `OldFailedEmpty` (the resend list is dead code), `OldClientEnds` (for want of descriptors, perhaps with files missing: no property says that they arrive) |
| `Tunvpn` | `tunvpn.cpp`, two clients and the server | `TunInOrder`: never twice, never out of order, however reads are cut. `TunArrives`: when reads return single packets, all arrive |
| `WebServer` | `server.c`, `server_https.c` | `WebReplyRight`, `WebAnswered`, `WebSlots` (the server gives up only when its process slots are used up by children nobody waited for) |
| `SpeedProbe` | both programs of np-lab5 | `ProbeJoinedNeverEnds`: a client ends only if the first `recv` took no block data. `ProbeReports` |
| `UdpFlag` | `np-lab1/1.py` | `FlagPhases`: when a late datagram can be taken for the answer of another phase. `FlagPlaces`: a place is filled or reported missing, never both |
| `Queens` | `solve.cpp` (and `try.cpp`); the class of `minconflict.cpp` | `QueensRight`: `QueVerdictRight`, `QueCallsSound`, `McfAgree`, `McfMeasuresAgree` |
| `MazeMap`, `MazeWalk`, `MazePrograms` | `3-1.py`, `3-2.py`, `3-3.py`; `3-4.py`; all four | `MapStitched`, `MapPathShortest`, both unless the window of `3-3.py` begins above the maze, where they are false; `WlkMapRight`, `WlkInPlace`, `WlkFinds`; `MazesRight`, which is all of them |
| `BinFlag` | `np-lab2/2.cpp` | `BinDictClean`, `BinFlagRight`, for blocks of even length |
| `SockOpen`, `SockLoop`, `SockSource`, `SockProgram` | the `sock` program; the last one puts opening and source and sink together | `SckAllSet`, `SckOrder`, `SckFirstHeard`; `LopAnswerWhole`, `LopPeekThenRead`, `LopCrlfInverse`, `LopChunksCover`, `LopUdpEnds`; `SrcAllCounted`, `SrcEnds` |
| `GetAddrInfo` | `libgai` and `libfree/getaddrinfo.c` | `GaiListRight`, `GaiFreesOwn`, `GaiLeaks` |
| `PreforkServers` | `serv00.c` to `serv09.c` with children, locks and threads | `SrvOnePlace`, `SrvAvailable`, `SrvServed`, `SrvReaped`, `SrvNoticed` |
| `EchoServers` | the echo servers with a process, a thread, `select` or `poll` | `EsvOwnEcho`, `EsvSurvives`, `EsvServed`, `EsvReaped` |
| `EchoClients` | ten versions of `str_cli` | `EcAllShown`, `EcTrueVerdict`, `EcEnds` |
| `WebClient` | `web01.c` to `web03.c`, `nonblock/web.c` | `WbcCountsAgree`, `WbcEnds` |
| `Icmpd` | the ICMP daemon and its client | `IcdOwnErrors`, `IcdNoneMissed`, `IcdAnswered` |
| `TimedWait` | the `dg_cli` functions with a time limit | `TwNoneLost`, `TwNoneLeft`, `TwEnds` |
| `DgSendRecv` | `dg_send_recv.c`, `rtt.c` | `DgrReplyMatches`, `DgrTimerArmed`, `DgrReturns` |
| `SigioEcho` | `dgecho01.c` | `SgoInOrder`, `SgoAllEchoed` |
| `BsdPing` | `bsdping.c`, `in_cksum.c` | `BsdCountsBounded`, `BsdCksumVerifies`, `BsdEnds` |
| `Traceroute` | `traceloop.c`, `recv_v4.c`, `recv_v6.c` | `TrcTrueCode`, `TrcWaitEnds` |
| `RawPrograms` | the two programs with raw sockets and the checksum program side by side | `RawRepliesRight`: `BsdCountsBounded`, `BsdCksumVerifies`, `TrcTrueCode` and, for `UdpCksum`, `UckSafe` |
| `UdpCksum` | `udpcksum` and `udpcksum-libnet` | `UckBackoff`, `UckGivesUp`, `UckReportTrue`, `UckSumRight`, `UckEnds` |
| `InetText` | `inet_pton.c`, `inet_ntop.c`, `inet_aton.c` | `ItxReadsBack`, `ItxColons`, `ItxDots` |
| `ChatServerProofs`, `LabProofs`, `DatagramProofs`, `EchoProofs`, `WebProofs`, `IcmpdProofs`, `PreforkProofs` | TLAPS proofs about the modules above | section 4 |
| `MCFileTransfer`, `MCChatServer` | instances of the first two, and the statements of tests and comments that the chat server does not satisfy | |
| `MCPrograms`, `MCServers`, `MCClients` | instances of all others | |

Every property has a comment that says what it states and of which code. Every
module but the first two has its own prefix for variables and definitions, so that
one MC module can extend several. Definitions marked *Mutant* are deliberate
mistakes; each property of a passing run is checked to fail when one of them takes
the place of the definition that follows it.

*Families of programs.* Where `unpv13e` has several versions of one program, a
module has a variable that says which version runs, common actions for common code,
and an action or a definition, under the file's name, for what the version does
differently. A property that a version is known not to have leaves that version out
by name and says why.

*One behaviour, one program.* The programs in `MCPrograms`, `MCServers` and
`MCClients` do not interact. The variable `program` says which one a behaviour is
of; the others' variables keep their initial values, so the reachable states are the
union of what each program reaches alone.

### 2.1 FileTransfer

*Data.* A byte is named by its position in its file, a payload by the span it
was read from, a `vector<string>` of the server by a function from offsets to
spans. A file on the server's disk is the vector that was merged. File names and
the text of headers and ACKs are left out: a datagram is the pair
`<seq_num, offset>`, plus whether its payload has lost its last byte.

*Client.* A pass is `OpenDir`, then for every file `OpenFile`, a `SkipAcked` or
`SendFragment` per fragment, and `NextFile`. `SendFragment` is followed by one
non-blocking `recvfrom`: `RecvNothing`, `RecvAck(g)` for any fragment `g` whose
ACK is in flight, or `RecvTerminate`. Three properties of the code are in the
model as they are:

* `opendir` is never matched by `closedir`, so each pass takes one descriptor;
  when none is left, `fopen` fails and the client exits (`CannotOpen`);
* an acknowledged fragment is skipped without reading the socket, so a client
  whose fragments are all acknowledged never sees `terminate`;
* the test `ACKed[{seq_num, offset}]` inserts the key that the later `find` looks
  for, so `send_failed` is never filled. The loop that drains it has no action;
  `OpenDir` requires it to be empty, and `RetryQueueEmpty` is checked and proved.

*Server.* `Receive` takes a datagram and notes its fragment count; then exactly
one of `IgnoreDone`, `Refuse`, `RejectDamaged`, `RecordFragment`, `CompleteFile`
happens, one for each way through `decompose` and the loop. `fclose(NULL)` after
a failed `fopen` is a crash (`WriteFile`). The timeout of `recvfrom` changes
nothing and is a stuttering step. `FloodTerminate` is the endless loop at the end.

*Network (external).* Unordered; loses, duplicates and shortens data datagrams
within budgets, loses ACKs and `terminate` without bound.

### 2.2 ChatServer

A total function stands for each map, with the default that `operator[]` inserts;
for `client_chat_rooms`, where "no entry" and the inserted 0 behave differently,
`NoRoom` is the missing entry. A command that fails a test or only reads is `Answer`:
its thread gets a line and is back in `recv`.

*Commands overlap.* `handle_command` holds no lock between a test and the writes that
rely on it. So a command is cut there: its tests are one step (`Login`, `Logout`, `Exit`,
`SetStatus`, `EnterTests`, `CloseChatRoom`, `Line`), which puts its thread in `midway` with
what it found, and its writes are another (`LoggedIn`, ..., `EraseRoom`), at any time
later. Entering a room without an owner has three steps (tests, owner, the rest), and so has
closing one (tests, the loop that expels, the end of the room); the disconnect branch
(`Cleanup`, `CleanedUp`) holds the mutex, which keeps out the other disconnects and new
threads only. `register` tests and adds in one step.

Two logins of one name at once do give two sessions, and of two clients that
enter a room together the second replaces the first as owner. What can be promised is
that this is all: the history variables `raced` and `disputed` collect the names and rooms
that two threads were at work on at once, and the properties speak of all others.
A name is recorded only when two threads are in commands about the session on one
descriptor, or in two logins of that name, at once; a room only when a second thread
finds it without an owner, or may close it, before the first has finished.

*Threads and descriptors.* For each descriptor number the model counts the
threads of `handle_client` with that number: in the loop (`readers`), blocked in
`recv` on a socket that was closed under them (`held`; Linux keeps such a socket
until `recv` returns), with a failed `recv` but not yet at the lock (`failing`),
and between the two closes of a disconnect (`closing`). `Accept` takes the lowest
free number. `Exit` closes the socket inside the handler and its thread goes on;
if the number has been given out again, it becomes a second reader of the new
connection.

*Undefined behaviour.* `logout`, `exit` and the disconnect branch use a reference
to the user's name after erasing the map node it is in. A name of up to 15
characters is inside the freed node and is still read correctly; a longer one
(`LongNames`) may have been overwritten (`Dangling`). Observed with g++ and glibc.

*Ends of the process.* `/pin` without a text throws in a detached thread
(`PinNothing`); a `send` to a client that is gone raises SIGPIPE (`BrokenPipe`).

*Not in this module.* What the threads share while they take their lines apart is in
`ChatWire`, the content filter in `ChatFilter`. The tests of one command are one step, and so
are the writes that follow them; a loop over `logged_in_clients` is one step too, so what
another thread does to the container during the loop, where C++ promises nothing, is not
modelled. A reference to a name that another thread changes between test and use reads
the name that the test found. The pins, the lines kept in the history and the
exhaustion of descriptors in `accept` are left out. `client_sockets` and
`chat_room_clients` are never read and are left out.

## 3. Runs

| Run | Instance | Shows |
|---|---|---|
| `transfer_safety` | 2 files of 2 fragments and 1, the second one cannot be created, limit 0 (one file open at a time), 2 ACKs, 2 passes, 1 duplicate, 1 damaged | `TypeOK`, `StoredIntact`, `AckSound`, `OpenFilesBound`, `RetryQueueEmpty`, refinement of `FileStore`: in particular the client is never told that all is done when a file could not be written |
| `transfer_liveness` | 2 files, one empty, 2 passes, 1 loss | `ClientStops`, `AllReceived`, `TermSound`, refinement |
| `chat_sessions` | 2 descriptors, 3 connections, 2 users, the commands `login`, `exit` and a status | `TypeOK`, `TablesAgree`, `SessionHasThread`, `Drained` |
| `chat_rooms` | 2 descriptors, 2 connections, 2 users, 1 room, the commands about rooms, `login` and `logout` | `OwnedRoomExists`, `RoomRules` |
| `programs` | `Programs.cfg` | `FlagSafe`, `WireSafe`, `QueensRight`, `MazesRight`, `BinDecodes`, `FltClean`, `LopSafe`, `NamesRight` |
| `servers` | `Servers.cfg` | `WebReplyRight`, `SrvSafe`, `EsvSafe`, `IcdOwnErrors`, `EveryoneServed` |
| `clients` | `Clients.cfg` | `TunInOrder`, `ProbeJoinedNeverEnds`, `OldSafe`, `SockRight`, `WbcCountsAgree`, `EcHonest`, `DgrReplyMatches`, `SgoInOrder`, `TwAlarmKept`, `RawRepliesRight`, `EveryoneEnds` |
| `chat_exit_flag`, `chat_lobby`, `chat_long_name`, `chat_double_close`, `chat_filter` | as above | a statement of a test or comment that the code violates |

*Properties with parts.* Most of these are conjunctions of the named parts of the
table in section 2, defined at the end of the module (`TablesAgree`, `RoomRules`,
`WireSafe`, `FlagSafe`, `BinDecodes`, `LopSafe`, `SrvSafe`, `EsvSafe`, `OldSafe`,
`EcHonest`, `TwAlarmKept`) or, for parts of several modules, of a module that puts them
together (`MazesRight`, which is `MapRight` and `WlkRight`, `RawRepliesRight`) or of the MC
module (`QueensRight`, `SockRight`, and `NamesRight`, which is `GaiSafe` and `ItxSafe`).
`EveryoneServed` and
`EveryoneEnds` are the liveness of all servers and of all clients. Each part has its
own comment.

*Bounds of the transfer.* Two files are the least for which one can be refused
while another is open; a file with a full and a partial fragment, a short one and
an empty one are all cases of the fragmentation. Two passes let an ACK of the
first pass arrive in the second. For safety, losing a datagram is the same as
never receiving it, so `MaxLoss = 0` loses nothing there. The number of passes
and the fault budgets bound the counters; no state constraint is used.

`AllReceived` needs as many passes as there may be lost or damaged datagrams plus
one (`MaxLoss + MaxDamage < FdLimit - 1`: two passes and one loss in the run), and
a limit that never refuses (`MaxOpen >= num_file - 1`). Losing ACKs does not
matter. In the program there are about a thousand passes.

*Bounds of the chat.* Three connections over two descriptors are the least for a
descriptor to be reused by a third client while a stale thread of the first is
alive and a second session exists. Rooms and commands in their middle multiply the states,
so rooms are checked with two connections, and `SessionCommands` gives each run the
commands that matter to its properties; the theorems are about all of them. Two clients, two
lines each and a buffer of six symbols let
`ChatWire` cut a line, join two, and have a second thread start in the middle of a
line; messages of four symbols over two keywords make all overlaps.

*Bounds of the computations.* Boards of 4 (queens) and 3 (moves); mazes of 5 by 5
with every pattern of walls, windows that do not divide them and one that begins above
them; for the walk, 8 by 9 mazes
with every pattern of side branches and a ring; files of two blocks of lengths 2 to 4, one
byte of which may be damaged; all calls of `getaddrinfo` from the classes of names,
services, families and types, each with any one allocation failing; addresses of eight
words from a set with 0, one digit and the largest word, so that every pattern of runs of zeros
occurs, and texts with up to eight groups on each side of `::`.

*Bounds of the servers.* Two connections and two workers are the least for two to
compete; tables (`EsvSlots`, `EsvPollSlots`, `IcdSlots`, `SrvMaxNcli`, `WebLimits`)
are as small as the number of clients or smaller, so that full ones occur. Icmpd has
three clients for two slots, so that a slot is reused.

*Bounds of the clients.* Two packets per sender, one of more than a header; buffers
shorter than what is sent, so that each is cut; two calls of `dg_send_recv`, so that a
reply of the first is late for the second; a ring of two for four datagrams; three
files over two connections; three lines through buffers of two; three probes that
share two slots of the table of replies; two packets for `udpcksum`, whose three time
limits are all reached, and sums of the query with and without a carry and with the
complement 0.

*Fairness.* `FairSpec` of the transfer has weak fairness of the client and of the
server as processes: both loops never block (`MSG_DONTWAIT`, `SO_RCVTIMEO`).
Nothing is assumed of the network. `FairSpec` of the chat has weak fairness of
threads that have something to do without their client; clients and threads
blocked on a held socket need never move. In the other modules each process, thread
or signal handler that can run is scheduled (weak fairness of each on its own, as
the kernel does); alarms that are set go off; users and remote clients need not do
anything, except that an echo or web server that a client talks to answers
(`EcServerEchoes`, and in `WbcThreadStep`). Of the older transfer only the client is
scheduled: its server and the network need not do anything.

### Findings

* `chat_exit_flag`: the flag `in` is global; a client whose room was closed, or
  outside any room while another one entered last, cannot `exit`.
* `chat_lobby`: the loops over `logged_in_clients` read `client_chat_rooms` with
  `operator[]`, which puts clients that are in no room into room 0; their unknown
  lines are then posted there instead of answered with an error.
* `chat_long_name`: `exit` of a user with a name of more than 15 characters may
  leave the name in `logged_in_usernames` for ever.
* `chat_double_close`: closing a descriptor again after it was given out lets a
  new connection start in someone's session.
* `chat_filter`: the text between the scanning index and the next keyword is
  dropped from the message.

Also visible in the models, with no run of their own; where a property makes an
exception for one of them, its comment says so:

* chat: two logins of one name at once both succeed, and of two clients that enter a new
  room at once the second takes it over; `/delete-pin` leaves the flag set, and an
  empty line is shown on entering; members who log out or disconnect stay in `client_chat_rooms`, and so the next
  connection with that number is in the room; `/pin` without a text ends the server;
  two commands at once exchange their arguments through `strtok`;
* web server over TLS: the parent's `SSL_shutdown` may reach the client before the
  child's answer and cut it off;
* bandwidth probe: the client waits for ever when block data comes with the
  acknowledgement;
* older file transfer: about a thousand passes, each with one credited fragment of a file
  at most, are all the client has before it runs out of descriptors and exits;
* `3-3.py`: when the window begins above the maze, the rows of the map are moved down and the
  last ones are missing;
* VPN: packets that arrive together in one read become one packet;
* `1.py`: an OK that is late by one phase ends the loop for `chals` before the
  service has seen it;
* `2.cpp`: a block of odd length has its checksum taken over a byte too many;
* `traceroute/recv_v6.c`: the `break` after `ret = -2` is outside the `if`, so any time
  exceeded message ends the wait with a value that was never set;
* `icmpd`: a reused slot sends errors of its last user to the new one;
* `threads/web02.c`, `web03.c`: joining with the mutex held can wait for ever; in
  `web02.c` the flag of a fast thread is overwritten;
* `sock/tellwait.c`: the mask is restored after the first child, so the signal of a later
  one can be lost; `servopen.c` makes only the second call of `sockopts` for UDP, so
  `-H` and `-J` are not set;
* `libfree/getaddrinfo.c`: the clean-up frees a pointer that has no value yet;
* `bcast/dgclibcast1.c` to `3.c`, `advio/dgclitimeo3.c`: an alarm before the blocking call is
  lost (the book uses the first three to show this);
* `nonblock/tcpservselect03.c`: `Readline` mixes the lines of its clients;
* `udpcksum`: SIGALRM between the return of `udp_read` and `canjump = 0` throws the answer
  away, and may then end in "no response"; with IP options `ui_sum` is another word of the
  packet; with `-l 0.0.0.0` the kernel fills in the address after the checksum is taken; the
  comment at `udpread.c:46` says that an ICMP error returns NULL, the code ends the program;
  the filter lets in any datagram of the server, also to other programs;
* `inet_pton.c`: a colon at the end is accepted; the comment at line 134 says that `::` in
  a full address is ignored, but the words after it are cleared.

## 4. Proofs

All theorems hold for every value of the constants that satisfies the named ASSUMEs of the
modules. These ask for natural numbers, positive sizes, finite sets of descriptors or
connections, and for disjoint names of what the code keeps apart; none limits an instance to
the one of a run. Where an ASSUME bounds a counter of a behaviour (`MaxAccepts`,
`DgrMaxCalls`, `TwMaxLines`, ...) the bound is any natural number.

Almost none of the properties is inductive. Each proof has an inductive invariant, a
conjunction of named parts, that the runs were used to test before it was proved; there is
one lemma per action or group of similar actions, and the theorem combines them.

Some of the code computes by recursion over its data: a merge, a checksum, a filter, a
search. The library's induction theorems cannot be used for them, but well-founded
orders can: a nonempty set of numbers has a least element (`LeastElement`, from
`WellFoundedInduction`), and the least counterexample is contradicted by the one before it.
The same argument shows that a recursive function exists (`FlatRunsExist`,
`BinXorsExist` and `BsdSumsExist` build its first `n` values), after which its
equations can be used. The models therefore say `FlattenSeq`, whose definition is a recursive
function, where the prover cannot open `SelectSeq`.

### 4.1 File transfer: `FileTransferProofs`

* `TypeCorrect`: `Spec => []TypeOK`;
* `InvCorrect`: `Spec => []TransferInv`, from which `StoredIntactCorrect`,
  `AckSoundCorrect`, `OpenFilesBoundCorrect` and `TermSoundCorrect` follow, the last one for
  every set of files that the server cannot create;
* `RetryQueueEmptyCorrect`, with its own small invariant;
* `FragmentsTile`: the fragments of a file follow each other without gap or
  overlap from its first to its last byte. With `StoredIntact` this says that a
  written file has the bytes of its source;
* `ImplementsFileStoreCorrect`: the transfer implements `FileStore`. Its files are the
  vectors on the disk, merged; `MergedIsSource` says that an intact vector merges to the
  source, so that completing a file that can be created is the step of `FileStore` that
  stores it (`CompleteStored`), and every other action a stutter.

`TransferInv` adds to the properties:

* `VectorHolds`: what is recorded of an unfinished file is in its vector, whole.
  It holds because a damaged payload is written only over unrecorded fragments
  and is not recorded (`DecomposeHolds`), and gives `StoredIntact` at completion;
* `RecordFull`: a completed file has all offsets recorded, because a set of
  offsets with as many elements as there are fragments is all of them; it keeps
  ACKs sound after the vector is cleared;
* `AcksInFlight`: every ACK in the network names a recorded fragment, which is
  what makes `AckSound` survive late and misplaced ACKs;
* `CountsDone`, `WrittenFiles`: `i` counts completed files, `terminate` is in
  flight only when all are completed, and completed means written unless the
  server crashed; together they give `TermSound`;
* `VectorsOpen`: `f_count`, `f_stat` and the vectors agree, by cardinality.

### 4.2 Chat server: `ChatServerProofs`

`TypeCorrect`, `InvCorrect`, `SessionsCorrect`, `TablesAgreeCorrect`,
`SessionHasThreadCorrect`, `OwnedRoomExistsCorrect` and the action property
`RoomRulesCorrect`, for any descriptors, users and rooms.

`ChatInv` says what a thread in mid-command may rely on. `Apart`: two threads at work on one
descriptor, or logging in with one name, are recorded in `raced`. `Logins`: a login
still finds its descriptor without a session and its name free, and `Others`: every other
command still finds the session it is about, unless they are recorded. Together with
`Clients` (logged in exactly if there is a name) these let the writes of each command
restore the tables. `SessionsSound`, that sessions have names of their own, in use, holds
for all names; `NamesFreed`, the converse, for the names that fit into the string object
only. So `SessionsCorrect` says what is true whatever the names are, and `TablesAgreeCorrect`
has the hypothesis `LongNames = {}`: without it the property is false, which is what the
run `chat_long_name` shows.

`SessionHasThread` is inductive with the types, because a thread leaves `readers` or `held`
for `midway` or `failing` and its session ends on the way; the lemma about `Exited` covers
the thread that becomes a second reader of a reused descriptor. `Owning` says that, in a
room that is not disputed, one thread at most is about to own it, and it has no owner yet, and
one at most closes it, for its owner; `RoomRulesCorrect` follows from it step by step.

`WireSafeCorrect`: `WireCarriedOut` says that the commands of an undisturbed thread are its
client's lines one by one, `WireUndisturbed` that in the middle of a command it is the only
one, and that the static pointer of `strtok` (`wireRest`) is what is left of its line. The lines
are any sequences of words.

`FltCleanCorrect`: `FltCopied` says that what was copied since the last star is the part of
the message just before `i`, and that no keyword begins in it; so a keyword that got through
would have been found. It holds for any nonempty keywords without a star.

### 4.3 Lab programs: `LabProofs`

* `OldSafeCorrect`: `OldInv` adds that the key of the fragment just sent is in `ACKed` when
  the answer is looked at, and that an ACK on the way is for a recorded fragment;
* `ProbeJoinedCorrect`: `ProbeInv` is a conservation law: what the client has read, and has
  still to read, is what the server has sent. With it, block data taken by the first `recv`
  is missing from the count at the end for any sizes of blocks and buffers;
* `FlagSafeCorrect`: for the phases, `FlagOnTheWay` counts the datagrams of "hello" that are
  on their way against those sent, and `FlagSilent` says that nothing older is left when the
  silence was not too short. For the places, the lemma `FlagPlacesOnce` holds of any set of
  recorded packets: a place without a packet lies between the nearest recorded ones, which
  well-founded induction on the naturals gives;
* `TunInOrderCorrect`: all that is on its way from a sender stands in one line: its TUN
  device (`TunOutLine`), its stream to the server (`TunUpLine`), the stream to the receiver
  (`TunDownLine`), and the receiver's kernel (`TunInboxLine`). Units are ordered by packet
  and by position in it, and a packet that was delivered counts as its first unit, because
  the stream may still hold what a read cut off. The lemmas `TunCut` and `TunJoin` are about
  any read and any write; the sizes of packets, header and buffer are constants;
* `BinDecodesCorrect`, for any data and any number of blocks: `BinBlockSound` says that the
  checksum of a block of even length is right exactly when no byte is damaged, which follows
  from the sum modulo 2 of the bytes in each half of the unit (`BinXorDetects`), and
  `BinLaidOut` what the dictionary holds after each copy;
* `QueensRightCorrect`, for boards of any size that fits a `uint8_t`. `QueInv` says that
  every solution can still be found by a pending call of `solve` (`QueReach`), so an empty
  stack means that there is none. For the class of `minconflict.cpp`, `McfInv` ties the board
  to the vector of queens; there are as many queens as rows and each row has one, so none has
  two, and a move keeps that;
* `MazesRightCorrect`, which combines the lemmas `MapRightCorrect` and `WlkRightCorrect`.

  `MapRightCorrect` holds for mazes and windows of any size and any walls. `MapPanRight` says that the
  rows of the band that is being put together are a run of columns from the side where the band
  began to the window (`MapRun`; `MapStitchRight` extends it by what the window shows), and that
  the bands above are stored complete. `MapBorder` is about the search: every cell visited is in
  the queue or has only visited neighbours; the queue is in the order of the lengths of its
  paths, which differ by at most one; each path is shortest; and all cells as near as the
  head of the queue are visited. An empty queue then means that what was visited is closed under moves
  (`MapNoWay`). The straight path of `3-1.py` is compared with the distance by rows and columns
  (`MapNearBall`). `MapLocateInv` is about the start: with the whole map, `find` meets `*` in
  its row, and no cell that the search looks at is beside the map, since the maze has a border
  of wall (`MapReadable`). The rooms of `3-1.py` are empty. When the window of `3-3.py` begins
  above the maze (`MapAbove`), nothing is claimed: the map is wrong then.

  `WlkRightCorrect` is about the walk of `3-4.py`, whose map is moved when it grows at its
  left. `WlkDrawn` says that the map shows the maze from some column `off` on, which only the
  proof knows; when the map grows at its left, `off` falls, and the visited cells and the
  cells on the stack are moved along (`WlkMoved`). `WlkStackOk` gives every path on the stack a trace, the
  cells of the maze that it leads through, and says (`WlkLinked`) that each entry branches off
  from the trace of the one above it, just before its own last move; so the way back ends
  where the next branch begins (`WlkInPlace`). `WlkVisited` says that every visited cell is the end of a path
  on the stack or has only visited neighbours; an empty stack then means that no way
  leads to the end. It holds for mazes of any size inside a border, and for a window that
  shows at least two cells in each direction.

### 4.4 Datagram programs: `DatagramProofs`

* `SgoInOrderCorrect`: `SgoInLine` places every datagram by number in the echoes, in the ring
  from `iget` on, or in the socket, for any size of the ring;
* `DgrReplyCorrect`, and the action property `DgrTimerCorrect`: `DgrInv` says that a reply
  kept has the number of this request, and that the timeout is within the limits of
  `rtt_minmax` between calls and within their doublings during one;
* `TwAlarmCorrect`: `TwInv` treats the alarm and the byte in the pipe as one token that is
  gone between two lines;
* `UckSafeCorrect`: `UckInv` says for every place of the program how many queries were sent,
  whether the alarm is set and may jump, and what has been read; the lemma `UckSumVerifies`
  shows that the sum of a query with its checksum has the complement 0;
* `RawRepliesRightCorrect` adds `bsdping.c` and `traceroute`. `BsdCksumOfAny` says that a packet
  of any length up to 64 KiB that holds its `in_cksum` verifies: the 32-bit sum does not overflow, and both
  sides are compared modulo 65535. `BsdInv`: a slot in use is marked after one of its replies
  was counted, or lets one more be counted, so the count is bounded by the requests whichever
  slots coincide. `TrcInv` adds to `TrcTrueCode` only which program runs.

### 4.5 Echo programs: `EchoProofs`

* `EsvSafeCorrect`: `EsvInLine` says that what a server has received continues what it has
  answered, and that the client goes on where that ends;
* `EcHonestCorrect`: `EcConserved` says that lines are neither lost nor made up between the
  keyboard, the buffers, the two directions of the connection and the screen; `EcInv` adds
  that the FIN follows all that was typed, and the server's close the FIN;
* `SockRightCorrect`: `SckOrdered` says of any list of calls which ones come before which
  (lemmas about appending a call and about sets of options with different names), `SckInv`
  what has been set at each place before and after the fork; `SrcInv` that what is under
  way and counted is what the calls took, over UDP at most that, and `SrcWhole` that without
  `-W` these are whole buffers;
* `LopSafeCorrect`: on TCP, what was read, has come and is still to come make up one text of
  the peer (`LopWhole`), and between a look and the read that follows, the piece looked at
  begins what will be read (`LopLooked`). The conversions are maps of bytes to texts that are
  joined (`LopMap`), whose lemmas give `LopCrlfInverse` for texts of any length; `LopCovers` is
  about the chunks of any number of bytes;
* `GaiSafeCorrect`, the part of `NamesRight` about `getaddrinfo()`, for any calls and any
  answers of the resolver. `GaiHeapRight` is the account of the memory: the heap of the call is
  what its list and a saved name cost (`GaiFrees`: just what `freeaddrinfo()` gives back), also
  when the last entry has no socket address. `GaiSearchesLeft` says that the addresses in the
  list, of this search and of the searches left are those of the host in their order. After
  the searches, `ga_port()` fills in each entry for the first socket type (`GaiPortFirst`) and
  puts a copy after it for the second (`GaiPortSecond`), so that the list has each address with
  each type (`GaiPairsRight`). `GaiStarted` gives `GaiFreesOwn`: `libfree` has nothing while
  `aihead` is not set.

### 4.6 Web clients and web server: `WebProofs`

`WbcCountsCorrect`: `WbcCounters` says of each counter which threads it counts, by
cardinality; `WbcPlaces` which loop belongs to which program and that a file without flags
has no thread, except in `web02.c` between `pthread_create` and the flag.

`WebReplyCorrect`: `WebOnce` says that a connection is in one place of the queue or in the
parent's hands, and then has no child, so that no connection is given to two children;
`WebServed` says, for each connection, how far its child is and that what the client has is
the beginning of the answer, over TCP all that was sent. The lemma `WebAnswerExpected` compares
`serve_file` with what the tests expect, for every request of their kinds. It needs two
conditions that hold of the requests in `testcase/run.sh` and that the property names in
`WebTested`: no name with a plus sign, and directories by their plain names. Without them the
answers differ: `url_decode` would turn the plus sign into a space, and a directory under an
encoded name is answered with 403 or 200.

### 4.7 ICMP daemon: `IcmpdProofs`

`IcdOwnErrorsCorrect` and the action property `IcdNoneMissedCorrect`. `IcdPlaced`: a
connection is in one slot or one place of the queue. `IcdRound`, `IcdSources`: what `select`
found ready is still so when its turn comes, although other handlers of the round have run.
`IcdUntold`, `IcdTold`: a client is told "1" only when its descriptor has been read, and from
then on its slot has its own address and its connection holds only messages about it. A
reused slot breaks this for clients that have not been told, which is why the property asks
for those that have.

### 4.8 Server designs: `PreforkProofs`

`SrvSafeCorrect`: `SrvPlaced` counts the places of a connection (the queue of the kernel, the
parent's hand, the ring, the pipes, the workers) and says that the count is 1 while its
request is open and 0 otherwise. `SrvHolds` and `SrvChildren` tie workers, the parent's table and
the pipes together; they give the count of available children of `serv05.c`. The lemmas about the
ring (`Ahead`, `Filled`) are for any size.

### 4.9 Only model-checked

* Liveness, in all modules: it needs fairness.
  These are `ClientStops`, `AllReceived`, `Drained`, `EveryoneServed` and `EveryoneEnds`.
* `ItxSafe`, and with it `NamesRight`, which is `GaiSafe` and `ItxSafe`: the conversions are
  folds over the characters of a text, whose results can only be shown by induction over
  data. `GaiSafe` is proved.
* The runs that expect a violation.

## 5. Plan

1. Done: file transfer with its abstract specification and proofs; chat server with proofs;
   all lab programs with state, with proofs for the older transfer, the bandwidth probe, the
   flag client and the VPN; the concurrent programs of `unpv13e`, with proofs for the
   servers, the echo, web and datagram clients, and the ICMP daemon; the web server of hw1
   with proofs.
2. Done: the refinement of `FileStore`, and proofs of the computations and of the remaining
   safety properties of `programs` and `clients`, except those in section 4.9.
3. Left: a proof of `ItxSafe`, the part of `NamesRight` about texts of addresses.

## 6. Not modelled

* The one-off clients of np-lab4 and the helpers of np-lab6 and np-lab7: a fixed
  exchange of messages with a course service, with no state.
* `np-lab3/3-1.cpp`: a draft of `3-1.py`.
* The programs of `unpv13e` that show a single system call (`intro`, `names`, `ioctl`,
  `ipopts`, `key`, `route`, `sockopt`, `unixdomain`, `udpcliserv`, `sctp`, `streams`,
  `ssntp`, `mysdr`, `oob`, `inetd`, `debug`, `test`, `ping/main.c`): sequential, with no
  state of their own between calls.
* The wrappers and headers of `unpv13e/lib`, `libfree` and `libroute`, `sock_ntop` and the like,
  and the saved copies (`libgai/old`). What of `lib` has state (`readline`, `rtt`, `writen`,
  `readable_timeo`, `read_fd`, `write_fd`) is modelled with its callers.
* In the modelled programs: wording and layout of output, times, the arithmetic of
  reports, and the effect of writes past the end of an array (`hw2_chat_server.cpp:492`,
  `server.c:78`, `2.cpp:156`, `sinkudp.c:44`), after which C gives no meaning to the
  program. The same holds for two threads inside one container of the chat server.
