---------------------------- MODULE MCChatServer ----------------------------
(***************************************************************************)
(* What the tests in examples.py and the comments in the source say of the *)
(* chat server, where the code does something else.                        *)
(***************************************************************************)
EXTENDS ChatServer

\* Whether "exit" ends the connection of a client or is a line of its chat
\* depends on where this client is, not on what others did last.
ExitIsPersonal ==
    \A c \in logged_in_clients : in <=> client_chat_rooms[c] \in Rooms

\* A client that has entered no room, or has left it, gets an error for an
\* unknown line; it is in no room at all.
NobodyInLobbyRoom == \A c \in Fds : client_chat_rooms[c] # Lobby

\* "exit" removes the user's name from the names that are in use.
ExitFreesName == logged_in_usernames \subseteq {client_usernames[c] : c \in logged_in_clients}

\* A disconnect logs its user out: a new connection is not logged in.
NewConnectionNotLoggedIn ==
    [][\A c \in open' \ open : c \notin logged_in_clients]_vars
=============================================================================
