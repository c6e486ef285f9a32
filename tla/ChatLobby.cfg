SPECIFICATION Spec
CONSTANTS
    Users = {"ta1", "ta2"}
    LongNames = {}
    Fds = {4, 5}
    Rooms = {1}
    SessionCommands = {"login", "logout", "exit", "busy"}
    MaxAccepts = 2
INVARIANT NobodyInLobbyRoom
