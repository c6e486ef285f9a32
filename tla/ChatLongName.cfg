SPECIFICATION Spec
CONSTANTS
    Users = {"ta1", "ta2"}
    LongNames = {"ta1"}
    Fds = {4, 5}
    Rooms = {}
    SessionCommands = {"login", "logout", "exit", "busy"}
    MaxAccepts = 2
INVARIANT ExitFreesName
