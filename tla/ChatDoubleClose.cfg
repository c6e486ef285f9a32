SPECIFICATION Spec
CONSTANTS
    Users = {"ta1", "ta2"}
    LongNames = {}
    Fds = {4, 5}
    Rooms = {}
    SessionCommands = {"login", "logout", "exit", "busy"}
    MaxAccepts = 3
PROPERTY NewConnectionNotLoggedIn
