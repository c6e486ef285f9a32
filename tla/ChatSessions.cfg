SPECIFICATION FairSpec
CONSTANTS
    Users = {"ta1", "ta2"}
    LongNames = {}
    Fds = {4, 5}
    Rooms = {}
    SessionCommands = {"login", "exit", "busy"}
    MaxAccepts = 3
INVARIANTS TypeOK TablesAgree SessionHasThread
PROPERTY Drained
