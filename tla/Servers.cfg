SPECIFICATION Spec
CONSTANTS
    WebConns = {1, 2}
    WebPaths <- MCWebPaths
    WebLimits = {1, 2}
    SrvConns = {1, 2}
    SrvWorkers = 2
    SrvMaxNcli = 2
    SrvMessage = 2
    EsvConns = {1, 2}
    EsvSlots = 2
    EsvPollSlots = 1
    EsvMaxLines = 2
    IcdAddr <- MCIcdAddr
    IcdPass <- MCIcdPass
    IcdSlots = 2
    IcdMaxErrors = 1
INVARIANTS WebReplyRight SrvSafe EsvSafe IcdOwnErrors
PROPERTY EveryoneServed
CHECK_DEADLOCK FALSE
