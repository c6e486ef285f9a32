SPECIFICATION Spec
CONSTANTS
    TunOctet <- MCTunOctet
    TunSizes = {2, 3}
    TunMaxPackets = 2
    TunHeader = 2
    TunBuffer = 4
    ProbeRuns = 2
    ProbeAck = 2
    ProbeBlock = 2
    ProbeBlocks = 2
    ProbeFirst = 3
    ProbeBuf = 3
    OldFiles = 2
    OldFrags <- MCOldFrags
    OldPasses = 3
    SckCommands <- MCSckCommands
    SckMaxAccept = 2
    SrcCommands <- MCSrcCommands
    SrcNbuf = 3
    SrcWritelen = 3
    SrcReadlen = 2
    WbcFiles = 3
    WbcMaxConn = 2
    EcLines = 3
    EcMaxline = 2
    BsdSlots = 2
    BsdMaxCount = 2
    BsdMaxSent = 3
    BsdMaxReads = 4
    BsdWords = {0, 1, 32768, 65534, 65535}
    DgrMaxCalls = 2
    DgrMaxCopies = 2
    DgrMeasured = {0, 4000, 90000}
    SgoQsize = 2
    SgoMaxArrive = 4
    TwMaxLines = 2
    TwMaxReplies = 2
    TrcMaxTtl = 2
    TrcProbes = 1
    TrcDistance = 2
    TrcMaxForeign = 1
    UckPackets <- MCUckPackets
    UckHost = 40000
    UckRests = {25535, 65535}
    UckMaxPackets = 2
INVARIANTS
    TunInOrder
    ProbeJoinedNeverEnds
    OldSafe
    SockRight
    WbcCountsAgree
    EcHonest
    DgrReplyMatches
    SgoInOrder
    TwAlarmKept
    RawRepliesRight
PROPERTY EveryoneEnds
CHECK_DEADLOCK FALSE
