SPECIFICATION Spec
CONSTANTS
    FlagLen = 3
    FlagMaxTries = 2
    WireClients = {1, 2}
    WireLines <- MCWireLines
    WireBuffer = 6
    WireMaxLines = 2
    QueN = 4
    McfN = 3
    MapH = 5
    MapW = 5
    MapEnds <- MCMapEnds
    MapViews <- MCMapViews
    WlkH = 8
    WlkW = 9
    WlkReach = 2
    WlkMazes <- MCWlkMazes
    BinData <- MCBinData
    BinBlocks = 2
    BinLengths = {2, 3, 4}
    FltSymbols = {0, 1, 2, 9}
    FltLetters = {1, 2}
    FltKeywords <- MCFltKeywords
    FltMaxLen = 4
    LopCommands <- MCLopCommands
    LopStdin <- MCLopStdin
    LopPeer <- MCLopPeer
    LopReadlen = 2
    LopWritelen = 4
    LopMaxIov = 3
    GaiNames <- MCGaiNames
    GaiCalls <- MCGaiCalls
    ItxWords = {0, 1, 65535}
    ItxTokens <- MCItxTokens
    ItxNumbers <- MCItxNumbers
    ItxMaxGroups = 8
INVARIANTS
    FlagSafe
    WireSafe
    QueensRight
    MazesRight
    NamesRight
    BinDecodes
    FltClean
    LopSafe
CHECK_DEADLOCK FALSE
