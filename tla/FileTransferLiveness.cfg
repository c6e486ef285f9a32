SPECIFICATION FairSpec
CONSTANTS
    num_file = 2
    FileSize <- EmptySizes
    FragSize = 2
    MaxOpen = 1
    AckCopies = 1
    FdLimit = 3
    Unwritable = {}
    MaxLoss = 1
    MaxDup = 0
    MaxDamage = 0
INVARIANT TermSound
PROPERTIES ClientStops AllReceived ImplementsFileStore
