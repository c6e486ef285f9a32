SPECIFICATION Spec
CONSTANTS
    num_file = 2
    FileSize <- ShortSizes
    FragSize = 2
    MaxOpen = 0
    AckCopies = 2
    FdLimit = 3
    Unwritable = {1}
    MaxLoss = 0
    MaxDup = 1
    MaxDamage = 1
INVARIANTS TypeOK StoredIntact AckSound OpenFilesBound RetryQueueEmpty
PROPERTY ImplementsFileStore
