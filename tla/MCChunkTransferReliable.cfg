SPECIFICATION FairSpec
CONSTANTS
    a = a
    b = b
    l = l
    small = small
    short = short
    even = even
    files = files
    Nodes = {a, b}
    LegacyNodes = {}
    Contents = {small, short, even}
    FilesContents = {}
    Byte <- MCByte
    Raw <- MCRaw
    Garbage = Garbage
    CHUNK_DATA_SIZE = 2
    NoTransfer = NoTransfer
    ChannelCapacity = 2
    Reordering = FALSE
    Faults = FALSE
    MaxCopies <- BothSend
    MaxTransfers = 3
    MaxDelivered = 3
INVARIANT
    InOrder
PROPERTY
    EveryCopyDelivered
