SPECIFICATION FairSpec
CONSTANTS
    a = a
    b = b
    l = l
    small = small
    short = short
    even = even
    files = files
    Nodes = {a, b}
    LegacyNodes = {l}
    Contents = {small, short, files}
    FilesContents = {files}
    Byte <- MCByte
    Raw <- MCRaw
    Garbage = Garbage
    CHUNK_DATA_SIZE = 2
    NoTransfer = NoTransfer
    ChannelCapacity = 2
    Reordering = FALSE
    Faults = TRUE
    MaxCopies <- SenderAndLegacy
    MaxTransfers = 1
    MaxDelivered = 3
INVARIANT
    InOrder
PROPERTY
    NoTransferLeaks
