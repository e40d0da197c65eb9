SPECIFICATION Spec
CONSTANTS
    a = a
    b = b
    l = l
    small = small
    short = short
    even = even
    files = files
    Nodes = {a, b}
    LegacyNodes = {}
    Contents = {small, short, even}
    FilesContents = {}
    Byte <- MCByte
    Raw <- MCRaw
    Garbage = Garbage
    CHUNK_DATA_SIZE = 2
    NoTransfer = NoTransfer
    ChannelCapacity = 2
    Reordering = TRUE
    Faults = TRUE
    MaxCopies <- OneSender
    MaxTransfers = 2
    MaxDelivered = 2
INVARIANTS
    TypeOK
    Integrity
    CompleteMeansIntact
    Provenance
PROPERTY
    ImplementsChannel
