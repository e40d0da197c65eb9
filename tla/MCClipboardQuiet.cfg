SPECIFICATION FairSpec
CONSTANTS
    a = a
    b = b
    third = third
    text1 = text1
    text2 = text2
    image = image
    files = files
    Nodes = {a, b, third}
    Items = {text1, text2, image, files}
    Kind <- MCKind
    LargeItems = {files}
    Empty = Empty
    None = None
    ChannelCapacity = 2
    User = "patient"
    Restarts = FALSE
    Failures = TRUE
    MaxCopies = 3
INVARIANTS
    NoEcho
    Synchronized
PROPERTY
    ComesToRest
CHECK_DEADLOCK FALSE
