SPECIFICATION FairSpec
CONSTANTS
    a = a
    b = b
    third = third
    text1 = text1
    text2 = text2
    image = image
    files = files
    Nodes = {a, b}
    Items = {image}
    Kind <- MCKind
    LargeItems = {image}
    Empty = Empty
    None = None
    ChannelCapacity = 2
    User = "sequential"
    Restarts = FALSE
    Failures = FALSE
    MaxCopies = 1
PROPERTY
    ComesToRest
CHECK_DEADLOCK FALSE
