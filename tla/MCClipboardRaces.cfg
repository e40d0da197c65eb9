SPECIFICATION Spec
CONSTANTS
    a = a
    b = b
    third = third
    text1 = text1
    text2 = text2
    image = image
    files = files
    Nodes = {a, b}
    Items = {text1, image, files}
    Kind <- MCKind
    LargeItems = {image}
    Empty = Empty
    None = None
    ChannelCapacity = 1
    User = "concurrent"
    Restarts = TRUE
    Failures = FALSE
    MaxCopies = 3
INVARIANTS
    TypeOK
    DedupCurrent
    DedupInv
