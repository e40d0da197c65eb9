SPECIFICATION Spec
CONSTANTS
    m1 = m1
    m2 = m2
    v1 = v1
    v2 = v2
    Nodes = {m1, m2}
    Machines <- MCMachines
    Home <- MCHome
    Selections <- MCSelections
    Versions = {v1, v2}
    Torn = Torn
    Dir = Dir
    ReceiveDir <- MCReceiveDir
    None = None
    MaxCopies = 2
    MaxEdits = 1
INVARIANTS
    TypeOK
    CopiesArrive
    PasteHasAll
    NoEcho
    NoLoop
CHECK_DEADLOCK FALSE
