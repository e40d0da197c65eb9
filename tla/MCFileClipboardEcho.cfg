SPECIFICATION Spec
CONSTANTS
    m1 = m1
    m2 = m2
    v1 = v1
    v2 = v2
    Nodes = {m1, m2}
    Machines <- MCMachines
    Home <- MCHome
    Selections <- MCSelections
    Versions = {v1, v2}
    Torn = Torn
    Dir = Dir
    ReceiveDir <- MCReceiveDir
    None = None
    MaxCopies = 1
    MaxEdits = 0
INVARIANT
    NeverEchoes
CHECK_DEADLOCK FALSE
