SPECIFICATION Spec
CONSTANTS
    n1 = n1
    n2 = n2
    h1 = h1
    h2 = h2
    foreignHost = foreignHost
    foreignKey = foreignKey
    otherKey = otherKey
    p = p
    q = q
    Nodes = {n1, n2}
    HostKeys = {h1, h2, foreignHost}
    Psks = {p, q}
    NoPsk = NoPsk
    Nothing = Nothing
    Foreign = Foreign
    MachineKey <- MCMachineKey
    Arguments <- MCArguments
    ForeignKinds <- MCForeignKinds
    CommonKinds <- MCCommonKinds
    ForeignFlight <- MCForeignFlight
    NameLengths = {32, 63}
    MaxStarts <- MCMaxStarts
    Conns = {1}
    MaxDials = 1
    MaxMoves = 1
INVARIANTS
    TypeOK
    SamePskOnly
    Authentic
    NoHalfOpen
    DiscoveredIsAdmitted
    AddressesFound
    ForeignByTheRules
CHECK_DEADLOCK FALSE
