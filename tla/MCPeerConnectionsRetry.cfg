SPECIFICATION FairSpec
CONSTANTS
    b = b
    c = c
    b1 = b1
    b2 = b2
    b3 = b3
    bx = bx
    c1 = c1
    lan = lan
    ll = ll
    None = None
    Peers = {b, c}
    Sockets = {b1, c1}
    Owner <- OwnerOf
    Class <- ClassOf
    Ephemeral = {}
    Boot = b1
    ListenAddrs = {lan, ll}
    ErrorKinds = {"hold", "refused"}
    MaxEvents = 5
INVARIANTS
    TypeOK
    NoOrphanedRetry
PROPERTY
    BootReconnects
