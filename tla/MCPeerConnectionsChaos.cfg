SPECIFICATION Spec
CONSTANTS
    b = b
    c = c
    b1 = b1
    b2 = b2
    b3 = b3
    bx = bx
    c1 = c1
    lan = lan
    ll = ll
    None = None
    Peers = {b}
    Sockets = {b1, b2, b3, bx}
    Owner <- OwnerOf
    Class <- ClassOf
    Ephemeral = {bx}
    Boot = b1
    ListenAddrs = {lan}
    ErrorKinds = {"refused", "opaque", "unsupported", "dead", "aborted"}
    MaxEvents = 4
INVARIANTS
    CacheMirrorsSet
    CachedIsConnected
    RoutingAnnounced
