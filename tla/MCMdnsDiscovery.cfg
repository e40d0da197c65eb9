SPECIFICATION FairSpec
CONSTANTS
    Nodes = {a, b}
    Addrs = {x}
    ttl = 3
    query_interval = 2
    INITIAL_TIMEOUT_INTERVAL = 1
    ChannelCapacity = 1
    None = None
    FaultKinds = {"loss", "down", "read_error", "listen", "stall"}
    MaxFaults = 1
INVARIANTS
    TypeOK
    EventsInv
    WakesInTime
    NoFalseExpiry
PROPERTIES
    ImplementsDiscovery
    FoundDespiteLoss
    GoneIsForgotten
