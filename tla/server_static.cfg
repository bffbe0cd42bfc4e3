SPECIFICATION Spec
CONSTANTS
    Hosts = {"a", "b", "c"}
    Addrs = {1, 2, 3, 4}
    ServerIds = {1, 11}
    ClientIds = {"x"}
    Names = {}
    MaxLeases = 2
    Ranges <- ThreeAddresses
    Configurations <- StaticLines
    Hash <- SameHash
    PingMax = 1
    NoPing = TRUE
    Consecutive = TRUE
    DECLINE_BACKOFF = 1
    IfaceAddr = 1
    OtherIds = {}
    LeaseTimes = {0}
    Authoritative = TRUE
    BootpDynamic = TRUE
    Muted = FALSE
    LeaseScript = FALSE
    SLOP = 1
    LEASE_RETRY = 1
    MaxTime = 3
    MaxFaults = 0
    ClientMsgs <- StaticMsgs
    Answering <- Silent
    MaxBacklog = 1
INVARIANTS
    ClientHasOneLease
    StaticIsOffered
PROPERTIES
    ReservedForItsHost
    TakenFromNobodyElse
CHECK_DEADLOCK FALSE
