SPECIFICATION Spec
CONSTANTS
    Hosts = {"a", "b"}
    Addrs = {1, 2, 3}
    ServerIds = {1, 11}
    ClientIds = {}
    Names = {}
    MaxLeases = 1
    Ranges <- OneRange
    Configurations <- NoLines
    Hash <- SameHash
    PingMax = 1
    NoPing = TRUE
    Consecutive = FALSE
    DECLINE_BACKOFF = 1
    IfaceAddr = 1
    OtherIds = {}
    LeaseTimes = {0}
    Authoritative = FALSE
    BootpDynamic = FALSE
    Muted = FALSE
    LeaseScript = FALSE
    SLOP = 1
    LEASE_RETRY = 1
    MaxTime = 1
    MaxFaults = 0
    ClientMsgs <- PlainMsgs
    Answering <- Silent
    MaxBacklog = 2
INVARIANTS
    ServerKeepsRunning
CHECK_DEADLOCK FALSE
