SPECIFICATION Spec
CONSTANTS
    Hosts = {"a", "b"}
    Addrs = {1, 2, 3}
    ServerIds = {1, 11}
    ClientIds = {}
    Names = {}
    MaxLeases = 2
    Ranges <- OneRange
    Configurations <- TimedLines
    Hash <- SameHash
    PingMax = 1
    NoPing = FALSE
    Consecutive = FALSE
    DECLINE_BACKOFF = 2
    IfaceAddr = 1
    OtherIds = {}
    LeaseTimes = {0, 1}
    Authoritative = FALSE
    BootpDynamic = TRUE
    Muted = FALSE
    LeaseScript = FALSE
    SLOP = 1
    LEASE_RETRY = 1
    MaxTime = 3
    MaxFaults = 1
    ClientMsgs <- AddressMsgs
    Answering <- Anyone
    MaxBacklog = 1
INVARIANTS
    TypeOK
    AddressHasOneLease
    TableIsCounted
    FileMatchesLeases
    OfferIsHonoured
CHECK_DEADLOCK FALSE
