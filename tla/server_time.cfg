SPECIFICATION FairSpec
CONSTANTS
    Hosts = {"a", "b"}
    Addrs = {1, 2, 3}
    ServerIds = {1, 11}
    ClientIds = {}
    Names = {"n", "k"}
    MaxLeases = 2
    Ranges <- OneRange
    Configurations <- NoLines
    Hash <- SameHash
    PingMax = 1
    NoPing = TRUE
    Consecutive = FALSE
    DECLINE_BACKOFF = 1
    IfaceAddr = 1
    OtherIds = {11}
    LeaseTimes = {0, 1, 2}
    Authoritative = FALSE
    BootpDynamic = FALSE
    Muted = TRUE
    LeaseScript = FALSE
    SLOP = 1
    LEASE_RETRY = 1
    MaxTime = 4
    MaxFaults = 2
    ClientMsgs <- TimeMsgs
    Answering <- Silent
    MaxBacklog = 2
INVARIANTS
    AlarmCovers
    DnsShowsLeases
PROPERTIES
    ExpiredLeasesGo
CHECK_DEADLOCK FALSE
