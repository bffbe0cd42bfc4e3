SPECIFICATION Spec
CONSTANTS
    Hosts = {"a", "b"}
    Addrs = {1, 2, 3}
    ServerIds = {1, 11}
    ClientIds = {}
    Names = {"n", "k"}
    MaxLeases = 2
    Ranges <- OneRange
    Configurations <- NamedLines
    Hash <- SameHash
    PingMax = 1
    NoPing = TRUE
    Consecutive = FALSE
    DECLINE_BACKOFF = 1
    IfaceAddr = 1
    OtherIds = {}
    LeaseTimes = {0}
    Authoritative = FALSE
    BootpDynamic = FALSE
    Muted = FALSE
    LeaseScript = TRUE
    SLOP = 1
    LEASE_RETRY = 1
    MaxTime = 1
    MaxFaults = 1
    ClientMsgs <- NameMsgs
    Answering <- Silent
    MaxBacklog = 1
INVARIANTS
    NameHasOneLease
    DnsShowsLeases
    ScriptNamesUnique
    ScriptKnowsLeases
PROPERTIES
    ConfiguredNameIsKept
CHECK_DEADLOCK FALSE
