\* Two hosts and one server with two addresses; nothing expires, nothing fails.
SPECIFICATION Spec
CONSTANTS
    h1 = h1
    h2 = h2
    Hosts <- MCHosts
    Addrs = {1, 2, 3}
    ServerIds = {1}
    ClientIds = {}
    Names = {}
    TIMEOUT_MAX = 2
    MaxRuns = 1
    MaxLeases = 2
    Ranges <- OneRange
    Configurations <- NoLines
    Hash <- SameHash
    PingMax = 0
    NoPing = TRUE
    Consecutive = FALSE
    DECLINE_BACKOFF = 1
    IfaceAddr = 1
    OtherIds = {}
    LeaseTimes = {0}
    Authoritative = FALSE
    BootpDynamic = FALSE
    Muted = FALSE
    LeaseScript = FALSE
    SLOP = 1
    LEASE_RETRY = 1
    MaxTime = 1
    MaxFaults = 0
INVARIANTS
    AckedHoldsLease
    AckedAddressesDiffer
CONSTRAINT SomeSteady
SYMMETRY Alike
CHECK_DEADLOCK FALSE
