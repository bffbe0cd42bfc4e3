\* Two hosts with one run each, one server, one address per host.
CONSTANTS
    h1 = h1
    h2 = h2
    Hosts <- MCHosts2
    Addrs = {11}
    ServerIds = {1}
    ClientIds = {}
    Names = {}
    TIMEOUT_MAX = 8
    MaxRuns = 1
SPECIFICATION Spec
INVARIANTS TypeOK RetrySchedule FallbackIsLastResort AckIsOwn
CHECK_DEADLOCK FALSE
