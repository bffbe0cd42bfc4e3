\* One host that runs dhcp_init_ifc twice: delayed replies of
\* the first run reach the second.
CONSTANTS
    h1 = h1
    h2 = h2
    Hosts <- MCHosts1
    Addrs = {11}
    ServerIds = {1}
    ClientIds = {}
    Names = {}
    TIMEOUT_MAX = 8
    MaxRuns = 2
SPECIFICATION Spec
INVARIANTS AckIsOwn
CHECK_DEADLOCK FALSE
