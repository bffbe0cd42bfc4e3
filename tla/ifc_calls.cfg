SPECIFICATION Spec
CONSTANTS
    Bits = 4
    Ifaces = {"wlan0", "p2p0"}
    Addrs = {1, 2, 3}
    Addrs6 = {11, 12, 13}
    Any6 = 10
    LinkLocal <- MCLinkLocal
    ClassPrefix = 1
    h1 = h1
    h2 = h2
    Procs <- MCProcs
    Kernels <- MCKernels
    CLEAR_MAX = 2
    LINES = 3
    Calls <- MCCalls
    MAX_CALLS = 2
    MAX_EIO = 1
    MAX_EVENTS = 1
INVARIANTS
    TypeOK
    SocketsHeld
    ReturnsClosed
    ConfigureIsComplete
    ClearLeavesLinkLocal
    RouteResult
    HostRoutesGo
    ResetKillsConnections
PROPERTIES
    DnsIsLast
    StaysLocal
SYMMETRY Symmetric
CHECK_DEADLOCK FALSE
