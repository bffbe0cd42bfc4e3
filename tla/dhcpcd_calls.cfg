SPECIFICATION Spec
CONSTANTS
    Bits = 4
    h1 = h1
    h2 = h2
    Callers <- MCCallers
    Ifaces = {"p2p0-1"}
    P2p = {"p2p0-1"}
    Answers <- TwoAnswers
    WriteOrder <- Fields
    START_NAPS = 1
    RESULT_NAPS = 1
    STOP_NAPS = 1
    Functions = {"dhcp_do_request", "dhcp_do_request_renew", "dhcp_stop"}
    MAX_CALLS = 3
INVARIANTS
    TypeOK
    InfoIsNotOlder
    InfoIsWhole
    StopStops
PROPERTIES
    RequestsAreAnswered
SYMMETRY Symmetric
CHECK_DEADLOCK FALSE
