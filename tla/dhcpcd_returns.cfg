SPECIFICATION FairSpec
CONSTANTS
    Bits = 4
    h1 = h1
    h2 = h2
    Callers <- MCCallers
    Ifaces = {"p2p0-1"}
    P2p = {"p2p0-1"}
    Answers <- OneAnswer
    WriteOrder <- Fields
    START_NAPS = 2
    RESULT_NAPS = 2
    STOP_NAPS = 2
    Functions <- AllFunctions
    MAX_CALLS = 2
PROPERTIES
    CallReturns
CHECK_DEADLOCK FALSE
