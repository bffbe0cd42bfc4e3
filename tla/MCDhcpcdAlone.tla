--------------------------- MODULE MCDhcpcdAlone ---------------------------
EXTENDS DhcpcdAlone, TLC

CONSTANTS h1, h2
MCCallers == {h1, h2}
Symmetric == Permutations(MCCallers)

M(p) == [is |-> "address", bits |-> prefixLengthToIpv4Netmask(p)]
Hole == [is |-> "address", bits |-> [i \in 1 .. Bits |-> i = 2]]
Answer(a, g, s, m) ==
    [f \in Field |-> CASE f = "ipaddress" -> a [] f = "gateway" -> g [] f = "server" -> s
                       [] f = "mask" -> m [] f = "rest" -> "rest"]
\* Without a gateway, complete, and with a mask that has a hole.
MCAnswers == << Answer("a1", "", "s1", M(2)), Answer("a2", "g2", "s2", M(4)),
                Answer("a3", "g3", "s3", Hole) >>
OneAnswer == SubSeq(MCAnswers, 3, 3)
TwoAnswers == SubSeq(MCAnswers, 1, 2)
AllFunctions == Asking \cup Stopping
=============================================================================
