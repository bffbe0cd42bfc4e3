---------------------------- MODULE MCDhcpSystem ----------------------------
EXTENDS DhcpSystem

CONSTANTS h1, h2

\* The hosts are alike: no configuration names them, and they have one hash.
MCHosts == {h1, h2}
Alike == Permutations(MCHosts)

\* The server has address 1, the range is 2..3.
OneRange == <<[start |-> 2, end |-> 3, router |-> 1, net |-> 1 .. 3]>>
NoLines == {{}}
SameHash == [h \in Hosts |-> 0]

\* Steadiness is never regained while the clock stands still: from where no host
\* is steady there is nothing left to check.
SomeSteady == \E h \in Hosts : Steady(h)
=============================================================================
