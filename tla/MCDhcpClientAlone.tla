------------------------- MODULE MCDhcpClientAlone -------------------------
EXTENDS DhcpClientAlone, TLC
CONSTANTS h1, h2
MCHosts1 == {h1}
MCHosts2 == {h1, h2}
=============================================================================
