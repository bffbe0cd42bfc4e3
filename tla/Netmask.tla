------------------------------ MODULE Netmask ------------------------------
(***************************************************************************)
(* IPv4 netmasks and prefix lengths: the two conversions of ifc_utils.c    *)
(* and the one of fill_ip_info in dhcp_utils.c.  A mask is an in_addr_t in *)
(* host order, as its bits; bit 1 is the most significant.                 *)
(***************************************************************************)
EXTENDS Integers, FiniteSets

CONSTANT
    Bits        \* width of in_addr_t: 32 in the code

ASSUME BitsAssumption == Bits \in Nat \ {0}

Mask == [1 .. Bits -> BOOLEAN]
PrefixLength == 0 .. Bits

\* ~0 << (32 - prefix_length), and 0 for a length that is out of range.
prefixLengthToIpv4Netmask(p) == [i \in 1 .. Bits |-> p \in 1 .. Bits /\ i <= p]

\* The loop shifts the mask left as long as its first bit is set: its n-th round
\* is reached if the first n bits are.
ipv4NetmaskToPrefixLength(m) == Cardinality({n \in 1 .. Bits : \A i \in 1 .. n : m[i]})

\* fill_ip_info shifts the mask left until nothing is left of it, ...
ShiftedOut(m) == Cardinality({n \in 1 .. Bits : \E i \in n .. Bits : m[i]})

\* ... and gives up when the first bit is not set before that.
NonContiguous(m) == \E i, j \in 1 .. Bits : i < j /\ ~m[i] /\ m[j]
=============================================================================
