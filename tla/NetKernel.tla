----------------------------- MODULE NetKernel -----------------------------
(***************************************************************************)
(* The part of the kernel that ifc_utils.c works on: interfaces with their *)
(* flags and addresses, the routing table, connections, and the init       *)
(* properties with the DNS servers of an interface.  None of it is in this *)
(* repository; it is modelled as ifc_utils.c relies on it.                 *)
(*                                                                         *)
(* An address is a number; the family it belongs to is known by the set it *)
(* is in.                                                                  *)
(***************************************************************************)
EXTENDS Netmask, Sequences

CONSTANTS
    Ifaces,         \* interface names
    Addrs,          \* IPv4 addresses other than 0.0.0.0
    Addrs6,         \* IPv6 addresses other than ::
    LinkLocal,      \* the link-local one (fe80:...) of each interface
    Any6,           \* the address ::
    ClassPrefix     \* the prefix length of the address class, set with an address

Any4 == 0
V4 == Addrs \cup {Any4}
V6 == Addrs6 \cup {Any6}
LinkLocals == {LinkLocal[i] : i \in Ifaces}

ASSUME KernelAssumption ==
    /\ Addrs \subseteq Nat \ {0} /\ V6 \subseteq Nat \ V4
    /\ LinkLocal \in [Ifaces -> Addrs6] /\ ClassPrefix \in PrefixLength

VARIABLE
    net             \* the state of the kernel and of the DNS properties

Link ==
    [ present : BOOLEAN,
      flags : SUBSET {"UP", "PROMISC"},
      hwaddr : Nat,             \* 0: its own
      addrs : Seq(Addrs),       \* the IPv4 addresses, first one first
      mask : Mask,              \* the netmask of the first one
      addrs6 : Seq(Addrs6) ]

Route == [dev : Ifaces, dst : V4, plen : PrefixLength, gw : V4]
         \cup [dev : Ifaces, dst : V6, plen : 0 .. 128, gw : V6]

Kernel == [ link : [Ifaces -> Link],
            routes : Seq(Route),          \* first match first
            conns : SUBSET Addrs,         \* local addresses of open connections
            dns : [Ifaces -> V4 \X V4] ]  \* net.<interface>.dns1 and dns2
KernelTypeOK == net \in Kernel

\* The state of a machine that has just started.
Boot ==
    [ link |-> [i \in Ifaces |->
                 [ present |-> TRUE, flags |-> {}, hwaddr |-> 0, addrs |-> <<>>,
                   mask |-> prefixLengthToIpv4Netmask(0), addrs6 |-> <<>> ]],
      routes |-> <<>>, conns |-> {}, dns |-> [i \in Ifaces |-> <<Any4, Any4>>] ]

Up(k, i) == "UP" \in k.link[i].flags
Elements(q) == {q[n] : n \in DOMAIN q}
Ahead(q, x, y) == \E m, n \in DOMAIN q : m <= n /\ q[m] = x /\ q[n] = y

\* The elements of q that are in S, in their order.
Keep(q, S) ==
    LET N == {m \in DOMAIN q : q[m] \in S}
        at(j) == CHOOSE m \in N : Cardinality({n \in N : n <= m}) = j
    IN  [j \in 1 .. Cardinality(N) |-> q[at(j)]]

HasRoute(k, r) == r \in Elements(k.routes)
Local(k) == UNION {Elements(k.link[i].addrs) : i \in Ifaces}

\* A device that loses its last IPv4 address, or goes down, loses its routes.
RoutesWithout(k, i, family) ==
    Keep(k.routes, {r \in Elements(k.routes) : r.dev # i \/ r.dst \notin family})
Flush(k, i, family) == [k EXCEPT !.routes = RoutesWithout(k, i, family)]

WithAddrs(k, i, addrs) ==
    LET f == IF addrs = <<>> THEN Flush(k, i, V4) ELSE k
    IN  [f EXCEPT !.link[i].addrs = addrs]

\* SIOCSIFADDR replaces the first address, unless it is this one already.
SetAddr(k, i, a) ==
    LET old == k.link[i].addrs
        rest == WithAddrs(k, i, IF old = <<>> THEN old ELSE Tail(old))
    IN  IF old # <<>> /\ Head(old) = a THEN k
        ELSE IF a = Any4 THEN rest
        ELSE [rest EXCEPT !.link[i].addrs = Append(@, a),
                          !.link[i].mask = prefixLengthToIpv4Netmask(ClassPrefix)]

\* SIOCSIFNETMASK takes the address out and puts it back with the new mask.
SetMask(k, i, m) ==
    IF k.link[i].mask = m THEN k
    ELSE LET f == IF Len(k.link[i].addrs) = 1 THEN Flush(k, i, V4) ELSE k
         IN  [f EXCEPT !.link[i].mask = m]

\* SIOCSIFFLAGS: going up brings the link-local addresses, going down takes
\* all IPv6 addresses and all routes.
SetFlags(k, i, flags) ==
    LET up == "UP" \in flags
        f == IF up \/ ~Up(k, i) THEN k ELSE Flush(k, i, V4 \cup V6)
    IN  [f EXCEPT !.link[i].flags = flags,
                  !.link[i].addrs6 = IF ~up THEN <<>> ELSE IF Up(k, i) THEN @ ELSE <<LinkLocal[i]>>]

\* A new route comes before the others.  No gateway means: whatever gateway.
AddRoute(k, r) == [k EXCEPT !.routes = <<r>> \o @]
Matches(k, r) ==
    {n \in DOMAIN k.routes :
        k.routes[n] = [r EXCEPT !.gw = IF r.gw \in {Any4, Any6} THEN k.routes[n].gw ELSE @]}
DelRoute(k, r) ==
    LET first == CHOOSE n \in Matches(k, r) : \A m \in Matches(k, r) : n <= m
    IN  [k EXCEPT !.routes = SubSeq(@, 1, first - 1) \o SubSeq(@, first + 1, Len(@))]

\* RTM_NEWADDR and RTM_DELADDR.  0.0.0.0 is accepted and not added.
NewAddr(k, i, a) ==
    IF a \in Addrs6 THEN [k EXCEPT !.link[i].addrs6 = Append(@, a)]
    ELSE IF a = Any4 THEN k
    ELSE WithAddrs(k, i, Append(k.link[i].addrs, a))
Others(addrs, a) == Keep(addrs, Elements(addrs) \ {a})
DelAddr(k, i, a) ==
    IF a \in Addrs6 THEN [k EXCEPT !.link[i].addrs6 = Others(@, a)]
    ELSE WithAddrs(k, i, Others(k.link[i].addrs, a))
Assigned(k, i) == Elements(k.link[i].addrs) \cup Elements(k.link[i].addrs6)

\* SIOCKILLADDR: the connections from an address; with 0.0.0.0, those from
\* addresses that no interface has any more.
KillAddr(k, a) == [k EXCEPT !.conns = IF a = Any4 THEN @ \cap Local(k) ELSE @ \ {a}]
=============================================================================
