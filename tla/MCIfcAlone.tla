----------------------------- MODULE MCIfcAlone ----------------------------
EXTENDS IfcAlone, TLC

\* 1 is leased, 2 is added by hand, 3 is the gateway; 11 and 12 are link-local.
MCLinkLocal == [i \in Ifaces |-> IF i = "wlan0" THEN 11 ELSE 12]
MCResets == {{"IPV4", "IGNORE"}, {"IPV4", "IPV6"}}

Plain(fn, i) == [fn |-> fn, dev |-> i]
Acting(fn, i, a, p, g) == [fn |-> fn, dev |-> i, a |-> a, p |-> p, g |-> g]
Lease(fn, i) == [fn |-> fn, dev |-> i, a |-> 1, p |-> 2, g |-> 3, dns |-> <<3, 0>>]

CallsOn(i) ==
    {Plain(fn, i) : fn \in
        {"ifc_enable", "ifc_disable", "ifc_clear_addresses", "ifc_get_info", "ifc_remove_host_routes",
         "ifc_get_default_route", "ifc_remove_default_route"}}
    \cup {Lease(fn, i) : fn \in {"ifc_configure", "do_dhcp"}}
    \cup {[fn |-> "ifc_reset_connections", dev |-> i, mask |-> m] : m \in MCResets}
    \cup {Acting("ifc_add_address", i, a, Bits, Any4) : a \in {2, 13}}
    \cup {Acting("ifc_set_prefixLength", i, Any4, Bits + 1, Any4), Acting("ifc_set_hwaddr", i, 5, 0, Any4)}
    \cup {Acting("ifc_add_host_route", i, 2, Bits, Any4), Acting("ifc_set_default_route", i, Any4, 0, 3),
          Acting("ifc_del_address", i, 2, Bits, Any4),
          Acting("ifc_add_route", i, 2, Bits, 3), Acting("ifc_remove_route", i, 2, Bits, Any4),
          Acting("ifc_add_route", i, 13, 128, NoGw), Acting("ifc_add_route", i, 13, 128, Any4),
          Acting("ifc_add_route", i, 2, Bits + 1, Any4),
          Acting("ifc_add_ipv4_route", i, 2, Bits + 1, Any4)}
\* The second interface gets the calls that do most.
MCCalls ==
    {[fn |-> "ifc_init", dev |-> NoDev], [fn |-> "ifc_close", dev |-> NoDev]}
    \cup CallsOn("wlan0")
    \cup {c \in CallsOn("p2p0") : c.fn \in {"ifc_configure", "ifc_disable", "ifc_clear_addresses"}}

\* A machine that has just started, and one on which wlan0 is in use.
InUse ==
    LET i == "wlan0" IN
    [ Boot EXCEPT
        !.link[i] = [@ EXCEPT !.flags = {"UP"}, !.addrs = <<1>>, !.addrs6 = <<11, 13>>,
                              !.mask = prefixLengthToIpv4Netmask(ClassPrefix)],
        !.routes = << [dev |-> i, dst |-> 2, plen |-> Bits, gw |-> Any4],
                      [dev |-> i, dst |-> 2, plen |-> Bits, gw |-> 3],
                      [dev |-> i, dst |-> Any4, plen |-> 0, gw |-> 3] >>,
        !.conns = {1} ]
\* The same, with more routes than are read at once, a host route after them.
Crowded ==
    [ InUse EXCEPT !.routes = Append(@, [dev |-> "wlan0", dst |-> 3, plen |-> Bits, gw |-> Any4]) ]
MCKernels == {Boot, InUse, Crowded}

CONSTANTS h1, h2
MCProcs == {h1, h2}
Symmetric == Permutations(MCProcs)
=============================================================================
