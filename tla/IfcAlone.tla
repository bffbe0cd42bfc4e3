------------------------------ MODULE IfcAlone -----------------------------
(***************************************************************************)
(* Processes that use ifc_utils.c on the interfaces of one machine, while  *)
(* interfaces come and go and other programs work on them.                 *)
(***************************************************************************)
EXTENDS IfcUtils

CONSTANTS
    Kernels,        \* states of the kernel that the library may find
    Calls,          \* the calls that are made: records with the arguments
    MAX_CALLS,      \* bound on the calls of a behaviour
    MAX_EIO,        \* bound on the steps that fail for a reason that is not modelled
    MAX_EVENTS      \* bound on what happens from outside

\* The state in which the kernel keeps its tables: a device that is not there has
\* nothing, and routes are of devices that are up, those with a gateway of devices
\* with an address.
Settled(k) ==
    /\ \A i \in Ifaces : LET link == k.link[i] IN
          ~link.present => link.flags = {} /\ link.addrs = <<>> /\ link.addrs6 = <<>>
    /\ \A r \in Elements(k.routes) :
          Up(k, r.dev) /\ (r.dst \in V4 /\ r.gw # Any4 => k.link[r.dev].addrs # <<>>)
    /\ \A m, n \in DOMAIN k.routes : k.routes[m] = k.routes[n] => m = n

\* The calls there are.  A parameter that is not used may be left out; what is
\* not in V4 or V6 is the text of no address.
AddrCalls == {"ifc_add_address", "ifc_del_address", "ifc_set_hwaddr", "ifc_set_prefixLength",
              "ifc_add_route", "ifc_remove_route"}
Ipv4Calls == {"ifc_add_host_route", "ifc_set_default_route", "ifc_add_ipv4_route"}
Configuring == {"ifc_configure", "do_dhcp"}
CallsThereAre ==
    [fn : {"ifc_init", "ifc_close"}, dev : {NoDev}]
    \cup [fn : {"ifc_enable", "ifc_disable", "ifc_clear_addresses", "ifc_get_info",
                "ifc_remove_host_routes", "ifc_get_default_route", "ifc_remove_default_route"},
          dev : Ifaces]
    \cup [fn : AddrCalls, dev : Ifaces, a : Nat, p : Int, g : Nat \cup {NoGw}]
    \cup [fn : Ipv4Calls, dev : Ifaces, a : V4, p : Int, g : V4]
    \cup [fn : {"ifc_add_ipv6_route"}, dev : Ifaces, a : V6, p : Int, g : V6]
    \cup [fn : Configuring, dev : Ifaces, a : V4, p : Int, g : V4, dns : V4 \X V4]
    \cup [fn : {"ifc_reset_connections"}, dev : Ifaces, mask : SUBSET {"IPV4", "IPV6", "IGNORE"}]

ASSUME AloneAssumption ==
    /\ NoDev \notin Ifaces
    /\ \A k \in Kernels : k \in Kernel /\ Settled(k)
    /\ Calls \subseteq CallsThereAre

VARIABLES
    calm,           \* per process: nobody else touched its interface since its call began
    held,           \* per process: its `open' and `raw' when its call began
    left            \* calls, failures and events that may still happen

vars == <<net, ctl, proc, calm, held, left>>

Init ==
    /\ IfcInit /\ net \in Kernels
    /\ calm = [p \in Procs |-> TRUE] /\ held = [p \in Procs |-> [open |-> {}, raw |-> 0]]
    /\ left = [calls |-> MAX_CALLS, eio |-> MAX_EIO, events |-> MAX_EVENTS]

\* What there is of an interface: its routes too, and which comes before which.
RoutesOf(k, i) ==
    LET rs == {r \in Elements(k.routes) : r.dev = i}
    IN  {w \in rs \X rs : Ahead(k.routes, w[1], w[2])}
View(k, i) == [link |-> k.link[i], dns |-> k.dns[i], routes |-> RoutesOf(k, i)]

Calm(p) ==
    LET i == proc[p].call.dev IN
    calm[p] /\ (i = NoDev \/ (View(net', i) = View(net, i) /\ net'.conns \subseteq net.conns))

Call(p) ==
    /\ left.calls > 0
    /\ left' = [left EXCEPT !.calls = @ - 1]
    /\ \E c \in Calls : Begin(p, c)
    /\ calm' = [calm EXCEPT ![p] = TRUE]
    /\ held' = [held EXCEPT ![p] = [open |-> ctl[p].open, raw |-> ctl[p].raw]]

Continue(p) ==
    /\ ~Idle(p)
    /\ \E outcome \in Outcomes(net, ctl[p], Head(proc[p].todo)) :
          /\ outcome = "EIO" => left.eio > 0
          /\ left' = IF outcome = "EIO" THEN [left EXCEPT !.eio = @ - 1] ELSE left
          /\ Run(p, outcome)
    /\ calm' = [q \in Procs |-> IF q = p THEN calm[q] ELSE Calm(q)] /\ UNCHANGED held

Event ==
    /\ left.events > 0
    /\ left' = [left EXCEPT !.events = @ - 1]
    /\ \/ \E i \in Ifaces : Unplug(i) \/ Plug(i) \/ Capture(i) \/ \E a \in Addrs6 : Autoconf(i, a)
       \/ \E a \in Addrs : Connect(a)
    /\ calm' = [q \in Procs |-> Calm(q)] /\ UNCHANGED held

Next == Event \/ \E p \in Procs : Call(p) \/ Continue(p)

Spec == Init /\ [][Next]_vars

-----------------------------------------------------------------------------

\* A call that has returned and that nobody else disturbed; one that met no error
\* but those it was bound to meet; one of whose steps `do' failed, for address a.
Returned(p, fns) == Idle(p) /\ proc[p].call.fn \in fns /\ calm[p]
NoFault(p) == \A f \in proc[p].errs : f[2] # "EIO"
Failed(p, do) == \E f \in proc[p].errs : f[1].do = do
FailedFor(p, do, a) == \E f \in proc[p].errs : f[1].do = do /\ f[1].a = a /\ f[2] # "ESRCH"
Dev(p) == proc[p].call.dev

\* What a configuration comes to, the DNS servers aside.  SIOCSIFNETMASK is about
\* the first address, which is another one if there was more than one before.
DefaultRoute(i, gw) == [dev |-> i, dst |-> Any4, plen |-> 0, gw |-> gw]
Configured(k, c) ==
    LET link == k.link[c.dev] IN
    /\ Up(k, c.dev) /\ c.a \in Elements(link.addrs)
    /\ Head(link.addrs) = c.a => ipv4NetmaskToPrefixLength(link.mask) = c.p
    /\ HasRoute(k, DefaultRoute(c.dev, c.g))

\* The route that a call asks for.
Asked(c) ==
    CASE c.fn = "ifc_set_default_route" -> DefaultRoute(c.dev, c.g)
      [] c.fn = "ifc_add_host_route" -> [dev |-> c.dev, dst |-> c.a, plen |-> Bits, gw |-> Any4]
      [] OTHER -> [ dev |-> c.dev, dst |-> c.a, plen |-> c.p,
                    gw |-> IF c.g # NoGw THEN c.g ELSE IF c.a \in V6 THEN Any6 ELSE Any4 ]

\* The kernel, the sockets and the results have the shape that the code gives
\* them; a route never has a prefix length that its family does not have.
TypeOK ==
    /\ KernelTypeOK
    /\ ctl \in [Procs -> [sock : Fds \cup {NoSock}, sock6 : Fds \cup {NoSock}, open : SUBSET Fds,
                          raw : Nat]]
    /\ \A p \in Procs :
          /\ proc[p].ret \in {"ok", "error"} /\ proc[p].got.plen \in PrefixLength
          /\ proc[p].got.addr \in V4 /\ proc[p].got.gw \in V4
    /\ calm \in [Procs -> BOOLEAN]

\* The static ifc_ctl_sock and ifc_ctl_sock6 account for every descriptor that is
\* open, over nested pairs of ifc_init and ifc_close and over every error return.
SocketsHeld ==
    \A p \in Procs :
        /\ ctl[p].open = {ctl[p].sock, ctl[p].sock6} \ {NoSock}
        /\ ctl[p].sock = ctl[p].sock6 => ctl[p].sock = NoSock

\* No call but ifc_init returns, however it returns, with a control socket open that
\* was closed when it began; and the packet sockets that a call leaves open are the
\* one of a do_dhcp whose exchange, from the bind on, failed or ended in the
\* parameters of an offer.
LeavesPacketSocket(p) == Failed(p, "exchange") \/ Failed(p, "rawclose")
ReturnsClosed ==
    \A p \in Procs : Idle(p) =>
        /\ proc[p].call.fn # "ifc_init" => ctl[p].open \subseteq held[p].open
        /\ ctl[p].raw = held[p].raw + (IF LeavesPacketSocket(p) THEN 1 ELSE 0)

\* When ifc_configure or do_dhcp reports success, the interface is up with the
\* address, unless that is 0.0.0.0, the prefix length and the default route: no step
\* takes back what an earlier one did.  Its DNS servers are set too, except one whose
\* property_set failed, which nobody is told.
ConfigureIsComplete ==
    \A p \in Procs : LET c == proc[p].call IN
        Returned(p, Configuring) /\ proc[p].ret = "ok" /\ c.a # Any4 =>
            /\ Configured(net, c)
            /\ \A n \in 1 .. 2 :
                  \/ net.dns[c.dev][n] = c.dns[n]
                  \/ \E f \in proc[p].errs : f[1].do = "setdns" /\ f[1].p = n

\* The DNS servers of an interface are set when all the rest of it is: while an
\* ifc_configure that will fail is under way they stay as they were.
DnsIsLast ==
    [][\A i \in Ifaces : net'.dns[i] # net.dns[i] =>
          \E p \in Procs : LET c == proc[p].call IN
              /\ proc'[p] # proc[p] /\ c.fn \in Configuring /\ c.dev = i /\ proc[p].ret = "ok"
              /\ calm[p] /\ c.a # Any4 => Configured(net, c)]_vars

\* ifc_clear_addresses that read /proc/net/if_inet6 in one piece takes every address
\* whose deletion did not fail, and not the link-local one, without which IPv6 would
\* be lost.  When an IPv6 address stays the call says so; for IPv4 it never does.
ClearLeavesLinkLocal ==
    \A p \in Procs : LET link == net.link[Dev(p)] IN
        Returned(p, {"ifc_clear_addresses"}) =>
            /\ link.addrs = <<>> \/ Failed(p, "clear") \/ Failed(p, "setaddr")
            /\ Up(net, Dev(p)) => LinkLocal[Dev(p)] \in Elements(link.addrs6)
            /\ proc[p].got.whole =>
                  \A a \in Elements(link.addrs6) \ LinkLocals :
                      FailedFor(p, "deladdr", a) /\ proc[p].ret = "error"

\* Adding a route reports success if, and only if, the route is there afterwards:
\* one that was there already is no error.
RouteResult ==
    \A p \in Procs :
        Returned(p, {"ifc_set_default_route", "ifc_add_host_route", "ifc_add_route"}) /\ NoFault(p) =>
            (proc[p].ret = "ok" <=> HasRoute(net, Asked(proc[p].call)))

\* ifc_remove_host_routes that read /proc/net/route in one piece leaves no host route
\* of the interface but to destinations for which a deletion failed: no deletion
\* takes the route that another line means and leaves that one without a route.
HostRoutesGo ==
    \A p \in Procs :
        Returned(p, {"ifc_remove_host_routes"}) /\ proc[p].got.whole =>
            \A r \in HostRoutes(net.routes, Dev(p)) : FailedFor(p, "delroute", r.dst)

\* ifc_reset_connections that reports success has closed the connections from the
\* address that the interface had, and still has, or could not read the address: it
\* reports success then too, for connections from 0.0.0.0.
ResetKillsConnections ==
    \A p \in Procs : LET link == net.link[Dev(p)] IN
        Returned(p, {"ifc_reset_connections"}) /\ proc[p].ret = "ok" =>
            \/ proc[p].call.mask \cap {"IPV4", "IGNORE"} # {"IPV4"}
            \/ Failed(p, "getaddr")
            \/ link.addrs = <<>> \/ Head(link.addrs) \notin net.conns

\* A step touches no other interface than that of its call, and of its flags only
\* IFF_UP: the flags that others have set are written back as they were read,
\* unless they were changed in between.
StaysLocal ==
    [][\A p \in Procs : proc'[p] # proc[p] =>
          \A i \in Ifaces :
             IF i # Dev(p) THEN View(net', i) = View(net, i)
             ELSE calm[p] => net'.link[i].flags \ {"UP"} = net.link[i].flags \ {"UP"}]_vars
=============================================================================
