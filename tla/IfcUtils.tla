----------------------------- MODULE IfcUtils ------------------------------
(***************************************************************************)
(* ifc_utils.c: what libnetutils does to network interfaces, one system    *)
(* call at a time.                                                         *)
(*                                                                         *)
(* A C function is an operator of its name that returns a program, the     *)
(* sequence of the steps it takes; calling a function is concatenation.    *)
(* `todo' is what is left of the program that a process runs.  A step that *)
(* fails ends the call after the closes of the functions it is in          *)
(* ("abort") or at once ("return"), or makes the call return an error      *)
(* later ("note"), or has no effect ("ignore").                            *)
(*                                                                         *)
(* The two control sockets are static: all functions of a process share    *)
(* them, and so do functions that call one another.                        *)
(*                                                                         *)
(* Files under /proc are read a block at a time, as stdio does, while what *)
(* they show changes: a read goes on from the line at which the one before *)
(* ended, of the table as it then is.                                      *)
(***************************************************************************)
EXTENDS NetKernel

CONSTANTS
    Procs,          \* processes that use the library at the same time
    CLEAR_MAX,      \* rounds of the loops that clear addresses: 255 in the code
    LINES           \* lines of a file under /proc that stdio reads at once

ASSUME IfcAssumption == CLEAR_MAX \in Nat \ {0} /\ LINES \in Nat \ {0}

VARIABLES
    ctl,            \* per process: ifc_ctl_sock, ifc_ctl_sock6, which descriptors of
                    \* control sockets are open, and how many packet sockets
    proc            \* per process: the call it makes, what is left of it, what came out,
                    \* the steps that failed with their errors

Fds == 0 .. 2       \* one more than a process ever has open
NoSock == -1

Step(do, i, a, p, g) == [do |-> do, dev |-> i, a |-> a, p |-> p, g |-> g, fail |-> "abort"]
Ioctl(do, i) == << Step(do, i, Any4, 0, Any4) >>
OnFailure(how, prog) == [n \in DOMAIN prog |-> [prog[n] EXCEPT !.fail = how]]

(***************************************************************************)
(* The functions.                                                          *)
(***************************************************************************)

\* Steps on the sockets are for no interface.
NoDev == "-"
ifc_init == Ioctl("socket", NoDev)
ifc_init6 == Ioctl("socket6", NoDev)
ifc_close == Ioctl("close", NoDev)
ifc_close6 == Ioctl("close6", NoDev)

\* ifc_set_flags: SIOCGIFFLAGS and, if that succeeds, SIOCSIFFLAGS.
ifc_set_flags(i, up) == << Step("getflags", i, Any4, up, Any4) >>
ifc_up(i) == ifc_set_flags(i, 1)
ifc_down(i) == ifc_set_flags(i, 0)

ifc_get_hwaddr(i) == Ioctl("gethwaddr", i)
ifc_get_ifindex(i) == Ioctl("getindex", i)
ifc_get_addr(i) == Ioctl("getaddr", i)
ifc_set_addr(i, a) == << Step("setaddr", i, a, 0, Any4) >>
ifc_set_hwaddr(i, a) == << Step("sethwaddr", i, a, 0, Any4) >>

ifc_set_mask(i, p) == << Step("setmask", i, Any4, p, Any4) >>

\* A length that is no prefix length is refused before there is an ioctl.
ifc_set_prefixLength(i, p) ==
    IF p > Bits \/ p < 0 THEN Ioctl("refuse", i) ELSE ifc_set_mask(i, p)

\* A value that is wanted and cannot be read is 0, and the result is 0 still.
ifc_get_info(i, wanted) ==
    OnFailure("ignore",
        (IF "addr" \in wanted THEN Ioctl("getaddr", i) ELSE <<>>)
        \o (IF "plen" \in wanted THEN Ioctl("getmask", i) ELSE <<>>)
        \o (IF "flags" \in wanted THEN Ioctl("readflags", i) ELSE <<>>))

\* The family of an address, of which its text is parsed.
string_to_ip(a) == IF a \in V4 THEN "AF_INET" ELSE IF a \in V6 THEN "AF_INET6" ELSE "EAI_NONAME"

\* An address of either family, over a netlink socket of its own.
ifc_act_on_address(action, i, a, p) ==
    << Step(IF string_to_ip(a) = "EAI_NONAME" THEN "refuse" ELSE action, i, a, p, Any4) >>
ifc_add_address(i, a, p) == ifc_act_on_address("newaddr", i, a, p)
ifc_del_address(i, a, p) == ifc_act_on_address("deladdr", i, a, p)

\* One round of the loops that clear addresses; the first address that cannot
\* be read ends the loop.
ClearRound(i, n) == OnFailure("ignore", << Step("clear", i, Any4, n, Any4) >>)

ifc_clear_ipv4_addresses(i) == ifc_init \o ClearRound(i, CLEAR_MAX) \o ifc_close

\* /proc/net/if_inet6, and a deletion per line.
ifc_clear_ipv6_addresses(i) == Ioctl("scan6", i)

ifc_clear_addresses(i) == ifc_clear_ipv4_addresses(i) \o ifc_clear_ipv6_addresses(i)

\* Changed form: the route is an error if it is there already.
NoErrors == {}
\* Errors of a route ioctl that count as success, whatever the action.
Tolerated == {"EEXIST"}

\* Changed form: the length as it is.
UnmaskedLength(p) == p
\* The kernel gets the netmask, which is 0 for a length that is out of range.
MaskLength(p) == ipv4NetmaskToPrefixLength(prefixLengthToIpv4Netmask(p))

ifc_act_on_ipv4_route(action, i, dst, p, gw) ==
    ifc_init \o << Step(action, i, dst, MaskLength(p), gw) >> \o ifc_close

OnSocket6(action) == IF action = "addroute" THEN "addroute6" ELSE "delroute6"
\* if_nametoindex is first; after it has failed there is no socket to close.
ifc_act_on_ipv6_route(action, i, dst, p, gw) ==
    Ioctl("getindex6", i) \o ifc_init6 \o << Step(OnSocket6(action), i, dst, p, gw) >> \o ifc_close6

ifc_create_default_route(i, gw) == ifc_act_on_ipv4_route("addroute", i, Any4, 0, gw)
ifc_add_host_route(i, dst) == ifc_act_on_ipv4_route("addroute", i, dst, Bits, Any4)

\* Deprecated; there is no check of the prefix length.
ifc_add_ipv4_route(i, dst, p, gw) == ifc_act_on_ipv4_route("addroute", i, dst, p, gw)
ifc_add_ipv6_route(i, dst, p, gw) == ifc_act_on_ipv6_route("addroute", i, dst, p, gw)

ifc_enable(i) == ifc_init \o ifc_up(i) \o ifc_close

\* The result is that of ifc_down; the address goes whether it succeeded or not.
ifc_disable(i) ==
    ifc_init \o OnFailure("note", ifc_down(i)) \o OnFailure("ignore", ifc_set_addr(i, Any4))
    \o ClearRound(i, CLEAR_MAX) \o ifc_close

\* Changed form: the address of the interface is not read.
ResetUnread(i, mask) ==
    IF "IPV4" \notin mask THEN <<>>
    ELSE ifc_init \o OnFailure("note", Ioctl("kill", i)) \o ifc_close

ifc_reset_connections(i, mask) ==
    (IF "IPV4" \notin mask THEN <<>>
     ELSE ifc_init
          \o (IF "IGNORE" \in mask THEN <<>> ELSE ifc_get_info(i, {"addr"}))
          \o OnFailure("note", Ioctl("kill", i)) \o ifc_close)
    \o (IF "IPV6" \notin mask THEN <<>>
        ELSE ifc_init6 \o OnFailure("note", Ioctl("kill6", i)) \o ifc_close6)

\* /proc/net/route, and a deletion per line.  The header is read before ifc_init.
ifc_remove_host_routes(i) == Ioctl("scanhosts", i)
ifc_get_default_route(i) == OnFailure("ignore", Ioctl("scandefault", i))

ifc_set_default_route(i, gw) == ifc_init \o ifc_create_default_route(i, gw) \o ifc_close

ifc_remove_default_route(i) ==
    ifc_init \o << Step("delroute", i, Any4, 0, Any4) >> \o ifc_close

\* property_set, twice; what it returns is not looked at.
SetDns(i, dns) ==
    OnFailure("ignore",
        << Step("setdns", i, dns[1], 1, Any4), Step("setdns", i, dns[2], 2, Any4) >>)

\* Changed forms: the route first, and the DNS servers first.
ConfigureRouteFirst(i, a, p, gw, dns) ==
    ifc_init \o ifc_up(i) \o ifc_create_default_route(i, gw) \o ifc_init \o ifc_set_addr(i, a)
    \o ifc_set_prefixLength(i, p) \o ifc_close \o SetDns(i, dns)
ConfigureDnsFirst(i, a, p, gw, dns) ==
    SetDns(i, dns) \o ifc_init \o ifc_up(i) \o ifc_set_addr(i, a) \o ifc_set_prefixLength(i, p)
    \o ifc_create_default_route(i, gw) \o ifc_close

\* ifc_create_default_route closes the socket before the last ifc_close does.
ifc_configure(i, a, p, gw, dns) ==
    ifc_init \o ifc_up(i) \o ifc_set_addr(i, a) \o ifc_set_prefixLength(i, p)
    \o ifc_create_default_route(i, gw) \o ifc_close \o SetDns(i, dns)

\* The family is that of the destination; no gateway, NULL or the empty text, is
\* 0.0.0.0 or :: of this family.
NoGw == -1
ifc_act_on_route(action, i, dst, p, gw) ==
    LET via == IF gw # NoGw THEN gw ELSE IF dst \in V6 THEN Any6 ELSE Any4 IN
    IF dst \in V4 /\ via \in V4 /\ p \in 0 .. Bits
    THEN ifc_act_on_ipv4_route(action, i, dst, p, via)
    ELSE IF dst \in V6 /\ via \in V6 /\ p \in 0 .. 128
    THEN ifc_act_on_ipv6_route(action, i, dst, p, via)
    ELSE Ioctl("refuse", i)

ifc_add_route(i, dst, p, gw) == ifc_act_on_route("addroute", i, dst, p, gw)
ifc_remove_route(i, dst, p, gw) == ifc_act_on_route("delroute", i, dst, p, gw)

\* packet.c.  That bind() may fail is part of the exchange: its socket stays open too.
open_raw_socket(i) == Ioctl("rawsocket", i)

\* dhcpclient.c.  It leaves opening the control socket to its caller, whose socket
\* an early error return leaves open and ifc_configure closes.  The exchange is on
\* a packet socket of its own: it fails when bind, poll or receive_packet do, the
\* socket is not closed then, nor ("rawclose" fails) when the client falls back to
\* the parameters that it was offered; "verdict" fails on a NAK or when nothing
\* came.  Without a packet socket nothing comes either.
dhcp_configure(i, a, p, gw, dns) == ifc_configure(i, a, p, gw, dns)
do_dhcp(i, a, p, gw, dns) ==
    OnFailure("return",
        ifc_set_addr(i, Any4) \o ifc_up(i) \o ifc_get_hwaddr(i) \o ifc_get_ifindex(i)
        \o open_raw_socket(i) \o Ioctl("exchange", i))
    \o OnFailure("ignore", Ioctl("rawclose", i)) \o OnFailure("return", Ioctl("verdict", i))
    \o dhcp_configure(i, a, p, gw, dns)

(***************************************************************************)
(* A call, and the steps of its program.                                   *)
(***************************************************************************)

Program(c) ==
    CASE c.fn = "ifc_init" -> OnFailure("note", ifc_init)
      [] c.fn = "ifc_close" -> ifc_close
      [] c.fn = "ifc_enable" -> ifc_enable(c.dev)
      [] c.fn = "ifc_disable" -> ifc_disable(c.dev)
      [] c.fn = "ifc_clear_addresses" -> ifc_clear_addresses(c.dev)
      [] c.fn = "ifc_set_hwaddr" -> ifc_set_hwaddr(c.dev, c.a)
      [] c.fn = "ifc_add_address" -> ifc_add_address(c.dev, c.a, c.p)
      [] c.fn = "ifc_del_address" -> ifc_del_address(c.dev, c.a, c.p)
      [] c.fn = "ifc_set_prefixLength" -> ifc_set_prefixLength(c.dev, c.p)
      [] c.fn = "ifc_get_info" -> ifc_get_info(c.dev, {"addr", "plen", "flags"})
      [] c.fn = "ifc_configure" -> ifc_configure(c.dev, c.a, c.p, c.g, c.dns)
      [] c.fn = "ifc_add_host_route" -> ifc_add_host_route(c.dev, c.a)
      [] c.fn = "ifc_remove_host_routes" -> ifc_remove_host_routes(c.dev)
      [] c.fn = "ifc_set_default_route" -> ifc_set_default_route(c.dev, c.g)
      [] c.fn = "ifc_get_default_route" -> ifc_get_default_route(c.dev)
      [] c.fn = "ifc_remove_default_route" -> ifc_remove_default_route(c.dev)
      [] c.fn = "ifc_add_ipv4_route" -> ifc_add_ipv4_route(c.dev, c.a, c.p, c.g)
      [] c.fn = "ifc_add_ipv6_route" -> ifc_add_ipv6_route(c.dev, c.a, c.p, c.g)
      [] c.fn = "ifc_add_route" -> ifc_add_route(c.dev, c.a, c.p, c.g)
      [] c.fn = "ifc_remove_route" -> ifc_remove_route(c.dev, c.a, c.p, c.g)
      [] c.fn = "ifc_reset_connections" -> ifc_reset_connections(c.dev, c.mask)
      [] c.fn = "do_dhcp" -> do_dhcp(c.dev, c.a, c.p, c.g, c.dns)

NoCall == [fn |-> "none", dev |-> NoDev]
NothingRead == [addr |-> Any4, plen |-> 0, flags |-> {}, gw |-> Any4, whole |-> FALSE]

IfcInit ==
    /\ ctl = [p \in Procs |-> [sock |-> NoSock, sock6 |-> NoSock, open |-> {}, raw |-> 0]]
    /\ proc = [p \in Procs |->
                [call |-> NoCall, todo |-> <<>>, ret |-> "ok", errs |-> {}, got |-> NothingRead]]

Idle(p) == proc[p].todo = <<>>

Begin(p, c) ==
    /\ Idle(p)
    /\ proc' = [proc EXCEPT ![p] =
                [call |-> c, todo |-> Program(c), ret |-> "ok", errs |-> {}, got |-> NothingRead]]
    /\ UNCHANGED <<net, ctl>>

\* Which socket a step needs, if it needs one.
OnSock == { "getflags", "setflags", "readflags", "gethwaddr", "getindex", "getaddr",
            "setaddr", "sethwaddr", "getmask", "setmask", "clear", "addroute", "delroute", "kill" }
OnSock6 == { "addroute6", "delroute6", "kill6" }
OfDevice == (OnSock \ {"kill"}) \cup {"addroute6", "delroute6", "getindex6", "newaddr", "deladdr"}

RouteOf(s) == [dev |-> s.dev, dst |-> s.a, plen |-> s.p, gw |-> s.g]
AddsRoute(s) == s.do \in {"addroute", "addroute6"}
OnRoute(s) == AddsRoute(s) \/ s.do \in {"delroute", "delroute6"}
NeedsAddr(s) == s.do \in {"getaddr", "getmask", "setmask", "clear"}

\* What is wrong with a step that reaches its device.
Wrong(k, s) ==
    LET i == s.dev
        bare == k.link[i].addrs = <<>>
    IN  { e \in {"EADDRNOTAVAIL", "EBUSY", "EEXIST", "EINVAL", "ENETDOWN", "ENETUNREACH", "ESRCH"} :
            \/ e = "EADDRNOTAVAIL" /\ NeedsAddr(s) /\ bare
            \/ e = "EADDRNOTAVAIL" /\ s.do = "deladdr" /\ s.a \notin Assigned(k, i)
            \/ e = "EADDRNOTAVAIL" /\ s.do = "newaddr" /\ s.a = Any6
            \/ e = "EBUSY" /\ s.do = "sethwaddr" /\ Up(k, i)
            \/ e = "EEXIST" /\ AddsRoute(s) /\ HasRoute(k, RouteOf(s))
            \/ e = "EEXIST" /\ s.do = "newaddr" /\ s.a \in Assigned(k, i)
            \/ e = "EINVAL" /\ s.do = "addroute6" /\ s.p \notin 0 .. 128
            \/ e = "ENETDOWN" /\ AddsRoute(s) /\ ~Up(k, i)
            \/ e = "ENETUNREACH" /\ s.do = "addroute" /\ s.g # Any4 /\ bare
            \/ e = "ESRCH" /\ OnRoute(s) /\ ~AddsRoute(s) /\ Matches(k, RouteOf(s)) = {} }

\* The errors that a step is bound to meet one of, and then any other.
Certain(k, cs, s) ==
    IF s.do = "refuse" THEN {"EINVAL"}
    ELSE IF (s.do \in OnSock /\ cs.sock = NoSock) \/ (s.do \in OnSock6 /\ cs.sock6 = NoSock) THEN {"EBADF"}
    ELSE IF s.do \notin OfDevice THEN {}
    ELSE IF ~k.link[s.dev].present THEN {"ENODEV"}
    ELSE Wrong(k, s)

Sure == {"close", "close6"}
Outcomes(k, cs, s) ==
    IF Certain(k, cs, s) # {} THEN Certain(k, cs, s)
    ELSE IF s.do \in Sure THEN {"ok"} ELSE {"ok", "EIO"}

\* (flags & ~clr) | set, for what SIOCGIFFLAGS gave.
\* Changed form: the flags that were read are forgotten.
OnlyUp(flags, up) == IF up = 1 THEN {"UP"} ELSE {}
NewFlags(flags, up) == IF up = 1 THEN flags \cup {"UP"} ELSE flags \ {"UP"}

\* What a step that succeeds does to the kernel.
Effect(k, pr, s) ==
    LET i == s.dev IN
    CASE s.do = "setflags" -> SetFlags(k, i, NewFlags(pr.got.flags, s.p))
      [] s.do = "setaddr" -> SetAddr(k, i, s.a)
      [] s.do = "sethwaddr" -> [k EXCEPT !.link[i].hwaddr = s.a]
      [] s.do = "setmask" -> SetMask(k, i, prefixLengthToIpv4Netmask(s.p))
      [] s.do \in {"addroute", "addroute6"} -> AddRoute(k, RouteOf(s))
      [] s.do \in {"delroute", "delroute6"} -> DelRoute(k, RouteOf(s))
      [] s.do = "newaddr" -> NewAddr(k, i, s.a)
      [] s.do = "deladdr" -> DelAddr(k, i, s.a)
      [] s.do = "kill" -> KillAddr(k, pr.got.addr)
      [] s.do = "setdns" -> [k EXCEPT !.dns[i][s.p] = s.a]
      [] OTHER -> k

\* The lines of /proc/net/route, and those of an interface in /proc/net/if_inet6.
Lines4(k) == Keep(k.routes, {r \in Elements(k.routes) : r.dst \in V4})
Lines6(k, i) == k.link[i].addrs6
\* What is read at once when p lines have been read.
Block(q, p) == SubSeq(q, p + 1, IF p + LINES < Len(q) THEN p + LINES ELSE Len(q))

\* What a step reads.  `whole': the table that it starts to read is a single block.
Reads(k, got, s) ==
    LET link == k.link[s.dev] IN
    CASE s.do \in {"getflags", "readflags"} -> [got EXCEPT !.flags = link.flags]
      [] s.do = "getaddr" -> [got EXCEPT !.addr = Head(link.addrs)]
      [] s.do = "getmask" -> [got EXCEPT !.plen = ipv4NetmaskToPrefixLength(link.mask)]
      [] s.do = "scanhosts" -> [got EXCEPT !.whole = Len(Lines4(k)) <= LINES]
      [] s.do = "scan6" -> [got EXCEPT !.whole = Len(Lines6(k, s.dev)) <= LINES]
      [] s.do = "scandefault" ->
            LET n == {m \in DOMAIN k.routes :
                        /\ k.routes[m].dev = s.dev /\ k.routes[m].dst = Any4
                        /\ k.routes[m].plen = 0 /\ k.routes[m].gw # Any4}
            IN  [got EXCEPT !.gw = IF n = {} THEN Any4
                    ELSE k.routes[CHOOSE m \in n : \A j \in n : m <= j].gw]
      [] OTHER -> got

\* The deletions that the lines of a block of /proc/net/if_inet6 or /proc/net/route
\* bring.  Changed forms: the link-local addresses too; only routes without a gateway.
AllDeletions(b, i) == [n \in DOMAIN b |-> Step("deladdr", i, b[n], 0, Any4)]
HostRoutes(b, i) == {r \in Elements(b) : r.dev = i /\ r.dst \in V4 /\ r.plen = Bits}
DirectDeletions(b, i) ==
    LET rs == Keep(b, {r \in HostRoutes(b, i) : r.gw = Any4})
    IN  [n \in DOMAIN rs |-> Step("delroute", i, rs[n].dst, Bits, rs[n].gw)]

AddressDeletions(b, i) ==
    LET as == Keep(b, Addrs6 \ LinkLocals)
    IN  [n \in DOMAIN as |-> Step("deladdr", i, as[n], 0, Any4)]
RouteDeletions(b, i) ==
    LET rs == Keep(b, HostRoutes(b, i))
    IN  [n \in DOMAIN rs |-> Step("delroute", i, rs[n].dst, Bits, rs[n].gw)]

\* The read that follows a block of n lines; one that fails or gets nothing is the last.
ThenRead(do, i, p, n) ==
    IF n = 0 THEN <<>> ELSE OnFailure("ignore", << Step(do, i, Any4, p + n, Any4) >>)
ReadAddresses(k, i, p) ==
    LET b == Block(Lines6(k, i), p)
    IN  OnFailure("note", AddressDeletions(b, i)) \o ThenRead("readaddrs", i, p, Len(b))
ReadRoutes(k, i, p) ==
    LET b == Block(Lines4(k), p)
    IN  OnFailure("ignore", RouteDeletions(b, i)) \o ThenRead("readroutes", i, p, Len(b))

\* What a step that succeeds puts before the rest of the program.
Unfolds(k, s) ==
    CASE s.do = "getflags" -> << [s EXCEPT !.do = "setflags"] >>
      [] s.do = "clear" ->
            OnFailure("ignore", ifc_set_addr(s.dev, Any4))
            \o (IF s.p > 1 THEN ClearRound(s.dev, s.p - 1) ELSE <<>>)
      [] s.do \in {"scan6", "readaddrs"} -> ReadAddresses(k, s.dev, s.p)
      [] s.do = "scanhosts" -> ifc_init \o ReadRoutes(k, s.dev, 0) \o ifc_close
      [] s.do = "readroutes" -> ReadRoutes(k, s.dev, s.p)
      [] s.do = "scandefault" -> ifc_init \o ifc_close
      [] OTHER -> <<>>

\* What a step does to the sockets of its process.  A socket that is open is not
\* opened again, and the lowest free descriptor is taken.
NewFd(cs) == CHOOSE f \in Fds \ cs.open : \A g \in Fds \ cs.open : f <= g
\* Changed form: ifc_init opens a socket each time.
OpensAgain(cs, s) ==
    IF s.do = "socket" THEN [cs EXCEPT !.sock = NewFd(cs), !.open = @ \cup {NewFd(cs)}]
    ELSE IF s.do = "close" THEN [cs EXCEPT !.sock = NoSock, !.open = @ \ {cs.sock}]
    ELSE cs

Sockets(cs, s) ==
    CASE s.do = "socket" /\ cs.sock = NoSock ->
            [cs EXCEPT !.sock = NewFd(cs), !.open = @ \cup {NewFd(cs)}]
      [] s.do = "socket6" /\ cs.sock6 = NoSock ->
            [cs EXCEPT !.sock6 = NewFd(cs), !.open = @ \cup {NewFd(cs)}]
      [] s.do = "close" -> [cs EXCEPT !.sock = NoSock, !.open = @ \ {cs.sock}]
      [] s.do = "close6" -> [cs EXCEPT !.sock6 = NoSock, !.open = @ \ {cs.sock6}]
      [] s.do = "rawsocket" -> [cs EXCEPT !.raw = @ + 1]
      [] s.do = "rawclose" -> [cs EXCEPT !.raw = @ - 1]
      [] OTHER -> cs

\* Changed form: an error return forgets ifc_close.
ClosesNothing(prog) == <<>>

Closes(prog) == Keep(prog, {s \in Elements(prog) : s.do \in {"close", "close6"}})

\* How a program goes on after a step that fails.
GoesOn(s, error) ==
    s.fail \in {"note", "ignore"} \/ s.do \in {"socket", "socket6"} \/ (OnRoute(s) /\ error \in Tolerated)
Noted(s, error) == s.fail = "note" \/ ~GoesOn(s, error)

\* The next step of the program of a process: it succeeds, or it fails.
Do(p) ==
    LET s == Head(proc[p].todo) IN
    /\ net' = Effect(net, proc[p], s)
    /\ ctl' = [ctl EXCEPT ![p] = Sockets(@, s)]
    /\ proc' = [proc EXCEPT ![p].todo = Unfolds(net, s) \o Tail(@), ![p].got = Reads(net, @, s)]

Fail(p, error) ==
    LET s == Head(proc[p].todo) IN
    /\ proc' = [proc EXCEPT ![p].todo = IF GoesOn(s, error) THEN Tail(@)
                                        ELSE IF s.fail = "return" THEN <<>>
                                        ELSE Closes(Tail(@)),
                            ![p].ret = IF Noted(s, error) THEN "error" ELSE @,
                            ![p].errs = @ \cup {<<s, error>>}]
    /\ UNCHANGED <<net, ctl>>

Run(p, outcome) ==
    /\ ~Idle(p)
    /\ outcome \in Outcomes(net, ctl[p], Head(proc[p].todo))
    /\ IF outcome = "ok" THEN Do(p) ELSE Fail(p, outcome)

(***************************************************************************)
(* What happens to interfaces from outside.                                *)
(***************************************************************************)

Outside(k) == net' = k /\ UNCHANGED <<ctl, proc>>

Unplug(i) ==
    /\ net.link[i].present
    /\ Outside([Flush(net, i, V4 \cup V6) EXCEPT !.link[i] =
                   [@ EXCEPT !.present = FALSE, !.flags = {}, !.addrs = <<>>, !.addrs6 = <<>>]])

Plug(i) ==
    /\ ~net.link[i].present
    /\ Outside([net EXCEPT !.link[i].present = TRUE])

\* A packet capture makes an interface promiscuous, and not when it ends.
Capture(i) ==
    /\ net.link[i].present
    /\ Outside([net EXCEPT !.link[i].flags = IF "PROMISC" \in @ THEN @ \ {"PROMISC"}
                                             ELSE @ \cup {"PROMISC"}])

\* A router advertisement gives the interface an address.
Autoconf(i, a) ==
    /\ Up(net, i) /\ a \in Addrs6 \ (Assigned(net, i) \cup LinkLocals)
    /\ Outside(NewAddr(net, i, a))

Connect(a) ==
    /\ a \in Local(net) \ net.conns
    /\ Outside([net EXCEPT !.conns = @ \cup {a}])
=============================================================================
