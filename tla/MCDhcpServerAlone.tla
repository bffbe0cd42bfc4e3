------------------------- MODULE MCDhcpServerAlone -------------------------
(***************************************************************************)
(* Small networks and small sets of datagrams for DhcpServerAlone.         *)
(***************************************************************************)
EXTENDS DhcpServerAlone

\* The subnet is 1..3, the server has address 1; 11 is a server elsewhere.
Subnet == 0 .. 3
OneRange == <<[start |-> 2, end |-> 3, router |-> 1, net |-> 1 .. 3]>>
OneAddress == <<[start |-> 2, end |-> 2, router |-> 1, net |-> 1 .. 3]>>
ThreeAddresses == <<[start |-> 2, end |-> 4, router |-> 1, net |-> 1 .. 4]>>

NoLines == {{}}
HashOf(hosts) == [h \in Hosts |-> IF h \in hosts THEN 0 ELSE 1]
SameHash == HashOf(Hosts)
OtherHash == HashOf({"a"})

Silent == {{}}
Anyone == {{}, {2}}

(***************************************************************************)
(* Datagrams by kind.                                                      *)
(***************************************************************************)
Blank(type, h, id) ==
    [ dir |-> "request", type |-> type, chaddr |-> h, xid |-> 0, clid |-> id,
      ciaddr |-> NoAddr, reqip |-> NoAddr, sid |-> NoAddr, name |-> NoName, unicast |-> FALSE ]

Discovers(clients, want) ==
    {[Blank("discover", c[1], c[2]) EXCEPT !.reqip = a] : c \in clients, a \in want}
Selects(clients, want, sids, names) ==
    {[Blank("request", c[1], c[2]) EXCEPT !.reqip = a, !.sid = s, !.name = n] :
        c \in clients, a \in want, s \in sids, n \in names}
Reboots(clients, want) ==
    {[Blank("request", c[1], c[2]) EXCEPT !.reqip = a] : c \in clients, a \in want}
Renews(clients, want, modes) ==
    {[Blank("request", c[1], c[2]) EXCEPT !.ciaddr = a, !.unicast = u] :
        c \in clients, a \in want, u \in modes}
Declines(clients, want) ==
    {[Blank("decline", c[1], c[2]) EXCEPT !.reqip = a, !.sid = 1] : c \in clients, a \in want}
Releases(clients, want) ==
    {[Blank("release", c[1], c[2]) EXCEPT !.ciaddr = a, !.sid = 1] : c \in clients, a \in want}
Informs(clients, want) ==
    {[Blank("inform", c[1], c[2]) EXCEPT !.ciaddr = a] : c \in clients, a \in want}
Bootps(hosts) == {Blank("bootp", h, NoId) : h \in hosts}

ab == {<<h, NoId>> : h \in {"a", "b"}}

\* Every kind of datagram of two hosts and two addresses.
AddressMsgs ==
    Discovers(ab, {0, 3}) \cup Selects(ab, {2, 3}, {1, 11}, {NoName}) \cup Reboots(ab, {2})
    \cup Renews(ab, {2, 3}, BOOLEAN) \cup Declines(ab, {2, 3}) \cup Releases(ab, {2, 3})
    \cup Informs(ab, {2}) \cup Bootps({"a"})

(***************************************************************************)
(* Static addresses: a dhcp-host line with two MACs and the address 2, one *)
(* with a client identifier and the address 3, and one that a reload adds, *)
(* for an address that may be leased by then; and lines with names.        *)
(***************************************************************************)
Line(hw, id, a, n) ==
    [ hw |-> hw, clid |-> id, addr |-> a, name |-> n, time |-> 0,
      noclid |-> FALSE, disabled |-> FALSE, reread |-> FALSE ]
InHostsFile(line) == [line EXCEPT !.reread = TRUE]

\* Nothing but the time that host a gets, by BOOTP too.
TimedLines == {{[Line({"a"}, NoId, NoAddr, NoName) EXCEPT !.time = 1]}}

Static == {Line({"a", "b"}, NoId, 2, NoName), Line({}, "x", 3, NoName)}
StaticLines == {Static, Static \cup {InHostsFile(Line({"c"}, NoId, 4, NoName))}}
StaticClients == {<<"a", NoId>>, <<"b", NoId>>, <<"c", NoId>>, <<"c", "x">>}
StaticMsgs ==
    Discovers(StaticClients, {0, 4}) \cup Selects(StaticClients, {2, 3, 4}, {1}, {NoName})
    \cup Reboots(StaticClients, {2, 3, 4}) \cup Renews(StaticClients, {2, 4}, {TRUE})
    \cup Declines(StaticClients, {2}) \cup Releases({<<"a", NoId>>}, {2})
    \cup Releases({<<"c", NoId>>}, {4}) \cup Bootps({"a", "c"})

\* Host a is to be called n, until a reload gives the name to b; the client's names
\* are n and k.
NamedLines == {{InHostsFile(Line({h}, NoId, NoAddr, "n"))} : h \in {"a", "b"}}
NameMsgs ==
    Selects({<<"a", NoId>>}, {2, 3}, {1}, {NoName}) \cup Selects({<<"b", NoId>>}, {2}, {1}, {"n", "k"})
    \cup Releases({<<"b", NoId>>}, {2})

\* Two hosts that come, renew and go, with a name each.
TimeMsgs ==
    Selects({<<"a", NoId>>}, {2}, {1}, {"n"}) \cup Selects({<<"b", NoId>>}, {3}, {1, 11}, {"k"})
    \cup Renews({<<"a", NoId>>}, {2}, {TRUE}) \cup Releases({<<"b", NoId>>}, {3})

\* Hosts that take what they are offered.
PlainMsgs == Selects(ab, {2, 3}, {1}, {NoName})
=============================================================================
