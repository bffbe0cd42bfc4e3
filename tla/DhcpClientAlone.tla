-------------------------- MODULE DhcpClientAlone --------------------------
(***************************************************************************)
(* The clients of DhcpClient on a link with servers that follow RFC 2131   *)
(* but are otherwise arbitrary: any of several servers may offer any       *)
(* address, and acknowledge or refuse any REQUEST that names it.           *)
(***************************************************************************)
EXTENDS DhcpClient

vars == <<client, wire>>

\* A server answers: the reply carries the xid and chaddr of the request.
Reply(q, type, a, s) ==
    [dir |-> "reply", type |-> type, chaddr |-> q.chaddr, xid |-> q.xid,
     yiaddr |-> a, sid |-> s]

ServerOffers ==
    \E q \in Requests, a \in Addrs, s \in ServerIds :
        /\ q.type = "discover"
        /\ Send(Reply(q, "offer", a, s))
        /\ UNCHANGED client

ServerAcks ==
    \E q \in Requests :
        /\ q.type = "request" /\ q.sid # NoAddr /\ q.reqip # NoAddr
        /\ Send(Reply(q, "ack", q.reqip, q.sid))
        /\ UNCHANGED client

\* An authoritative server also refuses a REQUEST that names another server.
ServerNaks ==
    \E q \in Requests, s \in ServerIds :
        /\ q.type = "request"
        /\ Send(Reply(q, "nak", NoAddr, s))
        /\ UNCHANGED client

Init == ClientInit /\ wire = {}

Next == ClientNext \/ ServerOffers \/ ServerAcks \/ ServerNaks

Spec == Init /\ [][Next]_vars

TypeOK == ClientTypeOK /\ wire \subseteq Message

(***************************************************************************)
(* Properties.  `wire' keeps every datagram, so it is also the history.    *)
(***************************************************************************)

\* A host that was configured by an acknowledgement has an address that it
\* asked for by a REQUEST of this run and that was then acknowledged to it:
\* duplicated and delayed replies of an earlier run, of the DISCOVER phase or to
\* other hosts never configure the interface (is_valid_reply, and the xid++
\* between the two states).
AckIsOwn ==
    \A h \in Hosts : client[h].via = "ack" =>
        \E m \in Replies, q \in Requests :
            /\ m.type = "ack" /\ q.type = "request"
            /\ m.chaddr = h /\ q.chaddr = h
            /\ m.xid = FirstXid(client[h].runs) + 1 /\ q.xid = m.xid
            /\ m.yiaddr = client[h].addr /\ q.reqip = client[h].addr

\* "no acknowledgement from DHCP server, configuring %s with offered parameters"
\* (dhcpclient.c:434): an interface configured without an acknowledgement has
\* an address that was offered to this host in this run, and get_dhcp_info reports
\* that offer.
FallbackWasOffered ==
    \A h \in Hosts : client[h].via = "offer" =>
        \E m \in Replies :
            /\ m.type = "offer" /\ m.chaddr = h
            /\ m.xid = FirstXid(client[h].runs)
            /\ m.yiaddr = client[h].addr
            /\ get_dhcp_info(h) = [ipaddr |-> m.yiaddr, serveraddr |-> m.sid]
=============================================================================
