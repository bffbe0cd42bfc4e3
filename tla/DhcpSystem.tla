----------------------------- MODULE DhcpSystem -----------------------------
(***************************************************************************)
(* The hosts of DhcpClient and the server of DhcpServer on one link.       *)
(***************************************************************************)
EXTENDS DhcpClient, DhcpServer

vars == <<wire, client, server>>

Init == ClientInit /\ ServerInit /\ wire = {}

\* The hosts that have an address answer a ping.
Answers == {client[h].addr : h \in Hosts} \ {NoAddr}

Clients == ClientNext /\ UNCHANGED server
ServerReceives == UNCHANGED client /\ \E m \in Requests : DhcpPacket(m, Answers)
ServerEvents == UNCHANGED client /\ ServerNext

Next == Clients \/ ServerReceives \/ ServerEvents

Spec == Init /\ [][Next]_vars

TypeOK == ClientTypeOK /\ ServerTypeOK /\ wire \subseteq Message

(***************************************************************************)
(* Properties.  As long as the clock stands still, `wire' keeps what was   *)
(* sent.  A host is steady if all its REQUESTs name one address; a client  *)
(* whose `info' was overwritten by somebody else's reply is not.           *)
(***************************************************************************)
Steady(h) ==
    \A q, r \in {m \in Requests : m.type = "request" /\ m.chaddr = h} : q.reqip = r.reqip

\* dhcp_init_ifc with dhcp_reply: a host that is configured by an
\* acknowledgement holds the lease, and holds it alone, however the datagrams of
\* all hosts are lost, repeated and reordered, as long as it is steady.
HoldsLease(h) ==
    /\ \E l \in db.leases : l.hw = h /\ l.addr = client[h].addr
    /\ \A l \in db.leases : l.addr = client[h].addr => l.hw = h
AckedHoldsLease ==
    \A h \in Hosts : client[h].via = "ack" /\ Steady(h) /\ up => HoldsLease(h)

\* The same for the hosts among themselves: no two of them end up with one
\* address by acknowledgement.
AckedAddressesDiffer ==
    \A h, k \in Hosts :
        h # k /\ client[h].via = "ack" /\ client[k].via = "ack" /\ Steady(h) /\ Steady(k)
        => client[h].addr # client[k].addr
=============================================================================
