------------------------------ MODULE DhcpNet ------------------------------
(***************************************************************************)
(* The link between the DHCP clients (libnetutils) and the DHCP server     *)
(* (dnsmasq): the messages, and the set of messages in flight.             *)
(*                                                                         *)
(* A datagram is put into `wire' by the action that sends it.  Receiving   *)
(* does not take it out: a message may be received never (lost), once, or  *)
(* several times (duplicated, or seen by every host, because the server's  *)
(* replies are broadcast), and in any order.                               *)
(***************************************************************************)
EXTENDS Naturals, FiniteSets

CONSTANTS
    Hosts,      \* hardware addresses (chaddr)
    Addrs,      \* IPv4 addresses, as positive numbers in network order
    ServerIds,  \* values of the server-identifier option
    ClientIds,  \* values of the client-identifier option
    Names       \* values of the host-name option

ASSUME NetAssumption ==
    /\ Addrs \subseteq Nat \ {0}
    /\ ServerIds \subseteq Nat \ {0}

NoAddr == 0     \* INADDR_ANY, and an address or server-id option not present
NoId == "-"     \* no client-identifier option
NoName == "-"   \* no host-name option

AnyAddr == Addrs \cup {NoAddr}
AnyServerId == ServerIds \cup {NoAddr}
AnyClientId == ClientIds \cup {NoId}
AnyName == Names \cup {NoName}

VARIABLE
    wire        \* the set of datagrams that may still be received

RequestTypes == {"discover", "request", "decline", "release", "inform", "bootp"}
ReplyTypes == {"offer", "ack", "nak", "bootp"}

\* What a client sends: the fields and options the server's control flow reads.
RequestMsg ==
    [ dir : {"request"}, type : RequestTypes, chaddr : Hosts, xid : Nat,
      clid : AnyClientId,     \* client identifier option
      ciaddr : AnyAddr,       \* ciaddr field
      reqip : AnyAddr,        \* requested-address option
      sid : AnyServerId,      \* server-identifier option
      name : AnyName,         \* host-name option
      unicast : BOOLEAN ]     \* sent to the server's address, not broadcast

\* What the server sends.
ReplyMsg ==
    [ dir : {"reply"}, type : ReplyTypes, chaddr : Hosts, xid : Nat,
      yiaddr : AnyAddr, sid : AnyServerId ]

Message == RequestMsg \cup ReplyMsg

Send(m) == wire' = wire \cup {m}

\* The server's socket: the kernel gives it the datagrams for its port.
Requests == {m \in wire : m.dir = "request"}

(***************************************************************************)
(* The client's packet socket.  It gets every IPv4 packet of the link, cut *)
(* short or damaged ones too, and receive_packet() throws out what is not  *)
(* a whole datagram for the client's port.                                 *)
(***************************************************************************)

PORT_BOOTP_SERVER == 67
PORT_BOOTP_CLIENT == 68

\* A client sends to the server's port (send_message), a server to the client's.
Port(m) == IF m.dir = "reply" THEN PORT_BOOTP_CLIENT ELSE PORT_BOOTP_SERVER

\* What read() gives.  Damage shows in a sum: no other text has the same.
Packet(m, whole, ipsum, udpsum) ==
    [ msg |-> m,
      dest |-> Port(m),
      whole |-> whole,        \* the headers are those of UDP on IPv4, and tot_len was read
      ipsum |-> ipsum,        \* the sum of the IP header is right
      udpsum |-> udpsum ]     \* and that of the UDP datagram

Damaged(m) == {[m EXCEPT !.yiaddr = a] : a \in AnyAddr}
Packets(sent) ==
    {Packet(p[1], p[2], p[3], TRUE) : p \in sent \X BOOLEAN \X BOOLEAN}
    \cup {Packet(d, TRUE, TRUE, FALSE) :
              d \in UNION {Damaged(m) : m \in {r \in sent : r.dir = "reply"}}}

SumsFit(f) == f.ipsum /\ f.udpsum
receive_packet(f) == f.whole /\ f.dest = PORT_BOOTP_CLIENT /\ SumsFit(f)
Received(sent) == {f.msg : f \in {f \in Packets(sent) : receive_packet(f)}}

Replies == Received(wire)
=============================================================================
