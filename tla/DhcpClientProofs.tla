-------------------------- MODULE DhcpClientProofs --------------------------
(***************************************************************************)
(* Proofs about the DHCP client, for any number of hosts, addresses,       *)
(* servers and runs: the state is typed, and only an acknowledgement that  *)
(* answers the host's own REQUEST of the same run configures it; and it    *)
(* keeps its schedule of retransmissions to the end before it falls back.  *)
(*                                                                         *)
(* AckIsOwn alone is not inductive: a host that is still waiting has to be *)
(* known to wait under the transaction id of its run (XidOfRun), and every *)
(* acknowledgement on the link to answer a REQUEST (AcksAnswer).           *)
(***************************************************************************)
EXTENDS DhcpClientAlone, FiniteSetTheorems, TLAPS

\* The transaction id of a run: the first one for DISCOVER, the next for REQUEST.
XidOfRun ==
    \A h \in Hosts :
        /\ client[h].state = "SELECTING" => client[h].xid = FirstXid(client[h].runs)
        /\ client[h].state = "REQUESTING" => client[h].xid = FirstXid(client[h].runs) + 1

\* A server acknowledges what was asked for.
AcksAnswer ==
    \A m \in Replies : m.type = "ack" =>
        \E q \in Requests : /\ q.type = "request" /\ q.chaddr = m.chaddr
                            /\ q.xid = m.xid /\ q.reqip = m.yiaddr

IInv == TypeOK /\ XidOfRun /\ AcksAnswer /\ AckIsOwn

\* What receive_packet lets through is what servers sent, whatever damage is done.
LEMMA ReceivedAre ==
    ASSUME NEW sent
    PROVE  Received(sent) = {m \in sent : m.dir = "reply"}
<1>1. ASSUME NEW m \in Received(sent)
      PROVE  m \in sent /\ m.dir = "reply"
  <2>1. PICK f \in Packets(sent) : receive_packet(f) /\ f.msg = m
    BY <1>1 DEF Received
  <2>2. CASE f \in {Packet(p[1], p[2], p[3], TRUE) : p \in sent \X BOOLEAN \X BOOLEAN}
    <3>1. PICK p \in sent \X BOOLEAN \X BOOLEAN : f = Packet(p[1], p[2], p[3], TRUE)
      BY <2>2
    <3>2. p[1] \in sent
      OBVIOUS
    <3>3. /\ f.msg = p[1]
          /\ f.dest = IF p[1].dir = "reply" THEN PORT_BOOTP_CLIENT ELSE PORT_BOOTP_SERVER
      BY <3>1 DEF Packet, Port
    <3> QED
      BY <2>1, <3>2, <3>3 DEF receive_packet, PORT_BOOTP_CLIENT, PORT_BOOTP_SERVER
  <2>3. CASE f \in {Packet(d, TRUE, TRUE, FALSE) :
                        d \in UNION {Damaged(r) : r \in {r \in sent : r.dir = "reply"}}}
    <3>1. PICK d : f = Packet(d, TRUE, TRUE, FALSE)
      BY <2>3
    <3>2. f.udpsum = FALSE
      BY <3>1 DEF Packet, Port
    <3> QED
      BY <2>1, <3>2 DEF receive_packet, SumsFit
  <2> QED
    BY <2>1, <2>2, <2>3 DEF Packets
<1>2. ASSUME NEW m \in sent, m.dir = "reply"
      PROVE  m \in Received(sent)
  <2> DEFINE p == <<m, TRUE, TRUE>>
             f == Packet(m, TRUE, TRUE, TRUE)
  <2>1. p \in sent \X BOOLEAN \X BOOLEAN /\ f = Packet(p[1], p[2], p[3], TRUE)
    BY <1>2
  <2> HIDE DEF p
  <2>2. f \in Packets(sent)
    BY <2>1 DEF Packets
  <2>3. f.msg = m /\ receive_packet(f)
    BY <1>2 DEF Packet, Port, receive_packet, SumsFit
  <2> HIDE DEF f
  <2> QED
    BY <2>2, <2>3 DEF Received
<1> QED
  BY <1>1, <1>2

LEMMA RepliesAre ==
    /\ Replies = {m \in wire : m.dir = "reply"}
    /\ Replies' = {m \in wire' : m.dir = "reply"}
BY ReceivedAre DEF Replies

(***************************************************************************)
(* Types.                                                                  *)
(***************************************************************************)

\* What decode_dhcp_msg leaves in `info' is typed.
LEMMA InfoType == NoInfo \in Info /\ \A m \in ReplyMsg : Decode(m) \in Info
  BY DEF NoInfo, Info, Decode, ReplyMsg, AnyAddr, AnyServerId

\* A host that transmits stays typed, and what it sends is a message.
LEMMA TransmitType ==
    ASSUME TypeOK, NEW h \in Hosts, NEW c \in ClientState, Transmit(h, c)
    PROVE  TypeOK'
<1>1. Discover(h, c) \in RequestMsg /\ Request(h, c) \in RequestMsg
  BY DEF Discover, Request, RequestMsg, RequestTypes, ClientState, Info, AnyAddr, AnyServerId,
         AnyClientId, AnyName
<1>2. [c EXCEPT !.sent = @ + 1] \in ClientState
  BY DEF ClientState
<1> QED
  BY <1>1, <1>2 DEF Transmit, Send, TypeOK, ClientTypeOK, Message

\* dhcp_configure keeps the types.
LEMMA ConfigureType ==
    ASSUME TypeOK, NEW h \in Hosts, NEW c \in ClientState, NEW via \in {"ack", "offer"},
           Configure(h, c, via), UNCHANGED wire
    PROVE  TypeOK'
<1>1. PICK set \in BOOLEAN, ret \in {"ok", "error"} :
         client' = [client EXCEPT ![h] =
              [ c EXCEPT !.state = "stopped", !.good = c.info, !.ret = ret,
                         !.addr = IF set THEN c.info.ipaddr ELSE NoAddr,
                         !.via = IF set THEN via ELSE "none" ]]
  BY DEF Configure
<1> DEFINE a == IF set THEN c.info.ipaddr ELSE NoAddr
           v == IF set THEN via ELSE "none"
<1>2. a \in AnyAddr /\ v \in {"none", "ack", "offer"}
  BY DEF ClientState, Info, AnyAddr
<1>3. [c EXCEPT !.state = "stopped", !.good = c.info, !.ret = ret, !.addr = a, !.via = v] \in ClientState
  <2> HIDE DEF a, v
  <2> QED
    BY <1>2 DEF ClientState
<1> QED
  BY <1>1, <1>3 DEF TypeOK, ClientTypeOK

\* So does a run that returns an error.
LEMMA GiveUpType ==
    ASSUME TypeOK, NEW h \in Hosts, NEW c \in ClientState, GiveUp(h, c), UNCHANGED wire
    PROVE  TypeOK'
<1>1. [c EXCEPT !.state = "stopped", !.ret = "error"] \in ClientState
  BY DEF ClientState
<1> QED
  BY <1>1 DEF GiveUp, TypeOK, ClientTypeOK

\* A host that has decoded a reply is typed.
LEMMA DecodedType ==
    ASSUME TypeOK, NEW h \in Hosts, NEW m \in Replies
    PROVE  [client[h] EXCEPT !.info = Decode(m)] \in ClientState
<1>1. m \in ReplyMsg
  BY RepliesAre DEF TypeOK, Message, RequestMsg
<1> QED
  BY <1>1, InfoType DEF TypeOK, ClientTypeOK, ClientState

\* So does the switch from SELECTING to REQUESTING.
LEMMA RequestingType ==
    ASSUME NEW c \in ClientState
    PROVE  Requesting(c) \in ClientState
<1> DEFINE x == c.xid + 1
           q == "REQUESTING"
<1>1. x \in Nat /\ q \in {"stopped", "SELECTING", "REQUESTING"}
  BY DEF ClientState
<1>2. TIMEOUT_INITIAL \in TIMEOUT_INITIAL .. 2 * TIMEOUT_MAX
  BY ClientAssumption DEF TIMEOUT_INITIAL
<1>3. Requesting(c) =
        [[c EXCEPT !.state = q, !.sent = 0] EXCEPT !.timeout = TIMEOUT_INITIAL, !.xid = x]
  BY DEF Requesting, ClientState
<1> HIDE DEF x, q
<1>4. [c EXCEPT !.state = q, !.sent = 0] \in ClientState
  BY <1>1 DEF ClientState
<1> QED
  BY <1>1, <1>2, <1>3, <1>4 DEF ClientState

\* Every step of the poll loop keeps the types.
LEMMA ClientStepType ==
    ASSUME TypeOK, ClientNext
    PROVE  TypeOK'
<1> PICK h \in Hosts :
        \/ Start(h) \/ StartFails(h) \/ Timeout(h)
        \/ \E m \in Replies : ReceiveReply(h, m)
        \/ ReceiveGarbage(h) \/ DeviceFails(h)
  BY DEF ClientNext
<1>0. client[h] \in ClientState
  BY DEF TypeOK, ClientTypeOK
<1>1. CASE Start(h)
  <2> DEFINE run == client[h].runs + 1
             c == [ client[h] EXCEPT
                      !.state = "SELECTING", !.timeout = TIMEOUT_INITIAL,
                      !.xid = FirstXid(run), !.info = NoInfo, !.runs = run, !.sent = 0,
                      !.addr = NoAddr, !.via = "none", !.ret = "none" ]
  <2>1. run \in 0 .. MaxRuns /\ FirstXid(run) \in Nat
    BY <1>0, <1>1, ClientAssumption DEF Start, ClientState, FirstXid
  <2>2. TIMEOUT_INITIAL \in TIMEOUT_INITIAL .. 2 * TIMEOUT_MAX
    BY ClientAssumption DEF TIMEOUT_INITIAL
  <2>3. c \in ClientState
    <3> HIDE DEF run
    <3> QED
      BY <1>0, <2>1, <2>2, InfoType DEF ClientState, AnyAddr
  <2>4. Transmit(h, c)
    BY <1>1 DEF Start
  <2> HIDE DEF c
  <2> QED
    BY <2>3, <2>4, TransmitType
<1>2. CASE StartFails(h)
  <2>1. PICK kept \in {client[h].addr, NoAddr} :
           client' = [client EXCEPT ![h].addr = kept,
                          ![h].via = IF kept = NoAddr THEN "none" ELSE @,
                          ![h].ret = "error"]
    BY <1>2 DEF StartFails
  <2>2. kept \in AnyAddr
    BY <1>0 DEF ClientState, AnyAddr
  <2>3. client' \in [Hosts -> ClientState]
    BY <1>0, <2>1, <2>2 DEF TypeOK, ClientTypeOK, ClientState
  <2> QED
    BY <1>2, <2>3 DEF StartFails, TypeOK, ClientTypeOK
<1>3. CASE Timeout(h)
  <2>1. CASE /\ client[h].timeout < TIMEOUT_MAX
             /\ Transmit(h, [client[h] EXCEPT !.timeout = 2 * @])
    <3>1. [client[h] EXCEPT !.timeout = 2 * @] \in ClientState
      BY <1>0, <2>1, ClientAssumption DEF ClientState, TIMEOUT_INITIAL
    <3> QED
      BY <2>1, <3>1, TransmitType
  <2>2. CASE Configure(h, client[h], "offer") /\ UNCHANGED wire
    BY <1>0, <2>2, ConfigureType
  <2>3. CASE GiveUp(h, client[h]) /\ UNCHANGED wire
    BY <1>0, <2>3, GiveUpType
  <2> QED
    BY <1>3, <2>1, <2>2, <2>3 DEF Timeout
<1>4. CASE \E m \in Replies : ReceiveReply(h, m)
  <2> PICK m \in Replies : ReceiveReply(h, m)
    BY <1>4
  <2> DEFINE c == [client[h] EXCEPT !.info = Decode(m)]
  <2>1. \/ Transmit(h, Requesting(c))
        \/ Configure(h, c, "ack") /\ UNCHANGED wire
        \/ GiveUp(h, c) /\ UNCHANGED wire
        \/ client' = [client EXCEPT ![h] = c] /\ UNCHANGED wire
    BY DEF ReceiveReply
  <2>2. c \in ClientState
    BY DecodedType
  <2> HIDE DEF c
  <2>3. Requesting(c) \in ClientState
    BY <2>2, RequestingType
  <2> QED
    BY <2>1, <2>2, <2>3, TransmitType, ConfigureType, GiveUpType DEF TypeOK, ClientTypeOK
<1>5. CASE ReceiveGarbage(h)
  <2>1. client' \in [Hosts -> ClientState]
    BY <1>0, <1>5, InfoType DEF ReceiveGarbage, TypeOK, ClientTypeOK, ClientState
  <2> QED
    BY <1>5, <2>1 DEF ReceiveGarbage, TypeOK, ClientTypeOK
<1>6. CASE DeviceFails(h)
  BY <1>0, <1>6, GiveUpType DEF DeviceFails
<1> QED
  BY <1>1, <1>2, <1>3, <1>4, <1>5, <1>6

\* A server's reply is a message: the environment keeps the types.
LEMMA ServerStepType ==
    ASSUME TypeOK, ServerOffers \/ ServerAcks \/ ServerNaks
    PROVE  TypeOK'
<1>1. ASSUME NEW q \in Requests, NEW type \in {"offer", "ack", "nak"}, NEW a \in AnyAddr,
             NEW s \in AnyServerId
      PROVE  Reply(q, type, a, s) \in Message
  BY DEF Reply, Message, ReplyMsg, RequestMsg, ReplyTypes, Requests, TypeOK
<1>2. PICK m \in Message : Send(m) /\ UNCHANGED client
  <2>1. CASE ServerOffers
    BY <1>1, <2>1 DEF ServerOffers, AnyAddr, AnyServerId
  <2>2. CASE ServerAcks
    <3>1. PICK q \in Requests : Send(Reply(q, "ack", q.reqip, q.sid)) /\ UNCHANGED client
      BY <2>2 DEF ServerAcks
    <3>2. q.reqip \in AnyAddr /\ q.sid \in AnyServerId
      BY DEF Requests, TypeOK, Message, RequestMsg, ReplyMsg
    <3> QED
      BY <1>1, <3>1, <3>2
  <2>3. CASE ServerNaks
    BY <1>1, <2>3 DEF ServerNaks, AnyAddr, AnyServerId
  <2> QED
    BY <2>1, <2>2, <2>3
<1> QED
  BY <1>2 DEF Send, TypeOK, ClientTypeOK

\* The types hold initially.
LEMMA InitType == Init => TypeOK
<1> SUFFICES ASSUME Init PROVE TypeOK
  OBVIOUS
<1>1. TIMEOUT_INITIAL \in TIMEOUT_INITIAL .. 2 * TIMEOUT_MAX /\ 0 \in 0 .. MaxRuns
  BY ClientAssumption DEF TIMEOUT_INITIAL
<1> QED
  BY <1>1, InfoType DEF Init, ClientInit, TypeOK, ClientTypeOK, ClientState, AnyAddr

\* The locals of dhcp_init_ifc, the interface and the datagrams have their types
\* in every reachable state.
THEOREM ClientTypeCorrect == Spec => []TypeOK
<1>1. TypeOK /\ [Next]_vars => TypeOK'
  <2> SUFFICES ASSUME TypeOK, [Next]_vars PROVE TypeOK'
    OBVIOUS
  <2>1. CASE UNCHANGED vars
    BY <2>1 DEF vars, TypeOK, ClientTypeOK
  <2> QED
    BY <2>1, ClientStepType, ServerStepType DEF Next
<1> QED
  BY <1>1, InitType, PTL DEF Spec

(***************************************************************************)
(* Acknowledgements.                                                       *)
(***************************************************************************)

\* An acknowledgement on the link that backs the address of a host in state d:
\* what AckIsOwn asks for.
Backed(h, d) ==
    \E m \in Replies, q \in Requests :
        /\ m.type = "ack" /\ q.type = "request"
        /\ m.chaddr = h /\ q.chaddr = h
        /\ m.xid = FirstXid(d.runs) + 1 /\ q.xid = m.xid
        /\ m.yiaddr = d.addr /\ q.reqip = d.addr

\* The state d waits under the transaction id of its run.
InStep(d) ==
    /\ d.state = "SELECTING" => d.xid = FirstXid(d.runs)
    /\ d.state = "REQUESTING" => d.xid = FirstXid(d.runs) + 1

\* Invariance of the three parts under a step of one host that sends no reply:
\* it is enough that the host's new state is in step and, if it was
\* acknowledged, backed by what was on the link.
LEMMA HostStep ==
    ASSUME TypeOK, XidOfRun, AcksAnswer, AckIsOwn,
           NEW h \in Hosts, NEW d, client' = [client EXCEPT ![h] = d],
           wire \subseteq wire', \A m \in wire' \ wire : m.dir = "request",
           InStep(d), d.via = "ack" => Backed(h, d)
    PROVE  XidOfRun' /\ AcksAnswer' /\ AckIsOwn'
<1>1. Requests \subseteq Requests' /\ Replies' = Replies
  BY RepliesAre DEF Requests
<1>2. \A g \in Hosts : client'[g] = IF g = h THEN d ELSE client[g]
  BY DEF TypeOK, ClientTypeOK
<1>3. XidOfRun'
  BY <1>2 DEF XidOfRun, InStep, FirstXid
<1>4. AcksAnswer'
  BY <1>1 DEF AcksAnswer
<1>5. AckIsOwn'
  <2> SUFFICES ASSUME NEW g \in Hosts, client'[g].via = "ack"
               PROVE  \E m \in Replies', q \in Requests' :
                        /\ m.type = "ack" /\ q.type = "request"
                        /\ m.chaddr = g /\ q.chaddr = g
                        /\ m.xid = FirstXid(client'[g].runs) + 1 /\ q.xid = m.xid
                        /\ m.yiaddr = client'[g].addr /\ q.reqip = client'[g].addr
    BY DEF AckIsOwn, FirstXid
  <2>1. Backed(g, client'[g])
    BY <1>2 DEF AckIsOwn, Backed
  <2> QED
    BY <1>1, <2>1 DEF Backed
<1> QED
  BY <1>3, <1>4, <1>5

\* A host that is in step and not newly acknowledged transmits.
LEMMA TransmitStep ==
    ASSUME TypeOK, XidOfRun, AcksAnswer, AckIsOwn,
           NEW h \in Hosts, NEW c \in ClientState, Transmit(h, c),
           InStep(c), c.via = "ack" => Backed(h, c)
    PROVE  XidOfRun' /\ AcksAnswer' /\ AckIsOwn'
<1> DEFINE d == [c EXCEPT !.sent = @ + 1]
<1>1. client' = [client EXCEPT ![h] = d]
  BY DEF Transmit
<1>2. Discover(h, c).dir = "request" /\ Request(h, c).dir = "request"
  BY DEF Discover, Request
<1>3. wire \subseteq wire' /\ \A m \in wire' \ wire : m.dir = "request"
  BY <1>2 DEF Transmit, Send
<1>4. InStep(d) /\ (d.via = "ack" => Backed(h, d))
  BY DEF InStep, Backed, ClientState
<1> HIDE DEF d
<1> QED
  BY <1>1, <1>3, <1>4, HostStep

\* A host that gives up keeps the address and what it was configured by.
LEMMA GiveUpStep ==
    ASSUME TypeOK, XidOfRun, AcksAnswer, AckIsOwn,
           NEW h \in Hosts, NEW c \in ClientState, GiveUp(h, c), UNCHANGED wire,
           c.via = "ack" => Backed(h, c)
    PROVE  XidOfRun' /\ AcksAnswer' /\ AckIsOwn'
<1> DEFINE d == [c EXCEPT !.state = "stopped", !.ret = "error"]
<1>1. client' = [client EXCEPT ![h] = d]
  BY DEF GiveUp
<1>2. InStep(d) /\ (d.via = "ack" => Backed(h, d))
  BY DEF InStep, Backed, ClientState
<1> HIDE DEF d
<1> QED
  BY <1>1, <1>2, HostStep

\* A host that is configured: by an offer, or by an acknowledgement that backs
\* the address it now takes.
LEMMA ConfigureStep ==
    ASSUME TypeOK, XidOfRun, AcksAnswer, AckIsOwn,
           NEW h \in Hosts, NEW c \in ClientState, NEW via \in {"ack", "offer"},
           Configure(h, c, via), UNCHANGED wire,
           via = "ack" => Backed(h, [c EXCEPT !.addr = c.info.ipaddr])
    PROVE  XidOfRun' /\ AcksAnswer' /\ AckIsOwn'
<1>1. PICK set \in BOOLEAN, ret \in {"ok", "error"} :
         client' = [client EXCEPT ![h] =
              [ c EXCEPT !.state = "stopped", !.good = c.info, !.ret = ret,
                         !.addr = IF set THEN c.info.ipaddr ELSE NoAddr,
                         !.via = IF set THEN via ELSE "none" ]]
  BY DEF Configure
<1> DEFINE d == [ c EXCEPT !.state = "stopped", !.good = c.info, !.ret = ret,
                           !.addr = IF set THEN c.info.ipaddr ELSE NoAddr,
                           !.via = IF set THEN via ELSE "none" ]
<1>2. d.state = "stopped" /\ d.runs = c.runs
  BY DEF ClientState
<1>3. d.via = "ack" => via = "ack" /\ d.addr = c.info.ipaddr
  BY DEF ClientState
<1>4. client' = [client EXCEPT ![h] = d]
  BY <1>1
<1> HIDE DEF d
<1>5. InStep(d)
  BY <1>2 DEF InStep
<1>6. d.via = "ack" => Backed(h, d)
  BY <1>2, <1>3 DEF Backed, ClientState
<1> QED
  BY <1>4, <1>5, <1>6, HostStep

\* Every step of the poll loop keeps the three parts.
LEMMA ClientStep ==
    ASSUME TypeOK, XidOfRun, AcksAnswer, AckIsOwn, ClientNext
    PROVE  XidOfRun' /\ AcksAnswer' /\ AckIsOwn'
<1> PICK h \in Hosts :
        \/ Start(h) \/ StartFails(h) \/ Timeout(h)
        \/ \E m \in Replies : ReceiveReply(h, m)
        \/ ReceiveGarbage(h) \/ DeviceFails(h)
  BY DEF ClientNext
<1>0. /\ client[h] \in ClientState
      /\ InStep(client[h])
      /\ client[h].via = "ack" => Backed(h, client[h])
  BY DEF TypeOK, ClientTypeOK, XidOfRun, InStep, AckIsOwn, Backed
<1>1. CASE Start(h)
  <2> DEFINE run == client[h].runs + 1
             c == [ client[h] EXCEPT
                      !.state = "SELECTING", !.timeout = TIMEOUT_INITIAL,
                      !.xid = FirstXid(run), !.info = NoInfo, !.runs = run, !.sent = 0,
                      !.addr = NoAddr, !.via = "none", !.ret = "none" ]
  <2>1. run \in 0 .. MaxRuns /\ FirstXid(run) \in Nat
    BY <1>0, <1>1, ClientAssumption DEF Start, ClientState, FirstXid
  <2>2. TIMEOUT_INITIAL \in TIMEOUT_INITIAL .. 2 * TIMEOUT_MAX
    BY ClientAssumption DEF TIMEOUT_INITIAL
  <2>3. c \in ClientState
    <3> HIDE DEF run
    <3> QED
      BY <1>0, <2>1, <2>2, InfoType DEF ClientState, AnyAddr
  <2>4. Transmit(h, c)
    BY <1>1 DEF Start
  <2>5. InStep(c) /\ c.via = "none"
    BY <1>0 DEF InStep, ClientState
  <2> HIDE DEF c
  <2> QED
    BY <2>3, <2>4, <2>5, TransmitStep
<1>2. CASE StartFails(h)
  <2>1. PICK kept \in {client[h].addr, NoAddr} :
           client' = [client EXCEPT ![h].addr = kept,
                          ![h].via = IF kept = NoAddr THEN "none" ELSE @,
                          ![h].ret = "error"]
    BY <1>2 DEF StartFails
  <2> DEFINE d == [ client[h] EXCEPT !.addr = kept,
                        !.via = IF kept = NoAddr THEN "none" ELSE @, !.ret = "error" ]
  <2>2. client' = [client EXCEPT ![h] = d]
    BY <1>0, <2>1 DEF TypeOK, ClientTypeOK, ClientState
  <2>3. InStep(d)
    BY <1>0 DEF InStep, ClientState
  <2>4. d.via = "ack" => d.addr = client[h].addr /\ client[h].via = "ack" /\ d.runs = client[h].runs
    BY <1>0 DEF ClientState
  <2> HIDE DEF d
  <2>5. d.via = "ack" => Backed(h, d)
    BY <1>0, <2>4 DEF Backed
  <2> QED
    BY <1>2, <2>2, <2>3, <2>5, HostStep DEF StartFails
<1>3. CASE Timeout(h)
  <2>1. CASE /\ client[h].timeout < TIMEOUT_MAX
             /\ Transmit(h, [client[h] EXCEPT !.timeout = 2 * @])
    <3> DEFINE c == [client[h] EXCEPT !.timeout = 2 * @]
    <3>1. c \in ClientState
      BY <1>0, <2>1, ClientAssumption DEF ClientState, TIMEOUT_INITIAL
    <3>2. InStep(c) /\ (c.via = "ack" => Backed(h, c))
      BY <1>0 DEF InStep, Backed, ClientState
    <3> HIDE DEF c
    <3> QED
      BY <2>1, <3>1, <3>2, TransmitStep DEF c
  <2>2. CASE Configure(h, client[h], "offer") /\ UNCHANGED wire
    BY <1>0, <2>2, ConfigureStep
  <2>3. CASE GiveUp(h, client[h]) /\ UNCHANGED wire
    BY <1>0, <2>3, GiveUpStep
  <2> QED
    BY <1>3, <2>1, <2>2, <2>3 DEF Timeout
<1>4. CASE \E m \in Replies : ReceiveReply(h, m)
  <2> PICK m \in Replies : ReceiveReply(h, m)
    BY <1>4
  <2> DEFINE c == [client[h] EXCEPT !.info = Decode(m)]
  <2>1. c \in ClientState
    BY DecodedType
  <2>2. InStep(c) /\ (c.via = "ack" => Backed(h, c))
    BY <1>0 DEF InStep, Backed, ClientState
  <2>3. c.info.ipaddr = m.yiaddr /\ c.runs = client[h].runs
    BY <1>0 DEF Decode, ClientState
  <2>4. \/ c.state = "SELECTING" /\ Transmit(h, Requesting(c))
        \/ /\ ValidReply(h, c, m) /\ c.state = "REQUESTING" /\ m.type = "ack"
           /\ Configure(h, c, "ack") /\ UNCHANGED wire
        \/ GiveUp(h, c) /\ UNCHANGED wire
        \/ client' = [client EXCEPT ![h] = c] /\ UNCHANGED wire
    BY DEF ReceiveReply
  <2> HIDE DEF c
  <2>5. CASE c.state = "SELECTING" /\ Transmit(h, Requesting(c))
    <3>1. Requesting(c) \in ClientState
      BY <2>1, RequestingType
    <3>2. InStep(Requesting(c)) /\ (Requesting(c).via = "ack" => Backed(h, Requesting(c)))
      BY <2>1, <2>2, <2>5 DEF Requesting, InStep, Backed, ClientState
    <3> QED
      BY <2>5, <3>1, <3>2, TransmitStep
  <2>6. CASE /\ ValidReply(h, c, m) /\ c.state = "REQUESTING" /\ m.type = "ack"
             /\ Configure(h, c, "ack") /\ UNCHANGED wire
    <3> DEFINE d == [c EXCEPT !.addr = c.info.ipaddr]
    <3>1. d.addr = m.yiaddr /\ d.runs = c.runs
      BY <2>1, <2>3 DEF ClientState
    <3>2. m.chaddr = h /\ m.xid = FirstXid(c.runs) + 1
      BY <2>2, <2>6 DEF ValidReply, InStep
    <3>3. PICK q \in Requests : /\ q.type = "request" /\ q.chaddr = m.chaddr
                                /\ q.xid = m.xid /\ q.reqip = m.yiaddr
      BY <2>6 DEF AcksAnswer
    <3> HIDE DEF d
    <3>4. Backed(h, d)
      BY <2>6, <3>1, <3>2, <3>3 DEF Backed
    <3> QED
      BY <2>1, <2>6, <3>4, ConfigureStep DEF d
  <2>7. CASE GiveUp(h, c) /\ UNCHANGED wire
    BY <2>1, <2>2, <2>7, GiveUpStep
  <2>8. CASE client' = [client EXCEPT ![h] = c] /\ UNCHANGED wire
    BY <2>2, <2>8, HostStep
  <2> QED
    BY <2>4, <2>5, <2>6, <2>7, <2>8
<1>5. CASE ReceiveGarbage(h)
  <2> DEFINE d == [client[h] EXCEPT !.info = NoInfo]
  <2>1. client' = [client EXCEPT ![h] = d]
    BY <1>5 DEF ReceiveGarbage, TypeOK, ClientTypeOK
  <2>2. InStep(d) /\ (d.via = "ack" => Backed(h, d))
    BY <1>0 DEF InStep, Backed, ClientState
  <2> HIDE DEF d
  <2> QED
    BY <1>5, <2>1, <2>2, HostStep DEF ReceiveGarbage
<1>6. CASE DeviceFails(h)
  BY <1>0, <1>6, GiveUpStep DEF DeviceFails
<1> QED
  BY <1>1, <1>2, <1>3, <1>4, <1>5, <1>6

\* Replies are added, and a new acknowledgement answers a REQUEST.
LEMMA ServerStep ==
    ASSUME XidOfRun, AcksAnswer, AckIsOwn, ServerOffers \/ ServerAcks \/ ServerNaks
    PROVE  XidOfRun' /\ AcksAnswer' /\ AckIsOwn'
<1>1. client' = client
  BY DEF ServerOffers, ServerAcks, ServerNaks
<1>2. PICK m : /\ wire' = wire \cup {m} /\ m.dir = "reply"
               /\ m.type = "ack" => \E q \in Requests :
                     /\ q.type = "request" /\ q.chaddr = m.chaddr
                     /\ q.xid = m.xid /\ q.reqip = m.yiaddr
  <2>1. CASE ServerOffers
    <3>1. PICK q \in Requests, a \in Addrs, s \in ServerIds : Send(Reply(q, "offer", a, s))
      BY <2>1 DEF ServerOffers
    <3>2. Reply(q, "offer", a, s).dir = "reply" /\ Reply(q, "offer", a, s).type = "offer"
      BY DEF Reply
    <3> QED
      BY <3>1, <3>2 DEF Send
  <2>2. CASE ServerAcks
    <3>1. PICK q \in Requests : q.type = "request" /\ Send(Reply(q, "ack", q.reqip, q.sid))
      BY <2>2 DEF ServerAcks
    <3> DEFINE m == Reply(q, "ack", q.reqip, q.sid)
    <3>2. m.dir = "reply" /\ m.chaddr = q.chaddr /\ m.xid = q.xid /\ m.yiaddr = q.reqip
      BY DEF Reply
    <3>3. wire' = wire \cup {m}
      BY <3>1 DEF Send
    <3> HIDE DEF m
    <3> QED
      BY <3>1, <3>2, <3>3
  <2>3. CASE ServerNaks
    <3>1. PICK q \in Requests, s \in ServerIds : Send(Reply(q, "nak", NoAddr, s))
      BY <2>3 DEF ServerNaks
    <3>2. Reply(q, "nak", NoAddr, s).dir = "reply" /\ Reply(q, "nak", NoAddr, s).type = "nak"
      BY DEF Reply
    <3> QED
      BY <3>1, <3>2 DEF Send
  <2> QED
    BY <2>1, <2>2, <2>3
<1>3. Requests \subseteq Requests' /\ Replies \subseteq Replies' /\ Replies' \subseteq Replies \cup {m}
  BY <1>2, RepliesAre DEF Requests
<1>4. XidOfRun'
  BY <1>1 DEF XidOfRun, FirstXid
<1>5. AcksAnswer'
  BY <1>2, <1>3 DEF AcksAnswer
<1>6. AckIsOwn'
  BY <1>1, <1>3 DEF AckIsOwn, FirstXid
<1> QED
  BY <1>4, <1>5, <1>6

\* The inductive invariant holds in every reachable state of the client.
THEOREM ClientInvariance == Spec => []IInv
<1>1. Init => IInv
  BY InitType, RepliesAre DEF Init, ClientInit, IInv, XidOfRun, AcksAnswer, AckIsOwn
<1>2. IInv /\ [Next]_vars => IInv'
  <2> SUFFICES ASSUME IInv, [Next]_vars PROVE IInv'
    OBVIOUS
  <2> USE DEF IInv
  <2>1. CASE UNCHANGED vars
    BY <2>1, RepliesAre
    DEF vars, TypeOK, ClientTypeOK, XidOfRun, AcksAnswer, AckIsOwn, Requests, FirstXid
  <2>2. CASE ClientNext
    BY <2>2, ClientStepType, ClientStep
  <2>3. CASE ServerOffers \/ ServerAcks \/ ServerNaks
    BY <2>3, ServerStepType, ServerStep
  <2> QED
    BY <2>1, <2>2, <2>3 DEF Next
<1> QED
  BY <1>1, <1>2, PTL DEF Spec

\* Only an acknowledgement of this run's own REQUEST configures a host as
\* acknowledged, however the link delays, repeats and reorders and whatever the
\* servers offer: is_valid_reply and the xid++ between the states see to it.
THEOREM AcknowledgedByOwn == Spec => []AckIsOwn
<1>1. IInv => AckIsOwn
  BY DEF IInv
<1> QED
  BY <1>1, ClientInvariance, PTL

(***************************************************************************)
(* Powers of two, as the numbers of subsets.                               *)
(***************************************************************************)

LEMMA PowerCounts ==
    ASSUME NEW n \in Nat
    PROVE  /\ IsFiniteSet(1 .. n) /\ Cardinality(1 .. n) = n
           /\ IsFiniteSet(SUBSET (1 .. n)) /\ Cardinality(SUBSET (1 .. n)) = 2 ^ n /\ 2 ^ n \in Nat
<1>1. IsFiniteSet(1 .. n) /\ Cardinality(1 .. n) = n
  BY FS_Interval
<1>2. IsFiniteSet(SUBSET (1 .. n)) /\ Cardinality(SUBSET (1 .. n)) = 2 ^ n
  BY <1>1, FS_SUBSET
<1> QED
  BY <1>1, <1>2, FS_CardinalityType

LEMMA PowerOfZero == 2 ^ 0 = 1
<1>1. 1 .. 0 = {} /\ SUBSET {} = {{}}
  OBVIOUS
<1> QED
  BY <1>1, PowerCounts, FS_Singleton

\* Half of the subsets of 1 .. n+1 have n+1 in them.
LEMMA PowerOfNext ==
    ASSUME NEW n \in Nat
    PROVE  2 ^ (n + 1) = 2 * 2 ^ n
<1> DEFINE A == SUBSET (1 .. n)
           B == {T \cup {n + 1} : T \in A}
           f == [T \in A |-> T \cup {n + 1}]
<1>1. /\ IsFiniteSet(A) /\ Cardinality(A) = 2 ^ n /\ 2 ^ n \in Nat
      /\ Cardinality(SUBSET (1 .. n + 1)) = 2 ^ (n + 1)
  <2>1. n + 1 \in Nat
    OBVIOUS
  <2>2. IsFiniteSet(A) /\ Cardinality(A) = 2 ^ n /\ 2 ^ n \in Nat
    BY PowerCounts
  <2>3. Cardinality(SUBSET (1 .. n + 1)) = 2 ^ (n + 1)
    BY <2>1, PowerCounts, Zenon
  <2> QED
    BY <2>2, <2>3
<1>2. f \in Bijection(A, B)
  <2>1. \A T \in A : n + 1 \notin T
    OBVIOUS
  <2>2. f \in [A -> B] /\ \A U \in B : \E T \in A : f[T] = U
    OBVIOUS
  <2>3. ASSUME NEW T \in A, NEW U \in A, f[T] = f[U]
        PROVE  T = U
    <3>1. T \cup {n + 1} = U \cup {n + 1} /\ n + 1 \notin T /\ n + 1 \notin U
      BY <2>1, <2>3
    <3> HIDE DEF A
    <3> QED
      BY <3>1
  <2> HIDE DEF A, B, f
  <2> QED
    BY <2>2, <2>3 DEF Bijection, Injection, Surjection, IsInjective
<1>3. IsFiniteSet(B) /\ Cardinality(B) = 2 ^ n
  BY <1>1, <1>2, FS_Bijection DEF ExistsBijection
<1>4. A \cap B = {}
  OBVIOUS
<1>5. SUBSET (1 .. n + 1) = A \cup B
  <2>1. ASSUME NEW T \in SUBSET (1 .. n + 1), n + 1 \in T
        PROVE  T \in B
    <3>1. T \ {n + 1} \in A /\ T = (T \ {n + 1}) \cup {n + 1}
      BY <2>1
    <3> QED
      BY <3>1
  <2>2. ASSUME NEW T \in SUBSET (1 .. n + 1), n + 1 \notin T
        PROVE  T \in A
    BY <2>2
  <2>3. A \subseteq SUBSET (1 .. n + 1) /\ B \subseteq SUBSET (1 .. n + 1)
    <3>1. 1 .. n \subseteq 1 .. n + 1 /\ n + 1 \in 1 .. n + 1
      OBVIOUS
    <3> QED
      BY <3>1, Zenon
  <2> HIDE DEF A, B
  <2> QED
    BY <2>1, <2>2, <2>3
<1>6. Cardinality(A \cup B) = 2 ^ n + 2 ^ n
  <2> HIDE DEF A, B
  <2>1. Cardinality(A \cap B) = 0
    BY <1>4, FS_EmptySet
  <2>2. Cardinality(A \cup B) = Cardinality(A) + Cardinality(B) - Cardinality(A \cap B)
    BY <1>1, <1>3, FS_Union
  <2>3. Cardinality(A) = 2 ^ n /\ Cardinality(B) = 2 ^ n /\ 2 ^ n \in Nat
    BY <1>1, <1>3
  <2> QED
    BY <2>1, <2>2, <2>3
<1> HIDE DEF A, B, f
<1>7. 2 ^ (n + 1) = 2 ^ n + 2 ^ n /\ 2 ^ n \in Nat
  BY <1>1, <1>5, <1>6
<1> QED
  BY <1>7

LEMMA PowersGrow ==
    ASSUME NEW m \in Nat, NEW n \in Nat, m < n
    PROVE  2 ^ m < 2 ^ n
<1>1. ASSUME NEW i \in Nat, NEW j \in Nat, i <= j
      PROVE  2 ^ i <= 2 ^ j
  <2>1. SUBSET (1 .. i) \in SUBSET SUBSET (1 .. j)
    BY <1>1
  <2>2. Cardinality(SUBSET (1 .. i)) <= Cardinality(SUBSET (1 .. j))
    BY <2>1, PowerCounts, FS_Subset
  <2> QED
    BY <2>2, PowerCounts
<1>2. 2 ^ (m + 1) <= 2 ^ n /\ 2 ^ 0 <= 2 ^ m
  <2>1. m + 1 \in Nat /\ m + 1 <= n /\ 0 \in Nat /\ 0 <= m
    OBVIOUS
  <2>2. 2 ^ (m + 1) <= 2 ^ n
    BY <1>1, <2>1, Zenon
  <2>3. 2 ^ 0 <= 2 ^ m
    BY <1>1, <2>1, Zenon
  <2> QED
    BY <2>2, <2>3
<1>3. 2 ^ m \in Nat /\ 2 ^ n \in Nat
  BY PowerCounts
<1>4. 2 ^ (m + 1) = 2 * 2 ^ m /\ 2 ^ 0 = 1
  BY PowerOfZero, PowerOfNext
<1> QED
  BY <1>2, <1>3, <1>4

LEMMA PowerExceeds ==
    ASSUME NEW n \in Nat
    PROVE  n <= 2 ^ n
<1> DEFINE f == [i \in 1 .. n |-> {i}]
<1>1. f \in Injection(1 .. n, SUBSET (1 .. n))
  BY DEF Injection, IsInjective
<1>2. Cardinality(1 .. n) <= Cardinality(SUBSET (1 .. n))
  BY <1>1, PowerCounts, FS_Injection
<1> QED
  BY <1>2, PowerCounts

(***************************************************************************)
(* The schedule.  After s retransmissions the timeout is 2^s; the last one *)
(* was made because the timeout was below TIMEOUT_MAX.                     *)
(***************************************************************************)

LEMMA ScheduleEnds ==
    ASSUME NEW s \in Nat
    PROVE  /\ MaxSent \in Nat
           /\ s = 0 \/ 2 ^ (s - 1) < TIMEOUT_MAX => s + 1 \in 1 .. MaxSent
           /\ (s = 0 \/ 2 ^ (s - 1) < TIMEOUT_MAX) /\ 2 ^ s >= TIMEOUT_MAX => s + 1 = MaxSent
<1> DEFINE N == {n \in 0 .. TIMEOUT_MAX : 2 ^ n < TIMEOUT_MAX}
<1>1. TIMEOUT_MAX \in Nat
  BY ClientAssumption
<1>2. IsFiniteSet(N) /\ Cardinality(N) \in Nat
  <2>1. N \in SUBSET (0 .. TIMEOUT_MAX) /\ IsFiniteSet(0 .. TIMEOUT_MAX)
    BY <1>1, FS_Interval
  <2> HIDE DEF N
  <2> QED
    BY <2>1, FS_Subset, FS_CardinalityType
<1>3. MaxSent = 1 + Cardinality(N)
  BY DEF MaxSent
<1>4. IsFiniteSet(0 .. s - 1) /\ Cardinality(0 .. s - 1) = s
  BY FS_Interval
<1>5. ASSUME s = 0 \/ 2 ^ (s - 1) < TIMEOUT_MAX
      PROVE  0 .. s - 1 \subseteq N
  <2> SUFFICES ASSUME NEW n \in 0 .. s - 1
               PROVE  n \in N
    OBVIOUS
  <2>0. n \in Nat /\ s - 1 \in Nat /\ s # 0 /\ n <= s - 1
    OBVIOUS
  <2>1. n \in Nat /\ s - 1 \in Nat /\ s # 0 /\ 2 ^ n \in Nat /\ 2 ^ (s - 1) \in Nat
    BY <2>0, PowerCounts, Zenon
  <2>2. n = s - 1 \/ 2 ^ n < 2 ^ (s - 1)
    <3>1. n = s - 1 \/ n < s - 1
      BY <2>0
    <3> QED
      BY <2>0, <3>1, PowersGrow, Zenon
  <2>3. 2 ^ n < TIMEOUT_MAX /\ n <= 2 ^ n
    BY <1>1, <1>5, <2>1, <2>2, PowerExceeds
  <2> QED
    BY <1>1, <2>1, <2>3
<1>6. ASSUME 2 ^ s >= TIMEOUT_MAX
      PROVE  N \subseteq 0 .. s - 1
  <2> SUFFICES ASSUME NEW n \in N, n >= s
               PROVE  FALSE
    BY <1>1
  <2>0. n \in Nat /\ 2 ^ n < TIMEOUT_MAX
    BY <1>1
  <2>1. n \in Nat /\ 2 ^ n < TIMEOUT_MAX /\ 2 ^ n \in Nat /\ 2 ^ s \in Nat
    BY <2>0, PowerCounts, Zenon
  <2>2. n = s \/ 2 ^ s < 2 ^ n
    BY <2>1, PowersGrow
  <2> QED
    BY <1>1, <1>6, <2>1, <2>2
<1> HIDE DEF N
<1>7. ASSUME s = 0 \/ 2 ^ (s - 1) < TIMEOUT_MAX
      PROVE  s <= Cardinality(N)
  BY <1>2, <1>4, <1>5, <1>7, FS_Subset
<1>8. ASSUME 2 ^ s >= TIMEOUT_MAX
      PROVE  Cardinality(N) <= s
  BY <1>2, <1>4, <1>6, <1>8, FS_Subset
<1> QED
  BY <1>2, <1>3, <1>7, <1>8

\* The timer and the count of a host that waits; a host that fell back has
\* transmitted all of it.
OnSchedule(d) ==
    /\ d.via = "none" /\ d.sent \in Nat \ {0} /\ d.timeout = 2 ^ (d.sent - 1)
    /\ d.sent = 1 \/ 2 ^ (d.sent - 2) < TIMEOUT_MAX
Scheduled(d) ==
    /\ d.state # "stopped" => OnSchedule(d)
    /\ d.via = "offer" => d.sent = MaxSent
ScheduleInv == \A h \in Hosts : Scheduled(client[h])

\* A state is entered: the first transmission, with the first timeout.
LEMMA FirstTransmission ==
    ASSUME TypeOK, ScheduleInv, NEW h \in Hosts, NEW c \in ClientState, Transmit(h, c),
           c.via = "none", c.sent = 0, c.timeout = TIMEOUT_INITIAL
    PROVE  ScheduleInv'
<1> DEFINE d == [c EXCEPT !.sent = @ + 1]
<1>1. client' = [client EXCEPT ![h] = d]
  BY DEF Transmit
<1>2. d.via = "none" /\ d.sent = 1 /\ d.timeout = 1
  BY DEF ClientState, TIMEOUT_INITIAL
<1> HIDE DEF d
<1>3. Scheduled(d)
  BY <1>2, PowerOfZero DEF Scheduled, OnSchedule
<1> QED
  BY <1>1, <1>3 DEF ScheduleInv, TypeOK, ClientTypeOK

\* A host that does not run any more, and was not configured by an offer now.
LEMMA HostStops ==
    ASSUME TypeOK, ScheduleInv, NEW h \in Hosts, NEW d, client' = [client EXCEPT ![h] = d],
           d.state = "stopped", d.via = "offer" => d.sent = MaxSent
    PROVE  ScheduleInv'
BY DEF ScheduleInv, Scheduled, TypeOK, ClientTypeOK

\* A host that is configured stops.
LEMMA ConfiguredStops ==
    ASSUME TypeOK, ScheduleInv, NEW h \in Hosts, NEW c \in ClientState, NEW via,
           Configure(h, c, via), via = "offer" => c.sent = MaxSent
    PROVE  ScheduleInv'
<1>1. PICK set \in BOOLEAN, ret \in {"ok", "error"} :
         client' = [client EXCEPT ![h] =
              [ c EXCEPT !.state = "stopped", !.good = c.info, !.ret = ret,
                         !.addr = IF set THEN c.info.ipaddr ELSE NoAddr,
                         !.via = IF set THEN via ELSE "none" ]]
  BY DEF Configure
<1> DEFINE d == [ c EXCEPT !.state = "stopped", !.good = c.info, !.ret = ret,
                           !.addr = IF set THEN c.info.ipaddr ELSE NoAddr,
                           !.via = IF set THEN via ELSE "none" ]
<1>2. d.state = "stopped" /\ d.sent = c.sent /\ (d.via = "offer" => via = "offer")
  BY DEF ClientState
<1>3. client' = [client EXCEPT ![h] = d]
  BY <1>1
<1> HIDE DEF d
<1> QED
  BY <1>2, <1>3, HostStops

LEMMA GivenUpStops ==
    ASSUME TypeOK, ScheduleInv, NEW h \in Hosts, NEW c \in ClientState, GiveUp(h, c),
           c.via = "offer" => c.sent = MaxSent
    PROVE  ScheduleInv'
<1> DEFINE d == [c EXCEPT !.state = "stopped", !.ret = "error"]
<1>1. client' = [client EXCEPT ![h] = d] /\ d.state = "stopped" /\ d.via = c.via /\ d.sent = c.sent
  BY DEF GiveUp, ClientState
<1> HIDE DEF d
<1> QED
  BY <1>1, HostStops

\* A host that goes on waiting, with other contents of `info'.
LEMMA WaitsOn ==
    ASSUME TypeOK, ScheduleInv, NEW h \in Hosts, NEW i,
           client' = [client EXCEPT ![h] = [client[h] EXCEPT !.info = i]]
    PROVE  ScheduleInv'
<1> DEFINE d == [client[h] EXCEPT !.info = i]
<1>1. /\ d.state = client[h].state /\ d.via = client[h].via /\ d.sent = client[h].sent
      /\ d.timeout = client[h].timeout
  BY DEF TypeOK, ClientTypeOK, ClientState
<1> HIDE DEF d
<1>2. Scheduled(d)
  BY <1>1 DEF ScheduleInv, Scheduled, OnSchedule
<1> QED
  BY <1>2 DEF ScheduleInv, TypeOK, ClientTypeOK, d

LEMMA ScheduleKept ==
    ASSUME TypeOK, ScheduleInv, ClientNext
    PROVE  ScheduleInv'
<1> PICK h \in Hosts :
        \/ Start(h) \/ StartFails(h) \/ Timeout(h)
        \/ \E m \in Replies : ReceiveReply(h, m)
        \/ ReceiveGarbage(h) \/ DeviceFails(h)
  BY DEF ClientNext
<1>0. client[h] \in ClientState /\ Scheduled(client[h])
  BY DEF TypeOK, ClientTypeOK, ScheduleInv
<1>1. CASE Start(h)
  <2> DEFINE run == client[h].runs + 1
             c == [ client[h] EXCEPT
                      !.state = "SELECTING", !.timeout = TIMEOUT_INITIAL,
                      !.xid = FirstXid(run), !.info = NoInfo, !.runs = run, !.sent = 0,
                      !.addr = NoAddr, !.via = "none", !.ret = "none" ]
  <2>1. run \in 0 .. MaxRuns /\ FirstXid(run) \in Nat
    BY <1>0, <1>1, ClientAssumption DEF Start, ClientState, FirstXid
  <2>2. TIMEOUT_INITIAL \in TIMEOUT_INITIAL .. 2 * TIMEOUT_MAX
    BY ClientAssumption DEF TIMEOUT_INITIAL
  <2>3. c \in ClientState
    <3> HIDE DEF run
    <3> QED
      BY <1>0, <2>1, <2>2, InfoType DEF ClientState, AnyAddr
  <2>4. c.via = "none" /\ c.sent = 0 /\ c.timeout = TIMEOUT_INITIAL
    <3> HIDE DEF run
    <3> QED
      BY <1>0 DEF ClientState
  <2>5. Transmit(h, c)
    BY <1>1 DEF Start
  <2> HIDE DEF c
  <2> QED
    BY <2>3, <2>4, <2>5, FirstTransmission
<1>2. CASE StartFails(h)
  <2>1. PICK kept \in {client[h].addr, NoAddr} :
           client' = [client EXCEPT ![h].addr = kept,
                          ![h].via = IF kept = NoAddr THEN "none" ELSE @,
                          ![h].ret = "error"]
    BY <1>2 DEF StartFails
  <2> DEFINE d == client'[h]
  <2>2. /\ d.state = client[h].state /\ d.sent = client[h].sent
        /\ d.via = client[h].via \/ d.via = "none"
        /\ \A g \in Hosts : g # h => client'[g] = client[g]
    BY <1>0, <2>1 DEF TypeOK, ClientTypeOK, ClientState
  <2>3. d.state = "stopped"
    BY <1>2, <2>2 DEF StartFails, Running
  <2>4. Scheduled(d)
    BY <1>0, <2>2, <2>3 DEF Scheduled
  <2> QED
    BY <2>2, <2>4 DEF ScheduleInv
<1>3. CASE Timeout(h)
  <2> DEFINE s == client[h].sent - 1
  <2>0. client[h].state # "stopped" /\ OnSchedule(client[h])
    BY <1>0, <1>3 DEF Timeout, Running, Scheduled
  <2>1. /\ s \in Nat /\ client[h].sent = s + 1 /\ client[h].timeout = 2 ^ s /\ client[h].via = "none"
        /\ s = 0 \/ 2 ^ (s - 1) < TIMEOUT_MAX
    BY <2>0 DEF OnSchedule
  <2>2. CASE /\ client[h].timeout < TIMEOUT_MAX
             /\ Transmit(h, [client[h] EXCEPT !.timeout = 2 * @])
    <3> DEFINE d == [[client[h] EXCEPT !.timeout = 2 * @] EXCEPT !.sent = @ + 1]
    <3>1. client' = [client EXCEPT ![h] = d]
      BY <2>2 DEF Transmit
    <3>2. d.via = "none" /\ d.sent = s + 2 /\ d.timeout = 2 * 2 ^ s
      BY <1>0, <2>1 DEF ClientState
    <3> HIDE DEF d, s
    <3>3. d.timeout = 2 ^ (s + 1) /\ d.sent - 1 = s + 1 /\ d.sent - 2 = s /\ 2 ^ s < TIMEOUT_MAX
      BY <2>1, <2>2, <3>2, PowerOfNext
    <3>4. Scheduled(d)
      BY <2>1, <3>2, <3>3 DEF Scheduled, OnSchedule
    <3> QED
      BY <3>1, <3>4 DEF ScheduleInv, TypeOK, ClientTypeOK
  <2>3. CASE client[h].timeout >= TIMEOUT_MAX /\ Configure(h, client[h], "offer")
    <3>1. client[h].sent = MaxSent
      BY <2>1, <2>3, ScheduleEnds
    <3> QED
      BY <1>0, <2>3, <3>1, ConfiguredStops
  <2>4. CASE GiveUp(h, client[h])
    BY <1>0, <2>4, GivenUpStops DEF Scheduled
  <2> QED
    BY <1>3, <2>2, <2>3, <2>4 DEF Timeout
<1>4. CASE \E m \in Replies : ReceiveReply(h, m)
  <2> PICK m \in Replies : ReceiveReply(h, m)
    BY <1>4
  <2> DEFINE c == [client[h] EXCEPT !.info = Decode(m)]
  <2>0. client[h].state # "stopped" /\ OnSchedule(client[h])
    BY <1>0, <1>4 DEF ReceiveReply, Running, Scheduled
  <2>1. c \in ClientState
    BY DecodedType
  <2>2. c.via = "none"
    BY <1>0, <2>0 DEF OnSchedule, ClientState
  <2>3. \/ Transmit(h, Requesting(c)) \/ Configure(h, c, "ack") \/ GiveUp(h, c)
        \/ client' = [client EXCEPT ![h] = c]
    BY DEF ReceiveReply
  <2>4. CASE Transmit(h, Requesting(c))
    <3> HIDE DEF c
    <3>1. Requesting(c) \in ClientState
      BY <2>1, RequestingType
    <3>2. Requesting(c).via = "none" /\ Requesting(c).sent = 0 /\ Requesting(c).timeout = TIMEOUT_INITIAL
      BY <2>1, <2>2 DEF Requesting, ClientState
    <3> QED
      BY <2>4, <3>1, <3>2, FirstTransmission
  <2>5. CASE Configure(h, c, "ack")
    BY <2>1, <2>5, ConfiguredStops
  <2>6. CASE GiveUp(h, c)
    <3> HIDE DEF c
    <3> QED
      BY <2>1, <2>2, <2>6, GivenUpStops
  <2>7. CASE client' = [client EXCEPT ![h] = c]
    BY <2>7, WaitsOn
  <2> QED
    BY <2>3, <2>4, <2>5, <2>6, <2>7
<1>5. CASE ReceiveGarbage(h)
  <2>1. client' = [client EXCEPT ![h] = [client[h] EXCEPT !.info = NoInfo]]
    BY <1>5 DEF ReceiveGarbage, TypeOK, ClientTypeOK
  <2> QED
    BY <2>1, WaitsOn
<1>6. CASE DeviceFails(h)
  BY <1>0, <1>6, GivenUpStops DEF DeviceFails, Scheduled
<1> QED
  BY <1>1, <1>2, <1>3, <1>4, <1>5, <1>6

LEMMA ScheduleInvariance == Spec => [](TypeOK /\ ScheduleInv)
<1>1. Init => ScheduleInv
  BY DEF Init, ClientInit, ScheduleInv, Scheduled
<1>2. TypeOK /\ ScheduleInv /\ [Next]_vars => ScheduleInv'
  <2> SUFFICES ASSUME TypeOK, ScheduleInv, [Next]_vars PROVE ScheduleInv'
    OBVIOUS
  <2>1. CASE UNCHANGED client
    BY <2>1 DEF ScheduleInv
  <2> QED
    BY <2>1, ScheduleKept DEF Next, vars, ServerOffers, ServerAcks, ServerNaks
<1> QED
  BY <1>1, <1>2, ClientTypeCorrect, PTL DEF Spec

\* Each state of a run sends at most MaxSent times, and the timer in force is the one
\* that belongs to the number of transmissions, whatever is received in between, for
\* every TIMEOUT_MAX.
THEOREM ScheduleIsKept == Spec => []RetrySchedule
<1>1. ScheduleInv => RetrySchedule
  <2> SUFFICES ASSUME ScheduleInv, NEW h \in Hosts, Running(h)
               PROVE  /\ client[h].sent \in 1 .. MaxSent
                      /\ client[h].timeout = 2 ^ (client[h].sent - 1)
    BY DEF RetrySchedule
  <2>1. OnSchedule(client[h])
    BY DEF ScheduleInv, Scheduled, Running
  <2> DEFINE s == client[h].sent - 1
  <2>2. s \in Nat /\ client[h].sent = s + 1 /\ (s = 0 \/ 2 ^ (s - 1) < TIMEOUT_MAX)
    BY <2>1 DEF OnSchedule
  <2>3. s + 1 \in 1 .. MaxSent
    BY <2>2, ScheduleEnds
  <2> QED
    BY <2>1, <2>2, <2>3 DEF OnSchedule
<1> QED
  BY <1>1, ScheduleInvariance, PTL

\* Only a host that has transmitted the whole schedule of its state configures
\* parameters that no server has acknowledged.
THEOREM FallbackComesLast == Spec => []FallbackIsLastResort
<1>1. ScheduleInv => FallbackIsLastResort
  BY DEF ScheduleInv, Scheduled, FallbackIsLastResort
<1> QED
  BY <1>1, ScheduleInvariance, PTL
=============================================================================
