----------------------------- MODULE DhcpClient -----------------------------
(***************************************************************************)
(* The DHCP client of libnetutils: dhcp_init_ifc(), the state machine that *)
(* configures one network interface per host, with the timeouts and        *)
(* retransmissions of its poll loop.                                       *)
(*                                                                         *)
(* A host may call do_dhcp() again after a run has returned.  Timeouts are *)
(* counted in units of TIMEOUT_INITIAL (4 s).                              *)
(* Wall-clock time is left out: the poll may time out whenever it is       *)
(* waiting, whatever else is on the link.                                  *)
(***************************************************************************)
EXTENDS DhcpNet

CONSTANTS
    TIMEOUT_MAX,    \* the last timeout of a state: 32 s in the code, 8 units
    MaxRuns         \* bound: how often a host gets as far as the first DISCOVER

ASSUME ClientAssumption == TIMEOUT_MAX \in Nat \ {0} /\ MaxRuns \in Nat

VARIABLE
    client      \* per host: the locals of dhcp_init_ifc and the interface

TIMEOUT_INITIAL == 1

\* The part of dhcp_info that is used again.  decode_dhcp_msg() zeroes it first.
Info == [type : ReplyTypes \cup {"none"}, ipaddr : AnyAddr, serveraddr : AnyServerId]
NoInfo == [type |-> "none", ipaddr |-> NoAddr, serveraddr |-> NoAddr]

ClientState ==
    [ state : {"stopped", "SELECTING", "REQUESTING"},
      timeout : TIMEOUT_INITIAL .. 2 * TIMEOUT_MAX,
      xid : Nat,
      info : Info,
      runs : 0 .. MaxRuns,
      sent : Nat,             \* transmissions since `state' was entered
      addr : AnyAddr,         \* address of the interface
      via : {"none", "ack", "offer"},   \* what dhcp_configure was called for
      good : Info,            \* last_good_info
      ret : {"none", "ok", "error"} ]   \* what the last run returned

ClientTypeOK == client \in [Hosts -> ClientState]

ClientInit ==
    client = [h \in Hosts |->
        [ state |-> "stopped", timeout |-> TIMEOUT_INITIAL, xid |-> 0,
          info |-> NoInfo, runs |-> 0, sent |-> 0, addr |-> NoAddr,
          via |-> "none", good |-> NoInfo, ret |-> "none" ]]

Running(h) == client[h].state # "stopped"

\* xid is the clock in ms when the run starts and is incremented once in a
\* run: it differs between the runs of a host, and may be the same on two hosts.
FirstXid(run) == 2 * run

\* init_dhcp_discover_msg / init_dhcp_request_msg: no client-id, broadcast flag;
\* the REQUEST names the address and the server that are in `info' now.
Discover(h, c) ==
    [ dir |-> "request", type |-> "discover", chaddr |-> h, xid |-> c.xid,
      clid |-> NoId, ciaddr |-> NoAddr, reqip |-> NoAddr, sid |-> NoAddr,
      name |-> NoName, unicast |-> FALSE ]

Request(h, c) ==
    [ Discover(h, c) EXCEPT !.type = "request", !.reqip = c.info.ipaddr,
                            !.sid = c.info.serveraddr ]

\* The `transmit' label: build the message of the state and send it.  A send
\* that fails is only logged, which is the same as a datagram that is lost.
Transmit(h, c) ==
    /\ client' = [client EXCEPT ![h] = [c EXCEPT !.sent = @ + 1]]
    /\ Send(IF c.state = "SELECTING" THEN Discover(h, c) ELSE Request(h, c))

\* do_dhcp: clear the address, bring the interface up, enter dhcp_init_ifc.
Start(h) ==
    /\ ~Running(h)
    /\ client[h].runs < MaxRuns
    /\ LET run == client[h].runs + 1 IN
       Transmit(h, [ client[h] EXCEPT
            !.state = "SELECTING", !.timeout = TIMEOUT_INITIAL,
            !.xid = FirstXid(run), !.info = NoInfo, !.runs = run, !.sent = 0,
            !.addr = NoAddr, !.via = "none", !.ret = "none" ])

\* do_dhcp or dhcp_init_ifc returns before the first DISCOVER: an interface
\* ioctl failed.  The address is cleared unless clearing it is what failed.
StartFails(h) ==
    /\ ~Running(h)
    /\ \E kept \in {client[h].addr, NoAddr} :
          client' = [client EXCEPT ![h].addr = kept,
                        ![h].via = IF kept = NoAddr THEN "none" ELSE @,
                        ![h].ret = "error"]
    /\ UNCHANGED wire

\* dhcp_configure: last_good_info is set first, then ifc_configure may fail
\* before or after it has set the address.
Configure(h, c, via) ==
    \E set \in BOOLEAN, ret \in {"ok", "error"} :
        /\ ret = "ok" => set
        /\ client' = [client EXCEPT ![h] =
              [ c EXCEPT !.state = "stopped", !.good = c.info, !.ret = ret,
                         !.addr = IF set THEN c.info.ipaddr ELSE NoAddr,
                         !.via = IF set THEN via ELSE "none" ]]

\* What get_dhcp_info reports to the program.
get_dhcp_info(h) ==
    [ipaddr |-> client[h].good.ipaddr, serveraddr |-> client[h].good.serveraddr]

GiveUp(h, c) == client' = [client EXCEPT ![h] = [c EXCEPT !.state = "stopped", !.ret = "error"]]

\* Changed forms of Timeout: it transmits for ever, and it falls back on an offer
\* at once.
TimeoutNeverGivesUp(h) ==
    Running(h) /\ Transmit(h, [client[h] EXCEPT !.timeout = 2 * @])
TimeoutFallsBackEarly(h) ==
    LET c == client[h] IN
    /\ Running(h)
    /\ \/ c.info.type = "offer" /\ Configure(h, c, "offer") /\ UNCHANGED wire
       \/ c.info.type # "offer" /\ c.timeout < TIMEOUT_MAX /\ Transmit(h, [c EXCEPT !.timeout = 2 * @])

\* poll() returned 0.
Timeout(h) ==
    LET c == client[h] IN
    /\ Running(h)
    /\ \/ /\ c.timeout < TIMEOUT_MAX
          /\ Transmit(h, [c EXCEPT !.timeout = 2 * @])
       \/ /\ c.timeout >= TIMEOUT_MAX
          /\ IF c.info.type = "offer" THEN Configure(h, c, "offer") ELSE GiveUp(h, c)
          /\ UNCHANGED wire

\* decode_dhcp_msg: overwrites info whatever the message turns out to be.
Decode(m) == [type |-> m.type, ipaddr |-> m.yiaddr, serveraddr |-> m.sid]

\* Changed forms of ValidReply: a reply to any host, or to any transaction.
ValidReplyAnyHost(h, c, m) == m.xid = c.xid
ValidReplyAnyXid(h, c, m) == m.chaddr = h

\* is_valid_reply: the message answers the last one sent in this state.
ValidReply(h, c, m) == m.xid = c.xid /\ m.chaddr = h

\* Changed form of Requesting: the timeout of the DISCOVERs stays in force.
RequestingAtOldTimeout(c) ==
    [c EXCEPT !.state = "REQUESTING", !.xid = @ + 1, !.sent = 0]

\* A good offer came in: go on to the other state.
Requesting(c) ==
    [c EXCEPT !.state = "REQUESTING", !.timeout = TIMEOUT_INITIAL, !.xid = @ + 1, !.sent = 0]

\* A DHCP reply arrives on the raw socket.
ReceiveReply(h, m) ==
    LET c == [client[h] EXCEPT !.info = Decode(m)] IN
    /\ Running(h)
    /\ m \in Replies
    /\ \/ /\ ValidReply(h, c, m) /\ c.state = "SELECTING" /\ m.type = "offer"
          /\ Transmit(h, Requesting(c))
       \/ /\ ValidReply(h, c, m) /\ c.state = "REQUESTING" /\ m.type = "ack"
          /\ Configure(h, c, "ack")
          /\ UNCHANGED wire
       \/ /\ ValidReply(h, c, m) /\ c.state = "REQUESTING" /\ m.type = "nak"
          /\ GiveUp(h, c)
          /\ UNCHANGED wire
       \/ /\ \/ ~ValidReply(h, c, m)
             \/ c.state = "SELECTING" /\ m.type # "offer"
             \/ c.state = "REQUESTING" /\ m.type \notin {"ack", "nak"}
          /\ client' = [client EXCEPT ![h] = c]
          /\ UNCHANGED wire

\* A datagram for the client port that is too short or has no DHCP cookie:
\* decode_dhcp_msg returns early with info zeroed, and the loop goes on.
ReceiveGarbage(h) ==
    /\ Running(h)
    /\ client' = [client EXCEPT ![h].info = NoInfo]
    /\ UNCHANGED wire

\* poll() fails, or the read says that the device is down or gone.
DeviceFails(h) ==
    /\ Running(h)
    /\ GiveUp(h, client[h])
    /\ UNCHANGED wire

ClientNext ==
    \E h \in Hosts :
        \/ Start(h) \/ StartFails(h) \/ Timeout(h)
        \/ \E m \in Replies : ReceiveReply(h, m)
        \/ ReceiveGarbage(h) \/ DeviceFails(h)

(***************************************************************************)
(* Properties of the client on its own.                                    *)
(***************************************************************************)

\* Transmissions of one state: on entering it, and then as long as the timeout
\* is below TIMEOUT_MAX (in the code: after 4, 8 and 16 seconds).
MaxSent == 1 + Cardinality({n \in 0 .. TIMEOUT_MAX : 2 ^ n < TIMEOUT_MAX})

\* The retransmission schedule: a state sends at most MaxSent times, and the timer
\* in force is the one that belongs to the number of transmissions so far, also
\* after messages of any kind were received in between (timeout * 2, the reset
\* to TIMEOUT_INITIAL, and the comparison with TIMEOUT_MAX in dhcp_init_ifc).
RetrySchedule ==
    \A h \in Hosts : Running(h) =>
        /\ client[h].sent \in 1 .. MaxSent
        /\ client[h].timeout = 2 ^ (client[h].sent - 1)

\* A host falls back to unacknowledged parameters only after the whole
\* schedule of the state it is in has been transmitted.
FallbackIsLastResort ==
    \A h \in Hosts : client[h].via = "offer" => client[h].sent = MaxSent
=============================================================================
