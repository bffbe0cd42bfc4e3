--------------------------- MODULE DhcpcdControl ---------------------------
(***************************************************************************)
(* dhcp_utils.c: callers that start, renew and stop dhcpcd through init's  *)
(* control properties, wait for its result by polling a property, and read *)
(* the lease from more properties, one at a time.                          *)
(*                                                                         *)
(* The properties of an answer are known by the number of the answer that  *)
(* dhcpcd wrote them for, 0 for none; Answers[n] is what they say.  The    *)
(* text that dhcp_get_errmsg returns, one static buffer that some of the   *)
(* error returns fill, is left out.                                        *)
(***************************************************************************)
EXTENDS Netmask, Sequences

CONSTANTS
    Callers,        \* threads that call the library
    Ifaces,         \* interface names
    P2p,            \* those that start with "p2p"
    Answers,        \* the answers that dhcpcd gives, one after the other
    WriteOrder,     \* the order in which dhcpcd writes the fields of an answer
    START_NAPS,     \* 10 seconds in naps of NAP_TIME: 50 in the code
    RESULT_NAPS,    \* 30 seconds: 150
    STOP_NAPS       \* 5 seconds: 25

\* The order in which fill_ip_info reads the fields.  "rest" is everything after
\* the mask: DNS servers, lease time, vendor info, domain, MTU and roaming.
Fields == <<"ipaddress", "gateway", "server", "mask", "rest">>
Field == {Fields[n] : n \in DOMAIN Fields}
NoGateway == {"", "0.0.0.0"}

\* A mask property: not set, not an address, or the bits of one.
NoMask == [is |-> "none"]
BadMask == [is |-> "invalid"]
MaskText == {NoMask, BadMask} \cup [is : {"address"}, bits : Mask]

ASSUME ControlAssumption ==
    /\ P2p \subseteq Ifaces /\ "p2p" \notin Ifaces
    /\ {START_NAPS, RESULT_NAPS, STOP_NAPS} \subseteq Nat \ {0}
    /\ WriteOrder \in Seq(Field) /\ Field \subseteq {WriteOrder[n] : n \in DOMAIN WriteOrder}
    /\ Len(Answers) \in Nat /\ DOMAIN Answers = 1 .. Len(Answers)
    /\ \A n \in DOMAIN Answers : Answers[n].mask \in MaskText

VARIABLES
    result,         \* dhcp.<key>.result, "none" if it is not set or empty
    svc,            \* init.svc.dhcpcd_<key>
    info,           \* dhcp.<key>.<field>: the answer it is from
    queue,          \* control messages that init has not taken yet
    daemon,         \* dhcpcd_<key>: whether it runs, and what it has still to write
    given,          \* answers given so far
    call,           \* per caller: the function it is in
    answered,       \* per caller: the first answer since its request began, 0 for none
    quiet           \* per caller: nobody interfered with what it does now

env == <<result, svc, info, queue, daemon, given>>
vars == <<result, svc, info, queue, daemon, given, call, answered, quiet>>

\* The properties of all interfaces of a p2p group are the same.
Keys == Ifaces \cup {"p2p"}
get_p2p_interface_replacement(i) == IF i \in P2p THEN "p2p" ELSE i
Key(c) == get_p2p_interface_replacement(call[c].iface)

\* Changed form: the fields are looked for under the interface's own name.
OwnName(i) == i
\* The key that fill_ip_info computes for itself.
FieldKey(i) == get_p2p_interface_replacement(i)

(***************************************************************************)
(* The functions: the order of their steps.                                *)
(***************************************************************************)

\* Changed forms: the result property is not erased, and not set to "failed".
KeepsResult == <<"start", "service", "result", "reread", "fill">>
Unmarked == <<"stop", "service">>

dhcp_do_request == <<"erase", "start", "service", "result", "reread", "fill">>
\* Another service is started, which nobody waits for.
dhcp_do_request_renew == <<"erase", "renew", "result", "reread", "fill">>
dhcp_stop == <<"stop", "service", "mark">>
dhcp_release_lease == <<"stop", "service">>

Asking == {"dhcp_do_request", "dhcp_do_request_renew"}
Stopping == {"dhcp_stop", "dhcp_release_lease"}
Steps(fn) ==
    CASE fn = "dhcp_do_request"       -> dhcp_do_request
      [] fn = "dhcp_do_request_renew" -> dhcp_do_request_renew
      [] fn = "dhcp_stop"             -> dhcp_stop
      [] fn = "dhcp_release_lease"    -> dhcp_release_lease

Nothing == [f \in Field |-> 0]

Call ==
    [ fn : Asking \cup Stopping, iface : Ifaces,
      pc : 0 .. 6,                          \* the step it is at, 0 for none
      naps : Nat,                           \* left in wait_for_property
      read : 0 .. Len(Fields) - 1,          \* fields that fill_ip_info has read
      got : [Field -> 0 .. Len(Answers)],
      gateway : {"gateway", "server"}, prefixLength : PrefixLength,
      ret : {"none", "ok", "error"} ]

Called(fn, i, pc) ==
    [ fn |-> fn, iface |-> i, pc |-> pc, naps |-> 0, read |-> 0, got |-> Nothing,
      gateway |-> "gateway", prefixLength |-> 0, ret |-> "none" ]

Init ==
    /\ result = [k \in Keys |-> "none"] /\ svc = [k \in Keys |-> "none"]
    /\ info = [k \in Keys |-> Nothing]
    /\ queue = <<>> /\ given = 0
    /\ daemon = [k \in Keys |-> [alive |-> FALSE, todo |-> <<>>]]
    /\ call \in [Callers -> {Called("dhcp_stop", i, 0) : i \in Ifaces}]
    /\ answered = [c \in Callers |-> 0] /\ quiet = [c \in Callers |-> TRUE]

Idle(c) == call[c].pc = 0
At(c, step) == ~Idle(c) /\ Steps(call[c].fn)[call[c].pc] = step

\* The naps of the wait that a function comes to at a step.
Naps(fn, pc) ==
    CASE Steps(fn)[pc] = "result"                    -> RESULT_NAPS
      [] Steps(fn)[pc] = "service" /\ fn \in Asking   -> START_NAPS
      [] Steps(fn)[pc] = "service" /\ fn \in Stopping -> STOP_NAPS
      [] OTHER -> 0

\* A return, through the error returns of the waits and of fill_ip_info or at the end.
Return(c, ret) ==
    call' = [call EXCEPT ![c].pc = 0, ![c].naps = 0, ![c].read = 0, ![c].ret = ret]
Advance(c) ==
    LET cl == call[c] IN
    IF cl.pc = Len(Steps(cl.fn)) THEN Return(c, "ok")
    ELSE call' = [call EXCEPT ![c].pc = @ + 1, ![c].naps = Naps(cl.fn, cl.pc + 1)]

\* property_set returns when init has taken the message, and init takes messages in
\* order; only one to a control property is answered before it is looked at.
Drained == queue = <<>>

(***************************************************************************)
(* The steps.                                                              *)
(***************************************************************************)

Enter(c, fn, i) ==
    /\ Idle(c)
    /\ call' = [call EXCEPT ![c] = Called(fn, i, 1)]
    /\ answered' = [answered EXCEPT ![c] = 0]
    /\ quiet' = [quiet EXCEPT ![c] = TRUE]
    /\ UNCHANGED env

\* Erase any previous setting of the dhcp result property.
Erase(c) ==
    /\ At(c, "erase") /\ Drained
    /\ result' = [result EXCEPT ![Key(c)] = "none"]
    /\ Advance(c)
    /\ UNCHANGED <<svc, info, queue, daemon, given, answered, quiet>>

\* The message to ctl.start or ctl.stop.
Control(c) ==
    \E cmd \in {"start", "renew", "stop"} :
        /\ At(c, cmd)
        /\ queue' = Append(queue, [cmd |-> cmd, key |-> Key(c)])
        /\ Advance(c)
        /\ quiet' = [d \in Callers |-> quiet[d] /\ ~(cmd = "start" /\ d # c /\ Key(d) = Key(c))]
        /\ UNCHANGED <<result, svc, info, daemon, given, answered>>

\* Changed forms: the naps are not counted; they are, but do not end the wait.
NapForEver(c) == call' = call
NapBelowZero(c) == call' = [call EXCEPT ![c].naps = @ - 1]

\* wait_for_property: a nap, and a look that is not what is wanted.
NapAgain(c) == call[c].naps > 1 /\ call' = [call EXCEPT ![c].naps = @ - 1]

Desired(fn) == IF fn \in Stopping THEN "stopped" ELSE "running"

WaitForService(c) ==
    /\ At(c, "service")
    /\ IF svc[Key(c)] = Desired(call[c].fn) THEN Advance(c)
       ELSE NapAgain(c) \/ (call[c].naps = 1 /\ Return(c, "error"))
    /\ UNCHANGED <<env, answered, quiet>>

WaitForResult(c) ==
    /\ At(c, "result")
    /\ IF result[Key(c)] # "none" THEN Advance(c)
       ELSE NapAgain(c) \/ (call[c].naps = 1 /\ Return(c, "error"))
    /\ UNCHANGED <<env, answered, quiet>>

\* The fields of a key are all of one answer.
Whole(k) == \A f, g \in Field : info[k][f] = info[k][g]

ReadResult(c) ==
    /\ At(c, "reread")
    /\ IF result[Key(c)] = "ok" THEN Advance(c) ELSE Return(c, "error")
    /\ quiet' = [quiet EXCEPT ![c] = Whole(Key(c))]
    /\ UNCHANGED <<env, answered>>

\* What the n-th answer says in a field; a property that is not set is "".
Says(n, f) == IF n = 0 THEN "" ELSE Answers[n][f]

\* The mask is there, and inet_addr makes something of it.
HasMask(n) == n # 0 /\ Answers[n].mask # NoMask
InvalidMask(n) == HasMask(n) /\ (Answers[n].mask = BadMask \/ NonContiguous(Answers[n].mask.bits))

\* Changed form: no other gateway is looked for.
AsGiven(n) == "gateway"
\* The property that the gateway is taken from: "DHCP server is our best bet".
GatewayFrom(n) == IF Says(n, "gateway") \in NoGateway THEN "server" ELSE "gateway"

\* fill_ip_info: one property_get, and what is made of it.
Filled(cl, f, n) ==
    LET last == cl.read + 1 = Len(Fields)
    IN  [cl EXCEPT
            !.pc = IF last THEN 0 ELSE cl.pc,
            !.read = IF last THEN 0 ELSE cl.read + 1,
            !.got = [cl.got EXCEPT ![f] = n],
            !.gateway = IF f = "server" THEN GatewayFrom(cl.got["gateway"]) ELSE cl.gateway,
            !.prefixLength = IF f = "mask" /\ HasMask(n) THEN ShiftedOut(Answers[n].mask.bits)
                             ELSE cl.prefixLength,
            !.ret = IF last THEN "ok" ELSE cl.ret]

Fill(c) ==
    LET f == Fields[call[c].read + 1]
        n == info[FieldKey(call[c].iface)][f]
    IN  /\ At(c, "fill")
        /\ IF f = "mask" /\ InvalidMask(n) THEN Return(c, "error")
           ELSE call' = [call EXCEPT ![c] = Filled(call[c], f, n)]
        /\ UNCHANGED <<env, answered, quiet>>

\* dhcp_stop leaves "failed" for whoever waits for the result.
Mark(c) ==
    /\ At(c, "mark") /\ Drained
    /\ result' = [result EXCEPT ![Key(c)] = "failed"]
    /\ Advance(c)
    /\ UNCHANGED <<svc, info, queue, daemon, given, answered, quiet>>

CallerStep(c) ==
    Erase(c) \/ Control(c) \/ WaitForService(c) \/ WaitForResult(c) \/ ReadResult(c) \/ Fill(c) \/ Mark(c)

(***************************************************************************)
(* init and dhcpcd.                                                        *)
(***************************************************************************)

\* A service that runs is not started again, one that is stopped is killed.  A
\* renewal tells a dhcpcd that runs to ask again, which it may do by itself.
InitTakes ==
    LET msg == Head(queue)
        k == msg.key
    IN  /\ ~Drained
        /\ queue' = Tail(queue)
        /\ \/ /\ msg.cmd = "start" /\ ~daemon[k].alive
              /\ svc' = [svc EXCEPT ![k] = "running"]
              /\ daemon' = [daemon EXCEPT ![k] = [alive |-> TRUE, todo |-> <<>>]]
           \/ /\ msg.cmd = "stop"
              /\ svc' = [svc EXCEPT ![k] = IF daemon[k].alive THEN "stopping" ELSE "stopped"]
              /\ daemon' = [daemon EXCEPT ![k] = [alive |-> FALSE, todo |-> <<>>]]
           \/ /\ msg.cmd = "renew" \/ (msg.cmd = "start" /\ daemon[k].alive)
              /\ UNCHANGED <<svc, daemon>>
        /\ UNCHANGED <<result, info, given, call, answered, quiet>>

Reaped(k) ==
    /\ svc[k] = "stopping"
    /\ svc' = [svc EXCEPT ![k] = "stopped"]
    /\ UNCHANGED <<result, info, queue, daemon, given, call, answered, quiet>>

DaemonExits(k) ==
    /\ daemon[k].alive
    /\ daemon' = [daemon EXCEPT ![k] = [alive |-> FALSE, todo |-> <<>>]]
    /\ svc' = [svc EXCEPT ![k] = "stopped"]
    /\ UNCHANGED <<result, info, queue, given, call, answered, quiet>>

\* A lease, new or renewed: its fields are written one by one, ...
DaemonBinds(k) ==
    /\ daemon[k].alive /\ daemon[k].todo = <<>> /\ given < Len(Answers)
    /\ given' = given + 1
    /\ daemon' = [daemon EXCEPT ![k].todo = [n \in DOMAIN WriteOrder |-> [f |-> WriteOrder[n], n |-> given + 1]]]
    /\ UNCHANGED <<result, svc, info, queue, call, answered, quiet>>

\* ... and after the last one the result.
Awaiting(k) == {c \in Callers : Key(c) = k /\ ~Idle(c) /\ ~At(c, "erase") /\ answered[c] = 0}
DaemonWrites(k) ==
    LET w == Head(daemon[k].todo) IN
    /\ daemon[k].todo # <<>> /\ Drained
    /\ info' = [info EXCEPT ![k][w.f] = w.n]
    /\ daemon' = [daemon EXCEPT ![k].todo = Tail(@)]
    /\ \/ Len(daemon[k].todo) > 1 /\ UNCHANGED <<result, answered>>
       \/ /\ Len(daemon[k].todo) = 1
          /\ result' = [result EXCEPT ![k] = "ok"]
          /\ answered' = [c \in Callers |-> IF c \in Awaiting(k) THEN w.n ELSE answered[c]]
    /\ quiet' = [c \in Callers |-> quiet[c] /\ ~(At(c, "fill") /\ Key(c) = k)]
    /\ UNCHANGED <<svc, queue, given, call>>

DaemonFails(k) ==
    /\ daemon[k].alive /\ daemon[k].todo = <<>> /\ Drained
    /\ result' = [result EXCEPT ![k] = "failed"]
    /\ UNCHANGED <<svc, info, queue, daemon, given, call, answered, quiet>>

Environment ==
    InitTakes \/ \E k \in Keys : Reaped(k) \/ DaemonExits(k) \/ DaemonBinds(k) \/ DaemonWrites(k) \/ DaemonFails(k)

-----------------------------------------------------------------------------

TypeOK ==
    /\ result \in [Keys -> {"none", "ok", "failed"}]
    /\ svc \in [Keys -> {"none", "running", "stopping", "stopped"}]
    /\ info \in [Keys -> [Field -> 0 .. Len(Answers)]]
    /\ queue \in Seq([cmd : {"start", "renew", "stop"}, key : Keys])
    /\ daemon \in [Keys -> [alive : BOOLEAN, todo : Seq([f : Field, n : 1 .. Len(Answers)])]]
    /\ given \in 0 .. Len(Answers)
    /\ call \in [Callers -> Call]
    /\ answered \in [Callers -> 0 .. Len(Answers)] /\ quiet \in [Callers -> BOOLEAN]
=============================================================================
