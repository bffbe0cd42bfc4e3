---------------------------- MODULE DhcpcdAlone ----------------------------
(***************************************************************************)
(* Callers of dhcp_utils.c side by side, with init and dhcpcd.             *)
(***************************************************************************)
EXTENDS DhcpcdControl

CONSTANTS
    Functions,      \* the functions that are called
    MAX_CALLS       \* bound on the calls of a behaviour

ASSUME FunctionsAssumption == Functions \subseteq Asking \cup Stopping

VARIABLE calls      \* calls made so far

allVars == <<vars, calls>>

AloneInit == Init /\ calls = 0

CallSome(c) ==
    /\ calls < MAX_CALLS
    /\ calls' = calls + 1
    /\ \E fn \in Functions, i \in Ifaces : Enter(c, fn, i)

Continue(c) == CallerStep(c) /\ UNCHANGED calls
Surroundings == Environment /\ UNCHANGED calls

Next == Surroundings \/ \E c \in Callers : CallSome(c) \/ Continue(c)

Spec == AloneInit /\ [][Next]_allVars

\* A thread that can run does, over and over, and init takes what is queued.  A
\* property_set waits for init each time the queue has something in it.
Fairness ==
    /\ \A c \in Callers : SF_allVars(Continue(c))
    /\ WF_allVars(InitTakes /\ UNCHANGED calls)
FairSpec == Spec /\ Fairness

-----------------------------------------------------------------------------

\* dhcp_do_request and dhcp_do_request_renew as their callers see them.
Progress ==
    [c \in Callers |->
        CASE call[c].fn \notin Asking \/ At(c, "erase") -> "idle"
          [] call[c].fn \in Asking /\ Idle(c) -> IF call[c].ret = "ok" THEN "succeeded" ELSE "failed"
          [] OTHER -> IF answered[c] = 0 THEN "waiting" ELSE "answered"]
Requests == INSTANCE DhcpRequests WITH req <- Progress

\* A request succeeds only on an answer that dhcpcd gave after the request had
\* erased the result property, whoever else starts, renews and stops meanwhile.
RequestsAreAnswered == Requests!Spec

\* What fill_ip_info returns is from that answer or from a later one, also when the
\* interface is one of a p2p group and its properties have another name.
InfoIsNotOlder ==
    \A c \in Callers : Idle(c) /\ call[c].fn \in Asking /\ call[c].ret = "ok" =>
        \A f \in Field : call[c].got[f] >= answered[c] /\ answered[c] > 0

\* If nothing is written while fill_ip_info reads, it returns one answer: with the
\* prefix length of its mask, and a gateway if it names a gateway or a server.
InfoIsWhole ==
    \A c \in Callers : LET cl == call[c] IN
        Idle(c) /\ cl.fn \in Asking /\ cl.ret = "ok" /\ quiet[c] =>
            /\ \A f, g \in Field : cl.got[f] = cl.got[g]
            /\ HasMask(cl.got["mask"]) =>
                  cl.prefixLength = ipv4NetmaskToPrefixLength(Answers[cl.got["mask"]].mask.bits)
            /\ Says(cl.got[cl.gateway], cl.gateway) \in NoGateway =>
                  /\ Says(cl.got["gateway"], "gateway") \in NoGateway
                  /\ Says(cl.got["server"], "server") \in NoGateway

\* When dhcp_stop reports success dhcpcd does not run, unless somebody has asked to
\* start it since: a `stopped' from before is not taken for the answer.
StopStops ==
    \A c \in Callers :
        Idle(c) /\ call[c].fn = "dhcp_stop" /\ call[c].ret = "ok" /\ quiet[c] =>
            ~daemon[Key(c)].alive

\* Every call returns, whether dhcpcd starts, answers and stops or not.
CallReturns == \A c \in Callers : ~Idle(c) ~> Idle(c)
=============================================================================
