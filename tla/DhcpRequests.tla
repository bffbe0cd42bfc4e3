--------------------------- MODULE DhcpRequests ----------------------------
(***************************************************************************)
(* What a DHCP request promises its caller: it succeeds only on an answer  *)
(* that was given after it began, and it may fail at any time.             *)
(***************************************************************************)
CONSTANT Callers
VARIABLE req            \* how far the request of each caller is

Init == req = [c \in Callers |-> "idle"]

Begin(c) == req[c] = "idle" /\ req' = [req EXCEPT ![c] = "waiting"]

\* One answer may be for several callers.
Answer(cs) ==
    /\ \A c \in cs : req[c] = "waiting"
    /\ req' = [c \in Callers |-> IF c \in cs THEN "answered" ELSE req[c]]

Succeed(c) == req[c] = "answered" /\ req' = [req EXCEPT ![c] = "succeeded"]
Fail(c) == req[c] \in {"waiting", "answered"} /\ req' = [req EXCEPT ![c] = "failed"]
Forget(c) == req[c] \in {"succeeded", "failed"} /\ req' = [req EXCEPT ![c] = "idle"]

Next ==
    \/ \E c \in Callers : Begin(c) \/ Succeed(c) \/ Fail(c) \/ Forget(c)
    \/ \E cs \in SUBSET Callers : Answer(cs)

Spec == Init /\ [][Next]_req
=============================================================================
