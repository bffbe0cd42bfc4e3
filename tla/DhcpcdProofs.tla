---------------------------- MODULE DhcpcdProofs ---------------------------
(***************************************************************************)
(* Proofs about dhcp_utils.c: the types of its state, that requests are    *)
(* answered, that what they return is no older than the answer and all of  *)
(* one answer, that a stop stops, and that its conversion of netmasks      *)
(* agrees with those of ifc_utils.c, whatever the width of an address.     *)
(***************************************************************************)
EXTENDS DhcpcdAlone, FiniteSetTheorems, TLAPS

(***************************************************************************)
(* Netmasks and prefix lengths.                                            *)
(***************************************************************************)

\* The rounds of the two loops.
Leading(m) == {n \in 1 .. Bits : \A i \in 1 .. n : m[i]}
NotShiftedOut(m) == {n \in 1 .. Bits : \E i \in n .. Bits : m[i]}

\* A mask without a hole: the loops have the same rounds.
LEMMA SameRounds ==
    ASSUME NEW m \in Mask, ~NonContiguous(m)
    PROVE  Leading(m) = NotShiftedOut(m)
<1>1. \A i, j \in 1 .. Bits : i < j /\ m[j] => m[i]
  BY DEF NonContiguous, Mask
<1>2. Bits \in Nat
  BY BitsAssumption
<1>3. ASSUME NEW n \in Leading(m)
      PROVE  n \in NotShiftedOut(m)
  <2>1. n \in 1 .. Bits /\ n \in 1 .. n /\ n \in n .. Bits
    BY <1>2 DEF Leading
  <2>2. m[n]
    BY <2>1 DEF Leading
  <2> QED
    BY <2>1, <2>2 DEF NotShiftedOut
<1>4. ASSUME NEW n \in NotShiftedOut(m)
      PROVE  n \in Leading(m)
  <2>1. PICK i \in n .. Bits : m[i]
    BY DEF NotShiftedOut
  <2>2. n \in 1 .. Bits
    BY DEF NotShiftedOut
  <2>3. ASSUME NEW j \in 1 .. n
        PROVE  m[j]
    <3>1. i \in 1 .. Bits /\ j \in 1 .. Bits /\ (j < i \/ j = i)
      BY <1>2, <2>1, <2>2
    <3> QED
      BY <1>1, <2>1, <3>1
  <2> QED
    BY <2>2, <2>3 DEF Leading
<1> QED
  BY <1>3, <1>4

\* The loop of fill_ip_info counts what ipv4NetmaskToPrefixLength counts, for every
\* mask that it does not give up on.
THEOREM ShiftedOutAgrees ==
    ASSUME NEW m \in Mask, ~NonContiguous(m)
    PROVE  ShiftedOut(m) = ipv4NetmaskToPrefixLength(m)
BY SameRounds DEF ShiftedOut, ipv4NetmaskToPrefixLength, Leading, NotShiftedOut

LEMMA BitsOfPrefix ==
    ASSUME NEW p \in PrefixLength, NEW i \in 1 .. Bits
    PROVE  prefixLengthToIpv4Netmask(p)[i] <=> i <= p
<1>1. prefixLengthToIpv4Netmask(p)[i] = (p \in 1 .. Bits /\ i <= p)
  BY Zenon DEF prefixLengthToIpv4Netmask
<1>2. (p \in 1 .. Bits /\ i <= p) <=> i <= p
  BY BitsAssumption DEF PrefixLength
<1> QED
  BY <1>1, <1>2, Zenon

LEMMA LeadingOfPrefix ==
    ASSUME NEW p \in PrefixLength
    PROVE  Leading(prefixLengthToIpv4Netmask(p)) = 1 .. p
<1> DEFINE m == prefixLengthToIpv4Netmask(p)
<1>1. Bits \in Nat /\ p \in 0 .. Bits
  BY BitsAssumption DEF PrefixLength
<1>2. \A i \in 1 .. Bits : m[i] <=> i <= p
  BY BitsOfPrefix
<1> HIDE DEF m
<1>3. ASSUME NEW n \in Leading(m)
      PROVE  n \in 1 .. p
  <2>1. n \in 1 .. Bits /\ n \in 1 .. n
    BY <1>1 DEF Leading
  <2>2. m[n]
    BY <2>1 DEF Leading
  <2> QED
    BY <1>1, <1>2, <2>1, <2>2
<1>4. ASSUME NEW n \in 1 .. p
      PROVE  n \in Leading(m)
  <2>1. n \in 1 .. Bits
    BY <1>1
  <2>2. \A i \in 1 .. n : i \in 1 .. Bits /\ i <= p
    BY <1>1
  <2> QED
    BY <1>2, <2>1, <2>2 DEF Leading
<1> QED
  BY <1>3, <1>4 DEF m

\* A prefix length is what is read back of the mask made from it, by ifc_get_info and
\* by fill_ip_info, which never takes such a mask for one with a hole.
THEOREM PrefixLengthIsReadBack ==
    ASSUME NEW p \in PrefixLength
    PROVE  LET m == prefixLengthToIpv4Netmask(p)
           IN  /\ ipv4NetmaskToPrefixLength(m) = p /\ ~NonContiguous(m)
               /\ ShiftedOut(m) = p
<1> DEFINE m == prefixLengthToIpv4Netmask(p)
<1>1. Bits \in Nat /\ p \in Nat /\ p <= Bits
  BY BitsAssumption DEF PrefixLength
<1>2. m \in Mask
  BY DEF prefixLengthToIpv4Netmask, Mask
<1>3. Cardinality(1 .. p) = p
  BY <1>1, FS_Interval
<1>4. ipv4NetmaskToPrefixLength(m) = p
  <2>1. ipv4NetmaskToPrefixLength(m) = Cardinality(Leading(m))
    BY DEF ipv4NetmaskToPrefixLength, Leading
  <2> QED
    BY <1>3, <2>1, LeadingOfPrefix
<1>5. ~NonContiguous(m)
  <2>1. \A i \in 1 .. Bits : m[i] <=> i <= p
    BY BitsOfPrefix
  <2> HIDE DEF m
  <2> QED
    BY <1>1, <2>1 DEF NonContiguous
<1>6. ShiftedOut(m) = p
  <2> HIDE DEF m
  <2> QED
    BY <1>2, <1>4, <1>5, ShiftedOutAgrees
<1> QED
  BY <1>4, <1>5, <1>6

(***************************************************************************)
(* The programs of the functions.                                          *)
(***************************************************************************)

Fns == Asking \cup Stopping

\* What the place of a step says of the function, and the other way round.
AtStep(fn, step, pc) ==
    /\ step = "erase" => fn \in Asking /\ pc = 1
    /\ step \in {"start", "renew"} => fn \in Asking /\ pc = 2
    /\ step \in {"stop", "mark"} => fn \notin Asking
    /\ step \in {"service", "result"} /\ fn \in Asking => pc \in 3 .. Len(Steps(fn)) - 2
    /\ step = "reread" => fn \in Asking /\ pc = Len(Steps(fn)) - 1
    /\ step = "fill" => fn \in Asking /\ pc = Len(Steps(fn))
    /\ fn \in Asking /\ pc = Len(Steps(fn)) => step = "fill"

\* Where the steps are that an argument depends on.
LEMMA StepsOf ==
    ASSUME NEW fn \in Fns
    PROVE  /\ Len(Steps(fn)) \in 2 .. 6
           /\ fn \in Asking => Len(Steps(fn)) \in 5 .. 6 /\ Steps(fn)[1] = "erase"
           /\ \A pc \in 1 .. Len(Steps(fn)) : AtStep(fn, Steps(fn)[pc], pc)
<1>1. fn \in {"dhcp_do_request", "dhcp_do_request_renew", "dhcp_stop", "dhcp_release_lease"}
  BY DEF Fns, Asking, Stopping
<1>2. CASE fn = "dhcp_do_request"
  <2>1. Steps(fn) = <<"erase", "start", "service", "result", "reread", "fill">>
    BY <1>2 DEF Steps, dhcp_do_request
  <2>2. Len(Steps(fn)) = 6
    BY <2>1
  <2>3. /\ Steps(fn)[1] = "erase"
         /\ Steps(fn)[2] = "start"
         /\ Steps(fn)[3] = "service"
         /\ Steps(fn)[4] = "result"
         /\ Steps(fn)[5] = "reread"
         /\ Steps(fn)[6] = "fill"
    BY <2>1
  <2>4. \A pc \in 1 .. 6 : pc = 1 \/ pc = 2 \/ pc = 3 \/ pc = 4 \/ pc = 5 \/ pc = 6
    OBVIOUS
  <2>5. fn \in Asking
    BY <1>2 DEF Asking
  <2>6. SUFFICES ASSUME NEW pc \in 1 .. 6
                 PROVE  AtStep(fn, Steps(fn)[pc], pc)
    BY <2>2, <2>3, <2>5 DEF AtStep
  <2>7. CASE pc = 1
    BY <2>2, <2>3, <2>5, <2>7 DEF AtStep
  <2>8. CASE pc = 2
    BY <2>2, <2>3, <2>5, <2>8 DEF AtStep
  <2>9. CASE pc = 3
    BY <2>2, <2>3, <2>5, <2>9 DEF AtStep
  <2>10. CASE pc = 4
    BY <2>2, <2>3, <2>5, <2>10 DEF AtStep
  <2>11. CASE pc = 5
    BY <2>2, <2>3, <2>5, <2>11 DEF AtStep
  <2>12. CASE pc = 6
    BY <2>2, <2>3, <2>5, <2>12 DEF AtStep
  <2> QED
    BY <2>4, <2>7, <2>8, <2>9, <2>10, <2>11, <2>12
<1>3. CASE fn = "dhcp_do_request_renew"
  <2>1. Steps(fn) = <<"erase", "renew", "result", "reread", "fill">>
    BY <1>3 DEF Steps, dhcp_do_request_renew
  <2>2. Len(Steps(fn)) = 5
    BY <2>1
  <2>3. /\ Steps(fn)[1] = "erase"
         /\ Steps(fn)[2] = "renew"
         /\ Steps(fn)[3] = "result"
         /\ Steps(fn)[4] = "reread"
         /\ Steps(fn)[5] = "fill"
    BY <2>1
  <2>4. \A pc \in 1 .. 5 : pc = 1 \/ pc = 2 \/ pc = 3 \/ pc = 4 \/ pc = 5
    OBVIOUS
  <2>5. fn \in Asking
    BY <1>3 DEF Asking
  <2>6. SUFFICES ASSUME NEW pc \in 1 .. 5
                 PROVE  AtStep(fn, Steps(fn)[pc], pc)
    BY <2>2, <2>3, <2>5 DEF AtStep
  <2>7. CASE pc = 1
    BY <2>2, <2>3, <2>5, <2>7 DEF AtStep
  <2>8. CASE pc = 2
    BY <2>2, <2>3, <2>5, <2>8 DEF AtStep
  <2>9. CASE pc = 3
    BY <2>2, <2>3, <2>5, <2>9 DEF AtStep
  <2>10. CASE pc = 4
    BY <2>2, <2>3, <2>5, <2>10 DEF AtStep
  <2>11. CASE pc = 5
    BY <2>2, <2>3, <2>5, <2>11 DEF AtStep
  <2> QED
    BY <2>4, <2>7, <2>8, <2>9, <2>10, <2>11
<1>4. CASE fn = "dhcp_stop"
  <2>1. Steps(fn) = <<"stop", "service", "mark">>
    BY <1>4 DEF Steps, dhcp_stop
  <2>2. Len(Steps(fn)) = 3
    BY <2>1
  <2>3. /\ Steps(fn)[1] = "stop"
         /\ Steps(fn)[2] = "service"
         /\ Steps(fn)[3] = "mark"
    BY <2>1
  <2>4. \A pc \in 1 .. 3 : pc = 1 \/ pc = 2 \/ pc = 3
    OBVIOUS
  <2>5. fn \notin Asking
    BY <1>4 DEF Asking
  <2>6. SUFFICES ASSUME NEW pc \in 1 .. 3
                 PROVE  AtStep(fn, Steps(fn)[pc], pc)
    BY <2>2, <2>3, <2>5 DEF AtStep
  <2>7. CASE pc = 1
    BY <2>2, <2>3, <2>5, <2>7 DEF AtStep
  <2>8. CASE pc = 2
    BY <2>2, <2>3, <2>5, <2>8 DEF AtStep
  <2>9. CASE pc = 3
    BY <2>2, <2>3, <2>5, <2>9 DEF AtStep
  <2> QED
    BY <2>4, <2>7, <2>8, <2>9
<1>5. CASE fn = "dhcp_release_lease"
  <2>1. Steps(fn) = <<"stop", "service">>
    BY <1>5 DEF Steps, dhcp_release_lease
  <2>2. Len(Steps(fn)) = 2
    BY <2>1
  <2>3. /\ Steps(fn)[1] = "stop"
         /\ Steps(fn)[2] = "service"
    BY <2>1
  <2>4. \A pc \in 1 .. 2 : pc = 1 \/ pc = 2
    OBVIOUS
  <2>5. fn \notin Asking
    BY <1>5 DEF Asking
  <2>6. SUFFICES ASSUME NEW pc \in 1 .. 2
                 PROVE  AtStep(fn, Steps(fn)[pc], pc)
    BY <2>2, <2>3, <2>5 DEF AtStep
  <2>7. CASE pc = 1
    BY <2>2, <2>3, <2>5, <2>7 DEF AtStep
  <2>8. CASE pc = 2
    BY <2>2, <2>3, <2>5, <2>8 DEF AtStep
  <2> QED
    BY <2>4, <2>7, <2>8
<1> QED
  BY <1>1, <1>2, <1>3, <1>4, <1>5

LEMMA StepNames ==
    ASSUME NEW fn \in Fns, NEW pc \in 1 .. Len(Steps(fn))
    PROVE  Steps(fn)[pc] \in {"erase", "start", "renew", "stop", "mark", "service", "result", "reread", "fill"}
<1>1. fn \in {"dhcp_do_request", "dhcp_do_request_renew", "dhcp_stop", "dhcp_release_lease"}
  BY DEF Fns, Asking, Stopping
<1>2. CASE fn = "dhcp_do_request"
  <2>1. Steps(fn) = <<"erase", "start", "service", "result", "reread", "fill">>
    BY <1>2 DEF Steps, dhcp_do_request
  <2> QED
    BY <2>1
<1>3. CASE fn = "dhcp_do_request_renew"
  <2>1. Steps(fn) = <<"erase", "renew", "result", "reread", "fill">>
    BY <1>3 DEF Steps, dhcp_do_request_renew
  <2> QED
    BY <2>1
<1>4. CASE fn = "dhcp_stop"
  <2>1. Steps(fn) = <<"stop", "service", "mark">>
    BY <1>4 DEF Steps, dhcp_stop
  <2> QED
    BY <2>1
<1>5. CASE fn = "dhcp_release_lease"
  <2>1. Steps(fn) = <<"stop", "service">>
    BY <1>5 DEF Steps, dhcp_release_lease
  <2> QED
    BY <2>1
<1> QED
  BY <1>1, <1>2, <1>3, <1>4, <1>5

(***************************************************************************)
(* What becomes of a call.                                                 *)
(***************************************************************************)

PcOK == \A c \in Callers : call[c].pc <= Len(Steps(call[c].fn))
Types == TypeOK /\ PcOK

\* A step that leaves a call to its function and interface, and other calls alone.
Keeps(c) ==
    /\ call' \in [Callers -> Call]
    /\ \A d \in Callers : d # c => call'[d] = call[d]
    /\ call'[c].fn = call[c].fn /\ call'[c].iface = call[c].iface

LEMMA FieldsLength == Len(Fields) = 5
BY DEF Fields

LEMMA FieldsTyped == \A n \in 1 .. 5 : Fields[n] \in Field
<1>1. DOMAIN Fields = 1 .. 5
  BY DEF Fields
<1> QED
  BY <1>1 DEF Field

LEMMA Typed ==
    ASSUME Types, NEW c \in Callers
    PROVE  /\ call \in [Callers -> Call] /\ call[c] \in Call
           /\ call[c].fn \in Fns /\ call[c].pc \in 0 .. 6 /\ call[c].pc <= Len(Steps(call[c].fn))
           /\ Key(c) \in Keys /\ FieldKey(call[c].iface) = Key(c)
           /\ answered[c] \in 0 .. Len(Answers)
<1>1. call \in [Callers -> Call] /\ call[c] \in Call
  BY DEF Types, TypeOK
<1>2. call[c].fn \in Fns /\ call[c].pc \in 0 .. 6 /\ call[c].iface \in Ifaces
  BY <1>1 DEF Call, Fns
<1>3. Key(c) \in Keys /\ FieldKey(call[c].iface) = Key(c)
  BY <1>2 DEF Key, Keys, FieldKey, get_p2p_interface_replacement
<1>4. answered[c] \in 0 .. Len(Answers) /\ call[c].pc <= Len(Steps(call[c].fn))
  BY DEF Types, TypeOK, PcOK
<1> QED
  BY <1>1, <1>2, <1>3, <1>4

\* A call stays one when it ends, and when fill_ip_info has read another field.
LEMMA CallEnds ==
    ASSUME NEW y \in Call, NEW ret \in {"ok", "error"}
    PROVE  [y EXCEPT !.pc = 0, !.naps = 0, !.read = 0, !.ret = ret] \in Call
<1> DEFINE A == Asking \cup Stopping
           B == 0 .. 6
           C == 0 .. (Len(Fields) - 1)
           D == [Field -> 0 .. Len(Answers)]
           E == {"gateway", "server"}
           F == {"none", "ok", "error"}
           S == [ fn : A, iface : Ifaces, pc : B, naps : Nat, read : C, got : D,
                  gateway : E, prefixLength : PrefixLength, ret : F ]
<1>1. Call = S
  BY DEF Call
<1>2. y \in S /\ 0 \in B /\ 0 \in Nat /\ 0 \in C /\ ret \in F
  BY <1>1, FieldsLength
<1> HIDE DEF A, B, C, D, E, F
<1>3. [y EXCEPT !.pc = 0, !.naps = 0, !.read = 0, !.ret = ret] \in S
  BY <1>2
<1> QED
  BY <1>1, <1>3

LEMMA CallFills ==
    ASSUME NEW y \in Call, NEW pc \in 0 .. 6, NEW read \in 0 .. (Len(Fields) - 1),
           NEW got \in [Field -> 0 .. Len(Answers)], NEW gateway \in {"gateway", "server"},
           NEW prefixLength \in PrefixLength, NEW ret \in {"none", "ok", "error"}
    PROVE  [y EXCEPT !.pc = pc, !.read = read, !.got = got, !.gateway = gateway,
                     !.prefixLength = prefixLength, !.ret = ret] \in Call
<1> DEFINE A == Asking \cup Stopping
           B == 0 .. 6
           C == 0 .. (Len(Fields) - 1)
           D == [Field -> 0 .. Len(Answers)]
           E == {"gateway", "server"}
           F == {"none", "ok", "error"}
           S == [ fn : A, iface : Ifaces, pc : B, naps : Nat, read : C, got : D,
                  gateway : E, prefixLength : PrefixLength, ret : F ]
<1>1. Call = S
  BY DEF Call
<1>2. /\ y \in S /\ pc \in B /\ read \in C /\ got \in D /\ gateway \in E
      /\ prefixLength \in PrefixLength /\ ret \in F
  BY <1>1
<1> HIDE DEF A, B, C, D, E, F
<1>3. [y EXCEPT !.pc = pc, !.read = read, !.got = got, !.gateway = gateway,
                !.prefixLength = prefixLength, !.ret = ret] \in S
  BY <1>2
<1> QED
  BY <1>1, <1>3

LEMMA NapsTyped ==
    ASSUME NEW fn, NEW pc
    PROVE  Naps(fn, pc) \in Nat
BY ControlAssumption DEF Naps

\* A call that becomes x, if x is one of the same function and interface.
LEMMA Becomes ==
    ASSUME Types, NEW c \in Callers, NEW x \in Call,
           x.fn = call[c].fn, x.iface = call[c].iface, call' = [call EXCEPT ![c] = x]
    PROVE  Keeps(c) /\ call'[c] = x
BY Typed DEF Keeps

LEMMA Returns ==
    ASSUME Types, NEW c \in Callers, NEW ret \in {"ok", "error"},
           Return(c, ret)
    PROVE  /\ Keeps(c) /\ call'[c].pc = 0 /\ call'[c].ret = ret /\ call'[c].read = 0
           /\ call'[c].got = call[c].got
<1> DEFINE x == [call[c] EXCEPT !.pc = 0, !.naps = 0, !.read = 0, !.ret = ret]
<1>1. call[c] \in Call /\ call \in [Callers -> Call]
  BY Typed
<1>2. call' = [call EXCEPT ![c] = x]
  BY <1>1 DEF Return
<1>3. x \in Call
  BY <1>1, CallEnds
<1>4. /\ x.fn = call[c].fn /\ x.iface = call[c].iface /\ x.pc = 0 /\ x.ret = ret /\ x.read = 0
      /\ x.got = call[c].got
  BY <1>1 DEF Call
<1> HIDE DEF x
<1> QED
  BY <1>2, <1>3, <1>4, Becomes

LEMMA Advances ==
    ASSUME Types, NEW c \in Callers, ~Idle(c), Advance(c)
    PROVE  \/ call[c].pc = Len(Steps(call[c].fn)) /\ Return(c, "ok")
           \/ /\ Keeps(c) /\ call[c].pc < Len(Steps(call[c].fn)) /\ call'[c].pc = call[c].pc + 1
              /\ call'[c].read = call[c].read /\ call'[c].got = call[c].got /\ call'[c].ret = call[c].ret
<1>1. /\ call[c] \in Call /\ call \in [Callers -> Call]
      /\ call[c].fn \in Fns /\ call[c].pc \in 0 .. 6 /\ call[c].pc <= Len(Steps(call[c].fn))
  BY Typed
<1>2. Len(Steps(call[c].fn)) \in 2 .. 6
  BY <1>1, StepsOf
<1>3. CASE call[c].pc = Len(Steps(call[c].fn))
  BY <1>3 DEF Advance
<1>4. CASE call[c].pc # Len(Steps(call[c].fn))
  <2> DEFINE x == [call[c] EXCEPT !.pc = @ + 1, !.naps = Naps(call[c].fn, call[c].pc + 1)]
  <2>1. call' = [call EXCEPT ![c] = x]
    BY <1>1, <1>4 DEF Advance
  <2>2. Naps(call[c].fn, call[c].pc + 1) \in Nat
    BY NapsTyped
  <2>3. call[c].pc + 1 \in 0 .. 6 /\ call[c].pc < Len(Steps(call[c].fn))
    <3> DEFINE n == Len(Steps(call[c].fn))
               p == call[c].pc
    <3>1. n \in 2 .. 6 /\ p \in 0 .. 6 /\ p <= n /\ p # n
      BY <1>1, <1>2, <1>4
    <3> HIDE DEF n, p
    <3>2. p + 1 \in 0 .. 6 /\ p < n
      BY <3>1
    <3> QED
      BY <3>2 DEF n, p
  <2>4. x \in Call
    BY <1>1, <2>2, <2>3 DEF Call
  <2>5. /\ x.fn = call[c].fn /\ x.iface = call[c].iface /\ x.pc = call[c].pc + 1
        /\ x.read = call[c].read /\ x.got = call[c].got /\ x.ret = call[c].ret
    BY <1>1 DEF Call
  <2> HIDE DEF x
  <2> QED
    BY <2>1, <2>3, <2>4, <2>5, Becomes
<1> QED
  BY <1>3, <1>4

LEMMA NapsAgain ==
    ASSUME Types, NEW c \in Callers, NapAgain(c)
    PROVE  /\ Keeps(c) /\ call'[c].pc = call[c].pc
           /\ call'[c].read = call[c].read /\ call'[c].got = call[c].got /\ call'[c].ret = call[c].ret
<1> DEFINE x == [call[c] EXCEPT !.naps = @ - 1]
<1>1. call[c] \in Call /\ call \in [Callers -> Call]
  BY Typed
<1>2. call' = [call EXCEPT ![c] = x]
  BY <1>1 DEF NapAgain
<1>3. call[c].naps \in Nat /\ call[c].naps > 1
  BY <1>1 DEF Call, NapAgain
<1>4. call[c].naps - 1 \in Nat
  BY <1>3
<1>5. x \in Call
  BY <1>1, <1>4 DEF Call
<1>6. /\ x.fn = call[c].fn /\ x.iface = call[c].iface /\ x.pc = call[c].pc
      /\ x.read = call[c].read /\ x.got = call[c].got /\ x.ret = call[c].ret
  BY <1>1 DEF Call
<1> HIDE DEF x
<1> QED
  BY <1>2, <1>5, <1>6, Becomes

LEMMA ShiftedOutTyped ==
    ASSUME NEW m
    PROVE  ShiftedOut(m) \in PrefixLength
<1> DEFINE S == {n \in 1 .. Bits : \E i \in n .. Bits : m[i]}
<1>1. IsFiniteSet(1 .. Bits) /\ Cardinality(1 .. Bits) = Bits
  BY FS_Interval, BitsAssumption
<1>2. Cardinality(S) \in Nat /\ Cardinality(S) <= Bits
  BY <1>1, FS_Subset, FS_CardinalityType
<1> QED
  BY <1>2, BitsAssumption DEF ShiftedOut, PrefixLength

LEMMA GatewayTyped ==
    ASSUME NEW n
    PROVE  GatewayFrom(n) \in {"gateway", "server"}
BY DEF GatewayFrom

\* A round of fill_ip_info: it ends the call, or one more field has been read.
LEMMA Fills ==
    ASSUME Types, NEW c \in Callers, Fill(c)
    PROVE  \/ Return(c, "error")
           \/ /\ Keeps(c) /\ call[c].read \in 0 .. 4
              /\ Fields[call[c].read + 1] \in Field
              /\ call'[c].got = [call[c].got EXCEPT ![Fields[call[c].read + 1]] = info[Key(c)][Fields[call[c].read + 1]]]
              /\ call[c].read = 4 => call'[c].pc = 0 /\ call'[c].read = 0 /\ call'[c].ret = "ok"
              /\ call[c].read < 4 => /\ call'[c].pc = call[c].pc /\ call'[c].read = call[c].read + 1
                                     /\ call'[c].ret = call[c].ret
<1> DEFINE y == call[c]
           f == Fields[y.read + 1]
           n == info[FieldKey(y.iface)][f]
           last == y.read + 1 = Len(Fields)
           pc == IF last THEN 0 ELSE y.pc
           read == IF last THEN 0 ELSE y.read + 1
           got == [y.got EXCEPT ![f] = n]
           gateway == IF f = "server" THEN GatewayFrom(y.got["gateway"]) ELSE y.gateway
           length == IF f = "mask" /\ HasMask(n) THEN ShiftedOut(Answers[n].mask.bits) ELSE y.prefixLength
           ret == IF last THEN "ok" ELSE y.ret
           x == [y EXCEPT !.pc = pc, !.read = read, !.got = got, !.gateway = gateway,
                          !.prefixLength = length, !.ret = ret]
<1>1. /\ y \in Call /\ call \in [Callers -> Call] /\ Key(c) \in Keys
      /\ FieldKey(y.iface) = Key(c) /\ info \in [Keys -> [Field -> 0 .. Len(Answers)]]
  BY Typed DEF Types, TypeOK
<1>2. y.read \in 0 .. 4
  BY <1>1, FieldsLength DEF Call
<1>3. f \in Field
  BY <1>2, FieldsTyped
<1>4. n \in 0 .. Len(Answers)
  BY <1>1, <1>3
<1>5. y.got \in [Field -> 0 .. Len(Answers)]
  BY <1>1 DEF Call
<1>6. got \in [Field -> 0 .. Len(Answers)]
  BY <1>3, <1>4, <1>5
<1>7. gateway \in {"gateway", "server"} /\ length \in PrefixLength /\ ret \in {"none", "ok", "error"}
  BY <1>1, GatewayTyped, ShiftedOutTyped DEF Call
<1>8. pc \in 0 .. 6 /\ read \in 0 .. (Len(Fields) - 1)
  BY <1>1, <1>2, FieldsLength DEF Call
<1>9. x \in Call
  <2> HIDE DEF y, pc, read, got, gateway, length, ret
  <2> QED
    BY <1>1, <1>6, <1>7, <1>8, CallFills DEF x
<1>10. Return(c, "error") \/ call' = [call EXCEPT ![c] = x]
  <2>1. x = Filled(y, f, n)
    BY DEF Filled
  <2> QED
    BY <2>1 DEF Fill
<1>11. /\ x.fn = y.fn /\ x.iface = y.iface /\ x.pc = pc /\ x.read = read /\ x.got = got /\ x.ret = ret
  BY <1>1 DEF Call
<1>12. ASSUME call' = [call EXCEPT ![c] = x]
       PROVE  Keeps(c) /\ call'[c] = x
  <2> HIDE DEF x
  <2> QED
    BY <1>9, <1>11, <1>12, Becomes DEF y
<1>13. /\ y.read = 4 => pc = 0 /\ read = 0 /\ ret = "ok"
       /\ y.read < 4 => pc = y.pc /\ read = y.read + 1 /\ ret = y.ret
  BY <1>2, FieldsLength
<1>14. got = [call[c].got EXCEPT ![Fields[call[c].read + 1]] = info[Key(c)][Fields[call[c].read + 1]]]
  BY <1>1
<1>15. CASE Return(c, "error")
  BY <1>15
<1>16. CASE call' = [call EXCEPT ![c] = x]
  <2>1. /\ Keeps(c) /\ call'[c].got = got /\ call'[c].pc = pc /\ call'[c].read = read
        /\ call'[c].ret = ret
    BY <1>11, <1>12, <1>16
  <2> HIDE DEF x, pc, read, ret, got
  <2> QED
    BY <1>2, <1>3, <1>13, <1>14, <2>1
<1> QED
  BY <1>10, <1>15, <1>16

(***************************************************************************)
(* Types.                                                                  *)
(***************************************************************************)

\* The cases of a caller's step that the arguments tell apart.
LEMMA CallerCases ==
    ASSUME Types, NEW c \in Callers, CallerStep(c)
    PROVE  /\ ~Idle(c) /\ call[c].pc \in 1 .. Len(Steps(call[c].fn))
           /\ AtStep(call[c].fn, Steps(call[c].fn)[call[c].pc], call[c].pc)
           /\ \/ Advance(c) /\ ~At(c, "fill")
              \/ NapAgain(c) /\ (At(c, "service") \/ At(c, "result"))
              \/ Return(c, "error")
              \/ Fill(c)
<1>1. ~Idle(c)
  BY DEF CallerStep, Erase, Control, WaitForService, WaitForResult, ReadResult, Fill, Mark, At
<1>2. /\ call[c].fn \in Fns /\ call[c].pc \in 0 .. 6 /\ call[c].pc <= Len(Steps(call[c].fn))
      /\ Len(Steps(call[c].fn)) \in 2 .. 6 /\ call[c].pc # 0
  BY <1>1, Typed, StepsOf DEF Idle
<1>3. call[c].pc \in 1 .. Len(Steps(call[c].fn))
  BY <1>2
<1>4. AtStep(call[c].fn, Steps(call[c].fn)[call[c].pc], call[c].pc)
  BY <1>2, <1>3, StepsOf
<1>5. result[Key(c)] \in {"none", "ok", "failed"}
  BY Typed DEF Types, TypeOK
<1>6. \/ Advance(c) /\ ~At(c, "fill")
      \/ NapAgain(c) /\ (At(c, "service") \/ At(c, "result"))
      \/ Return(c, "error")
      \/ Fill(c)
  <2>1. CASE Erase(c) \/ Mark(c)
    BY <2>1 DEF Erase, Mark, At
  <2>2. CASE Control(c)
    BY <2>2 DEF Control, At
  <2>3. CASE WaitForService(c)
    BY <2>3 DEF WaitForService, At
  <2>4. CASE WaitForResult(c)
    BY <2>4 DEF WaitForResult, At
  <2>5. CASE ReadResult(c)
    BY <2>5, <1>5 DEF ReadResult, At
  <2> QED
    BY <2>1, <2>2, <2>3, <2>4, <2>5 DEF CallerStep
<1> QED
  BY <1>1, <1>3, <1>4, <1>6

\* A step of a caller concerns its own call, and keeps its place in the program.
LEMMA CallerKeeps ==
    ASSUME Types, NEW c \in Callers, CallerStep(c)
    PROVE  Keeps(c) /\ call'[c].pc <= Len(Steps(call[c].fn))
<1>1. /\ ~Idle(c) /\ call[c].pc \in 1 .. Len(Steps(call[c].fn))
      /\ Len(Steps(call[c].fn)) \in 2 .. 6
  BY CallerCases, StepsOf, Typed
<1>2. CASE Advance(c)
  BY <1>1, <1>2, Advances, Returns
<1>3. CASE NapAgain(c)
  BY <1>1, <1>3, NapsAgain
<1>4. ASSUME Return(c, "error")
      PROVE  Keeps(c) /\ call'[c].pc <= Len(Steps(call[c].fn))
  BY <1>1, <1>4, Returns
<1>5. CASE Fill(c)
  <2>1. CASE Return(c, "error")
    BY <1>4, <2>1
  <2>2. CASE ~Return(c, "error")
    <3>1. /\ Keeps(c) /\ call[c].read \in 0 .. 4
          /\ call[c].read = 4 => call'[c].pc = 0
          /\ call[c].read < 4 => call'[c].pc = call[c].pc
      BY <1>5, <2>2, Fills
    <3> QED
      BY <1>1, <3>1
  <2> QED
    BY <2>1, <2>2
<1> QED
  BY <1>2, <1>3, <1>4, <1>5, CallerCases

\* The types of what the environment and the callers share.
EnvTyped ==
    /\ result \in [Keys -> {"none", "ok", "failed"}]
    /\ svc \in [Keys -> {"none", "running", "stopping", "stopped"}]
    /\ info \in [Keys -> [Field -> 0 .. Len(Answers)]]
    /\ queue \in Seq([cmd : {"start", "renew", "stop"}, key : Keys])
    /\ daemon \in [Keys -> [alive : BOOLEAN, todo : Seq([f : Field, n : 1 .. Len(Answers)])]]
    /\ given \in 0 .. Len(Answers)
    /\ answered \in [Callers -> 0 .. Len(Answers)] /\ quiet \in [Callers -> BOOLEAN]

LEMMA CallerEnv ==
    ASSUME Types, NEW c \in Callers, CallerStep(c)
    PROVE  EnvTyped' /\ answered' = answered /\ info' = info /\ daemon' = daemon /\ given' = given
<1>1. EnvTyped /\ Key(c) \in Keys
  BY Typed DEF Types, TypeOK, EnvTyped
<1>2. CASE Erase(c) \/ Mark(c)
  BY <1>1, <1>2 DEF Erase, Mark, EnvTyped
<1>3. CASE Control(c)
  <2>1. PICK cmd \in {"start", "renew", "stop"} :
            /\ queue' = Append(queue, [cmd |-> cmd, key |-> Key(c)])
            /\ quiet' = [d \in Callers |-> quiet[d] /\ ~(cmd = "start" /\ d # c /\ Key(d) = Key(c))]
            /\ UNCHANGED <<result, svc, info, daemon, given, answered>>
    BY <1>3 DEF Control
  <2>2. [cmd |-> cmd, key |-> Key(c)] \in [cmd : {"start", "renew", "stop"}, key : Keys]
    BY <1>1
  <2>3. queue' \in Seq([cmd : {"start", "renew", "stop"}, key : Keys])
    BY <1>1, <2>1, <2>2 DEF EnvTyped
  <2>4. quiet' \in [Callers -> BOOLEAN]
    BY <1>1, <2>1 DEF EnvTyped
  <2> QED
    BY <1>1, <2>1, <2>3, <2>4 DEF EnvTyped
<1>4. CASE WaitForService(c) \/ WaitForResult(c) \/ Fill(c)
  BY <1>1, <1>4 DEF WaitForService, WaitForResult, Fill, env, EnvTyped
<1>5. CASE ReadResult(c)
  <2>1. quiet' = [quiet EXCEPT ![c] = Whole(Key(c))] /\ UNCHANGED <<env, answered>>
    BY <1>5 DEF ReadResult
  <2>2. Whole(Key(c)) \in BOOLEAN
    BY DEF Whole
  <2>3. quiet' \in [Callers -> BOOLEAN]
    BY <1>1, <2>1, <2>2 DEF EnvTyped
  <2> QED
    BY <1>1, <2>1, <2>3 DEF EnvTyped, env
<1> QED
  BY <1>2, <1>3, <1>4, <1>5 DEF CallerStep

\* A write of dhcpcd: what is left to write, and what the properties are then.
LEMMA Writes ==
    ASSUME Types, NEW k \in Keys, DaemonWrites(k)
    PROVE  LET todo == daemon[k].todo
               w == Head(todo)
           IN  /\ todo \in Seq([f : Field, n : 1 .. Len(Answers)]) /\ todo # <<>>
               /\ w = todo[1] /\ w.f \in Field /\ w.n \in 1 .. Len(Answers)
               /\ daemon' = [daemon EXCEPT ![k] = [@ EXCEPT !.todo = Tail(todo)]]
               /\ daemon'[k].todo = Tail(todo) /\ Tail(todo) \in Seq([f : Field, n : 1 .. Len(Answers)])
               /\ info' \in [Keys -> [Field -> 0 .. Len(Answers)]]
               /\ info'[k] = [info[k] EXCEPT ![w.f] = w.n]
               /\ \A j \in Keys : j # k => info'[j] = info[j] /\ daemon'[j] = daemon[j]
<1> DEFINE R == [f : Field, n : 1 .. Len(Answers)]
           todo == daemon[k].todo
           w == Head(todo)
<1>1. /\ daemon \in [Keys -> [alive : BOOLEAN, todo : Seq(R)]]
      /\ info \in [Keys -> [Field -> 0 .. Len(Answers)]]
  BY DEF Types, TypeOK
<1>2. todo \in Seq(R) /\ todo # <<>>
  BY <1>1 DEF DaemonWrites
<1>3. w = todo[1] /\ w \in R /\ Tail(todo) \in Seq(R)
  <2> HIDE DEF R, todo
  <2> QED
    BY <1>2
<1>4. w.f \in Field /\ w.n \in 1 .. Len(Answers)
  BY <1>3
<1>5. daemon' = [daemon EXCEPT ![k] = [@ EXCEPT !.todo = Tail(todo)]]
  BY DEF DaemonWrites
<1>6. info' = [info EXCEPT ![k][w.f] = w.n]
  BY DEF DaemonWrites
<1> HIDE DEF w
<1>7. /\ info' \in [Keys -> [Field -> 0 .. Len(Answers)]]
      /\ info'[k] = [info[k] EXCEPT ![w.f] = w.n]
      /\ \A j \in Keys : j # k => info'[j] = info[j]
  BY <1>1, <1>4, <1>6
<1>8. daemon'[k].todo = Tail(todo) /\ \A j \in Keys : j # k => daemon'[j] = daemon[j]
  <2> HIDE DEF todo
  <2> QED
    BY <1>1, <1>5
<1> QED
  BY <1>2, <1>3, <1>4, <1>5, <1>7, <1>8 DEF w

\* A step of init or of dhcpcd leaves calls alone, and everything typed.
LEMMA EnvironmentTypes ==
    ASSUME Types, Environment
    PROVE  EnvTyped' /\ call' = call
<1> DEFINE R == [f : Field, n : 1 .. Len(Answers)]
<1>1. EnvTyped /\ call' = call
  BY DEF Types, TypeOK, EnvTyped, Environment, InitTakes, Reaped, DaemonExits, DaemonBinds, DaemonWrites,
         DaemonFails
<1>2. <<>> \in Seq(R)
  OBVIOUS
<1>3. CASE InitTakes
  <2> DEFINE M == [cmd : {"start", "renew", "stop"}, key : Keys]
             msg == Head(queue)
  <2>1. queue \in Seq(M) /\ queue # <<>> /\ queue' = Tail(queue)
    BY <1>1, <1>3 DEF InitTakes, EnvTyped, Drained
  <2>2. msg \in M /\ queue' \in Seq(M)
    <3> HIDE DEF M
    <3> QED
      BY <2>1
  <2>3. msg.key \in Keys
    BY <2>2
  <2>4. \/ /\ svc' = [svc EXCEPT ![msg.key] = "running"]
           /\ daemon' = [daemon EXCEPT ![msg.key] = [alive |-> TRUE, todo |-> <<>>]]
        \/ /\ \E s \in {"stopping", "stopped"} : svc' = [svc EXCEPT ![msg.key] = s]
           /\ daemon' = [daemon EXCEPT ![msg.key] = [alive |-> FALSE, todo |-> <<>>]]
        \/ svc' = svc /\ daemon' = daemon
    BY <1>3 DEF InitTakes
  <2> HIDE DEF msg, R
  <2>5. svc' \in [Keys -> {"none", "running", "stopping", "stopped"}]
    BY <1>1, <2>3, <2>4 DEF EnvTyped
  <2>6. daemon \in [Keys -> [alive : BOOLEAN, todo : Seq(R)]]
    BY <1>1 DEF EnvTyped, R
  <2>7. /\ [alive |-> TRUE, todo |-> <<>>] \in [alive : BOOLEAN, todo : Seq(R)]
        /\ [alive |-> FALSE, todo |-> <<>>] \in [alive : BOOLEAN, todo : Seq(R)]
    BY <1>2
  <2>8. daemon' \in [Keys -> [alive : BOOLEAN, todo : Seq(R)]]
    <3> DEFINE D == [alive : BOOLEAN, todo : Seq(R)]
               up == [alive |-> TRUE, todo |-> <<>>]
               down == [alive |-> FALSE, todo |-> <<>>]
    <3>1. /\ daemon \in [Keys -> D] /\ up \in D /\ down \in D
          /\ \/ daemon' = [daemon EXCEPT ![msg.key] = up]
             \/ daemon' = [daemon EXCEPT ![msg.key] = down]
             \/ daemon' = daemon
      BY <2>4, <2>6, <2>7
    <3> HIDE DEF D, up, down
    <3>2. daemon' \in [Keys -> D]
      BY <2>3, <3>1
    <3> QED
      BY <3>2 DEF D
  <2> QED
    BY <1>1, <1>3, <2>2, <2>5, <2>8 DEF InitTakes, EnvTyped, R
<1>4. ASSUME NEW k \in Keys, Reaped(k) \/ DaemonFails(k)
      PROVE  EnvTyped'
  BY <1>1, <1>4 DEF Reaped, DaemonFails, EnvTyped
<1>5. ASSUME NEW k \in Keys, DaemonExits(k)
      PROVE  EnvTyped'
  <2>1. daemon' \in [Keys -> [alive : BOOLEAN, todo : Seq(R)]]
    BY <1>1, <1>2, <1>5 DEF DaemonExits, EnvTyped
  <2> QED
    BY <1>1, <1>5, <2>1 DEF DaemonExits, EnvTyped
<1>6. ASSUME NEW k \in Keys, DaemonBinds(k)
      PROVE  EnvTyped'
  <2> DEFINE todo == [n \in DOMAIN WriteOrder |-> [f |-> WriteOrder[n], n |-> given + 1]]
  <2>1. given + 1 \in 1 .. Len(Answers) /\ given' = given + 1
    BY <1>1, <1>6, ControlAssumption DEF DaemonBinds, EnvTyped
  <2>2. WriteOrder \in Seq(Field)
    BY ControlAssumption
  <2>3. \A n \in 1 .. Len(WriteOrder) : WriteOrder[n] \in Field
    BY <2>2
  <2>4. todo \in [1 .. Len(WriteOrder) -> R] /\ Len(WriteOrder) \in Nat
    BY <2>1, <2>2, <2>3
  <2>5. todo \in Seq(R)
    <3> HIDE DEF todo, R
    <3> QED
      BY <2>4
  <2>6. daemon' = [daemon EXCEPT ![k].todo = todo]
    BY <1>6 DEF DaemonBinds
  <2>7. daemon' \in [Keys -> [alive : BOOLEAN, todo : Seq(R)]]
    <3> HIDE DEF todo
    <3> QED
      BY <1>1, <2>5, <2>6 DEF EnvTyped
  <2>8. given' \in 0 .. Len(Answers)
    BY <2>1, ControlAssumption
  <2>9. UNCHANGED <<result, svc, info, queue, call, answered, quiet>>
    BY <1>6 DEF DaemonBinds
  <2> QED
    BY <1>1, <2>7, <2>8, <2>9 DEF EnvTyped
<1>7. ASSUME NEW k \in Keys, DaemonWrites(k)
      PROVE  EnvTyped'
  <2> DEFINE todo == daemon[k].todo
             w == Head(todo)
  <2>1. /\ todo \in Seq(R) /\ w.n \in 1 .. Len(Answers) /\ Tail(todo) \in Seq(R)
        /\ daemon' = [daemon EXCEPT ![k] = [@ EXCEPT !.todo = Tail(todo)]]
        /\ info' \in [Keys -> [Field -> 0 .. Len(Answers)]]
    BY <1>7, Writes
  <2>2. daemon' \in [Keys -> [alive : BOOLEAN, todo : Seq(R)]]
    <3> HIDE DEF todo, w
    <3> QED
      BY <1>1, <2>1 DEF EnvTyped
  <2>3. answered' \in [Callers -> 0 .. Len(Answers)]
    <3>1. answered \in [Callers -> 0 .. Len(Answers)] /\ w.n \in 0 .. Len(Answers)
      <4> DEFINE m == w.n
                 L == Len(Answers)
      <4>1. m \in 1 .. L /\ L \in Nat
        BY <2>1, ControlAssumption
      <4> HIDE DEF m, L
      <4>2. m \in 0 .. L
        BY <4>1
      <4> QED
        BY <1>1, <4>2 DEF EnvTyped, m, L
    <3>2. \/ answered' = answered
          \/ answered' = [c \in Callers |-> IF c \in Awaiting(k) THEN w.n ELSE answered[c]]
      BY <1>7 DEF DaemonWrites
    <3> HIDE DEF w
    <3> QED
      BY <3>1, <3>2
  <2>4. quiet' \in [Callers -> BOOLEAN] /\ result' \in [Keys -> {"none", "ok", "failed"}]
    BY <1>1, <1>7 DEF DaemonWrites, EnvTyped
  <2> QED
    BY <1>1, <1>7, <2>1, <2>2, <2>3, <2>4 DEF DaemonWrites, EnvTyped
<1> QED
  BY <1>1, <1>3, <1>4, <1>5, <1>6, <1>7 DEF Environment

LEMMA CalledTyped ==
    ASSUME NEW fn \in Fns, NEW i \in Ifaces, NEW pc \in 0 .. 6
    PROVE  Called(fn, i, pc) \in Call
<1> DEFINE A == Asking \cup Stopping
           B == 0 .. 6
           C == 0 .. (Len(Fields) - 1)
           D == [Field -> 0 .. Len(Answers)]
           E == {"gateway", "server"}
           F == {"none", "ok", "error"}
<1>1. Call = [ fn : A, iface : Ifaces, pc : B, naps : Nat, read : C, got : D,
               gateway : E, prefixLength : PrefixLength, ret : F ]
  BY DEF Call
<1>2. Nothing \in D
  BY ControlAssumption DEF Nothing
<1>3. 0 \in PrefixLength
  BY BitsAssumption DEF PrefixLength
<1>4. /\ fn \in A /\ pc \in B /\ 0 \in C /\ "gateway" \in E /\ "none" \in F
      /\ 0 \in Nat
  BY FieldsLength DEF Fns
<1> HIDE DEF A, B, C, D, E, F
<1> QED
  BY <1>1, <1>2, <1>3, <1>4 DEF Called

LEMMA InitTypes == AloneInit => Types
<1> SUFFICES ASSUME AloneInit
             PROVE  Types
  OBVIOUS
<1>1. Init
  BY DEF AloneInit
<1>2. \A c \in Callers : \E i \in Ifaces : call[c] = Called("dhcp_stop", i, 0)
  BY <1>1 DEF Init
<1>3. call \in [Callers -> Call]
  <2>1. call \in [Callers -> {Called("dhcp_stop", i, 0) : i \in Ifaces}]
    BY <1>1 DEF Init
  <2>2. "dhcp_stop" \in Fns /\ 0 \in 0 .. 6
    BY DEF Fns, Stopping
  <2>3. \A i \in Ifaces : Called("dhcp_stop", i, 0) \in Call
    BY <2>2, CalledTyped
  <2> QED
    BY <2>1, <2>3
<1>4. \A c \in Callers : call[c].fn = "dhcp_stop" /\ call[c].pc = 0
  <2> SUFFICES ASSUME NEW c \in Callers
               PROVE  call[c].fn = "dhcp_stop" /\ call[c].pc = 0
    OBVIOUS
  <2>1. PICK i \in Ifaces : call[c] = Called("dhcp_stop", i, 0)
    BY <1>2
  <2> QED
    BY <2>1 DEF Called
<1>5. PcOK
  BY <1>4, StepsOf DEF PcOK, Fns, Stopping
<1>6. Nothing \in [Field -> 0 .. Len(Answers)]
  BY ControlAssumption DEF Nothing
<1>7. 0 \in 0 .. Len(Answers)
  BY ControlAssumption
<1>8. [alive |-> FALSE, todo |-> <<>>] \in [alive : BOOLEAN, todo : Seq([f : Field, n : 1 .. Len(Answers)])]
  OBVIOUS
<1>9. daemon \in [Keys -> [alive : BOOLEAN, todo : Seq([f : Field, n : 1 .. Len(Answers)])]]
  BY <1>1, <1>8 DEF Init
<1>10. info \in [Keys -> [Field -> 0 .. Len(Answers)]]
  BY <1>1, <1>6 DEF Init
<1> QED
  BY <1>1, <1>3, <1>5, <1>7, <1>9, <1>10 DEF Init, Types, TypeOK

\* What starts a call.
LEMMA Enters ==
    ASSUME Types, NEW c \in Callers, NEW fn \in Functions, NEW i \in Ifaces, fn \in Fns, Enter(c, fn, i)
    PROVE  /\ call' \in [Callers -> Call] /\ call'[c] = Called(fn, i, 1)
           /\ \A d \in Callers : d # c => call'[d] = call[d]
           /\ call'[c].fn = fn /\ call'[c].pc = 1 /\ call'[c].ret = "none" /\ call'[c].read = 0
<1>1. call' = [call EXCEPT ![c] = Called(fn, i, 1)] /\ call \in [Callers -> Call]
  BY Typed DEF Enter
<1>2. Called(fn, i, 1) \in Call
  BY CalledTyped
<1>3. call'[c] = Called(fn, i, 1)
  BY <1>1
<1>4. call'[c].fn = fn /\ call'[c].pc = 1 /\ call'[c].ret = "none" /\ call'[c].read = 0
  BY <1>3 DEF Called
<1> QED
  BY <1>1, <1>2, <1>3, <1>4

LEMMA TypesKept ==
    ASSUME Types, [Next]_allVars
    PROVE  Types'
<1>0. EnvTyped /\ PcOK /\ call \in [Callers -> Call]
  BY DEF Types, TypeOK, EnvTyped
<1>1. ASSUME EnvTyped', call' \in [Callers -> Call], PcOK'
      PROVE  Types'
  BY <1>1 DEF Types, TypeOK, EnvTyped
<1>2. CASE Surroundings
  <2>1. EnvTyped' /\ call' = call
    BY <1>2, EnvironmentTypes DEF Surroundings
  <2> QED
    BY <1>0, <1>1, <2>1 DEF PcOK
<1>3. ASSUME NEW c \in Callers, CallSome(c)
      PROVE  Types'
  <2>1. PICK fn \in Functions, i \in Ifaces : Enter(c, fn, i)
    BY <1>3 DEF CallSome
  <2>2. fn \in Fns
    BY FunctionsAssumption DEF Fns
  <2>3. /\ call' \in [Callers -> Call]
        /\ \A d \in Callers : d # c => call'[d] = call[d]
        /\ call'[c].fn = fn /\ call'[c].pc = 1
    BY <2>1, <2>2, Enters
  <2>4. PcOK'
    <3>1. Len(Steps(fn)) \in 2 .. 6
      BY <2>2, StepsOf
    <3>2. call'[c].pc <= Len(Steps(call'[c].fn))
      <4> DEFINE n == Len(Steps(fn))
                 p == call'[c].pc
      <4>1. n \in 2 .. 6 /\ p = 1
        BY <2>3, <3>1
      <4> HIDE DEF n, p
      <4>2. p <= n
        BY <4>1
      <4> QED
        BY <2>3, <4>2 DEF n, p
    <3> QED
      BY <1>0, <2>3, <3>2 DEF PcOK
  <2>5. answered' \in [Callers -> 0 .. Len(Answers)] /\ quiet' \in [Callers -> BOOLEAN]
    <3> DEFINE A == 0 .. Len(Answers)
    <3>1. 0 \in A /\ answered \in [Callers -> A]
      BY <1>0, ControlAssumption DEF EnvTyped
    <3> HIDE DEF A
    <3>2. answered' \in [Callers -> A]
      BY <2>1, <3>1 DEF Enter
    <3> QED
      BY <1>0, <2>1, <3>2 DEF Enter, EnvTyped, A
  <2>6. EnvTyped'
    BY <1>0, <2>1, <2>5 DEF Enter, env, EnvTyped
  <2> QED
    BY <1>1, <2>3, <2>4, <2>6
<1>4. ASSUME NEW c \in Callers, Continue(c)
      PROVE  Types'
  <2>1. CallerStep(c)
    BY <1>4 DEF Continue
  <2>2. Keeps(c) /\ call'[c].pc <= Len(Steps(call[c].fn)) /\ EnvTyped'
    BY <2>1, CallerKeeps, CallerEnv
  <2>3. PcOK'
    BY <1>0, <2>2 DEF PcOK, Keeps
  <2> QED
    BY <1>1, <2>2, <2>3 DEF Keeps
<1>5. CASE UNCHANGED allVars
  BY <1>5 DEF allVars, vars, Types, TypeOK, PcOK
<1> QED
  BY <1>2, <1>3, <1>4, <1>5 DEF Next

\* Properties, queue, dhcpcd and calls have their types, whatever the answers say
\* and however many callers and interfaces there are.
THEOREM TypesHold == Spec => []TypeOK
<1>1. Spec => []Types
  BY InitTypes, TypesKept, PTL DEF Spec
<1>2. Types => TypeOK
  BY DEF Types
<1> QED
  BY <1>1, <1>2, PTL

(***************************************************************************)
(* Requests.                                                               *)
(***************************************************************************)

\* A call is at a step, and how far the request is, as functions of the call.
AtOf(y, step) == y.pc # 0 /\ Steps(y.fn)[y.pc] = step
ProgressOf(y, a) ==
    CASE y.fn \notin Asking \/ AtOf(y, "erase") -> "idle"
      [] y.fn \in Asking /\ y.pc = 0 -> IF y.ret = "ok" THEN "succeeded" ELSE "failed"
      [] OTHER -> IF a = 0 THEN "waiting" ELSE "answered"

LEMMA AtIsAtOf == \A c \in Callers : \A step : At(c, step) <=> AtOf(call[c], step)
BY DEF At, AtOf, Idle

LEMMA ProgressIs ==
    /\ Progress = [c \in Callers |-> ProgressOf(call[c], answered[c])]
    /\ Progress' = [c \in Callers |-> ProgressOf(call'[c], answered'[c])]
BY DEF Progress, ProgressOf, At, AtOf, Idle

LEMMA ProgressCases ==
    ASSUME NEW y, NEW a
    PROVE  /\ y.fn \notin Asking \/ AtOf(y, "erase") => ProgressOf(y, a) = "idle"
           /\ y.fn \in Asking /\ y.pc = 0 => ProgressOf(y, a) = IF y.ret = "ok" THEN "succeeded" ELSE "failed"
           /\ y.fn \in Asking /\ y.pc # 0 /\ ~AtOf(y, "erase") =>
                 ProgressOf(y, a) = IF a = 0 THEN "waiting" ELSE "answered"
BY DEF ProgressOf, AtOf

\* What a caller's step does to its request: it begins, ...
Begins(c) ==
    /\ call[c].fn \in Asking /\ AtOf(call[c], "erase") /\ call'[c].pc # 0
    /\ ~AtOf(call'[c], "erase") /\ ~AtOf(call'[c], "fill")
    /\ result' = [result EXCEPT ![Key(c)] = "none"]
\* ... goes on, ...
GoesOn(c) ==
    /\ call[c].fn \in Asking /\ ~AtOf(call[c], "erase") /\ call'[c].pc # 0 /\ ~AtOf(call'[c], "erase")
    /\ AtOf(call'[c], "fill") => AtOf(call[c], "fill") \/ result[Key(c)] = "ok"
    /\ result' = result
\* ... fails, ...
Fails(c) ==
    /\ call[c].fn \in Asking /\ ~AtOf(call[c], "erase") /\ call'[c].pc = 0 /\ call'[c].ret = "error"
    /\ result' = result
\* ... succeeds, or there is none.
Succeeds(c) ==
    /\ call[c].fn \in Asking /\ AtOf(call[c], "fill") /\ ~AtOf(call[c], "erase")
    /\ call'[c].pc = 0 /\ call'[c].ret = "ok"
    /\ result' = result
Other(c) ==
    /\ call[c].fn \notin Asking
    /\ result' = result \/ result' = [result EXCEPT ![Key(c)] = "failed"]

\* An asking call that advances: not past the end, not to the erasure, and to the
\* reading of the lease only from the second look at the result.
LEMMA AskingAdvances ==
    ASSUME Types, NEW c \in Callers, ~Idle(c), Advance(c), ~At(c, "fill"), call[c].fn \in Asking
    PROVE  /\ Keeps(c) /\ call'[c].pc # 0 /\ ~AtOf(call'[c], "erase")
           /\ AtOf(call'[c], "fill") => At(c, "reread")
           /\ call'[c].read = call[c].read /\ call'[c].got = call[c].got
<1> DEFINE fn == call[c].fn
           n == Len(Steps(fn))
           p == call[c].pc
           q == call'[c].pc
<1>1. /\ fn \in Fns /\ p \in 0 .. 6 /\ p <= n /\ p # 0 /\ n \in 5 .. 6
  BY Typed, StepsOf DEF Idle
<1>2. p \in 1 .. n /\ AtStep(fn, Steps(fn)[p], p)
  <2>1. p \in 1 .. n
    <3> HIDE DEF n, p
    <3> QED
      BY <1>1
  <2> QED
    BY <1>1, <2>1, StepsOf
<1>3. p # n
  BY <1>1, <1>2, AtIsAtOf DEF AtStep, AtOf
<1>4. /\ Keeps(c) /\ q = p + 1 /\ p < n
      /\ call'[c].read = call[c].read /\ call'[c].got = call[c].got
  BY <1>3, Advances
<1>5. q \in 1 .. n /\ q # 1 /\ q # 0
  <2> HIDE DEF n, p, q
  <2> QED
    BY <1>1, <1>2, <1>4
<1>6. call'[c].fn = fn
  BY <1>4 DEF Keeps
<1>7. AtStep(fn, Steps(fn)[q], q)
  BY <1>1, <1>5, StepsOf
<1>8. ~AtOf(call'[c], "erase")
  BY <1>5, <1>6, <1>7 DEF AtStep, AtOf
<1>9. ASSUME AtOf(call'[c], "fill")
      PROVE  At(c, "reread")
  <2>1. q = n
    BY <1>6, <1>7, <1>9 DEF AtStep, AtOf
  <2>2. p = n - 1 /\ p \notin 3 .. n - 2 /\ p # 1 /\ p # 2
    <3> HIDE DEF n, p, q
    <3> QED
      BY <1>1, <1>4, <2>1
  <2>3. Steps(fn)[p] \in {"erase", "start", "renew", "stop", "mark", "service", "result", "reread", "fill"}
    BY <1>1, <1>2, StepNames
  <2>4. Steps(fn)[p] # "fill"
    BY <1>1, <1>3, <1>2 DEF AtStep
  <2>5. Steps(fn)[p] = "reread"
    BY <1>2, <2>2, <2>3, <2>4 DEF AtStep
  <2> QED
    BY <1>1, <2>5 DEF At, Idle
<1> QED
  BY <1>4, <1>5, <1>8, <1>9

LEMMA CallerMoves ==
    ASSUME Types, NEW c \in Callers, CallerStep(c)
    PROVE  Begins(c) \/ GoesOn(c) \/ Fails(c) \/ Succeeds(c) \/ Other(c)
<1>0. ~Idle(c)
  BY CallerCases
<1>1. CASE call[c].fn \notin Asking
  <2>1. result' = result \/ result' = [result EXCEPT ![Key(c)] = "failed"]
    <3>1. ~Erase(c)
      <4>1. AtStep(call[c].fn, Steps(call[c].fn)[call[c].pc], call[c].pc)
        BY CallerCases
      <4> QED
        BY <1>1, <4>1 DEF Erase, At, AtStep
    <3> QED
      BY <3>1 DEF CallerStep, Control, WaitForService, WaitForResult, ReadResult, Fill, Mark, env
  <2> QED
    BY <1>1, <2>1 DEF Other
<1>2. CASE call[c].fn \in Asking
  <2>0. AtStep(call[c].fn, Steps(call[c].fn)[call[c].pc], call[c].pc)
    BY CallerCases
  <2>1. ASSUME Advance(c), ~At(c, "fill")
        PROVE  /\ Keeps(c) /\ call'[c].pc # 0 /\ ~AtOf(call'[c], "erase")
               /\ AtOf(call'[c], "fill") => At(c, "reread")
    BY <1>0, <1>2, <2>1, AskingAdvances
  <2>2. ASSUME Return(c, "error"), result' = result, ~At(c, "erase")
        PROVE  Fails(c)
    BY <1>2, <2>2, Returns, AtIsAtOf DEF Fails
  <2>3. ASSUME NapAgain(c), result' = result, ~At(c, "erase")
        PROVE  GoesOn(c)
    <3>1. Keeps(c) /\ call'[c].pc = call[c].pc
      BY <2>3, NapsAgain
    <3> QED
      BY <1>0, <1>2, <2>3, <3>1, AtIsAtOf DEF GoesOn, Keeps, AtOf, Idle
  <2>4. CASE Erase(c)
    <3>1. Advance(c) /\ At(c, "erase") /\ ~At(c, "fill") /\ ~At(c, "reread")
      BY <2>4 DEF Erase, At
    <3> QED
      BY <1>2, <2>1, <2>4, <3>1, AtIsAtOf DEF Erase, Begins
  <2>5. CASE Control(c)
    <3>1. Advance(c) /\ ~At(c, "erase") /\ ~At(c, "fill") /\ ~At(c, "reread") /\ result' = result
      BY <2>5 DEF Control, At
    <3> QED
      BY <1>2, <2>1, <3>1, AtIsAtOf DEF GoesOn
  <2>6. CASE WaitForService(c) \/ WaitForResult(c)
    <3>1. /\ Advance(c) \/ NapAgain(c) \/ Return(c, "error")
          /\ ~At(c, "erase") /\ ~At(c, "fill") /\ ~At(c, "reread") /\ result' = result
      BY <2>6 DEF WaitForService, WaitForResult, At, env
    <3>2. CASE Advance(c)
      BY <1>2, <2>1, <3>1, <3>2, AtIsAtOf DEF GoesOn
    <3> QED
      BY <2>2, <2>3, <3>1, <3>2
  <2>7. CASE ReadResult(c)
    <3>1. /\ (result[Key(c)] = "ok" /\ Advance(c)) \/ Return(c, "error")
          /\ ~At(c, "erase") /\ ~At(c, "fill") /\ result' = result
      <4>1. result[Key(c)] \in {"none", "ok", "failed"}
        BY Typed DEF Types, TypeOK
      <4> QED
        BY <2>7, <4>1 DEF ReadResult, At, env
    <3>2. CASE result[Key(c)] = "ok" /\ Advance(c)
      BY <1>2, <2>1, <3>1, <3>2, AtIsAtOf DEF GoesOn
    <3> QED
      BY <2>2, <3>1, <3>2
  <2>8. CASE Fill(c)
    <3>1. At(c, "fill") /\ ~At(c, "erase") /\ result' = result
      BY <2>8 DEF Fill, At, env
    <3>2. CASE Return(c, "error")
      BY <2>2, <3>1, <3>2
    <3>3. CASE ~Return(c, "error")
      <4>1. /\ Keeps(c) /\ call[c].read \in 0 .. 4
            /\ call[c].read = 4 => call'[c].pc = 0 /\ call'[c].ret = "ok"
            /\ call[c].read < 4 => call'[c].pc = call[c].pc
        BY <2>8, <3>3, Fills
      <4>2. CASE call[c].read = 4
        BY <1>2, <3>1, <4>1, <4>2, AtIsAtOf DEF Succeeds
      <4>3. CASE call[c].read # 4
        <5>1. call'[c].pc = call[c].pc /\ call'[c].fn = call[c].fn
          BY <4>1, <4>3 DEF Keeps
        <5> QED
          BY <1>0, <1>2, <3>1, <5>1, AtIsAtOf DEF GoesOn, AtOf, Idle
      <4> QED
        BY <4>2, <4>3
    <3> QED
      BY <3>2, <3>3
  <2>9. ~Mark(c)
    BY <1>2, <2>0 DEF Mark, At, AtStep
  <2> QED
    BY <2>4, <2>5, <2>6, <2>7, <2>8, <2>9 DEF CallerStep
<1> QED
  BY <1>1, <1>2

\* A request that finds a result has its answer; one that has not erased the old
\* result has none.
AskedOf(y, a, res) ==
    /\ AtOf(y, "erase") => a = 0
    /\ y.fn \in Asking /\ AtOf(y, "fill") => a # 0
    /\ y.fn \in Asking /\ y.pc # 0 /\ ~AtOf(y, "erase") /\ res = "ok" => a # 0
    /\ y.fn \in Asking /\ y.pc = 0 /\ y.ret = "ok" => a # 0
Asked == \A c \in Callers : AskedOf(call[c], answered[c], result[Key(c)])

LEMMA InitAsked == AloneInit => Asked
<1> SUFFICES ASSUME AloneInit, NEW c \in Callers
             PROVE  AskedOf(call[c], answered[c], result[Key(c)])
  BY DEF Asked
<1>1. PICK i \in Ifaces : call[c] = Called("dhcp_stop", i, 0)
  BY DEF AloneInit, Init
<1>2. call[c].pc = 0 /\ call[c].ret = "none"
  BY <1>1 DEF Called
<1> QED
  BY <1>2 DEF AskedOf, AtOf

LEMMA AskedByEntering ==
    ASSUME Types, Asked, NEW c \in Callers, CallSome(c)
    PROVE  Asked'
<1>1. PICK fn \in Functions, i \in Ifaces : Enter(c, fn, i)
  BY DEF CallSome
<1>2. fn \in Fns
  BY FunctionsAssumption DEF Fns
<1>3. /\ call'[c].fn = fn /\ call'[c].pc = 1 /\ \A d \in Callers : d # c => call'[d] = call[d]
  BY <1>1, <1>2, Enters
<1>4. /\ answered'[c] = 0 /\ \A d \in Callers : d # c => answered'[d] = answered[d]
      /\ result' = result
  BY <1>1 DEF Enter, env, Types, TypeOK
<1>5. AskedOf(call'[c], answered'[c], (result[Key(c)])')
  <2>1. AtOf(call'[c], "erase") \/ fn \notin Asking
    BY <1>2, <1>3, StepsOf DEF AtOf
  <2>2. ~AtOf(call'[c], "fill") \/ fn \notin Asking
    BY <1>2, <1>3, StepsOf DEF AtOf
  <2> QED
    BY <1>3, <1>4, <2>1, <2>2 DEF AskedOf
<1>6. ASSUME NEW d \in Callers, d # c
      PROVE  AskedOf(call'[d], answered'[d], (result[Key(d)])')
  <2>1. Key(d)' = Key(d) /\ call'[d] = call[d] /\ answered'[d] = answered[d]
    BY <1>3, <1>4, <1>6 DEF Key
  <2> QED
    BY <1>4, <2>1 DEF Asked
<1> QED
  BY <1>5, <1>6 DEF Asked

LEMMA AskedByCallers ==
    ASSUME Types, Asked, NEW c \in Callers, CallerStep(c)
    PROVE  Asked'
<1>0. Keeps(c) /\ answered' = answered
  BY CallerKeeps, CallerEnv
<1>1. \A d \in Callers : Key(d)' = Key(d) /\ Key(d) \in Keys
  BY <1>0, Typed DEF Keeps, Key
<1>2. result \in [Keys -> {"none", "ok", "failed"}]
  BY DEF Types, TypeOK
<1>3. \/ result' = result
      \/ result' = [result EXCEPT ![Key(c)] = "none"]
      \/ result' = [result EXCEPT ![Key(c)] = "failed"]
  BY CallerMoves DEF Begins, GoesOn, Fails, Succeeds, Other
<1>4. \A d \in Callers : result'[Key(d)] = "ok" => result[Key(d)] = "ok"
  BY <1>1, <1>2, <1>3
<1>5. ASSUME NEW d \in Callers, d # c
      PROVE  AskedOf(call'[d], answered'[d], (result[Key(d)])')
  <2>1. call'[d] = call[d] /\ answered'[d] = answered[d] /\ Key(d)' = Key(d)
    BY <1>0, <1>1, <1>5 DEF Keeps
  <2> QED
    BY <1>4, <2>1 DEF Asked, AskedOf
<1>6. AskedOf(call'[c], answered'[c], (result[Key(c)])')
  <2>0. /\ call'[c].fn = call[c].fn /\ answered'[c] = answered[c] /\ Key(c)' = Key(c)
        /\ AskedOf(call[c], answered[c], result[Key(c)])
    BY <1>0, <1>1 DEF Keeps, Asked
  <2>1. CASE Begins(c)
    BY <1>1, <1>2, <2>0, <2>1 DEF Begins, AskedOf
  <2>2. CASE GoesOn(c)
    <3>1. call[c].pc # 0
      BY CallerCases DEF Idle
    <3> QED
      BY <2>0, <2>2, <3>1 DEF GoesOn, AskedOf
  <2>3. CASE Fails(c)
    BY <2>0, <2>3 DEF Fails, AskedOf, AtOf
  <2>4. CASE Succeeds(c)
    BY <2>0, <2>4 DEF Succeeds, AskedOf, AtOf
  <2>5. CASE Other(c)
    <3>1. ~AtOf(call'[c], "erase")
      <4>1. call[c].fn \in Fns /\ call'[c].pc <= Len(Steps(call[c].fn)) /\ call'[c].pc \in 0 .. 6
        BY <1>0, Typed, CallerKeeps DEF Keeps, Call
      <4>2. CASE call'[c].pc = 0
        BY <4>2 DEF AtOf
      <4>3. CASE call'[c].pc # 0
        <5>1. call'[c].pc \in 1 .. Len(Steps(call[c].fn))
          <6> DEFINE n == Len(Steps(call[c].fn))
                     p == call'[c].pc
          <6>1. p \in 0 .. 6 /\ p # 0 /\ p <= n /\ n \in 2 .. 6
            BY <4>1, <4>3, StepsOf
          <6> HIDE DEF n, p
          <6>2. p \in 1 .. n
            BY <6>1
          <6> QED
            BY <6>2 DEF n, p
        <5>2. AtStep(call[c].fn, Steps(call[c].fn)[call'[c].pc], call'[c].pc)
          BY <4>1, <5>1, StepsOf
        <5> QED
          BY <2>0, <2>5, <5>2 DEF Other, AtOf, AtStep
      <4> QED
        BY <4>2, <4>3
    <3> QED
      BY <2>0, <2>5, <3>1 DEF Other, AskedOf
  <2> QED
    BY <2>1, <2>2, <2>3, <2>4, <2>5, CallerMoves
<1> QED
  BY <1>5, <1>6 DEF Asked

\* The last write of an answer, for who waits for one.
LEMMA Answering ==
    ASSUME Types, NEW k \in Keys, DaemonWrites(k)
    PROVE  \/ result' = result /\ answered' = answered
           \/ \E n \in 1 .. Len(Answers) :
                 /\ result' = [result EXCEPT ![k] = "ok"]
                 /\ answered' = [c \in Callers |-> IF c \in Awaiting(k) THEN n ELSE answered[c]]
BY Writes DEF DaemonWrites

LEMMA AskedByOthers ==
    ASSUME Types, Asked, Environment
    PROVE  Asked'
<1>0. call' = call
  BY EnvironmentTypes
<1>1. \A c \in Callers : Key(c)' = Key(c) /\ Key(c) \in Keys
  BY <1>0, Typed DEF Key
<1>2. /\ result \in [Keys -> {"none", "ok", "failed"}]
      /\ answered \in [Callers -> 0 .. Len(Answers)]
  BY DEF Types, TypeOK
<1>3. CASE InitTakes \/ \E k \in Keys : Reaped(k) \/ DaemonExits(k) \/ DaemonBinds(k)
  <2>1. result' = result /\ answered' = answered
    BY <1>3 DEF InitTakes, Reaped, DaemonExits, DaemonBinds
  <2> QED
    BY <1>0, <1>1, <2>1 DEF Asked
<1>4. ASSUME NEW k \in Keys, DaemonFails(k)
      PROVE  Asked'
  <2>1. result' = [result EXCEPT ![k] = "failed"] /\ answered' = answered
    BY <1>4 DEF DaemonFails
  <2>2. \A c \in Callers : result'[Key(c)] = "ok" => result[Key(c)] = "ok"
    BY <1>1, <1>2, <2>1
  <2> QED
    BY <1>0, <1>1, <2>1, <2>2 DEF Asked, AskedOf
<1>5. ASSUME NEW k \in Keys, DaemonWrites(k)
      PROVE  Asked'
  <2>1. CASE result' = result /\ answered' = answered
    BY <1>0, <1>1, <2>1 DEF Asked
  <2>2. ASSUME NEW n \in 1 .. Len(Answers),
               result' = [result EXCEPT ![k] = "ok"],
               answered' = [c \in Callers |-> IF c \in Awaiting(k) THEN n ELSE answered[c]]
        PROVE  Asked'
    <3> SUFFICES ASSUME NEW c \in Callers
                 PROVE  AskedOf(call[c], answered'[c], result'[Key(c)])
      BY <1>0, <1>1 DEF Asked
    <3>0. AskedOf(call[c], answered[c], result[Key(c)]) /\ n # 0
      BY DEF Asked
    <3>1. CASE c \in Awaiting(k)
      <4>1. answered'[c] = n /\ ~AtOf(call[c], "erase")
        BY <2>2, <3>1, AtIsAtOf DEF Awaiting
      <4> QED
        BY <3>0, <4>1 DEF AskedOf
    <3>2. CASE c \notin Awaiting(k)
      <4>1. answered'[c] = answered[c]
        BY <2>2, <3>2
      <4>2. CASE Key(c) = k /\ ~Idle(c) /\ ~At(c, "erase")
        <5>1. answered[c] # 0
          BY <3>2, <4>2 DEF Awaiting
        <5> QED
          BY <3>0, <4>1, <4>2, <5>1, AtIsAtOf DEF AskedOf
      <4>3. CASE Key(c) # k
        <5>1. result'[Key(c)] = result[Key(c)]
          BY <1>1, <1>2, <2>2, <4>3
        <5> QED
          BY <3>0, <4>1, <5>1
      <4>4. CASE Idle(c) \/ At(c, "erase")
        BY <3>0, <4>1, <4>4, AtIsAtOf DEF AskedOf, Idle
      <4> QED
        BY <4>2, <4>3, <4>4
    <3> QED
      BY <3>1, <3>2
  <2> QED
    BY <1>5, <2>1, <2>2, Answering
<1> QED
  BY <1>3, <1>4, <1>5 DEF Environment

LEMMA AskedKept ==
    ASSUME Types, Asked, [Next]_allVars
    PROVE  Asked'
<1>1. CASE UNCHANGED allVars
  BY <1>1 DEF allVars, vars, Asked, Key
<1> QED
  BY <1>1, AskedByEntering, AskedByCallers, AskedByOthers DEF Next, Surroundings, Continue

\* A step that concerns one caller moves its request, and leaves the others where
\* they are.
LEMMA ProgressMoves ==
    ASSUME NEW c \in Callers, NEW v,
           \A d \in Callers : d # c => call'[d] = call[d] /\ answered'[d] = answered[d],
           ProgressOf(call'[c], answered'[c]) = v
    PROVE  Progress' = [Progress EXCEPT ![c] = v]
BY ProgressIs

LEMMA ProgressStays ==
    ASSUME NEW c \in Callers,
           \A d \in Callers : d # c => call'[d] = call[d] /\ answered'[d] = answered[d],
           ProgressOf(call'[c], answered'[c]) = ProgressOf(call[c], answered[c])
    PROVE  Progress' = Progress
BY ProgressIs

LEMMA RequestOfEntering ==
    ASSUME Types, NEW c \in Callers, CallSome(c)
    PROVE  [Requests!Next]_Progress
<1>1. PICK fn \in Functions, i \in Ifaces : Enter(c, fn, i)
  BY DEF CallSome
<1>2. fn \in Fns
  BY FunctionsAssumption DEF Fns
<1>3. /\ call'[c].fn = fn /\ call'[c].pc = 1 /\ \A d \in Callers : d # c => call'[d] = call[d]
  BY <1>1, <1>2, Enters
<1>4. \A d \in Callers : d # c => call'[d] = call[d] /\ answered'[d] = answered[d]
  BY <1>1, <1>3 DEF Enter, env, Types, TypeOK
<1>5. AtOf(call'[c], "erase") \/ fn \notin Asking
  BY <1>2, <1>3, StepsOf DEF AtOf
<1>6. ProgressOf(call'[c], answered'[c]) = "idle"
  BY <1>3, <1>5, ProgressCases
<1>7. Progress[c] = ProgressOf(call[c], answered[c]) /\ call[c].pc = 0
  BY <1>1, ProgressIs DEF Enter, Idle
<1>8. CASE call[c].fn \in Asking
  <2>1. Progress[c] \in {"succeeded", "failed"}
    BY <1>7, <1>8, ProgressCases
  <2>2. Progress' = [Progress EXCEPT ![c] = "idle"]
    BY <1>4, <1>6, ProgressMoves
  <2>3. Requests!Forget(c)
    BY <2>1, <2>2 DEF Requests!Forget
  <2> QED
    BY <2>3 DEF Requests!Next
<1>9. CASE call[c].fn \notin Asking
  <2>1. ProgressOf(call[c], answered[c]) = "idle"
    BY <1>9, ProgressCases
  <2> QED
    BY <1>4, <1>6, <2>1, ProgressStays
<1> QED
  BY <1>8, <1>9

LEMMA RequestOfCallers ==
    ASSUME Types, Asked, NEW c \in Callers, CallerStep(c)
    PROVE  [Requests!Next]_Progress
<1>1. Keeps(c) /\ answered' = answered
  BY CallerKeeps, CallerEnv
<1>2. /\ \A d \in Callers : d # c => call'[d] = call[d] /\ answered'[d] = answered[d]
      /\ call'[c].fn = call[c].fn /\ answered'[c] = answered[c]
      /\ call[c].pc # 0
  BY <1>1, CallerCases DEF Keeps, Idle
<1>3. Progress[c] = ProgressOf(call[c], answered[c]) /\ AskedOf(call[c], answered[c], result[Key(c)])
  BY ProgressIs DEF Asked
<1>4. CASE Begins(c)
  <2>1. Progress[c] = "idle"
    BY <1>3, <1>4, ProgressCases DEF Begins
  <2>2. answered[c] = 0
    BY <1>3, <1>4 DEF AskedOf, Begins
  <2>3. ProgressOf(call'[c], answered'[c]) = "waiting"
    BY <1>2, <1>4, <2>2, ProgressCases DEF Begins
  <2>4. Progress' = [Progress EXCEPT ![c] = "waiting"]
    BY <1>2, <2>3, ProgressMoves
  <2>5. Requests!Begin(c)
    BY <2>1, <2>4 DEF Requests!Begin
  <2> QED
    BY <2>5 DEF Requests!Next
<1>5. CASE GoesOn(c)
  <2>1. ProgressOf(call[c], answered[c]) = IF answered[c] = 0 THEN "waiting" ELSE "answered"
    BY <1>2, <1>5, ProgressCases DEF GoesOn
  <2>2. ProgressOf(call'[c], answered'[c]) = IF answered[c] = 0 THEN "waiting" ELSE "answered"
    BY <1>2, <1>5, ProgressCases DEF GoesOn
  <2> QED
    BY <1>2, <2>1, <2>2, ProgressStays
<1>6. CASE Fails(c)
  <2>1. Progress[c] \in {"waiting", "answered"}
    BY <1>2, <1>3, <1>6, ProgressCases DEF Fails
  <2>2. ProgressOf(call'[c], answered'[c]) = "failed"
    BY <1>2, <1>6, ProgressCases DEF Fails
  <2>3. Progress' = [Progress EXCEPT ![c] = "failed"]
    BY <1>2, <2>2, ProgressMoves
  <2>4. Requests!Fail(c)
    BY <2>1, <2>3 DEF Requests!Fail
  <2> QED
    BY <2>4 DEF Requests!Next
<1>7. CASE Succeeds(c)
  <2>1. answered[c] # 0
    BY <1>3, <1>7 DEF AskedOf, Succeeds
  <2>2. Progress[c] = "answered"
    BY <1>2, <1>3, <1>7, <2>1, ProgressCases DEF Succeeds
  <2>3. ProgressOf(call'[c], answered'[c]) = "succeeded"
    BY <1>2, <1>7, ProgressCases DEF Succeeds
  <2>4. Progress' = [Progress EXCEPT ![c] = "succeeded"]
    BY <1>2, <2>3, ProgressMoves
  <2>5. Requests!Succeed(c)
    BY <2>2, <2>4 DEF Requests!Succeed
  <2> QED
    BY <2>5 DEF Requests!Next
<1>8. CASE Other(c)
  <2>1. ProgressOf(call[c], answered[c]) = "idle" /\ ProgressOf(call'[c], answered'[c]) = "idle"
    BY <1>2, <1>8, ProgressCases DEF Other
  <2> QED
    BY <1>2, <2>1, ProgressStays
<1> QED
  BY <1>4, <1>5, <1>6, <1>7, <1>8, CallerMoves

LEMMA RequestOfOthers ==
    ASSUME Types, Environment
    PROVE  [Requests!Next]_Progress
<1>0. call' = call
  BY EnvironmentTypes
<1>1. CASE result' = result /\ answered' = answered
  BY <1>0, <1>1, ProgressIs
<1>2. CASE \E k \in Keys : DaemonFails(k)
  BY <1>0, <1>2, ProgressIs DEF DaemonFails
<1>3. ASSUME NEW k \in Keys, NEW n \in 1 .. Len(Answers),
             answered' = [c \in Callers |-> IF c \in Awaiting(k) THEN n ELSE answered[c]]
      PROVE  [Requests!Next]_Progress
  <2> DEFINE cs == {c \in Awaiting(k) : call[c].fn \in Asking}
  <2>1. cs \in SUBSET Callers /\ n # 0
    BY DEF Awaiting
  <2>2. ASSUME NEW c \in cs
        PROVE  Progress[c] = "waiting" /\ Progress'[c] = "answered"
    <3>1. /\ c \in Callers /\ call[c].fn \in Asking /\ call[c].pc # 0 /\ ~AtOf(call[c], "erase")
          /\ answered[c] = 0 /\ answered'[c] = n
      BY <1>3, <2>2, AtIsAtOf DEF Awaiting, Idle
    <3>2. ProgressOf(call[c], answered[c]) = "waiting" /\ ProgressOf(call'[c], answered'[c]) = "answered"
      BY <1>0, <2>1, <3>1, ProgressCases
    <3> QED
      BY <3>1, <3>2, ProgressIs
  <2>3. ASSUME NEW c \in Callers, c \notin cs
        PROVE  Progress'[c] = Progress[c]
    <3>1. CASE c \in Awaiting(k)
      <4>1. ProgressOf(call[c], answered[c]) = "idle" /\ ProgressOf(call'[c], answered'[c]) = "idle"
        BY <1>0, <2>3, <3>1, ProgressCases
      <4> QED
        BY <4>1, ProgressIs
    <3>2. CASE c \notin Awaiting(k)
      <4>1. answered'[c] = answered[c]
        BY <1>3, <3>2
      <4> QED
        BY <1>0, <4>1, ProgressIs
    <3> QED
      BY <3>1, <3>2
  <2>4. Progress' = [c \in Callers |-> IF c \in cs THEN "answered" ELSE Progress[c]]
    <3> HIDE DEF cs
    <3>1. Progress' = [c \in Callers |-> Progress'[c]]
      BY ProgressIs
    <3>2. \A c \in Callers : Progress'[c] = IF c \in cs THEN "answered" ELSE Progress[c]
      BY <2>2, <2>3
    <3> QED
      BY <3>1, <3>2
  <2>5. Requests!Answer(cs)
    BY <2>2, <2>4 DEF Requests!Answer
  <2> QED
    BY <2>1, <2>5 DEF Requests!Next
<1>4. \/ result' = result /\ answered' = answered
      \/ \E k \in Keys : DaemonFails(k) \/ DaemonWrites(k)
  BY DEF Environment, InitTakes, Reaped, DaemonExits, DaemonBinds
<1> QED
  BY <1>1, <1>2, <1>3, <1>4, Answering

LEMMA RequestOfInit == AloneInit => Requests!Init
<1> SUFFICES ASSUME AloneInit
             PROVE  Requests!Init
  OBVIOUS
<1>1. ASSUME NEW c \in Callers
      PROVE  Progress[c] = "idle"
  <2>1. PICK i \in Ifaces : call[c] = Called("dhcp_stop", i, 0)
    BY DEF AloneInit, Init
  <2>2. call[c].fn \notin Asking
    BY <2>1 DEF Called, Asking
  <2> QED
    BY <2>2, ProgressCases, ProgressIs
<1> QED
  BY <1>1, ProgressIs DEF Requests!Init

\* A request succeeds only on an answer that dhcpcd gave after the request had erased
\* the result: dhcp_do_request and dhcp_do_request_renew implement DhcpRequests, for
\* any number of callers that start, renew and stop what they like.
THEOREM RequestsAnswered == Spec => RequestsAreAnswered
<1>1. Spec => [](Types /\ Asked)
  BY InitTypes, InitAsked, TypesKept, AskedKept, PTL DEF Spec
<1>2. ASSUME Types, Asked, [Next]_allVars
      PROVE  [Requests!Next]_Progress
  <2>1. CASE UNCHANGED allVars
    <3>1. call' = call /\ answered' = answered
      BY <2>1 DEF allVars, vars
    <3> QED
      BY <3>1, ProgressIs
  <2> QED
    BY <1>2, <2>1, RequestOfEntering, RequestOfCallers, RequestOfOthers DEF Next, Surroundings, Continue
<1> QED
  BY <1>1, <1>2, RequestOfInit, PTL DEF Spec, Requests!Spec, RequestsAreAnswered

(***************************************************************************)
(* What requests return.                                                   *)
(***************************************************************************)

\* What dhcpcd has still to write of an answer, and the properties as they are: all
\* of one answer, none older than the properties, and no field of it forgotten.
TodoOf(fields, todo, last) ==
    \A n \in 1 .. Len(todo) :
        /\ todo[n].n = todo[1].n /\ todo[n].n <= last
        /\ \A f \in Field : /\ fields[f] <= todo[n].n
                            /\ fields[f] = todo[n].n \/ \E i \in 1 .. Len(todo) : todo[i].f = f
Written ==
    /\ \A k \in Keys : \A f \in Field : info[k][f] <= given
    /\ \A k \in Keys : TodoOf(info[k], daemon[k].todo, given)
NotOlder == \A c \in Callers : \A f \in Field : info[Key(c)][f] >= answered[c]

\* What a call has read.
ReadOf(y, a) ==
    /\ y.read # 0 => AtOf(y, "fill") /\ y.fn \in Asking
    /\ \A n \in 1 .. 5 : n <= y.read => y.got[Fields[n]] >= a
    /\ y.fn \in Asking /\ y.pc = 0 /\ y.ret = "ok" => \A f \in Field : y.got[f] >= a
HasRead == \A c \in Callers : ReadOf(call[c], answered[c])

LEMMA FieldIsRead == \A f \in Field : \E n \in 1 .. 5 : f = Fields[n]
<1>1. DOMAIN Fields = 1 .. 5
  BY DEF Fields
<1> QED
  BY <1>1 DEF Field

LEMMA NumbersTyped ==
    ASSUME Types
    PROVE  /\ given \in Nat
           /\ \A k \in Keys : \A f \in Field : info[k][f] \in Nat
           /\ \A c \in Callers : answered[c] \in Nat
           /\ \A c \in Callers : \A f \in Field : call[c].got[f] \in Nat
           /\ \A k \in Keys : /\ Len(daemon[k].todo) \in Nat
                              /\ \A n \in 1 .. Len(daemon[k].todo) : daemon[k].todo[n].n \in Nat
<1> DEFINE A == 0 .. Len(Answers)
           R == [f : Field, n : 1 .. Len(Answers)]
<1>1. /\ given \in A /\ info \in [Keys -> [Field -> A]] /\ answered \in [Callers -> A]
      /\ \A c \in Callers : call[c].got \in [Field -> A]
      /\ daemon \in [Keys -> [alive : BOOLEAN, todo : Seq(R)]]
  BY Typed DEF Types, TypeOK, Call
<1>2. A \subseteq Nat
  BY ControlAssumption
<1>3. \A x \in R : x.n \in Nat
  OBVIOUS
<1> HIDE DEF A, R
<1>4. \A k \in Keys : daemon[k].todo \in Seq(R)
  BY <1>1
<1>5. given \in Nat /\ \A c \in Callers : answered[c] \in Nat
  BY <1>1, <1>2
<1>6. \A k \in Keys : \A f \in Field : info[k][f] \in Nat
  BY <1>1, <1>2
<1>7. \A c \in Callers : \A f \in Field : call[c].got[f] \in Nat
  BY <1>1, <1>2
<1>8. \A k \in Keys : /\ Len(daemon[k].todo) \in Nat
                      /\ \A n \in 1 .. Len(daemon[k].todo) : daemon[k].todo[n].n \in Nat
  BY <1>3, <1>4
<1> QED
  BY <1>5, <1>6, <1>7, <1>8

LEMMA InitWritten == AloneInit => Written /\ NotOlder /\ HasRead
<1> SUFFICES ASSUME AloneInit
             PROVE  Written /\ NotOlder /\ HasRead
  OBVIOUS
<1>1. /\ \A k \in Keys : info[k] = Nothing /\ daemon[k] = [alive |-> FALSE, todo |-> <<>>]
      /\ given = 0 /\ \A c \in Callers : answered[c] = 0
  BY DEF AloneInit, Init
<1>2. \A f \in Field : Nothing[f] = 0
  BY DEF Nothing
<1>3. \A k \in Keys : daemon[k].todo = <<>>
  BY <1>1
<1>4. Written
  BY <1>1, <1>2, <1>3 DEF Written, TodoOf
<1>5. \A c \in Callers : Key(c) \in Keys
  BY Typed, InitTypes
<1>6. NotOlder
  BY <1>1, <1>2, <1>5 DEF NotOlder
<1>7. HasRead
  <2> SUFFICES ASSUME NEW c \in Callers
               PROVE  ReadOf(call[c], answered[c])
    BY DEF HasRead
  <2>1. PICK i \in Ifaces : call[c] = Called("dhcp_stop", i, 0)
    BY DEF AloneInit, Init
  <2>2. call[c].read = 0 /\ call[c].ret = "none"
    BY <2>1 DEF Called
  <2> QED
    BY <2>2 DEF ReadOf
<1> QED
  BY <1>4, <1>6, <1>7

\* A step of a caller writes nothing.
LEMMA WrittenByCallers ==
    ASSUME Written, info' = info, daemon' = daemon, given' = given
    PROVE  Written'
BY DEF Written

LEMMA ReadByEntering ==
    ASSUME Types, Written, NotOlder, HasRead, NEW c \in Callers, CallSome(c)
    PROVE  Written' /\ NotOlder' /\ HasRead'
<1>1. PICK fn \in Functions, i \in Ifaces : Enter(c, fn, i)
  BY DEF CallSome
<1>2. fn \in Fns
  BY FunctionsAssumption DEF Fns
<1>3. /\ call'[c] = Called(fn, i, 1) /\ \A d \in Callers : d # c => call'[d] = call[d]
      /\ call'[c].ret = "none" /\ call'[c].read = 0
  BY <1>1, <1>2, Enters
<1>4. /\ answered'[c] = 0 /\ \A d \in Callers : d # c => answered'[d] = answered[d]
      /\ info' = info /\ daemon' = daemon /\ given' = given
  BY <1>1 DEF Enter, env, Types, TypeOK
<1>5. Key(c)' \in Keys /\ \A d \in Callers : d # c => Key(d)' = Key(d)
  <2>1. Types'
    BY TypesKept DEF Next
  <2>2. call'[c].iface = i
    BY <1>3 DEF Called
  <2> QED
    BY <1>3, <2>2 DEF Key, Keys, get_p2p_interface_replacement
<1>6. Written'
  BY <1>4, WrittenByCallers
<1>7. NotOlder'
  BY <1>4, <1>5, NumbersTyped DEF NotOlder
<1>8. HasRead'
  <2>1. ReadOf(call'[c], answered'[c])
    BY <1>3 DEF ReadOf
  <2>2. \A d \in Callers : d # c => ReadOf(call'[d], answered'[d])
    BY <1>3, <1>4 DEF HasRead
  <2> QED
    BY <2>1, <2>2 DEF HasRead
<1> QED
  BY <1>6, <1>7, <1>8

\* fill_ip_info reads one more field, which is no older than the answer.
LEMMA ReadByFilling ==
    ASSUME Types, NotOlder, HasRead, NEW c \in Callers, Fill(c), call[c].fn \in Asking
    PROVE  ReadOf(call'[c], answered[c])
<1>1. ReadOf(call[c], answered[c])
  BY DEF HasRead
<1>2. CASE Return(c, "error")
  <2>1. call'[c].pc = 0 /\ call'[c].read = 0 /\ call'[c].ret = "error"
    BY <1>2, Returns
  <2> QED
    BY <2>1 DEF ReadOf
<1>3. CASE ~Return(c, "error")
  <2> DEFINE r == call[c].read
             f == Fields[r + 1]
             got == call[c].got
             new == call'[c].got
             a == answered[c]
  <2>1. /\ Keeps(c) /\ r \in 0 .. 4 /\ f \in Field
        /\ new = [got EXCEPT ![f] = info[Key(c)][f]]
        /\ r = 4 => call'[c].pc = 0 /\ call'[c].read = 0
        /\ r < 4 => call'[c].pc = call[c].pc /\ call'[c].read = r + 1
    BY <1>3, Fills
  <2>2. call[c].pc # 0 /\ AtOf(call[c], "fill")
    BY AtIsAtOf DEF Fill, At, Idle
  <2>3. got \in [Field -> 0 .. Len(Answers)]
    BY Typed DEF Call
  <2>4. new[f] >= a
    <3>1. new[f] = info[Key(c)][f]
      BY <2>1, <2>3
    <3> QED
      BY <2>1, <3>1 DEF NotOlder
  <2>5. \A g \in Field : g # f => new[g] = got[g]
    BY <2>1, <2>3
  <2>6. \A n \in 1 .. 5 : n <= r + 1 => new[Fields[n]] >= a
    <3> SUFFICES ASSUME NEW n \in 1 .. 5, n <= r + 1
                 PROVE  new[Fields[n]] >= a
      OBVIOUS
    <3>1. n <= r \/ n = r + 1
      <4> HIDE DEF r
      <4> QED
        BY <2>1
    <3>2. CASE n <= r
      <4>1. got[Fields[n]] >= a
        BY <1>1, <3>2 DEF ReadOf
      <4> HIDE DEF new, got, a
      <4> QED
        BY <2>4, <2>5, <4>1, FieldsTyped
    <3>3. CASE n = r + 1
      BY <2>4, <3>3
    <3> QED
      BY <3>1, <3>2, <3>3
  <2>7. CASE r = 4
    <3>1. \A g \in Field : new[g] >= a
      <4> HIDE DEF new, a
      <4>1. \A n \in 1 .. 5 : new[Fields[n]] >= a
        BY <2>6, <2>7
      <4> QED
        BY <4>1, FieldIsRead
    <3> QED
      BY <2>1, <2>7, <3>1 DEF ReadOf
  <2>8. CASE r # 4
    <3>1. call'[c].pc = call[c].pc /\ call'[c].read = r + 1 /\ call'[c].fn = call[c].fn
      <4>1. r < 4
        <5> HIDE DEF r
        <5> QED
          BY <2>1, <2>8
      <4> QED
        BY <2>1, <4>1 DEF Keeps
    <3>2. AtOf(call'[c], "fill")
      BY <2>2, <3>1 DEF AtOf
    <3> QED
      BY <2>2, <2>6, <3>1, <3>2 DEF ReadOf
  <2> QED
    BY <2>7, <2>8
<1> QED
  BY <1>2, <1>3

LEMMA ReadByCallers ==
    ASSUME Types, Written, NotOlder, HasRead, NEW c \in Callers, CallerStep(c)
    PROVE  Written' /\ NotOlder' /\ HasRead'
<1>1. Keeps(c) /\ answered' = answered /\ info' = info /\ daemon' = daemon /\ given' = given
  BY CallerKeeps, CallerEnv
<1>2. \A d \in Callers : Key(d)' = Key(d)
  BY <1>1 DEF Keeps, Key
<1>3. Written' /\ NotOlder'
  BY <1>1, <1>2, WrittenByCallers DEF NotOlder
<1>4. /\ ReadOf(call[c], answered[c]) /\ call'[c].fn = call[c].fn /\ ~Idle(c)
      /\ AtStep(call[c].fn, Steps(call[c].fn)[call[c].pc], call[c].pc)
  BY <1>1, CallerCases DEF HasRead, Keeps
<1>5. ASSUME Return(c, "error")
      PROVE  ReadOf(call'[c], answered[c])
  <2>1. call'[c].pc = 0 /\ call'[c].read = 0 /\ call'[c].ret = "error"
    BY <1>5, Returns
  <2> QED
    BY <2>1 DEF ReadOf
<1>6. ASSUME Advance(c), ~At(c, "fill")
      PROVE  ReadOf(call'[c], answered[c])
  <2>1. call[c].read = 0
    BY <1>4, <1>6, AtIsAtOf DEF ReadOf
  <2>2. CASE call[c].fn \in Asking
    <3>1. call'[c].pc # 0 /\ call'[c].read = 0
      BY <1>4, <1>6, <2>1, <2>2, AskingAdvances
    <3> QED
      BY <3>1 DEF ReadOf
  <2>3. CASE call[c].fn \notin Asking
    <3>1. call'[c].read = 0
      BY <1>4, <1>6, <2>1, Advances, Returns
    <3> QED
      BY <1>4, <2>3, <3>1 DEF ReadOf
  <2> QED
    BY <2>2, <2>3
<1>7. ASSUME NapAgain(c), At(c, "service") \/ At(c, "result")
      PROVE  ReadOf(call'[c], answered[c])
  <2>1. ~At(c, "fill")
    BY <1>7 DEF At
  <2>2. call'[c].read = 0 /\ call'[c].pc # 0
    BY <1>4, <1>7, <2>1, NapsAgain, AtIsAtOf DEF ReadOf, Idle
  <2> QED
    BY <2>2 DEF ReadOf
<1>8. ASSUME Fill(c)
      PROVE  ReadOf(call'[c], answered[c])
  <2>1. call[c].fn \in Asking
    BY <1>4, <1>8 DEF Fill, At, AtStep
  <2> QED
    BY <1>8, <2>1, ReadByFilling
<1>9. ReadOf(call'[c], answered[c])
  BY <1>5, <1>6, <1>7, <1>8, CallerCases
<1>10. HasRead'
  BY <1>1, <1>9 DEF HasRead, Keeps
<1> QED
  BY <1>3, <1>10

\* Sequences and numbers.
LEMMA EmptySeq ==
    ASSUME NEW R, NEW s \in Seq(R), s # <<>>
    PROVE  Len(s) \in Nat /\ Len(s) > 0 /\ 1 \in 1 .. Len(s)
OBVIOUS

LEMMA TailOf ==
    ASSUME NEW R, NEW s \in Seq(R), s # <<>>
    PROVE  Len(Tail(s)) = Len(s) - 1 /\ \A n \in 1 .. Len(Tail(s)) : Tail(s)[n] = s[n + 1]
OBVIOUS

LEMMA Transitive ==
    ASSUME NEW x \in Nat, NEW y \in Nat, NEW z \in Nat, x >= y, y >= z
    PROVE  x >= z
OBVIOUS

\* An answer begins with all fields to write, each newer than the property.
LEMMA TodoOfAnswer ==
    ASSUME NEW fields, NEW n \in Nat, \A f \in Field : fields[f] \in Nat /\ fields[f] < n
    PROVE  TodoOf(fields, [i \in DOMAIN WriteOrder |-> [f |-> WriteOrder[i], n |-> n]], n)
<1> DEFINE todo == [i \in DOMAIN WriteOrder |-> [f |-> WriteOrder[i], n |-> n]]
<1>1. WriteOrder \in Seq(Field) /\ Field \subseteq {WriteOrder[i] : i \in DOMAIN WriteOrder}
  BY ControlAssumption
<1>2. DOMAIN WriteOrder = 1 .. Len(WriteOrder) /\ Len(WriteOrder) \in Nat
  BY <1>1
<1>3. Len(todo) = Len(WriteOrder)
  BY <1>2
<1>4. \A i \in 1 .. Len(todo) : todo[i].n = n /\ todo[i].f = WriteOrder[i]
  BY <1>2, <1>3
<1>5. \A f \in Field : \E i \in 1 .. Len(todo) : todo[i].f = f
  BY <1>1, <1>2, <1>3, <1>4
<1>6. \A i \in 1 .. Len(todo) : 1 \in 1 .. Len(todo)
  BY <1>2, <1>3
<1> HIDE DEF todo
<1>7. TodoOf(fields, todo, n)
  BY <1>4, <1>5, <1>6 DEF TodoOf
<1> QED
  BY <1>7 DEF todo

LEMMA TodoIsNewer ==
    ASSUME NEW fields, NEW todo, NEW last, TodoOf(fields, todo, last), NEW n \in 1 .. Len(todo), NEW f \in Field
    PROVE  fields[f] <= todo[n].n
BY DEF TodoOf

\* One field is written: the rest is still to write, and the properties are no older
\* than they were; after the last they are all of the answer.
LEMMA TodoOfWriting ==
    ASSUME NEW R, NEW fields \in [Field -> Nat], NEW todo \in Seq(R), NEW last \in Nat, todo # <<>>,
           todo[1].f \in Field, \A n \in 1 .. Len(todo) : todo[n].n \in Nat,
           TodoOf(fields, todo, last),
           NEW new, new[todo[1].f] = todo[1].n, \A f \in Field : f # todo[1].f => new[f] = fields[f]
    PROVE  /\ TodoOf(new, Tail(todo), last)
           /\ \A f \in Field : new[f] >= fields[f] /\ new[f] <= last
           /\ Len(todo) = 1 => \A f \in Field : new[f] = todo[1].n
<1> DEFINE w == todo[1]
           rest == Tail(todo)
<1>1. Len(todo) \in Nat /\ Len(todo) > 0 /\ 1 \in 1 .. Len(todo)
  BY EmptySeq
<1>2. Len(rest) = Len(todo) - 1 /\ \A n \in 1 .. Len(rest) : rest[n] = todo[n + 1]
  BY TailOf
<1>3. w.n \in Nat /\ w.n <= last /\ \A f \in Field : fields[f] <= w.n
  <2> DEFINE Len1 == 1 .. Len(todo)
  <2>1. 1 \in Len1 /\ \A n \in Len1 : todo[n].n \in Nat
    BY <1>1
  <2>2. \A n \in Len1 : todo[n].n <= last
    BY DEF TodoOf
  <2>3. \A n \in Len1 : \A f \in Field : fields[f] <= todo[n].n
    BY TodoIsNewer
  <2> HIDE DEF Len1
  <2> QED
    BY <2>1, <2>2, <2>3
<1>4. new[w.f] = w.n /\ \A f \in Field : f # w.f => new[f] = fields[f]
  OBVIOUS
<1>5. \A n \in 1 .. Len(todo) : todo[n].n = w.n
  BY DEF TodoOf
<1>6. \A f \in Field : new[f] = w.n \/ \E i \in 1 .. Len(todo) : todo[i].f = f /\ i # 1
  <2> SUFFICES ASSUME NEW f \in Field, new[f] # w.n
               PROVE  \E i \in 1 .. Len(todo) : todo[i].f = f /\ i # 1
    OBVIOUS
  <2>1. f # w.f /\ fields[f] # w.n
    BY <1>4
  <2>2. PICK i \in 1 .. Len(todo) : todo[i].f = f
    BY <1>1, <2>1 DEF TodoOf
  <2> QED
    BY <2>1, <2>2
<1> HIDE DEF w, rest
<1>7. \A f \in Field : /\ new[f] >= fields[f] /\ new[f] <= w.n /\ new[f] <= last
                       /\ new[f] \in Nat /\ fields[f] \in Nat
  BY <1>3, <1>4
<1>8. \A f \in Field : new[f] = w.n \/ \E i \in 1 .. Len(rest) : rest[i].f = f
  <2> SUFFICES ASSUME NEW f \in Field, new[f] # w.n
               PROVE  \E i \in 1 .. Len(rest) : rest[i].f = f
    OBVIOUS
  <2>1. PICK i \in 1 .. Len(todo) : todo[i].f = f /\ i # 1
    BY <1>6
  <2>2. i - 1 \in 1 .. Len(rest) /\ i - 1 + 1 = i
    BY <1>1, <1>2, <2>1
  <2> QED
    BY <1>2, <2>1, <2>2
<1>9. \A n \in 1 .. Len(rest) : rest[n].n = w.n /\ 1 \in 1 .. Len(rest)
  <2> SUFFICES ASSUME NEW n \in 1 .. Len(rest)
               PROVE  rest[n].n = w.n /\ 1 \in 1 .. Len(rest)
    OBVIOUS
  <2>1. n + 1 \in 1 .. Len(todo) /\ 1 \in 1 .. Len(rest)
    BY <1>1, <1>2
  <2> QED
    BY <1>2, <1>5, <2>1
<1>10. TodoOf(new, rest, last)
  BY <1>3, <1>7, <1>8, <1>9 DEF TodoOf
<1>11. ASSUME Len(todo) = 1, NEW f \in Field
       PROVE  new[f] = w.n
  BY <1>6, <1>11
<1> QED
  BY <1>7, <1>10, <1>11 DEF w, rest

LEMMA ReadByWriting ==
    ASSUME Types, Asked, Written, NotOlder, HasRead, NEW k \in Keys, DaemonWrites(k)
    PROVE  Written' /\ NotOlder' /\ HasRead'
<1> DEFINE R == [f : Field, n : 1 .. Len(Answers)]
           todo == daemon[k].todo
           w == todo[1]
<1>1. /\ todo \in Seq(R) /\ todo # <<>> /\ w.f \in Field /\ Head(todo) = w
      /\ daemon'[k].todo = Tail(todo) /\ info'[k] = [info[k] EXCEPT ![w.f] = w.n]
      /\ \A j \in Keys : j # k => info'[j] = info[j] /\ daemon'[j] = daemon[j]
  BY Writes
<1>2. info[k] \in [Field -> Nat] /\ given \in Nat /\ \A n \in 1 .. Len(todo) : todo[n].n \in Nat
  <2>1. info[k] \in [Field -> 0 .. Len(Answers)]
    BY DEF Types, TypeOK
  <2> QED
    BY <2>1, NumbersTyped
<1>3. call' = call /\ given' = given
  BY DEF DaemonWrites
<1>4. TodoOf(info[k], todo, given)
  BY DEF Written
<1>5. /\ TodoOf(info'[k], Tail(todo), given)
      /\ \A f \in Field : info'[k][f] >= info[k][f] /\ info'[k][f] <= given
      /\ Len(todo) = 1 => \A f \in Field : info'[k][f] = w.n
  <2> DEFINE fields == info[k]
             new == info'[k]
  <2>1. /\ fields \in [Field -> Nat] /\ todo \in Seq(R) /\ given \in Nat /\ todo # <<>>
        /\ todo[1].f \in Field /\ (\A n \in 1 .. Len(todo) : todo[n].n \in Nat)
        /\ TodoOf(fields, todo, given)
        /\ new[todo[1].f] = todo[1].n /\ \A f \in Field : f # todo[1].f => new[f] = fields[f]
    BY <1>1, <1>2, <1>4
  <2> HIDE DEF todo, R, fields, new
  <2>2. /\ TodoOf(new, Tail(todo), given)
        /\ \A f \in Field : new[f] >= fields[f] /\ new[f] <= given
        /\ Len(todo) = 1 => \A f \in Field : new[f] = todo[1].n
    BY <2>1, TodoOfWriting
  <2> QED
    BY <2>2 DEF fields, new
<1>6. Written'
  <2>1. \A j \in Keys : \A f \in Field : info'[j][f] <= given
    BY <1>1, <1>5 DEF Written
  <2>2. \A j \in Keys : TodoOf(info'[j], daemon'[j].todo, given)
    BY <1>1, <1>5 DEF Written
  <2> QED
    BY <1>3, <2>1, <2>2 DEF Written
<1>7. \A c \in Callers : Key(c)' = Key(c) /\ Key(c) \in Keys
  BY <1>3, Typed DEF Key
<1>8. \/ answered' = answered
      \/ Len(todo) = 1 /\ answered' = [c \in Callers |-> IF c \in Awaiting(k) THEN w.n ELSE answered[c]]
  BY <1>1 DEF DaemonWrites
<1>9. ASSUME NEW c \in Callers
      PROVE  \/ answered'[c] = answered[c]
             \/ Len(todo) = 1 /\ c \in Awaiting(k) /\ answered'[c] = w.n
  <2>1. answered \in [Callers -> 0 .. Len(Answers)]
    BY DEF Types, TypeOK
  <2> QED
    BY <1>8, <2>1
<1>10. ASSUME NEW c \in Callers, NEW f \in Field
       PROVE  info'[Key(c)][f] >= answered'[c]
  <2>1. CASE answered'[c] = answered[c]
    <3>1. CASE Key(c) = k
      <4>1. info[k][f] >= answered[c] /\ info'[k][f] >= info[k][f]
        BY <1>5, <3>1 DEF NotOlder
      <4>2. info[k][f] \in Nat /\ answered[c] \in Nat /\ info'[k][f] \in Nat
        <5>1. info'[k][f] \in 0 .. Len(Answers)
          BY <1>3, EnvironmentTypes DEF Environment, EnvTyped
        <5> QED
          BY <5>1, NumbersTyped
      <4> HIDE DEF todo, w
      <4> QED
        BY <2>1, <3>1, <4>1, <4>2, Transitive
    <3>2. CASE Key(c) # k
      BY <1>1, <1>7, <2>1, <3>2 DEF NotOlder
    <3> QED
      BY <3>1, <3>2
  <2>2. CASE Len(todo) = 1 /\ c \in Awaiting(k) /\ answered'[c] = w.n
    <3>1. Key(c) = k /\ info'[k][f] = w.n /\ w.n \in Nat
      <4>1. 1 \in 1 .. Len(todo)
        BY <2>2
      <4> QED
        BY <1>2, <1>5, <2>2, <4>1 DEF Awaiting
    <3> HIDE DEF todo, w
    <3> QED
      BY <2>2, <3>1
  <2> QED
    BY <1>9, <2>1, <2>2
<1>11. NotOlder'
  BY <1>7, <1>10 DEF NotOlder
<1>12. ASSUME NEW c \in Callers
       PROVE  ReadOf(call[c], answered'[c])
  <2>1. CASE answered'[c] = answered[c]
    BY <2>1 DEF HasRead
  <2>2. CASE c \in Awaiting(k)
    <3>1. call[c].pc # 0 /\ answered[c] = 0
      BY <2>2 DEF Awaiting, Idle
    <3>2. call[c].read = 0
      BY <3>1 DEF Asked, AskedOf, HasRead, ReadOf
    <3> QED
      BY <3>1, <3>2 DEF ReadOf
  <2> QED
    BY <1>9, <2>1, <2>2
<1>13. HasRead'
  BY <1>3, <1>12 DEF HasRead
<1> QED
  BY <1>6, <1>11, <1>13

LEMMA ReadByOthers ==
    ASSUME Types, Asked, Written, NotOlder, HasRead, Environment
    PROVE  Written' /\ NotOlder' /\ HasRead'
<1>1. call' = call /\ \A c \in Callers : Key(c)' = Key(c)
  BY EnvironmentTypes DEF Key
<1>2. daemon \in [Keys -> [alive : BOOLEAN, todo : Seq([f : Field, n : 1 .. Len(Answers)])]]
  BY DEF Types, TypeOK
<1>3. ASSUME info' = info, answered' = answered, given' = given,
             \A k \in Keys : daemon'[k].todo = daemon[k].todo \/ daemon'[k].todo = <<>>
      PROVE  Written' /\ NotOlder' /\ HasRead'
  <2>1. \A k \in Keys : TodoOf(info'[k], daemon'[k].todo, given')
    BY <1>3 DEF Written, TodoOf
  <2> QED
    BY <1>1, <1>3, <2>1 DEF Written, NotOlder, HasRead
<1>4. CASE InitTakes
  <2>1. \/ daemon' = daemon
        \/ daemon' = [daemon EXCEPT ![Head(queue).key] = [alive |-> TRUE, todo |-> <<>>]]
        \/ daemon' = [daemon EXCEPT ![Head(queue).key] = [alive |-> FALSE, todo |-> <<>>]]
    BY <1>4 DEF InitTakes
  <2>2. \A k \in Keys : daemon'[k].todo = daemon[k].todo \/ daemon'[k].todo = <<>>
    BY <1>2, <2>1
  <2> QED
    BY <1>3, <1>4, <2>2 DEF InitTakes
<1>5. ASSUME NEW k \in Keys, Reaped(k) \/ DaemonFails(k) \/ DaemonExits(k)
      PROVE  Written' /\ NotOlder' /\ HasRead'
  <2>1. \A j \in Keys : daemon'[j].todo = daemon[j].todo \/ daemon'[j].todo = <<>>
    BY <1>2, <1>5 DEF Reaped, DaemonFails, DaemonExits
  <2> QED
    BY <1>3, <1>5, <2>1 DEF Reaped, DaemonFails, DaemonExits
<1>6. ASSUME NEW k \in Keys, DaemonBinds(k)
      PROVE  Written' /\ NotOlder' /\ HasRead'
  <2> DEFINE todo == [n \in DOMAIN WriteOrder |-> [f |-> WriteOrder[n], n |-> given + 1]]
  <2>1. given' = given + 1 /\ given \in Nat /\ info' = info /\ answered' = answered
    BY <1>6, NumbersTyped DEF DaemonBinds
  <2>2. daemon' = [daemon EXCEPT ![k].todo = todo]
    BY <1>6 DEF DaemonBinds
  <2>3. daemon'[k].todo = todo /\ \A j \in Keys : j # k => daemon'[j] = daemon[j]
    <3> HIDE DEF todo
    <3> QED
      BY <1>2, <2>2
  <2>4. TodoOf(info[k], todo, given + 1)
    <3>1. \A f \in Field : info[k][f] \in Nat /\ info[k][f] < given + 1
      BY <2>1, NumbersTyped DEF Written
    <3> QED
      BY <2>1, <3>1, TodoOfAnswer
  <2>5. ASSUME NEW j \in Keys
        PROVE  TodoOf(info[j], daemon[j].todo, given + 1)
    BY <2>1, NumbersTyped DEF Written, TodoOf
  <2>6. \A j \in Keys : TodoOf(info'[j], daemon'[j].todo, given')
    <3> HIDE DEF todo
    <3> QED
      BY <2>1, <2>3, <2>4, <2>5
  <2>7. \A j \in Keys : \A f \in Field : info'[j][f] <= given'
    BY <2>1, NumbersTyped DEF Written
  <2> QED
    BY <1>1, <2>1, <2>6, <2>7 DEF Written, NotOlder, HasRead
<1> QED
  BY <1>4, <1>5, <1>6, ReadByWriting DEF Environment

ReadInv == Types /\ Asked /\ Written /\ NotOlder /\ HasRead

LEMMA ReadInvariance == Spec => []ReadInv
<1>1. AloneInit => ReadInv
  BY InitTypes, InitAsked, InitWritten DEF ReadInv
<1>2. ReadInv /\ [Next]_allVars => ReadInv'
  <2> SUFFICES ASSUME ReadInv, [Next]_allVars
               PROVE  ReadInv'
    OBVIOUS
  <2>0. Types /\ Asked /\ Written /\ NotOlder /\ HasRead
    BY DEF ReadInv
  <2>1. Types' /\ Asked'
    BY <2>0, TypesKept, AskedKept
  <2>2. CASE UNCHANGED allVars
    BY <2>0, <2>1, <2>2 DEF allVars, vars, ReadInv, Written, NotOlder, HasRead, Key
  <2> QED
    BY <2>0, <2>1, <2>2, ReadByEntering, ReadByCallers, ReadByOthers
    DEF Next, Surroundings, Continue, ReadInv
<1> QED
  BY <1>1, <1>2, PTL DEF Spec

\* What a request returns is no older than the answer it succeeded on, whatever dhcpcd
\* writes while fill_ip_info reads, and under whichever name the properties are.
THEOREM InfoNotOlder == Spec => []InfoIsNotOlder
<1>1. ReadInv => InfoIsNotOlder
  <2> SUFFICES ASSUME ReadInv, NEW c \in Callers, Idle(c), call[c].fn \in Asking, call[c].ret = "ok",
                      NEW f \in Field
               PROVE  call[c].got[f] >= answered[c] /\ answered[c] > 0
    BY DEF InfoIsNotOlder
  <2>1. call[c].got[f] >= answered[c]
    BY DEF ReadInv, HasRead, ReadOf, Idle
  <2>2. answered[c] # 0 /\ answered[c] \in Nat
    BY NumbersTyped DEF ReadInv, Asked, AskedOf, Idle
  <2> QED
    BY <2>1, <2>2
<1> QED
  BY <1>1, ReadInvariance, PTL

(***************************************************************************)
(* What requests return is one answer.                                     *)
(***************************************************************************)

Done(y) == y.fn \in Asking /\ y.pc = 0 /\ y.ret = "ok"

\* What an undisturbed request has read is what the properties are, and these are of
\* one answer as long as it reads.
WholeOf(y, fields) ==
    /\ AtOf(y, "fill") =>
          /\ \A f, g \in Field : fields[f] = fields[g]
          /\ \A n \in 1 .. 5 : n <= y.read => y.got[Fields[n]] = fields[Fields[n]]
    /\ Done(y) => \A f, g \in Field : y.got[f] = y.got[g]

\* What a request has made of the gateway and the mask that it has read.
MadeOf(y) ==
    /\ y.read >= 3 \/ Done(y) => y.gateway = GatewayFrom(y.got["gateway"])
    /\ y.read >= 4 \/ Done(y) =>
          (HasMask(y.got["mask"]) =>
              y.prefixLength = ipv4NetmaskToPrefixLength(Answers[y.got["mask"]].mask.bits))

ReadWhole ==
    \A c \in Callers : /\ quiet[c] => WholeOf(call[c], info[Key(c)])
                       /\ MadeOf(call[c])

LEMMA FieldsAre ==
    /\ Fields[1] = "ipaddress" /\ Fields[2] = "gateway" /\ Fields[3] = "server"
    /\ Fields[4] = "mask" /\ Fields[5] = "rest"
BY DEF Fields

\* The mask of an answer that fill_ip_info does not give up on.
LEMMA TakenMask ==
    ASSUME NEW n \in 0 .. Len(Answers), HasMask(n), ~InvalidMask(n)
    PROVE  ShiftedOut(Answers[n].mask.bits) = ipv4NetmaskToPrefixLength(Answers[n].mask.bits)
<1>1. n # 0 /\ Answers[n].mask # NoMask /\ Answers[n].mask # BadMask /\ ~NonContiguous(Answers[n].mask.bits)
  BY DEF HasMask, InvalidMask
<1>2. n \in DOMAIN Answers
  BY <1>1, ControlAssumption
<1>3. Answers[n].mask \in MaskText
  BY <1>2, ControlAssumption
<1>4. Answers[n].mask.bits \in Mask
  BY <1>1, <1>3 DEF MaskText
<1> QED
  BY <1>1, <1>4, ShiftedOutAgrees

\* A call that has read nothing and has not succeeded has nothing to answer for.
LEMMA NothingRead ==
    ASSUME NEW y, NEW fields, y.read = 0, ~AtOf(y, "fill"), ~Done(y)
    PROVE  WholeOf(y, fields) /\ MadeOf(y)
BY DEF WholeOf, MadeOf

LEMMA InitWhole == AloneInit => ReadWhole
<1> SUFFICES ASSUME AloneInit, NEW c \in Callers
             PROVE  WholeOf(call[c], info[Key(c)]) /\ MadeOf(call[c])
  BY DEF ReadWhole
<1>1. PICK i \in Ifaces : call[c] = Called("dhcp_stop", i, 0)
  BY DEF AloneInit, Init
<1>2. call[c].read = 0 /\ call[c].ret = "none" /\ call[c].pc = 0
  BY <1>1 DEF Called
<1> QED
  BY <1>2, NothingRead DEF AtOf, Done

LEMMA WholeByEntering ==
    ASSUME Types, ReadWhole, NEW c \in Callers, CallSome(c)
    PROVE  ReadWhole'
<1>1. PICK fn \in Functions, i \in Ifaces : Enter(c, fn, i)
  BY DEF CallSome
<1>2. fn \in Fns
  BY FunctionsAssumption DEF Fns
<1>3. /\ call'[c].fn = fn /\ call'[c].pc = 1 /\ call'[c].ret = "none" /\ call'[c].read = 0
      /\ \A d \in Callers : d # c => call'[d] = call[d]
  BY <1>1, <1>2, Enters
<1>4. info' = info /\ \A d \in Callers : d # c => quiet'[d] = quiet[d]
  BY <1>1 DEF Enter, env, Types, TypeOK
<1>5. ~AtOf(call'[c], "fill")
  <2>1. Len(Steps(fn)) \in 2 .. 6 /\ 1 \in 1 .. Len(Steps(fn))
    BY <1>2, StepsOf
  <2>2. AtStep(fn, Steps(fn)[1], 1) /\ (fn \in Asking => Steps(fn)[1] = "erase")
    BY <1>2, <2>1, StepsOf
  <2> QED
    BY <1>3, <2>2 DEF AtOf, AtStep
<1>6. ASSUME NEW d \in Callers
      PROVE  (quiet'[d] => WholeOf(call'[d], info'[Key(d)'])) /\ MadeOf(call'[d])
  <2>1. CASE d = c
    BY <1>3, <1>5, <2>1, NothingRead DEF Done
  <2>2. CASE d # c
    <3>1. Key(d)' = Key(d)
      BY <1>3, <2>2 DEF Key
    <3> QED
      BY <1>3, <1>4, <2>2, <3>1 DEF ReadWhole
  <2> QED
    BY <2>1, <2>2
<1> QED
  BY <1>6 DEF ReadWhole

\* What a round of fill_ip_info makes of the field it has read.
LEMMA FillsIn ==
    ASSUME Types, NEW c \in Callers, Fill(c), ~Return(c, "error")
    PROVE  LET y == call[c]
               f == Fields[y.read + 1]
               n == info[Key(c)][f]
           IN  /\ call'[c].gateway = IF f = "server" THEN GatewayFrom(y.got["gateway"]) ELSE y.gateway
               /\ call'[c].prefixLength = IF f = "mask" /\ HasMask(n) THEN ShiftedOut(Answers[n].mask.bits)
                                          ELSE y.prefixLength
               /\ ~(f = "mask" /\ InvalidMask(n))
<1> DEFINE y == call[c]
           f == Fields[y.read + 1]
           n == info[Key(c)][f]
           x == Filled(y, f, n)
<1>1. y \in Call /\ call \in [Callers -> Call] /\ FieldKey(y.iface) = Key(c)
  BY Typed
<1>2. call' = [call EXCEPT ![c] = x] /\ ~(f = "mask" /\ InvalidMask(n))
  BY <1>1 DEF Fill
<1>3. call'[c] = x
  <2> HIDE DEF x
  <2> QED
    BY <1>1, <1>2
<1>4. /\ x.gateway = IF f = "server" THEN GatewayFrom(y.got["gateway"]) ELSE y.gateway
      /\ x.prefixLength = IF f = "mask" /\ HasMask(n) THEN ShiftedOut(Answers[n].mask.bits)
                          ELSE y.prefixLength
  <2> DEFINE length == IF f = "mask" /\ HasMask(n) THEN ShiftedOut(Answers[n].mask.bits)
                       ELSE y.prefixLength
  <2> HIDE DEF f, n, length
  <2>1. x = [y EXCEPT !.pc = IF y.read + 1 = Len(Fields) THEN 0 ELSE y.pc,
                      !.read = IF y.read + 1 = Len(Fields) THEN 0 ELSE y.read + 1,
                      !.got = [y.got EXCEPT ![f] = n],
                      !.gateway = IF f = "server" THEN GatewayFrom(y.got["gateway"]) ELSE y.gateway,
                      !.prefixLength = length,
                      !.ret = IF y.read + 1 = Len(Fields) THEN "ok" ELSE y.ret]
    BY DEF Filled, length
  <2>2. x.prefixLength = length /\ x.gateway = IF f = "server" THEN GatewayFrom(y.got["gateway"]) ELSE y.gateway
    BY <1>1, <2>1 DEF Call
  <2> QED
    BY <2>2 DEF length
<1> QED
  BY <1>2, <1>3, <1>4

LEMMA WholeByFilling ==
    ASSUME Types, ReadWhole, HasRead, NEW c \in Callers, Fill(c), call[c].fn \in Asking
    PROVE  /\ quiet[c] => WholeOf(call'[c], info[Key(c)])
           /\ MadeOf(call'[c])
<1>1. CASE Return(c, "error")
  <2>1. call'[c].pc = 0 /\ call'[c].read = 0 /\ call'[c].ret = "error"
    BY <1>1, Returns
  <2> QED
    BY <2>1, NothingRead DEF AtOf, Done
<1>2. CASE ~Return(c, "error")
  <2> DEFINE y == call[c]
             z == call'[c]
             r == y.read
             f == Fields[r + 1]
             fields == info[Key(c)]
             n == fields[f]
             got == y.got
             new == z.got
  <2>1. /\ Keeps(c) /\ r \in 0 .. 4 /\ f \in Field
        /\ new = [got EXCEPT ![f] = n]
        /\ r = 4 => z.pc = 0 /\ z.read = 0 /\ z.ret = "ok"
        /\ r < 4 => z.pc = y.pc /\ z.read = r + 1 /\ z.ret = y.ret
    BY <1>2, Fills
  <2>2. /\ z.gateway = IF f = "server" THEN GatewayFrom(got["gateway"]) ELSE y.gateway
        /\ z.prefixLength = IF f = "mask" /\ HasMask(n) THEN ShiftedOut(Answers[n].mask.bits)
                            ELSE y.prefixLength
        /\ ~(f = "mask" /\ InvalidMask(n))
    BY <1>2, FillsIn
  <2>3. y.pc # 0 /\ AtOf(y, "fill") /\ z.fn = y.fn
    BY <2>1, AtIsAtOf DEF Fill, At, Idle, Keeps
  <2>4. got \in [Field -> 0 .. Len(Answers)] /\ n \in 0 .. Len(Answers)
    <3>1. got \in [Field -> 0 .. Len(Answers)] /\ fields \in [Field -> 0 .. Len(Answers)]
      BY Typed DEF Call, Types, TypeOK
    <3> QED
      BY <2>1, <3>1
  <2>5. new[f] = n /\ \A g \in Field : g # f => new[g] = got[g]
    BY <2>1, <2>4
  <2>6. ASSUME quiet[c]
        PROVE  WholeOf(z, fields)
    <3>1. /\ \A g, h \in Field : fields[g] = fields[h]
          /\ \A m \in 1 .. 5 : m <= r => got[Fields[m]] = fields[Fields[m]]
      BY <2>3, <2>6 DEF ReadWhole, WholeOf
    <3> HIDE DEF new, got, fields, y, z, f, n, r
    <3>2. ASSUME NEW m \in 1 .. 5, m <= r + 1
          PROVE  new[Fields[m]] = fields[Fields[m]]
      <4>1. CASE Fields[m] = f
        BY <2>5, <4>1 DEF n
      <4>2. CASE Fields[m] # f
        <5>1. m <= r
          BY <2>1, <3>2, <4>2 DEF f
        <5> QED
          BY <2>5, <3>1, <4>2, <5>1, FieldsTyped
      <4> QED
        BY <4>1, <4>2
    <3>3. CASE r = 4
      <4>1. \A g \in Field : new[g] = fields[g]
        BY <3>2, <3>3, FieldIsRead
      <4>2. \A g, h \in Field : new[g] = new[h]
        BY <3>1, <4>1
      <4>3. ~AtOf(z, "fill")
        BY <2>1, <3>3 DEF AtOf
      <4> QED
        BY <4>2, <4>3 DEF WholeOf, new
    <3>4. CASE r # 4
      <4>1. r < 4
        BY <2>1, <3>4
      <4>2. z.read = r + 1 /\ z.pc # 0
        BY <2>1, <2>3, <4>1
      <4> QED
        BY <3>1, <3>2, <4>2 DEF WholeOf, Done, new
    <3> QED
      BY <3>3, <3>4
  <2>7. MadeOf(z)
    <3>1. MadeOf(y) /\ ~Done(y)
      BY <2>3 DEF ReadWhole, Done
    <3>3. /\ r = 2 => f = "server"
          /\ r = 3 => f = "mask"
          /\ r = 4 => f = "rest"
      BY FieldsAre
    <3>4. "gateway" \in Field /\ "mask" \in Field
      BY FieldsAre, FieldsTyped
    <3> HIDE DEF new, got, fields, y, z, f, n, r
    <3>5. CASE r \in {0, 1}
      <4>1. z.read \in {1, 2} /\ z.pc # 0
        BY <2>1, <2>3, <3>5
      <4> QED
        BY <4>1 DEF MadeOf, Done
    <3>6. CASE r = 2
      <4>1. z.read = 3 /\ z.pc # 0 /\ f = "server"
        BY <2>1, <2>3, <3>3, <3>6
      <4>2. z.gateway = GatewayFrom(got["gateway"]) /\ new["gateway"] = got["gateway"]
        BY <2>2, <2>5, <3>4, <4>1
      <4> QED
        BY <4>1, <4>2 DEF MadeOf, Done, new
    <3>7. CASE r = 3
      <4>1. z.read = 4 /\ z.pc # 0 /\ f = "mask" /\ y.read = 3
        BY <2>1, <2>3, <3>3, <3>7 DEF r
      <4>2. z.gateway = y.gateway /\ new["gateway"] = got["gateway"] /\ new["mask"] = n
        BY <2>2, <2>5, <3>4, <4>1
      <4>3. y.gateway = GatewayFrom(got["gateway"])
        BY <3>1, <4>1 DEF MadeOf, got
      <4>4. HasMask(n) => z.prefixLength = ipv4NetmaskToPrefixLength(Answers[n].mask.bits)
        BY <2>2, <2>4, <4>1, TakenMask
      <4> QED
        BY <4>1, <4>2, <4>3, <4>4 DEF MadeOf, new
    <3>8. CASE r = 4
      <4>1. f = "rest" /\ y.read = 4
        BY <3>3, <3>8 DEF r
      <4>2. /\ z.gateway = y.gateway /\ z.prefixLength = y.prefixLength
            /\ new["gateway"] = got["gateway"] /\ new["mask"] = got["mask"]
        BY <2>2, <2>5, <3>4, <4>1
      <4>3. /\ y.gateway = GatewayFrom(got["gateway"])
            /\ HasMask(got["mask"]) =>
                   y.prefixLength = ipv4NetmaskToPrefixLength(Answers[got["mask"]].mask.bits)
        BY <3>1, <4>1 DEF MadeOf, got
      <4> QED
        BY <4>2, <4>3 DEF MadeOf, new
    <3> QED
      BY <2>1, <3>5, <3>6, <3>7, <3>8
  <2> QED
    BY <2>6, <2>7
<1> QED
  BY <1>1, <1>2

\* What a caller's step does to who is undisturbed: itself when it looks at the result,
\* and others at most the worse.
LEMMA QuietByCallers ==
    ASSUME Types, NEW c \in Callers, CallerStep(c)
    PROVE  /\ \A d \in Callers : d # c => (quiet'[d] => quiet[d])
           /\ At(c, "reread") => quiet'[c] = Whole(Key(c))
           /\ ~At(c, "reread") => (quiet'[c] => quiet[c])
<1>1. quiet \in [Callers -> BOOLEAN]
  BY DEF Types, TypeOK
<1>2. CASE ReadResult(c)
  BY <1>1, <1>2 DEF ReadResult
<1>3. CASE Control(c)
  <2>1. PICK cmd \in {"start", "renew", "stop"} :
            /\ At(c, cmd)
            /\ quiet' = [d \in Callers |-> quiet[d] /\ ~(cmd = "start" /\ d # c /\ Key(d) = Key(c))]
    BY <1>3 DEF Control
  <2> QED
    BY <1>1, <2>1 DEF At
<1>4. CASE Erase(c) \/ WaitForService(c) \/ WaitForResult(c) \/ Fill(c) \/ Mark(c)
  <2>1. quiet' = quiet /\ ~At(c, "reread")
    BY <1>4 DEF Erase, WaitForService, WaitForResult, Fill, Mark, At
  <2> QED
    BY <2>1
<1> QED
  BY <1>2, <1>3, <1>4 DEF CallerStep

LEMMA WholeByCallers ==
    ASSUME Types, ReadWhole, HasRead, NEW c \in Callers, CallerStep(c)
    PROVE  ReadWhole'
<1>1. Keeps(c) /\ info' = info
  BY CallerKeeps, CallerEnv
<1>2. \A d \in Callers : Key(d)' = Key(d)
  BY <1>1 DEF Keeps, Key
<1>3. /\ ReadOf(call[c], answered[c]) /\ call'[c].fn = call[c].fn /\ ~Idle(c)
      /\ AtStep(call[c].fn, Steps(call[c].fn)[call[c].pc], call[c].pc)
  BY <1>1, CallerCases DEF HasRead, Keeps
<1> DEFINE Good == (quiet'[c] => WholeOf(call'[c], info[Key(c)])) /\ MadeOf(call'[c])
<1>4. ASSUME Return(c, "error")
      PROVE  Good
  <2>1. call'[c].pc = 0 /\ call'[c].read = 0 /\ call'[c].ret = "error"
    BY <1>4, Returns
  <2> QED
    BY <2>1, NothingRead DEF AtOf, Done
<1>5. ASSUME Advance(c), ~At(c, "fill")
      PROVE  Good
  <2>1. call[c].read = 0
    BY <1>3, <1>5, AtIsAtOf DEF ReadOf
  <2>2. CASE call[c].fn \in Asking
    <3>1. /\ call'[c].pc # 0 /\ call'[c].read = 0
          /\ AtOf(call'[c], "fill") => At(c, "reread")
      BY <1>3, <1>5, <2>1, <2>2, AskingAdvances
    <3>2. CASE ~AtOf(call'[c], "fill")
      BY <3>1, <3>2, NothingRead DEF Done
    <3>3. CASE AtOf(call'[c], "fill")
      <4>1. quiet'[c] => \A f, g \in Field : info[Key(c)][f] = info[Key(c)][g]
        BY <3>1, <3>3, QuietByCallers DEF Whole
      <4> QED
        BY <3>1, <4>1 DEF WholeOf, MadeOf, Done
    <3> QED
      BY <3>2, <3>3
  <2>3. CASE call[c].fn \notin Asking
    <3>1. call'[c].read = 0
      BY <1>3, <1>5, <2>1, Advances, Returns
    <3>2. ~AtOf(call'[c], "fill")
      <4>1. /\ call[c].fn \in Fns /\ call'[c].pc <= Len(Steps(call[c].fn)) /\ call'[c].pc \in 0 .. 6
            /\ Len(Steps(call[c].fn)) \in 2 .. 6
        BY <1>1, Typed, CallerKeeps, StepsOf DEF Keeps, Call
      <4>2. CASE call'[c].pc # 0
        <5>1. call'[c].pc \in 1 .. Len(Steps(call[c].fn))
          BY <4>1, <4>2
        <5>2. AtStep(call[c].fn, Steps(call[c].fn)[call'[c].pc], call'[c].pc)
          BY <4>1, <5>1, StepsOf
        <5> QED
          BY <1>3, <2>3, <5>2 DEF AtOf, AtStep
      <4> QED
        BY <4>2 DEF AtOf
    <3> QED
      BY <1>3, <2>3, <3>1, <3>2, NothingRead DEF Done
  <2> QED
    BY <2>2, <2>3
<1>6. ASSUME NapAgain(c), At(c, "service") \/ At(c, "result")
      PROVE  Good
  <2>1. ~At(c, "fill") /\ call[c].pc # 0
    BY <1>6 DEF At, Idle
  <2>2. call'[c].read = 0 /\ call'[c].pc = call[c].pc
    BY <1>3, <1>6, <2>1, NapsAgain, AtIsAtOf DEF ReadOf
  <2>3. ~AtOf(call'[c], "fill") /\ ~Done(call'[c])
    BY <1>3, <2>1, <2>2, AtIsAtOf DEF AtOf, Done
  <2> QED
    BY <2>2, <2>3, NothingRead
<1>7. ASSUME Fill(c)
      PROVE  Good
  <2>1. call[c].fn \in Asking /\ quiet' = quiet
    BY <1>3, <1>7 DEF Fill, At, AtStep
  <2> QED
    BY <1>7, <2>1, WholeByFilling
<1>8. Good
  BY <1>4, <1>5, <1>6, <1>7, CallerCases
<1>9. ASSUME NEW d \in Callers, d # c
      PROVE  (quiet'[d] => WholeOf(call'[d], info[Key(d)])) /\ MadeOf(call'[d])
  BY <1>1, <1>9, QuietByCallers DEF Keeps, ReadWhole
<1> QED
  BY <1>1, <1>2, <1>8, <1>9 DEF ReadWhole

LEMMA WholeByOthers ==
    ASSUME Types, ReadWhole, Environment
    PROVE  ReadWhole'
<1>1. call' = call /\ \A c \in Callers : Key(c)' = Key(c)
  BY EnvironmentTypes DEF Key
<1>2. CASE info' = info /\ quiet' = quiet
  BY <1>1, <1>2 DEF ReadWhole
<1>3. ASSUME NEW k \in Keys, DaemonWrites(k)
      PROVE  ReadWhole'
  <2>1. \A j \in Keys : j # k => info'[j] = info[j]
    BY <1>3, Writes
  <2>2. quiet' = [c \in Callers |-> quiet[c] /\ ~(At(c, "fill") /\ Key(c) = k)]
    BY <1>3 DEF DaemonWrites
  <2>3. ASSUME NEW c \in Callers, quiet'[c]
        PROVE  WholeOf(call[c], info'[Key(c)])
    <3>1. quiet[c] /\ ~(At(c, "fill") /\ Key(c) = k)
      BY <2>2, <2>3
    <3>2. Key(c) \in Keys /\ WholeOf(call[c], info[Key(c)])
      BY <3>1, Typed DEF ReadWhole
    <3>3. CASE Key(c) = k
      <4>1. ~AtOf(call[c], "fill")
        BY <3>1, <3>3, AtIsAtOf
      <4> QED
        BY <3>2, <4>1 DEF WholeOf
    <3>4. CASE Key(c) # k
      BY <2>1, <3>2, <3>4
    <3> QED
      BY <3>3, <3>4
  <2> QED
    BY <1>1, <2>3 DEF ReadWhole
<1> QED
  BY <1>2, <1>3 DEF Environment, InitTakes, Reaped, DaemonExits, DaemonBinds, DaemonFails

\* An undisturbed request returns one answer, with the prefix length of its mask and a
\* gateway if it names any, whatever the answers are and whoever else calls.
THEOREM InfoWhole == Spec => []InfoIsWhole
<1>1. ReadInv /\ ReadWhole /\ [Next]_allVars => ReadWhole'
  <2> SUFFICES ASSUME ReadInv, ReadWhole, [Next]_allVars
               PROVE  ReadWhole'
    OBVIOUS
  <2>1. Types /\ HasRead
    BY DEF ReadInv
  <2>2. CASE UNCHANGED allVars
    BY <2>2 DEF allVars, vars, ReadWhole, Key
  <2> QED
    BY <2>1, <2>2, WholeByEntering, WholeByCallers, WholeByOthers DEF Next, Surroundings, Continue
<1>2. ReadWhole => InfoIsWhole
  <2> SUFFICES ASSUME ReadWhole, NEW c \in Callers, Idle(c), call[c].fn \in Asking, call[c].ret = "ok",
                      quiet[c]
               PROVE  LET y == call[c] IN
                      /\ \A f, g \in Field : y.got[f] = y.got[g]
                      /\ HasMask(y.got["mask"]) =>
                            y.prefixLength = ipv4NetmaskToPrefixLength(Answers[y.got["mask"]].mask.bits)
                      /\ Says(y.got[y.gateway], y.gateway) \in NoGateway =>
                            /\ Says(y.got["gateway"], "gateway") \in NoGateway
                            /\ Says(y.got["server"], "server") \in NoGateway
    BY DEF InfoIsWhole
  <2>1. Done(call[c]) /\ WholeOf(call[c], info[Key(c)]) /\ MadeOf(call[c])
    BY DEF Done, Idle, ReadWhole
  <2>2. call[c].gateway = GatewayFrom(call[c].got["gateway"])
    BY <2>1 DEF MadeOf
  <2> QED
    BY <2>1, <2>2 DEF WholeOf, MadeOf, GatewayFrom
<1> QED
  BY <1>1, <1>2, InitWhole, ReadInvariance, PTL DEF Spec

(***************************************************************************)
(* What a stop leaves.                                                     *)
(***************************************************************************)

Starts(msg, k) == msg.cmd = "start" /\ msg.key = k
Stops(msg, k) == msg.cmd = "stop" /\ msg.key = k

\* Of what init has still to take: a stop comes after every start of the service, and
\* there is one if dhcpcd runs.
StopComes(q, alive, k) ==
    /\ \A n \in 1 .. Len(q) : Starts(q[n], k) => \E i \in n .. Len(q) : Stops(q[i], k)
    /\ alive => \E i \in 1 .. Len(q) : Stops(q[i], k)

\* Nothing starts the service that does not run.
StaysDown(q, alive, k) == ~alive /\ \A n \in 1 .. Len(q) : ~Starts(q[n], k)

\* A stop whose message is sent takes effect, and has when the function returns.
StopOf(y, q, alive, k) ==
    y.fn = "dhcp_stop" =>
        /\ y.pc \in {2, 3} => StopComes(q, alive, k)
        /\ y.pc = 0 /\ y.ret = "ok" => StaysDown(q, alive, k)
StopHolds == \A c \in Callers : quiet[c] => StopOf(call[c], queue, daemon[Key(c)].alive, Key(c))

Messages == [cmd : {"start", "renew", "stop"}, key : Keys]

LEMMA AppendedTo ==
    ASSUME NEW q \in Seq(Messages), NEW msg \in Messages
    PROVE  LET r == Append(q, msg) IN
           /\ Len(q) \in Nat /\ Len(r) = Len(q) + 1 /\ r[Len(r)] = msg
           /\ \A n \in 1 .. Len(q) : r[n] = q[n]
OBVIOUS

\* A message that does not start the service.
LEMMA OtherMessage ==
    ASSUME NEW q \in Seq(Messages), NEW msg \in Messages, NEW k, NEW alive, ~Starts(msg, k), NEW y,
           StopOf(y, q, alive, k)
    PROVE  StopOf(y, Append(q, msg), alive, k)
<1> DEFINE r == Append(q, msg)
<1>1. /\ Len(q) \in Nat /\ Len(r) = Len(q) + 1 /\ r[Len(r)] = msg
      /\ \A n \in 1 .. Len(q) : r[n] = q[n]
  BY AppendedTo
<1> HIDE DEF r
<1>2. \A n \in 1 .. Len(r) : Starts(r[n], k) => n \in 1 .. Len(q) /\ Starts(q[n], k)
  BY <1>1
<1>3. \A n \in 1 .. Len(q) : \A i \in n .. Len(q) : i \in n .. Len(r) /\ r[i] = q[i]
  BY <1>1
<1>4. StopComes(q, alive, k) => StopComes(r, alive, k)
  <2> SUFFICES ASSUME StopComes(q, alive, k)
               PROVE  StopComes(r, alive, k)
    OBVIOUS
  <2>1. ASSUME NEW n \in 1 .. Len(r), Starts(r[n], k)
        PROVE  \E i \in n .. Len(r) : Stops(r[i], k)
    <3>1. n \in 1 .. Len(q) /\ Starts(q[n], k)
      BY <1>2, <2>1
    <3>2. PICK i \in n .. Len(q) : Stops(q[i], k)
      BY <3>1 DEF StopComes
    <3> QED
      BY <1>3, <3>1, <3>2
  <2>2. ASSUME alive
        PROVE  \E i \in 1 .. Len(r) : Stops(r[i], k)
    <3>1. PICK i \in 1 .. Len(q) : Stops(q[i], k)
      BY <2>2 DEF StopComes
    <3>2. i \in 1 .. Len(r) /\ r[i] = q[i]
      BY <1>1
    <3> QED
      BY <3>1, <3>2
  <2> QED
    BY <2>1, <2>2 DEF StopComes
<1>5. StaysDown(q, alive, k) => StaysDown(r, alive, k)
  BY <1>2 DEF StaysDown
<1> QED
  BY <1>4, <1>5 DEF StopOf, r

\* The message of the stop itself.
LEMMA StopMessage ==
    ASSUME NEW q \in Seq(Messages), NEW msg \in Messages, NEW k, NEW alive, Stops(msg, k)
    PROVE  StopComes(Append(q, msg), alive, k)
<1> DEFINE r == Append(q, msg)
<1>1. Len(q) \in Nat /\ Len(r) = Len(q) + 1 /\ r[Len(r)] = msg
  BY AppendedTo
<1> HIDE DEF r
<1>2. \A n \in 1 .. Len(r) : Len(r) \in n .. Len(r)
  BY <1>1
<1>3. Len(r) \in 1 .. Len(r)
  BY <1>1
<1>4. StopComes(r, alive, k)
  BY <1>1, <1>2, <1>3 DEF StopComes
<1> QED
  BY <1>4 DEF r

\* init takes a message.
LEMMA MessageTaken ==
    ASSUME NEW q \in Seq(Messages), q # <<>>, NEW k, NEW alive, NEW now, NEW y,
           now => alive \/ Starts(Head(q), k), Stops(Head(q), k) => ~now,
           StopOf(y, q, alive, k)
    PROVE  StopOf(y, Tail(q), now, k)
<1> DEFINE r == Tail(q)
<1>1. Len(q) \in Nat /\ Len(q) > 0 /\ 1 \in 1 .. Len(q) /\ Head(q) = q[1]
  BY EmptySeq
<1>2. Len(r) = Len(q) - 1 /\ \A n \in 1 .. Len(r) : r[n] = q[n + 1]
  BY TailOf
<1> HIDE DEF r
<1>3. \A n \in 1 .. Len(r) : n + 1 \in 1 .. Len(q)
  BY <1>1, <1>2
<1>4. ASSUME NEW i \in 1 .. Len(q), i # 1
      PROVE  i - 1 \in 1 .. Len(r) /\ r[i - 1] = q[i]
  <2>1. i - 1 \in 1 .. Len(r) /\ i - 1 + 1 = i
    BY <1>1, <1>2, <1>4
  <2> QED
    BY <1>2, <2>1
<1>5. ASSUME StopComes(q, alive, k)
      PROVE  StopComes(r, now, k)
  <2>1. ASSUME NEW n \in 1 .. Len(r), Starts(r[n], k)
        PROVE  \E i \in n .. Len(r) : Stops(r[i], k)
    <3>1. n + 1 \in 1 .. Len(q) /\ Starts(q[n + 1], k)
      BY <1>2, <1>3, <2>1
    <3>2. PICK i \in n + 1 .. Len(q) : Stops(q[i], k)
      BY <1>5, <3>1 DEF StopComes
    <3>3. i \in 1 .. Len(q) /\ i # 1 /\ i - 1 \in n .. Len(r)
      BY <1>1, <1>2, <3>2
    <3>4. r[i - 1] = q[i]
      BY <1>4, <3>3
    <3> QED
      BY <3>2, <3>3, <3>4
  <2>2. ASSUME now
        PROVE  \E i \in 1 .. Len(r) : Stops(r[i], k)
    <3>1. ~Stops(q[1], k)
      BY <1>1, <2>2
    <3>2. \E i \in 1 .. Len(q) : Stops(q[i], k)
      <4>1. CASE alive
        BY <1>5, <4>1 DEF StopComes
      <4>2. CASE Starts(q[1], k)
        BY <1>1, <1>5, <4>2 DEF StopComes
      <4> QED
        BY <1>1, <2>2, <4>1, <4>2
    <3>3. PICK i \in 1 .. Len(q) : Stops(q[i], k) /\ i # 1
      BY <3>1, <3>2
    <3> QED
      BY <1>4, <3>3
  <2> QED
    BY <2>1, <2>2 DEF StopComes
<1>6. ASSUME StaysDown(q, alive, k)
      PROVE  StaysDown(r, now, k)
  <2>1. ~now
    BY <1>1, <1>6 DEF StaysDown
  <2>2. \A n \in 1 .. Len(r) : ~Starts(r[n], k)
    BY <1>2, <1>3, <1>6 DEF StaysDown
  <2> QED
    BY <2>1, <2>2 DEF StaysDown
<1> QED
  BY <1>5, <1>6 DEF StopOf, r

\* A service that exits, or goes on running.
LEMMA NoMessage ==
    ASSUME NEW q, NEW k, NEW alive, NEW now, NEW y, now => alive, StopOf(y, q, alive, k)
    PROVE  StopOf(y, q, now, k)
BY DEF StopOf, StopComes, StaysDown

LEMMA StopSteps ==
    /\ Len(Steps("dhcp_stop")) = 3
    /\ Steps("dhcp_stop")[1] = "stop" /\ Steps("dhcp_stop")[2] = "service" /\ Steps("dhcp_stop")[3] = "mark"
<1>1. Steps("dhcp_stop") = <<"stop", "service", "mark">>
  BY DEF Steps, dhcp_stop
<1> QED
  BY <1>1

LEMMA InitStopped == AloneInit => StopHolds
<1> SUFFICES ASSUME AloneInit, NEW c \in Callers
             PROVE  StopOf(call[c], queue, daemon[Key(c)].alive, Key(c))
  BY DEF StopHolds
<1>1. PICK i \in Ifaces : call[c] = Called("dhcp_stop", i, 0)
  BY DEF AloneInit, Init
<1>2. call[c].ret = "none" /\ call[c].pc = 0
  BY <1>1 DEF Called
<1> QED
  BY <1>2 DEF StopOf

LEMMA StopByEntering ==
    ASSUME Types, StopHolds, NEW c \in Callers, CallSome(c)
    PROVE  StopHolds'
<1>1. PICK fn \in Functions, i \in Ifaces : Enter(c, fn, i)
  BY DEF CallSome
<1>2. fn \in Fns
  BY FunctionsAssumption DEF Fns
<1>3. call'[c].pc = 1 /\ \A d \in Callers : d # c => call'[d] = call[d]
  BY <1>1, <1>2, Enters
<1>4. queue' = queue /\ daemon' = daemon /\ \A d \in Callers : d # c => quiet'[d] = quiet[d]
  BY <1>1 DEF Enter, env, Types, TypeOK
<1>5. ASSUME NEW d \in Callers, quiet'[d]
      PROVE  StopOf(call'[d], queue', daemon'[Key(d)'].alive, Key(d)')
  <2>1. CASE d = c
    BY <1>3, <2>1 DEF StopOf
  <2>2. CASE d # c
    <3>1. Key(d)' = Key(d)
      BY <1>3, <2>2 DEF Key
    <3> QED
      BY <1>3, <1>4, <1>5, <2>2, <3>1 DEF StopHolds
  <2> QED
    BY <2>1, <2>2
<1> QED
  BY <1>5 DEF StopHolds

LEMMA StopByCallers ==
    ASSUME Types, StopHolds, NEW c \in Callers, CallerStep(c)
    PROVE  StopHolds'
<1>1. Keeps(c) /\ daemon' = daemon
  BY CallerKeeps, CallerEnv
<1>2. \A d \in Callers : Key(d)' = Key(d) /\ Key(d) \in Keys
  BY <1>1, Typed DEF Keeps, Key
<1>3. queue \in Seq(Messages) /\ quiet \in [Callers -> BOOLEAN]
  BY DEF Types, TypeOK, Messages
<1>4. \/ queue' = queue /\ ~Control(c)
      \/ \E cmd \in {"start", "renew", "stop"} :
            /\ At(c, cmd) /\ Advance(c) /\ queue' = Append(queue, [cmd |-> cmd, key |-> Key(c)])
            /\ quiet' = [d \in Callers |-> quiet[d] /\ ~(cmd = "start" /\ d # c /\ Key(d) = Key(c))]
  BY DEF CallerStep, Erase, Control, WaitForService, WaitForResult, ReadResult, Fill, Mark, env
<1>5. ASSUME NEW d \in Callers, d # c, quiet'[d]
      PROVE  StopOf(call'[d], queue', daemon[Key(d)].alive, Key(d))
  <2>1. call'[d] = call[d] /\ quiet[d] /\ StopOf(call[d], queue, daemon[Key(d)].alive, Key(d))
    BY <1>1, <1>5, QuietByCallers DEF Keeps, StopHolds
  <2>2. CASE queue' = queue
    BY <2>1, <2>2
  <2>3. ASSUME NEW cmd \in {"start", "renew", "stop"},
               queue' = Append(queue, [cmd |-> cmd, key |-> Key(c)]),
               quiet' = [e \in Callers |-> quiet[e] /\ ~(cmd = "start" /\ e # c /\ Key(e) = Key(c))]
        PROVE  StopOf(call'[d], queue', daemon[Key(d)].alive, Key(d))
    <3> DEFINE msg == [cmd |-> cmd, key |-> Key(c)]
    <3>1. msg \in Messages
      BY <1>2 DEF Messages
    <3>2. ~Starts(msg, Key(d))
      BY <1>5, <2>3 DEF Starts
    <3> HIDE DEF msg
    <3>3. StopOf(call[d], Append(queue, msg), daemon[Key(d)].alive, Key(d))
      BY <1>3, <2>1, <3>1, <3>2, OtherMessage
    <3> QED
      BY <2>1, <2>3, <3>3 DEF msg
  <2> QED
    BY <1>4, <2>2, <2>3
<1>6. ASSUME quiet'[c], call[c].fn = "dhcp_stop"
      PROVE  StopOf(call'[c], queue', daemon[Key(c)].alive, Key(c))
  <2>1. /\ call[c].pc \in 1 .. 3 /\ ~Idle(c) /\ call'[c].fn = "dhcp_stop"
        /\ \A step : At(c, step) => Steps("dhcp_stop")[call[c].pc] = step
    BY <1>1, <1>6, CallerCases, StopSteps DEF Keeps, At
  <2>2. /\ At(c, "stop") => call[c].pc = 1
        /\ At(c, "service") => call[c].pc = 2
        /\ At(c, "mark") => call[c].pc = 3
        /\ \A step \in {"start", "renew", "erase", "result", "reread", "fill"} : ~At(c, step)
    BY <2>1, StopSteps
  <2>3. quiet[c] /\ StopOf(call[c], queue, daemon[Key(c)].alive, Key(c))
    BY <1>6, <2>2, QuietByCallers DEF StopHolds
  <2>4. CASE Control(c)
    <3>1. PICK cmd \in {"start", "renew", "stop"} :
              At(c, cmd) /\ Advance(c) /\ queue' = Append(queue, [cmd |-> cmd, key |-> Key(c)])
      BY <2>4 DEF Control
    <3>2. cmd = "stop" /\ call[c].pc = 1
      BY <2>2, <3>1
    <3>3. call'[c].pc = 2
      BY <1>6, <2>1, <3>1, <3>2, Advances, StopSteps
    <3>4. StopComes(queue', daemon[Key(c)].alive, Key(c))
      <4> DEFINE msg == [cmd |-> "stop", key |-> Key(c)]
      <4>1. msg \in Messages /\ Stops(msg, Key(c)) /\ queue' = Append(queue, msg)
        BY <1>2, <3>1, <3>2 DEF Messages, Stops
      <4> HIDE DEF msg
      <4> QED
        BY <1>3, <4>1, StopMessage
    <3> QED
      BY <3>3, <3>4 DEF StopOf
  <2>5. CASE WaitForService(c)
    <3>1. /\ queue' = queue /\ call[c].pc = 2
          /\ Advance(c) \/ NapAgain(c) \/ Return(c, "error")
      BY <2>2, <2>5 DEF WaitForService, env
    <3>2. CASE Advance(c)
      <4>1. call'[c].pc = 3
        BY <1>6, <2>1, <3>1, <3>2, Advances, StopSteps
      <4> QED
        BY <1>6, <2>3, <3>1, <4>1 DEF StopOf
    <3>3. CASE NapAgain(c)
      <4>1. call'[c].pc = 2
        BY <3>1, <3>3, NapsAgain
      <4> QED
        BY <1>6, <2>3, <3>1, <4>1 DEF StopOf
    <3>4. CASE Return(c, "error")
      <4>1. call'[c].pc = 0 /\ call'[c].ret = "error"
        BY <3>4, Returns
      <4> QED
        BY <4>1 DEF StopOf
    <3> QED
      BY <3>1, <3>2, <3>3, <3>4
  <2>6. CASE Mark(c)
    <3>1. queue' = queue /\ queue = <<>> /\ call[c].pc = 3 /\ Advance(c)
      BY <2>2, <2>6 DEF Mark, Drained
    <3>2. StopComes(<<>>, daemon[Key(c)].alive, Key(c))
      BY <1>6, <2>3, <3>1 DEF StopOf
    <3>3. StaysDown(<<>>, daemon[Key(c)].alive, Key(c))
      BY <3>2 DEF StopComes, StaysDown
    <3>4. call'[c].pc = 0
      <4>1. call[c].pc = Len(Steps(call[c].fn))
        BY <1>6, <3>1, StopSteps
      <4>2. Return(c, "ok")
        BY <3>1, <4>1 DEF Advance
      <4> QED
        BY <4>2, Returns
    <3> QED
      BY <3>1, <3>3, <3>4 DEF StopOf
  <2>7. ~Erase(c) /\ ~WaitForResult(c) /\ ~ReadResult(c) /\ ~Fill(c)
    BY <2>2 DEF Erase, WaitForResult, ReadResult, Fill
  <2> QED
    BY <2>4, <2>5, <2>6, <2>7 DEF CallerStep
<1>7. ASSUME call[c].fn # "dhcp_stop"
      PROVE  StopOf(call'[c], queue', daemon[Key(c)].alive, Key(c))
  BY <1>1, <1>7 DEF Keeps, StopOf
<1> QED
  BY <1>1, <1>2, <1>5, <1>6, <1>7 DEF StopHolds

LEMMA StopByOthers ==
    ASSUME Types, StopHolds, Environment
    PROVE  StopHolds'
<1>1. call' = call /\ \A c \in Callers : Key(c)' = Key(c) /\ Key(c) \in Keys
  BY EnvironmentTypes, Typed DEF Key
<1>2. daemon \in [Keys -> [alive : BOOLEAN, todo : Seq([f : Field, n : 1 .. Len(Answers)])]]
  BY DEF Types, TypeOK
<1>3. queue \in Seq(Messages)
  BY DEF Types, TypeOK, Messages
<1>4. \A c \in Callers : quiet'[c] => quiet[c]
  BY DEF Environment, InitTakes, Reaped, DaemonExits, DaemonBinds, DaemonWrites, DaemonFails
<1>5. ASSUME queue' = queue, \A k \in Keys : daemon'[k].alive => daemon[k].alive
      PROVE  StopHolds'
  BY <1>1, <1>4, <1>5, NoMessage DEF StopHolds
<1>6. CASE InitTakes
  <2> DEFINE msg == Head(queue)
  <2>1. queue # <<>> /\ queue' = Tail(queue) /\ msg \in Messages
    <3>1. queue # <<>> /\ queue' = Tail(queue)
      BY <1>6 DEF InitTakes, Drained
    <3> QED
      BY <1>3, <3>1
  <2>2. msg.key \in Keys
    BY <2>1 DEF Messages
  <2>3. \/ /\ msg.cmd = "start"
           /\ daemon' = [daemon EXCEPT ![msg.key] = [alive |-> TRUE, todo |-> <<>>]]
        \/ /\ msg.cmd = "stop"
           /\ daemon' = [daemon EXCEPT ![msg.key] = [alive |-> FALSE, todo |-> <<>>]]
        \/ msg.cmd # "stop" /\ daemon' = daemon
    BY <1>6 DEF InitTakes
  <2> HIDE DEF msg
  <2>4. \A k \in Keys : /\ daemon'[k].alive => daemon[k].alive \/ Starts(msg, k)
                        /\ Stops(msg, k) => ~daemon'[k].alive
    BY <1>2, <2>2, <2>3 DEF Starts, Stops
  <2>5. ASSUME NEW c \in Callers, quiet'[c]
        PROVE  StopOf(call[c], queue', daemon'[Key(c)].alive, Key(c))
    <3>1. StopOf(call[c], queue, daemon[Key(c)].alive, Key(c))
      BY <1>4, <2>5 DEF StopHolds
    <3> QED
      BY <1>1, <1>3, <2>1, <2>4, <3>1, MessageTaken DEF msg
  <2> QED
    BY <1>1, <2>5 DEF StopHolds
<1>7. ASSUME NEW k \in Keys,
             Reaped(k) \/ DaemonExits(k) \/ DaemonBinds(k) \/ DaemonWrites(k) \/ DaemonFails(k)
      PROVE  StopHolds'
  <2>1. queue' = queue
    BY <1>7 DEF Reaped, DaemonExits, DaemonBinds, DaemonWrites, DaemonFails
  <2>2. \/ daemon' = daemon
        \/ daemon' = [daemon EXCEPT ![k] = [alive |-> FALSE, todo |-> <<>>]]
        \/ \E s : daemon' = [daemon EXCEPT ![k] = [@ EXCEPT !.todo = s]]
    BY <1>7 DEF Reaped, DaemonExits, DaemonBinds, DaemonWrites, DaemonFails
  <2>3. ASSUME NEW s, daemon' = [daemon EXCEPT ![k] = [@ EXCEPT !.todo = s]], NEW j \in Keys
        PROVE  daemon'[j].alive = daemon[j].alive
    BY <1>2, <2>3
  <2>4. ASSUME daemon' = [daemon EXCEPT ![k] = [alive |-> FALSE, todo |-> <<>>]], NEW j \in Keys
        PROVE  daemon'[j].alive => daemon[j].alive
    BY <1>2, <2>4
  <2>5. ASSUME NEW j \in Keys
        PROVE  daemon'[j].alive => daemon[j].alive
    <3>1. CASE daemon' = daemon
      BY <3>1
    <3>2. CASE \E s : daemon' = [daemon EXCEPT ![k] = [@ EXCEPT !.todo = s]]
      <4>1. PICK s : daemon' = [daemon EXCEPT ![k] = [@ EXCEPT !.todo = s]]
        BY <3>2
      <4> QED
        BY <2>3, <4>1
    <3> QED
      BY <2>2, <2>4, <3>1, <3>2
  <2> QED
    BY <1>5, <2>1, <2>5
<1> QED
  BY <1>6, <1>7 DEF Environment

\* When dhcp_stop reports success, dhcpcd does not run unless somebody has asked to
\* start it since: however many callers there are, and whatever was in init's queue.
THEOREM StopsStop == Spec => []StopStops
<1>1. Types /\ StopHolds /\ [Next]_allVars => StopHolds'
  <2> SUFFICES ASSUME Types, StopHolds, [Next]_allVars
               PROVE  StopHolds'
    OBVIOUS
  <2>1. CASE UNCHANGED allVars
    BY <2>1 DEF allVars, vars, StopHolds, Key
  <2> QED
    BY <2>1, StopByEntering, StopByCallers, StopByOthers DEF Next, Surroundings, Continue
<1>2. StopHolds => StopStops
  BY DEF StopHolds, StopOf, StaysDown, StopStops, Idle
<1>3. Spec => []Types
  BY InitTypes, TypesKept, PTL DEF Spec
<1> QED
  BY <1>1, <1>2, <1>3, InitStopped, PTL DEF Spec
=============================================================================
