----------------------------- MODULE IfcProofs ------------------------------
(***************************************************************************)
(* Proofs about ifc_utils.c: what its functions do to sockets, interfaces, *)
(* routes and connections, one system call at a time, whatever other       *)
(* processes and the kernel do meanwhile.                                  *)
(***************************************************************************)
EXTENDS IfcKernelProofs

(***************************************************************************)
(* The invariant that all others rest on: the kernel is in a state it can  *)
(* be in, and a process has steps left that are of its interface.          *)
(***************************************************************************)

GotRead == [addr : V4, plen : PrefixLength, flags : FlagSets, gw : V4, whole : BOOLEAN]

LEMMA ReadsTyped ==
    ASSUME NEW k, Sane(k), NEW cs, NEW i \in Ifaces \cup {NoDev}, NEW s \in StepNow(i),
           Certain(k, cs, s) = {}, NEW got \in GotRead
    PROVE  /\ Reads(k, got, s) \in GotRead
           /\ s.do = "getflags" => Reads(k, got, s).flags = k.link[i].flags
<1>1. s.do \notin OfSockets => i \in Ifaces /\ s.dev = i
  BY StepNowParts
<1>2. CASE s.do \in {"getflags", "readflags"}
  <2>1. i \in Ifaces /\ s.dev = i
    BY <1>1, <1>2 DEF OfSockets
  <2>2. k.link[i].flags \in FlagSets
    BY <2>1, CarriesNow, LinkParts DEF FlagSets
  <2>3. Reads(k, got, s) = [got EXCEPT !.flags = k.link[i].flags]
    BY <1>2, <2>1 DEF Reads
  <2> QED
    BY <2>2, <2>3 DEF GotRead
<1>3. CASE s.do = "getaddr"
  <2>1. i \in Ifaces /\ s.dev = i
    BY <1>1, <1>3 DEF OfSockets
  <2>2. k.link[i].addrs # <<>>
    <3>1. Wrong(k, s) = {}
      BY <1>3, NothingWrong DEF OfDevice, OnSock
    <3> QED
      BY <1>3, <2>1, <3>1, WrongNot DEF NeedsAddr
  <2>3. k.link[i].addrs \in Seq(Addrs)
    BY <2>1, CarriesNow, LinkParts
  <2>4. Head(k.link[i].addrs) \in V4
    <3>1. Head(k.link[i].addrs) \in Addrs
      BY <2>2, <2>3
    <3> QED
      BY <3>1, AddressesAre
  <2>5. Reads(k, got, s) = [got EXCEPT !.addr = Head(k.link[i].addrs)]
    BY <1>3, <2>1 DEF Reads
  <2> HIDE DEF V4
  <2> QED
    BY <1>3, <2>4, <2>5 DEF GotRead
<1>4. CASE s.do = "getmask"
  <2>1. Reads(k, got, s) = [got EXCEPT !.plen = ipv4NetmaskToPrefixLength(k.link[s.dev].mask)]
    BY <1>4 DEF Reads
  <2>2. ipv4NetmaskToPrefixLength(k.link[s.dev].mask) \in PrefixLength
    BY LengthOfMask
  <2> QED
    BY <1>4, <2>1, <2>2 DEF GotRead
<1>5. CASE s.do = "scandefault"
  <2> DEFINE n == {m \in DOMAIN k.routes :
                      /\ k.routes[m].dev = s.dev /\ k.routes[m].dst = Any4
                      /\ k.routes[m].plen = 0 /\ k.routes[m].gw # Any4}
             gw == IF n = {} THEN Any4 ELSE k.routes[CHOOSE m \in n : \A j \in n : m <= j].gw
  <2>1. Reads(k, got, s) = [got EXCEPT !.gw = gw]
    BY <1>5 DEF Reads
  <2>2. \A m \in n : k.routes[m].gw \in V4
    <3>1. k.routes \in Seq(Route)
      BY DEF Sane, Kernel
    <3>2. \A m \in n : k.routes[m] \in Route /\ k.routes[m].dst = Any4
      BY <3>1
    <3>3. Any4 \notin V6
      BY AddressesAre
    <3> QED
      BY <3>2, <3>3 DEF Route
  <2>3. n \in SUBSET Nat
    BY DEF Sane, Kernel
  <2> HIDE DEF n
  <2>4. n # {} => (CHOOSE m \in n : \A j \in n : m <= j) \in n
    BY <2>3, FirstPlace
  <2>5. gw \in V4
    BY <2>2, <2>4, AddressesAre
  <2> HIDE DEF gw
  <2> QED
    BY <1>5, <2>1, <2>5 DEF GotRead
<1>6. CASE s.do \in {"scanhosts", "scan6"}
  <2>1. (Len(Lines4(k)) <= LINES) \in BOOLEAN /\ (Len(Lines6(k, s.dev)) <= LINES) \in BOOLEAN
    OBVIOUS
  <2>2. \A w \in BOOLEAN : [got EXCEPT !.whole = w] \in GotRead
    <3> HIDE DEF V4, FlagSets, PrefixLength
    <3> QED
      BY DEF GotRead
  <2>3. Reads(k, got, s) \in GotRead
    <3> DEFINE w4 == Len(Lines4(k)) <= LINES
               w6 == Len(Lines6(k, s.dev)) <= LINES
    <3>1. Reads(k, got, s) = [got EXCEPT !.whole = IF s.do = "scanhosts" THEN w4 ELSE w6]
      BY <1>6 DEF Reads
    <3>2. (IF s.do = "scanhosts" THEN w4 ELSE w6) \in BOOLEAN
      BY <2>1
    <3> HIDE DEF w4, w6
    <3> QED
      BY <2>2, <3>1, <3>2
  <2> QED
    BY <1>6, <2>3
<1>7. CASE s.do \notin {"getflags", "readflags", "getaddr", "getmask", "scandefault", "scanhosts", "scan6"}
  BY <1>7 DEF Reads
<1> QED
  BY <1>2, <1>3, <1>4, <1>5, <1>6, <1>7

ProcessOK(y) ==
    /\ DOMAIN y = {"call", "todo", "ret", "errs", "got"}
    /\ y.call \in Calls \cup {NoCall} /\ y.call.dev \in Ifaces \cup {NoDev}
    /\ y.todo \in TodoOf(y.call.dev) /\ y.ret \in {"ok", "error"} /\ y.got \in GotRead

Typed ==
    /\ Sane(net) /\ calm \in [Procs -> BOOLEAN] /\ DOMAIN proc = Procs
    /\ \A p \in Procs : ProcessOK(proc[p])

LEMMA InitTyped == Init => Typed
<1> SUFFICES ASSUME Init
             PROVE  Typed
  OBVIOUS
<1>1. Sane(net)
  BY AloneAssumption DEF Init, Sane
<1>2. NothingRead \in GotRead
  <2>1. 0 \in PrefixLength
    BY BitsAssumption DEF PrefixLength
  <2> QED
    BY <2>1, AddressesAre DEF NothingRead, GotRead, FlagSets
<1>3. <<>> \in Seq(StepOf(NoDev)) /\ NoCall.dev = NoDev
  BY DEF NoCall
<1>4. <<>> \in TodoOf(NoDev)
  BY <1>3, TodoIs
<1>5. \A p \in Procs : ProcessOK(proc[p])
  BY <1>2, <1>3, <1>4 DEF Init, IfcInit, ProcessOK
<1> QED
  BY <1>1, <1>5 DEF Init, IfcInit, Typed

\* A process makes a call.
LEMMA CallTyped ==
    ASSUME Typed, NEW p \in Procs, NEW c \in Calls, Begin(p, c)
    PROVE  /\ ProcessOK(proc'[p]) /\ \A q \in Procs : q # p => proc'[q] = proc[q]
           /\ proc'[p].call = c /\ proc'[p].todo = Program(c) /\ net' = net /\ ctl' = ctl
           /\ Program(c) \in Seq(StepOf(c.dev)) /\ DOMAIN proc' = Procs
<1>1. /\ proc'[p] = [call |-> c, todo |-> Program(c), ret |-> "ok", errs |-> {}, got |-> NothingRead]
      /\ \A q \in Procs : q # p => proc'[q] = proc[q]
      /\ net' = net /\ ctl' = ctl /\ DOMAIN proc' = Procs
  BY DEF Begin, Typed
<1>2. NothingRead \in GotRead
  <2>1. 0 \in PrefixLength
    BY BitsAssumption DEF PrefixLength
  <2> QED
    BY <2>1, AddressesAre DEF NothingRead, GotRead, FlagSets
<1>3. c.dev \in Ifaces \cup {NoDev}
  BY CallKinds
<1>4. Program(c) \in Seq(StepOf(c.dev)) /\ Program(c) \in TodoOf(c.dev)
  BY ProgramTyped, TodoIs
<1> QED
  BY <1>1, <1>2, <1>3, <1>4 DEF ProcessOK

LEMMA NothingBefore ==
    ASSUME NEW S, NEW q \in Seq(S)
    PROVE  <<>> \o q = q
OBVIOUS

LEMMA HeadTail ==
    ASSUME NEW S, NEW x \in S, NEW q \in Seq(S)
    PROVE  LET r == <<x>> \o q IN r \in Seq(S) /\ r # <<>> /\ Head(r) = x /\ Tail(r) = q
OBVIOUS

\* A process that goes on: its step succeeds where nothing is wrong, or it fails.
Succeeds(p) == Do(p) /\ Certain(net, ctl[p], Head(proc[p].todo)) = {}
Fails(p, e) == Fail(p, e) /\ e # "ok" /\ e \in Outcomes(net, ctl[p], Head(proc[p].todo))

LEMMA Continues ==
    ASSUME NEW p \in Procs, Continue(p)
    PROVE  /\ proc[p].todo # <<>>
           /\ Succeeds(p) \/ \E e : Fails(p, e)
<1>1. PICK outcome \in Outcomes(net, ctl[p], Head(proc[p].todo)) : Run(p, outcome) /\ ~Idle(p)
  BY DEF Continue
<1>2. "ok" \notin Certain(net, ctl[p], Head(proc[p].todo))
  BY DEF Certain, Wrong
<1>3. outcome = "ok" => Certain(net, ctl[p], Head(proc[p].todo)) = {}
  BY <1>1, <1>2 DEF Outcomes
<1> QED
  BY <1>1, <1>3 DEF Run, Idle, Succeeds, Fails

LEMMA DoTyped ==
    ASSUME Typed, NEW p \in Procs, proc[p].todo # <<>>, Succeeds(p)
    PROVE  LET y == proc[p]
               z == proc'[p]
               s == Head(y.todo)
               i == y.call.dev
           IN  /\ ProcessOK(z) /\ Works(net, net', i) /\ (s.do # "setdns" => net'.dns = net.dns)
               /\ s \in StepNow(i) /\ i \in Ifaces \cup {NoDev}
               /\ net' = Effect(net, y, s) /\ z = [y EXCEPT !.todo = z.todo, !.got = z.got]
               /\ z.got = Reads(net, y.got, s)
               /\ s.do # "getflags" =>
                     Unfolds(net, s) \in Seq(StepOf(i)) /\ Tail(y.todo) \in Seq(StepOf(i))
                     /\ z.todo = Unfolds(net, s) \o Tail(y.todo) /\ z.todo \in Seq(StepOf(i))
               /\ s.do = "getflags" => z.todo # <<>> /\ Head(z.todo) = SetsFlags(s) /\ Tail(z.todo) = Tail(y.todo)
<1> DEFINE y == proc[p]
           z == proc'[p]
           s == Head(y.todo)
           i == y.call.dev
<1>1. ProcessOK(y) /\ Sane(net) /\ DOMAIN proc = Procs
  BY DEF Typed
<1>2. y.todo \in TodoOf(i) /\ i \in Ifaces \cup {NoDev} /\ y.got \in GotRead
  BY <1>1 DEF ProcessOK
<1>3. s \in StepNow(i) /\ Tail(y.todo) \in Seq(StepOf(i))
  BY <1>2, TodoIs
<1>4. Certain(net, ctl[p], s) = {}
  BY DEF Succeeds
<1>5. /\ net' = Effect(net, y, s)
      /\ proc' = [proc EXCEPT ![p].todo = Unfolds(net, s) \o Tail(@), ![p].got = Reads(net, @, s)]
  BY DEF Succeeds, Do
<1>6. /\ z = [y EXCEPT !.todo = Unfolds(net, s) \o Tail(y.todo), !.got = Reads(net, y.got, s)]
  BY <1>1, <1>5
<1> DEFINE rest == Tail(y.todo)
           more == Unfolds(net, s)
<1> HIDE DEF s, y, z
<1>7. y.got.flags \in FlagSets
  BY <1>2 DEF GotRead
<1>8. Works(net, net', i) /\ (s.do # "setdns" => net'.dns = net.dns)
  BY <1>1, <1>2, <1>3, <1>4, <1>5, <1>7, EffectWorks
<1>9. Reads(net, y.got, s) \in GotRead
  BY <1>1, <1>2, <1>3, <1>4, ReadsTyped
<1>10. s.do # "getflags" => more \in Seq(StepOf(i)) /\ more \o rest \in Seq(StepOf(i))
  BY <1>1, <1>2, <1>3, UnfoldsTyped, Joined
<1>11. s.do = "getflags" => /\ more \o rest # <<>> /\ Head(more \o rest) = SetsFlags(s)
                            /\ Tail(more \o rest) = rest /\ more \o rest \in TodoOf(i)
  <2> SUFFICES ASSUME s.do = "getflags"
               PROVE  /\ more \o rest # <<>> /\ Head(more \o rest) = SetsFlags(s)
                      /\ Tail(more \o rest) = rest /\ more \o rest \in TodoOf(i)
    OBVIOUS
  <2>1. more = <<SetsFlags(s)>>
    BY DEF Unfolds, SetsFlags
  <2>2. s \in StepOf(i)
    BY <1>2, <1>3, StepNowParts
  <2>3. SetsFlags(s) \in StepNow(i) /\ StepOf(i) \subseteq StepNow(i)
    BY <2>2 DEF StepNow
  <2>4. rest \in Seq(StepNow(i))
    <3>1. \A n \in DOMAIN rest : rest[n] \in StepNow(i)
      <4> HIDE DEF StepOf, StepNow, rest
      <4>1. rest \in Seq(StepOf(i))
        BY <1>3 DEF rest
      <4> QED
        BY <2>3, <4>1
    <3> HIDE DEF StepOf, StepNow, rest
    <3>2. rest \in Seq(StepOf(i))
      BY <1>3 DEF rest
    <3> QED
      BY <3>1, <3>2
  <2> HIDE DEF more, rest
  <2>5. LET r == <<SetsFlags(s)>> \o rest IN
        r \in Seq(StepNow(i)) /\ r # <<>> /\ Head(r) = SetsFlags(s) /\ Tail(r) = rest
    BY <2>3, <2>4, HeadTail
  <2> QED
    BY <1>3, <2>1, <2>5 DEF TodoOf, rest
<1>12. more \o rest \in TodoOf(i)
  BY <1>10, <1>11, TodoIs
<1> HIDE DEF more, rest
<1>13. z.todo = more \o rest /\ z.got = Reads(net, y.got, s) /\ z.call = y.call /\ z.ret = y.ret /\ DOMAIN z = DOMAIN y
  BY <1>1, <1>6 DEF ProcessOK, more, rest
<1>14. ProcessOK(z)
  BY <1>1, <1>9, <1>12, <1>13 DEF ProcessOK
<1>15. z = [y EXCEPT !.todo = z.todo, !.got = z.got]
  BY <1>6, <1>13 DEF more, rest
<1> QED
  BY <1>2, <1>3, <1>5, <1>8, <1>10, <1>11, <1>13, <1>14, <1>15 DEF y, z, s, more, rest

LEMMA FailTyped ==
    ASSUME Typed, NEW p \in Procs, proc[p].todo # <<>>, NEW e, Fails(p, e)
    PROVE  LET y == proc[p]
               z == proc'[p]
               s == Head(y.todo)
               i == y.call.dev
           IN  /\ ProcessOK(z) /\ net' = net /\ ctl' = ctl /\ z.call = y.call /\ z.got = y.got
               /\ s \in StepNow(i) /\ i \in Ifaces \cup {NoDev}
               /\ Tail(y.todo) \in Seq(StepOf(i)) /\ z.todo \in Seq(StepOf(i))
               /\ z.todo = (IF GoesOn(s, e) THEN Tail(y.todo) ELSE IF s.fail = "return" THEN <<>>
                            ELSE Closes(Tail(y.todo)))
               /\ z.ret = (IF Noted(s, e) THEN "error" ELSE y.ret) /\ z.errs = y.errs \cup {<<s, e>>}
<1> DEFINE y == proc[p]
           z == proc'[p]
           s == Head(y.todo)
           i == y.call.dev
           rest == Tail(y.todo)
<1>1. ProcessOK(y) /\ DOMAIN proc = Procs
  BY DEF Typed
<1>2. y.todo \in TodoOf(i) /\ i \in Ifaces \cup {NoDev} /\ y.todo # <<>>
  BY <1>1 DEF ProcessOK
<1>3. s \in StepNow(i) /\ rest \in Seq(StepOf(i))
  BY <1>2, TodoIs
<1>4. Closes(rest) \in Seq(StepOf(i)) /\ <<>> \in Seq(StepOf(i))
  BY <1>3, ClosesTyped
<1>5. /\ z.todo = (IF GoesOn(s, e) THEN rest ELSE IF s.fail = "return" THEN <<>> ELSE Closes(rest))
      /\ z.ret = (IF Noted(s, e) THEN "error" ELSE y.ret) /\ z.errs = y.errs \cup {<<s, e>>}
      /\ z.call = y.call /\ z.got = y.got /\ DOMAIN z = DOMAIN y /\ net' = net /\ ctl' = ctl
  BY <1>1 DEF Fails, Fail, ProcessOK
<1>6. z.todo \in Seq(StepOf(i)) /\ z.todo \in TodoOf(i)
  BY <1>3, <1>4, <1>5, TodoIs
<1>7. ProcessOK(z)
  BY <1>1, <1>5, <1>6 DEF ProcessOK
<1> QED
  BY <1>2, <1>3, <1>5, <1>6, <1>7

LEMMA OthersWait ==
    ASSUME Typed, NEW p \in Procs, Continue(p)
    PROVE  /\ DOMAIN proc' = Procs /\ \A q \in Procs : q # p => proc'[q] = proc[q]
           /\ \A q \in Procs : calm'[q] = IF q = p THEN calm[q] ELSE Calm(q)
           /\ held' = held
BY DEF Continue, Run, Do, Fail, Typed

LEMMA EventAround ==
    ASSUME Typed, Event
    PROVE  proc' = proc /\ ctl' = ctl /\ Sane(net') /\ held' = held /\ \A q \in Procs : calm'[q] = Calm(q)
<1>1. proc' = proc /\ ctl' = ctl
  BY DEF Event, Unplug, Plug, Capture, Autoconf, Connect, Outside
<1>2. Sane(net')
  BY EventSane DEF Typed
<1> QED
  BY <1>1, <1>2 DEF Event

LEMMA CalmTyped ==
    ASSUME Typed, [Next]_vars
    PROVE  calm' \in [Procs -> BOOLEAN]
<1>1. calm \in [Procs -> BOOLEAN]
  BY DEF Typed
<1>2. \A q \in Procs : Calm(q) \in BOOLEAN
  BY <1>1 DEF Calm
<1>3. CASE Event
  BY <1>2, <1>3 DEF Event
<1>4. ASSUME NEW p \in Procs, Call(p)
      PROVE  calm' \in [Procs -> BOOLEAN]
  BY <1>1, <1>4 DEF Call
<1>5. ASSUME NEW p \in Procs, Continue(p)
      PROVE  calm' \in [Procs -> BOOLEAN]
  BY <1>1, <1>2, <1>5 DEF Continue
<1> QED
  BY <1>1, <1>3, <1>4, <1>5 DEF Next, vars

LEMMA TypedKept ==
    ASSUME Typed, [Next]_vars
    PROVE  Typed'
<1>1. calm' \in [Procs -> BOOLEAN]
  BY CalmTyped
<1>2. CASE UNCHANGED vars
  BY <1>2 DEF vars, Typed
<1>3. CASE Event
  BY <1>1, <1>3, EventAround DEF Typed
<1>4. ASSUME NEW p \in Procs, Call(p)
      PROVE  Typed'
  <2>1. PICK c \in Calls : Begin(p, c)
    BY <1>4 DEF Call
  <2>2. /\ ProcessOK(proc'[p]) /\ \A q \in Procs : q # p => proc'[q] = proc[q]
        /\ net' = net /\ DOMAIN proc' = Procs
    BY <2>1, CallTyped
  <2> QED
    BY <1>1, <2>2 DEF Typed
<1>5. ASSUME NEW p \in Procs, Continue(p)
      PROVE  Typed'
  <2>1. proc[p].todo # <<>> /\ (Succeeds(p) \/ \E e : Fails(p, e))
    BY <1>5, Continues
  <2>2. ProcessOK(proc'[p]) /\ Sane(net')
    BY <2>1, DoTyped, FailTyped DEF Typed, Works
  <2> QED
    BY <1>1, <1>5, <2>2, OthersWait DEF Typed
<1> QED
  BY <1>2, <1>3, <1>4, <1>5 DEF Next

(***************************************************************************)
(* No step touches another interface, or a flag that is not IFF_UP.        *)
(***************************************************************************)

\* Two states of the kernel in which nothing that is not of i differs show the same
\* of every other interface.
LEMMA ElsewhereViews ==
    ASSUME NEW k, NEW g, NEW i, Sane(k), Sane(g), Elsewhere(k, g, i), NEW j \in Ifaces, j # i
    PROVE  View(g, j) = View(k, j)
<1>1. k.routes \in Seq(Route) /\ g.routes \in Seq(Route)
  BY DEF Sane, Kernel
<1> DEFINE rs(q) == {r \in Elements(q) : r.dev = j}
<1>2. \A x : x.dev = j => (x \in Elements(g.routes) <=> x \in Elements(k.routes))
  <2> SUFFICES ASSUME NEW x, x.dev = j
               PROVE  x \in Elements(g.routes) <=> x \in Elements(k.routes)
    OBVIOUS
  <2>1. Ahead(g.routes, x, x) <=> Ahead(k.routes, x, x)
    BY DEF Elsewhere
  <2> QED
    BY <1>1, <2>1, ElementsAreAhead
<1>3. rs(g.routes) = rs(k.routes)
  BY <1>2
<1>4. \A w \in rs(k.routes) \X rs(k.routes) : Ahead(g.routes, w[1], w[2]) <=> Ahead(k.routes, w[1], w[2])
  <2> SUFFICES ASSUME NEW x \in rs(k.routes), NEW y \in rs(k.routes)
               PROVE  Ahead(g.routes, x, y) <=> Ahead(k.routes, x, y)
    OBVIOUS
  <2> QED
    BY DEF Elsewhere
<1>5. RoutesOf(g, j) = RoutesOf(k, j)
  <2>1. /\ RoutesOf(g, j) = {w \in rs(g.routes) \X rs(g.routes) : Ahead(g.routes, w[1], w[2])}
        /\ RoutesOf(k, j) = {w \in rs(k.routes) \X rs(k.routes) : Ahead(k.routes, w[1], w[2])}
    BY DEF RoutesOf
  <2> HIDE DEF rs
  <2> QED
    BY <1>3, <1>4, <2>1
<1> QED
  BY <1>5 DEF View, Elsewhere

LEMMA ViewShows ==
    ASSUME NEW k, NEW g, NEW i, View(k, i) = View(g, i)
    PROVE  /\ k.link[i] = g.link[i] /\ k.dns[i] = g.dns[i] /\ RoutesOf(k, i) = RoutesOf(g, i)
BY DEF View

\* What a step that another process or the kernel takes leaves of the interface of a
\* process, if that was calm and still is.
LEMMA CalmStays ==
    ASSUME Typed, NEW p \in Procs, calm'[p] = Calm(p), calm'[p], Dev(p) \in Ifaces
    PROVE  calm[p] /\ View(net', Dev(p)) = View(net, Dev(p)) /\ net'.conns \subseteq net.conns
BY AloneAssumption DEF Calm, Dev

\* While a process is calm, what ifc_set_flags writes back is what it read.
FlagsAt(p) ==
    calm[p] /\ proc[p].todo # <<>> /\ Head(proc[p].todo).do = "setflags"
       => proc[p].got.flags = net.link[Dev(p)].flags
FlagsInv == \A p \in Procs : FlagsAt(p)

LEMMA WrittenSteps ==
    ASSUME NEW i, NEW q \in Seq(StepOf(i)), q # <<>>
    PROVE  Head(q).do # "setflags"
<1>1. Head(q) \in StepOf(i)
  BY TodoIs
<1>2. "setflags" \notin OfSockets \cup AnyArgs \cup Fussy
  BY DEF OfSockets, AnyArgs, Fussy
<1> HIDE DEF OfSockets, AnyArgs, Fussy
<1> QED
  BY <1>1, <1>2 DEF StepOf

LEMMA FlagsElsewhere ==
    ASSUME Typed, NEW p \in Procs, FlagsAt(p), proc'[p] = proc[p], calm'[p] = Calm(p)
    PROVE  FlagsAt(p)'
<1> SUFFICES ASSUME calm'[p], proc[p].todo # <<>>, Head(proc[p].todo).do = "setflags"
             PROVE  proc[p].got.flags = net'.link[Dev(p)].flags
  BY DEF FlagsAt, Dev
<1>1. Dev(p) \in Ifaces
  <2>1. Dev(p) \in Ifaces \cup {NoDev} /\ Head(proc[p].todo) \in StepNow(Dev(p))
    BY TodoIs DEF Typed, ProcessOK, Dev
  <2> QED
    BY <2>1, StepNowParts DEF OfSockets
<1>2. calm[p] /\ View(net', Dev(p)) = View(net, Dev(p))
  BY <1>1, CalmStays
<1>3. net'.link[Dev(p)] = net.link[Dev(p)]
  BY <1>2, ViewShows
<1> QED
  BY <1>2, <1>3 DEF FlagsAt

LEMMA FlagsKept ==
    ASSUME Typed, FlagsInv, [Next]_vars
    PROVE  FlagsInv'
<1> SUFFICES ASSUME NEW p \in Procs
             PROVE  FlagsAt(p)'
  BY DEF FlagsInv
<1>1. FlagsAt(p)
  BY DEF FlagsInv
<1>2. CASE UNCHANGED vars
  BY <1>1, <1>2 DEF vars, FlagsAt, Dev
<1>3. CASE Event
  BY <1>1, <1>3, EventAround, FlagsElsewhere
<1>4. ASSUME NEW q \in Procs, Call(q)
      PROVE  FlagsAt(p)'
  <2>1. PICK c \in Calls : Begin(q, c)
    BY <1>4 DEF Call
  <2>2. /\ \A r \in Procs : r # q => proc'[r] = proc[r]
        /\ proc'[q].todo = Program(c) /\ net' = net /\ Program(c) \in Seq(StepOf(c.dev))
    BY <2>1, CallTyped
  <2>3. CASE p = q
    BY <2>2, <2>3, WrittenSteps DEF FlagsAt
  <2>4. CASE p # q
    <3>1. calm'[p] = calm[p]
      BY <1>4, <2>4 DEF Call, Typed
    <3> QED
      BY <1>1, <2>2, <2>4, <3>1 DEF FlagsAt, Dev
  <2> QED
    BY <2>3, <2>4
<1>5. ASSUME NEW q \in Procs, Continue(q), q # p
      PROVE  FlagsAt(p)'
  BY <1>1, <1>5, OthersWait, FlagsElsewhere
<1>6. ASSUME Continue(p)
      PROVE  FlagsAt(p)'
  <2>1. proc[p].todo # <<>> /\ (Succeeds(p) \/ \E e : Fails(p, e))
    BY <1>6, Continues
  <2>2. ASSUME NEW e, Fails(p, e)
        PROVE  FlagsAt(p)'
    BY <2>1, <2>2, FailTyped, WrittenSteps DEF FlagsAt
  <2>3. CASE Succeeds(p) /\ Head(proc[p].todo).do # "getflags"
    BY <2>1, <2>3, DoTyped, WrittenSteps DEF FlagsAt
  <2>4. CASE Succeeds(p) /\ Head(proc[p].todo).do = "getflags"
    <3> DEFINE s == Head(proc[p].todo)
    <3>1. /\ net' = Effect(net, proc[p], s) /\ proc'[p].got = Reads(net, proc[p].got, s)
          /\ proc'[p].call = proc[p].call /\ s \in StepNow(Dev(p)) /\ Dev(p) \in Ifaces \cup {NoDev}
      <4>1. proc'[p] = [proc[p] EXCEPT !.todo = proc'[p].todo, !.got = proc'[p].got]
        BY <2>1, <2>4, DoTyped
      <4>2. DOMAIN proc[p] = {"call", "todo", "ret", "errs", "got"}
        BY DEF Typed, ProcessOK
      <4>3. proc'[p].call = proc[p].call
        BY <4>1, <4>2
      <4> QED
        BY <2>1, <2>4, <4>3, DoTyped DEF Dev
    <3>2. net' = net
      BY <2>4, <3>1 DEF Effect
    <3>3. proc[p].got \in GotRead /\ Certain(net, ctl[p], s) = {} /\ Sane(net)
      BY <2>4 DEF Typed, ProcessOK, Succeeds
    <3>4. proc'[p].got.flags = net.link[Dev(p)].flags
      BY <2>4, <3>1, <3>3, ReadsTyped
    <3> QED
      BY <3>1, <3>2, <3>4 DEF FlagsAt, Dev
  <2> QED
    BY <2>1, <2>2, <2>3, <2>4
<1> QED
  BY <1>2, <1>3, <1>4, <1>5, <1>6 DEF Next

LEMMA InitFlags == Init => FlagsInv
BY DEF Init, IfcInit, FlagsInv, FlagsAt

\* What a step does to the interfaces, that of its call and others.
OneInterface(p) ==
    \A i \in Ifaces :
        IF i # Dev(p) THEN View(net', i) = View(net, i)
        ELSE calm[p] => net'.link[i].flags \ {"UP"} = net.link[i].flags \ {"UP"}

LEMMA StepsStayLocal ==
    ASSUME Typed, FlagsInv, NEW p \in Procs, Continue(p)
    PROVE  OneInterface(p)
<1> DEFINE s == Head(proc[p].todo)
<1>1. proc[p].todo # <<>> /\ (Succeeds(p) \/ \E e : Fails(p, e))
  BY Continues
<1>2. ASSUME NEW e, Fails(p, e)
      PROVE  OneInterface(p)
  BY <1>1, <1>2, FailTyped DEF OneInterface
<1>3. CASE Succeeds(p)
  <2>1. /\ Works(net, net', Dev(p)) /\ net' = Effect(net, proc[p], s) /\ s \in StepNow(Dev(p))
        /\ Dev(p) \in Ifaces \cup {NoDev}
    BY <1>1, <1>3, DoTyped DEF Dev
  <2>2. ASSUME NEW i \in Ifaces, i # Dev(p)
        PROVE  View(net', i) = View(net, i)
    BY <2>1, <2>2, ElsewhereViews DEF Works, Typed
  <2>3. ASSUME Dev(p) \in Ifaces, calm[p]
        PROVE  net'.link[Dev(p)].flags \ {"UP"} = net.link[Dev(p)].flags \ {"UP"}
    <3>1. Certain(net, ctl[p], s) = {} /\ Sane(net) /\ proc[p].got.flags \in FlagSets
      BY <1>3 DEF Succeeds, Typed, ProcessOK, GotRead
    <3>2. CASE s.do = "setflags"
      <4>1. net'.link[Dev(p)].flags = NewFlags(proc[p].got.flags, s.p)
        BY <2>1, <3>1, <3>2, EffectWorks
      <4>2. proc[p].got.flags = net.link[Dev(p)].flags
        BY <1>1, <2>3, <3>2 DEF FlagsInv, FlagsAt
      <4> QED
        BY <4>1, <4>2 DEF NewFlags
    <3>3. CASE s.do \in OfSockets
      <4>1. net' = net
        BY <2>1, <3>3 DEF OfSockets, Effect
      <4> QED
        BY <4>1
    <3>4. CASE s.do # "setflags" /\ s.do \notin OfSockets
      <4>1. net'.link[Dev(p)].flags = net.link[Dev(p)].flags
        BY <2>1, <3>1, <3>4, EffectWorks
      <4> QED
        BY <4>1
    <3> QED
      BY <3>2, <3>3, <3>4
  <2> QED
    BY <2>2, <2>3 DEF OneInterface
<1> QED
  BY <1>1, <1>2, <1>3

\* A step touches no other interface than that of its call, and of its flags only
\* IFF_UP: what SIOCGIFFLAGS gave is written back, and while the process is calm that
\* is what is there.  No function of ifc_utils.c names an interface but its argument's.
THEOREM NamesOneInterface == Spec => StaysLocal
<1>1. Typed /\ FlagsInv /\ [Next]_vars
      => [\A p \in Procs : proc'[p] # proc[p] =>
            \A i \in Ifaces :
               IF i # Dev(p) THEN View(net', i) = View(net, i)
               ELSE calm[p] => net'.link[i].flags \ {"UP"} = net.link[i].flags \ {"UP"}]_vars
  <2> SUFFICES ASSUME Typed, FlagsInv, Next, NEW p \in Procs, proc'[p] # proc[p]
               PROVE  OneInterface(p)
    BY DEF OneInterface
  <2>1. CASE Event
    BY <2>1, EventAround
  <2>2. ASSUME NEW q \in Procs, Call(q)
        PROVE  OneInterface(p)
    <3>1. PICK c \in Calls : Begin(q, c)
      BY <2>2 DEF Call
    <3>2. net' = net
      BY <3>1, CallTyped
    <3> QED
      BY <3>2 DEF OneInterface
  <2>3. ASSUME NEW q \in Procs, Continue(q)
        PROVE  OneInterface(p)
    <3>1. p = q
      BY <2>3, OthersWait
    <3> QED
      BY <2>3, <3>1, StepsStayLocal
  <2> QED
    BY <2>1, <2>2, <2>3 DEF Next
<1>2. Init => Typed /\ FlagsInv
  BY InitTyped, InitFlags
<1>3. Typed /\ FlagsInv /\ [Next]_vars => (Typed /\ FlagsInv)'
  BY TypedKept, FlagsKept
<1> QED
  BY <1>1, <1>2, <1>3, PTL DEF Spec, StaysLocal

(***************************************************************************)
(* The descriptors.                                                        *)
(***************************************************************************)

Ctl == [sock : Fds \cup {NoSock}, sock6 : Fds \cup {NoSock}, open : SUBSET Fds, raw : Int]
Accounted(cs) ==
    /\ cs \in Ctl
    /\ cs.open = {cs.sock, cs.sock6} \ {NoSock}
    /\ cs.sock = cs.sock6 => cs.sock = NoSock

\* The lowest free descriptor exists when one of the two sockets is closed.
LEMMA NewFdIsFree ==
    ASSUME NEW cs, Accounted(cs), cs.sock = NoSock \/ cs.sock6 = NoSock
    PROVE  NewFd(cs) \in Fds /\ NewFd(cs) \notin cs.open /\ NewFd(cs) # NoSock
<1> DEFINE free == Fds \ cs.open
<1>1. Fds = {0, 1, 2} /\ NoSock \notin Fds
  BY DEF Fds, NoSock
<1>2. \E f \in free : \A g \in free : f <= g
  <2>1. \E x \in Fds \cup {NoSock} : cs.open = {x} \ {NoSock}
    BY DEF Accounted, Ctl
  <2>2. PICK x \in Fds \cup {NoSock} : cs.open = {x} \ {NoSock}
    BY <2>1
  <2>3. 1 \in Fds /\ 0 \in Fds
    BY <1>1
  <2>4. CASE x = 0
    <3>1. 1 \in free /\ \A g \in free : g = 1 \/ g = 2
      BY <1>1, <2>2, <2>4 DEF NoSock
    <3> HIDE DEF free
    <3> QED
      BY <3>1
  <2>5. CASE x # 0
    <3>1. 0 \in free /\ \A g \in free : g = 0 \/ g = 1 \/ g = 2
      BY <1>1, <2>2, <2>5 DEF NoSock
    <3> HIDE DEF free
    <3> QED
      BY <3>1
  <2> QED
    BY <2>4, <2>5
<1>3. NewFd(cs) \in free
  BY <1>2 DEF NewFd
<1> QED
  BY <1>1, <1>3

LEMMA AccountedBySockets ==
    ASSUME NEW cs, NEW s, Accounted(cs)
    PROVE  Accounted(Sockets(cs, s))
<1>1. CASE s.do = "socket" /\ cs.sock = NoSock
  <2> DEFINE x == Sockets(cs, s)
             fd == NewFd(cs)
  <2>1. x = [cs EXCEPT !.sock = fd, !.open = cs.open \cup {fd}]
    BY <1>1 DEF Sockets
  <2>2. cs \in Ctl /\ cs.open = {cs.sock6} \ {NoSock} /\ cs.sock6 \in Fds \cup {NoSock}
    BY <1>1 DEF Accounted, Ctl
  <2>3. fd \in Fds /\ fd \notin cs.open /\ fd # NoSock
    BY <1>1, NewFdIsFree
  <2> HIDE DEF fd, x
  <2>4. x \in Ctl /\ x.sock = fd /\ x.sock6 = cs.sock6 /\ x.open = cs.open \cup {fd}
    <3>1. x = [sock |-> fd, sock6 |-> cs.sock6, open |-> cs.open \cup {fd}, raw |-> cs.raw]
      BY <2>1, <2>2 DEF Ctl
    <3>2. cs.open \cup {fd} \in SUBSET Fds /\ cs.raw \in Int /\ cs.sock \in Fds \cup {NoSock}
      BY <2>2, <2>3 DEF Ctl
    <3> QED
      BY <2>2, <2>3, <3>1, <3>2 DEF Ctl
  <2>5. Accounted(x)
    BY <2>2, <2>3, <2>4 DEF Accounted
  <2> QED
    BY <2>5 DEF x
<1>2. CASE s.do = "socket6" /\ cs.sock6 = NoSock
  <2> DEFINE x == Sockets(cs, s)
             fd == NewFd(cs)
  <2>1. x = [cs EXCEPT !.sock6 = fd, !.open = cs.open \cup {fd}]
    BY <1>2 DEF Sockets
  <2>2. cs \in Ctl /\ cs.open = {cs.sock} \ {NoSock} /\ cs.sock \in Fds \cup {NoSock}
    BY <1>2 DEF Accounted, Ctl
  <2>3. fd \in Fds /\ fd \notin cs.open /\ fd # NoSock
    BY <1>2, NewFdIsFree
  <2> HIDE DEF fd, x
  <2>4. x \in Ctl /\ x.sock6 = fd /\ x.sock = cs.sock /\ x.open = cs.open \cup {fd}
    <3>1. x = [sock |-> cs.sock, sock6 |-> fd, open |-> cs.open \cup {fd}, raw |-> cs.raw]
      BY <2>1, <2>2 DEF Ctl
    <3>2. cs.open \cup {fd} \in SUBSET Fds /\ cs.raw \in Int /\ cs.sock \in Fds \cup {NoSock}
      BY <2>2, <2>3 DEF Ctl
    <3> QED
      BY <2>2, <2>3, <3>1, <3>2 DEF Ctl
  <2>5. Accounted(x)
    BY <2>2, <2>3, <2>4 DEF Accounted
  <2> QED
    BY <2>5 DEF x
<1>3. CASE s.do = "close"
  <2> DEFINE x == Sockets(cs, s)
  <2>1. x = [cs EXCEPT !.sock = NoSock, !.open = cs.open \ {cs.sock}]
    BY <1>3 DEF Sockets
  <2>2. cs \in Ctl /\ cs.open = {cs.sock, cs.sock6} \ {NoSock}
    BY DEF Accounted
  <2> HIDE DEF x
  <2>3. x \in Ctl /\ x.sock = NoSock /\ x.sock6 = cs.sock6 /\ x.open = cs.open \ {cs.sock}
    <3>1. x = [sock |-> NoSock, sock6 |-> cs.sock6, open |-> cs.open \ {cs.sock}, raw |-> cs.raw]
      BY <2>1, <2>2 DEF Ctl
    <3> QED
      BY <2>2, <3>1 DEF Ctl
  <2>4. x.open = {cs.sock6} \ {NoSock}
    BY <2>2, <2>3 DEF Accounted
  <2>5. Accounted(x)
    BY <2>3, <2>4 DEF Accounted
  <2> QED
    BY <2>5 DEF x
<1>4. CASE s.do = "close6"
  <2> DEFINE x == Sockets(cs, s)
  <2>1. x = [cs EXCEPT !.sock6 = NoSock, !.open = cs.open \ {cs.sock6}]
    BY <1>4 DEF Sockets
  <2>2. cs \in Ctl /\ cs.open = {cs.sock, cs.sock6} \ {NoSock}
    BY DEF Accounted
  <2> HIDE DEF x
  <2>3. x \in Ctl /\ x.sock6 = NoSock /\ x.sock = cs.sock /\ x.open = cs.open \ {cs.sock6}
    <3>1. x = [sock |-> cs.sock, sock6 |-> NoSock, open |-> cs.open \ {cs.sock6}, raw |-> cs.raw]
      BY <2>1, <2>2 DEF Ctl
    <3> QED
      BY <2>2, <3>1 DEF Ctl
  <2>4. x.open = {cs.sock} \ {NoSock}
    BY <2>2, <2>3 DEF Accounted
  <2>5. Accounted(x)
    BY <2>3, <2>4 DEF Accounted
  <2> QED
    BY <2>5 DEF x
<1>5. CASE s.do \in {"rawsocket", "rawclose"}
  <2> DEFINE x == Sockets(cs, s)
             n == IF s.do = "rawsocket" THEN cs.raw + 1 ELSE cs.raw - 1
  <2>1. cs \in Ctl /\ n \in Int
    BY DEF Accounted, Ctl
  <2>2. x = [cs EXCEPT !.raw = n]
    BY <1>5 DEF Sockets
  <2> HIDE DEF n, x
  <2>3. x \in Ctl /\ x.sock = cs.sock /\ x.sock6 = cs.sock6 /\ x.open = cs.open
    BY <2>1, <2>2 DEF Ctl
  <2>4. Accounted(x)
    BY <2>3 DEF Accounted
  <2> QED
    BY <2>4 DEF x
<1>6. CASE /\ ~(s.do = "socket" /\ cs.sock = NoSock) /\ ~(s.do = "socket6" /\ cs.sock6 = NoSock)
           /\ s.do \notin {"close", "close6", "rawsocket", "rawclose"}
  <2>1. Sockets(cs, s) = cs
    BY <1>6 DEF Sockets
  <2> QED
    BY <2>1
<1> QED
  BY <1>1, <1>2, <1>3, <1>4, <1>5, <1>6

AllAccounted ==
    /\ ctl \in [Procs -> Ctl]
    /\ \A p \in Procs : Accounted(ctl[p])

LEMMA InitAccounted == Init => AllAccounted
BY DEF Init, IfcInit, AllAccounted, Accounted, Ctl, NoSock

LEMMA AccountedKept ==
    ASSUME AllAccounted, [Next]_vars
    PROVE  AllAccounted'
<1>1. ASSUME UNCHANGED ctl
      PROVE  AllAccounted'
  BY <1>1 DEF AllAccounted
<1>2. CASE Event
  BY <1>1, <1>2 DEF Event, Unplug, Plug, Capture, Autoconf, Connect, Outside
<1>3. ASSUME NEW p \in Procs, Call(p)
      PROVE  AllAccounted'
  BY <1>1, <1>3 DEF Call, Begin
<1>4. ASSUME NEW p \in Procs, Continue(p)
      PROVE  AllAccounted'
  <2>1. CASE UNCHANGED ctl
    BY <1>1, <2>1
  <2>2. CASE Do(p)
    <3>1. ctl' = [ctl EXCEPT ![p] = Sockets(@, Head(proc[p].todo))]
      BY <2>2 DEF Do
    <3>2. Accounted(Sockets(ctl[p], Head(proc[p].todo)))
      BY AccountedBySockets DEF AllAccounted
    <3>3. ctl \in [Procs -> Ctl] /\ Sockets(ctl[p], Head(proc[p].todo)) \in Ctl
      BY <3>2 DEF AllAccounted, Accounted
    <3> HIDE DEF Ctl
    <3> QED
      BY <3>1, <3>2, <3>3 DEF AllAccounted
  <2> QED
    BY <1>4, <2>1, <2>2 DEF Continue, Run, Fail
<1>5. CASE UNCHANGED vars
  BY <1>1, <1>5 DEF vars
<1> QED
  BY <1>2, <1>3, <1>4, <1>5 DEF Next

\* The two static sockets account for every open descriptor: over nested pairs of
\* ifc_init and ifc_close, over error returns, and however many processes there are.
THEOREM SocketsAreHeld == Spec => []SocketsHeld
<1>1. AllAccounted => SocketsHeld
  BY DEF AllAccounted, Accounted, SocketsHeld
<1> QED
  BY <1>1, InitAccounted, AccountedKept, PTL DEF Spec

(***************************************************************************)
(* What opens a socket closes it: in a program, and over the errors that   *)
(* end it.                                                                 *)
(***************************************************************************)

Has(q, do) == \E n \in DOMAIN q : q[n].do = do
Shuts(q, open, close) == \A m \in DOMAIN q : q[m].do = open => \E n \in DOMAIN q : m < n /\ q[n].do = close
BothShut(q) == Shuts(q, "socket", "close") /\ Shuts(q, "socket6", "close6")

LEMMA JoinedHas ==
    ASSUME NEW T, NEW u \in Seq(T), NEW v \in Seq(T), NEW do
    PROVE  Has(u \o v, do) <=> Has(u, do) \/ Has(v, do)
<1> DEFINE w == u \o v
<1>1. /\ w \in Seq(T) /\ Len(w) = Len(u) + Len(v)
      /\ \A j \in 1 .. Len(u) : w[j] = u[j]
      /\ \A j \in 1 .. Len(v) : w[Len(u) + j] = v[j]
  BY Concat
<1>2. /\ DOMAIN w = 1 .. Len(w) /\ DOMAIN u = 1 .. Len(u) /\ DOMAIN v = 1 .. Len(v)
      /\ Len(u) \in Nat /\ Len(v) \in Nat
  BY <1>1
<1> HIDE DEF w
<1>3. ASSUME NEW n \in DOMAIN w, w[n].do = do
      PROVE  Has(u, do) \/ Has(v, do)
  <2>1. CASE n <= Len(u)
    BY <1>1, <1>2, <1>3, <2>1 DEF Has
  <2>2. CASE ~(n <= Len(u))
    <3>1. n - Len(u) \in DOMAIN v /\ Len(u) + (n - Len(u)) = n
      BY <1>1, <1>2, <2>2
    <3> QED
      BY <1>1, <1>2, <1>3, <3>1 DEF Has
  <2> QED
    BY <2>1, <2>2
<1>4. ASSUME NEW n \in DOMAIN u, u[n].do = do
      PROVE  Has(w, do)
  <2>1. n \in DOMAIN w /\ w[n] = u[n]
    BY <1>1, <1>2
  <2> QED
    BY <1>4, <2>1 DEF Has
<1>5. ASSUME NEW n \in DOMAIN v, v[n].do = do
      PROVE  Has(w, do)
  <2>1. Len(u) + n \in DOMAIN w /\ w[Len(u) + n] = v[n]
    BY <1>1, <1>2
  <2> QED
    BY <1>5, <2>1 DEF Has
<1>6. Has(w, do) => Has(u, do) \/ Has(v, do)
  BY <1>3 DEF Has
<1>7. Has(u, do) \/ Has(v, do) => Has(w, do)
  BY <1>4, <1>5 DEF Has
<1> QED
  BY <1>6, <1>7 DEF w

\* What is open at the end of u is closed in v, or was closed in u.
LEMMA JoinedShuts ==
    ASSUME NEW T, NEW u \in Seq(T), NEW v \in Seq(T), NEW open, NEW close,
           Shuts(v, open, close), Has(v, close) \/ Shuts(u, open, close)
    PROVE  Shuts(u \o v, open, close)
<1> DEFINE w == u \o v
<1>1. /\ w \in Seq(T) /\ Len(w) = Len(u) + Len(v)
      /\ \A j \in 1 .. Len(u) : w[j] = u[j]
      /\ \A j \in 1 .. Len(v) : w[Len(u) + j] = v[j]
  BY Concat
<1>2. /\ DOMAIN w = 1 .. Len(w) /\ DOMAIN u = 1 .. Len(u) /\ DOMAIN v = 1 .. Len(v)
      /\ Len(u) \in Nat /\ Len(v) \in Nat
  BY <1>1
<1> HIDE DEF w
<1>3. \A n \in DOMAIN v : Len(u) + n \in DOMAIN w /\ w[Len(u) + n] = v[n]
  BY <1>1, <1>2
<1>4. \A n \in DOMAIN u : n \in DOMAIN w /\ w[n] = u[n]
  BY <1>1, <1>2
<1>5. ASSUME NEW m \in DOMAIN w, w[m].do = open
      PROVE  \E n \in DOMAIN w : m < n /\ w[n].do = close
  <2>1. CASE m <= Len(u) /\ Has(v, close)
    <3>1. PICK n \in DOMAIN v : v[n].do = close
      BY <2>1 DEF Has
    <3>2. Len(u) + n \in DOMAIN w /\ w[Len(u) + n].do = close
      BY <1>3, <3>1
    <3>3. m < Len(u) + n
      BY <1>1, <1>2, <2>1
    <3> QED
      BY <3>2, <3>3
  <2>2. CASE m <= Len(u) /\ Shuts(u, open, close)
    <3>1. m \in DOMAIN u /\ u[m].do = open
      BY <1>1, <1>2, <1>5, <2>2
    <3>2. PICK n \in DOMAIN u : m < n /\ u[n].do = close
      BY <2>2, <3>1 DEF Shuts
    <3> QED
      BY <1>4, <3>2
  <2>3. CASE ~(m <= Len(u))
    <3> DEFINE j == m - Len(u)
    <3>1. j \in DOMAIN v /\ Len(u) + j = m
      BY <1>1, <1>2, <2>3
    <3>2. v[j].do = open
      BY <1>3, <1>5, <3>1
    <3>3. PICK n \in DOMAIN v : j < n /\ v[n].do = close
      BY <3>1, <3>2 DEF Shuts
    <3>4. m < Len(u) + n
      BY <1>2, <3>1, <3>3
    <3> QED
      BY <1>3, <3>3, <3>4
  <2> QED
    BY <2>1, <2>2, <2>3
<1>6. Shuts(w, open, close)
  BY <1>5 DEF Shuts
<1> QED
  BY <1>6 DEF w

LEMMA JoinedBoth ==
    ASSUME NEW T, NEW u \in Seq(T), NEW v \in Seq(T), BothShut(u), BothShut(v)
    PROVE  BothShut(u \o v)
BY JoinedShuts DEF BothShut

LEMMA LacksShuts ==
    ASSUME NEW q, NEW open, NEW close, ~Has(q, open)
    PROVE  Shuts(q, open, close)
BY DEF Has, Shuts

\* Programs of one step.
LEMMA SingleShuts ==
    ASSUME NEW s, s.do \notin {"socket", "socket6"}
    PROVE  BothShut(<<s>>)
<1>1. DOMAIN <<s>> = {1} /\ <<s>>[1] = s
  OBVIOUS
<1>2. ~Has(<<s>>, "socket") /\ ~Has(<<s>>, "socket6")
  BY <1>1 DEF Has
<1> QED
  BY <1>2, LacksShuts DEF BothShut

LEMMA SocketPrograms ==
    /\ \A do : ifc_init # <<>> /\ (Has(ifc_init, do) <=> do = "socket")
    /\ \A do : Has(ifc_init6, do) <=> do = "socket6"
    /\ \A do : Has(ifc_close, do) <=> do = "close"
    /\ \A do : Has(ifc_close6, do) <=> do = "close6"
<1>1. \A s : DOMAIN <<s>> = {1} /\ <<s>>[1] = s
  OBVIOUS
<1>2. \A do, name : Has(Ioctl(name, NoDev), do) <=> do = name
  BY <1>1 DEF Has, Ioctl, Step
<1> QED
  BY <1>2 DEF ifc_init, ifc_init6, ifc_close, ifc_close6, Ioctl

\* ifc_init, what lies between, and ifc_close.
LEMMA Enclosed ==
    ASSUME NEW i, NEW u \in Seq(StepOf(i)), Shuts(u, "socket6", "close6")
    PROVE  BothShut(u \o ifc_close) /\ Shuts(ifc_init, "socket6", "close6")
           /\ Shuts(ifc_init \o u, "socket6", "close6")
<1>1. ifc_close \in Seq(StepOf(i)) /\ ifc_init \in Seq(StepOf(i))
  BY SocketTyped DEF ifc_close, ifc_init, OfSockets
<1>2. /\ Shuts(ifc_close, "socket", "close") /\ Shuts(ifc_close, "socket6", "close6")
      /\ Shuts(ifc_init, "socket6", "close6")
  BY SocketPrograms, LacksShuts
<1>3. Has(ifc_close, "close")
  BY SocketPrograms
<1> QED
  BY <1>1, <1>2, <1>3, JoinedShuts DEF BothShut

LEMMA Enclosed6 ==
    ASSUME NEW i, NEW u \in Seq(StepOf(i)), Shuts(u, "socket", "close")
    PROVE  BothShut(u \o ifc_close6) /\ Shuts(ifc_init6, "socket", "close")
<1>1. ifc_close6 \in Seq(StepOf(i))
  BY SocketTyped DEF ifc_close6, OfSockets
<1>2. /\ Shuts(ifc_close6, "socket", "close") /\ Shuts(ifc_close6, "socket6", "close6")
      /\ Shuts(ifc_init6, "socket", "close")
  BY SocketPrograms, LacksShuts
<1>3. Has(ifc_close6, "close6")
  BY SocketPrograms
<1> QED
  BY <1>1, <1>2, <1>3, JoinedShuts DEF BothShut

\* The failures of its steps do not matter.
LEMMA FailingShuts ==
    ASSUME NEW i, NEW q \in Seq(StepOf(i)), NEW how \in {"return", "note", "ignore"}
    PROVE  /\ \A do : Has(OnFailure(how, q), do) <=> Has(q, do)
           /\ BothShut(q) => BothShut(OnFailure(how, q))
<1> DEFINE r == OnFailure(how, q)
<1>1. DOMAIN r = DOMAIN q
  BY DEF OnFailure
<1>2. \A n \in DOMAIN q : r[n].do = q[n].do
  <2> SUFFICES ASSUME NEW n \in DOMAIN q
               PROVE  r[n].do = q[n].do
    OBVIOUS
  <2>1. q[n] \in StepOf(i)
    OBVIOUS
  <2>2. DOMAIN q[n] = {"do", "dev", "a", "p", "g", "fail"}
    BY <2>1 DEF StepOf
  <2>3. r[n] = [q[n] EXCEPT !.fail = how]
    BY DEF OnFailure
  <2> QED
    BY <2>2, <2>3
<1> HIDE DEF r
<1>3. BothShut(q) => BothShut(r)
  BY <1>1, <1>2 DEF BothShut, Shuts
<1>4. \A do : Has(r, do) <=> Has(q, do)
  BY <1>1, <1>2 DEF Has
<1> QED
  BY <1>3, <1>4 DEF r

LEMMA PiecesShut ==
    ASSUME NEW i \in Ifaces, NEW a \in V4, NEW p \in Int
    PROVE  /\ BothShut(<<>>) /\ \A do \in AnyArgs : BothShut(Ioctl(do, i))
           /\ BothShut(ifc_up(i)) /\ BothShut(ifc_down(i)) /\ BothShut(ifc_set_addr(i, a))
           /\ BothShut(ifc_set_mask(i, p)) /\ BothShut(ifc_set_prefixLength(i, p))
           /\ BothShut(ClearRound(i, p))
           /\ \A b, n, g : \A do \in AnyArgs \cup Fussy : BothShut(<< Step(do, i, b, n, g) >>)
<1>1. \A b, n, g : \A do \in AnyArgs \cup Fussy : BothShut(<< Step(do, i, b, n, g) >>)
  <2> SUFFICES ASSUME NEW do \in AnyArgs \cup Fussy, NEW b, NEW n, NEW g
               PROVE  BothShut(<< Step(do, i, b, n, g) >>)
    OBVIOUS
  <2>1. Step(do, i, b, n, g).do \notin {"socket", "socket6"}
    BY DEF Step, AnyArgs, Fussy
  <2> QED
    BY <2>1, SingleShuts
<1>2. BothShut(<<>>)
  BY DEF BothShut, Shuts
<1>3. \A do \in AnyArgs : BothShut(Ioctl(do, i))
  BY <1>1 DEF Ioctl
<1>4. /\ BothShut(ifc_up(i)) /\ BothShut(ifc_down(i)) /\ BothShut(ifc_set_addr(i, a))
      /\ BothShut(ifc_set_mask(i, p))
  <2>1. "getflags" \in AnyArgs /\ "setaddr" \in Fussy /\ "setmask" \in AnyArgs
    BY DEF AnyArgs, Fussy
  <2> QED
    BY <1>1, <2>1 DEF ifc_up, ifc_down, ifc_set_flags, ifc_set_addr, ifc_set_mask
<1>5. BothShut(ifc_set_prefixLength(i, p))
  <2>1. "refuse" \in AnyArgs
    BY DEF AnyArgs
  <2> QED
    BY <1>3, <1>4, <2>1 DEF ifc_set_prefixLength
<1>6. BothShut(ClearRound(i, p))
  <2>1. "clear" \in AnyArgs /\ Any4 \in Nat
    BY AddressesAre DEF AnyArgs
  <2>2. Step("clear", i, Any4, p, Any4) \in StepOf(i)
    BY <2>1, StepTyped DEF Fussy
  <2>3. << Step("clear", i, Any4, p, Any4) >> \in Seq(StepOf(i))
    <3> HIDE DEF StepOf
    <3> QED
      BY <2>2
  <2> QED
    BY <1>1, <2>1, <2>3, FailingShuts DEF ClearRound
<1> QED
  BY <1>1, <1>2, <1>3, <1>4, <1>5, <1>6

LEMMA RoutesShut ==
    ASSUME NEW i \in Ifaces, NEW action \in {"addroute", "delroute"}, NEW p \in Int
    PROVE  /\ \A a, g \in V4 : BothShut(ifc_act_on_ipv4_route(action, i, a, p, g))
           /\ \A a, g \in V6 : BothShut(ifc_act_on_ipv6_route(action, i, a, p, g))
           /\ \A a, g : BothShut(ifc_act_on_route(action, i, a, p, g))
<1>1. ASSUME NEW a \in V4, NEW g \in V4
      PROVE  BothShut(ifc_act_on_ipv4_route(action, i, a, p, g))
  <2> DEFINE route == << Step(action, i, a, MaskLength(p), g) >>
  <2>1. ifc_init \in Seq(StepOf(i)) /\ route \in Seq(StepOf(i)) /\ ifc_init \o route \in Seq(StepOf(i))
    BY PiecesTyped, Joined
  <2>2. BothShut(route)
    <3>1. action \in AnyArgs \cup Fussy
      BY DEF AnyArgs, Fussy
    <3> QED
      BY <3>1, PiecesShut
  <2> HIDE DEF route
  <2>3. Shuts(ifc_init \o route, "socket6", "close6")
    BY <2>1, <2>2, Enclosed DEF BothShut
  <2>4. BothShut(ifc_init \o route \o ifc_close)
    BY <2>1, <2>3, Enclosed
  <2> QED
    BY <2>4 DEF ifc_act_on_ipv4_route, route
<1>2. ASSUME NEW a \in V6, NEW g \in V6
      PROVE  BothShut(ifc_act_on_ipv6_route(action, i, a, p, g))
  <2> DEFINE route == << Step(OnSocket6(action), i, a, p, g) >>
             index == Ioctl("getindex6", i)
  <2>1. ifc_init6 \in Seq(StepOf(i)) /\ index \in Seq(StepOf(i)) /\ route \in Seq(StepOf(i))
    <3>1. ifc_init6 \in Seq(StepOf(i)) /\ index \in Seq(StepOf(i))
      BY SocketTyped, IoctlTyped DEF AnyArgs, OfSockets, ifc_init6
    <3>2. Step(OnSocket6(action), i, a, p, g) \in StepOf(i)
      BY AddressesAre, StepTyped DEF OnSocket6, Fussy, AnyArgs
    <3> HIDE DEF StepOf
    <3> QED
      BY <3>1, <3>2
  <2>2. BothShut(route) /\ BothShut(index)
    <3>1. OnSocket6(action) \in AnyArgs \cup Fussy /\ "getindex6" \in AnyArgs
      BY DEF AnyArgs, Fussy, OnSocket6
    <3> QED
      BY <3>1, AddressesAre, PiecesShut
  <2> HIDE DEF route, index
  <2>3. index \o ifc_init6 \in Seq(StepOf(i)) /\ index \o ifc_init6 \o route \in Seq(StepOf(i))
    BY <2>1, Joined
  <2>4. Shuts(ifc_init6, "socket", "close")
    BY <2>1, <2>2, Enclosed6 DEF BothShut
  <2>5. Shuts(index \o ifc_init6, "socket", "close")
    BY <2>1, <2>2, <2>4, JoinedShuts DEF BothShut
  <2>6. Shuts(index \o ifc_init6 \o route, "socket", "close")
    BY <2>1, <2>2, <2>3, <2>5, JoinedShuts DEF BothShut
  <2>7. BothShut(index \o ifc_init6 \o route \o ifc_close6)
    BY <2>3, <2>6, Enclosed6
  <2> QED
    BY <2>7 DEF ifc_act_on_ipv6_route, route, index
<1>3. BothShut(Ioctl("refuse", i))
  BY AddressesAre, PiecesShut DEF AnyArgs
<1> QED
  BY <1>1, <1>2, <1>3 DEF ifc_act_on_route

LEMMA ConfigureShuts ==
    ASSUME NEW i \in Ifaces, NEW a \in V4, NEW p \in Int, NEW g \in V4, NEW dns \in V4 \X V4
    PROVE  /\ BothShut(ifc_configure(i, a, p, g, dns)) /\ BothShut(do_dhcp(i, a, p, g, dns))
           /\ BothShut(ifc_set_default_route(i, g))
<1>1. Any4 \in V4 /\ 0 \in Int
  BY AddressesAre
<1> DEFINE both == << Step("setdns", i, dns[1], 1, Any4), Step("setdns", i, dns[2], 2, Any4) >>
           last == SetDns(i, dns)
           r == ifc_create_default_route(i, g)
           s1 == ifc_init \o ifc_up(i)
           s2 == s1 \o ifc_set_addr(i, a)
           s3 == s2 \o ifc_set_prefixLength(i, p)
           s4 == s3 \o r
<1>2. /\ ifc_init \in Seq(StepOf(i)) /\ ifc_close \in Seq(StepOf(i)) /\ ifc_up(i) \in Seq(StepOf(i))
      /\ ifc_set_addr(i, a) \in Seq(StepOf(i)) /\ ifc_set_addr(i, Any4) \in Seq(StepOf(i))
      /\ ifc_set_prefixLength(i, p) \in Seq(StepOf(i))
  BY <1>1, PiecesTyped, ConfigureTyped
<1>3. r \in Seq(StepOf(i)) /\ BothShut(r)
  BY <1>1, RoutesTyped, RoutesShut DEF ifc_create_default_route
<1>4. last \in Seq(StepOf(i)) /\ BothShut(last)
  <2>1. Step("setdns", i, dns[1], 1, Any4) \in StepOf(i) /\ Step("setdns", i, dns[2], 2, Any4) \in StepOf(i)
    BY <1>1, DnsStepTyped
  <2>2. both \in Seq(StepOf(i))
    <3> HIDE DEF StepOf
    <3> QED
      BY <2>1
  <2>3. \A n \in DOMAIN both : both[n].do = "setdns"
    BY DEF Step
  <2> HIDE DEF both
  <2>4. BothShut(both)
    BY <2>3, LacksShuts DEF Has, BothShut
  <2>5. OnFailure("ignore", both) \in Seq(StepOf(i)) /\ BothShut(OnFailure("ignore", both))
    BY <2>2, <2>4, FailingTyped, FailingShuts
  <2> QED
    BY <2>5 DEF SetDns, both
<1>5. /\ BothShut(ifc_up(i)) /\ BothShut(ifc_set_addr(i, a)) /\ BothShut(ifc_set_addr(i, Any4))
      /\ BothShut(ifc_set_prefixLength(i, p))
  BY <1>1, PiecesShut
<1> HIDE DEF both, last, r
<1>6. s1 \in Seq(StepOf(i)) /\ s2 \in Seq(StepOf(i)) /\ s3 \in Seq(StepOf(i)) /\ s4 \in Seq(StepOf(i))
  BY <1>2, <1>3, Joined
<1>7. Shuts(s4, "socket6", "close6")
  <2>1. Shuts(s1, "socket6", "close6")
    BY <1>2, <1>5, Enclosed DEF BothShut
  <2> HIDE DEF s1
  <2>2. Shuts(s2, "socket6", "close6")
    BY <1>2, <1>5, <1>6, <2>1, JoinedShuts DEF BothShut
  <2> HIDE DEF s2
  <2>3. Shuts(s3, "socket6", "close6")
    BY <1>2, <1>5, <1>6, <2>2, JoinedShuts DEF BothShut
  <2> HIDE DEF s3
  <2> QED
    BY <1>3, <1>5, <1>6, <2>3, JoinedShuts DEF BothShut
<1>8. BothShut(s4 \o ifc_close) /\ s4 \o ifc_close \in Seq(StepOf(i))
  <2> HIDE DEF s4
  <2> QED
    BY <1>2, <1>6, <1>7, Enclosed, Joined
<1>9. BothShut(s4 \o ifc_close \o last)
  <2> HIDE DEF s4
  <2> QED
    BY <1>4, <1>8, JoinedBoth
<1>10. BothShut(ifc_configure(i, a, p, g, dns))
  BY <1>9 DEF ifc_configure, last, r
<1>11. BothShut(do_dhcp(i, a, p, g, dns))
  <2> DEFINE hw == Ioctl("gethwaddr", i)
             ix == Ioctl("getindex", i)
             rs == Ioctl("rawsocket", i)
             ex == Ioctl("exchange", i)
             rc == Ioctl("rawclose", i)
             vd == Ioctl("verdict", i)
             conf == ifc_configure(i, a, p, g, dns)
             t1 == ifc_set_addr(i, Any4) \o ifc_up(i)
             t2 == t1 \o hw
             t3 == t2 \o ix
             t4 == t3 \o rs
             t5 == t4 \o ex
             early == OnFailure("return", t5)
             closing == OnFailure("ignore", rc)
             ending == OnFailure("return", vd)
             u1 == early \o closing
             u2 == u1 \o ending
  <2>1. /\ hw \in Seq(StepOf(i)) /\ ix \in Seq(StepOf(i)) /\ rs \in Seq(StepOf(i)) /\ ex \in Seq(StepOf(i))
        /\ rc \in Seq(StepOf(i)) /\ vd \in Seq(StepOf(i))
        /\ BothShut(hw) /\ BothShut(ix) /\ BothShut(rs) /\ BothShut(ex) /\ BothShut(rc) /\ BothShut(vd)
    BY <1>1, IoctlTyped, PiecesShut DEF AnyArgs
  <2>2. conf \in Seq(StepOf(i))
    BY ConfigureTyped
  <2> HIDE DEF hw, ix, rs, ex, rc, vd, conf
  <2>3. t1 \in Seq(StepOf(i)) /\ BothShut(t1)
    BY <1>2, <1>5, Joined, JoinedBoth
  <2> HIDE DEF t1
  <2>4. t2 \in Seq(StepOf(i)) /\ BothShut(t2)
    BY <2>1, <2>3, Joined, JoinedBoth
  <2> HIDE DEF t2
  <2>5. t3 \in Seq(StepOf(i)) /\ BothShut(t3)
    BY <2>1, <2>4, Joined, JoinedBoth
  <2> HIDE DEF t3
  <2>6. t4 \in Seq(StepOf(i)) /\ BothShut(t4)
    BY <2>1, <2>5, Joined, JoinedBoth
  <2> HIDE DEF t4
  <2>7. t5 \in Seq(StepOf(i)) /\ BothShut(t5)
    BY <2>1, <2>6, Joined, JoinedBoth
  <2> HIDE DEF t5
  <2>8. /\ early \in Seq(StepOf(i)) /\ closing \in Seq(StepOf(i)) /\ ending \in Seq(StepOf(i))
        /\ BothShut(early) /\ BothShut(closing) /\ BothShut(ending)
    BY <2>1, <2>7, FailingTyped, FailingShuts
  <2> HIDE DEF early, closing, ending
  <2>9. u1 \in Seq(StepOf(i)) /\ BothShut(u1)
    BY <2>8, Joined, JoinedBoth
  <2> HIDE DEF u1
  <2>10. u2 \in Seq(StepOf(i)) /\ BothShut(u2)
    BY <2>8, <2>9, Joined, JoinedBoth
  <2> HIDE DEF u2
  <2>11. BothShut(u2 \o conf)
    BY <1>10, <2>2, <2>10, JoinedBoth DEF conf
  <2> QED
    BY <2>11 DEF do_dhcp, open_raw_socket, dhcp_configure, t1, t2, t3, t4, t5, u1, u2, early, closing, ending, hw, ix, rs, ex, rc,
                 vd, conf, ifc_get_hwaddr, ifc_get_ifindex
<1>12. BothShut(ifc_set_default_route(i, g))
  <2>1. Shuts(ifc_init \o r, "socket6", "close6") /\ ifc_init \o r \in Seq(StepOf(i))
    BY <1>2, <1>3, Enclosed, Joined DEF BothShut
  <2>2. BothShut(ifc_init \o r \o ifc_close)
    BY <2>1, Enclosed
  <2> QED
    BY <2>2 DEF ifc_set_default_route, r
<1> QED
  BY <1>10, <1>11, <1>12

\* A function that opens the socket, does its work and closes it.
LEMMA Between ==
    ASSUME NEW i \in Ifaces, NEW u \in Seq(StepOf(i)), BothShut(u)
    PROVE  LET q == ifc_init \o u \o ifc_close IN q \in Seq(StepOf(i)) /\ BothShut(q)
<1>1. ifc_init \in Seq(StepOf(i)) /\ ifc_close \in Seq(StepOf(i))
  BY SocketTyped DEF ifc_init, ifc_close, OfSockets
<1>2. ifc_init \o u \in Seq(StepOf(i)) /\ Shuts(ifc_init \o u, "socket6", "close6")
  BY <1>1, Joined, Enclosed DEF BothShut
<1>3. ifc_init \o u \o ifc_close \in Seq(StepOf(i)) /\ BothShut(ifc_init \o u \o ifc_close)
  BY <1>1, <1>2, Joined, Enclosed
<1> QED
  BY <1>3

LEMMA Associative ==
    ASSUME NEW S, NEW u \in Seq(S), NEW v \in Seq(S), NEW w \in Seq(S)
    PROVE  (u \o v) \o w = u \o (v \o w)
OBVIOUS

LEMMA DisableShuts ==
    ASSUME NEW i \in Ifaces
    PROVE  BothShut(ifc_disable(i)) /\ BothShut(ifc_enable(i)) /\ BothShut(ifc_clear_addresses(i))
<1>1. Any4 \in V4 /\ 0 \in Int /\ CLEAR_MAX \in Int
  BY AddressesAre, IfcAssumption
<1> DEFINE down == OnFailure("note", ifc_down(i))
           none == OnFailure("ignore", ifc_set_addr(i, Any4))
           clear == ClearRound(i, CLEAR_MAX)
<1>2. /\ ifc_init \in Seq(StepOf(i)) /\ ifc_close \in Seq(StepOf(i))
      /\ ifc_up(i) \in Seq(StepOf(i)) /\ BothShut(ifc_up(i))
      /\ clear \in Seq(StepOf(i)) /\ BothShut(clear)
  BY <1>1, PiecesTyped, PiecesShut
<1>3. down \in Seq(StepOf(i)) /\ BothShut(down)
  <2>1. ifc_down(i) \in Seq(StepOf(i)) /\ BothShut(ifc_down(i))
    BY <1>1, PiecesTyped, PiecesShut
  <2> QED
    BY <2>1, FailingTyped, FailingShuts
<1>4. none \in Seq(StepOf(i)) /\ BothShut(none)
  <2>1. ifc_set_addr(i, Any4) \in Seq(StepOf(i)) /\ BothShut(ifc_set_addr(i, Any4))
    BY <1>1, PiecesTyped, PiecesShut
  <2> QED
    BY <2>1, FailingTyped, FailingShuts
<1> HIDE DEF down, none, clear
<1>5. BothShut(ifc_enable(i))
  BY <1>2, Between DEF ifc_enable
<1>6. BothShut(ifc_clear_addresses(i))
  <2>1. ifc_clear_ipv4_addresses(i) \in Seq(StepOf(i)) /\ BothShut(ifc_clear_ipv4_addresses(i))
    BY <1>2, Between DEF ifc_clear_ipv4_addresses, clear
  <2>2. ifc_clear_ipv6_addresses(i) \in Seq(StepOf(i)) /\ BothShut(ifc_clear_ipv6_addresses(i))
    <3>1. "scan6" \in AnyArgs
      BY DEF AnyArgs
    <3> QED
      BY <1>1, <3>1, IoctlTyped, PiecesShut DEF ifc_clear_ipv6_addresses
  <2> QED
    BY <2>1, <2>2, JoinedBoth DEF ifc_clear_addresses
<1>7. BothShut(ifc_disable(i))
  <2>1. down \o none \in Seq(StepOf(i)) /\ BothShut(down \o none)
    BY <1>3, <1>4, Joined, JoinedBoth
  <2>2. down \o none \o clear \in Seq(StepOf(i)) /\ BothShut(down \o none \o clear)
    BY <1>2, <2>1, Joined, JoinedBoth
  <2>3. ifc_init \o down \o none \o clear = ifc_init \o (down \o none \o clear)
    <3>1. ifc_init \o down \o none = ifc_init \o (down \o none)
      <4>1. ifc_init \in Seq(StepOf(i)) /\ down \in Seq(StepOf(i)) /\ none \in Seq(StepOf(i))
        BY <1>2, <1>3, <1>4
      <4> QED
        BY <4>1, Associative
    <3> DEFINE both == down \o none
    <3>2. both \in Seq(StepOf(i))
      BY <2>1
    <3> HIDE DEF both
    <3>3. ifc_init \in Seq(StepOf(i)) /\ clear \in Seq(StepOf(i))
      BY <1>2
    <3>4. ifc_init \o both \o clear = ifc_init \o (both \o clear)
      BY <3>2, <3>3, Associative
    <3> QED
      BY <3>1, <3>4 DEF both
  <2>4. BothShut(ifc_init \o (down \o none \o clear) \o ifc_close)
    BY <2>2, Between
  <2> QED
    BY <2>3, <2>4 DEF ifc_disable, down, none, clear
<1> QED
  BY <1>5, <1>6, <1>7

LEMMA InfoShuts ==
    ASSUME NEW i \in Ifaces, NEW wanted
    PROVE  BothShut(ifc_get_info(i, wanted))
<1> DEFINE part(name, do) == IF name \in wanted THEN Ioctl(do, i) ELSE <<>>
<1>1. ASSUME NEW name, NEW do \in AnyArgs
      PROVE  part(name, do) \in Seq(StepOf(i)) /\ BothShut(part(name, do))
  <2>1. Ioctl(do, i) \in Seq(StepOf(i)) /\ <<>> \in Seq(StepOf(i))
    BY IoctlTyped
  <2>2. BothShut(Ioctl(do, i)) /\ BothShut(<<>>)
    BY AddressesAre, PiecesShut
  <2> QED
    BY <2>1, <2>2
<1>2. "getaddr" \in AnyArgs /\ "getmask" \in AnyArgs /\ "readflags" \in AnyArgs
  BY DEF AnyArgs
<1> HIDE DEF part
<1> DEFINE two == part("addr", "getaddr") \o part("plen", "getmask")
           three == two \o part("flags", "readflags")
<1>3. two \in Seq(StepOf(i)) /\ BothShut(two)
  BY <1>1, <1>2, Joined, JoinedBoth
<1> HIDE DEF two
<1>4. three \in Seq(StepOf(i)) /\ BothShut(three)
  BY <1>1, <1>2, <1>3, Joined, JoinedBoth
<1> HIDE DEF three
<1>5. BothShut(OnFailure("ignore", three))
  BY <1>4, FailingShuts
<1> QED
  BY <1>5 DEF ifc_get_info, part, two, three

LEMMA ResetShuts ==
    ASSUME NEW i \in Ifaces, NEW mask
    PROVE  BothShut(ifc_reset_connections(i, mask))
<1> DEFINE info == IF "IGNORE" \in mask THEN <<>> ELSE ifc_get_info(i, {"addr"})
           kill == OnFailure("note", Ioctl("kill", i))
           kill6 == OnFailure("note", Ioctl("kill6", i))
           four == ifc_init \o info \o kill \o ifc_close
           six == ifc_init6 \o kill6 \o ifc_close6
<1>1. /\ ifc_init \in Seq(StepOf(i)) /\ ifc_close \in Seq(StepOf(i))
      /\ ifc_init6 \in Seq(StepOf(i)) /\ ifc_close6 \in Seq(StepOf(i)) /\ <<>> \in Seq(StepOf(i))
  BY AddressesAre, PiecesTyped
<1>2. kill \in Seq(StepOf(i)) /\ kill6 \in Seq(StepOf(i)) /\ BothShut(kill) /\ BothShut(kill6)
  <2>1. "kill" \in AnyArgs /\ "kill6" \in AnyArgs
    BY DEF AnyArgs
  <2>2. /\ Ioctl("kill", i) \in Seq(StepOf(i)) /\ Ioctl("kill6", i) \in Seq(StepOf(i))
        /\ BothShut(Ioctl("kill", i)) /\ BothShut(Ioctl("kill6", i))
    BY <2>1, AddressesAre, IoctlTyped, PiecesShut
  <2> QED
    BY <2>2, FailingTyped, FailingShuts
<1>3. info \in Seq(StepOf(i)) /\ BothShut(info) /\ BothShut(<<>>)
  BY <1>1, InfoTyped, InfoShuts, AddressesAre, PiecesShut
<1> HIDE DEF info, kill, kill6
<1>4. four \in Seq(StepOf(i)) /\ BothShut(four)
  <2>1. info \o kill \in Seq(StepOf(i)) /\ BothShut(info \o kill)
    BY <1>2, <1>3, Joined, JoinedBoth
  <2>2. ifc_init \o info \o kill = ifc_init \o (info \o kill)
    <3>1. ifc_init \in Seq(StepOf(i)) /\ info \in Seq(StepOf(i)) /\ kill \in Seq(StepOf(i))
      BY <1>1, <1>2, <1>3
    <3> QED
      BY <3>1, Associative
  <2> QED
    BY <2>1, <2>2, Between
<1>5. six \in Seq(StepOf(i)) /\ BothShut(six)
  <2>1. Shuts(ifc_init6, "socket", "close")
    BY <1>2, Enclosed6 DEF BothShut
  <2>2. ifc_init6 \o kill6 \in Seq(StepOf(i)) /\ Shuts(ifc_init6 \o kill6, "socket", "close")
    BY <1>1, <1>2, <2>1, Joined, JoinedShuts DEF BothShut
  <2> QED
    BY <1>1, <2>2, Joined, Enclosed6
<1> HIDE DEF four, six
<1>6. BothShut((IF "IPV4" \notin mask THEN <<>> ELSE four) \o (IF "IPV6" \notin mask THEN <<>> ELSE six))
  BY <1>1, <1>3, <1>4, <1>5, JoinedBoth
<1> QED
  BY <1>6 DEF ifc_reset_connections, four, six, info, kill, kill6

\* Every call but ifc_init closes what it opens.
LEMMA ProgramShuts ==
    ASSUME NEW c \in Calls, c.fn # "ifc_init"
    PROVE  BothShut(Program(c))
<1> DEFINE i == c.dev
<1>1. Any4 \in V4 /\ Any4 \in Nat /\ 0 \in Int /\ Bits \in Int
  BY AddressesAre, BitsAssumption
<1>2. CASE c.fn \in SocketCalls
  <2>1. c.fn = "ifc_close"
    BY <1>2 DEF SocketCalls
  <2>2. ~Has(ifc_close, "socket") /\ ~Has(ifc_close, "socket6")
    BY SocketPrograms
  <2> QED
    BY <2>1, <2>2, LacksShuts DEF Program, BothShut
<1>3. CASE c.fn \in PlainCalls
  <2>1. i \in Ifaces
    BY <1>3, CallKinds DEF PlainCalls, SocketCalls, AddrCalls, Ipv4Calls, Configuring
  <2>2. c.fn \in {"ifc_enable", "ifc_disable", "ifc_clear_addresses"} => BothShut(Program(c))
    BY <2>1, DisableShuts DEF Program
  <2>3. c.fn = "ifc_get_info" => BothShut(Program(c))
    BY <2>1, InfoShuts DEF Program
  <2>4. /\ Ioctl("scandefault", i) \in Seq(StepOf(i))
        /\ BothShut(Ioctl("scanhosts", i)) /\ BothShut(Ioctl("scandefault", i))
    <3>1. "scanhosts" \in AnyArgs /\ "scandefault" \in AnyArgs
      BY DEF AnyArgs
    <3> QED
      BY <1>1, <2>1, <3>1, IoctlTyped, PiecesShut
  <2>5. BothShut(OnFailure("ignore", Ioctl("scandefault", i)))
    BY <2>4, FailingShuts
  <2>6. BothShut(ifc_remove_default_route(i))
    <3> DEFINE route == << Step("delroute", i, Any4, 0, Any4) >>
    <3>1. Step("delroute", i, Any4, 0, Any4) \in StepOf(i) /\ "delroute" \in AnyArgs
      BY <1>1, <2>1, StepTyped DEF AnyArgs
    <3>2. BothShut(route)
      BY <1>1, <2>1, <3>1, PiecesShut
    <3>3. route \in Seq(StepOf(i))
      <4> HIDE DEF StepOf
      <4> QED
        BY <3>1
    <3> HIDE DEF route
    <3>4. BothShut(ifc_init \o route \o ifc_close)
      BY <2>1, <3>2, <3>3, Between
    <3> QED
      BY <3>4 DEF ifc_remove_default_route, route
  <2>7. c.fn \in {"ifc_remove_host_routes", "ifc_get_default_route", "ifc_remove_default_route"}
        => BothShut(Program(c))
    BY <2>4, <2>5, <2>6 DEF Program, ifc_remove_host_routes, ifc_get_default_route
  <2> QED
    BY <1>3, <2>2, <2>3, <2>7 DEF PlainCalls
<1>4. CASE c.fn \in AddrCalls
  <2>1. i \in Ifaces /\ c.a \in Nat /\ c.p \in Int
    BY <1>4, CallKinds DEF PlainCalls, SocketCalls, AddrCalls, Ipv4Calls, Configuring
  <2>2. BothShut(ifc_set_prefixLength(i, c.p))
    BY <1>1, <2>1, PiecesShut
  <2>3. BothShut(ifc_add_route(i, c.a, c.p, c.g)) /\ BothShut(ifc_remove_route(i, c.a, c.p, c.g))
    BY <2>1, RoutesShut DEF ifc_add_route, ifc_remove_route
  <2>4. /\ BothShut(ifc_add_address(i, c.a, c.p)) /\ BothShut(ifc_del_address(i, c.a, c.p))
        /\ BothShut(ifc_set_hwaddr(i, c.a))
    <3>1. /\ {"refuse", "newaddr", "deladdr", "sethwaddr"} \subseteq AnyArgs \cup Fussy
      BY DEF AnyArgs, Fussy
    <3>2. \A b, n, g : \A do \in AnyArgs \cup Fussy : BothShut(<< Step(do, i, b, n, g) >>)
      BY <1>1, <2>1, PiecesShut
    <3> QED
      BY <3>1, <3>2 DEF ifc_add_address, ifc_del_address, ifc_act_on_address, ifc_set_hwaddr
  <2> QED
    BY <1>4, <2>1, <2>2, <2>3, <2>4 DEF AddrCalls, Program
<1>5. CASE c.fn \in Ipv4Calls
  <2>1. i \in Ifaces /\ c.a \in V4 /\ c.p \in Int /\ c.g \in V4
    BY <1>5, CallKinds DEF PlainCalls, SocketCalls, AddrCalls, Ipv4Calls, Configuring
  <2>2. /\ BothShut(ifc_act_on_ipv4_route("addroute", i, c.a, c.p, c.g))
        /\ BothShut(ifc_act_on_ipv4_route("addroute", i, c.a, Bits, Any4))
    BY <1>1, <2>1, RoutesShut
  <2>3. BothShut(ifc_set_default_route(i, c.g))
    <3>1. <<Any4, Any4>> \in V4 \X V4
      BY <1>1
    <3> QED
      BY <1>1, <2>1, <3>1, ConfigureShuts
  <2> QED
    BY <1>5, <2>2, <2>3 DEF Ipv4Calls, Program, ifc_add_host_route, ifc_add_ipv4_route
<1>6. CASE c.fn = "ifc_add_ipv6_route"
  <2>1. i \in Ifaces /\ c.a \in V6 /\ c.p \in Int /\ c.g \in V6
    BY <1>6, CallKinds DEF PlainCalls, SocketCalls, AddrCalls, Ipv4Calls, Configuring
  <2> QED
    BY <1>6, <2>1, RoutesShut DEF Program, ifc_add_ipv6_route
<1>7. CASE c.fn \in Configuring
  <2>1. i \in Ifaces /\ c.a \in V4 /\ c.p \in Int /\ c.g \in V4 /\ c.dns \in V4 \X V4
    BY <1>7, CallKinds DEF PlainCalls, SocketCalls, AddrCalls, Ipv4Calls, Configuring
  <2> QED
    BY <1>7, <2>1, ConfigureShuts DEF Configuring, Program
<1>8. CASE c.fn = "ifc_reset_connections"
  <2>1. i \in Ifaces
    BY <1>8, CallKinds DEF PlainCalls, SocketCalls, AddrCalls, Ipv4Calls, Configuring
  <2> QED
    BY <1>8, <2>1, ResetShuts DEF Program
<1> QED
  BY <1>2, <1>3, <1>4, <1>5, <1>6, <1>7, <1>8, CallKinds

(***************************************************************************)
(* What is left to do closes what is open.                                 *)
(***************************************************************************)

LEMMA HeadHas ==
    ASSUME NEW S, NEW q \in Seq(S), q # <<>>, NEW do
    PROVE  Has(q, do) <=> Head(q).do = do \/ Has(Tail(q), do)
<1>1. /\ 1 \in DOMAIN q /\ Head(q) = q[1]
      /\ \A n \in DOMAIN q : n = 1 \/ (n - 1 \in DOMAIN Tail(q) /\ Tail(q)[n - 1] = q[n])
      /\ \A n \in DOMAIN Tail(q) : n + 1 \in DOMAIN q /\ Tail(q)[n] = q[n + 1]
  OBVIOUS
<1>2. Has(q, do) => Head(q).do = do \/ Has(Tail(q), do)
  BY <1>1 DEF Has
<1>3. Head(q).do = do \/ Has(Tail(q), do) => Has(q, do)
  BY <1>1 DEF Has
<1> QED
  BY <1>2, <1>3

LEMMA HeadShuts ==
    ASSUME NEW S, NEW q \in Seq(S), q # <<>>, NEW open, NEW close
    PROVE  Shuts(q, open, close) <=>
             Shuts(Tail(q), open, close) /\ (Head(q).do = open => Has(Tail(q), close))
<1> DEFINE t == Tail(q)
<1>1. /\ 1 \in DOMAIN q /\ Head(q) = q[1]
      /\ \A n \in DOMAIN q : n = 1 \/ (n - 1 \in DOMAIN t /\ t[n - 1] = q[n])
      /\ \A n \in DOMAIN t : n + 1 \in DOMAIN q /\ t[n] = q[n + 1]
      /\ DOMAIN q \subseteq Nat \ {0} /\ DOMAIN t \subseteq Nat \ {0}
  OBVIOUS
<1> HIDE DEF t
<1>2. ASSUME Shuts(q, open, close)
      PROVE  Shuts(t, open, close) /\ (Head(q).do = open => Has(t, close))
  <2>1. ASSUME NEW m \in DOMAIN t, t[m].do = open
        PROVE  \E n \in DOMAIN t : m < n /\ t[n].do = close
    <3>1. m + 1 \in DOMAIN q /\ q[m + 1].do = open
      BY <1>1, <2>1
    <3>2. PICK n \in DOMAIN q : m + 1 < n /\ q[n].do = close
      BY <1>2, <3>1 DEF Shuts
    <3>3. n # 1 /\ m < n - 1
      BY <1>1, <3>2
    <3> QED
      BY <1>1, <3>2, <3>3
  <2>2. ASSUME Head(q).do = open
        PROVE  Has(t, close)
    <3>1. PICK n \in DOMAIN q : 1 < n /\ q[n].do = close
      BY <1>1, <1>2, <2>2 DEF Shuts
    <3>2. n - 1 \in DOMAIN t /\ t[n - 1] = q[n]
      BY <1>1, <3>1
    <3> QED
      BY <3>1, <3>2 DEF Has
  <2> QED
    BY <2>1, <2>2 DEF Shuts
<1>3. ASSUME Shuts(t, open, close), Head(q).do = open => Has(t, close)
      PROVE  Shuts(q, open, close)
  <2>1. ASSUME NEW m \in DOMAIN q, q[m].do = open
        PROVE  \E n \in DOMAIN q : m < n /\ q[n].do = close
    <3>1. CASE m = 1
      <4>1. PICK n \in DOMAIN t : t[n].do = close
        BY <1>1, <1>3, <2>1, <3>1 DEF Has
      <4>2. n + 1 \in DOMAIN q /\ q[n + 1].do = close /\ m < n + 1
        BY <1>1, <3>1, <4>1
      <4> QED
        BY <4>2
    <3>2. CASE m # 1
      <4>1. m - 1 \in DOMAIN t /\ t[m - 1].do = open
        BY <1>1, <2>1, <3>2
      <4>2. PICK n \in DOMAIN t : m - 1 < n /\ t[n].do = close
        BY <1>3, <4>1 DEF Shuts
      <4>3. n + 1 \in DOMAIN q /\ q[n + 1].do = close /\ m < n + 1
        BY <1>1, <2>1, <4>2
      <4> QED
        BY <4>3
    <3> QED
      BY <3>1, <3>2
  <2> QED
    BY <2>1 DEF Shuts
<1> QED
  BY <1>2, <1>3 DEF t

\* What a process still has to do closes the socket, unless it was open before.
Closed(q, sock, close, before) == sock \in before \cup {NoSock} \/ Has(q, close)
ClosesAll(q, cs, before) ==
    BothShut(q) /\ Closed(q, cs.sock, "close", before) /\ Closed(q, cs.sock6, "close6", before)

LEMMA ReadsShut ==
    ASSUME NEW k, Sane(k), NEW i \in Ifaces, NEW p \in Nat
    PROVE  BothShut(ReadAddresses(k, i, p)) /\ BothShut(ReadRoutes(k, i, p))
<1> DEFINE b6 == Block(Lines6(k, i), p)
           b4 == Block(Lines4(k), p)
           as == AddressDeletions(b6, i)
           rs == RouteDeletions(b4, i)
<1>1. as \in Seq(StepOf(i)) /\ rs \in Seq(StepOf(i)) /\ Len(b6) \in Nat /\ Len(b4) \in Nat
  BY DeletionsTyped
<1>2. BothShut(as) /\ BothShut(rs)
  BY LacksShuts DEF BothShut, Has, AddressDeletions, RouteDeletions, Step
<1> HIDE DEF b6, b4, as, rs
<1>3. /\ OnFailure("note", as) \in Seq(StepOf(i)) /\ BothShut(OnFailure("note", as))
      /\ OnFailure("ignore", rs) \in Seq(StepOf(i)) /\ BothShut(OnFailure("ignore", rs))
  BY <1>1, <1>2, FailingTyped, FailingShuts
<1>4. ASSUME NEW do \in {"readaddrs", "readroutes"}, NEW n \in Nat
      PROVE  ThenRead(do, i, p, n) \in Seq(StepOf(i)) /\ BothShut(ThenRead(do, i, p, n))
  <2> DEFINE q == << Step(do, i, Any4, p + n, Any4) >>
  <2>1. Step(do, i, Any4, p + n, Any4) \in StepOf(i) /\ do \in AnyArgs
    <3>1. do \in AnyArgs /\ p + n \in Nat /\ p + n \in Int /\ Any4 \in Nat
      BY AddressesAre DEF AnyArgs
    <3> QED
      BY <3>1, StepTyped
  <2>2. q \in Seq(StepOf(i))
    <3> HIDE DEF StepOf
    <3> QED
      BY <2>1
  <2>3. BothShut(q) /\ BothShut(<<>>)
    <3>1. Any4 \in V4 /\ 0 \in Int
      BY AddressesAre
    <3> QED
      BY <2>1, <3>1, PiecesShut
  <2> HIDE DEF q
  <2>4. BothShut(OnFailure("ignore", q))
    BY <2>2, <2>3, FailingShuts
  <2>5. BothShut(ThenRead(do, i, p, n))
    BY <2>3, <2>4 DEF ThenRead, q
  <2> QED
    BY <2>5, ReadsOn
<1>5. /\ BothShut(OnFailure("note", as) \o ThenRead("readaddrs", i, p, Len(b6)))
      /\ BothShut(OnFailure("ignore", rs) \o ThenRead("readroutes", i, p, Len(b4)))
  BY <1>1, <1>3, <1>4, JoinedBoth
<1> QED
  BY <1>5 DEF ReadAddresses, ReadRoutes, b6, b4, as, rs

LEMMA UnfoldsShut ==
    ASSUME NEW k, Sane(k), NEW i \in Ifaces \cup {NoDev}, NEW s \in StepNow(i), s.do # "getflags"
    PROVE  BothShut(Unfolds(k, s))
<1>1. Any4 \in V4 /\ 0 \in Int
  BY AddressesAre
<1>2. CASE s.do = "clear"
  <2>1. i \in Ifaces /\ s.dev = i /\ s.p - 1 \in Int
    BY <1>2, StepNowParts DEF OfSockets
  <2>2. /\ ifc_set_addr(i, Any4) \in Seq(StepOf(i)) /\ ClearRound(i, s.p - 1) \in Seq(StepOf(i))
        /\ BothShut(ifc_set_addr(i, Any4)) /\ BothShut(ClearRound(i, s.p - 1)) /\ BothShut(<<>>)
    BY <1>1, <2>1, PiecesTyped, PiecesShut
  <2>3. <<>> \in Seq(StepOf(i))
    OBVIOUS
  <2>4. /\ OnFailure("ignore", ifc_set_addr(i, Any4)) \in Seq(StepOf(i))
        /\ BothShut(OnFailure("ignore", ifc_set_addr(i, Any4)))
    BY <2>2, FailingTyped, FailingShuts
  <2>5. /\ (IF s.p > 1 THEN ClearRound(i, s.p - 1) ELSE <<>>) \in Seq(StepOf(i))
        /\ BothShut(IF s.p > 1 THEN ClearRound(i, s.p - 1) ELSE <<>>)
    BY <2>2, <2>3
  <2> QED
    BY <1>2, <2>1, <2>4, <2>5, JoinedBoth DEF Unfolds
<1>3. CASE s.do \in {"scan6", "readaddrs", "readroutes", "scanhosts", "scandefault"}
  <2>1. i \in Ifaces /\ s.dev = i /\ (s.do \in {"scan6", "readaddrs", "readroutes"} => s.p \in Nat)
    BY <1>3, StepNowParts DEF OfSockets, Fits
  <2>4. ASSUME NEW p \in Nat
        PROVE  /\ ReadRoutes(k, i, p) \in Seq(StepOf(i))
               /\ BothShut(ReadAddresses(k, i, p)) /\ BothShut(ReadRoutes(k, i, p))
    BY <2>1, ReadsShut, ReadsAreTyped
  <2>5. BothShut(ifc_init \o ReadRoutes(k, i, 0) \o ifc_close)
    BY <2>1, <2>4, Between
  <2>6. BothShut(ifc_init \o ifc_close)
    <3>1. Shuts(ifc_init, "socket6", "close6")
      BY SocketPrograms, LacksShuts
    <3>2. ifc_init \in Seq(StepOf(i))
      BY SocketTyped DEF ifc_init, OfSockets
    <3> QED
      BY <3>1, <3>2, Enclosed
  <2> QED
    BY <1>3, <2>1, <2>4, <2>5, <2>6 DEF Unfolds
<1>4. CASE s.do \notin {"clear", "scan6", "readaddrs", "readroutes", "scanhosts", "scandefault"}
  BY <1>4, LacksShuts DEF Unfolds, Has, BothShut
<1> QED
  BY <1>2, <1>3, <1>4

\* The program that an error ends is left with its closes.
LEMMA ClosesShut ==
    ASSUME NEW i, NEW q \in Seq(StepOf(i))
    PROVE  BothShut(Closes(q)) /\ \A do \in {"close", "close6"} : Has(Closes(q), do) <=> Has(q, do)
<1>1. Elements(Closes(q)) = {s \in Elements(q) : s.do \in {"close", "close6"}}
  BY ClosesTyped
<1>2. \A r, do : Has(r, do) <=> \E s \in Elements(r) : s.do = do
  BY DEF Has, Elements
<1>3. ~Has(Closes(q), "socket") /\ ~Has(Closes(q), "socket6")
  BY <1>1, <1>2
<1>4. \A do \in {"close", "close6"} : Has(Closes(q), do) <=> Has(q, do)
  BY <1>1, <1>2
<1> QED
  BY <1>3, <1>4, LacksShuts DEF BothShut

\* A step takes what it does to the sockets off what is left to do.
LEMMA StepClosesAll ==
    ASSUME NEW S, NEW q \in Seq(S), q # <<>>, NEW cs, NEW before, cs \in Ctl, ClosesAll(q, cs, before)
    PROVE  ClosesAll(Tail(q), Sockets(cs, Head(q)), before)
<1> DEFINE s == Head(q)
           t == Tail(q)
           cs1 == Sockets(cs, s)
<1>1. /\ \A do : Has(q, do) <=> s.do = do \/ Has(t, do)
      /\ BothShut(q) /\ BothShut(t)
      /\ s.do = "socket" => Has(t, "close")
      /\ s.do = "socket6" => Has(t, "close6")
  BY HeadHas, HeadShuts DEF ClosesAll, BothShut
<1>2. /\ s.do # "socket" => cs1.sock = cs.sock \/ cs1.sock = NoSock
      /\ s.do # "socket6" => cs1.sock6 = cs.sock6 \/ cs1.sock6 = NoSock
      /\ s.do = "close" => cs1.sock = NoSock
      /\ s.do = "close6" => cs1.sock6 = NoSock
  BY DEF Sockets, Ctl
<1> HIDE DEF s, t, cs1
<1>3. Closed(t, cs1.sock, "close", before)
  BY <1>1, <1>2 DEF ClosesAll, Closed
<1>4. Closed(t, cs1.sock6, "close6", before)
  BY <1>1, <1>2 DEF ClosesAll, Closed
<1> QED
  BY <1>1, <1>3, <1>4 DEF ClosesAll, s, t, cs1

(***************************************************************************)
(* What can happen to a process in a step: it begins a call, it goes on,   *)
(* or others do something.  These leave what it sees of its interface, if  *)
(* it stays calm.                                                          *)
(***************************************************************************)

Begins(p) ==
    \E c \in Calls :
        /\ proc'[p] = [call |-> c, todo |-> Program(c), ret |-> "ok", errs |-> {}, got |-> NothingRead]
        /\ net' = net /\ ctl' = ctl /\ held'[p] = [open |-> ctl[p].open, raw |-> ctl[p].raw]
GoesFurther(p) ==
    /\ calm'[p] = calm[p] /\ held'[p] = held[p] /\ proc[p].todo # <<>>
    /\ Succeeds(p) \/ \E e : Fails(p, e)
Waits(p) ==
    /\ proc'[p] = proc[p] /\ ctl'[p] = ctl[p] /\ held'[p] = held[p] /\ (calm'[p] => calm[p])
    /\ calm'[p] /\ Dev(p) \in Ifaces =>
          View(net', Dev(p)) = View(net, Dev(p)) /\ net'.conns \subseteq net.conns

LEMMA HeldStays ==
    ASSUME DOMAIN held = Procs, [Next]_vars
    PROVE  DOMAIN held' = Procs
BY DEF Next, Event, Call, Continue, vars

LEMMA StepOfProcess ==
    ASSUME Typed, AllAccounted, DOMAIN held = Procs, [Next]_vars, NEW p \in Procs
    PROVE  Begins(p) \/ GoesFurther(p) \/ Waits(p)
<1>1. CASE UNCHANGED vars
  BY <1>1 DEF vars, Waits
<1>2. ASSUME proc'[p] = proc[p], ctl'[p] = ctl[p], held'[p] = held[p], calm'[p] = Calm(p)
      PROVE  Waits(p)
  <2>1. calm'[p] => calm[p]
    BY <1>2 DEF Calm
  <2> QED
    BY <1>2, <2>1, CalmStays DEF Waits
<1>3. CASE Event
  BY <1>2, <1>3, EventAround
<1>4. ASSUME NEW q \in Procs, Call(q), q # p
      PROVE  Waits(p)
  <2>1. PICK c \in Calls : Begin(q, c)
    BY <1>4 DEF Call
  <2>2. proc'[p] = proc[p] /\ ctl' = ctl /\ net' = net
    BY <1>4, <2>1, CallTyped
  <2>3. calm'[p] = calm[p] /\ held'[p] = held[p]
    BY <1>4 DEF Call, Typed
  <2> QED
    BY <2>2, <2>3 DEF Waits
<1>5. ASSUME Call(p)
      PROVE  Begins(p)
  <2>1. PICK c \in Calls : Begin(p, c)
    BY <1>5 DEF Call
  <2>2. ctl' = ctl /\ net' = net
    BY <2>1, CallTyped
  <2>3. proc'[p] = [call |-> c, todo |-> Program(c), ret |-> "ok", errs |-> {}, got |-> NothingRead]
    BY <2>1 DEF Begin, Typed
  <2>4. held'[p] = [open |-> ctl[p].open, raw |-> ctl[p].raw]
    BY <1>5 DEF Call
  <2> QED
    BY <2>2, <2>3, <2>4 DEF Begins
<1>6. ASSUME NEW q \in Procs, Continue(q), q # p
      PROVE  Waits(p)
  <2>1. ctl'[p] = ctl[p]
    BY <1>6 DEF Continue, Run, Do, Fail, AllAccounted
  <2> QED
    BY <1>2, <1>6, <2>1, OthersWait
<1>7. ASSUME Continue(p)
      PROVE  GoesFurther(p)
  BY <1>7, Continues, OthersWait DEF GoesFurther
<1> QED
  BY <1>1, <1>3, <1>4, <1>5, <1>6, <1>7 DEF Next

LEMMA DoParts ==
    ASSUME Typed, NEW p \in Procs, proc[p].todo # <<>>, Succeeds(p)
    PROVE  LET y == proc[p]
               z == proc'[p]
           IN  z.call = y.call /\ z.ret = y.ret /\ z.errs = y.errs /\ (NoFault(p)' <=> NoFault(p))
<1>1. proc'[p] = [proc[p] EXCEPT !.todo = proc'[p].todo, !.got = proc'[p].got]
  BY DoTyped
<1>2. DOMAIN proc[p] = {"call", "todo", "ret", "errs", "got"}
  BY DEF Typed, ProcessOK
<1> QED
  BY <1>1, <1>2 DEF NoFault

\* What a step that succeeds leaves of a call, unless it is SIOCGIFFLAGS.
LEMMA Did ==
    ASSUME Typed, AllAccounted, NEW p \in Procs, proc[p].todo # <<>>, Succeeds(p),
           Head(proc[p].todo).do # "getflags"
    PROVE  LET y == proc[p]
               z == proc'[p]
               s == Head(y.todo)
           IN  /\ z.todo = Unfolds(net, s) \o Tail(y.todo) /\ z.got = Reads(net, y.got, s)
               /\ Unfolds(net, s) = <<>> => z.todo = Tail(y.todo)
               /\ net' = Effect(net, y, s) /\ ctl'[p] = Sockets(ctl[p], s) /\ z.call = y.call
<1> DEFINE y == proc[p]
           z == proc'[p]
           s == Head(y.todo)
<1>1. /\ z.got = Reads(net, y.got, s)
      /\ z.todo = Unfolds(net, s) \o Tail(y.todo) /\ Tail(y.todo) \in Seq(StepOf(y.call.dev))
      /\ net' = Effect(net, y, s)
  BY DoTyped
<1>2. ctl'[p] = Sockets(ctl[p], s)
  BY DEF Succeeds, Do, AllAccounted
<1>3. Unfolds(net, s) = <<>> => z.todo = Tail(y.todo)
  BY <1>1, NothingBefore
<1>4. z.call = y.call
  BY DoParts
<1> QED
  BY <1>1, <1>2, <1>3, <1>4

\* A step that fails, in a call that met no error but those it was bound to meet.
LEMMA MetForCause ==
    ASSUME Typed, NEW p \in Procs, proc[p].todo # <<>>, NEW e, Fails(p, e), NoFault(p)'
    PROVE  LET y == proc[p]
               s == Head(y.todo)
           IN  /\ NoFault(p) /\ e \in Certain(net, ctl[p], s)
               /\ s.do \notin {"socket", "socket6", "close", "close6", "setdns"}
<1> DEFINE s == Head(proc[p].todo)
<1>1. proc'[p].errs = proc[p].errs \cup {<<s, e>>}
  BY FailTyped
<1>2. NoFault(p) /\ e # "EIO" /\ e # "ok" /\ e \in Outcomes(net, ctl[p], s)
  <2>1. <<s, e>>[2] = e /\ <<s, e>> \in proc'[p].errs
    BY <1>1
  <2> QED
    BY <1>1, <2>1 DEF NoFault, Fails
<1>3. e \in Certain(net, ctl[p], s)
  BY <1>2 DEF Outcomes
<1>4. s.do \in {"socket", "socket6", "close", "close6", "setdns"} => Certain(net, ctl[p], s) = {}
  BY DEF Certain, OnSock, OnSock6, OfDevice
<1> QED
  BY <1>2, <1>3, <1>4

\* What the steps on the sockets do to them.
LEMMA SocketOpens ==
    ASSUME NEW cs, Accounted(cs), NEW s
    PROVE  LET new == Sockets(cs, s) IN
           /\ s.do = "socket" => new.sock # NoSock /\ new.sock6 = cs.sock6
           /\ s.do = "socket6" => new.sock6 # NoSock /\ new.sock = cs.sock
           /\ s.do \notin OfSockets \cup {"rawsocket", "rawclose"} => new = cs
<1>1. cs \in Ctl
  BY DEF Accounted
<1>2. cs.sock = NoSock \/ cs.sock6 = NoSock => NewFd(cs) # NoSock
  BY NewFdIsFree
<1>3. ASSUME s.do = "socket"
      PROVE  Sockets(cs, s).sock # NoSock /\ Sockets(cs, s).sock6 = cs.sock6
  <2>1. CASE cs.sock = NoSock
    <3>1. Sockets(cs, s) = [cs EXCEPT !.sock = NewFd(cs), !.open = @ \cup {NewFd(cs)}]
      BY <1>3, <2>1 DEF Sockets
    <3> QED
      BY <1>1, <1>2, <2>1, <3>1 DEF Ctl
  <2>2. CASE cs.sock # NoSock
    BY <1>3, <2>2 DEF Sockets
  <2> QED
    BY <2>1, <2>2
<1>4. ASSUME s.do = "socket6"
      PROVE  Sockets(cs, s).sock6 # NoSock /\ Sockets(cs, s).sock = cs.sock
  <2>1. CASE cs.sock6 = NoSock
    <3>1. Sockets(cs, s) = [cs EXCEPT !.sock6 = NewFd(cs), !.open = @ \cup {NewFd(cs)}]
      BY <1>4, <2>1 DEF Sockets
    <3> QED
      BY <1>1, <1>2, <2>1, <3>1 DEF Ctl
  <2>2. CASE cs.sock6 # NoSock
    BY <1>4, <2>2 DEF Sockets
  <2> QED
    BY <2>1, <2>2
<1>5. s.do \notin OfSockets \cup {"rawsocket", "rawclose"} => Sockets(cs, s) = cs
  BY DEF Sockets, OfSockets
<1> QED
  BY <1>3, <1>4, <1>5

(***************************************************************************)
(* ifc_reset_connections.  What is left of it opens the socket, reads the  *)
(* address, kills the connections, and has then nothing more to do with    *)
(* IPv4.                                                                   *)
(***************************************************************************)

Resets(c) == c.fn = "ifc_reset_connections" /\ c.mask \cap {"IPV4", "IGNORE"} = {"IPV4"}

StepsOf(dos) == [do : dos, dev : Ifaces \cup {NoDev}, a : {Any4}, p : {0}, g : {Any4},
                 fail : {"abort", "note", "ignore"}]
Quiet == StepsOf({"close", "socket6", "kill6", "close6"})
ResetStep == StepsOf({"close", "socket6", "kill6", "close6", "kill", "getaddr", "socket"})

Kills(todo) == todo # <<>> /\ Head(todo).do = "kill" /\ Head(todo).fail = "note" /\ Tail(todo) \in Seq(Quiet)
ReadsAddr(todo, i) ==
    /\ todo # <<>> /\ Head(todo).do = "getaddr" /\ Head(todo).dev = i /\ Head(todo).fail = "ignore"
    /\ Kills(Tail(todo))
OpensFirst(todo, i) == todo # <<>> /\ Head(todo).do = "socket" /\ ReadsAddr(Tail(todo), i)

\* What an undisturbed reset that could read the address knows at each of its steps.
ResetAt(y, k) ==
    LET i == y.call.dev
        addrs == k.link[i].addrs
    IN  /\ i \in Ifaces /\ y.todo \in Seq(ResetStep)
        /\ \/ OpensFirst(y.todo, i)
           \/ ReadsAddr(y.todo, i)
           \/ Kills(y.todo) /\ (addrs = <<>> \/ y.got.addr = Head(addrs))
           \/ y.todo \in Seq(Quiet) /\ (addrs = <<>> \/ Head(addrs) \notin k.conns)

Resetting(p) == Resets(proc[p].call) /\ calm[p] /\ ~Failed(p, "getaddr") /\ proc[p].ret = "ok"
ResetInv == \A p \in Procs : Resetting(p) => ResetAt(proc[p], net)

LEMMA StepsAre ==
    /\ Quiet \subseteq ResetStep
    /\ \A s \in ResetStep : s.do \in {"close", "socket6", "kill6", "close6", "kill", "getaddr", "socket"}
    /\ \A s \in Quiet : s.do \in {"close", "socket6", "kill6", "close6"}
BY DEF Quiet, ResetStep, StepsOf

\* The program of a reset that looks at the address of its interface.
LEMMA ResetProgram ==
    ASSUME NEW c, Resets(c), c.dev \in Ifaces
    PROVE  Program(c) \in Seq(ResetStep) /\ OpensFirst(Program(c), c.dev)
<1> DEFINE i == c.dev
           step(do, dev, fail) == [do |-> do, dev |-> dev, a |-> Any4, p |-> 0, g |-> Any4, fail |-> fail]
           socket == step("socket", NoDev, "abort")
           get == step("getaddr", i, "ignore")
           kill == step("kill", i, "note")
           close == step("close", NoDev, "abort")
           socket6 == step("socket6", NoDev, "abort")
           kill6 == step("kill6", i, "note")
           close6 == step("close6", NoDev, "abort")
           six == IF "IPV6" \notin c.mask THEN <<>> ELSE <<socket6>> \o <<kill6>> \o <<close6>>
<1>1. /\ close \in Quiet /\ six \in Seq(Quiet)
      /\ socket \in ResetStep /\ get \in ResetStep /\ kill \in ResetStep
  <2>1. {close, socket6, kill6, close6} \subseteq Quiet
    BY DEF Quiet, StepsOf
  <2>2. {socket, get, kill} \subseteq ResetStep
    BY DEF ResetStep, StepsOf
  <2> HIDE DEF close, socket6, kill6, close6, socket, get, kill
  <2>3. <<socket6>> \o <<kill6>> \o <<close6>> \in Seq(Quiet)
    BY <2>1
  <2> QED
    BY <2>1, <2>2, <2>3
<1>2. "IPV4" \in c.mask /\ "IGNORE" \notin c.mask
  BY DEF Resets
<1>3. Program(c) = ifc_reset_connections(i, c.mask)
  BY DEF Resets, Program
<1>4. OnFailure("note", << Step("kill", i, Any4, 0, Any4) >>) = <<kill>>
  BY DEF OnFailure, Step
<1>5. OnFailure("note", << Step("kill6", i, Any4, 0, Any4) >>) = <<kill6>>
  BY DEF OnFailure, Step
<1>6. ifc_get_info(i, {"addr"}) = <<get>>
  BY DEF OnFailure, ifc_get_info, Ioctl, Step
<1>7. Program(c) = (<<socket>> \o <<get>> \o <<kill>> \o <<close>>) \o six
  BY <1>2, <1>3, <1>4, <1>5, <1>6
  DEF ifc_reset_connections, ifc_init, ifc_init6, ifc_close, ifc_close6, Ioctl, Step
<1>8. /\ socket.do = "socket" /\ get.do = "getaddr" /\ get.dev = i /\ get.fail = "ignore"
      /\ kill.do = "kill" /\ kill.fail = "note"
  OBVIOUS
<1> HIDE DEF socket, get, kill, close, six
<1> DEFINE t3 == <<close>> \o six
           t2 == <<kill>> \o t3
           t1 == <<get>> \o t2
           t0 == <<socket>> \o t1
<1>9. close \in ResetStep /\ six \in Seq(ResetStep)
  BY <1>1, StepsAre
<1>10. t3 \in Seq(Quiet)
  BY <1>1, HeadTail
<1>11. t3 \in Seq(ResetStep)
  BY <1>9, HeadTail
<1>12. t2 \in Seq(ResetStep) /\ t2 # <<>> /\ Head(t2) = kill /\ Tail(t2) = t3
  <2> HIDE DEF t3
  <2> QED
    BY <1>1, <1>11, HeadTail
<1>13. t1 \in Seq(ResetStep) /\ t1 # <<>> /\ Head(t1) = get /\ Tail(t1) = t2
  <2> HIDE DEF t2
  <2> QED
    BY <1>1, <1>12, HeadTail
<1>14. t0 \in Seq(ResetStep) /\ t0 # <<>> /\ Head(t0) = socket /\ Tail(t0) = t1
  <2> HIDE DEF t1
  <2> QED
    BY <1>1, <1>13, HeadTail
<1>15. Program(c) = t0
  BY <1>1, <1>7, <1>9
<1> HIDE DEF t0, t1, t2, t3
<1> QED
  BY <1>8, <1>10, <1>12, <1>13, <1>14, <1>15 DEF OpensFirst, ReadsAddr, Kills

LEMMA SeqParts ==
    ASSUME NEW S, NEW q \in Seq(S), q # <<>>
    PROVE  Head(q) \in S /\ Tail(q) \in Seq(S)
OBVIOUS

LEMMA InitReset == Init => ResetInv
BY DEF Init, IfcInit, ResetInv, Resetting, Resets, NoCall

\* A step of a reset that fails while the result stays that of success.
LEMMA ResetFails ==
    ASSUME Typed, NEW p \in Procs, ResetAt(proc[p], net), proc[p].todo # <<>>,
           NEW e, Fails(p, e), ~Failed(p, "getaddr")', proc'[p].ret = "ok"
    PROVE  ResetAt(proc'[p], net')
<1> DEFINE y == proc[p]
           z == proc'[p]
           s == Head(y.todo)
           i == y.call.dev
           addrs == net.link[i].addrs
<1>1. /\ z.todo = (IF GoesOn(s, e) THEN Tail(y.todo) ELSE IF s.fail = "return" THEN <<>>
                   ELSE Closes(Tail(y.todo)))
      /\ z.ret = (IF Noted(s, e) THEN "error" ELSE y.ret) /\ z.call = y.call
      /\ net' = net /\ z.got = y.got /\ z.errs = y.errs \cup {<<s, e>>}
  BY FailTyped
<1>2. ~Noted(s, e) /\ s.fail # "note" /\ z.todo = Tail(y.todo)
  BY <1>1 DEF Noted
<1>3. i \in Ifaces /\ y.todo \in Seq(ResetStep) /\ y.todo # <<>>
  BY DEF ResetAt
<1>4. Head(y.todo) \in ResetStep /\ z.todo \in Seq(ResetStep)
  BY <1>2, <1>3, SeqParts
<1>5. s.do # "getaddr"
  <2>1. <<s, e>>[1] = s /\ <<s, e>> \in z.errs
    BY <1>1
  <2> QED
    BY <2>1 DEF Failed
<1>6. CASE OpensFirst(y.todo, i)
  <2>1. ReadsAddr(z.todo, i)
    BY <1>2, <1>6 DEF OpensFirst
  <2> QED
    BY <1>1, <1>3, <1>4, <2>1 DEF ResetAt
<1>7. CASE y.todo \in Seq(Quiet) /\ (addrs = <<>> \/ Head(addrs) \notin net.conns)
  <2>1. z.todo \in Seq(Quiet)
    BY <1>2, <1>3, <1>7, SeqParts
  <2> QED
    BY <1>1, <1>3, <1>4, <1>7, <2>1 DEF ResetAt
<1> QED
  BY <1>2, <1>5, <1>6, <1>7 DEF ResetAt, ReadsAddr, Kills

LEMMA ResetDoes ==
    ASSUME Typed, AllAccounted, NEW p \in Procs, ResetAt(proc[p], net), proc[p].todo # <<>>,
           Succeeds(p)
    PROVE  ResetAt(proc'[p], net')
<1> DEFINE y == proc[p]
           z == proc'[p]
           s == Head(y.todo)
           i == y.call.dev
           addrs == net.link[i].addrs
<1>1. i \in Ifaces /\ y.todo \in Seq(ResetStep) /\ y.todo # <<>>
  BY DEF ResetAt
<1>2. s \in ResetStep /\ Tail(y.todo) \in Seq(ResetStep)
  BY <1>1, SeqParts
<1>3. s.do \in {"close", "socket6", "kill6", "close6", "kill", "getaddr", "socket"}
  BY <1>2, StepsAre
<1>4. Unfolds(net, s) = <<>>
  BY <1>3 DEF Unfolds
<1>5. /\ z.todo = Tail(y.todo) /\ z.got = Reads(net, y.got, s) /\ z.call = y.call
      /\ net' = Effect(net, y, s)
  BY <1>3, <1>4, Did
<1>6. s.do # "kill" => net' = net
  BY <1>3, <1>5 DEF Effect
<1>8. CASE OpensFirst(y.todo, i)
  <2>1. s.do = "socket" /\ ReadsAddr(z.todo, i)
    BY <1>5, <1>8 DEF OpensFirst
  <2> QED
    BY <1>1, <1>2, <1>5, <2>1 DEF ResetAt
<1>9. CASE ReadsAddr(y.todo, i)
  <2>1. s.do = "getaddr" /\ s.dev = i /\ Kills(z.todo)
    BY <1>5, <1>9 DEF ReadsAddr
  <2>3. z.got.addr = Head(addrs)
    <3>1. y.got \in GotRead
      BY DEF Typed, ProcessOK
    <3> QED
      BY <1>5, <2>1, <3>1 DEF Reads, GotRead
  <2>4. net' = net
    BY <1>6, <2>1
  <2> QED
    BY <1>1, <1>2, <1>5, <2>1, <2>3, <2>4 DEF ResetAt
<1>10. CASE Kills(y.todo) /\ (addrs = <<>> \/ y.got.addr = Head(addrs))
  <2>1. s.do = "kill" /\ z.todo \in Seq(Quiet)
    BY <1>5, <1>10 DEF Kills
  <2>2. net' = KillAddr(net, y.got.addr)
    BY <1>5, <2>1 DEF Effect
  <2>3. net.conns \subseteq Addrs /\ Any4 \notin Addrs /\ net \in Kernel
    BY AddressesAre DEF Typed, Sane, Kernel
  <2>4. /\ net'.link = net.link
        /\ y.got.addr = Any4 => net'.conns \subseteq net.conns
        /\ y.got.addr # Any4 => net'.conns = net.conns \ {y.got.addr}
    BY <2>2, <2>3 DEF KillAddr, Kernel
  <2>5. y.got.addr \notin net'.conns
    BY <2>3, <2>4
  <2> QED
    BY <1>1, <1>2, <1>5, <1>10, <2>1, <2>4, <2>5 DEF ResetAt
<1>11. CASE y.todo \in Seq(Quiet) /\ (addrs = <<>> \/ Head(addrs) \notin net.conns)
  <2>1. z.todo \in Seq(Quiet) /\ s \in Quiet
    BY <1>1, <1>5, <1>11, SeqParts
  <2>2. net' = net
    BY <1>6, <2>1, StepsAre
  <2> QED
    BY <1>1, <1>2, <1>5, <1>11, <2>1, <2>2 DEF ResetAt
<1> QED
  BY <1>8, <1>9, <1>10, <1>11 DEF ResetAt

LEMMA ResetKept ==
    ASSUME Typed, AllAccounted, DOMAIN held = Procs, ResetInv, [Next]_vars
    PROVE  ResetInv'
<1> SUFFICES ASSUME NEW p \in Procs, Resetting(p)'
             PROVE  ResetAt(proc'[p], net')
  BY DEF ResetInv
<1>1. Resetting(p) => ResetAt(proc[p], net)
  BY DEF ResetInv
<1>2. CASE Waits(p)
  <2>1. proc'[p] = proc[p] /\ ctl'[p] = ctl[p] /\ calm[p]
    BY <1>2 DEF Waits, Resetting
  <2>2. ResetAt(proc[p], net)
    BY <1>1, <2>1 DEF Resetting, Failed
  <2>3. View(net', Dev(p)) = View(net, Dev(p)) /\ net'.conns \subseteq net.conns
    BY <1>2, <2>2 DEF Waits, ResetAt, Dev, Resetting
  <2>4. net'.link[Dev(p)] = net.link[Dev(p)]
    BY <2>3, ViewShows
  <2> QED
    BY <2>1, <2>2, <2>3, <2>4 DEF ResetAt, Dev
<1>3. CASE Begins(p)
  <2>1. PICK c \in Calls : proc'[p].call = c /\ proc'[p].todo = Program(c)
    BY <1>3 DEF Begins
  <2>2. Resets(c) /\ c.dev \in Ifaces
    BY <2>1, CallKinds
    DEF Resetting, Resets, PlainCalls, SocketCalls, AddrCalls, Ipv4Calls, Configuring
  <2> QED
    BY <2>1, <2>2, ResetProgram DEF ResetAt
<1>4. ASSUME calm'[p] = calm[p], proc[p].todo # <<>>, NEW e, Fails(p, e)
      PROVE  ResetAt(proc'[p], net')
  <2>1. ~Failed(p, "getaddr") /\ proc'[p].call = proc[p].call /\ proc[p].ret = "ok"
    <3>1. /\ proc'[p].call = proc[p].call /\ proc[p].errs \subseteq proc'[p].errs
          /\ proc'[p].ret = (IF Noted(Head(proc[p].todo), e) THEN "error" ELSE proc[p].ret)
      BY <1>4, FailTyped
    <3> QED
      BY <3>1 DEF Resetting, Failed
  <2> QED
    BY <1>1, <1>4, <2>1, ResetFails DEF Resetting
<1>5. ASSUME calm'[p] = calm[p], proc[p].todo # <<>>, Succeeds(p)
      PROVE  ResetAt(proc'[p], net')
  <2>1. proc'[p].call = proc[p].call /\ proc'[p].ret = proc[p].ret /\ proc'[p].errs = proc[p].errs
    BY <1>5, DoParts
  <2> QED
    BY <1>1, <1>5, <2>1, ResetDoes DEF Resetting, Failed
<1> QED
  BY <1>2, <1>3, <1>4, <1>5, StepOfProcess DEF GoesFurther

\* ifc_reset_connections that reports success has closed every connection from the
\* address that the interface had and still has, unless it could not read the
\* address, whatever else failed: between the reading and the kill nothing changed
\* the address, and no connection from it was made since.
THEOREM ConnectionsAreReset == Spec => []ResetKillsConnections
<1> DEFINE Inv == Typed /\ AllAccounted /\ DOMAIN held = Procs /\ ResetInv
<1>1. Init => Inv
  BY InitTyped, InitAccounted, InitReset DEF Init
<1>2. Inv /\ [Next]_vars => Inv'
  BY TypedKept, AccountedKept, HeldStays, ResetKept
<1>3. Inv => ResetKillsConnections
  <2> SUFFICES ASSUME Inv, NEW p \in Procs, Returned(p, {"ifc_reset_connections"}),
                      ~Failed(p, "getaddr"), proc[p].ret = "ok", proc[p].call.mask \cap {"IPV4", "IGNORE"} = {"IPV4"}
               PROVE  net.link[Dev(p)].addrs = <<>> \/ Head(net.link[Dev(p)].addrs) \notin net.conns
    BY DEF ResetKillsConnections
  <2>1. ResetAt(proc[p], net) /\ proc[p].todo = <<>>
    BY DEF ResetInv, Resetting, Resets, Returned, Idle
  <2> QED
    BY <2>1 DEF ResetAt, OpensFirst, ReadsAddr, Kills, Dev
<1> HIDE DEF Inv
<1>4. Spec => []Inv
  BY <1>1, <1>2, PTL DEF Spec
<1> QED
  BY <1>3, <1>4, PTL

(***************************************************************************)
(* Adding a route.                                                         *)
(***************************************************************************)

\* The length that the kernel makes of the netmask that is made of a length.
LEMMA LengthIsReadBack ==
    ASSUME NEW p \in PrefixLength
    PROVE  MaskLength(p) = p
<1> DEFINE m == prefixLengthToIpv4Netmask(p)
           N == {n \in 1 .. Bits : \A j \in 1 .. n : m[j]}
<1>1. Bits \in Nat /\ p \in Nat /\ p <= Bits
  BY BitsAssumption DEF PrefixLength
<1>2. ASSUME NEW j \in 1 .. Bits
      PROVE  m[j] <=> j <= p
  <2>1. m[j] = (p \in 1 .. Bits /\ j <= p)
    BY Zenon DEF prefixLengthToIpv4Netmask
  <2>2. (p \in 1 .. Bits /\ j <= p) <=> j <= p
    BY <1>1
  <2> QED
    BY <2>1, <2>2, Zenon
<1> HIDE DEF m
<1>3. ASSUME NEW n \in N
      PROVE  n \in 1 .. p
  <2>1. n \in 1 .. Bits /\ n \in 1 .. n
    BY <1>1
  <2>2. m[n]
    BY <2>1
  <2> QED
    BY <1>1, <1>2, <2>1, <2>2
<1>4. ASSUME NEW n \in 1 .. p
      PROVE  n \in N
  <2>1. n \in 1 .. Bits /\ \A j \in 1 .. n : j \in 1 .. Bits /\ j <= p
    BY <1>1
  <2> QED
    BY <1>2, <2>1
<1>5. N = 1 .. p
  BY <1>3, <1>4
<1>6. Cardinality(1 .. p) = p
  BY <1>1, FS_Interval
<1> QED
  BY <1>5, <1>6 DEF MaskLength, ipv4NetmaskToPrefixLength, m

Lasts(q) == \A m \in DOMAIN q : q[m].do \in {"close", "close6"}
Openers == {"socket", "socket6", "getindex6"}

\* The n-th step adds route r; only the sockets are opened before, and closed after it.
AsksAt(q, n, r, cs) ==
    /\ n \in DOMAIN q /\ AddsRoute(q[n]) /\ RouteOf(q[n]) = r
    /\ \A m \in DOMAIN q : /\ m <= n => q[m].fail = "abort"
                           /\ m < n => q[m].do \in Openers
                           /\ m > n => q[m].do \in {"close", "close6"}
    /\ q[n].do = "addroute" =>
          r.dst \in V4 /\ (cs.sock # NoSock \/ \E m \in DOMAIN q : m < n /\ q[m].do = "socket")
    /\ q[n].do = "addroute6" =>
          /\ r.dst \in V6 /\ r.plen \in 0 .. 128
          /\ cs.sock6 # NoSock \/ \E m \in DOMAIN q : m < n /\ q[m].do = "socket6"

Refuses(q) == q # <<>> /\ Head(q).do = "refuse" /\ Head(q).fail = "abort" /\ Tail(q) = <<>>

\* A call that adds a route has yet to ask for it, or has its result.
RouteAt(y, cs, k) ==
    LET r == Asked(y.call) IN
    /\ y.call.dev \in Ifaces /\ r.dev = y.call.dev /\ y.todo \in Seq(StepOf(y.call.dev))
    /\ \/ y.ret = "ok" /\ \E n \in Nat : AsksAt(y.todo, n, r, cs)
       \/ y.ret = "ok" /\ Refuses(y.todo) /\ r \notin Route
       \/ Lasts(y.todo) /\ (y.ret = "ok" <=> HasRoute(k, r))

RouteCalls == {"ifc_set_default_route", "ifc_add_host_route", "ifc_add_route"}
Routing(p) == proc[p].call.fn \in RouteCalls /\ calm[p] /\ NoFault(p)
RouteInv == \A p \in Procs : Routing(p) => RouteAt(proc[p], ctl[p], net)

\* ifc_act_on_ipv4_route and ifc_act_on_ipv6_route.
LEMMA AsksIpv4 ==
    ASSUME NEW i \in Ifaces, NEW a \in V4, NEW p \in PrefixLength, NEW g \in V4, NEW cs
    PROVE  AsksAt(ifc_act_on_ipv4_route("addroute", i, a, p, g), 2,
                  [dev |-> i, dst |-> a, plen |-> p, gw |-> g], cs)
<1> DEFINE s == Step("addroute", i, a, p, g)
           o == Step("socket", NoDev, Any4, 0, Any4)
           c == Step("close", NoDev, Any4, 0, Any4)
           S == {s, o, c}
           q == <<o>> \o <<s>> \o <<c>>
<1>1. /\ s.do = "addroute" /\ s.dev = i /\ s.a = a /\ s.p = p /\ s.g = g /\ s.fail = "abort"
      /\ o.do = "socket" /\ o.fail = "abort" /\ c.do = "close"
  BY DEF Step
<1>2. ifc_act_on_ipv4_route("addroute", i, a, p, g) = q
  BY LengthIsReadBack DEF ifc_act_on_ipv4_route, ifc_init, ifc_close, Ioctl
<1> HIDE DEF s, o, c
<1>3. DOMAIN q = 1 .. 3 /\ q[1] = o /\ q[2] = s /\ q[3] = c
  OBVIOUS
<1> HIDE DEF q
<1>4. RouteOf(q[2]) = [dev |-> i, dst |-> a, plen |-> p, gw |-> g]
  BY <1>1, <1>3 DEF RouteOf
<1>5. AsksAt(q, 2, [dev |-> i, dst |-> a, plen |-> p, gw |-> g], cs)
  BY <1>1, <1>3, <1>4 DEF AsksAt, AddsRoute, Openers
<1> QED
  BY <1>2, <1>5

LEMMA AsksIpv6 ==
    ASSUME NEW i \in Ifaces, NEW a \in V6, NEW p \in 0 .. 128, NEW g \in V6, NEW cs
    PROVE  AsksAt(ifc_act_on_ipv6_route("addroute", i, a, p, g), 3,
                  [dev |-> i, dst |-> a, plen |-> p, gw |-> g], cs)
<1> DEFINE s == Step("addroute6", i, a, p, g)
           x == Step("getindex6", i, Any4, 0, Any4)
           o == Step("socket6", NoDev, Any4, 0, Any4)
           c == Step("close6", NoDev, Any4, 0, Any4)
           q == <<x>> \o <<o>> \o <<s>> \o <<c>>
<1>1. /\ s.do = "addroute6" /\ s.dev = i /\ s.a = a /\ s.p = p /\ s.g = g /\ s.fail = "abort"
      /\ x.do = "getindex6" /\ x.fail = "abort"
      /\ o.do = "socket6" /\ o.fail = "abort" /\ c.do = "close6"
  BY DEF Step
<1>2. ifc_act_on_ipv6_route("addroute", i, a, p, g) = q
  BY DEF ifc_act_on_ipv6_route, ifc_init6, ifc_close6, Ioctl, OnSocket6
<1> HIDE DEF s, x, o, c
<1>3. DOMAIN q = 1 .. 4 /\ q[1] = x /\ q[2] = o /\ q[3] = s /\ q[4] = c
  OBVIOUS
<1> HIDE DEF q
<1>4. RouteOf(q[3]) = [dev |-> i, dst |-> a, plen |-> p, gw |-> g]
  BY <1>1, <1>3 DEF RouteOf
<1>5. AsksAt(q, 3, [dev |-> i, dst |-> a, plen |-> p, gw |-> g], cs)
  BY <1>1, <1>3, <1>4 DEF AsksAt, AddsRoute, Openers
<1> QED
  BY <1>2, <1>5

\* The same within another pair of ifc_init and ifc_close.
LEMMA AsksWithin ==
    ASSUME NEW i, NEW q \in Seq(StepOf(i)), NEW n \in Nat, NEW r, NEW cs, AsksAt(q, n, r, cs)
    PROVE  AsksAt(ifc_init \o q \o ifc_close, n + 1, r, cs)
<1> DEFINE o == Step("socket", NoDev, Any4, 0, Any4)
           c == Step("close", NoDev, Any4, 0, Any4)
           v == ifc_init \o q
           w == v \o ifc_close
<1>1. o.do = "socket" /\ o.fail = "abort" /\ c.do = "close"
  BY DEF Step
<1>2. /\ ifc_init \in Seq(StepOf(i)) /\ Len(ifc_init) = 1 /\ ifc_init[1] = o
      /\ ifc_close \in Seq(StepOf(i)) /\ Len(ifc_close) = 1 /\ ifc_close[1] = c
  <2>1. ifc_init \in Seq(StepOf(i)) /\ ifc_close \in Seq(StepOf(i))
    BY SocketTyped DEF ifc_init, ifc_close, OfSockets
  <2> QED
    BY <2>1 DEF ifc_init, ifc_close, Ioctl
<1> HIDE DEF o, c
<1> HIDE DEF v, w
<1>3. /\ v \in Seq(StepOf(i)) /\ Len(v) = 1 + Len(q)
      /\ \A j \in 1 .. 1 : v[j] = ifc_init[j]
      /\ \A j \in 1 .. Len(q) : v[1 + j] = q[j]
  <2>1. /\ v \in Seq(StepOf(i)) /\ Len(v) = Len(ifc_init) + Len(q)
        /\ \A j \in 1 .. Len(ifc_init) : v[j] = ifc_init[j]
        /\ \A j \in 1 .. Len(q) : v[Len(ifc_init) + j] = q[j]
    <3>1. ifc_init \in Seq(StepOf(i)) /\ q \in Seq(StepOf(i))
      BY <1>2
    <3> QED
      BY <3>1, Concat DEF v
  <2> QED
    BY <1>2, <2>1
<1>4. v[1] = o
  BY <1>2, <1>3
<1>5. /\ w \in Seq(StepOf(i)) /\ Len(w) = Len(v) + 1
      /\ \A j \in 1 .. Len(v) : w[j] = v[j]
      /\ \A j \in 1 .. 1 : w[Len(v) + j] = ifc_close[j]
  <2>1. /\ w \in Seq(StepOf(i)) /\ Len(w) = Len(v) + Len(ifc_close)
        /\ \A j \in 1 .. Len(v) : w[j] = v[j]
        /\ \A j \in 1 .. Len(ifc_close) : w[Len(v) + j] = ifc_close[j]
    <3>1. v \in Seq(StepOf(i)) /\ ifc_close \in Seq(StepOf(i))
      BY <1>2, <1>3
    <3> QED
      BY <3>1, Concat DEF w
  <2> QED
    BY <1>2, <2>1
<1>6. DOMAIN w = 1 .. Len(q) + 2 /\ DOMAIN q = 1 .. Len(q) /\ Len(q) \in Nat
  BY <1>3, <1>5
<1>7. w[1] = o /\ w[Len(q) + 2] = c /\ \A j \in 1 .. Len(q) : w[1 + j] = q[j]
  BY <1>2, <1>3, <1>4, <1>5, <1>6
<1>8. \A m \in DOMAIN w : m = 1 \/ m = Len(q) + 2 \/ (m - 1 \in DOMAIN q /\ w[m] = q[m - 1])
  BY <1>6, <1>7
<1>9. n \in DOMAIN q /\ n + 1 \in DOMAIN w /\ w[n + 1] = q[n]
  BY <1>6, <1>7 DEF AsksAt
<1>10. ASSUME NEW m \in DOMAIN w
       PROVE  /\ m <= n + 1 => w[m].fail = "abort"
              /\ m < n + 1 => w[m].do \in Openers
              /\ m > n + 1 => w[m].do \in {"close", "close6"}
  <2>1. CASE m = 1
    BY <1>1, <1>6, <1>7, <1>9, <2>1 DEF Openers
  <2>2. CASE m = Len(q) + 2
    BY <1>1, <1>6, <1>7, <1>9, <2>2
  <2>3. CASE m - 1 \in DOMAIN q /\ w[m] = q[m - 1]
    <3>1. /\ m - 1 <= n => w[m].fail = "abort"
          /\ m - 1 < n => w[m].do \in Openers
          /\ m - 1 > n => w[m].do \in {"close", "close6"}
      BY <2>3 DEF AsksAt
    <3> QED
      BY <1>6, <3>1
  <2> QED
    BY <1>8, <2>1, <2>2, <2>3
<1>11. \A do : (\E m \in DOMAIN q : m < n /\ q[m].do = do) => \E m \in DOMAIN w : m < n + 1 /\ w[m].do = do
  <2> SUFFICES ASSUME NEW m \in DOMAIN q, m < n
               PROVE  m + 1 \in DOMAIN w /\ m + 1 < n + 1 /\ w[m + 1] = q[m]
    BY Zenon
  <2> QED
    BY <1>6, <1>7
<1>12. AsksAt(w, n + 1, r, cs)
  BY <1>9, <1>10, <1>11 DEF AsksAt
<1> QED
  BY <1>12 DEF w, v

\* The program of a call that adds a route.
LEMMA RouteProgram ==
    ASSUME NEW c \in Calls, c.fn \in RouteCalls, NEW cs
    PROVE  /\ c.dev \in Ifaces /\ Asked(c).dev = c.dev
           /\ \/ \E n \in Nat : AsksAt(Program(c), n, Asked(c), cs)
              \/ Refuses(Program(c)) /\ Asked(c) \notin Route
<1> DEFINE i == c.dev
<1>1. Any4 \in V4 /\ 0 \in PrefixLength /\ Bits \in PrefixLength
  BY AddressesAre, BitsAssumption DEF PrefixLength
<1>2. CASE c.fn = "ifc_add_host_route"
  <2>1. i \in Ifaces /\ c.a \in V4
    BY <1>2, CallKinds DEF PlainCalls, SocketCalls, AddrCalls, Ipv4Calls, Configuring
  <2>2. Asked(c) = [dev |-> i, dst |-> c.a, plen |-> Bits, gw |-> Any4]
    BY <1>2 DEF Asked
  <2>3. Program(c) = ifc_act_on_ipv4_route("addroute", i, c.a, Bits, Any4)
    BY <1>2 DEF Program, ifc_add_host_route
  <2>4. AsksAt(Program(c), 2, Asked(c), cs)
    BY <1>1, <2>1, <2>2, <2>3, AsksIpv4
  <2> QED
    BY <2>1, <2>2, <2>4
<1>3. CASE c.fn = "ifc_set_default_route"
  <2>1. i \in Ifaces /\ c.g \in V4
    BY <1>3, CallKinds DEF PlainCalls, SocketCalls, AddrCalls, Ipv4Calls, Configuring
  <2>2. Asked(c) = [dev |-> i, dst |-> Any4, plen |-> 0, gw |-> c.g]
    BY <1>3 DEF Asked, DefaultRoute
  <2> DEFINE q == ifc_act_on_ipv4_route("addroute", i, Any4, 0, c.g)
  <2>3. Program(c) = ifc_init \o q \o ifc_close
    BY <1>3 DEF Program, ifc_set_default_route, ifc_create_default_route
  <2>4. AsksAt(q, 2, Asked(c), cs)
    BY <1>1, <2>1, <2>2, AsksIpv4
  <2>5. q \in Seq(StepOf(i))
    <3>1. "addroute" \in {"addroute", "delroute"} /\ 0 \in Int
      OBVIOUS
    <3> QED
      BY <1>1, <2>1, <3>1, RoutesTyped
  <2> HIDE DEF q
  <2>6. AsksAt(Program(c), 2 + 1, Asked(c), cs)
    BY <2>3, <2>4, <2>5, AsksWithin
  <2> QED
    BY <2>1, <2>2, <2>6
<1>4. CASE c.fn = "ifc_add_route"
  <2>1. i \in Ifaces /\ c.a \in Nat /\ c.p \in Int
    BY <1>4, CallKinds DEF PlainCalls, SocketCalls, AddrCalls, Ipv4Calls, Configuring
  <2> DEFINE via == IF c.g # NoGw THEN c.g ELSE IF c.a \in V6 THEN Any6 ELSE Any4
             r == [dev |-> i, dst |-> c.a, plen |-> c.p, gw |-> via]
  <2>2. Asked(c) = r
    BY <1>4 DEF Asked
  <2>3. Program(c) = ifc_act_on_route("addroute", i, c.a, c.p, c.g)
    BY <1>4 DEF Program, ifc_add_route
  <2>4. V4 \cap V6 = {}
    BY AddressesAre
  <2>5. CASE c.a \in V4 /\ via \in V4 /\ c.p \in 0 .. Bits
    <3>1. Program(c) = ifc_act_on_ipv4_route("addroute", i, c.a, c.p, via)
      BY <2>3, <2>5 DEF ifc_act_on_route
    <3> HIDE DEF via
    <3>2. AsksAt(Program(c), 2, Asked(c), cs)
      BY <2>1, <2>2, <2>5, <3>1, AsksIpv4 DEF PrefixLength
    <3> QED
      BY <2>1, <2>2, <3>2
  <2>6. CASE c.a \in V6 /\ via \in V6 /\ c.p \in 0 .. 128
    <3>1. Program(c) = ifc_act_on_ipv6_route("addroute", i, c.a, c.p, via)
      BY <2>3, <2>4, <2>6 DEF ifc_act_on_route
    <3> HIDE DEF via
    <3>2. AsksAt(Program(c), 3, Asked(c), cs)
      BY <2>1, <2>2, <2>6, <3>1, AsksIpv6
    <3> QED
      BY <2>1, <2>2, <3>2
  <2>7. CASE ~(c.a \in V4 /\ via \in V4 /\ c.p \in 0 .. Bits) /\ ~(c.a \in V6 /\ via \in V6 /\ c.p \in 0 .. 128)
    <3>1. Program(c) = << Step("refuse", i, Any4, 0, Any4) >>
      BY <2>3, <2>7 DEF ifc_act_on_route, Ioctl
    <3>2. Refuses(Program(c))
      BY <3>1 DEF Refuses, Step
    <3> HIDE DEF via
    <3>3. r \notin Route
      BY <2>7 DEF Route, PrefixLength
    <3> QED
      BY <2>1, <2>2, <3>2, <3>3
  <2> QED
    BY <2>5, <2>6, <2>7
<1> QED
  BY <1>2, <1>3, <1>4 DEF RouteCalls

\* What an undisturbed process sees of the order of its routes.
LEMMA SeenOrder ==
    ASSUME NEW k, NEW g, NEW i, View(g, i) = View(k, i), NEW x, x.dev = i, NEW y, y.dev = i
    PROVE  Ahead(g.routes, x, y) <=> Ahead(k.routes, x, y)
<1>1. RoutesOf(g, i) = RoutesOf(k, i)
  BY ViewShows
<1>2. ASSUME NEW h
      PROVE  Ahead(h.routes, x, y) <=> <<x, y>> \in RoutesOf(h, i)
  <2> DEFINE rs == {r \in Elements(h.routes) : r.dev = i}
  <2>1. RoutesOf(h, i) = {w \in rs \X rs : Ahead(h.routes, w[1], w[2])}
    BY DEF RoutesOf
  <2>2. Ahead(h.routes, x, y) => x \in rs /\ y \in rs
    BY AheadIsOfElements
  <2> HIDE DEF rs
  <2>3. <<x, y>> \in RoutesOf(h, i) <=> x \in rs /\ y \in rs /\ Ahead(h.routes, x, y)
    BY <2>1
  <2> QED
    BY <2>2, <2>3
<1> QED
  BY <1>1, <1>2

\* An undisturbed process sees its routes as they are.
LEMMA SeenRoutes ==
    ASSUME NEW k, NEW g, NEW i, Sane(k), Sane(g), View(g, i) = View(k, i), NEW r, r.dev = i
    PROVE  HasRoute(g, r) <=> HasRoute(k, r)
<1>1. k.routes \in Seq(Route) /\ g.routes \in Seq(Route)
  BY DEF Sane, Kernel
<1>2. Ahead(g.routes, r, r) <=> Ahead(k.routes, r, r)
  BY SeenOrder
<1> QED
  BY <1>1, <1>2, ElementsAreAhead DEF HasRoute

\* A device that is gone or down has no routes, and one without an address none with a gateway.
LEMMA NoSuchRoute ==
    ASSUME NEW k, Sane(k), NEW i \in Ifaces, NEW r, r.dev = i,
           ~k.link[i].present \/ ~Up(k, i) \/ (r.dst \in V4 /\ r.gw # Any4 /\ k.link[i].addrs = <<>>)
    PROVE  ~HasRoute(k, r)
<1>1. Carries(k.link[i], k.routes, i)
  BY CarriesNow
<1>2. HasRoute(k, r) => "UP" \in k.link[i].flags /\ (r.dst \in V4 /\ r.gw # Any4 => k.link[i].addrs # <<>>)
  BY <1>1 DEF Carries, HasRoute
<1>3. ~k.link[i].present => k.link[i].flags = {}
  BY <1>1 DEF Carries
<1> QED
  BY <1>2, <1>3 DEF Up

LEMMA TailParts ==
    ASSUME NEW S, NEW q \in Seq(S), q # <<>>
    PROVE  /\ 1 \in DOMAIN q /\ Head(q) = q[1] /\ DOMAIN q \subseteq Nat \ {0}
           /\ \A n \in DOMAIN q : n # 1 => n - 1 \in DOMAIN Tail(q) /\ Tail(q)[n - 1] = q[n]
           /\ \A n \in DOMAIN Tail(q) : n \in Nat \ {0} /\ n + 1 \in DOMAIN q /\ Tail(q)[n] = q[n + 1]
OBVIOUS

\* A step that only opens a socket leaves the request to be made.
LEMMA StillAsks ==
    ASSUME NEW i, NEW q \in Seq(StepOf(i)), q # <<>>, NEW n \in Nat, NEW r, NEW cs, NEW new,
           AsksAt(q, n, r, cs), n # 1,
           Head(q).do = "socket" => new.sock # NoSock,
           Head(q).do = "socket6" => new.sock6 # NoSock,
           Head(q).do # "socket" => new.sock = cs.sock,
           Head(q).do # "socket6" => new.sock6 = cs.sock6
    PROVE  AsksAt(Tail(q), n - 1, r, new)
<1> DEFINE t == Tail(q)
<1>1. /\ 1 \in DOMAIN q /\ Head(q) = q[1] /\ DOMAIN q \subseteq Nat \ {0}
      /\ \A m \in DOMAIN q : m # 1 => m - 1 \in DOMAIN t /\ t[m - 1] = q[m]
      /\ \A m \in DOMAIN t : m \in Nat \ {0} /\ m + 1 \in DOMAIN q /\ t[m] = q[m + 1]
  BY TailParts
<1> HIDE DEF t
<1>2. n - 1 \in DOMAIN t /\ t[n - 1] = q[n]
  BY <1>1 DEF AsksAt
<1>3. ASSUME NEW m \in DOMAIN t
      PROVE  /\ m <= n - 1 => t[m].fail = "abort"
             /\ m < n - 1 => t[m].do \in Openers
             /\ m > n - 1 => t[m].do \in {"close", "close6"}
  <2>1. m + 1 \in DOMAIN q /\ t[m] = q[m + 1] /\ m \in Nat
    BY <1>1
  <2>2. /\ m + 1 <= n => t[m].fail = "abort"
        /\ m + 1 < n => t[m].do \in Openers
        /\ m + 1 > n => t[m].do \in {"close", "close6"}
    BY <2>1 DEF AsksAt
  <2> QED
    BY <2>1, <2>2
<1>4. \A do : (\E m \in DOMAIN q : m < n /\ q[m].do = do)
              => Head(q).do = do \/ \E m \in DOMAIN t : m < n - 1 /\ t[m].do = do
  <2> SUFFICES ASSUME NEW m \in DOMAIN q, m < n, m # 1
               PROVE  m - 1 \in DOMAIN t /\ m - 1 < n - 1 /\ t[m - 1] = q[m]
    BY <1>1, Zenon
  <2> QED
    BY <1>1
<1>5. q[n].do = "addroute" => new.sock # NoSock \/ \E m \in DOMAIN t : m < n - 1 /\ t[m].do = "socket"
  BY <1>4 DEF AsksAt
<1>6. q[n].do = "addroute6" => new.sock6 # NoSock \/ \E m \in DOMAIN t : m < n - 1 /\ t[m].do = "socket6"
  BY <1>4 DEF AsksAt
<1>7. /\ AddsRoute(q[n]) /\ RouteOf(q[n]) = r
      /\ q[n].do = "addroute" => r.dst \in V4
      /\ q[n].do = "addroute6" => r.dst \in V6 /\ r.plen \in 0 .. 128
  BY DEF AsksAt
<1>8. AsksAt(t, n - 1, r, new)
  BY <1>2, <1>3, <1>5, <1>6, <1>7 DEF AsksAt
<1> QED
  BY <1>8 DEF t

\* The request itself, or the look at the interface, that fails.
LEMMA RouteErrors ==
    ASSUME NEW k, Sane(k), NEW cs, NEW i \in Ifaces, NEW s \in StepOf(i),
           NEW e \in Certain(k, cs, s), NEW r, r.dev = i
    PROVE  /\ s.do = "getindex6" => ~HasRoute(k, r)
           /\ AddsRoute(s) /\ RouteOf(s) = r
              /\ (s.do = "addroute" => cs.sock # NoSock /\ r.dst \in V4)
              /\ (s.do = "addroute6" => cs.sock6 # NoSock /\ r.plen \in 0 .. 128)
                 => (HasRoute(k, r) <=> e = "EEXIST")
<1>1. s.do \in {"getindex6", "addroute", "addroute6"} => s.dev = i
  BY StepParts DEF OfSockets
<1>2. ASSUME s.do = "getindex6"
      PROVE  ~HasRoute(k, r)
  <2>1. Wrong(k, s) = {}
    BY <1>2 DEF Wrong, NeedsAddr, AddsRoute, OnRoute
  <2>2. ~k.link[i].present
    BY <1>1, <1>2, <2>1 DEF Certain, OnSock, OnSock6
  <2> QED
    BY <2>2, NoSuchRoute
<1>3. ASSUME AddsRoute(s), RouteOf(s) = r,
             s.do = "addroute" => cs.sock # NoSock /\ r.dst \in V4,
             s.do = "addroute6" => cs.sock6 # NoSock /\ r.plen \in 0 .. 128
      PROVE  HasRoute(k, r) <=> e = "EEXIST"
  <2>1. s.do \in {"addroute", "addroute6"} /\ s.dev = i /\ s.g = r.gw /\ s.p = r.plen
    BY <1>1, <1>3 DEF AddsRoute, RouteOf
  <2>2. CASE ~k.link[i].present
    <3>1. e = "ENODEV"
      BY <1>3, <2>1, <2>2 DEF Certain, OnSock, OnSock6, OfDevice
    <3> QED
      BY <2>2, <3>1, NoSuchRoute
  <2>3. CASE k.link[i].present
    <3>1. e \in Wrong(k, s)
      BY <1>3, <2>1, <2>3 DEF Certain, OnSock, OnSock6, OfDevice
    <3>2. \/ e = "EEXIST" /\ HasRoute(k, r)
          \/ e = "ENETDOWN" /\ ~Up(k, i)
          \/ e = "ENETUNREACH" /\ r.dst \in V4 /\ r.gw # Any4 /\ k.link[i].addrs = <<>>
      BY <1>3, <2>1, <3>1 DEF Wrong, NeedsAddr, OnRoute
    <3> QED
      BY <3>2, NoSuchRoute
  <2> QED
    BY <2>2, <2>3
<1> QED
  BY <1>2, <1>3

LEMMA RouteFails ==
    ASSUME Typed, NEW p \in Procs, RouteAt(proc[p], ctl[p], net), proc[p].todo # <<>>,
           NEW e, Fails(p, e), NoFault(p)'
    PROVE  RouteAt(proc'[p], ctl'[p], net')
<1> DEFINE y == proc[p]
           z == proc'[p]
           s == Head(y.todo)
           t == Tail(y.todo)
           i == y.call.dev
           r == Asked(y.call)
<1>1. /\ z.todo = (IF GoesOn(s, e) THEN t ELSE IF s.fail = "return" THEN <<>> ELSE Closes(t))
      /\ z.todo \in Seq(StepOf(i)) /\ z.ret = (IF Noted(s, e) THEN "error" ELSE y.ret) /\ z.call = y.call
      /\ net' = net /\ ctl' = ctl
  BY FailTyped
<1>2. e \in Certain(net, ctl[p], s) /\ s.do \notin {"socket", "socket6", "close", "close6"}
  BY MetForCause
<1>3. /\ i \in Ifaces /\ r.dev = i /\ y.todo \in Seq(StepOf(i)) /\ y.todo # <<>> /\ Sane(net)
      /\ s \in StepOf(i) /\ t \in Seq(StepOf(i))
  <2>1. i \in Ifaces /\ r.dev = i /\ y.todo \in Seq(StepOf(i)) /\ y.todo # <<>> /\ Sane(net)
    BY DEF RouteAt, Typed
  <2> HIDE DEF StepOf
  <2> QED
    BY <2>1, SeqParts
<1>4. Lasts(Closes(t))
  <2>1. Elements(Closes(t)) = {x \in Elements(t) : x.do \in {"close", "close6"}}
    BY <1>3, ClosesTyped
  <2> QED
    BY <2>1 DEF Lasts, Elements
<1>5. SUFFICES Lasts(z.todo) /\ (z.ret = "ok" <=> HasRoute(net, r))
  BY <1>1, <1>3 DEF RouteAt
<1>6. /\ 1 \in DOMAIN y.todo /\ s = y.todo[1] /\ DOMAIN y.todo \subseteq Nat \ {0}
      /\ \A n \in DOMAIN t : n \in Nat \ {0} /\ n + 1 \in DOMAIN y.todo /\ t[n] = y.todo[n + 1]
  BY <1>3, TailParts
<1>7. ASSUME s.fail = "abort", ~OnRoute(s) \/ e # "EEXIST", ~HasRoute(net, r)
      PROVE  Lasts(z.todo) /\ (z.ret = "ok" <=> HasRoute(net, r))
  <2>1. ~GoesOn(s, e)
    BY <1>2, <1>7 DEF GoesOn, Tolerated
  <2> QED
    BY <1>1, <1>4, <1>7, <2>1 DEF Noted
<1>8. ASSUME y.ret = "ok", NEW n \in Nat, AsksAt(y.todo, n, r, ctl[p])
      PROVE  Lasts(z.todo) /\ (z.ret = "ok" <=> HasRoute(net, r))
  <2>1. n >= 1 /\ s.fail = "abort" /\ (n # 1 => s.do \in Openers)
    BY <1>6, <1>8 DEF AsksAt
  <2>2. CASE n # 1
    <3>1. s.do = "getindex6"
      BY <1>2, <2>1, <2>2 DEF Openers
    <3>2. ~HasRoute(net, r)
      <4>1. Sane(net) /\ i \in Ifaces /\ s \in StepOf(i) /\ e \in Certain(net, ctl[p], s) /\ r.dev = i
        BY <1>2, <1>3
      <4> HIDE DEF s, i, r
      <4> QED
        BY <3>1, <4>1, RouteErrors
    <3>3. ~OnRoute(s)
      BY <3>1 DEF OnRoute, AddsRoute
    <3> QED
      BY <1>7, <2>1, <3>2, <3>3
  <2>3. CASE n = 1
    <3>1. /\ AddsRoute(s) /\ RouteOf(s) = r
          /\ s.do = "addroute" => ctl[p].sock # NoSock /\ r.dst \in V4
          /\ s.do = "addroute6" => ctl[p].sock6 # NoSock /\ r.plen \in 0 .. 128
      BY <1>6, <1>8, <2>3 DEF AsksAt
    <3>2. HasRoute(net, r) <=> e = "EEXIST"
      <4>1. Sane(net) /\ i \in Ifaces /\ s \in StepOf(i) /\ e \in Certain(net, ctl[p], s) /\ r.dev = i
        BY <1>2, <1>3
      <4> HIDE DEF s, i, r
      <4>2. AddsRoute(s) /\ RouteOf(s) = r
            /\ (s.do = "addroute" => ctl[p].sock # NoSock /\ r.dst \in V4)
            /\ (s.do = "addroute6" => ctl[p].sock6 # NoSock /\ r.plen \in 0 .. 128)
               => (HasRoute(net, r) <=> e = "EEXIST")
        BY <4>1, RouteErrors
      <4> QED
        BY <3>1, <4>2
    <3>3. CASE e # "EEXIST"
      BY <1>7, <2>1, <3>2, <3>3
    <3>4. CASE e = "EEXIST"
      <4>1. GoesOn(s, e) /\ ~Noted(s, e)
        BY <2>1, <3>1, <3>4 DEF GoesOn, Noted, Tolerated, OnRoute
      <4>2. Lasts(t)
        <5> SUFFICES ASSUME NEW m \in DOMAIN t
                     PROVE  t[m].do \in {"close", "close6"}
          BY DEF Lasts
        <5>1. m + 1 \in DOMAIN y.todo /\ t[m] = y.todo[m + 1] /\ m + 1 > n
          BY <1>6, <2>3
        <5> QED
          BY <1>8, <5>1 DEF AsksAt
      <4> QED
        BY <1>1, <1>8, <3>2, <3>4, <4>1, <4>2
    <3> QED
      BY <3>3, <3>4
  <2> QED
    BY <2>2, <2>3
<1>9. ASSUME Refuses(y.todo), r \notin Route
      PROVE  Lasts(z.todo) /\ (z.ret = "ok" <=> HasRoute(net, r))
  <2>1. ~HasRoute(net, r)
    <3>1. net.routes \in Seq(Route)
      BY <1>3 DEF Sane, Kernel
    <3> QED
      BY <1>9, <3>1, ElementsAreAhead DEF HasRoute
  <2> QED
    BY <1>7, <1>9, <2>1 DEF Refuses, OnRoute, AddsRoute
<1>10. ~Lasts(y.todo)
  BY <1>2, <1>6 DEF Lasts
<1> QED
  BY <1>8, <1>9, <1>10 DEF RouteAt

LEMMA RouteDoes ==
    ASSUME Typed, AllAccounted, NEW p \in Procs, RouteAt(proc[p], ctl[p], net), proc[p].todo # <<>>,
           Succeeds(p)
    PROVE  RouteAt(proc'[p], ctl'[p], net')
<1> DEFINE y == proc[p]
           z == proc'[p]
           s == Head(y.todo)
           t == Tail(y.todo)
           i == y.call.dev
           r == Asked(y.call)
<1>1. /\ i \in Ifaces /\ r.dev = i /\ y.todo \in Seq(StepOf(i)) /\ y.todo # <<>> /\ Sane(net)
      /\ s \in StepOf(i) /\ t \in Seq(StepOf(i))
  <2>1. i \in Ifaces /\ r.dev = i /\ y.todo \in Seq(StepOf(i)) /\ y.todo # <<>> /\ Sane(net)
    BY DEF RouteAt, Typed
  <2> HIDE DEF StepOf
  <2> QED
    BY <2>1, SeqParts
<1>2. /\ 1 \in DOMAIN y.todo /\ s = y.todo[1] /\ DOMAIN y.todo \subseteq Nat \ {0}
      /\ \A n \in DOMAIN t : n \in Nat \ {0} /\ n + 1 \in DOMAIN y.todo /\ t[n] = y.todo[n + 1]
  BY <1>1, TailParts
<1>3. z.ret = y.ret /\ z.call = y.call
  BY <1>1, DoParts
<1>4. ASSUME s.do \in Openers \cup {"close", "close6", "addroute", "addroute6"}
      PROVE  z.todo = t /\ net' = Effect(net, y, s) /\ ctl'[p] = Sockets(ctl[p], s)
  <2>1. s.do # "getflags" /\ Unfolds(net, s) = <<>>
    BY <1>4 DEF Openers, Unfolds
  <2> QED
    BY <1>1, <2>1, Did
<1>5. ASSUME y.ret = "ok", NEW n \in Nat, AsksAt(y.todo, n, r, ctl[p])
      PROVE  RouteAt(z, ctl'[p], net')
  <2>1. n >= 1
    BY <1>2, <1>5 DEF AsksAt
  <2>2. CASE n # 1
    <3>1. s.do \in Openers
      BY <1>2, <1>5, <2>1, <2>2 DEF AsksAt
    <3>2. z.todo = t /\ ctl'[p] = Sockets(ctl[p], s)
      BY <1>4, <3>1
    <3>3. Accounted(ctl[p])
      BY DEF AllAccounted
    <3>4. /\ s.do = "socket" => ctl'[p].sock # NoSock /\ ctl'[p].sock6 = ctl[p].sock6
          /\ s.do = "socket6" => ctl'[p].sock6 # NoSock /\ ctl'[p].sock = ctl[p].sock
          /\ s.do \notin {"socket", "socket6"} => ctl'[p] = ctl[p]
      BY <3>1, <3>2, <3>3, SocketOpens DEF Openers, OfSockets
    <3>5. AsksAt(t, n - 1, r, ctl'[p])
      BY <1>1, <1>5, <2>2, <3>4, StillAsks
    <3>6. n - 1 \in Nat
      BY <2>1
    <3> QED
      BY <1>1, <1>3, <1>5, <3>2, <3>5, <3>6 DEF RouteAt
  <2>3. CASE n = 1
    <3>1. AddsRoute(s) /\ RouteOf(s) = r
      BY <1>2, <1>5, <2>3 DEF AsksAt
    <3>2. z.todo = t /\ net' = AddRoute(net, r)
      BY <1>4, <3>1 DEF AddsRoute, Effect
    <3>3. HasRoute(net', r)
      <4>1. net.routes \in Seq(Route) /\ net \in Kernel
        BY <1>1 DEF Sane, Kernel
      <4>2. net'.routes = <<r>> \o net.routes
        BY <3>2, <4>1 DEF AddRoute, Kernel
      <4>3. 1 \in DOMAIN net'.routes /\ net'.routes[1] = r
        BY <4>1, <4>2
      <4> QED
        BY <4>3 DEF HasRoute, Elements
    <3>4. Lasts(t)
      <4> SUFFICES ASSUME NEW m \in DOMAIN t
                   PROVE  t[m].do \in {"close", "close6"}
        BY DEF Lasts
      <4>1. m + 1 \in DOMAIN y.todo /\ t[m] = y.todo[m + 1] /\ m + 1 > n
        BY <1>2, <2>3
      <4> QED
        BY <1>5, <4>1 DEF AsksAt
    <3> QED
      BY <1>1, <1>3, <1>5, <3>2, <3>3, <3>4 DEF RouteAt
  <2> QED
    BY <2>2, <2>3
<1>6. ~Refuses(y.todo)
  <2>1. s.do # "refuse"
    BY NothingWrong DEF Succeeds
  <2> QED
    BY <2>1 DEF Refuses
<1>7. ASSUME Lasts(y.todo), y.ret = "ok" <=> HasRoute(net, r)
      PROVE  RouteAt(z, ctl'[p], net')
  <2>1. s.do \in {"close", "close6"}
    BY <1>2, <1>7 DEF Lasts
  <2>2. z.todo = t /\ net' = net
    BY <1>4, <2>1 DEF Effect
  <2>3. Lasts(t)
    BY <1>2, <1>7 DEF Lasts
  <2> QED
    BY <1>1, <1>3, <1>7, <2>2, <2>3 DEF RouteAt
<1> QED
  BY <1>5, <1>6, <1>7 DEF RouteAt

LEMMA InitRouting == Init => RouteInv
BY DEF Init, IfcInit, RouteInv, Routing, RouteCalls, NoCall

LEMMA RoutingKept ==
    ASSUME Typed, AllAccounted, DOMAIN held = Procs, RouteInv, [Next]_vars
    PROVE  RouteInv'
<1> SUFFICES ASSUME NEW p \in Procs, Routing(p)'
             PROVE  RouteAt(proc'[p], ctl'[p], net')
  BY DEF RouteInv
<1>1. Routing(p) => RouteAt(proc[p], ctl[p], net)
  BY DEF RouteInv
<1>2. CASE Waits(p)
  <2>1. proc'[p] = proc[p] /\ ctl'[p] = ctl[p] /\ calm[p]
    BY <1>2 DEF Waits, Routing
  <2>2. RouteAt(proc[p], ctl[p], net)
    BY <1>1, <2>1 DEF Routing, NoFault
  <2>3. View(net', Dev(p)) = View(net, Dev(p))
    BY <1>2, <2>2 DEF Waits, RouteAt, Dev, Routing
  <2>4. Sane(net) /\ Sane(net')
    BY TypedKept DEF Typed
  <2>5. HasRoute(net', Asked(proc[p].call)) <=> HasRoute(net, Asked(proc[p].call))
    BY <2>2, <2>3, <2>4, SeenRoutes DEF RouteAt, Dev
  <2> QED
    BY <2>1, <2>2, <2>5 DEF RouteAt
<1>3. CASE Begins(p)
  <2>1. PICK c \in Calls : /\ proc'[p].call = c /\ proc'[p].todo = Program(c) /\ proc'[p].ret = "ok"
                           /\ ctl' = ctl
    BY <1>3 DEF Begins
  <2>2. c.fn \in RouteCalls /\ Program(c) \in Seq(StepOf(c.dev))
    BY <2>1, ProgramTyped DEF Routing
  <2>3. /\ c.dev \in Ifaces /\ Asked(c).dev = c.dev
        /\ \/ \E n \in Nat : AsksAt(Program(c), n, Asked(c), ctl[p])
           \/ Refuses(Program(c)) /\ Asked(c) \notin Route
    BY <2>2, RouteProgram
  <2> QED
    BY <2>1, <2>2, <2>3 DEF RouteAt
<1>4. ASSUME calm'[p] = calm[p], proc[p].todo # <<>>, NEW e, Fails(p, e)
      PROVE  RouteAt(proc'[p], ctl'[p], net')
  <2>1. NoFault(p) /\ proc'[p].call = proc[p].call
    BY <1>4, MetForCause, FailTyped DEF Routing
  <2> QED
    BY <1>1, <1>4, <2>1, RouteFails DEF Routing
<1>5. ASSUME calm'[p] = calm[p], proc[p].todo # <<>>, Succeeds(p)
      PROVE  RouteAt(proc'[p], ctl'[p], net')
  <2>1. proc'[p].call = proc[p].call /\ proc'[p].errs = proc[p].errs
    BY <1>5, DoParts
  <2> QED
    BY <1>1, <1>5, <2>1, RouteDoes DEF Routing, NoFault
<1> QED
  BY <1>2, <1>3, <1>4, <1>5, StepOfProcess DEF GoesFurther

\* Adding a route reports success if, and only if, the route is there afterwards: the
\* one error that counts as success, EEXIST, is met exactly when the route was there.
THEOREM RouteIsThere == Spec => []RouteResult
<1>1. Typed /\ RouteInv => RouteResult
  <2> SUFFICES ASSUME Typed, RouteInv, NEW p \in Procs, Returned(p, RouteCalls), NoFault(p)
               PROVE  proc[p].ret = "ok" <=> HasRoute(net, Asked(proc[p].call))
    BY DEF RouteResult, RouteCalls
  <2>1. RouteAt(proc[p], ctl[p], net) /\ proc[p].todo = <<>>
    BY DEF RouteInv, Routing, Returned, Idle
  <2> QED
    BY <2>1 DEF RouteAt, AsksAt, Refuses
<1> DEFINE Inv == Typed /\ AllAccounted /\ DOMAIN held = Procs /\ RouteInv
<1>2. Init => Inv
  BY InitTyped, InitAccounted, InitRouting DEF Init
<1>3. Inv /\ [Next]_vars => Inv'
  BY TypedKept, AccountedKept, HeldStays, RoutingKept
<1>4. Inv => RouteResult
  BY <1>1
<1> HIDE DEF Inv
<1> QED
  BY <1>2, <1>3, <1>4, PTL DEF Spec

(***************************************************************************)
(* ifc_remove_host_routes.  A line of /proc/net/route names its route by   *)
(* destination and gateway, and a gateway of 0.0.0.0 stands for any: such  *)
(* a deletion may take a route that another line means.  It takes the one  *)
(* it means because the lines are in the order of the table.  Deletions of *)
(* routes to other destinations do not matter, whether they fail or not.   *)
(***************************************************************************)

HostRoutesTo(k, i, d) == {r \in HostRoutes(k.routes, i) : r.dst = d}
DeletionsFor(q, d) == {m \in DOMAIN q : q[m].do = "delroute" /\ q[m].a = d}

\* What is left deletes the routes to d, first ones first.
Deletes(q, k, i, d) ==
    /\ \A m \in DeletionsFor(q, d) : RouteOf(q[m]) \in HostRoutesTo(k, i, d)
    /\ \A r \in HostRoutesTo(k, i, d) : \E m \in DeletionsFor(q, d) : RouteOf(q[m]) = r
    /\ \A l, m \in DeletionsFor(q, d) :
          l < m => ~Ahead(k.routes, RouteOf(q[m]), RouteOf(q[l]))

\* What is left goes on when a step fails, and the next block is read last.
Removes(q, i) ==
    \A m \in DOMAIN q :
        /\ q[m].do \in {"socket", "close", "readroutes", "delroute"}
        /\ q[m].do \in {"readroutes", "delroute"} => q[m].dev = i /\ q[m].fail = "ignore"
        /\ q[m].do = "readroutes" => \A l \in DOMAIN q : m < l => q[l].do = "close"

Scans(q) == q # <<>> /\ Head(q).do = "scanhosts" /\ Tail(q) = <<>>

HostAt(y, k, d) ==
    LET i == y.call.dev IN
    /\ i \in Ifaces /\ y.todo \in Seq(StepOf(i))
    /\ \/ Scans(y.todo) /\ Head(y.todo).dev = i /\ ~y.got.whole
       \/ Removes(y.todo, i) /\ (y.got.whole => Deletes(y.todo, k, i, d))

Removing(p) == proc[p].call.fn = "ifc_remove_host_routes" /\ calm[p]
HostInv ==
    \A p \in Procs : Removing(p) =>
        \A d \in V4 : ~FailedFor(p, "delroute", d) => HostAt(proc[p], net, d)

LEMMA StillDeletes ==
    ASSUME NEW k, NEW g, NEW i, NEW d, NEW q, Deletes(q, k, i, d),
           HostRoutesTo(g, i, d) = HostRoutesTo(k, i, d),
           \A x, y \in HostRoutesTo(k, i, d) : Ahead(g.routes, x, y) => Ahead(k.routes, x, y)
    PROVE  Deletes(q, g, i, d)
BY DEF Deletes

LEMMA SeenHostRoutes ==
    ASSUME NEW k, NEW g, NEW i, Sane(k), Sane(g), View(g, i) = View(k, i), NEW d, NEW q,
           Deletes(q, k, i, d)
    PROVE  Deletes(q, g, i, d)
<1>1. HostRoutesTo(g, i, d) = HostRoutesTo(k, i, d)
  <2>1. \A r : r.dev = i => (HasRoute(g, r) <=> HasRoute(k, r))
    BY SeenRoutes
  <2> QED
    BY <2>1 DEF HostRoutesTo, HostRoutes, HasRoute
<1>2. \A x, y \in HostRoutesTo(k, i, d) : Ahead(g.routes, x, y) => Ahead(k.routes, x, y)
  BY SeenOrder DEF HostRoutesTo, HostRoutes
<1> QED
  BY <1>1, <1>2, StillDeletes

LEMMA TailOf ==
    ASSUME NEW S, NEW q \in Seq(S), q # <<>>
    PROVE  /\ Head(q) = q[1] /\ Tail(q) \in Seq(S) /\ (Len(q) = 1 <=> Tail(q) = <<>>)
           /\ \A n \in Nat : DOMAIN q = 1 .. n + 1 => Len(q) = n + 1
           /\ 1 \in DOMAIN Tail(q) => Tail(q) # <<>>
<1>1. Head(q) = q[1] /\ Tail(q) \in Seq(S)
  OBVIOUS
<1> DEFINE L == Len(q)
           t == Tail(q)
<1>2. L \in Nat /\ L # 0 /\ DOMAIN q = 1 .. L /\ Len(t) = L - 1
  OBVIOUS
<1> HIDE DEF L, t
<1>3. L = 1 <=> t = <<>>
  <2>1. t \in Seq(S)
    BY <1>1 DEF t
  <2>2. Len(t) = 0 <=> t = <<>>
    BY <2>1
  <2> QED
    BY <1>2, <2>2
<1>4. ASSUME NEW n \in Nat, DOMAIN q = 1 .. n + 1
      PROVE  L = n + 1
  <2>1. n + 1 \in 1 .. L /\ L \in 1 .. n + 1
    BY <1>2, <1>4
  <2> QED
    BY <1>2, <2>1
<1>5. 1 \in DOMAIN t => t # <<>>
  OBVIOUS
<1> QED
  BY <1>1, <1>3, <1>4, <1>5 DEF L, t

\* A step is behind: the deletion of a route to d has taken the route that it means.
LEMMA DeletesRest ==
    ASSUME NEW i, NEW q \in Seq(StepOf(i)), q # <<>>, NEW k, Sane(k), i \in Ifaces, NEW d,
           Deletes(q, k, i, d), NEW g,
           HostRoutesTo(g, i, d) =
               HostRoutesTo(k, i, d) \ {r \in {RouteOf(q[1])} : 1 \in DeletionsFor(q, d)},
           \A x, y \in HostRoutesTo(g, i, d) : Ahead(g.routes, x, y) => Ahead(k.routes, x, y)
    PROVE  Deletes(Tail(q), g, i, d)
<1> DEFINE t == Tail(q)
<1>1. /\ 1 \in DOMAIN q /\ DOMAIN q \subseteq Nat \ {0}
      /\ \A n \in DOMAIN q : n # 1 => n - 1 \in DOMAIN t /\ t[n - 1] = q[n]
      /\ \A n \in DOMAIN t : n \in Nat \ {0} /\ n + 1 \in DOMAIN q /\ t[n] = q[n + 1]
  BY TailParts
<1> HIDE DEF t
<1>2. \A m \in DeletionsFor(t, d) :
          m \in Nat \ {0} /\ m + 1 \in DeletionsFor(q, d) /\ t[m] = q[m + 1]
  BY <1>1 DEF DeletionsFor
<1>3. \A m \in DeletionsFor(q, d) :
          m # 1 => m \in Nat \ {0} /\ m - 1 \in DeletionsFor(t, d) /\ t[m - 1] = q[m]
  BY <1>1 DEF DeletionsFor
<1>4. ASSUME NEW m \in DeletionsFor(t, d)
      PROVE  RouteOf(t[m]) \in HostRoutesTo(g, i, d)
  <2>1. m + 1 \in DeletionsFor(q, d) /\ RouteOf(t[m]) = RouteOf(q[m + 1])
        /\ RouteOf(q[m + 1]) \in HostRoutesTo(k, i, d)
    BY <1>2 DEF Deletes
  <2>2. 1 \in DeletionsFor(q, d) => RouteOf(q[m + 1]) # RouteOf(q[1])
    <3> SUFFICES ASSUME 1 \in DeletionsFor(q, d), RouteOf(q[m + 1]) = RouteOf(q[1])
                 PROVE  FALSE
      OBVIOUS
    <3>1. m \in Nat /\ 1 < m + 1
      BY <1>2
    <3>2. ~Ahead(k.routes, RouteOf(q[m + 1]), RouteOf(q[1]))
      BY <2>1, <3>1 DEF Deletes
    <3>3. RouteOf(q[1]) \in Elements(k.routes) /\ k.routes \in Seq(Route)
      BY <2>1, CarriesNow DEF HostRoutesTo, HostRoutes
    <3> QED
      BY <3>2, <3>3, ElementsAreAhead
  <2> QED
    BY <2>1, <2>2
<1>5. ASSUME NEW r \in HostRoutesTo(g, i, d)
      PROVE  \E m \in DeletionsFor(t, d) : RouteOf(t[m]) = r
  <2>1. PICK m \in DeletionsFor(q, d) : RouteOf(q[m]) = r
    BY DEF Deletes
  <2>2. m # 1
    BY <2>1
  <2> QED
    BY <1>3, <2>1, <2>2
<1>6. ASSUME NEW l \in DeletionsFor(t, d), NEW m \in DeletionsFor(t, d), l < m
      PROVE  ~Ahead(g.routes, RouteOf(t[m]), RouteOf(t[l]))
  <2>1. /\ l + 1 \in DeletionsFor(q, d) /\ m + 1 \in DeletionsFor(q, d) /\ l + 1 < m + 1
        /\ t[l] = q[l + 1] /\ t[m] = q[m + 1]
    <3>1. l \in Nat /\ m \in Nat
      BY <1>2
    <3> QED
      BY <1>2, <1>6, <3>1
  <2>2. ~Ahead(k.routes, RouteOf(q[m + 1]), RouteOf(q[l + 1]))
    BY <2>1 DEF Deletes
  <2> QED
    BY <1>4, <2>1, <2>2
<1> QED
  BY <1>4, <1>5, <1>6 DEF Deletes, t

LEMMA RemovesRest ==
    ASSUME NEW i, NEW q \in Seq(StepOf(i)), q # <<>>, Removes(q, i)
    PROVE  /\ Removes(Tail(q), i) /\ Tail(q) \in Seq(StepOf(i)) /\ Head(q) = q[1] /\ 1 \in DOMAIN q
           /\ Head(q).do = "readroutes" => \A m \in DOMAIN Tail(q) : Tail(q)[m].do = "close"
<1> DEFINE t == Tail(q)
<1>1. /\ 1 \in DOMAIN q /\ DOMAIN q \subseteq Nat \ {0} /\ Head(q) = q[1]
      /\ \A n \in DOMAIN t : n \in Nat \ {0} /\ n + 1 \in DOMAIN q /\ t[n] = q[n + 1]
  BY TailParts
<1>2. t \in Seq(StepOf(i))
  BY TailOf
<1> HIDE DEF t
<1>3. ASSUME NEW m \in DOMAIN t, t[m].do = "readroutes", NEW l \in DOMAIN t, m < l
      PROVE  t[l].do = "close"
  <2>1. m + 1 < l + 1
    BY <1>1, <1>3
  <2> QED
    BY <1>1, <1>3, <2>1 DEF Removes
<1>4. Removes(t, i)
  BY <1>1, <1>3 DEF Removes
<1>5. ASSUME q[1].do = "readroutes", NEW m \in DOMAIN t
      PROVE  t[m].do = "close"
  <2>1. 1 < m + 1
    BY <1>1
  <2> QED
    BY <1>1, <1>5, <2>1 DEF Removes
<1> QED
  BY <1>1, <1>2, <1>4, <1>5 DEF t

\* A deletion that succeeds takes the route that it means, or one to somewhere else.
LEMMA DeletionGoesOn ==
    ASSUME NEW k, Sane(k), NEW i \in Ifaces, NEW q \in Seq(StepOf(i)), q # <<>>, Removes(q, i),
           NEW d, Deletes(q, k, i, d), q[1].do = "delroute", Matches(k, RouteOf(q[1])) # {}
    PROVE  Deletes(Tail(q), DelRoute(k, RouteOf(q[1])), i, d)
<1> DEFINE r == RouteOf(q[1])
           g == DelRoute(k, r)
           first == CHOOSE f \in Matches(k, r) : \A m \in Matches(k, r) : f <= m
           x == k.routes[first]
<1>1. k \in Kernel /\ NoTwice(k.routes) /\ k.routes \in Seq(Route)
  BY CarriesNow DEF Sane
<1>2. /\ 1 \in DOMAIN q /\ DOMAIN q \subseteq Nat \ {0} /\ q[1].dev = i
  BY TailParts DEF Removes
<1>3. DOMAIN r = {"dev", "dst", "plen", "gw"} /\ r.dev = i /\ r.dst = q[1].a /\ r = [r EXCEPT !.gw = r.gw]
  BY <1>2 DEF RouteOf
<1> HIDE DEF r
<1>4. first \in Matches(k, r) /\ \A m \in Matches(k, r) : first <= m
  BY <1>1, MatchIsThere DEF r
<1>5. Trims(k.routes, g.routes, i) /\ Elements(g.routes) = Elements(k.routes) \ {x}
  BY <1>1, <1>3, DelRouteTrims DEF r
<1> HIDE DEF first, g
<1>6. /\ first \in DOMAIN k.routes /\ x.dev = i /\ x.dst = q[1].a /\ x.plen = r.plen
      /\ x \in Elements(k.routes)
  BY <1>1, <1>3, <1>4, MatchIsOfDevice DEF Elements
<1>7. HostRoutesTo(g, i, d) = HostRoutesTo(k, i, d) \ {x}
  BY <1>5 DEF HostRoutesTo, HostRoutes
<1>8. 1 \in DeletionsFor(q, d) => x = r
  <2> SUFFICES ASSUME 1 \in DeletionsFor(q, d)
               PROVE  x = r
    OBVIOUS
  <2>1. r \in HostRoutesTo(k, i, d)
    BY DEF Deletes, r
  <2>2. x \in HostRoutesTo(k, i, d)
    BY <1>3, <1>6, <2>1 DEF HostRoutesTo, HostRoutes
  <2>3. PICK h \in DOMAIN k.routes : k.routes[h] = r
    BY <2>1 DEF HostRoutesTo, HostRoutes, Elements
  <2>4. h \in Matches(k, r)
    BY <1>3, <2>3 DEF Matches
  <2>5. Ahead(k.routes, x, r)
    BY <1>4, <1>6, <2>3, <2>4 DEF Ahead
  <2>6. PICK m \in DeletionsFor(q, d) : RouteOf(q[m]) = x
    BY <2>2 DEF Deletes
  <2>7. ~(1 < m)
    BY <2>5, <2>6 DEF Deletes, r
  <2>8. m = 1
    BY <1>2, <2>6, <2>7 DEF DeletionsFor
  <2> QED
    BY <2>6, <2>8 DEF r
<1>9. 1 \notin DeletionsFor(q, d) => x \notin HostRoutesTo(k, i, d)
  BY <1>2, <1>6 DEF DeletionsFor, HostRoutesTo
<1>10. HostRoutesTo(g, i, d) =
          HostRoutesTo(k, i, d) \ {w \in {RouteOf(q[1])} : 1 \in DeletionsFor(q, d)}
  BY <1>7, <1>8, <1>9 DEF r
<1>11. \A v, w \in HostRoutesTo(g, i, d) : Ahead(g.routes, v, w) => Ahead(k.routes, v, w)
  BY <1>5 DEF HostRoutesTo, HostRoutes, Trims
<1> QED
  BY <1>10, <1>11, DeletesRest DEF g, r

\* Any other step that leaves the routes as they are.
LEMMA OtherGoesOn ==
    ASSUME NEW k, Sane(k), NEW i \in Ifaces, NEW q \in Seq(StepOf(i)), q # <<>>,
           NEW d, Deletes(q, k, i, d), 1 \notin DeletionsFor(q, d)
    PROVE  Deletes(Tail(q), k, i, d)
<1>1. HostRoutesTo(k, i, d) =
          HostRoutesTo(k, i, d) \ {w \in {RouteOf(q[1])} : 1 \in DeletionsFor(q, d)}
  OBVIOUS
<1> QED
  BY <1>1, DeletesRest

\* Steps put before others, or behind them.
LEMMA RemovesJoined ==
    ASSUME NEW i, NEW u \in Seq(StepOf(i)), NEW v \in Seq(StepOf(i)), Removes(u, i), Removes(v, i),
           \A m \in DOMAIN u : u[m].do = "readroutes" =>
               (\A l \in DOMAIN u : m < l => u[l].do = "close") /\ \A l \in DOMAIN v : v[l].do = "close"
    PROVE  Removes(u \o v, i)
<1> DEFINE q == u \o v
           n == Len(u)
<1>1. /\ \A m \in DOMAIN q : /\ m \in Nat
                             /\ \/ m \in DOMAIN u /\ q[m] = u[m]
                                \/ m > n /\ m - n \in DOMAIN v /\ q[m] = v[m - n]
      /\ n \in Nat /\ DOMAIN u = 1 .. n /\ DOMAIN v \subseteq Nat
  <2> HIDE DEF StepOf
  <2> QED
    OBVIOUS
<1> HIDE DEF q, n
<1>2. ASSUME NEW m \in DOMAIN q
      PROVE  /\ q[m].do \in {"socket", "close", "readroutes", "delroute"}
             /\ q[m].do \in {"readroutes", "delroute"} => q[m].dev = i /\ q[m].fail = "ignore"
  BY <1>1 DEF Removes
<1>3. ASSUME NEW m \in DOMAIN q, q[m].do = "readroutes", NEW l \in DOMAIN q, m < l
      PROVE  q[l].do = "close"
  <2>1. CASE m \in DOMAIN u /\ q[m] = u[m]
    BY <1>1, <1>3, <2>1
  <2>2. CASE m > n /\ m - n \in DOMAIN v /\ q[m] = v[m - n]
    <3>1. l > n /\ l - n \in DOMAIN v /\ q[l] = v[l - n] /\ m - n < l - n
      BY <1>1, <1>3, <2>2
    <3> QED
      BY <1>3, <2>2, <3>1 DEF Removes
  <2> QED
    BY <1>1, <2>1, <2>2
<1> QED
  BY <1>2, <1>3 DEF Removes, q

LEMMA DeletesJoined ==
    ASSUME NEW i, NEW u \in Seq(StepOf(i)), NEW v \in Seq(StepOf(i)), NEW d, NEW k,
           \/ Deletes(u, k, i, d) /\ DeletionsFor(v, d) = {}
           \/ Deletes(v, k, i, d) /\ DeletionsFor(u, d) = {}
    PROVE  Deletes(u \o v, k, i, d)
<1> DEFINE q == u \o v
           n == Len(u)
<1>1. /\ \A m \in DOMAIN q : /\ m \in Nat
                             /\ \/ m \in DOMAIN u /\ q[m] = u[m]
                                \/ m > n /\ m - n \in DOMAIN v /\ q[m] = v[m - n]
      /\ n \in Nat /\ DOMAIN u \subseteq Nat /\ DOMAIN v \subseteq Nat
      /\ \A m \in DOMAIN u : m \in DOMAIN q /\ q[m] = u[m]
      /\ \A m \in DOMAIN v : m + n \in DOMAIN q /\ q[m + n] = v[m]
  <2> HIDE DEF StepOf
  <2> QED
    OBVIOUS
<1> HIDE DEF q, n
<1>2. CASE Deletes(u, k, i, d) /\ DeletionsFor(v, d) = {}
  <2>1. \A m : m \in DeletionsFor(q, d) <=> m \in DeletionsFor(u, d)
    BY <1>1, <1>2 DEF DeletionsFor
  <2>2. \A m \in DeletionsFor(u, d) : q[m] = u[m]
    BY <1>1 DEF DeletionsFor
  <2>3. \A m \in DeletionsFor(q, d) : RouteOf(q[m]) \in HostRoutesTo(k, i, d)
    BY <1>2, <2>1, <2>2 DEF Deletes
  <2>4. \A r \in HostRoutesTo(k, i, d) : \E m \in DeletionsFor(q, d) : RouteOf(q[m]) = r
    BY <1>2, <2>1, <2>2 DEF Deletes
  <2>5. ASSUME NEW l \in DeletionsFor(q, d), NEW m \in DeletionsFor(q, d), l < m
        PROVE  ~Ahead(k.routes, RouteOf(q[m]), RouteOf(q[l]))
    BY <1>2, <2>1, <2>2, <2>5 DEF Deletes
  <2> QED
    BY <2>3, <2>4, <2>5 DEF Deletes, q
<1>3. CASE Deletes(v, k, i, d) /\ DeletionsFor(u, d) = {}
  <2>1. \A m \in DeletionsFor(q, d) : m \in Nat /\ m - n \in DeletionsFor(v, d) /\ q[m] = v[m - n]
    BY <1>1, <1>3 DEF DeletionsFor
  <2>2. \A m \in DeletionsFor(v, d) : m + n \in DeletionsFor(q, d) /\ q[m + n] = v[m]
    BY <1>1 DEF DeletionsFor
  <2>3. \A m \in DeletionsFor(q, d) : RouteOf(q[m]) \in HostRoutesTo(k, i, d)
    BY <1>3, <2>1 DEF Deletes
  <2>4. \A r \in HostRoutesTo(k, i, d) : \E m \in DeletionsFor(q, d) : RouteOf(q[m]) = r
    BY <1>3, <2>2 DEF Deletes
  <2>5. ASSUME NEW l \in DeletionsFor(q, d), NEW m \in DeletionsFor(q, d), l < m
        PROVE  ~Ahead(k.routes, RouteOf(q[m]), RouteOf(q[l]))
    <3>1. l - n < m - n
      BY <1>1, <2>1, <2>5
    <3> QED
      BY <1>3, <2>1, <3>1 DEF Deletes
  <2> QED
    BY <2>3, <2>4, <2>5 DEF Deletes, q
<1> QED
  BY <1>2, <1>3

\* The steps that the lines of a block bring, and the deletions among them.
LEMMA BlockRemoves ==
    ASSUME NEW k, Sane(k), NEW i \in Ifaces, NEW p \in Nat, NEW d \in V4
    PROVE  LET q == ReadRoutes(k, i, p) IN
           /\ q \in Seq(StepOf(i)) /\ Removes(q, i)
           /\ \A m \in DeletionsFor(q, d) : RouteOf(q[m]) \in HostRoutesTo(k, i, d)
           /\ p = 0 /\ Len(Lines4(k)) <= LINES => Deletes(q, k, i, d)
<1> DEFINE b == Block(Lines4(k), p)
           rs == Keep(b, HostRoutes(b, i))
           ds == OnFailure("ignore", RouteDeletions(b, i))
           w == ThenRead("readroutes", i, p, Len(b))
           q == ReadRoutes(k, i, p)
<1>1. k.routes \in Seq(Route) /\ NoTwice(k.routes)
  BY CarriesNow
<1>2. /\ Lines4(k) \in Seq(Route) /\ NoTwice(Lines4(k))
      /\ Elements(Lines4(k)) = Elements(k.routes) \cap {r \in Elements(k.routes) : r.dst \in V4}
      /\ \A x, y : Ahead(Lines4(k), x, y) =>
            Ahead(k.routes, x, y) /\ x.dst \in V4 /\ y.dst \in V4
      /\ \A x, y : Ahead(k.routes, x, y) /\ x \in Elements(Lines4(k)) /\ y \in Elements(Lines4(k)) =>
            Ahead(Lines4(k), x, y)
  BY <1>1, KeepFacts DEF Lines4
<1>3. /\ b \in Seq(Route) /\ Len(b) \in Nat
      /\ \A x \in Elements(b) : x \in Elements(Lines4(k))
      /\ p = 0 /\ Len(Lines4(k)) <= LINES => b = Lines4(k)
  BY <1>2, BlockTyped
<1>4. /\ rs \in Seq(Route) /\ Elements(rs) = HostRoutes(b, i)
      /\ \A x, y : Ahead(rs, x, y) <=> Ahead(b, x, y) /\ x \in HostRoutes(b, i) /\ y \in HostRoutes(b, i)
      /\ NoTwice(b) => NoTwice(rs)
  <2> DEFINE S == HostRoutes(b, i)
             h == Keep(b, S)
  <2>1. S \subseteq Elements(b)
    BY DEF HostRoutes
  <2>2. b \in Seq(Route)
    BY <1>3
  <2> HIDE DEF b, S
  <2>3. /\ h \in Seq(Route) /\ Elements(h) = Elements(b) \cap S
        /\ \A x, y : Ahead(h, x, y) <=> Ahead(b, x, y) /\ x \in S /\ y \in S
        /\ NoTwice(b) => NoTwice(h)
    BY <2>2, KeepFacts
  <2>4. Elements(h) = S
    BY <2>1, <2>3
  <2> QED
    BY <2>3, <2>4 DEF S
<1>5. RouteDeletions(b, i) \in Seq(StepOf(i)) /\ w \in Seq(StepOf(i))
  BY <1>3, DeletionsTyped, ReadsOn
<1>6. ds \in Seq(StepOf(i)) /\ q = ds \o w /\ q \in Seq(StepOf(i))
  <2>1. ds \in Seq(StepOf(i))
    BY <1>5, FailingTyped
  <2> HIDE DEF ds, w
  <2>2. ds \o w \in Seq(StepOf(i))
    BY <1>5, <2>1, Joined
  <2> QED
    BY <2>1, <2>2 DEF ReadRoutes, ds, w
<1>7. RouteDeletions(b, i) = [m \in DOMAIN rs |-> Step("delroute", i, rs[m].dst, Bits, rs[m].gw)]
  BY DEF RouteDeletions
<1>8. ds = [m \in DOMAIN rs |->
              [Step("delroute", i, rs[m].dst, Bits, rs[m].gw) EXCEPT !.fail = "ignore"]]
  BY <1>7 DEF OnFailure
<1>9. \A m \in DOMAIN w : w[m].do = "readroutes" /\ w[m].dev = i /\ w[m].fail = "ignore" /\ m = 1
  BY DEF ThenRead, OnFailure, Step
<1> HIDE DEF b, rs, ds, w, q
<1>10. ASSUME NEW m \in DOMAIN ds
       PROVE  /\ m \in DOMAIN rs /\ ds[m].do = "delroute" /\ ds[m].fail = "ignore" /\ ds[m].dev = i
              /\ RouteOf(ds[m]) = rs[m] /\ rs[m] \in HostRoutes(b, i) /\ ds[m].a = rs[m].dst
  <2>1. m \in DOMAIN rs /\ rs[m] \in HostRoutes(b, i) /\ rs[m] \in Route
    BY <1>4, <1>8 DEF Elements
  <2>2. rs[m].dev = i /\ rs[m].plen = Bits
    BY <2>1 DEF HostRoutes
  <2>3. rs[m] = [dev |-> i, dst |-> rs[m].dst, plen |-> Bits, gw |-> rs[m].gw]
    BY <2>1, <2>2 DEF Route
  <2>4. ds[m] = [do |-> "delroute", dev |-> i, a |-> rs[m].dst, p |-> Bits, g |-> rs[m].gw, fail |-> "ignore"]
    BY <1>8, <2>1 DEF Step
  <2>5. RouteOf(ds[m]) = [dev |-> i, dst |-> rs[m].dst, plen |-> Bits, gw |-> rs[m].gw]
    BY <2>4 DEF RouteOf
  <2> QED
    BY <2>1, <2>3, <2>4, <2>5
<1>11. Removes(q, i)
  <2>1. Removes(ds, i) /\ \A m \in DOMAIN ds : ds[m].do # "readroutes"
    BY <1>10 DEF Removes
  <2>2. Removes(w, i)
    <3>1. \A m, l \in DOMAIN w : ~(m < l)
      BY <1>9
    <3> QED
      BY <1>9, <3>1 DEF Removes
  <2> QED
    BY <1>5, <1>6, <2>1, <2>2, RemovesJoined
<1>12. ASSUME NEW m \in DeletionsFor(q, d)
       PROVE  RouteOf(q[m]) \in HostRoutesTo(k, i, d)
  <2> DEFINE n == Len(ds)
  <2>1. m \in DOMAIN q /\ q[m].do = "delroute" /\ q[m].a = d
    BY DEF DeletionsFor
  <2>2. (m \in DOMAIN ds /\ q[m] = ds[m]) \/ (m - n \in DOMAIN w /\ q[m] = w[m - n])
    <3> HIDE DEF StepOf
    <3> QED
      BY <1>5, <1>6, <2>1
  <2>3. m \in DOMAIN ds /\ q[m] = ds[m]
    BY <1>9, <2>1, <2>2
  <2>4. RouteOf(q[m]) \in HostRoutes(b, i) /\ RouteOf(q[m]).dst = d
    BY <1>10, <2>1, <2>3
  <2>5. RouteOf(q[m]) \in HostRoutes(k.routes, i)
    BY <1>2, <1>3, <2>4 DEF HostRoutes
  <2> QED
    BY <2>4, <2>5 DEF HostRoutesTo
<1>13. ASSUME p = 0, Len(Lines4(k)) <= LINES
       PROVE  Deletes(q, k, i, d)
  <2>1. b = Lines4(k) /\ NoTwice(rs)
    BY <1>2, <1>3, <1>4, <1>13
  <2>2. HostRoutes(b, i) = HostRoutes(k.routes, i)
    BY <1>2, <2>1 DEF HostRoutes
  <2>3. DeletionsFor(w, d) = {}
    BY <1>9 DEF DeletionsFor
  <2>4. \A m \in DeletionsFor(ds, d) :
           m \in DOMAIN rs /\ RouteOf(ds[m]) = rs[m] /\ rs[m] \in HostRoutesTo(k, i, d)
    BY <1>10, <2>2 DEF DeletionsFor, HostRoutesTo
  <2>5. ASSUME NEW r \in HostRoutesTo(k, i, d)
        PROVE  \E m \in DeletionsFor(ds, d) : RouteOf(ds[m]) = r
    <3>1. PICK m \in DOMAIN rs : rs[m] = r
      BY <1>4, <2>2 DEF HostRoutesTo, Elements
    <3>2. m \in DOMAIN ds
      BY <1>8, <3>1
    <3> QED
      BY <1>10, <3>1, <3>2 DEF DeletionsFor, HostRoutesTo
  <2>6. ASSUME NEW l \in DeletionsFor(ds, d), NEW m \in DeletionsFor(ds, d), l < m
        PROVE  ~Ahead(k.routes, RouteOf(ds[m]), RouteOf(ds[l]))
    <3>1. /\ rs[m] \in HostRoutes(b, i) /\ rs[l] \in HostRoutes(b, i) /\ m \in DOMAIN rs /\ l \in DOMAIN rs
          /\ RouteOf(ds[m]) = rs[m] /\ RouteOf(ds[l]) = rs[l]
      BY <2>2, <2>4 DEF HostRoutesTo
    <3>2. ~Ahead(rs, rs[m], rs[l])
      <4> SUFFICES ASSUME NEW x \in DOMAIN rs, NEW y \in DOMAIN rs, x <= y, rs[x] = rs[m], rs[y] = rs[l]
                   PROVE  FALSE
        BY DEF Ahead
      <4>1. x = m /\ y = l
        BY <2>1, <3>1 DEF NoTwice
      <4>2. DOMAIN rs = 1 .. Len(rs)
        BY <1>4
      <4> QED
        BY <2>6, <4>1, <4>2
    <3>3. ~Ahead(b, rs[m], rs[l])
      BY <1>4, <3>1, <3>2
    <3>4. rs[m] \in Elements(Lines4(k)) /\ rs[l] \in Elements(Lines4(k))
      BY <2>1, <3>1 DEF HostRoutes
    <3> QED
      BY <1>2, <2>1, <3>1, <3>3, <3>4
  <2>7. Deletes(ds, k, i, d)
    BY <2>4, <2>5, <2>6 DEF Deletes
  <2> QED
    BY <1>5, <1>6, <2>3, <2>7, DeletesJoined
<1> QED
  BY <1>6, <1>11, <1>12, <1>13 DEF q

\* What follows when the table has begun to be read.
LEMMA ScanRemoves ==
    ASSUME NEW k, Sane(k), NEW i \in Ifaces, NEW d \in V4
    PROVE  LET q == ifc_init \o ReadRoutes(k, i, 0) \o ifc_close IN
           /\ q \in Seq(StepOf(i)) /\ Removes(q, i)
           /\ Len(Lines4(k)) <= LINES => Deletes(q, k, i, d)
<1> DEFINE r == ReadRoutes(k, i, 0)
<1>1. r \in Seq(StepOf(i)) /\ Removes(r, i) /\ (Len(Lines4(k)) <= LINES => Deletes(r, k, i, d))
  BY BlockRemoves
<1>2. ifc_init \in Seq(StepOf(i)) /\ ifc_close \in Seq(StepOf(i))
  BY SocketTyped DEF ifc_init, ifc_close, OfSockets
<1>3. /\ \A m \in DOMAIN ifc_init : ifc_init[m].do = "socket"
      /\ \A m \in DOMAIN ifc_close : ifc_close[m].do = "close"
  BY DEF ifc_init, ifc_close, Ioctl, Step
<1>4. Removes(ifc_init, i) /\ Removes(ifc_close, i)
  BY <1>3 DEF Removes
<1>5. DeletionsFor(ifc_init, d) = {} /\ DeletionsFor(ifc_close, d) = {}
  BY <1>3 DEF DeletionsFor
<1> HIDE DEF r
<1> DEFINE v == r \o ifc_close
<1>6. v \in Seq(StepOf(i)) /\ Removes(v, i) /\ (Len(Lines4(k)) <= LINES => Deletes(v, k, i, d))
  <2>1. v \in Seq(StepOf(i))
    BY <1>1, <1>2, Joined
  <2>2. Removes(v, i)
    <3>1. \A m \in DOMAIN r : r[m].do = "readroutes" => \A l \in DOMAIN r : m < l => r[l].do = "close"
      BY <1>1 DEF Removes
    <3> QED
      BY <1>1, <1>2, <1>3, <1>4, <3>1, RemovesJoined
  <2>3. Len(Lines4(k)) <= LINES => Deletes(v, k, i, d)
    BY <1>1, <1>2, <1>5, DeletesJoined
  <2> QED
    BY <2>1, <2>2, <2>3
<1> HIDE DEF v
<1>7. ifc_init \o v \in Seq(StepOf(i)) /\ Removes(ifc_init \o v, i)
  BY <1>2, <1>3, <1>4, <1>6, Joined, RemovesJoined
<1>8. Len(Lines4(k)) <= LINES => Deletes(ifc_init \o v, k, i, d)
  BY <1>2, <1>5, <1>6, DeletesJoined
<1>9. ifc_init \o v = ifc_init \o r \o ifc_close
  <2> HIDE DEF StepOf
  <2> QED
    BY <1>1, <1>2 DEF v
<1> QED
  BY <1>7, <1>8, <1>9 DEF r

LEMMA HostDoes ==
    ASSUME Typed, AllAccounted, NEW p \in Procs, NEW d \in V4, HostAt(proc[p], net, d),
           proc[p].todo # <<>>, Succeeds(p)
    PROVE  HostAt(proc'[p], net', d)
<1> DEFINE y == proc[p]
           z == proc'[p]
           q == y.todo
           s == Head(q)
           t == Tail(q)
           i == y.call.dev
<1>1. /\ Sane(net) /\ q # <<>> /\ i \in Ifaces /\ q \in Seq(StepOf(i)) /\ y.got \in GotRead
      /\ s = q[1] /\ t \in Seq(StepOf(i)) /\ s \in StepOf(i) /\ Certain(net, ctl[p], s) = {}
  <2>1. q \in Seq(StepOf(i)) /\ q # <<>> /\ i \in Ifaces
    BY DEF HostAt
  <2>2. s \in StepOf(i)
    <3> HIDE DEF StepOf
    <3> QED
      BY <2>1
  <2> QED
    BY <2>1, <2>2, TailOf DEF Typed, ProcessOK, Succeeds
<1>2. z.call = y.call /\ (s.do # "getflags" => z.todo \in Seq(StepOf(i)))
  BY <1>1, DoTyped, DoParts
<1>3. s.do # "getflags" => /\ z.todo = Unfolds(net, s) \o t /\ (Unfolds(net, s) = <<>> => z.todo = t)
                           /\ net' = Effect(net, y, s) /\ z.got = Reads(net, y.got, s)
  BY <1>1, Did
<1>4. CASE Scans(q) /\ s.dev = i
  <2> DEFINE u == ifc_init \o ReadRoutes(net, i, 0) \o ifc_close
  <2>1. u \in Seq(StepOf(i)) /\ Removes(u, i) /\ (Len(Lines4(net)) <= LINES => Deletes(u, net, i, d))
    BY <1>1, ScanRemoves
  <2>2. Unfolds(net, s) = u /\ s.do = "scanhosts" /\ t = <<>>
    BY <1>4 DEF Unfolds, Scans
  <2> HIDE DEF u
  <2>3. z.todo = u
    <3>1. z.todo = u \o <<>>
      BY <1>3, <2>2
    <3> HIDE DEF StepOf
    <3> QED
      BY <2>1, <3>1
  <2>4. net' = net
    BY <1>3, <2>2 DEF Effect
  <2>5. z.got.whole = (Len(Lines4(net)) <= LINES)
    <3>1. z.got = [y.got EXCEPT !.whole = Len(Lines4(net)) <= LINES]
      BY <1>3, <2>2 DEF Reads
    <3> QED
      BY <1>1, <3>1 DEF GotRead
  <2> QED
    BY <1>1, <1>2, <2>1, <2>2, <2>3, <2>4, <2>5 DEF HostAt
<1>5. CASE Removes(q, i) /\ (y.got.whole => Deletes(q, net, i, d))
  <2>1. /\ Removes(t, i) /\ 1 \in DOMAIN q
        /\ s.do = "readroutes" => \A m \in DOMAIN t : t[m].do = "close"
        /\ s.do \in {"socket", "close", "readroutes", "delroute"}
        /\ s.do \in {"readroutes", "delroute"} => s.dev = i
    BY <1>1, <1>5, RemovesRest DEF Removes
  <2>2. z.got = y.got
    BY <1>3, <2>1 DEF Reads
  <2>3. CASE s.do \in {"socket", "close"}
    <3>1. z.todo = t /\ net' = net
      BY <1>3, <2>3 DEF Unfolds, Effect
    <3>2. 1 \notin DeletionsFor(q, d)
      BY <1>1, <2>3 DEF DeletionsFor
    <3>3. y.got.whole => Deletes(t, net, i, d)
      BY <1>1, <1>5, <3>2, OtherGoesOn
    <3> QED
      BY <1>1, <1>2, <2>1, <2>2, <3>1, <3>3 DEF HostAt
  <2>4. CASE s.do = "delroute"
    <3>1. z.todo = t /\ net' = DelRoute(net, RouteOf(s))
      BY <1>3, <2>4 DEF Unfolds, Effect
    <3>2. Matches(net, RouteOf(s)) # {}
      <4>1. Wrong(net, s) = {}
        BY <1>1, <2>4, NothingWrong DEF OfDevice, OnSock
      <4> QED
        BY <2>4, <4>1, WrongNot
    <3>3. y.got.whole => Deletes(t, net', i, d)
      BY <1>1, <1>5, <2>4, <3>1, <3>2, DeletionGoesOn
    <3> QED
      BY <1>1, <1>2, <2>1, <2>2, <3>1, <3>3 DEF HostAt
  <2>5. CASE s.do = "readroutes"
    <3> DEFINE u == ReadRoutes(net, i, s.p)
    <3>1. s.p \in Nat /\ Unfolds(net, s) = u /\ net' = net
      <4>1. s.p \in Nat
        BY <1>1, <2>5 DEF StepOf, Fits
      <4>2. s.dev = i
        BY <2>1, <2>5
      <4> QED
        BY <1>3, <2>5, <4>1, <4>2 DEF Unfolds, Effect
    <3>2. /\ u \in Seq(StepOf(i)) /\ Removes(u, i)
          /\ \A m \in DeletionsFor(u, d) : RouteOf(u[m]) \in HostRoutesTo(net, i, d)
      BY <1>1, <3>1, BlockRemoves
    <3> HIDE DEF u
    <3>3. z.todo = u \o t /\ \A m \in DOMAIN t : t[m].do = "close"
      BY <1>3, <2>1, <2>5, <3>1
    <3>4. Removes(u \o t, i)
      <4>1. \A m \in DOMAIN u : u[m].do = "readroutes" => \A l \in DOMAIN u : m < l => u[l].do = "close"
        BY <3>2 DEF Removes
      <4> QED
        BY <1>1, <2>1, <3>2, <3>3, <4>1, RemovesJoined
    <3>5. y.got.whole => Deletes(u \o t, net, i, d)
      <4> SUFFICES ASSUME y.got.whole
                   PROVE  Deletes(u \o t, net, i, d)
        OBVIOUS
      <4>1. DeletionsFor(t, d) = {}
        BY <3>3 DEF DeletionsFor
      <4>2. 1 \notin DeletionsFor(q, d)
        BY <1>1, <2>5 DEF DeletionsFor
      <4>3. Deletes(t, net, i, d)
        BY <1>1, <1>5, <4>2, OtherGoesOn
      <4>4. HostRoutesTo(net, i, d) = {}
        BY <4>1, <4>3 DEF Deletes
      <4>5. DeletionsFor(u, d) = {}
        BY <3>2, <4>4
      <4> QED
        BY <1>1, <3>2, <4>3, <4>5, DeletesJoined
    <3> QED
      BY <1>1, <1>2, <2>2, <2>5, <3>1, <3>3, <3>4, <3>5 DEF HostAt
  <2> QED
    BY <2>1, <2>3, <2>4, <2>5
<1> QED
  BY <1>4, <1>5 DEF HostAt

LEMMA HostFails ==
    ASSUME Typed, NEW p \in Procs, NEW d \in V4, HostAt(proc[p], net, d), proc[p].todo # <<>>,
           NEW e, Fails(p, e), ~FailedFor(p, "delroute", d)'
    PROVE  HostAt(proc'[p], net', d)
<1> DEFINE y == proc[p]
           z == proc'[p]
           q == y.todo
           s == Head(q)
           t == Tail(q)
           i == y.call.dev
<1>1. /\ Sane(net) /\ q # <<>> /\ i \in Ifaces /\ q \in Seq(StepOf(i))
      /\ s = q[1] /\ t \in Seq(StepOf(i))
  BY TailOf DEF Typed, HostAt
<1>2. /\ net' = net /\ z.call = y.call /\ z.got = y.got /\ z.todo \in Seq(StepOf(i))
      /\ z.todo = (IF GoesOn(s, e) THEN t ELSE IF s.fail = "return" THEN <<>> ELSE Closes(t))
      /\ z.errs = y.errs \cup {<<s, e>>}
  BY <1>1, FailTyped
<1>3. CASE Scans(q) /\ s.dev = i /\ ~y.got.whole
  <2>1. t = <<>>
    BY <1>3 DEF Scans
  <2>2. z.todo = <<>>
    <3>1. Closes(t) = <<>>
      <4>1. Closes(t) \in Seq(StepOf(i)) /\ Elements(Closes(t)) \subseteq Elements(t)
        BY <1>1, ClosesTyped
      <4>2. Elements(t) = {}
        BY <2>1 DEF Elements
      <4>3. DOMAIN Closes(t) = {}
        BY <4>1, <4>2 DEF Elements
      <4> HIDE DEF StepOf
      <4> QED
        BY <4>1, <4>3
    <3> QED
      BY <1>2, <2>1, <3>1
  <2>3. Removes(<<>>, i)
    BY DEF Removes
  <2> QED
    BY <1>1, <1>2, <1>3, <2>2, <2>3 DEF HostAt
<1>4. CASE Removes(q, i) /\ (y.got.whole => Deletes(q, net, i, d))
  <2>1. /\ Removes(t, i) /\ 1 \in DOMAIN q
        /\ s.do \in {"socket", "close", "readroutes", "delroute"}
        /\ s.do \in {"readroutes", "delroute"} => s.fail = "ignore"
    BY <1>1, <1>4, RemovesRest DEF Removes
  <2>2. s.do # "close"
    BY DEF Fails, Outcomes, Sure, Certain, OnSock, OnSock6, OfDevice
  <2>3. z.todo = t
    BY <1>2, <2>1, <2>2 DEF GoesOn
  <2>4. y.got.whole => Deletes(t, net, i, d)
    <3> SUFFICES ASSUME y.got.whole
                 PROVE  Deletes(t, net, i, d)
      OBVIOUS
    <3>1. 1 \notin DeletionsFor(q, d)
      <4> SUFFICES ASSUME 1 \in DeletionsFor(q, d)
                   PROVE  FALSE
        OBVIOUS
      <4>1. s.do = "delroute" /\ s.a = d /\ RouteOf(s) \in HostRoutesTo(net, i, d)
        BY <1>1, <1>4 DEF DeletionsFor, Deletes
      <4>2. e = "ESRCH"
        <5>1. <<s, e>> \in proc'[p].errs /\ <<s, e>>[1] = s /\ <<s, e>>[2] = e
          BY FailTyped
        <5> HIDE DEF s
        <5> QED
          BY <4>1, <5>1 DEF FailedFor
      <4>3. e \in Certain(net, ctl[p], s)
        BY <4>2 DEF Fails, Outcomes, Sure
      <4>4. Matches(net, RouteOf(s)) = {}
        BY <4>1, <4>2, <4>3 DEF Certain, Wrong
      <4>5. PICK h \in DOMAIN net.routes : net.routes[h] = RouteOf(s)
        BY <4>1 DEF HostRoutesTo, HostRoutes, Elements
      <4>6. RouteOf(s) = [RouteOf(s) EXCEPT !.gw = RouteOf(s).gw]
        BY DEF RouteOf
      <4>7. h \in Matches(net, RouteOf(s))
        BY <4>5, <4>6 DEF Matches
      <4> QED
        BY <4>4, <4>7
    <3> QED
      BY <1>1, <1>4, <3>1, OtherGoesOn
  <2> QED
    BY <1>1, <1>2, <2>1, <2>3, <2>4 DEF HostAt
<1> QED
  BY <1>3, <1>4 DEF HostAt

LEMMA InitRemoving == Init => HostInv
BY DEF Init, IfcInit, HostInv, Removing, NoCall

LEMMA RemovingKept ==
    ASSUME Typed, AllAccounted, DOMAIN held = Procs, HostInv, [Next]_vars
    PROVE  HostInv'
<1> SUFFICES ASSUME NEW p \in Procs, Removing(p)', NEW d \in V4, ~FailedFor(p, "delroute", d)'
             PROVE  HostAt(proc'[p], net', d)
  BY DEF HostInv
<1>1. Removing(p) /\ ~FailedFor(p, "delroute", d) => HostAt(proc[p], net, d)
  BY DEF HostInv
<1>2. CASE Waits(p)
  <2>1. proc'[p] = proc[p] /\ calm[p]
    BY <1>2 DEF Waits, Removing
  <2>2. HostAt(proc[p], net, d)
    BY <1>1, <2>1 DEF Removing, FailedFor
  <2>3. View(net', Dev(p)) = View(net, Dev(p))
    BY <1>2, <2>2 DEF Waits, HostAt, Dev, Removing
  <2>4. Sane(net) /\ Sane(net')
    BY TypedKept DEF Typed
  <2>5. \A q : Deletes(q, net, Dev(p), d) => Deletes(q, net', Dev(p), d)
    BY <2>3, <2>4, SeenHostRoutes
  <2> QED
    BY <2>1, <2>2, <2>5 DEF HostAt, Dev
<1>3. CASE Begins(p)
  <2>1. PICK c \in Calls : proc'[p].call = c /\ proc'[p].todo = Program(c) /\ ~proc'[p].got.whole
    BY <1>3 DEF Begins, NothingRead
  <2>2. c.fn = "ifc_remove_host_routes" /\ c.dev \in Ifaces /\ Program(c) \in Seq(StepOf(c.dev))
    BY <2>1, CallKinds, ProgramTyped
    DEF Removing, SocketCalls, AddrCalls, Ipv4Calls, Configuring
  <2>3. Program(c) = << Step("scanhosts", c.dev, Any4, 0, Any4) >>
    BY <2>2 DEF Program, ifc_remove_host_routes, Ioctl
  <2>4. Scans(Program(c)) /\ Head(Program(c)).dev = c.dev
    BY <2>3 DEF Scans, Step
  <2> QED
    BY <2>1, <2>2, <2>4 DEF HostAt
<1>4. ASSUME calm'[p] = calm[p], proc[p].todo # <<>>, NEW e, Fails(p, e)
      PROVE  HostAt(proc'[p], net', d)
  <2>1. proc'[p].call = proc[p].call /\ proc[p].errs \subseteq proc'[p].errs
    BY <1>4, FailTyped
  <2>2. HostAt(proc[p], net, d)
    BY <1>1, <1>4, <2>1 DEF Removing, FailedFor
  <2> QED
    BY <1>4, <2>2, HostFails
<1>5. ASSUME calm'[p] = calm[p], proc[p].todo # <<>>, Succeeds(p)
      PROVE  HostAt(proc'[p], net', d)
  <2>1. proc'[p].call = proc[p].call /\ proc'[p].errs = proc[p].errs
    BY <1>5, DoParts
  <2> QED
    BY <1>1, <1>5, <2>1, HostDoes DEF Removing, FailedFor
<1> QED
  BY <1>2, <1>3, <1>4, <1>5, StepOfProcess DEF GoesFurther

\* ifc_remove_host_routes that read /proc/net/route in one piece leaves a host route of
\* its interface only to a destination for which a deletion failed, whatever gateways
\* the routes have: each deletion that succeeds has taken the route that it means.
THEOREM HostRoutesAreGone == Spec => []HostRoutesGo
<1>1. Typed /\ HostInv => HostRoutesGo
  <2> SUFFICES ASSUME Typed, HostInv, NEW p \in Procs, Returned(p, {"ifc_remove_host_routes"}),
                      proc[p].got.whole, NEW r \in HostRoutes(net.routes, Dev(p)),
                      ~FailedFor(p, "delroute", r.dst)
               PROVE  FALSE
    BY DEF HostRoutesGo
  <2>1. r.dst \in V4
    BY DEF HostRoutes
  <2>2. HostAt(proc[p], net, r.dst) /\ proc[p].todo = <<>>
    BY <2>1 DEF HostInv, Removing, Returned, Idle
  <2>3. Deletes(<<>>, net, Dev(p), r.dst)
    BY <2>2 DEF HostAt, Scans, Dev
  <2>4. r \in HostRoutesTo(net, Dev(p), r.dst) /\ DeletionsFor(<<>>, r.dst) = {}
    BY DEF HostRoutesTo, DeletionsFor
  <2> QED
    BY <2>3, <2>4 DEF Deletes
<1> DEFINE Inv == Typed /\ AllAccounted /\ DOMAIN held = Procs /\ HostInv
<1>2. Init => Inv
  BY InitTyped, InitAccounted, InitRemoving DEF Init
<1>3. Inv /\ [Next]_vars => Inv'
  BY TypedKept, AccountedKept, HeldStays, RemovingKept
<1>4. Inv => HostRoutesGo
  BY <1>1
<1> HIDE DEF Inv
<1> QED
  BY <1>2, <1>3, <1>4, PTL DEF Spec

(***************************************************************************)
(* Configuring an interface.                                               *)
(***************************************************************************)

\* All steps that a configuration has; ifc_configure begins with the ninth.
Whole(c) == do_dhcp(c.dev, c.a, c.p, c.g, c.dns)

Fields == {"do", "dev", "a", "p", "g", "fail"}

\* What the steps are, and what a failure of each comes to.
Kinds(w) ==
    /\ w[1].do = "setaddr" /\ w[2].do = "getflags" /\ w[3].do = "gethwaddr"
    /\ w[4].do = "getindex" /\ w[5].do = "rawsocket" /\ w[6].do = "exchange"
    /\ w[7].do = "rawclose" /\ w[8].do = "verdict" /\ w[9].do = "socket"
    /\ w[10].do = "getflags" /\ w[11].do = "setaddr" /\ w[12].do \in {"setmask", "refuse"}
    /\ w[13].do = "socket" /\ w[14].do = "addroute" /\ w[15].do = "close"
    /\ w[16].do = "close" /\ w[17].do = "setdns" /\ w[18].do = "setdns"
Failures(w) ==
    /\ \A n \in 1 .. 6 : w[n].fail = "return"
    /\ w[7].fail = "ignore" /\ w[8].fail = "return"
    /\ \A n \in 9 .. 16 : w[n].fail = "abort"
    /\ w[17].fail = "ignore" /\ w[18].fail = "ignore"

LEMMA FailingSteps ==
    ASSUME NEW how, NEW a, NEW b
    PROVE  /\ OnFailure(how, <<a>>) = << [a EXCEPT !.fail = how] >>
           /\ OnFailure(how, <<a, b>>) = << [a EXCEPT !.fail = how], [b EXCEPT !.fail = how] >>
BY DEF OnFailure

LEMMA WholeSteps ==
    ASSUME NEW c, c.p \in Int, c.dns \in V4 \X V4
    PROVE  LET w == Whole(c)
               i == c.dev
           IN  /\ DOMAIN w = 1 .. 18 /\ Kinds(w) /\ Failures(w)
               /\ \A n \in 1 .. 18 : DOMAIN w[n] = Fields /\ (w[n].do \in {"socket", "close"} \/ w[n].dev = i)
               /\ w[10].p = 1 /\ w[11].a = c.a
               /\ w[12].do = "setmask" => w[12].p = c.p /\ c.p <= Bits /\ ~(c.p < 0)
               /\ RouteOf(w[14]) = [dev |-> i, dst |-> Any4, plen |-> MaskLength(0), gw |-> c.g]
               /\ w[17].p = 1 /\ w[17].a = c.dns[1] /\ w[18].p = 2 /\ w[18].a = c.dns[2]
               /\ LET q == ifc_configure(i, c.a, c.p, c.g, c.dns) IN
                  DOMAIN q = 1 .. 10 /\ \A n \in 1 .. 10 : q[n] = w[n + 8]
<1> DEFINE i == c.dev
           as(how, s) == [s EXCEPT !.fail = how]
           zero == as("return", Step("setaddr", i, Any4, 0, Any4))
           up0 == as("return", Step("getflags", i, Any4, 1, Any4))
           hw == as("return", Step("gethwaddr", i, Any4, 0, Any4))
           ix == as("return", Step("getindex", i, Any4, 0, Any4))
           rs == as("return", Step("rawsocket", i, Any4, 0, Any4))
           ex == as("return", Step("exchange", i, Any4, 0, Any4))
           rc == as("ignore", Step("rawclose", i, Any4, 0, Any4))
           ve == as("return", Step("verdict", i, Any4, 0, Any4))
           up == Step("getflags", i, Any4, 1, Any4)
           open == Step("socket", NoDev, Any4, 0, Any4)
           set == Step("setaddr", i, c.a, 0, Any4)
           mask == IF c.p > Bits \/ c.p < 0 THEN Step("refuse", i, Any4, 0, Any4)
                   ELSE Step("setmask", i, Any4, c.p, Any4)
           route == Step("addroute", i, Any4, MaskLength(0), c.g)
           close == Step("close", NoDev, Any4, 0, Any4)
           dns1 == as("ignore", Step("setdns", i, c.dns[1], 1, Any4))
           dns2 == as("ignore", Step("setdns", i, c.dns[2], 2, Any4))
<1>1. ifc_set_prefixLength(i, c.p) = <<mask>>
  BY DEF ifc_set_prefixLength, Ioctl, ifc_set_mask
<1>2. ifc_create_default_route(i, c.g) = <<open>> \o <<route>> \o <<close>>
  BY DEF ifc_create_default_route, ifc_act_on_ipv4_route, ifc_init, ifc_close, Ioctl
<1>3. SetDns(i, c.dns) = <<dns1, dns2>>
  BY FailingSteps DEF SetDns
<1>4. /\ zero.do = "setaddr" /\ zero.fail = "return" /\ zero.dev = i
      /\ up0.do = "getflags" /\ up0.fail = "return" /\ up0.dev = i
      /\ hw.do = "gethwaddr" /\ hw.fail = "return" /\ hw.dev = i
      /\ ix.do = "getindex" /\ ix.fail = "return" /\ ix.dev = i
      /\ rs.do = "rawsocket" /\ rs.fail = "return" /\ rs.dev = i
      /\ ex.do = "exchange" /\ ex.fail = "return" /\ ex.dev = i
      /\ rc.do = "rawclose" /\ rc.fail = "ignore" /\ rc.dev = i
      /\ ve.do = "verdict" /\ ve.fail = "return" /\ ve.dev = i
      /\ up.do = "getflags" /\ up.fail = "abort" /\ up.dev = i /\ up.p = 1
      /\ open.do = "socket" /\ open.fail = "abort"
      /\ set.do = "setaddr" /\ set.fail = "abort" /\ set.dev = i /\ set.a = c.a
      /\ route.do = "addroute" /\ route.fail = "abort" /\ route.dev = i
      /\ close.do = "close" /\ close.fail = "abort"
  BY DEF Step
<1>5. /\ dns1.do = "setdns" /\ dns1.fail = "ignore" /\ dns1.dev = i /\ dns1.p = 1 /\ dns1.a = c.dns[1]
      /\ dns2.do = "setdns" /\ dns2.fail = "ignore" /\ dns2.dev = i /\ dns2.p = 2 /\ dns2.a = c.dns[2]
      /\ RouteOf(route) = [dev |-> i, dst |-> Any4, plen |-> MaskLength(0), gw |-> c.g]
  BY DEF Step, RouteOf
<1>6. /\ mask.do \in {"setmask", "refuse"} /\ mask.fail = "abort" /\ mask.dev = i
      /\ mask.do = "setmask" => mask.p = c.p /\ c.p <= Bits /\ ~(c.p < 0)
  <2>1. CASE c.p > Bits \/ c.p < 0
    <3>1. mask = Step("refuse", i, Any4, 0, Any4)
      BY <2>1
    <3> HIDE DEF mask
    <3> QED
      BY <3>1 DEF Step
  <2>2. CASE ~(c.p > Bits \/ c.p < 0)
    <3>1. mask = Step("setmask", i, Any4, c.p, Any4)
      BY <2>2
    <3>2. c.p <= Bits
      BY <2>2, BitsAssumption
    <3> HIDE DEF mask
    <3> QED
      BY <2>2, <3>1, <3>2 DEF Step
  <2> QED
    BY <2>1, <2>2
<1>7. \A x \in {zero, up0, hw, ix, rs, ex, rc, ve, up, open, set, mask, route, close, dns1, dns2} :
         DOMAIN x = Fields
  BY DEF Step, Fields
<1> DEFINE S == {zero, up0, hw, ix, rs, ex, rc, ve, up, open, set, mask, route, close, dns1, dns2}
           q == ifc_configure(i, c.a, c.p, c.g, c.dns)
           w == Whole(c)
           last == <<open>> \o <<up>> \o <<set>> \o <<mask>> \o (<<open>> \o <<route>> \o <<close>>) \o <<close>>
                   \o <<dns1, dns2>>
           whole == <<zero, up0, hw, ix, rs, ex>> \o <<rc>> \o <<ve>> \o last
<1>8. q = last
  BY <1>1, <1>2, <1>3
  DEF ifc_configure, ifc_init, ifc_close, ifc_up, ifc_set_flags, ifc_set_addr, Ioctl
<1>9. w = whole
  <2> DEFINE f == ifc_set_addr(i, Any4) \o ifc_up(i) \o ifc_get_hwaddr(i) \o ifc_get_ifindex(i)
                  \o Ioctl("rawsocket", i) \o Ioctl("exchange", i)
  <2>1. f = << Step("setaddr", i, Any4, 0, Any4) >> \o << Step("getflags", i, Any4, 1, Any4) >>
            \o << Step("gethwaddr", i, Any4, 0, Any4) >> \o << Step("getindex", i, Any4, 0, Any4) >>
            \o << Step("rawsocket", i, Any4, 0, Any4) >> \o << Step("exchange", i, Any4, 0, Any4) >>
    BY ZenonT(30) DEF ifc_up, ifc_set_flags, ifc_set_addr, ifc_get_hwaddr, ifc_get_ifindex, Ioctl
  <2>2. OnFailure("return", f) = <<zero, up0, hw, ix, rs, ex>>
    <3> DEFINE s1 == Step("setaddr", i, Any4, 0, Any4)
               s2 == Step("getflags", i, Any4, 1, Any4)
               s3 == Step("gethwaddr", i, Any4, 0, Any4)
               s4 == Step("getindex", i, Any4, 0, Any4)
               s5 == Step("rawsocket", i, Any4, 0, Any4)
               s6 == Step("exchange", i, Any4, 0, Any4)
    <3>1. f = <<s1>> \o <<s2>> \o <<s3>> \o <<s4>> \o <<s5>> \o <<s6>>
      BY <2>1
    <3> HIDE DEF s1, s2, s3, s4, s5, s6
    <3>2. /\ DOMAIN f = 1 .. 6
          /\ f[1] = s1 /\ f[2] = s2 /\ f[3] = s3 /\ f[4] = s4 /\ f[5] = s5 /\ f[6] = s6
      <4> DEFINE g == <<s1>> \o <<s2>> \o <<s3>> \o <<s4>> \o <<s5>> \o <<s6>>
      <4>1. /\ DOMAIN g = 1 .. 6
            /\ g[1] = s1 /\ g[2] = s2 /\ g[3] = s3 /\ g[4] = s4 /\ g[5] = s5 /\ g[6] = s6
        OBVIOUS
      <4> HIDE DEF f
      <4> QED
        BY <3>1, <4>1
    <3> HIDE DEF f
    <3>3. OnFailure("return", f) = [n \in 1 .. 6 |-> [f[n] EXCEPT !.fail = "return"]]
      BY <3>2 DEF OnFailure
    <3>4. [n \in 1 .. 6 |-> [f[n] EXCEPT !.fail = "return"]] =
              << as("return", s1), as("return", s2), as("return", s3), as("return", s4),
                 as("return", s5), as("return", s6) >>
      BY <3>2
    <3> QED
      BY <3>3, <3>4 DEF s1, s2, s3, s4, s5, s6
  <2>3. /\ OnFailure("ignore", Ioctl("rawclose", i)) = <<rc>>
        /\ OnFailure("return", Ioctl("verdict", i)) = <<ve>>
    BY FailingSteps DEF Ioctl
  <2>4. w = OnFailure("return", f) \o OnFailure("ignore", Ioctl("rawclose", i))
            \o OnFailure("return", Ioctl("verdict", i)) \o q
    BY DEF Whole, do_dhcp, open_raw_socket, dhcp_configure
  <2> HIDE DEF zero, up0, hw, ix, rs, ex, rc, ve, f, q, w, last
  <2> QED
    BY <1>8, <2>2, <2>3, <2>4
<1>10. \A s \in S : DOMAIN s = Fields /\ (s.do \in {"socket", "close"} \/ s.dev = i)
  <2>1. \A s : s \in S => s \in {zero, up0, hw, ix, rs, ex, rc, ve, up, open, set, mask, route, close, dns1, dns2}
    OBVIOUS
  <2> HIDE DEF zero, up0, hw, ix, rs, ex, rc, ve, up, open, set, mask, route, close, dns1, dns2, S
  <2> QED
    BY <1>4, <1>5, <1>6, <1>7, <2>1
<1> HIDE DEF zero, up0, hw, ix, rs, ex, rc, ve, up, open, set, mask, route, close, dns1, dns2
<1>11. /\ DOMAIN last = 1 .. 10
       /\ last[1] = open /\ last[2] = up /\ last[3] = set /\ last[4] = mask /\ last[5] = open
       /\ last[6] = route /\ last[7] = close /\ last[8] = close /\ last[9] = dns1 /\ last[10] = dns2
  OBVIOUS
<1>12. /\ DOMAIN whole = 1 .. 18
       /\ whole[1] = zero /\ whole[2] = up0 /\ whole[3] = hw /\ whole[4] = ix /\ whole[5] = rs
       /\ whole[6] = ex /\ whole[7] = rc /\ whole[8] = ve
       /\ whole[9] = open /\ whole[10] = up /\ whole[11] = set /\ whole[12] = mask /\ whole[13] = open
       /\ whole[14] = route /\ whole[15] = close /\ whole[16] = close /\ whole[17] = dns1 /\ whole[18] = dns2
  OBVIOUS
<1>13. /\ zero \in S /\ up0 \in S /\ hw \in S /\ ix \in S /\ rs \in S /\ ex \in S /\ rc \in S /\ ve \in S
       /\ up \in S /\ open \in S /\ set \in S
       /\ mask \in S /\ route \in S /\ close \in S /\ dns1 \in S /\ dns2 \in S
  OBVIOUS
<1> HIDE DEF last, whole, q, w, S
<1>14. \A n \in 1 .. 10 : q[n] = w[n + 8]
  <2> SUFFICES ASSUME NEW n \in 1 .. 10
               PROVE  last[n] = whole[n + 8]
    BY <1>8, <1>9
  <2>1. n = 1 \/ n = 2 \/ n = 3 \/ n = 4 \/ n = 5 \/ n = 6 \/ n = 7 \/ n = 8 \/ n = 9 \/ n = 10
    OBVIOUS
  <2> QED
    BY <1>11, <1>12, <2>1
<1>15. \A n \in 1 .. 18 : w[n] \in S
  <2> SUFFICES ASSUME NEW n \in 1 .. 18
               PROVE  whole[n] \in S
    BY <1>9
  <2>1. \/ n = 1 \/ n = 2 \/ n = 3 \/ n = 4 \/ n = 5 \/ n = 6 \/ n = 7 \/ n = 8 \/ n = 9
        \/ n = 10 \/ n = 11 \/ n = 12 \/ n = 13 \/ n = 14 \/ n = 15 \/ n = 16 \/ n = 17 \/ n = 18
    OBVIOUS
  <2> QED
    BY <1>12, <1>13, <2>1
<1>16. Kinds(w)
  BY <1>4, <1>5, <1>6, <1>9, <1>12 DEF Kinds
<1>17. Failures(w)
  <2>1. \A n \in 1 .. 6 : n = 1 \/ n = 2 \/ n = 3 \/ n = 4 \/ n = 5 \/ n = 6
    OBVIOUS
  <2>2. \A n \in 9 .. 16 :
           n = 9 \/ n = 10 \/ n = 11 \/ n = 12 \/ n = 13 \/ n = 14 \/ n = 15 \/ n = 16
    OBVIOUS
  <2> QED
    BY <1>4, <1>5, <1>6, <1>9, <1>12, <2>1, <2>2 DEF Failures
<1> QED
  BY <1>4, <1>5, <1>6, <1>8, <1>9, <1>10, <1>11, <1>12, <1>14, <1>15, <1>16, <1>17 DEF w, q

\* What is left of a configuration of which n - 1 steps are done; of its next step
\* the first half, SIOCGIFFLAGS, may be done too.
At(q, n, c) ==
    LET w == Whole(c) IN
    /\ DOMAIN q = 1 .. 19 - n /\ \A m \in DOMAIN q : m # 1 => q[m] = w[m + n - 1]
    /\ q # <<>> => q[1] = w[n] \/ (w[n].do = "getflags" /\ q[1] = SetsFlags(w[n]))

\* What an undisturbed configuration knows when n - 1 steps are done, if the steps
\* errs among them failed.
DnsIs(k, c, errs, m) ==
    k.dns[c.dev][m] = c.dns[m] \/ \E f \in errs : f[1].do = "setdns" /\ f[1].p = m
Known(k, c, errs, n) ==
    LET link == k.link[c.dev] IN
    /\ n >= 11 => Up(k, c.dev)
    /\ n >= 12 => c.a \in Elements(link.addrs)
    /\ n >= 13 => link.mask = prefixLengthToIpv4Netmask(c.p) /\ c.p \in PrefixLength
    /\ n >= 15 => HasRoute(k, DefaultRoute(c.dev, c.g))
    /\ n >= 18 => DnsIs(k, c, errs, 1)
    /\ n >= 19 => DnsIs(k, c, errs, 2)

\* The packet socket is open after the fifth step, and stays open when the sixth or
\* the seventh failed; no control socket is opened before the ninth.
Leaves(y) == \E f \in y.errs : f[1].do \in {"exchange", "rawclose"}
Opened(y, cs, h, n) ==
    /\ h.raw \in Nat /\ cs.raw = h.raw + (IF n \in {6, 7} \/ Leaves(y) THEN 1 ELSE 0)
    /\ n <= 7 => ~Leaves(y)
    /\ n <= 8 => cs.sock \in h.open \cup {NoSock} /\ cs.sock6 \in h.open \cup {NoSock}

\* A configuration that has failed has only sockets to close.
ConfigureAt(y, k, quiet, cs, h) ==
    \/ y.ret = "error" /\ Lasts(y.todo) /\ Opened(y, cs, h, 19)
    \/ /\ y.ret = "ok"
       /\ \E n \in 1 .. 19 :
             /\ At(y.todo, n, y.call) /\ Opened(y, cs, h, n)
             /\ quiet /\ y.call.a # Any4 => Known(k, y.call, y.errs, n)

Configures(p) == proc[p].call.fn \in Configuring
ConfigureInv == \A p \in Procs : Configures(p) => ConfigureAt(proc[p], net, calm[p], ctl[p], held[p])

ConfigureCall(c) ==
    c.dev \in Ifaces /\ c.a \in V4 /\ c.p \in Int /\ c.g \in V4 /\ c.dns \in V4 \X V4

LEMMA ConfigureProgram ==
    ASSUME NEW c \in Calls, c.fn \in Configuring
    PROVE  \E n \in {1, 9} : At(Program(c), n, c)
<1> DEFINE w == Whole(c)
           q == ifc_configure(c.dev, c.a, c.p, c.g, c.dns)
<1>1. c.p \in Int /\ c.dns \in V4 \X V4
  BY CallKinds DEF SocketCalls, PlainCalls, AddrCalls, Ipv4Calls, Configuring
<1>2. /\ DOMAIN w = 1 .. 18 /\ DOMAIN q = 1 .. 10 /\ \A n \in 1 .. 10 : q[n] = w[n + 8]
  BY <1>1, WholeSteps
<1>3. CASE c.fn = "do_dhcp"
  <2>1. Program(c) = w
    BY <1>3 DEF Program, Whole
  <2> HIDE DEF w
  <2>2. At(w, 1, c)
    <3>1. DOMAIN w = 1 .. 19 - 1 /\ \A m \in DOMAIN w : m + 1 - 1 = m
      BY <1>2
    <3> QED
      BY <3>1 DEF At, w
  <2> QED
    BY <2>1, <2>2
<1>4. CASE c.fn = "ifc_configure"
  <2>1. Program(c) = q
    BY <1>4 DEF Program
  <2> HIDE DEF w, q
  <2>2. At(q, 9, c)
    <3>1. DOMAIN q = 1 .. 19 - 9 /\ 1 \in 1 .. 10 /\ \A m \in DOMAIN q : m \in 1 .. 10 /\ m + 9 - 1 = m + 8
      BY <1>2
    <3>2. q[1] = w[9]
      BY <1>2
    <3> QED
      BY <1>2, <3>1, <3>2 DEF At, w
  <2> QED
    BY <2>1, <2>2
<1> QED
  BY <1>3, <1>4 DEF Configuring

\* The next step, and what is left after it.
LEMMA NextStep ==
    ASSUME NEW S, NEW q \in Seq(S), q # <<>>, NEW c, NEW n \in 1 .. 19, At(q, n, c)
    PROVE  LET s == Whole(c)[n] IN
           /\ n <= 18 /\ At(Tail(q), n + 1, c)
           /\ Head(q) = s \/ (s.do = "getflags" /\ Head(q) = SetsFlags(s))
<1> DEFINE w == Whole(c)
           t == Tail(q)
<1>1. /\ 1 \in DOMAIN q /\ Head(q) = q[1]
      /\ \A m \in DOMAIN t : m \in Nat \ {0} /\ m + 1 \in DOMAIN q /\ t[m] = q[m + 1]
  BY TailParts
<1>2. DOMAIN q = 1 .. 19 - n /\ \A m \in DOMAIN q : m # 1 => q[m] = w[m + n - 1]
  BY DEF At
<1>3. n <= 18
  BY <1>1, <1>2
<1>4. DOMAIN t = 1 .. 19 - (n + 1)
  <2>1. Len(q) = 19 - n
    BY <1>2, <1>3
  <2> QED
    BY <2>1, <1>3
<1> HIDE DEF w, t
<1>5. \A m \in DOMAIN t : t[m] = w[m + (n + 1) - 1]
  <2> SUFFICES ASSUME NEW m \in DOMAIN t
               PROVE  t[m] = w[m + (n + 1) - 1]
    OBVIOUS
  <2>1. m + 1 \in DOMAIN q /\ m + 1 # 1 /\ t[m] = q[m + 1] /\ (m + 1) + n - 1 = m + (n + 1) - 1
    BY <1>1
  <2> QED
    BY <1>2, <2>1
<1>6. t # <<>> => t[1] = w[n + 1]
  <2> SUFFICES ASSUME t # <<>>
               PROVE  t[1] = w[n + 1]
    OBVIOUS
  <2>1. 1 \in DOMAIN t
    BY <1>3, <1>4 DEF t
  <2>2. 1 + (n + 1) - 1 = n + 1
    OBVIOUS
  <2> QED
    BY <1>5, <2>1, <2>2
<1>7. At(t, n + 1, c)
  BY <1>4, <1>5, <1>6 DEF At, w
<1>8. Head(q) = w[n] \/ (w[n].do = "getflags" /\ Head(q) = SetsFlags(w[n]))
  BY <1>1 DEF At, w
<1> QED
  BY <1>3, <1>7, <1>8 DEF w, t

LEMMA HalfStep ==
    ASSUME NEW S, NEW q \in Seq(S), q # <<>>, NEW U, NEW z \in Seq(U), z # <<>>,
           Tail(z) = Tail(q), NEW c, NEW n \in 1 .. 19, At(q, n, c),
           Whole(c)[n].do = "getflags", Head(z) = SetsFlags(Whole(c)[n])
    PROVE  At(z, n, c)
<1>1. Len(z) = Len(q) /\ Head(z) = z[1] /\ \A m \in DOMAIN q : m # 1 => z[m] = q[m]
  <2>1. /\ 1 \in DOMAIN q
        /\ \A m \in DOMAIN q : m # 1 => m - 1 \in DOMAIN Tail(q) /\ Tail(q)[m - 1] = q[m]
    BY TailParts
  <2>2. /\ 1 \in DOMAIN z /\ Head(z) = z[1]
        /\ \A m \in DOMAIN z : m # 1 => m - 1 \in DOMAIN Tail(z) /\ Tail(z)[m - 1] = z[m]
    BY TailParts
  <2>3. Len(z) = Len(q)
    <3>1. Len(Tail(z)) = Len(z) - 1 /\ Len(z) \in Nat
      OBVIOUS
    <3>2. Len(Tail(q)) = Len(q) - 1 /\ Len(q) \in Nat
      OBVIOUS
    <3> DEFINE t == Tail(z)
    <3>3. Len(t) = Len(z) - 1 /\ Len(t) = Len(q) - 1 /\ Len(z) \in Nat /\ Len(q) \in Nat
      <4>1. t = Tail(q)
        OBVIOUS
      <4> QED
        BY <3>1, <3>2, <4>1
    <3> HIDE DEF t
    <3> QED
      BY <3>3
  <2>4. DOMAIN z = DOMAIN q
    BY <2>3
  <2> QED
    BY <2>1, <2>2, <2>3, <2>4
<1>2. DOMAIN z = DOMAIN q
  BY <1>1
<1> QED
  BY <1>1, <1>2 DEF At

LEMMA DefaultIs ==
    ASSUME NEW i, NEW g
    PROVE  DefaultRoute(i, g) = [dev |-> i, dst |-> Any4, plen |-> MaskLength(0), gw |-> g]
<1>1. 0 \in PrefixLength
  BY BitsAssumption DEF PrefixLength
<1> QED
  BY <1>1, LengthIsReadBack DEF DefaultRoute

\* A step that succeeds adds its part to what is known and takes nothing back.
LEMMA MoreIsKnown ==
    ASSUME NEW k, Sane(k), NEW cs, NEW pr, pr.got.flags \in FlagSets, NEW c, ConfigureCall(c),
           NEW errs, NEW n \in 1 .. 18, NEW s, s = Whole(c)[n] \/ (Whole(c)[n].do = "getflags" /\ s = SetsFlags(Whole(c)[n])),
           s.do # "getflags", s \in StepNow(c.dev), Certain(k, cs, s) = {}, c.a # Any4, Known(k, c, errs, n)
    PROVE  Known(Effect(k, pr, s), c, errs, n + 1)
<1> DEFINE w == Whole(c)
           i == c.dev
           g == Effect(k, pr, s)
<1>1. /\ i \in Ifaces /\ c.a \in V4 /\ c.p \in Int /\ c.g \in V4 /\ c.dns \in V4 \X V4
  BY DEF ConfigureCall
<1>2. /\ \A m \in 1 .. 18 : w[m].do \in {"socket", "close"} \/ w[m].dev = i
      /\ Kinds(w) /\ w[10].p = 1 /\ w[11].a = c.a
      /\ w[12].do = "setmask" => w[12].p = c.p /\ c.p <= Bits /\ ~(c.p < 0)
      /\ RouteOf(w[14]) = [dev |-> i, dst |-> Any4, plen |-> MaskLength(0), gw |-> c.g]
      /\ w[17].p = 1 /\ w[17].a = c.dns[1] /\ w[18].p = 2 /\ w[18].a = c.dns[2]
  BY <1>1, WholeSteps
<1> HIDE DEF w
<1>3. s = w[n] \/ (w[n].do = "getflags" /\ s = SetsFlags(w[n]))
  BY DEF w
<1>4. w[n].do # "getflags" => s = w[n]
  BY <1>3
<1>5. /\ s.do # "refuse" /\ (s.do \in OfDevice => k.link[s.dev].present /\ Wrong(k, s) = {})
  BY NothingWrong
<1>6. /\ s.do \notin OfSockets => s.dev = i
      /\ Fits(s)
  <2>1. i \in Ifaces \cup {NoDev} /\ s \in StepNow(i)
    BY <1>1
  <2> HIDE DEF i
  <2> QED
    BY <2>1, StepNowParts
<1>7. CASE n <= 9
  BY <1>7 DEF Known
<1>8. CASE n = 10
  <2>1. s.do = "setflags" /\ s.p = 1 /\ i \in Ifaces \cup {NoDev} /\ s \in StepNow(i)
    <3>1. s = SetsFlags(w[10])
      BY <1>2, <1>3, <1>8 DEF Kinds
    <3>2. s \notin StepOf(i)
      <4>1. s.do = "setflags" \/ s.do = w[10].do
        BY <3>1 DEF SetsFlags
      <4>2. s.do = "setflags"
        BY <1>2, <4>1 DEF Kinds
      <4>3. "setflags" \notin OfSockets \cup AnyArgs \cup Fussy
        BY DEF OfSockets, AnyArgs, Fussy
      <4> HIDE DEF StepOf, OfSockets, AnyArgs, Fussy, i
      <4> QED
        BY <1>1, <4>2, <4>3, StepParts DEF i
    <3>3. PICK r \in StepOf(i) : s = SetsFlags(r)
      BY <3>2 DEF StepNow
    <3>4. DOMAIN s = {"do", "dev", "a", "p", "g", "fail"}
      BY <3>3 DEF SetsFlags, StepOf
    <3>5. DOMAIN w[10] = DOMAIN s
      BY <3>1 DEF SetsFlags
    <3>6. s.do = "setflags" /\ s.p = w[10].p
      BY <3>1, <3>4, <3>5 DEF SetsFlags
    <3> QED
      BY <1>1, <1>2, <3>6
  <2>2. g.link[i].flags = NewFlags(pr.got.flags, 1)
    <3> HIDE DEF i
    <3> QED
      BY <2>1, EffectWorks
  <2>3. Up(g, i)
    BY <2>2 DEF Up, NewFlags
  <2> QED
    BY <1>8, <2>3 DEF Known
<1>9. CASE n = 11
  <2>1. s.do = "setaddr" /\ s.a = c.a /\ s.dev = i
    BY <1>2, <1>4, <1>6, <1>9 DEF OfSockets, Kinds
  <2>2. g = SetAddr(k, i, c.a) /\ k.link[i].present
    BY <1>5, <2>1 DEF Effect, OfDevice, OnSock
  <2>3. g.link[i].flags = k.link[i].flags /\ c.a \in Elements(g.link[i].addrs)
    BY <1>1, <2>2, SetAddrWorks
  <2> QED
    BY <1>9, <2>3 DEF Known, Up
<1>10. CASE n = 12
  <2>1. s.do = "setmask" /\ s.dev = i /\ s.p = c.p /\ c.p <= Bits /\ ~(c.p < 0)
    BY <1>2, <1>4, <1>5, <1>6, <1>10 DEF OfSockets, Kinds
  <2>2. g = SetMask(k, i, prefixLengthToIpv4Netmask(c.p))
    BY <2>1 DEF Effect
  <2>3. c.p \in PrefixLength
    BY <1>1, <2>1, BitsAssumption DEF PrefixLength
  <2>4. prefixLengthToIpv4Netmask(c.p) \in Mask
    BY DEF prefixLengthToIpv4Netmask, Mask
  <2>5. /\ g.link[i].flags = k.link[i].flags /\ g.link[i].addrs = k.link[i].addrs
        /\ g.link[i].mask = prefixLengthToIpv4Netmask(c.p)
    BY <1>1, <2>2, <2>4, SetMaskWorks
  <2> QED
    BY <1>10, <2>3, <2>5 DEF Known, Up
<1>11. CASE n \in {13, 15, 16}
  <2>1. s.do \in {"socket", "close"}
    BY <1>2, <1>4, <1>11 DEF Kinds
  <2>2. g = k
    BY <2>1 DEF Effect
  <2> QED
    BY <1>11, <2>2 DEF Known
<1>12. CASE n = 14
  <2> DEFINE r == RouteOf(s)
  <2>1. s.do = "addroute" /\ s.dev = i /\ r = DefaultRoute(i, c.g)
    BY <1>2, <1>4, <1>6, <1>12, DefaultIs DEF OfSockets, Kinds
  <2>2. g = AddRoute(k, r)
    BY <2>1 DEF Effect
  <2>3. r \in Route
    <3>1. s.a \in V4 /\ s.p \in PrefixLength /\ s.g \in V4
      BY <1>6, <2>1 DEF Fits
    <3> QED
      BY <1>1, <2>1, <3>1 DEF RouteOf, Route
  <2>4. /\ ~HasRoute(k, r) /\ Up(k, r.dev)
        /\ r.dst \in V4 /\ r.gw # Any4 => k.link[r.dev].addrs # <<>>
    <3>1. Wrong(k, s) = {}
      BY <1>5, <2>1 DEF OfDevice, OnSock
    <3>2. r.dev = i /\ r.gw = s.g
      BY <2>1 DEF RouteOf
    <3> QED
      BY <2>1, <3>1, <3>2, WrongNot DEF AddsRoute
  <2> HIDE DEF r
  <2>5. g.link = k.link /\ Elements(g.routes) = Elements(k.routes) \cup {r}
    BY <2>2, <2>3, <2>4, AddRouteWorks
  <2>6. HasRoute(g, DefaultRoute(i, c.g))
    BY <2>1, <2>5 DEF HasRoute
  <2> QED
    BY <1>12, <2>5, <2>6 DEF Known, Up
<1>13. CASE n \in {17, 18}
  <2> DEFINE m == n - 16
  <2>1. s.do = "setdns" /\ s.dev = i /\ s.p = m /\ s.a = c.dns[m] /\ m \in 1 .. 2
    BY <1>2, <1>4, <1>6, <1>13 DEF OfSockets, Kinds
  <2>2. g = [k EXCEPT !.dns[i][m] = c.dns[m]] /\ c.dns[m] \in V4
    BY <1>1, <2>1 DEF Effect
  <2>3. /\ g.link = k.link /\ g.routes = k.routes
        /\ g.dns[i][m] = c.dns[m] /\ \A l \in 1 .. 2 : l # m => g.dns[i][l] = k.dns[i][l]
    BY <1>1, <2>1, <2>2, DnsWorks
  <2> QED
    BY <1>13, <2>1, <2>3 DEF Known, DnsIs, Up, HasRoute
<1>14. n <= 9 \/ n = 10 \/ n = 11 \/ n = 12 \/ n \in {13, 15, 16} \/ n = 14 \/ n \in {17, 18}
  OBVIOUS
<1> QED
  BY <1>7, <1>8, <1>9, <1>10, <1>11, <1>12, <1>13, <1>14

LEMMA ConfiguringCalls ==
    ASSUME Typed, NEW p \in Procs, Configures(p)
    PROVE  ConfigureCall(proc[p].call)
<1>1. proc[p].call \in Calls
  BY DEF Typed, ProcessOK, Configures, NoCall, Configuring
<1> QED
  BY <1>1, CallKinds DEF Configures, ConfigureCall, SocketCalls, PlainCalls, AddrCalls, Ipv4Calls, Configuring

LEMMA TodoParts ==
    ASSUME NEW i, NEW q \in TodoOf(i), q # <<>>
    PROVE  /\ q \in Seq(StepNow(i)) /\ Head(q) \in StepNow(i) /\ Tail(q) \in Seq(StepOf(i))
           /\ 1 \in DOMAIN q /\ Head(q) = q[1]
           /\ \A n \in DOMAIN Tail(q) : n + 1 \in DOMAIN q /\ Tail(q)[n] = q[n + 1]
<1>1. q \in Seq(StepNow(i))
  BY DEF TodoOf
<1>2. Head(q) \in StepNow(i) /\ Tail(q) \in Seq(StepOf(i))
  BY TodoIs
<1>3. 1 \in DOMAIN q /\ Head(q) = q[1] /\ \A n \in DOMAIN Tail(q) : n + 1 \in DOMAIN q /\ Tail(q)[n] = q[n + 1]
  BY <1>1, TailParts
<1> QED
  BY <1>1, <1>2, <1>3

\* A step of a configuration, which of them it is, and what its failure comes to.
\* The n-th step of a configuration, or the second half of it, tells its place.
PlaceOf(s, x, n) ==
    /\ s.fail = x.fail /\ (s = SetsFlags(x) => s.do = "setflags")
    /\ s.do # "setflags" => s = x
    /\ s.fail = (IF n <= 6 \/ n = 8 THEN "return" ELSE IF n \in {7, 17, 18} THEN "ignore" ELSE "abort")
    /\ s.do \in {"setaddr", "getflags", "setflags", "gethwaddr", "getindex", "rawsocket", "exchange",
                 "rawclose", "verdict", "socket", "setmask", "refuse", "addroute", "close", "setdns"}
    /\ (s.do = "rawsocket" <=> n = 5) /\ (s.do = "exchange" <=> n = 6) /\ (s.do = "rawclose" <=> n = 7)
    /\ (s.do = "socket" <=> n \in {9, 13}) /\ (s.do = "addroute" <=> n = 14)
    /\ (s.do = "close" <=> n \in {15, 16}) /\ (s.do = "setdns" <=> n \in {17, 18})

LEMMA WhichStep ==
    ASSUME NEW c, ConfigureCall(c), NEW n \in 1 .. 18,
           NEW s, s = Whole(c)[n] \/ (Whole(c)[n].do = "getflags" /\ s = SetsFlags(Whole(c)[n]))
    PROVE  PlaceOf(s, Whole(c)[n], n)
<1> USE DEF PlaceOf
<1> DEFINE w == Whole(c)
<1>1. Kinds(w) /\ Failures(w) /\ DOMAIN w[n] = Fields
  <2>1. c.p \in Int /\ c.dns \in V4 \X V4
    BY DEF ConfigureCall
  <2> QED
    BY <2>1, WholeSteps
<1> HIDE DEF w
<1>2. s = w[n] \/ (w[n].do = "getflags" /\ s = SetsFlags(w[n]))
  BY DEF w
<1>3. s.fail = w[n].fail /\ (s = SetsFlags(w[n]) => s.do = "setflags")
  BY <1>1, <1>2 DEF SetsFlags, Fields
<1>4. \/ n = 1 \/ n = 2 \/ n = 3 \/ n = 4 \/ n = 5 \/ n = 6 \/ n = 7 \/ n = 8 \/ n = 9
      \/ n = 10 \/ n = 11 \/ n = 12 \/ n = 13 \/ n = 14 \/ n = 15 \/ n = 16 \/ n = 17 \/ n = 18
  OBVIOUS
<1>5. w[n].do # "setflags"
  BY <1>1, <1>4 DEF Kinds
<1>6. w[n].fail = (IF n <= 6 \/ n = 8 THEN "return" ELSE IF n \in {7, 17, 18} THEN "ignore" ELSE "abort")
  <2>1. n \in 1 .. 6 => w[n].fail = "return"
    BY <1>1 DEF Failures
  <2>2. n \in 9 .. 16 => w[n].fail = "abort"
    BY <1>1 DEF Failures
  <2> QED
    BY <1>1, <2>1, <2>2 DEF Failures
<1>7. /\ w[n].do \in {"setaddr", "getflags", "gethwaddr", "getindex", "rawsocket", "exchange",
                      "rawclose", "verdict", "socket", "setmask", "refuse", "addroute", "close", "setdns"}
      /\ (w[n].do = "rawsocket" <=> n = 5) /\ (w[n].do = "exchange" <=> n = 6) /\ (w[n].do = "rawclose" <=> n = 7)
      /\ (w[n].do = "socket" <=> n \in {9, 13}) /\ (w[n].do = "addroute" <=> n = 14)
      /\ (w[n].do = "close" <=> n \in {15, 16}) /\ (w[n].do = "setdns" <=> n \in {17, 18})
  BY <1>1, <1>4 DEF Kinds
<1>8. CASE s = w[n]
  BY <1>3, <1>5, <1>6, <1>7, <1>8 DEF w
<1>9. CASE w[n].do = "getflags" /\ s = SetsFlags(w[n])
  <2>1. s.do = "setflags"
    BY <1>3, <1>9
  <2> QED
    BY <1>3, <1>6, <1>7, <1>9, <2>1 DEF w
<1> QED
  BY <1>2, <1>8, <1>9

\* A step that fails leaves the packet socket as it is.
LEMMA OpenedAfterFailure ==
    ASSUME NEW y, NEW z, NEW cs, NEW h, NEW n \in 1 .. 18, Opened(y, cs, h, n), NEW s, NEW e,
           z.errs = y.errs \cup {<<s, e>>},
           (s.do = "exchange" <=> n = 6) /\ (s.do = "rawclose" <=> n = 7)
    PROVE  /\ Opened(z, cs, h, 19)
           /\ n \notin 1 .. 6 => Opened(z, cs, h, n + 1)
<1>1. Leaves(z) <=> Leaves(y) \/ n \in {6, 7}
  <2>1. \A f : f \in z.errs <=> f \in y.errs \/ f = <<s, e>>
    OBVIOUS
  <2>2. <<s, e>>[1] = s
    OBVIOUS
  <2> QED
    BY <2>1, <2>2 DEF Leaves
<1>2. cs.raw = h.raw + (IF Leaves(z) THEN 1 ELSE 0)
  BY <1>1 DEF Opened
<1> HIDE DEF Leaves
<1> QED
  BY <1>1, <1>2 DEF Opened

LEMMA OpenedAfterStep ==
    ASSUME NEW y, NEW z, NEW cs, Accounted(cs), NEW h, NEW n \in 1 .. 18, Opened(y, cs, h, n), NEW s,
           z.errs = y.errs,
           (s.do = "rawsocket" <=> n = 5) /\ (s.do = "rawclose" <=> n = 7),
           s.do \in {"socket", "socket6", "close", "close6"} => n >= 9
    PROVE  Opened(z, Sockets(cs, s), h, n + 1)
<1> DEFINE c1 == Sockets(cs, s)
<1>1. Leaves(z) <=> Leaves(y)
  BY DEF Leaves
<1>2. cs \in Ctl
  BY DEF Accounted
<1>3. CASE n = 5
  <2>1. c1 = [cs EXCEPT !.raw = cs.raw + 1]
    BY <1>3 DEF Sockets
  <2>2. c1.raw = cs.raw + 1 /\ c1.sock = cs.sock /\ c1.sock6 = cs.sock6
    BY <1>2, <2>1 DEF Ctl
  <2> HIDE DEF c1, Leaves
  <2> QED
    BY <1>1, <1>3, <2>2 DEF Opened, c1
<1>4. CASE n = 7
  <2>1. c1 = [cs EXCEPT !.raw = cs.raw - 1]
    BY <1>4 DEF Sockets
  <2>2. c1.raw = cs.raw - 1 /\ c1.sock = cs.sock /\ c1.sock6 = cs.sock6
    BY <1>2, <2>1 DEF Ctl
  <2> HIDE DEF c1, Leaves
  <2> QED
    BY <1>1, <1>4, <2>2 DEF Opened, c1
<1>5. CASE n \notin {5, 7}
  <2>1. s.do # "rawsocket" /\ s.do # "rawclose"
    BY <1>5
  <2>2. c1.raw = cs.raw
    BY <1>2, <2>1 DEF Sockets, Ctl
  <2>3. n < 9 => c1 = cs
    BY <2>1 DEF Sockets
  <2> HIDE DEF c1, Leaves
  <2> QED
    BY <1>1, <1>5, <2>2, <2>3 DEF Opened, c1
<1> QED
  BY <1>3, <1>4, <1>5

\* On the way back nothing but control sockets is closed.
LEMMA OpenedAtTheEnd ==
    ASSUME NEW y, NEW z, NEW cs, Accounted(cs), NEW h, Opened(y, cs, h, 19), NEW s,
           z.errs = y.errs, s.do # "rawsocket", s.do # "rawclose"
    PROVE  Opened(z, Sockets(cs, s), h, 19)
<1> DEFINE c1 == Sockets(cs, s)
<1>1. Leaves(z) <=> Leaves(y)
  BY DEF Leaves
<1>2. c1.raw = cs.raw
  BY DEF Sockets, Accounted, Ctl
<1> HIDE DEF c1, Leaves
<1> QED
  BY <1>1, <1>2 DEF Opened, c1

LEMMA ConfigureFails ==
    ASSUME Typed, NEW p \in Procs, Configures(p),
           ConfigureAt(proc[p], net, calm[p], ctl[p], held[p]),
           proc[p].todo # <<>>, NEW e, Fails(p, e)
    PROVE  ConfigureAt(proc'[p], net', calm[p], ctl'[p], held[p])
<1> DEFINE y == proc[p]
           z == proc'[p]
           s == Head(y.todo)
           t == Tail(y.todo)
           c == y.call
           w == Whole(c)
<1>1. /\ z.todo = (IF GoesOn(s, e) THEN t ELSE IF s.fail = "return" THEN <<>> ELSE Closes(t))
      /\ t \in Seq(StepOf(c.dev))
      /\ z.ret = (IF Noted(s, e) THEN "error" ELSE y.ret) /\ z.call = c
      /\ net' = net /\ ctl' = ctl /\ z.errs = y.errs \cup {<<s, e>>}
  BY FailTyped
<1>2. e # "ok" /\ e \in Outcomes(net, ctl[p], s)
  BY DEF Fails
<1>3. Lasts(Closes(t)) /\ Lasts(<<>>)
  <2>1. Elements(Closes(t)) = {x \in Elements(t) : x.do \in {"close", "close6"}}
    BY <1>1, ClosesTyped
  <2> QED
    BY <2>1 DEF Lasts, Elements
<1>4. s.do \notin {"close", "close6"}
  BY <1>2 DEF Outcomes, Certain, Sure, OnSock, OnSock6, OfDevice
<1>5. ConfigureCall(c)
  BY ConfiguringCalls
<1>6. y.todo \in TodoOf(c.dev)
  BY DEF Typed, ProcessOK
<1>7. ASSUME y.ret = "error", Lasts(y.todo)
      PROVE  FALSE
  <2>1. 1 \in DOMAIN y.todo /\ s = y.todo[1]
    BY <1>6, TodoParts
  <2> QED
    BY <1>4, <1>7, <2>1 DEF Lasts
<1>8. ASSUME y.ret = "ok", NEW n \in 1 .. 19, At(y.todo, n, c), Opened(y, ctl[p], held[p], n),
             calm[p] /\ c.a # Any4 => Known(net, c, y.errs, n)
      PROVE  ConfigureAt(z, net, calm[p], ctl[p], held[p])
  <2>1. /\ n <= 18 /\ At(t, n + 1, c)
        /\ s = w[n] \/ (w[n].do = "getflags" /\ s = SetsFlags(w[n]))
    BY <1>6, <1>8, TodoParts, NextStep
  <2>2. n \in 1 .. 18
    BY <2>1
  <2>3. /\ s.do # "setflags" => s = w[n]
        /\ s.fail = (IF n <= 6 \/ n = 8 THEN "return" ELSE IF n \in {7, 17, 18} THEN "ignore" ELSE "abort")
        /\ s.do \in {"setaddr", "getflags", "setflags", "gethwaddr", "getindex", "rawsocket", "exchange",
                     "rawclose", "verdict", "socket", "setmask", "refuse", "addroute", "close", "setdns"}
        /\ (s.do = "exchange" <=> n = 6) /\ (s.do = "rawclose" <=> n = 7)
        /\ (s.do = "socket" <=> n \in {9, 13}) /\ (s.do = "addroute" <=> n = 14)
        /\ (s.do = "setdns" <=> n \in {17, 18})
    <3> HIDE DEF s, w, c
    <3> QED
      <4>1. PlaceOf(s, w[n], n)
        BY <1>5, <2>1, <2>2, WhichStep DEF w
      <4> QED
        BY <4>1 DEF PlaceOf
  <2>4. /\ Opened(z, ctl[p], held[p], 19)
        /\ n \notin 1 .. 6 => Opened(z, ctl[p], held[p], n + 1)
    <3>1. z.errs = y.errs \cup {<<s, e>>}
      BY <1>1
    <3>2. (s.do = "exchange" <=> n = 6) /\ (s.do = "rawclose" <=> n = 7)
      BY <2>3
    <3>3. Opened(y, ctl[p], held[p], n)
      BY <1>8
    <3> HIDE DEF s, y, z
    <3> QED
      BY <2>2, <3>1, <3>2, <3>3, OpenedAfterFailure
  <2>5. CASE ~GoesOn(s, e)
    BY <1>1, <1>3, <2>4, <2>5 DEF Noted, ConfigureAt
  <2>6. CASE GoesOn(s, e)
    <3>1. n \in {7, 9, 13, 17, 18} \/ (n = 14 /\ e = "EEXIST")
      <4>1. s.fail = "ignore" \/ s.do = "socket" \/ (s.do = "addroute" /\ e = "EEXIST")
        BY <2>3, <2>6 DEF GoesOn, Tolerated, OnRoute, AddsRoute
      <4>2. s.fail = "ignore" => n \in {7, 17, 18}
        <5> HIDE DEF s
        <5> QED
          BY <2>2, <2>3
      <4> QED
        BY <2>3, <4>1, <4>2
    <3>2. s = w[n]
      BY <2>3, <3>1
    <3>3. /\ RouteOf(w[14]) = DefaultRoute(c.dev, c.g) /\ w[17].p = 1 /\ w[18].p = 2
      BY <1>5, WholeSteps, DefaultIs DEF ConfigureCall
    <3>4. n = 14 => HasRoute(net, DefaultRoute(c.dev, c.g))
      <4> SUFFICES ASSUME n = 14
                   PROVE  HasRoute(net, DefaultRoute(c.dev, c.g))
        OBVIOUS
      <4>1. e = "EEXIST" /\ s.do = "addroute" /\ RouteOf(s) = DefaultRoute(c.dev, c.g)
        BY <2>3, <3>1, <3>2, <3>3
      <4>2. e \in Certain(net, ctl[p], s)
        BY <1>2, <4>1 DEF Outcomes
      <4> HIDE DEF s, c
      <4>3. e \in Wrong(net, s)
        BY <4>1, <4>2 DEF Certain, OnSock, OnSock6, OfDevice
      <4> QED
        BY <4>1, <4>3 DEF Wrong
    <3>5. \A m \in 1 .. 2 :
             /\ DnsIs(net, c, y.errs, m) => DnsIs(net, c, z.errs, m)
             /\ n = m + 16 => DnsIs(net, c, z.errs, m)
      <4> TAKE m \in 1 .. 2
      <4>1. <<s, e>> \in z.errs /\ <<s, e>>[1] = s
        BY <1>1
      <4>2. n = m + 16 => s.do = "setdns" /\ s.p = m
        BY <2>3, <3>2, <3>3
      <4>3. \A f \in y.errs : f \in z.errs
        BY <1>1
      <4> HIDE DEF s, y, z
      <4> QED
        BY <4>1, <4>2, <4>3 DEF DnsIs
    <3>6. Known(net, c, y.errs, n) => Known(net, c, z.errs, n + 1)
      <4> HIDE DEF c, y, z, DnsIs
      <4>1. DnsIs(net, c, y.errs, 1) => DnsIs(net, c, z.errs, 1)
        BY <3>5
      <4>2. DnsIs(net, c, y.errs, 2) => DnsIs(net, c, z.errs, 2)
        BY <3>5
      <4>3. /\ n = 17 => DnsIs(net, c, z.errs, 1)
            /\ n = 18 => DnsIs(net, c, z.errs, 2)
        BY <3>5
      <4> QED
        BY <3>1, <3>4, <4>1, <4>2, <4>3 DEF Known
    <3>7. z.ret = "ok" /\ z.todo = t /\ z.call = c
      <4>1. s.fail # "note"
        <5> HIDE DEF s
        <5> QED
          BY <2>3
      <4> QED
        BY <1>1, <1>8, <2>6, <4>1 DEF Noted
    <3>8. /\ n + 1 \in 1 .. 19 /\ At(t, n + 1, c) /\ Opened(z, ctl[p], held[p], n + 1)
          /\ calm[p] /\ c.a # Any4 => Known(net, c, z.errs, n + 1)
      BY <1>8, <2>1, <2>2, <2>4, <3>1, <3>6
    <3> QED
      BY <3>7, <3>8 DEF ConfigureAt
  <2> QED
    BY <2>5, <2>6
<1> QED
  BY <1>1, <1>7, <1>8 DEF ConfigureAt

LEMMA ConfigureDoes ==
    ASSUME Typed, AllAccounted, NEW p \in Procs, Configures(p),
           ConfigureAt(proc[p], net, calm[p], ctl[p], held[p]),
           proc[p].todo # <<>>, Succeeds(p)
    PROVE  ConfigureAt(proc'[p], net', calm[p], ctl'[p], held[p])
<1> DEFINE y == proc[p]
           z == proc'[p]
           s == Head(y.todo)
           t == Tail(y.todo)
           c == y.call
           w == Whole(c)
<1>1. z.ret = y.ret /\ z.call = c /\ z.errs = y.errs
  BY DoParts
<1>2. /\ s.do # "getflags" => net' = Effect(net, y, s) /\ (Unfolds(net, s) = <<>> => z.todo = t)
      /\ ctl'[p] = Sockets(ctl[p], s) /\ Accounted(ctl[p])
      /\ y.got.flags \in FlagSets /\ Sane(net) /\ Certain(net, ctl[p], s) = {}
  <2>1. s.do # "getflags" => net' = Effect(net, y, s) /\ (Unfolds(net, s) = <<>> => z.todo = t)
    BY Did
  <2>2. y.got.flags \in FlagSets
    BY DEF Typed, ProcessOK, GotRead
  <2>3. ctl'[p] = Sockets(ctl[p], s) /\ Accounted(ctl[p])
    BY DEF Succeeds, Do, AllAccounted
  <2> QED
    BY <2>1, <2>2, <2>3 DEF Typed, Succeeds
<1>3. ConfigureCall(c)
  BY ConfiguringCalls
<1>4. /\ y.todo \in Seq(StepNow(c.dev)) /\ s \in StepNow(c.dev) /\ 1 \in DOMAIN y.todo /\ s = y.todo[1]
      /\ \A n \in DOMAIN t : n + 1 \in DOMAIN y.todo /\ t[n] = y.todo[n + 1]
  BY TodoParts DEF Typed, ProcessOK
<1>5. CASE y.ret = "error" /\ Lasts(y.todo) /\ Opened(y, ctl[p], held[p], 19)
  <2>1. s.do \in {"close", "close6"}
    BY <1>4, <1>5 DEF Lasts
  <2>2. z.todo = t
    BY <1>2, <2>1 DEF Unfolds
  <2>3. Lasts(t)
    BY <1>4, <1>5 DEF Lasts
  <2>4. Opened(z, ctl'[p], held[p], 19)
    <3> HIDE DEF s, y, z
    <3> QED
      BY <1>1, <1>2, <1>5, <2>1, OpenedAtTheEnd
  <2> QED
    BY <1>1, <1>5, <2>2, <2>3, <2>4 DEF ConfigureAt
<1>6. ASSUME y.ret = "ok", NEW n \in 1 .. 19, At(y.todo, n, c), Opened(y, ctl[p], held[p], n),
             calm[p] /\ c.a # Any4 => Known(net, c, y.errs, n)
      PROVE  ConfigureAt(z, net', calm[p], ctl'[p], held[p])
  <2>1. /\ n <= 18 /\ At(t, n + 1, c)
        /\ s = w[n] \/ (w[n].do = "getflags" /\ s = SetsFlags(w[n]))
    BY <1>4, <1>6, NextStep
  <2>2. n \in 1 .. 18
    BY <2>1
  <2>3. /\ s.do # "setflags" => s = w[n]
        /\ s.do \in {"setaddr", "getflags", "setflags", "gethwaddr", "getindex", "rawsocket", "exchange",
                     "rawclose", "verdict", "socket", "setmask", "refuse", "addroute", "close", "setdns"}
        /\ (s.do = "rawsocket" <=> n = 5) /\ (s.do = "rawclose" <=> n = 7)
        /\ s.do \in {"socket", "socket6", "close", "close6"} => n >= 9
    <3> HIDE DEF s, w, c
    <3>1. /\ s.do # "setflags" => s = w[n]
          /\ s.do \in {"setaddr", "getflags", "setflags", "gethwaddr", "getindex", "rawsocket", "exchange",
                       "rawclose", "verdict", "socket", "setmask", "refuse", "addroute", "close", "setdns"}
          /\ (s.do = "rawsocket" <=> n = 5) /\ (s.do = "rawclose" <=> n = 7)
          /\ (s.do = "socket" <=> n \in {9, 13}) /\ (s.do = "close" <=> n \in {15, 16})
      <4>1. PlaceOf(s, w[n], n)
        BY <1>3, <2>1, <2>2, WhichStep DEF w
      <4> QED
        BY <4>1 DEF PlaceOf
    <3> QED
      BY <3>1
  <2>4. CASE s.do = "getflags"
    <3>1. s = w[n]
      BY <2>3, <2>4
    <3>2. /\ z.todo # <<>> /\ Head(z.todo) = SetsFlags(w[n]) /\ Tail(z.todo) = t /\ net' = Effect(net, y, s)
          /\ ProcessOK(z)
      BY <2>4, <3>1, DoTyped
    <3>3. z.todo \in Seq(StepNow(z.call.dev))
      BY <3>2, TodoParts DEF ProcessOK
    <3>4. At(z.todo, n, c)
      <4>1. w[n].do = "getflags"
        BY <2>4, <3>1
      <4> HIDE DEF s, c
      <4> QED
        BY <1>4, <1>6, <3>2, <3>3, <4>1, HalfStep
    <3>5. net' = net
      BY <2>4, <3>2 DEF Effect
    <3>6. ctl'[p] = ctl[p]
      BY <1>2, <2>4 DEF Sockets
    <3>7. Opened(z, ctl'[p], held[p], n)
      BY <1>1, <1>6, <3>6 DEF Opened, Leaves
    <3> QED
      BY <1>1, <1>6, <3>4, <3>5, <3>7 DEF ConfigureAt
  <2>5. CASE s.do # "getflags"
    <3>1. Unfolds(net, s) = <<>>
      BY <2>3, <2>5 DEF Unfolds
    <3>2. z.todo = t /\ net' = Effect(net, y, s)
      BY <1>2, <2>5, <3>1
    <3>3. calm[p] /\ c.a # Any4 => Known(net', c, z.errs, n + 1)
      <4> SUFFICES ASSUME calm[p], c.a # Any4
                   PROVE  Known(Effect(net, y, s), c, y.errs, n + 1)
        BY <1>1, <3>2
      <4>1. Known(net, c, y.errs, n)
        BY <1>6
      <4> HIDE DEF y, s, c
      <4>2. /\ Sane(net) /\ y.got.flags \in FlagSets /\ ConfigureCall(c) /\ n \in 1 .. 18
            /\ s = Whole(c)[n] \/ (Whole(c)[n].do = "getflags" /\ s = SetsFlags(Whole(c)[n]))
            /\ s.do # "getflags" /\ s \in StepNow(c.dev) /\ Certain(net, ctl[p], s) = {} /\ c.a # Any4
        BY <1>2, <1>3, <1>4, <2>1, <2>2, <2>5
      <4> QED
        BY <4>1, <4>2, MoreIsKnown
    <3>4. n + 1 \in 1 .. 19
      BY <2>2
    <3>5. Opened(z, ctl'[p], held[p], n + 1)
      <4> HIDE DEF s, y, z
      <4> QED
        BY <1>1, <1>2, <1>6, <2>2, <2>3, OpenedAfterStep
    <3> QED
      BY <1>1, <1>6, <2>1, <3>2, <3>3, <3>4, <3>5 DEF ConfigureAt
  <2> QED
    BY <2>4, <2>5
<1> QED
  BY <1>5, <1>6 DEF ConfigureAt

\* Nothing is open in a call that begins but what was open before.
LEMMA OpenedAtFirst ==
    ASSUME NEW y, y.errs = {}, NEW cs, Accounted(cs), cs.raw \in Nat,
           NEW h, h = [open |-> cs.open, raw |-> cs.raw], NEW n \in {1, 9, 19}
    PROVE  Opened(y, cs, h, n)
<1>1. ~Leaves(y)
  BY DEF Leaves
<1>2. h.open = cs.open /\ h.raw = cs.raw /\ cs.open = {cs.sock, cs.sock6} \ {NoSock}
  BY DEF Accounted
<1> QED
  BY <1>1, <1>2 DEF Opened

\* The other calls neither open a packet socket nor set a DNS server.
Packets == {"rawsocket", "exchange", "rawclose"}
Plain(s) == {"do", "fail"} \subseteq DOMAIN s /\ s.do \notin Packets \cup {"setdns"} /\ s.fail # "return"
Lacks(q) == \E S : q \in Seq(S) /\ \A s \in S : Plain(s)
NoDns(p) ==
    Configures(p) \/ (Lacks(proc[p].todo) /\ Opened(proc[p], ctl[p], held[p], 19))
NoDnsInv == \A p \in Procs : NoDns(p)

LEMMA PacketSocketsCounted ==
    ASSUME AllAccounted, ConfigureInv, NoDnsInv, NEW p \in Procs
    PROVE  ctl[p].raw \in Nat /\ held[p].raw \in Nat /\ Accounted(ctl[p])
<1>1. \E n \in 1 .. 19 : Opened(proc[p], ctl[p], held[p], n)
  <2>1. 19 \in 1 .. 19
    OBVIOUS
  <2> QED
    BY <2>1 DEF ConfigureInv, ConfigureAt, NoDnsInv, NoDns
<1> QED
  BY <1>1 DEF Opened, AllAccounted

LEMMA InitConfigures == Init => ConfigureInv
BY DEF Init, IfcInit, ConfigureInv, Configures, Configuring, NoCall

LEMMA ConfigureKept ==
    ASSUME Typed, AllAccounted, DOMAIN held = Procs, ConfigureInv, NoDnsInv, [Next]_vars
    PROVE  ConfigureInv'
<1> SUFFICES ASSUME NEW p \in Procs, Configures(p)'
             PROVE  ConfigureAt(proc'[p], net', calm'[p], ctl'[p], held'[p])
  BY DEF ConfigureInv
<1>1. CASE Waits(p)
  <2>1. /\ proc'[p] = proc[p] /\ ctl'[p] = ctl[p] /\ held'[p] = held[p] /\ (calm'[p] => calm[p])
        /\ Configures(p)
    BY <1>1 DEF Waits, Configures
  <2>2. ConfigureAt(proc[p], net, calm[p], ctl[p], held[p]) /\ ConfigureCall(proc[p].call)
    BY <2>1, ConfiguringCalls DEF ConfigureInv
  <2> DEFINE c == proc[p].call
  <2>3. Sane(net) /\ Sane(net')
    BY TypedKept DEF Typed
  <2>4. ASSUME NEW n \in 1 .. 19, calm'[p], Known(net, c, proc[p].errs, n)
        PROVE  Known(net', c, proc[p].errs, n)
    <3>1. View(net', c.dev) = View(net, c.dev)
      BY <1>1, <2>2, <2>4 DEF Waits, ConfigureCall, Dev
    <3> HIDE DEF c
    <3>2. net'.link[c.dev] = net.link[c.dev] /\ net'.dns[c.dev] = net.dns[c.dev]
      BY <3>1, ViewShows
    <3>3. DefaultRoute(c.dev, c.g).dev = c.dev
      BY DEF DefaultRoute
    <3>4. HasRoute(net', DefaultRoute(c.dev, c.g)) <=> HasRoute(net, DefaultRoute(c.dev, c.g))
      BY <2>3, <3>1, <3>3, SeenRoutes
    <3> QED
      BY <2>4, <3>2, <3>4 DEF Known, DnsIs, Up
  <2> QED
    BY <2>1, <2>2, <2>4 DEF ConfigureAt
<1>2. CASE Begins(p)
  <2>1. PICK c \in Calls : /\ proc'[p].call = c /\ proc'[p].todo = Program(c) /\ proc'[p].ret = "ok"
                           /\ proc'[p].errs = {} /\ ctl' = ctl
                           /\ held'[p] = [open |-> ctl[p].open, raw |-> ctl[p].raw]
    BY <1>2 DEF Begins
  <2>2. c.fn \in Configuring
    BY <2>1 DEF Configures
  <2>3. PICK n \in {1, 9} : At(Program(c), n, c)
    BY <2>2, ConfigureProgram
  <2>4. n \in 1 .. 19 /\ n \in {1, 9, 19} /\ Known(net', c, {}, n)
    BY DEF Known
  <2>5. Opened(proc'[p], ctl'[p], held'[p], n)
    BY <2>1, <2>4, PacketSocketsCounted, OpenedAtFirst
  <2> QED
    BY <2>1, <2>3, <2>4, <2>5 DEF ConfigureAt
<1>3. ASSUME calm'[p] = calm[p], held'[p] = held[p], proc[p].todo # <<>>, NEW e, Fails(p, e)
      PROVE  ConfigureAt(proc'[p], net', calm'[p], ctl'[p], held'[p])
  <2>1. proc'[p].call = proc[p].call
    BY <1>3, FailTyped
  <2>2. Configures(p)
    BY <2>1 DEF Configures
  <2> QED
    BY <1>3, <2>2, ConfigureFails DEF ConfigureInv
<1>4. ASSUME calm'[p] = calm[p], held'[p] = held[p], proc[p].todo # <<>>, Succeeds(p)
      PROVE  ConfigureAt(proc'[p], net', calm'[p], ctl'[p], held'[p])
  <2>1. proc'[p].call = proc[p].call
    BY <1>4, DoParts
  <2>2. Configures(p)
    BY <2>1 DEF Configures
  <2> QED
    BY <1>4, <2>2, ConfigureDoes DEF ConfigureInv
<1> QED
  BY <1>1, <1>2, <1>3, <1>4, StepOfProcess DEF GoesFurther

(***************************************************************************)
(* Nothing else sets the DNS servers.                                      *)
(***************************************************************************)

LEMMA LacksOf ==
    /\ Lacks(<<>>)
    /\ \A do, i, a, p, g :
          do \notin Packets \cup {"setdns"} => Lacks(<< Step(do, i, a, p, g) >>) /\ Lacks(Ioctl(do, i))
    /\ \A u, v : Lacks(u) /\ Lacks(v) => Lacks(u \o v)
    /\ \A how, q : how # "return" /\ Lacks(q) => Lacks(OnFailure(how, q))
<1>1. Lacks(<<>>)
  <2> DEFINE q == <<>>
             S == {}
  <2>1. q \in Seq(S) /\ \A s \in S : Plain(s)
    OBVIOUS
  <2> HIDE DEF q, S
  <2>2. Lacks(q)
    BY <2>1 DEF Lacks
  <2> QED
    BY <2>2 DEF q
<1>2. ASSUME NEW do, NEW i, NEW a, NEW p, NEW g, do \notin Packets \cup {"setdns"}
      PROVE  Lacks(<< Step(do, i, a, p, g) >>)
  <2> DEFINE s == Step(do, i, a, p, g)
  <2>1. Plain(s)
    BY <1>2 DEF Step, Plain
  <2> HIDE DEF s
  <2> DEFINE q == <<s>>
             S == {s}
  <2>2. q \in Seq(S) /\ \A x \in S : Plain(x)
    BY <2>1
  <2> HIDE DEF q, S
  <2>3. Lacks(q)
    BY <2>2 DEF Lacks
  <2> QED
    BY <2>3 DEF q, s
<1>3. ASSUME NEW u, NEW v, Lacks(u), Lacks(v)
      PROVE  Lacks(u \o v)
  <2>1. PICK S : u \in Seq(S) /\ \A s \in S : Plain(s)
    BY <1>3 DEF Lacks
  <2>2. PICK U : v \in Seq(U) /\ \A s \in U : Plain(s)
    BY <1>3 DEF Lacks
  <2>3. u \in Seq(S \cup U) /\ v \in Seq(S \cup U)
    BY <2>1, <2>2
  <2>4. u \o v \in Seq(S \cup U)
    BY <2>3, Joined
  <2> QED
    BY <2>1, <2>2, <2>4 DEF Lacks
<1>4. ASSUME NEW how, NEW q, how # "return", Lacks(q)
      PROVE  Lacks(OnFailure(how, q))
  <2>1. PICK S : q \in Seq(S) /\ \A s \in S : Plain(s)
    BY <1>4 DEF Lacks
  <2> DEFINE U == {[s EXCEPT !.fail = how] : s \in S}
  <2>2. OnFailure(how, q) \in Seq(U)
    <3>1. DOMAIN q = 1 .. Len(q) /\ Len(q) \in Nat /\ \A n \in DOMAIN q : q[n] \in S
      BY <2>1
    <3>2. \A n \in DOMAIN q : [q[n] EXCEPT !.fail = how] \in U
      BY <3>1
    <3> HIDE DEF U
    <3> QED
      BY <3>1, <3>2 DEF OnFailure
  <2>3. \A s \in U : Plain(s)
    <3> SUFFICES ASSUME NEW s \in S
                 PROVE  Plain([s EXCEPT !.fail = how])
      OBVIOUS
    <3> QED
      BY <1>4, <2>1 DEF Plain
  <2> QED
    BY <2>2, <2>3 DEF Lacks
<1> QED
  BY <1>1, <1>2, <1>3, <1>4 DEF Ioctl

\* What of it holds is seen step by step.
LEMMA LacksEach ==
    ASSUME NEW S, NEW q \in Seq(S)
    PROVE  /\ Lacks(q) <=> \A n \in DOMAIN q : Plain(q[n])
           /\ q # <<>> /\ Lacks(q) => Plain(Head(q)) /\ Lacks(Tail(q))
<1>1. ASSUME NEW U, NEW r \in Seq(U)
      PROVE  Lacks(r) <=> \A n \in DOMAIN r : Plain(r[n])
  <2>1. ASSUME Lacks(r), NEW n \in DOMAIN r
        PROVE  Plain(r[n])
    <3>1. PICK V : r \in Seq(V) /\ \A s \in V : Plain(s)
      BY <2>1 DEF Lacks
    <3> QED
      BY <3>1
  <2>2. ASSUME \A n \in DOMAIN r : Plain(r[n])
        PROVE  Lacks(r)
    <3> DEFINE V == {s \in U : Plain(s)}
    <3>1. r \in Seq(V)
      <4>1. DOMAIN r = 1 .. Len(r) /\ Len(r) \in Nat /\ \A n \in DOMAIN r : r[n] \in V
        BY <2>2
      <4> QED
        BY <4>1
    <3>2. \A s \in V : Plain(s)
      OBVIOUS
    <3> QED
      BY <3>1, <3>2 DEF Lacks
  <2> QED
    BY <2>1, <2>2
<1>2. ASSUME q # <<>>, Lacks(q)
      PROVE  Plain(Head(q)) /\ Lacks(Tail(q))
  <2>1. /\ 1 \in DOMAIN q /\ Head(q) = q[1]
        /\ \A m \in DOMAIN Tail(q) : m + 1 \in DOMAIN q /\ Tail(q)[m] = q[m + 1]
    BY <1>2, TailParts
  <2>2. Tail(q) \in Seq(S)
    BY <1>2
  <2>3. \A n \in DOMAIN q : Plain(q[n])
    BY <1>1, <1>2
  <2>4. \A m \in DOMAIN Tail(q) : Plain(Tail(q)[m])
    BY <2>1, <2>3
  <2> QED
    BY <1>1, <2>1, <2>2, <2>3, <2>4
<1> QED
  BY <1>1, <1>2

LEMMA RoutesLack ==
    ASSUME NEW i, NEW action \in {"addroute", "delroute"}, NEW a, NEW p, NEW g
    PROVE  /\ Lacks(ifc_act_on_ipv4_route(action, i, a, p, g))
           /\ Lacks(ifc_act_on_ipv6_route(action, i, a, p, g))
           /\ Lacks(ifc_act_on_route(action, i, a, p, g))
<1> USE LacksOf DEF Packets
<1>1. Lacks(ifc_init) /\ Lacks(ifc_close) /\ Lacks(ifc_init6) /\ Lacks(ifc_close6) /\ Lacks(Ioctl("getindex6", i))
  BY DEF ifc_init, ifc_close, ifc_init6, ifc_close6
<1>2. \A b, n, h : /\ Lacks(<< Step(action, i, b, n, h) >>)
                   /\ Lacks(<< Step(OnSocket6(action), i, b, n, h) >>)
  BY DEF OnSocket6
<1>3. \A b, n, h : Lacks(ifc_act_on_ipv4_route(action, i, b, n, h))
  BY <1>1, <1>2 DEF ifc_act_on_ipv4_route
<1>4. \A b, n, h : Lacks(ifc_act_on_ipv6_route(action, i, b, n, h))
  BY <1>1, <1>2 DEF ifc_act_on_ipv6_route
<1>5. Lacks(Ioctl("refuse", i))
  OBVIOUS
<1> QED
  BY <1>3, <1>4, <1>5 DEF ifc_act_on_route

LEMMA ProgramLacks ==
    ASSUME NEW c \in Calls, c.fn \notin Configuring
    PROVE  Lacks(Program(c))
<1> DEFINE i == c.dev
<1> USE LacksOf DEF Packets
<1>1. Lacks(ifc_init) /\ Lacks(ifc_close) /\ Lacks(ifc_init6) /\ Lacks(ifc_close6)
  BY DEF ifc_init, ifc_close, ifc_init6, ifc_close6
<1>2. /\ Lacks(ifc_up(i)) /\ Lacks(ifc_down(i)) /\ Lacks(ifc_set_addr(i, Any4))
      /\ Lacks(ClearRound(i, CLEAR_MAX)) /\ \A wanted : Lacks(ifc_get_info(i, wanted))
  <2>1. Lacks(ifc_up(i)) /\ Lacks(ifc_down(i)) /\ Lacks(ifc_set_addr(i, Any4))
    BY DEF ifc_up, ifc_down, ifc_set_flags, ifc_set_addr
  <2>2. Lacks(ClearRound(i, CLEAR_MAX))
    BY DEF ClearRound
  <2>3. ASSUME NEW wanted
        PROVE  Lacks(ifc_get_info(i, wanted))
    <3>1. /\ Lacks(IF "addr" \in wanted THEN Ioctl("getaddr", i) ELSE <<>>)
          /\ Lacks(IF "plen" \in wanted THEN Ioctl("getmask", i) ELSE <<>>)
          /\ Lacks(IF "flags" \in wanted THEN Ioctl("readflags", i) ELSE <<>>)
      OBVIOUS
    <3> QED
      BY <3>1 DEF ifc_get_info
  <2> QED
    BY <2>1, <2>2, <2>3
<1>3. c.fn \in SocketCalls => Lacks(Program(c))
  BY <1>1 DEF SocketCalls, Program
<1>4. c.fn \in PlainCalls => Lacks(Program(c))
  <2>1. Lacks(ifc_enable(i))
    BY <1>1, <1>2 DEF ifc_enable
  <2>2. Lacks(ifc_disable(i))
    BY <1>1, <1>2 DEF ifc_disable
  <2>3. Lacks(ifc_clear_addresses(i))
    BY <1>1, <1>2 DEF ifc_clear_addresses, ifc_clear_ipv4_addresses, ifc_clear_ipv6_addresses
  <2>4. Lacks(ifc_remove_host_routes(i)) /\ Lacks(ifc_get_default_route(i))
    BY DEF ifc_remove_host_routes, ifc_get_default_route
  <2>5. Lacks(ifc_remove_default_route(i))
    BY <1>1 DEF ifc_remove_default_route
  <2> QED
    BY <1>2, <2>1, <2>2, <2>3, <2>4, <2>5 DEF PlainCalls, Program
<1>5. c.fn \in AddrCalls => Lacks(Program(c))
  <2>1. /\ Lacks(ifc_add_address(i, c.a, c.p)) /\ Lacks(ifc_del_address(i, c.a, c.p))
        /\ Lacks(ifc_set_hwaddr(i, c.a)) /\ Lacks(ifc_set_prefixLength(i, c.p))
    BY DEF ifc_add_address, ifc_del_address, ifc_act_on_address, ifc_set_hwaddr, ifc_set_prefixLength, ifc_set_mask
  <2>2. Lacks(ifc_add_route(i, c.a, c.p, c.g)) /\ Lacks(ifc_remove_route(i, c.a, c.p, c.g))
    BY RoutesLack DEF ifc_add_route, ifc_remove_route
  <2> QED
    BY <2>1, <2>2 DEF AddrCalls, Program
<1>6. c.fn \in Ipv4Calls => Lacks(Program(c))
  <2>1. /\ \A a, p, g : Lacks(ifc_act_on_ipv4_route("addroute", i, a, p, g))
    BY RoutesLack
  <2>2. Lacks(ifc_set_default_route(i, c.g))
    BY <1>1, <2>1 DEF ifc_set_default_route, ifc_create_default_route
  <2> QED
    BY <2>1, <2>2 DEF Ipv4Calls, Program, ifc_add_host_route, ifc_add_ipv4_route
<1>7. c.fn = "ifc_add_ipv6_route" => Lacks(Program(c))
  BY RoutesLack DEF Program, ifc_add_ipv6_route
<1>8. c.fn = "ifc_reset_connections" => Lacks(Program(c))
  <2>1. Lacks(OnFailure("note", Ioctl("kill", i))) /\ Lacks(OnFailure("note", Ioctl("kill6", i)))
    OBVIOUS
  <2>2. \A mask : Lacks(IF "IGNORE" \in mask THEN <<>> ELSE ifc_get_info(i, {"addr"}))
    BY <1>2
  <2> DEFINE four(mask) == ifc_init \o (IF "IGNORE" \in mask THEN <<>> ELSE ifc_get_info(i, {"addr"}))
                           \o OnFailure("note", Ioctl("kill", i)) \o ifc_close
             six == ifc_init6 \o OnFailure("note", Ioctl("kill6", i)) \o ifc_close6
  <2>3. \A mask : Lacks(four(mask)) /\ Lacks(six)
    BY <1>1, <2>1, <2>2
  <2>4. ifc_reset_connections(i, c.mask)
        = (IF "IPV4" \notin c.mask THEN <<>> ELSE four(c.mask)) \o (IF "IPV6" \notin c.mask THEN <<>> ELSE six)
    BY DEF ifc_reset_connections
  <2> HIDE DEF four, six
  <2>5. Lacks(ifc_reset_connections(i, c.mask))
    BY <2>3, <2>4
  <2> QED
    BY <2>5 DEF Program
<1> QED
  BY <1>3, <1>4, <1>5, <1>6, <1>7, <1>8, CallKinds

LEMMA UnfoldsLack ==
    ASSUME NEW k, Sane(k), NEW i \in Ifaces \cup {NoDev}, NEW s \in StepNow(i), s.do # "getflags"
    PROVE  Lacks(Unfolds(k, s))
<1> USE LacksOf
<1>1. CASE s.do = "clear"
  <2>1. /\ Lacks(ifc_set_addr(s.dev, Any4)) /\ Lacks(ClearRound(s.dev, s.p - 1)) /\ Lacks(<<>>)
    BY DEF ifc_set_addr, ClearRound, Packets
  <2>2. Lacks(IF s.p > 1 THEN ClearRound(s.dev, s.p - 1) ELSE <<>>)
    BY <2>1
  <2> QED
    BY <1>1, <2>1, <2>2 DEF Unfolds
<1>2. CASE s.do \in {"scan6", "readaddrs", "readroutes", "scanhosts", "scandefault"}
  <2>1. i \in Ifaces /\ s.dev = i /\ (s.do \in {"scan6", "readaddrs", "readroutes"} => s.p \in Nat)
    BY <1>2, StepNowParts DEF OfSockets, Fits
  <2>2. ASSUME NEW do \in {"readaddrs", "readroutes"}, NEW p, NEW n
        PROVE  Lacks(ThenRead(do, i, p, n))
    <3>1. Lacks(<< Step(do, i, Any4, p + n, Any4) >>) /\ Lacks(<<>>)
      BY DEF Packets
    <3> QED
      BY <3>1 DEF ThenRead
  <2>3. ASSUME NEW p \in Nat
        PROVE  Lacks(ReadAddresses(k, i, p)) /\ Lacks(ReadRoutes(k, i, p))
    <3> DEFINE as == AddressDeletions(Block(Lines6(k, i), p), i)
               rs == RouteDeletions(Block(Lines4(k), p), i)
    <3>1. as \in Seq(StepOf(i)) /\ rs \in Seq(StepOf(i))
      BY <2>1, DeletionsTyped
    <3>2. /\ \A n \in DOMAIN as : Plain(as[n])
          /\ \A n \in DOMAIN rs : Plain(rs[n])
      BY DEF AddressDeletions, RouteDeletions, Step, Plain, Packets
    <3> HIDE DEF as, rs
    <3>3. Lacks(as) /\ Lacks(rs)
      BY <3>1, <3>2, LacksEach
    <3>4. Lacks(OnFailure("note", as)) /\ Lacks(OnFailure("ignore", rs))
      BY <3>3
    <3> QED
      BY <2>2, <3>4 DEF ReadAddresses, ReadRoutes, as, rs
  <2>4. Lacks(ifc_init) /\ Lacks(ifc_close)
    BY DEF ifc_init, ifc_close, Packets
  <2>5. Lacks(ifc_init \o ReadRoutes(k, i, 0) \o ifc_close) /\ Lacks(ifc_init \o ifc_close)
    BY <2>3, <2>4
  <2> QED
    BY <1>2, <2>1, <2>3, <2>5 DEF Unfolds
<1>3. CASE s.do \notin {"clear", "scan6", "readaddrs", "readroutes", "scanhosts", "scandefault"}
  <2>1. Unfolds(k, s) = <<>>
    BY <1>3 DEF Unfolds
  <2> QED
    BY <2>1
<1> QED
  BY <1>1, <1>2, <1>3

LEMMA InitNoDns == Init => NoDnsInv
<1> SUFFICES ASSUME Init, NEW p \in Procs
             PROVE  Lacks(proc[p].todo) /\ Opened(proc[p], ctl[p], held[p], 19)
  BY DEF NoDnsInv, NoDns
<1>1. /\ proc[p].todo = <<>> /\ proc[p].errs = {} /\ Accounted(ctl[p]) /\ ctl[p].raw = 0
      /\ held[p] = [open |-> {}, raw |-> 0] /\ ctl[p].open = {}
  BY DEF Init, IfcInit, Accounted, Ctl, NoSock
<1>2. held[p] = [open |-> ctl[p].open, raw |-> ctl[p].raw] /\ ctl[p].raw \in Nat
  BY <1>1
<1>3. Opened(proc[p], ctl[p], held[p], 19)
  BY <1>1, <1>2, OpenedAtFirst
<1> QED
  BY <1>1, <1>3, LacksOf

LEMMA NoDnsKept ==
    ASSUME Typed, AllAccounted, DOMAIN held = Procs, ConfigureInv, NoDnsInv, [Next]_vars
    PROVE  NoDnsInv'
<1> SUFFICES ASSUME NEW p \in Procs, ~Configures(p)'
             PROVE  Lacks(proc'[p].todo) /\ Opened(proc'[p], ctl'[p], held'[p], 19)
  BY DEF NoDnsInv, NoDns
<1> DEFINE y == proc[p]
           z == proc'[p]
           s == Head(y.todo)
           t == Tail(y.todo)
           i == y.call.dev
<1>1. CASE Waits(p)
  BY <1>1 DEF Waits, NoDnsInv, NoDns, Configures
<1>2. CASE Begins(p)
  <2>1. PICK c \in Calls : /\ z.call = c /\ z.todo = Program(c) /\ z.errs = {} /\ ctl' = ctl
                           /\ held'[p] = [open |-> ctl[p].open, raw |-> ctl[p].raw]
    BY <1>2 DEF Begins
  <2>2. Opened(z, ctl'[p], held'[p], 19)
    BY <2>1, PacketSocketsCounted, OpenedAtFirst
  <2>3. c.fn \notin Configuring
    BY <2>1 DEF Configures
  <2> QED
    BY <2>1, <2>2, <2>3, ProgramLacks
<1>3. ASSUME y.todo # <<>>, ~Configures(p)
      PROVE  /\ y.todo \in Seq(StepNow(i)) /\ s \in StepNow(i) /\ i \in Ifaces \cup {NoDev} /\ t \in Seq(StepOf(i))
             /\ Plain(s) /\ Lacks(t) /\ Opened(y, ctl[p], held[p], 19)
  <2>1. y.todo \in TodoOf(i) /\ i \in Ifaces \cup {NoDev}
    BY DEF Typed, ProcessOK
  <2>2. y.todo \in Seq(StepNow(i)) /\ s \in StepNow(i) /\ t \in Seq(StepOf(i))
    BY <1>3, <2>1, TodoParts
  <2>3. Lacks(y.todo) /\ Opened(y, ctl[p], held[p], 19)
    BY <1>3 DEF NoDnsInv, NoDns
  <2> QED
    BY <1>3, <2>1, <2>2, <2>3, LacksEach
<1>4. ASSUME held'[p] = held[p], y.todo # <<>>, NEW e, Fails(p, e)
      PROVE  Lacks(z.todo) /\ Opened(z, ctl'[p], held'[p], 19)
  <2>1. /\ z.call = y.call
        /\ z.todo = (IF GoesOn(s, e) THEN t ELSE IF s.fail = "return" THEN <<>> ELSE Closes(t))
        /\ ctl' = ctl /\ z.errs = y.errs \cup {<<s, e>>}
    BY <1>4, FailTyped
  <2>2. t \in Seq(StepOf(i)) /\ Plain(s) /\ Lacks(t) /\ Opened(y, ctl[p], held[p], 19)
    BY <1>3, <1>4, <2>1 DEF Configures
  <2>3. Lacks(Closes(t))
    <3>1. Closes(t) \in Seq(StepOf(i)) /\ Elements(Closes(t)) = {x \in Elements(t) : x.do \in {"close", "close6"}}
      BY <2>2, ClosesTyped
    <3>2. \A n \in DOMAIN t : Plain(t[n])
      BY <2>2, LacksEach
    <3>3. \A n \in DOMAIN Closes(t) : Plain(Closes(t)[n])
      BY <3>1, <3>2 DEF Elements
    <3> QED
      BY <3>1, <3>3, LacksEach
  <2>4. Opened(z, ctl[p], held[p], 19)
    <3>1. Leaves(z) <=> Leaves(y)
      <4>1. \A f : f \in z.errs <=> f \in y.errs \/ f = <<s, e>>
        BY <2>1
      <4>2. <<s, e>>[1] = s /\ s.do \notin {"exchange", "rawclose"}
        BY <2>2 DEF Plain, Packets
      <4> HIDE DEF y, z, s
      <4> QED
        BY <4>1, <4>2 DEF Leaves
    <3> QED
      BY <2>2, <3>1 DEF Opened
  <2> QED
    BY <1>4, <2>1, <2>2, <2>3, <2>4, LacksOf
<1>5. ASSUME held'[p] = held[p], y.todo # <<>>, Succeeds(p)
      PROVE  Lacks(z.todo) /\ Opened(z, ctl'[p], held'[p], 19)
  <2>1. z.call = y.call /\ z.errs = y.errs /\ ~Configures(p)
    BY <1>5, DoParts DEF Configures
  <2>2. /\ y.todo \in Seq(StepNow(i)) /\ s \in StepNow(i) /\ i \in Ifaces \cup {NoDev} /\ t \in Seq(StepOf(i))
        /\ Plain(s) /\ Lacks(t) /\ Opened(y, ctl[p], held[p], 19)
    BY <1>3, <1>5, <2>1
  <2>3. Opened(z, ctl'[p], held'[p], 19)
    <3>1. ctl'[p] = Sockets(ctl[p], s) /\ Accounted(ctl[p])
      BY <1>5 DEF Succeeds, Do, AllAccounted
    <3>2. s.do # "rawsocket" /\ s.do # "rawclose"
      BY <2>2 DEF Plain, Packets
    <3> HIDE DEF y, z, s
    <3> QED
      BY <1>5, <2>1, <2>2, <3>1, <3>2, OpenedAtTheEnd
  <2>4. CASE s.do # "getflags"
    <3>1. z.todo = Unfolds(net, s) \o t
      BY <1>5, <2>4, DoTyped
    <3>2. Lacks(Unfolds(net, s))
      BY <2>2, <2>4, UnfoldsLack DEF Typed
    <3> QED
      BY <2>2, <2>3, <3>1, <3>2, LacksOf
  <2>5. CASE s.do = "getflags"
    <3>1. z.todo # <<>> /\ Head(z.todo) = SetsFlags(s) /\ Tail(z.todo) = t /\ ProcessOK(z)
      BY <1>5, <2>5, DoTyped
    <3>2. z.todo \in Seq(StepNow(i))
      BY <2>1, <3>1, TodoParts DEF ProcessOK
    <3>3. Plain(SetsFlags(s))
      <4>1. s \in StepOf(i)
        BY <2>2, <2>5, StepNowParts
      <4>2. DOMAIN s = {"do", "dev", "a", "p", "g", "fail"}
        BY <2>2, <4>1, StepParts
      <4> QED
        BY <2>2, <4>2 DEF SetsFlags, Plain, Packets
    <3>4. \A n \in DOMAIN z.todo : Plain(z.todo[n])
      <4>1. /\ Head(z.todo) = z.todo[1]
            /\ \A n \in DOMAIN z.todo : n # 1 => n - 1 \in DOMAIN t /\ t[n - 1] = z.todo[n]
        <5> DEFINE r == z.todo
        <5>1. r # <<>> /\ Tail(r) = t /\ r \in Seq(StepNow(i))
          BY <3>1, <3>2
        <5> HIDE DEF r, t, i
        <5>2. Head(r) = r[1] /\ \A n \in DOMAIN r : n # 1 => n - 1 \in DOMAIN Tail(r) /\ Tail(r)[n - 1] = r[n]
          BY <5>1, TailParts
        <5> QED
          BY <5>1, <5>2 DEF r
      <4>2. \A n \in DOMAIN t : Plain(t[n])
        BY <2>2, LacksEach
      <4> QED
        BY <3>1, <3>3, <4>1, <4>2
    <3> QED
      BY <2>3, <3>2, <3>4, LacksEach
  <2> QED
    BY <2>4, <2>5
<1> QED
  BY <1>1, <1>2, <1>4, <1>5, StepOfProcess DEF GoesFurther

\* What a configuration knows is what its success promises.
LEMMA KnownIsConfigured ==
    ASSUME NEW k, NEW c, NEW errs, NEW n \in 17 .. 19, Known(k, c, errs, n)
    PROVE  Configured(k, c)
<1>1. /\ Up(k, c.dev) /\ c.a \in Elements(k.link[c.dev].addrs)
      /\ k.link[c.dev].mask = prefixLengthToIpv4Netmask(c.p) /\ c.p \in PrefixLength
      /\ HasRoute(k, DefaultRoute(c.dev, c.g))
  BY DEF Known
<1>2. ipv4NetmaskToPrefixLength(k.link[c.dev].mask) = c.p
  BY <1>1, LengthIsReadBack DEF MaskLength
<1> QED
  BY <1>1, <1>2 DEF Configured

ConfigureAll == Typed /\ AllAccounted /\ DOMAIN held = Procs /\ ConfigureInv /\ NoDnsInv

LEMMA ConfigureInvariance == Spec => []ConfigureAll
<1>1. Init => ConfigureAll
  BY InitTyped, InitAccounted, InitConfigures, InitNoDns DEF ConfigureAll, Init
<1>2. ConfigureAll /\ [Next]_vars => ConfigureAll'
  BY TypedKept, AccountedKept, HeldStays, ConfigureKept, NoDnsKept DEF ConfigureAll
<1> QED
  BY <1>1, <1>2, PTL DEF Spec

\* A call of ifc_configure or do_dhcp that nobody disturbed and that reports success has
\* the interface up, the address, the prefix length and the default route in place: what a
\* step did is taken back by none of the later ones.  Each DNS server is set, or its
\* property_set failed: of which the success that is reported says nothing.
THEOREM ConfigurationIsComplete == Spec => []ConfigureIsComplete
<1>1. ConfigureAll => ConfigureIsComplete
  <2> SUFFICES ASSUME ConfigureAll, NEW p \in Procs, Returned(p, Configuring), proc[p].ret = "ok",
                      proc[p].call.a # Any4
               PROVE  LET c == proc[p].call IN
                      Configured(net, c) /\ \A m \in 1 .. 2 : DnsIs(net, c, proc[p].errs, m)
    BY DEF ConfigureIsComplete, DnsIs
  <2> DEFINE c == proc[p].call
  <2>1. Configures(p) /\ calm[p] /\ proc[p].todo = <<>>
    BY DEF Returned, Configures, Idle
  <2>2. PICK n \in 1 .. 19 : At(proc[p].todo, n, c) /\ Known(net, c, proc[p].errs, n)
    BY <2>1 DEF ConfigureAll, ConfigureInv, ConfigureAt
  <2>3. n = 19
    <3>1. DOMAIN <<>> = 1 .. 19 - n
      BY <2>1, <2>2 DEF At
    <3> QED
      BY <3>1
  <2>4. \A m \in 1 .. 2 : DnsIs(net, c, proc[p].errs, m)
    <3>1. DnsIs(net, c, proc[p].errs, 1) /\ DnsIs(net, c, proc[p].errs, 2)
      BY <2>2, <2>3 DEF Known
    <3>2. \A m \in 1 .. 2 : m = 1 \/ m = 2
      OBVIOUS
    <3> HIDE DEF DnsIs
    <3> QED
      BY <3>1, <3>2
  <2>5. Configured(net, c)
    <3> HIDE DEF c
    <3> QED
      BY <2>2, <2>3, KnownIsConfigured
  <2> QED
    BY <2>4, <2>5
<1> QED
  BY <1>1, ConfigureInvariance, PTL

(***************************************************************************)
(* The DNS servers come last.                                              *)
(***************************************************************************)

LEMMA EventLeavesDns ==
    ASSUME Typed, Event
    PROVE  net'.dns = net.dns
<1>1. DOMAIN net = {"link", "routes", "conns", "dns"}
  BY DEF Typed, Sane, Kernel
<1>2. ASSUME NEW i, NEW family
      PROVE  Flush(net, i, family).dns = net.dns /\ DOMAIN Flush(net, i, family) = DOMAIN net
  BY <1>1 DEF Flush
<1>3. ASSUME NEW i \in Ifaces, Unplug(i)
      PROVE  net'.dns = net.dns
  BY <1>1, <1>2, <1>3 DEF Unplug, Outside
<1>4. ASSUME NEW i \in Ifaces, Plug(i) \/ Capture(i)
      PROVE  net'.dns = net.dns
  BY <1>1, <1>4 DEF Plug, Capture, Outside
<1>5. ASSUME NEW i \in Ifaces, NEW a \in Addrs6, Autoconf(i, a)
      PROVE  net'.dns = net.dns
  BY <1>1, <1>5 DEF Autoconf, Outside, NewAddr
<1>6. ASSUME NEW a \in Addrs, Connect(a)
      PROVE  net'.dns = net.dns
  BY <1>1, <1>6 DEF Connect, Outside
<1> QED
  BY <1>3, <1>4, <1>5, <1>6 DEF Event

DnsComes(i) ==
    \E p \in Procs : LET c == proc[p].call IN
        /\ proc'[p] # proc[p] /\ c.fn \in Configuring /\ c.dev = i /\ proc[p].ret = "ok"
        /\ calm[p] /\ c.a # Any4 => Configured(net, c)

\* A setting of a DNS server is one of the last two steps of a configuration.
LEMMA DnsComesWhole ==
    ASSUME ConfigureAll, NEW p \in Procs, proc[p].todo # <<>>, Succeeds(p), NEW i \in Ifaces,
           net'.dns[i] # net.dns[i]
    PROVE  DnsComes(i)
<1> DEFINE y == proc[p]
           z == proc'[p]
           s == Head(y.todo)
           t == Tail(y.todo)
           c == y.call
           w == Whole(c)
<1>1. Typed /\ AllAccounted /\ ConfigureInv /\ NoDnsInv
  BY DEF ConfigureAll
<1>2. /\ s.do = "setdns" /\ Works(net, net', c.dev) /\ y.todo \in TodoOf(c.dev) /\ c.dev \in Ifaces \cup {NoDev}
  <2>1. Works(net, net', c.dev) /\ (s.do # "setdns" => net'.dns = net.dns)
    BY <1>1, DoTyped
  <2>2. s.do = "setdns"
    BY <2>1
  <2> QED
    BY <1>1, <2>1, <2>2 DEF Typed, ProcessOK
<1>3. c.dev = i
  BY <1>2 DEF Works, Elsewhere
<1>4. /\ y.todo \in Seq(StepNow(i)) /\ t \in Seq(StepOf(i)) /\ 1 \in DOMAIN y.todo /\ s = y.todo[1]
  BY <1>2, <1>3, TodoParts
<1>5. Configures(p) /\ ConfigureCall(c)
  <2>1. ~Lacks(y.todo)
    BY <1>2, <1>4, LacksEach DEF Plain
  <2>2. Configures(p)
    BY <1>1, <2>1 DEF NoDnsInv, NoDns
  <2> QED
    BY <1>1, <2>2, ConfiguringCalls
<1>6. z # y
  <2>1. z.todo = t
    <3>1. Unfolds(net, s) = <<>>
      BY <1>2 DEF Unfolds
    <3> QED
      BY <1>1, <1>2, <3>1, Did
  <2>2. t # y.todo
    <3> DEFINE q == y.todo
    <3>1. q \in Seq(StepNow(i)) /\ q # <<>> /\ t = Tail(q)
      BY <1>4
    <3> HIDE DEF q, t, StepNow
    <3>2. Len(Tail(q)) = Len(q) - 1 /\ Len(q) \in Nat
      BY <3>1
    <3>3. t # q
      <4> SUFFICES ASSUME t = q
                   PROVE  FALSE
        OBVIOUS
      <4>1. Tail(q) = q
        BY <3>1
      <4> DEFINE n == Len(q)
      <4>2. n = n - 1 /\ n \in Nat
        BY <3>2, <4>1
      <4> HIDE DEF n
      <4> QED
        BY <4>2
    <3> QED
      BY <3>3 DEF q
  <2> QED
    BY <2>1, <2>2
<1>7. ConfigureAt(y, net, calm[p], ctl[p], held[p])
  BY <1>1, <1>5 DEF ConfigureInv
<1>8. ~Lasts(y.todo)
  BY <1>2, <1>4 DEF Lasts
<1>9. PICK n \in 1 .. 19 : At(y.todo, n, c) /\ (calm[p] /\ c.a # Any4 => Known(net, c, y.errs, n))
  BY <1>7, <1>8 DEF ConfigureAt
<1>10. n \in {17, 18}
  <2>1. /\ n <= 18
        /\ s = w[n] \/ (w[n].do = "getflags" /\ s = SetsFlags(w[n]))
    BY <1>4, <1>9, NextStep
  <2>2. n \in 1 .. 18
    BY <2>1
  <2>3. s.do = "setdns"
    BY <1>2
  <2> HIDE DEF s, w, c
  <2> QED
    <3>1. PlaceOf(s, w[n], n)
      BY <1>5, <2>1, <2>2, WhichStep DEF w
    <3> QED
      BY <2>3, <3>1 DEF PlaceOf
<1>11. calm[p] /\ c.a # Any4 => Configured(net, c)
  <2> SUFFICES ASSUME calm[p], c.a # Any4
               PROVE  Configured(net, c)
    OBVIOUS
  <2>1. n \in 17 .. 19 /\ Known(net, c, y.errs, n)
    BY <1>9, <1>10
  <2> HIDE DEF c
  <2> QED
    BY <2>1, KnownIsConfigured
<1>12. y.ret = "ok"
  BY <1>7, <1>8 DEF ConfigureAt
<1> QED
  BY <1>3, <1>5, <1>6, <1>11, <1>12 DEF DnsComes, Configures

\* The DNS servers of an interface are set when all the rest of it is: what is left of
\* ifc_configure is the last two of its steps, which one that will report an error never
\* reaches, and no other function of ifc_utils.c sets net.<interface>.dns1 and dns2.
THEOREM DnsComesLast == Spec => DnsIsLast
<1>1. ConfigureAll /\ [Next]_vars
      => [\A i \in Ifaces : net'.dns[i] # net.dns[i] =>
            \E p \in Procs : LET c == proc[p].call IN
                /\ proc'[p] # proc[p] /\ c.fn \in Configuring /\ c.dev = i /\ proc[p].ret = "ok"
                /\ calm[p] /\ c.a # Any4 => Configured(net, c)]_vars
  <2> SUFFICES ASSUME ConfigureAll, Next, NEW i \in Ifaces, net'.dns[i] # net.dns[i]
               PROVE  DnsComes(i)
    BY DEF DnsComes
  <2>1. Typed
    BY DEF ConfigureAll
  <2>2. ~Event
    BY <2>1, EventLeavesDns
  <2>3. ASSUME NEW p \in Procs, Call(p)
        PROVE  FALSE
    <3>1. PICK c \in Calls : Begin(p, c)
      BY <2>3 DEF Call
    <3> QED
      BY <2>1, <3>1, CallTyped
  <2>4. ASSUME NEW p \in Procs, Continue(p)
        PROVE  DnsComes(i)
    <3>1. proc[p].todo # <<>> /\ (Succeeds(p) \/ \E e : Fails(p, e))
      BY <2>4, Continues
    <3>2. ~\E e : Fails(p, e)
      BY <2>1, <3>1, FailTyped
    <3> QED
      BY <3>1, <3>2, DnsComesWhole
  <2> QED
    BY <2>2, <2>3, <2>4 DEF Next
<1> QED
  BY <1>1, ConfigureInvariance, PTL DEF Spec, DnsIsLast

(***************************************************************************)
(* The sockets that a call leaves open.                                    *)
(***************************************************************************)

\* Every call but ifc_init will have closed what it found closed.
HeldOK(p) == proc[p].call.fn # "ifc_init" => ClosesAll(proc[p].todo, ctl[p], held[p].open)
HeldInv == \A p \in Procs : HeldOK(p)

LEMMA InitHeld == Init => HeldInv
<1> SUFFICES ASSUME Init
             PROVE  HeldInv
  OBVIOUS
<1>1. \A p \in Procs : proc[p].todo = <<>> /\ ctl[p].sock = NoSock /\ ctl[p].sock6 = NoSock
  BY DEF Init, IfcInit
<1>2. BothShut(<<>>)
  BY LacksShuts DEF BothShut, Has
<1> QED
  BY <1>1, <1>2 DEF HeldInv, HeldOK, ClosesAll, Closed

\* The steps whose failure ends a call at once come before the call opens a control
\* socket: they are those of do_dhcp before ifc_configure.
LEMMA ReturnsEarly ==
    ASSUME ConfigureAll, NEW p \in Procs, proc[p].todo # <<>>, NEW e, Fails(p, e),
           Head(proc[p].todo).fail = "return"
    PROVE  ctl[p].sock \in held[p].open \cup {NoSock} /\ ctl[p].sock6 \in held[p].open \cup {NoSock}
<1> DEFINE y == proc[p]
           s == Head(y.todo)
           c == y.call
<1>1. Typed /\ AllAccounted /\ ConfigureInv /\ NoDnsInv
  BY DEF ConfigureAll
<1>2. y.todo \in Seq(StepNow(c.dev)) /\ 1 \in DOMAIN y.todo /\ s = y.todo[1]
  BY <1>1, TodoParts DEF Typed, ProcessOK
<1>3. Configures(p)
  <2>1. ~Lacks(y.todo)
    BY <1>2, LacksEach DEF Plain
  <2> QED
    BY <1>1, <2>1 DEF NoDnsInv, NoDns
<1>4. ConfigureAt(y, net, calm[p], ctl[p], held[p]) /\ ConfigureCall(c)
  BY <1>1, <1>3, ConfiguringCalls DEF ConfigureInv
<1>5. ~Lasts(y.todo)
  <2>1. s.do \notin {"close", "close6"}
    BY DEF Fails, Outcomes, Certain, Sure, OnSock, OnSock6, OfDevice
  <2> QED
    BY <1>2, <2>1 DEF Lasts
<1>6. PICK n \in 1 .. 19 : At(y.todo, n, c) /\ Opened(y, ctl[p], held[p], n)
  BY <1>4, <1>5 DEF ConfigureAt
<1>7. n <= 8
  <2>1. n <= 18 /\ (s = Whole(c)[n] \/ (Whole(c)[n].do = "getflags" /\ s = SetsFlags(Whole(c)[n])))
    BY <1>2, <1>6, NextStep
  <2>2. n \in 1 .. 18 /\ s.fail = "return"
    BY <2>1
  <2> HIDE DEF s, c
  <2>3. s.fail = (IF n <= 6 \/ n = 8 THEN "return" ELSE IF n \in {7, 17, 18} THEN "ignore" ELSE "abort")
    <3>1. PlaceOf(s, Whole(c)[n], n)
      BY <1>4, <2>1, <2>2, WhichStep
    <3> QED
      BY <3>1 DEF PlaceOf
  <2> QED
    BY <2>2, <2>3
<1> QED
  BY <1>6, <1>7 DEF Opened

LEMMA ContinueHeld ==
    ASSUME ConfigureAll, HeldInv, NEW p \in Procs, GoesFurther(p)
    PROVE  HeldOK(p)'
<1> DEFINE y == proc[p]
           z == proc'[p]
           s == Head(y.todo)
           t == Tail(y.todo)
           i == y.call.dev
<1> USE DEF ConfigureAll
<1>1. y.todo # <<>> /\ (Succeeds(p) \/ \E e : Fails(p, e)) /\ held'[p] = held[p] /\ ctl[p] \in Ctl
  BY DEF GoesFurther, AllAccounted
<1>2. ProcessOK(y) /\ Sane(net)
  BY DEF Typed
<1>3. y.todo \in Seq(StepNow(i)) /\ t \in Seq(StepOf(i)) /\ i \in Ifaces \cup {NoDev} /\ s \in StepNow(i)
  BY <1>1, <1>2, TodoIs DEF ProcessOK, TodoOf
<1>4. SUFFICES ASSUME z.call.fn # "ifc_init"
               PROVE  ClosesAll(z.todo, ctl'[p], held[p].open)
  BY <1>1 DEF HeldOK
<1>5. ASSUME Succeeds(p)
      PROVE  ClosesAll(z.todo, ctl'[p], held[p].open)
  <2>1. z = [y EXCEPT !.todo = z.todo, !.got = z.got] /\ ProcessOK(z)
    BY <1>1, <1>5, DoTyped
  <2>2. z.call = y.call
    BY <1>2, <2>1 DEF ProcessOK
  <2>3. ClosesAll(y.todo, ctl[p], held[p].open)
    BY <1>4, <2>2 DEF HeldInv, HeldOK
  <2>4. ctl'[p] = Sockets(ctl[p], s)
    BY <1>5 DEF Succeeds, Do, AllAccounted
  <2>5. ClosesAll(t, ctl'[p], held[p].open)
    BY <1>1, <1>3, <2>3, <2>4, StepClosesAll
  <2>6. CASE s.do # "getflags"
    <3>1. Unfolds(net, s) \in Seq(StepOf(i)) /\ z.todo = Unfolds(net, s) \o t
      BY <1>1, <1>5, <2>6, DoTyped
    <3>2. BothShut(Unfolds(net, s))
      BY <1>2, <1>3, <2>6, UnfoldsShut
    <3>3. BothShut(z.todo) /\ \A do : Has(t, do) => Has(z.todo, do)
      BY <1>3, <2>5, <3>1, <3>2, JoinedBoth, JoinedHas DEF ClosesAll
    <3> QED
      BY <2>5, <3>3 DEF ClosesAll, Closed
  <2>7. CASE s.do = "getflags"
    <3>1. z.todo # <<>> /\ Head(z.todo) = SetsFlags(s) /\ Tail(z.todo) = t
      BY <1>1, <1>5, <2>7, DoTyped
    <3>2. z.todo \in Seq(StepNow(i))
      BY <2>1, <2>2 DEF ProcessOK, TodoOf
    <3>3. SetsFlags(s).do = "setflags"
      <4>1. s \in StepOf(i)
        BY <1>3, <2>7, StepNowParts
      <4>2. DOMAIN s = {"do", "dev", "a", "p", "g", "fail"}
        BY <1>3, <4>1, StepParts
      <4> QED
        BY <4>2 DEF SetsFlags
    <3>4. BothShut(z.todo) /\ \A do : Has(t, do) => Has(z.todo, do)
      BY <2>5, <3>1, <3>2, <3>3, HeadHas, HeadShuts DEF ClosesAll, BothShut
    <3> QED
      BY <2>5, <3>4 DEF ClosesAll, Closed
  <2> QED
    BY <2>6, <2>7
<1>6. ASSUME NEW e, Fails(p, e)
      PROVE  ClosesAll(z.todo, ctl'[p], held[p].open)
  <2>1. /\ ctl' = ctl /\ z.call = y.call
        /\ z.todo = (IF GoesOn(s, e) THEN t ELSE IF s.fail = "return" THEN <<>> ELSE Closes(t))
    BY <1>1, <1>6, FailTyped
  <2>2. ClosesAll(y.todo, ctl[p], held[p].open)
    BY <1>4, <2>1 DEF HeldInv, HeldOK
  <2>3. s.do \notin {"close", "close6"}
    <3>1. s.do \in {"close", "close6"} => Certain(net, ctl[p], s) = {}
      BY DEF Certain, OnSock, OnSock6, OfDevice
    <3>2. s.do \in {"close", "close6"} => Outcomes(net, ctl[p], s) = {"ok"}
      BY <3>1 DEF Outcomes, Sure
    <3> QED
      BY <1>6, <3>2 DEF Fails
  <2>4. ClosesAll(t, ctl[p], held[p].open)
    <3>1. \A do : Has(y.todo, do) <=> s.do = do \/ Has(t, do)
      BY <1>1, <1>3, HeadHas
    <3>2. BothShut(t)
      BY <1>1, <1>3, <2>2, HeadShuts DEF ClosesAll, BothShut
    <3> QED
      BY <2>2, <2>3, <3>1, <3>2 DEF ClosesAll, Closed
  <2>5. ClosesAll(Closes(t), ctl[p], held[p].open)
    BY <1>3, <2>4, ClosesShut DEF ClosesAll, Closed
  <2>6. s.fail = "return" => ClosesAll(<<>>, ctl[p], held[p].open)
    <3>1. BothShut(<<>>)
      BY LacksShuts DEF BothShut, Has
    <3> QED
      BY <1>1, <1>6, <3>1, ReturnsEarly DEF ClosesAll, Closed
  <2> QED
    BY <2>1, <2>4, <2>5, <2>6
<1> QED
  BY <1>1, <1>5, <1>6

LEMMA HeldKept ==
    ASSUME ConfigureAll, HeldInv, [Next]_vars
    PROVE  HeldInv'
<1> USE DEF ConfigureAll
<1> SUFFICES ASSUME NEW p \in Procs
             PROVE  HeldOK(p)'
  BY DEF HeldInv
<1>1. CASE Waits(p)
  BY <1>1 DEF Waits, HeldInv, HeldOK
<1>2. CASE Begins(p)
  <2>1. PICK c \in Calls : /\ proc'[p].call = c /\ proc'[p].todo = Program(c) /\ ctl' = ctl
                           /\ held'[p].open = ctl[p].open
    BY <1>2 DEF Begins
  <2>2. BothShut(Program(c)) \/ c.fn = "ifc_init"
    BY ProgramShuts
  <2>3. ctl[p].open = {ctl[p].sock, ctl[p].sock6} \ {NoSock}
    BY DEF AllAccounted, Accounted
  <2> QED
    BY <2>1, <2>2, <2>3 DEF HeldOK, ClosesAll, Closed
<1>3. CASE GoesFurther(p)
  BY <1>3, ContinueHeld
<1> QED
  BY <1>1, <1>2, <1>3, StepOfProcess

\* No call but ifc_init returns, however it returns, with a control socket open that was
\* closed when it began: an error return of ifc_utils.c leaves nothing but its closes to
\* do, each ifc_init comes before an ifc_close, and the early returns of do_dhcp come
\* before any.  A packet socket stays open in one call alone, a do_dhcp whose exchange
\* failed or that fell back to the parameters of an offer.
THEOREM CallsCloseSockets == Spec => []ReturnsClosed
<1>1. ConfigureAll /\ HeldInv => ReturnsClosed
  <2> SUFFICES ASSUME ConfigureAll, HeldInv, NEW p \in Procs, Idle(p)
               PROVE  /\ proc[p].call.fn # "ifc_init" => ctl[p].open \subseteq held[p].open
                      /\ ctl[p].raw = held[p].raw + (IF LeavesPacketSocket(p) THEN 1 ELSE 0)
    BY DEF ReturnsClosed
  <2>1. proc[p].todo = <<>> /\ ~Has(proc[p].todo, "close") /\ ~Has(proc[p].todo, "close6")
    BY DEF Idle, Has
  <2>2. ASSUME proc[p].call.fn # "ifc_init"
        PROVE  ctl[p].open \subseteq held[p].open
    <3>1. ClosesAll(proc[p].todo, ctl[p], held[p].open)
      BY <2>2 DEF HeldInv, HeldOK
    <3>2. ctl[p].sock \in held[p].open \cup {NoSock} /\ ctl[p].sock6 \in held[p].open \cup {NoSock}
      BY <2>1, <3>1 DEF ClosesAll, Closed
    <3> QED
      BY <3>2 DEF ConfigureAll, AllAccounted, Accounted
  <2>3. LeavesPacketSocket(p) <=> Leaves(proc[p])
    BY DEF LeavesPacketSocket, Failed, Leaves
  <2>4. Opened(proc[p], ctl[p], held[p], 19)
    <3>1. CASE Configures(p)
      <4>1. ConfigureAt(proc[p], net, calm[p], ctl[p], held[p])
        BY <3>1 DEF ConfigureAll, ConfigureInv
      <4>2. ASSUME NEW n \in 1 .. 19, At(proc[p].todo, n, proc[p].call)
            PROVE  n = 19
        <5>1. DOMAIN <<>> = 1 .. 19 - n
          BY <2>1, <4>2 DEF At
        <5> QED
          BY <5>1
      <4> QED
        BY <4>1, <4>2 DEF ConfigureAt
    <3>2. CASE ~Configures(p)
      BY <3>2 DEF ConfigureAll, NoDnsInv, NoDns
    <3> QED
      BY <3>1, <3>2
  <2> QED
    BY <2>2, <2>3, <2>4 DEF Opened
<1>2. Init => HeldInv
  BY InitHeld
<1>3. ConfigureAll /\ HeldInv /\ [Next]_vars => HeldInv'
  BY HeldKept
<1> QED
  BY <1>1, <1>2, <1>3, ConfigureInvariance, PTL DEF Spec

\* The kernel keeps its tables as they should be, whatever the library asks of it: a
\* prefix length that IPv4 or IPv6 does not have never gets into a route, and what is
\* read of an address, a netmask or the flags is one.
THEOREM TypesHold == Spec => []TypeOK
<1>1. ConfigureAll => TypeOK
  <2> SUFFICES ASSUME ConfigureAll
               PROVE  TypeOK
    OBVIOUS
  <2> USE DEF ConfigureAll
  <2>1. KernelTypeOK
    BY DEF Typed, Sane, KernelTypeOK
  <2>2. ASSUME NEW p \in Procs
        PROVE  /\ proc[p].ret \in {"ok", "error"} /\ proc[p].got.plen \in PrefixLength
               /\ proc[p].got.addr \in V4 /\ proc[p].got.gw \in V4
    BY DEF Typed, ProcessOK, GotRead
  <2>3. ctl \in [Procs -> [sock : Fds \cup {NoSock}, sock6 : Fds \cup {NoSock}, open : SUBSET Fds, raw : Nat]]
    <3>1. ctl \in [Procs -> Ctl] /\ \A p \in Procs : ctl[p].raw \in Nat
      BY PacketSocketsCounted DEF AllAccounted
    <3> QED
      BY <3>1 DEF Ctl
  <2> QED
    BY <2>1, <2>2, <2>3 DEF TypeOK, Typed
<1> QED
  BY <1>1, ConfigureInvariance, PTL
=============================================================================
