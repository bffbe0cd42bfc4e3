----------------------- MODULE DhcpServerTableProofs -----------------------
(***************************************************************************)
(* Proofs about what the lease table of the DHCP server says, for any      *)
(* network, configuration and set of datagrams: who has which lease, that  *)
(* a datagram takes no lease from another client, and that the file, the   *)
(* alarm and the DNS cache follow the table.                               *)
(*                                                                         *)
(* First, what a datagram may do to the table, as one disjunction over all *)
(* handlers (DatagramHandled); each property is then proved of that, and   *)
(* of the few other events.                                                *)
(***************************************************************************)
EXTENDS DhcpServerProofs

(***************************************************************************)
(* What a datagram does to the table.                                      *)
(***************************************************************************)

\* The lease of the client that sends m, by lease_find_by_client.
OwnLease(l, m) == l.hw = m.chaddr \/ (m.clid # NoId /\ l.clid = m.clid)

\* The client's lease is removed.
Removed(m, d) ==
    \E lease \in Pruned.leases : OwnLease(lease, m) /\ d = lease_prune(Pruned, {lease}, now)

\* A lease is only marked for the script.
Marked(d) == \E lease \in Pruned.leases : d = lease_set_interface(At(Pruned, lease)).d

\* No other lease of the table has the identifier.
OwnClid(d, l, clid) == clid # NoId => \A k \in d.leases : k.clid = clid => k = l

\* A line of the configuration is for a host.
LineFor(c, hw, clid) == config_has_mac(c, hw) \/ (c.clid # NoId /\ clid = c.clid)

\* A lease on the address of a line goes to the host of the line, or by BOOTP stays
\* where it is.
OwnAddress(l, m, clid) ==
    \A c \in OnLink : c.addr = l.addr /\ c.addr # NoAddr =>
        \/ LineFor(c, m.chaddr, clid)
        \/ m.type = "bootp" /\ l.hw = m.chaddr /\ l \in Pruned.leases

\* The lease that p points at is given to the sender of m, from table e.
GivenFrom(m, e, p, clid) ==
    /\ e = Pruned \/ Removed(m, e)
    /\ \/ p.d = e /\ SameClient(p.l, m)
       \/ \E a \in AnyAddr : ~Leased(e, a) /\ e.leases_left # 0 /\ p = lease4_allocate(e, a)
    /\ OneLeasePerClid(Pruned) => OwnClid(e, p.l, clid)
    /\ OwnAddress(p.l, m, clid)

\* The name of the lease after it was given is the one it had before, or its host's
\* by a line of the configuration, or no other lease had that name by one.
NameMayBe(p, r) ==
    \/ r.l.name = p.l.name
    \/ GivenTo(dhcp_conf, r.l.name, r.l)
    \/ OneLeasePerName(Pruned) => NotConfigured(p, r.l.name)

Given(m, d) ==
    \E clid \in AnyClientId, exp \in Nat : \E e, p, r :
        /\ GivenFrom(m, e, p, clid)
        /\ Regranted(p, r, m.chaddr, clid, exp) /\ NameMayBe(p, r)
        /\ d = r.d

HandledAs(m, d) == d = Pruned \/ Removed(m, d) \/ Marked(d) \/ Given(m, d)

\* What is acknowledged is a lease of the host of its line, if its address has one.
ForHost(d, a) ==
    \A l \in d.leases, c \in OnLink : l.addr = a /\ c.addr = a /\ a # NoAddr => OfLine(c, l)
Acknowledges(d, reply) == \A r \in reply : r.type = "ack" => ForHost(d, r.yiaddr)

\* A reply that grants nothing, or none.
GrantsNothing(reply) == \A r \in reply : r.type = "ack" => r.yiaddr = NoAddr

\* Every handler leaves such a table, and saves it unless it dies over it.
Handled(m) ==
    \E d, memo2, reply :
        /\ DbOK(d) /\ HandledAs(m, d) /\ Acknowledges(d, reply)
        /\ Finish(d, memo2, reply) \/ NullDereference(d)

(***************************************************************************)
(* What is found.                                                          *)
(***************************************************************************)

\* A lease found by its identifier, or none has the identifier and it is found
\* by its hardware address, or there is none.
LEMMA FoundBy ==
    ASSUME NEW d, NEW hw, NEW clid, NEW lease \in lease_find_by_client(d, hw, clid)
    PROVE  /\ lease # NULL => lease \in d.leases
           /\ \/ clid # NoId /\ lease \in d.leases /\ lease.clid = clid
              \/ /\ clid # NoId => \A k \in d.leases : k.clid # clid
                 /\ lease # NULL => lease.hw = hw
  BY DEF lease_find_by_client, OrNull

\* What is found for a client is the client's.
LEMMA FoundIsOwn ==
    ASSUME NEW d, NEW m, NEW lease \in lease_find_by_client(d, m.chaddr, m.clid), lease # NULL
    PROVE  lease \in d.leases /\ OwnLease(lease, m)
  BY FoundBy DEF OwnLease

\* The line that find_config finds is one for the client.
LEMMA find_configFinds ==
    ASSUME NEW S, NEW clid, NEW hw
    PROVE  \/ find_config(S, clid, hw) = NoConfig
           \/ /\ find_config(S, clid, hw) \in S
              /\ LineFor(find_config(S, clid, hw), hw, clid)
<1> DEFINE byClid == {c \in S : clid # NoId /\ c.clid = clid}
           byHw == {c \in S : config_has_mac(c, hw)}
           found == IF byClid # {} THEN byClid ELSE byHw
<1>1. find_config(S, clid, hw) = IF found = {} THEN NoConfig ELSE CHOOSE c \in found : TRUE
  BY DEF find_config
<1>2. \A c \in found : c \in S /\ LineFor(c, hw, clid)
  BY DEF LineFor
<1> HIDE DEF found
<1> QED
  BY <1>1, <1>2

\* NULL has no identifier and no address.
LEMMA NullOK == NULL.clid = NoId /\ NULL.addr = NoAddr
  BY DEF NULL, FreshLease

\* The leases of the table after the first step of a handler.
LEMMA PrunedTakes == Pruned.leases \subseteq db.leases
  BY DEF Pruned, lease_prune

\* Only a DHCPREQUEST is answered by an acknowledgement of an address.
LEMMA AnswerGrantsNothing ==
    /\ GrantsNothing({})
    /\ \A m, type, a, sid : type # "ack" \/ a = NoAddr => GrantsNothing(Answer(m, type, a, sid))
    /\ \A reply, d : GrantsNothing(reply) => Acknowledges(d, reply)
  BY DEF GrantsNothing, Answer, Acknowledges, ForHost

(***************************************************************************)
(* The handlers.                                                           *)
(***************************************************************************)

\* DHCPDISCOVER changes nothing but what lease_prune does.
LEMMA DHCPDISCOVERHandled ==
    ASSUME ServerInv, NEW m \in RequestMsg, NEW answering, DHCPDISCOVER(m, answering)
    PROVE  Handled(m)
<1>1. \E memo2, reply : GrantsNothing(reply) /\ Finish(Pruned, memo2, reply)
  BY AnswerGrantsNothing DEF DHCPDISCOVER
<1> QED
  BY <1>1, PrunedOK, AnswerGrantsNothing DEF Handled, HandledAs

\* Removing the client's lease.
LEMMA RemovedHandled ==
    ASSUME ServerInv, NEW m, NEW lease \in Pruned.leases, OwnLease(lease, m),
           NEW memo2, NEW reply, GrantsNothing(reply),
           Finish(lease_prune(Pruned, {lease}, now), memo2, reply)
    PROVE  Handled(m)
<1> DEFINE d == lease_prune(Pruned, {lease}, now)
<1>1. DbOK(d) /\ Removed(m, d)
  <2>1. now \in Nat /\ DbOK(Pruned)
    BY PrunedOK DEF ServerInv, ServerTypeOK
  <2> QED
    BY <2>1, lease_pruneOK DEF Removed
<1> HIDE DEF d
<1>2. Finish(d, memo2, reply)
  BY DEF d
<1> QED
  BY <1>1, <1>2, AnswerGrantsNothing DEF Handled, HandledAs

\* DHCPDECLINE removes the lease of the client if it has the declined address.
LEMMA DHCPDECLINEHandled ==
    ASSUME ServerInv, NEW m \in RequestMsg, DHCPDECLINE(m)
    PROVE  Handled(m)
<1> DEFINE e(lease) == lease_prune(Pruned, {lease}, now)
<1>1. PICK lease \in lease_find_by_client(Pruned, m.chaddr, m.clid) :
         \E memo2, reply :
            /\ GrantsNothing(reply)
            /\ \/ Finish(Pruned, memo2, reply)
               \/ /\ lease.addr = m.reqip /\ m.reqip # NoAddr
                  /\ Finish(e(lease), memo2, reply)
  BY AnswerGrantsNothing DEF DHCPDECLINE
<1>2. CASE \E memo2, reply : GrantsNothing(reply) /\ Finish(Pruned, memo2, reply)
  BY <1>2, PrunedOK, AnswerGrantsNothing DEF Handled, HandledAs
<1>3. CASE /\ lease.addr = m.reqip /\ m.reqip # NoAddr
           /\ \E memo2, reply : GrantsNothing(reply) /\ Finish(e(lease), memo2, reply)
  <2>1. lease \in Pruned.leases /\ OwnLease(lease, m)
    BY <1>3, NullOK, FoundIsOwn
  <2> QED
    BY <1>3, <2>1, RemovedHandled
<1> HIDE DEF e
<1> QED
  BY <1>1, <1>2, <1>3

\* DHCPRELEASE removes the lease of the client if it is the one it means.
LEMMA DHCPRELEASEHandled ==
    ASSUME ServerInv, NEW m \in RequestMsg, DHCPRELEASE(m)
    PROVE  Handled(m)
<1>1. PICK lease \in lease_find_by_client(Pruned, m.chaddr, m.clid) :
         \E memo2, reply :
            /\ GrantsNothing(reply)
            /\ \/ Finish(Pruned, memo2, reply)
               \/ lease # NULL /\ Finish(lease_prune(Pruned, {lease}, now), memo2, reply)
  BY AnswerGrantsNothing DEF DHCPRELEASE
<1>2. CASE \E memo2, reply : GrantsNothing(reply) /\ Finish(Pruned, memo2, reply)
  BY <1>2, PrunedOK, AnswerGrantsNothing DEF Handled, HandledAs
<1>3. CASE /\ lease # NULL
           /\ \E memo2, reply : /\ GrantsNothing(reply)
                                /\ Finish(lease_prune(Pruned, {lease}, now), memo2, reply)
  <2>1. lease \in Pruned.leases /\ OwnLease(lease, m)
    BY <1>3, FoundIsOwn
  <2> QED
    BY <1>3, <2>1, RemovedHandled
<1> QED
  BY <1>1, <1>2, <1>3

\* DHCPINFORM at most marks a lease for the script.
LEMMA DHCPINFORMHandled ==
    ASSUME ServerInv, NEW m \in RequestMsg, DHCPINFORM(m)
    PROVE  Handled(m)
<1>1. PICK found \in lease_find_by_client(Pruned, m.chaddr, m.clid) :
         \E lease \in IF found # NULL THEN {found}
                      ELSE OrNull(lease_find_by_addr(Pruned, Ciaddr(m))) :
            \E memo2, reply :
               /\ GrantsNothing(reply)
               /\ \/ Finish(Pruned, memo2, reply)
                  \/ lease # NULL /\ Finish(lease_set_interface(At(Pruned, lease)).d, memo2, reply)
  BY AnswerGrantsNothing DEF DHCPINFORM
<1>2. PICK lease \in IF found # NULL THEN {found}
                     ELSE OrNull(lease_find_by_addr(Pruned, Ciaddr(m))) :
         \E memo2, reply :
            /\ GrantsNothing(reply)
            /\ \/ Finish(Pruned, memo2, reply)
               \/ lease # NULL /\ Finish(lease_set_interface(At(Pruned, lease)).d, memo2, reply)
  BY <1>1
<1>3. CASE \E memo2, reply : GrantsNothing(reply) /\ Finish(Pruned, memo2, reply)
  BY <1>3, PrunedOK, AnswerGrantsNothing DEF Handled, HandledAs
<1> DEFINE d == lease_set_interface(At(Pruned, lease)).d
<1>4. CASE lease # NULL /\ \E memo2, reply : GrantsNothing(reply) /\ Finish(d, memo2, reply)
  <2>1. lease \in Pruned.leases
    BY <1>4, FoundBy DEF OrNull, lease_find_by_addr
  <2>2. DbOK(d) /\ Marked(d)
    <3>1. PtrOK(At(Pruned, lease))
      BY <2>1, PrunedOK, AtOK
    <3> QED
      BY <2>1, <3>1, lease_set_interfaceOK DEF PtrOK, Marked
  <2> HIDE DEF d
  <2> QED
    BY <1>4, <2>2, AnswerGrantsNothing DEF Handled, HandledAs
<1> HIDE DEF d
<1> QED
  BY <1>2, <1>3, <1>4 DEF d

\* Marking a lease for the script is an edit that shows nowhere.
LEMMA MarkChangedEdits ==
    ASSUME NEW p, PtrOK(p), NEW m, NEW fresh
    PROVE  /\ Edited(p, MarkChanged(p, m, fresh)) /\ SameNames(MarkChanged(p, m, fresh).l, p.l)
           /\ SameHolder(MarkChanged(p, m, fresh).l, p.l)
<1> DEFINE l2 == [p.l EXCEPT !.flags = @ \cup {"CHANGED"}]
<1>1. /\ l2 \in Lease /\ l2.addr = p.l.addr /\ p.l.flags \subseteq l2.flags
      /\ Entry(l2) = Entry(p.l) /\ l2.oldname = p.l.oldname
  BY DEF PtrOK, Pointer, Lease, Entry
<1> HIDE DEF l2
<1> QED
  BY <1>1, FlagsEdit, NoEdit DEF MarkChanged, l2

\* In DHCPREQUEST the lease that is granted has the address that is wanted.
LEMMA GranteeAddress ==
    ASSUME NEW d, DbOK(d), NEW m \in RequestMsg, NEW lease, NEW mine,
           mine = IF Squashes(m, lease) THEN NULL ELSE lease,
           mine # NULL => mine \in d.leases,
           ~WrongClient(m, lease), ~TableFull(d, m, mine)
    PROVE  Grantee(d, m, mine).l.addr = Wanted(m)
<1>1. CASE mine # NULL
  <2>1. Grantee(d, m, mine).l = lease /\ lease # NULL
    BY <1>1 DEF Grantee, At
  <2>2. lease.addr = Wanted(m)
    BY <1>1, <2>1 DEF Squashes, WrongClient, Unknown, Wanted, Selecting, InitReboot, Renewing
  <2> QED
    BY <2>1, <2>2
<1>2. CASE mine = NULL /\ Leased(d, Wanted(m))
  BY <1>2 DEF Grantee, Leased, At
<1>3. CASE mine = NULL /\ ~Leased(d, Wanted(m))
  <2>1. Grantee(d, m, mine) = lease4_allocate(d, Wanted(m))
    BY <1>3 DEF Grantee
  <2> QED
    BY <2>1 DEF lease4_allocate, At, FreshLease
<1> QED
  BY <1>1, <1>2, <1>3

\* The identifier a lease is given in DHCPREQUEST is that of no other lease.
LEMMA RequestClid ==
    ASSUME NEW m, NEW lease \in lease_find_by_client(Pruned, m.chaddr, m.clid),
           NEW d, d.leases \subseteq Pruned.leases, NEW l,
           lease # NULL /\ lease \in d.leases => l = lease,
           OneLeasePerClid(Pruned), ClidOf(m, lease) # NoId
    PROVE  OwnClid(d, l, ClidOf(m, lease))
<1>1. \/ \A k \in Pruned.leases : k.clid # ClidOf(m, lease)
      \/ lease \in Pruned.leases /\ lease.clid = ClidOf(m, lease)
  <2>1. CASE m.clid # NoId
    BY <2>1, FoundBy DEF ClidOf
  <2>2. CASE m.clid = NoId
    BY <2>2, FoundBy, NullOK DEF ClidOf
  <2> QED
    BY <2>1, <2>2
<1> QED
  BY <1>1, NullOK DEF OwnClid, OneLeasePerClid

\* The line of the client, if it has one, is a line for the client as it is recorded.
LEMMA RequestLine ==
    ASSUME ServerInv, NEW m, NEW lease, NEW c \in dhcp_conf, c = ConfigOf(m, lease)
    PROVE  /\ config_has_mac(c, m.chaddr) \/ (c.clid # NoId /\ c.clid = ClidOf(m, lease))
           /\ LineFor(c, m.chaddr, IF c.noclid THEN NoId ELSE ClidOf(m, lease))
<1>1. c # NoConfig /\ (c.noclid => c.clid = NoId)
  BY PoolAssumption DEF ServerInv, ServerTypeOK
<1>2. LineFor(c, m.chaddr, ClidOf(m, lease))
  BY <1>1, find_configFinds DEF ConfigOf
<1> QED
  BY <1>1, <1>2 DEF LineFor

\* The client that is recorded as having m's identifier, or as having none.
LEMMA ClidOfOK ==
    ASSUME NEW m, NEW lease \in lease_find_by_client(Pruned, m.chaddr, m.clid),
           ClidOf(m, lease) # NoId
    PROVE  ClidOf(m, lease) \in ClidsOf(m)
<1>1. CASE m.clid # NoId
  BY <1>1 DEF ClidOf, ClidsOf
<1>2. CASE m.clid = NoId
  <2>1. lease \in db.leases /\ lease.hw = m.chaddr /\ lease.clid = ClidOf(m, lease)
    BY <1>2, FoundBy, NullOK, PrunedTakes DEF ClidOf
  <2> QED
    BY <1>2, <2>1 DEF ClidsOf
<1> QED
  BY <1>1, <1>2

\* The leases that are not given were in the table.
LEMMA GivenOthers ==
    ASSUME ServerInv, NEW m, NEW e, NEW p, NEW clid, GivenFrom(m, e, p, clid), PtrOK(p)
    PROVE  /\ Others(p) \subseteq Pruned.leases
           /\ p.l \in Pruned.leases \/ (p.l.name = NoName /\ ~Leased(e, p.l.addr))
<1>1. DbOK(Pruned) /\ now \in Nat
  BY PrunedOK DEF ServerInv, ServerTypeOK
<1>2. e.leases \subseteq Pruned.leases /\ DbOK(e)
  <2>1. ASSUME Removed(m, e) PROVE e.leases \subseteq Pruned.leases /\ DbOK(e)
    <3>1. PICK lease : e = lease_prune(Pruned, {lease}, now)
      BY <2>1 DEF Removed
    <3> DEFINE target == {lease}
    <3>2. e = lease_prune(Pruned, target, now)
      BY <3>1
    <3> HIDE DEF target
    <3> QED
      BY <1>1, <3>2, lease_pruneOK
  <2> QED
    BY <1>1, <2>1 DEF GivenFrom
<1>3. p.d.leases = Others(p) \cup {p.l}
  BY OthersOK
<1>4. CASE p.d = e
  BY <1>2, <1>3, <1>4
<1>5. CASE \E a \in AnyAddr : ~Leased(e, a) /\ p = lease4_allocate(e, a)
  <2>1. PICK a \in AnyAddr : ~Leased(e, a) /\ p = lease4_allocate(e, a)
    BY <1>5
  <2> DEFINE n == FreshLease(a)
  <2>2. n.addr = a /\ n.name = NoName
    BY DEF FreshLease
  <2>3. p = At([e EXCEPT !.leases = @ \cup {n}, !.leases_left = @ - 1, !.file_dirty = TRUE], n)
    BY <2>1 DEF lease4_allocate
  <2> HIDE DEF n
  <2>4. p.l = n /\ p.d.leases = e.leases \cup {n}
    BY <1>2, <2>3 DEF At, DbOK, Database
  <2> QED
    BY <1>2, <2>1, <2>2, <2>4 DEF Others
<1> QED
  BY <1>4, <1>5 DEF GivenFrom

\* The name is right if lease_set_hostname is told whether it is the configuration's.
LEMMA GivenName ==
    ASSUME ServerInv, NEW m \in RequestMsg, NEW e, NEW p, NEW clid \in AnyClientId,
           GivenFrom(m, e, p, clid), PtrOK(p),
           NEW c, Edited(p, c), SameNames(c.l, p.l), SameHolder(c.l, p.l),
           NEW name \in AnyName, NEW auth \in BOOLEAN, NEW len \in Nat, NEW exp,
           auth /\ name # NoName =>
               \E line \in dhcp_conf : line.name = name /\ LineFor(line, m.chaddr, clid)
    PROVE  LET h == lease_set_hwaddr(c, m.chaddr, clid)
               n == IF name = NoName THEN h ELSE lease_set_hostname(h, name, auth)
               r == lease_set_interface(lease_set_expires(n, len, now))
           IN  Regranted(p, r, m.chaddr, clid, exp) => NameMayBe(p, r)
<1> DEFINE h == lease_set_hwaddr(c, m.chaddr, clid)
           n == IF name = NoName THEN h ELSE lease_set_hostname(h, name, auth)
           r == lease_set_interface(lease_set_expires(n, len, now))
<1>1. SUFFICES ASSUME Regranted(p, r, m.chaddr, clid, exp), OneLeasePerName(Pruned)
               PROVE  \/ r.l.name = p.l.name
                      \/ GivenTo(dhcp_conf, r.l.name, r.l)
                      \/ NotConfigured(p, r.l.name)
  BY DEF NameMayBe
<1>2. now \in Nat /\ m.chaddr \in Hosts
  BY MessageOK DEF ServerInv, ServerTypeOK
<1>3. UniqueOthers(p)
  BY <1>1, GivenOthers DEF UniqueOthers, OneLeasePerName
<1>4. \/ r.l.name = p.l.name
      \/ r.l.name = name /\ name # NoName /\ (auth \/ NotConfigured(p, name))
  BY <1>2, <1>3, RegrantedName
<1> HIDE DEF r
<1>5. CASE r.l.name = name /\ name # NoName /\ auth
  <2>1. PICK line \in dhcp_conf : line.name = name /\ LineFor(line, m.chaddr, clid)
    BY <1>5
  <2>2. r.l.hw = m.chaddr /\ (clid # NoId => r.l.clid = clid)
    BY <1>1 DEF Regranted
  <2> QED
    BY <1>5, <2>1, <2>2 DEF GivenTo, OfLine, LineFor
<1> QED
  BY <1>4, <1>5

\* What DHCPREQUEST grants is given to the client.
LEMMA GrantedIsGiven ==
    ASSUME ServerInv, NEW m \in RequestMsg,
           NEW lease \in lease_find_by_client(Pruned, m.chaddr, m.clid),
           NEW config, config = ConfigOf(m, lease),
           NEW clid, clid = IF config.noclid THEN NoId ELSE ClidOf(m, lease),
           NEW mine, mine = IF Squashes(m, lease) THEN NULL ELSE lease,
           NEW d, DbOK(d),
           d = IF Squashes(m, lease) THEN lease_prune(Pruned, {lease}, now) ELSE Pruned,
           ~WrongClient(m, lease), ~WrongAddress(d, m, config, mine), ~TableFull(d, m, mine),
           NEW len \in LeaseTimes
    PROVE  /\ Given(m, Granted(d, m, config, mine, clid, len).d)
           /\ ForHost(Granted(d, m, config, mine, clid, len).d, Wanted(m))
<1> DEFINE p == Grantee(d, m, mine)
           fresh == mine = NULL /\ ~Leased(d, Wanted(m))
           c == MarkChanged(p, m, fresh)
           name == IF config.name # NoName THEN config.name ELSE m.name
           auth == config.name # NoName
           h == lease_set_hwaddr(c, m.chaddr, clid)
           n == IF name = NoName THEN h ELSE lease_set_hostname(h, name, auth)
           r == lease_set_interface(lease_set_expires(n, len, now))
           exp == IF len = 0 THEN 0 ELSE now + len
<1>1. DbOK(Pruned) /\ now \in Nat /\ len \in Nat
  BY PrunedOK, ServerAssumption DEF ServerInv, ServerTypeOK
<1>2. mine # NULL => mine = lease /\ lease \in Pruned.leases /\ d = Pruned
  BY FoundBy
<1>3. PtrOK(p)
  BY <1>2, GranteeOK
<1>4. p.l.addr = Wanted(m)
  BY <1>2, GranteeAddress
<1>5. d = Pruned \/ Removed(m, d)
  <2>1. CASE Squashes(m, lease)
    BY <2>1, FoundIsOwn DEF Squashes, Removed
  <2> QED
    BY <2>1
<1>6. ~Reserved(Wanted(m), config) /\ (mine = NULL => ~InUse(d, Wanted(m), config))
  BY DEF WrongAddress
<1>7. \/ p.d = d /\ SameClient(p.l, m)
      \/ \E a \in AnyAddr : ~Leased(d, a) /\ d.leases_left # 0 /\ p = lease4_allocate(d, a)
  <2>1. CASE mine # NULL
    <3>1. p.d = d /\ p.l = lease
      BY <1>2, <2>1 DEF Grantee, At
    <3>2. OwnLease(lease, m)
      BY <1>2, <2>1, FoundIsOwn
    <3> QED
      BY <3>1, <3>2 DEF OwnLease, SameClient
  <2>2. CASE mine = NULL /\ Leased(d, Wanted(m))
    <3>1. p.d = d /\ p.l \in lease_find_by_addr(d, Wanted(m))
      BY <2>2 DEF Grantee, Leased, At, lease_find_by_addr
    <3>2. config_has_mac(config, p.l.hw)
      BY <1>6, <2>2, <3>1 DEF InUse
    <3>3. config \in dhcp_conf
      BY <3>2, ConfigOfOK DEF config_has_mac, NoConfig
    <3>4. config_has_mac(config, m.chaddr) \/ config.clid \in ClidsOf(m)
      BY <3>3, RequestLine, ClidOfOK
    <3> QED
      BY <3>1, <3>2, <3>3, <3>4 DEF SameClient
  <2>3. CASE mine = NULL /\ ~Leased(d, Wanted(m))
    <3>1. p = lease4_allocate(d, Wanted(m)) /\ d.leases_left # 0
      BY <2>3 DEF Grantee, TableFull
    <3> QED
      BY <2>3, <3>1, MessageOK
  <2> QED
    BY <2>1, <2>2, <2>3
<1>8. OneLeasePerClid(Pruned) => OwnClid(d, p.l, clid)
  <2>1. CASE clid = NoId
    BY <2>1 DEF OwnClid
  <2>2. CASE clid # NoId
    <3>1. clid = ClidOf(m, lease)
      BY <2>2
    <3>2. d.leases \subseteq Pruned.leases
      BY <1>1, lease_pruneOK
    <3>3. lease # NULL /\ lease \in d.leases => p.l = lease
      <4>1. CASE Squashes(m, lease)
        BY <4>1 DEF lease_prune
      <4>2. CASE ~Squashes(m, lease) /\ lease # NULL
        BY <4>2 DEF Grantee, At
      <4> QED
        BY <4>1, <4>2
    <3> QED
      BY <2>2, <3>1, <3>2, <3>3, RequestClid
  <2> QED
    BY <2>1, <2>2
<1>9. \A k \in OnLink : k.addr = Wanted(m) /\ k.addr # NoAddr => LineFor(k, m.chaddr, clid)
  <2> SUFFICES ASSUME NEW k \in OnLink, k.addr = Wanted(m), k.addr # NoAddr
               PROVE  LineFor(k, m.chaddr, clid)
    OBVIOUS
  <2>1. k \in dhcp_conf /\ k = config
    BY <1>6 DEF OnLink, Reserved, config_find_by_address
  <2> QED
    BY <2>1, RequestLine
<1>10. GivenFrom(m, d, p, clid)
  BY <1>4, <1>5, <1>7, <1>8, <1>9 DEF GivenFrom, OwnAddress
<1>11. clid \in AnyClientId /\ exp \in Nat /\ name \in AnyName /\ auth \in BOOLEAN /\ m.chaddr \in Hosts
  BY <1>1, FoundOK, MessageOK, ConfigOfOK DEF ClidOf, AnyClientId
<1>12. Edited(p, c) /\ SameNames(c.l, p.l) /\ SameHolder(c.l, p.l)
  <2> HIDE DEF p, fresh
  <2> QED
    BY <1>3, MarkChangedEdits
<1>13. Granted(d, m, config, mine, clid, len) = r
  BY DEF Granted, NamedFor, Named
<1>14. Regranted(p, r, m.chaddr, clid, exp)
  <2> HIDE DEF p, c, name, auth
  <2> QED
    BY <1>1, <1>3, <1>11, <1>12, RegrantedOK
<1>15. NameMayBe(p, r)
  <2>1. ASSUME auth PROVE \E line \in dhcp_conf : line.name = name /\ LineFor(line, m.chaddr, clid)
    <3>1. config \in dhcp_conf
      BY <2>1, ConfigOfOK DEF NoConfig
    <3> QED
      BY <2>1, <3>1, RequestLine
  <2> HIDE DEF p, c, name, auth, exp
  <2> QED
    BY <1>1, <1>3, <1>10, <1>11, <1>12, <1>14, <2>1, GivenName
<1> HIDE DEF p, r, exp
<1>16. ForHost(r.d, Wanted(m))
  <2>1. /\ PtrOK(r) /\ r.l.addr = Wanted(m) /\ r.l.hw = m.chaddr
        /\ clid # NoId => r.l.clid = clid
    BY <1>4, <1>14 DEF Regranted, Edited, Renamed, SameTable
  <2>2. \A l \in r.d.leases : l.addr = Wanted(m) => l = r.l
    BY <2>1 DEF PtrOK, DbOK, OneLeasePerAddr
  <2> QED
    BY <1>9, <2>1, <2>2 DEF ForHost, LineFor, OfLine
<1> QED
  BY <1>10, <1>11, <1>13, <1>14, <1>15, <1>16 DEF Given

\* DHCPREQUEST grants the lease, or takes the client's away, or neither.
LEMMA DHCPREQUESTHandled ==
    ASSUME ServerInv, NEW m \in RequestMsg, DHCPREQUEST(m)
    PROVE  Handled(m)
<1> DEFINE conf(lease) == ConfigOf(m, lease)
           id(lease) == IF conf(lease).noclid THEN NoId ELSE ClidOf(m, lease)
           my(lease) == IF Squashes(m, lease) THEN NULL ELSE lease
           e(lease) == IF Squashes(m, lease) THEN lease_prune(Pruned, {lease}, now) ELSE Pruned
           wrong(lease) == WrongClient(m, lease) \/ WrongAddress(e(lease), m, conf(lease), my(lease))
           granted(lease, len) == Granted(e(lease), m, conf(lease), my(lease), id(lease), len).d
<1>1. PICK lease \in lease_find_by_client(Pruned, m.chaddr, m.clid) :
         \/ \E memo2, reply :
               /\ GrantsNothing(reply)
               /\ \/ Finish(Pruned, memo2, reply)
                  \/ Finish(e(lease), memo2, reply)
                  \/ NullDereference(e(lease))
         \/ /\ ~wrong(lease) /\ ~TableFull(e(lease), m, my(lease))
            /\ \E len \in LeaseTimes : \E sid :
                  Finish(granted(lease, len), memo, Answer(m, "ack", Wanted(m), sid))
  <2> HIDE DEF e, wrong, granted
  <2> QED
    BY AnswerGrantsNothing DEF DHCPREQUEST, e, wrong, granted
<1> DEFINE d == e(lease)
<1>2. DbOK(Pruned) /\ DbOK(d) /\ HandledAs(m, d)
  <2>1. DbOK(Pruned) /\ now \in Nat
    BY PrunedOK DEF ServerInv, ServerTypeOK
  <2>2. CASE Squashes(m, lease)
    <3>1. lease \in Pruned.leases /\ OwnLease(lease, m)
      BY <2>2, FoundIsOwn DEF Squashes
    <3> QED
      BY <2>1, <2>2, <3>1, lease_pruneOK DEF HandledAs, Removed
  <2>3. CASE ~Squashes(m, lease)
    BY <2>1, <2>3 DEF HandledAs
  <2> QED
    BY <2>1, <2>2, <2>3
<1>3. ASSUME NEW len \in LeaseTimes, ~wrong(lease), ~TableFull(d, m, my(lease))
      PROVE  /\ DbOK(granted(lease, len)) /\ HandledAs(m, granted(lease, len))
             /\ \A sid : Acknowledges(granted(lease, len), Answer(m, "ack", Wanted(m), sid))
  <2>1. Given(m, granted(lease, len)) /\ ForHost(granted(lease, len), Wanted(m))
    BY <1>2, <1>3, GrantedIsGiven
  <2> HIDE DEF granted
  <2>2. DbOK(granted(lease, len))
    BY <2>1 DEF Given, Regranted, PtrOK
  <2> QED
    BY <2>1, <2>2 DEF HandledAs, Acknowledges, Answer
<1> HIDE DEF conf, id, my, e, wrong, granted
<1> QED
  BY <1>1, <1>2, <1>3, AnswerGrantsNothing DEF Handled, HandledAs

\* What a BOOTP client is granted is given to it, with no identifier.
LEMMA BootpGiven ==
    ASSUME ServerInv, NEW m \in RequestMsg, NEW e, NEW p, PtrOK(p), GivenFrom(m, e, p, NoId),
           NEW name \in AnyName, NEW time \in Nat,
           name # NoName => \E line \in dhcp_conf : line.name = name /\ config_has_mac(line, m.chaddr)
    PROVE  LET q == Named(lease_set_hwaddr(p, m.chaddr, NoId), name, TRUE)
               d == lease_set_interface(lease_set_expires(q, time, now)).d
           IN  DbOK(d) /\ HandledAs(m, d)
<1> DEFINE yes == TRUE
           h == lease_set_hwaddr(p, m.chaddr, NoId)
           q == IF name = NoName THEN h ELSE lease_set_hostname(h, name, yes)
           r == lease_set_interface(lease_set_expires(q, time, now))
           exp == IF time = 0 THEN 0 ELSE now + time
<1>1. /\ yes \in BOOLEAN /\ now \in Nat /\ exp \in Nat
      /\ m.chaddr \in Hosts /\ NoId \in AnyClientId
  BY MessageOK DEF ServerInv, ServerTypeOK, AnyClientId
<1>2. Edited(p, p) /\ SameNames(p.l, p.l) /\ SameHolder(p.l, p.l)
  BY NoEdit
<1>3. Regranted(p, r, m.chaddr, NoId, exp)
  <2> HIDE DEF yes
  <2> QED
    BY <1>1, <1>2, RegrantedOK
<1>4. NameMayBe(p, r)
  <2>1. name # NoName => \E line \in dhcp_conf : line.name = name /\ LineFor(line, m.chaddr, NoId)
    BY DEF LineFor
  <2> HIDE DEF yes, exp
  <2> QED
    BY <1>1, <1>2, <1>3, <2>1, GivenName
<1>5. Given(m, r.d) /\ DbOK(r.d)
  <2> HIDE DEF r, exp
  <2> QED
    BY <1>1, <1>3, <1>4 DEF Given, Regranted, PtrOK
<1> QED
  BY <1>5 DEF Named, HandledAs

\* BOOTP gives the client the address of its line, the one it has, or an unused one.
LEMMA BOOTPHandled ==
    ASSUME ServerInv, NEW m \in RequestMsg, NEW answering, BOOTP(m, answering)
    PROVE  Handled(m)
<1> DEFINE config == find_config(OnLink, NoId, m.chaddr)
           nailed == config.addr # NoAddr
           ptr(d, lease, a) == IF lease = NULL THEN lease4_allocate(d, a) ELSE At(d, lease)
           given(d, lease, a) ==
             LET q == Named(lease_set_hwaddr(ptr(d, lease, a), m.chaddr, NoId), config.name, TRUE)
             IN  lease_set_interface(lease_set_expires(q, config.time, now)).d
           grant(d, lease, a) ==
             \E memo2, reply :
                /\ GrantsNothing(reply)
                /\ \/ Finish(d, memo2, reply)
                   \/ NullDereference(d)
                   \/ ~(lease = NULL /\ d.leases_left = 0) /\ Finish(given(d, lease, a), memo2, reply)
           fresh(lease) == IF lease = NULL THEN Pruned ELSE lease_prune(Pruned, {lease}, now)
           found(lease) == address_allocate(fresh(lease), memo, m.chaddr, answering)
<1>0. m.type = "bootp"
  BY DEF BOOTP
<1>1. DbOK(Pruned) /\ memo \in Memo /\ now \in Nat /\ m.chaddr \in Hosts
  BY PrunedOK, MessageOK DEF ServerInv, ServerTypeOK
<1>2. /\ config.addr \in AnyAddr /\ config.name \in AnyName /\ config.time \in Nat
      /\ config # NoConfig => config \in OnLink /\ config_has_mac(config, m.chaddr)
  <2>1. OnLink \in SUBSET dhcp_conf /\ dhcp_conf \in Configurations
    BY DEF OnLink, ServerInv, ServerTypeOK
  <2> QED
    BY <2>1, find_configOK, find_configFinds DEF LineFor
<1>3. ASSUME NEW d, DbOK(d), d = Pruned \/ Removed(m, d), NEW a \in AnyAddr, NEW lease,
             lease # NULL => lease \in d.leases /\ OwnLease(lease, m),
             lease = NULL => ~Leased(d, a),
             OwnAddress(ptr(d, lease, a).l, m, NoId),
             grant(d, lease, a)
      PROVE  Handled(m)
  <2>1. CASE \E memo2, reply : GrantsNothing(reply) /\ (Finish(d, memo2, reply) \/ NullDereference(d))
    BY <1>3, <2>1, AnswerGrantsNothing DEF Handled, HandledAs
  <2>2. CASE ~(lease = NULL /\ d.leases_left = 0)
             /\ \E memo2, reply : GrantsNothing(reply) /\ Finish(given(d, lease, a), memo2, reply)
    <3> DEFINE p == ptr(d, lease, a)
    <3>1. /\ PtrOK(p)
          /\ \/ p.d = d /\ SameClient(p.l, m)
             \/ \E b \in AnyAddr : ~Leased(d, b) /\ d.leases_left # 0 /\ p = lease4_allocate(d, b)
      <4>1. CASE lease = NULL
        <5>1. p = lease4_allocate(d, a) /\ ~Leased(d, a) /\ d.leases_left # 0
          BY <1>3, <2>2, <4>1
        <5> QED
          BY <1>3, <5>1, lease4_allocateOK
      <4>2. CASE lease # NULL
        <5>1. p = At(d, lease) /\ PtrOK(p) /\ p.l = lease /\ p.d = d
          BY <1>3, <4>2, AtOK DEF At
        <5>2. SameClient(p.l, m)
          BY <1>3, <4>2, <5>1 DEF OwnLease, SameClient
        <5> QED
          BY <5>1, <5>2
      <4> QED
        BY <4>1, <4>2
    <3>2. OwnClid(d, p.l, NoId)
      BY DEF OwnClid
    <3> HIDE DEF ptr, config
    <3>3. GivenFrom(m, d, p, NoId)
      BY <1>3, <3>1, <3>2 DEF GivenFrom
    <3>4. config.name # NoName =>
             \E line \in dhcp_conf : line.name = config.name /\ config_has_mac(line, m.chaddr)
      BY <1>2 DEF OnLink, NoConfig
    <3>5. DbOK(given(d, lease, a)) /\ HandledAs(m, given(d, lease, a))
      BY <1>2, <3>1, <3>3, <3>4, BootpGiven
    <3> HIDE DEF given
    <3> QED
      BY <2>2, <3>5, AnswerGrantsNothing DEF Handled
  <2> HIDE DEF given
  <2> QED
    BY <1>3, <2>1, <2>2
<1>4. ASSUME NEW memo2, NEW reply, GrantsNothing(reply), Finish(Pruned, memo2, reply)
      PROVE  Handled(m)
  BY <1>1, <1>4, AnswerGrantsNothing DEF Handled, HandledAs
<1>5. ASSUME nailed, NEW lease \in OrNull(lease_find_by_addr(Pruned, config.addr)),
             lease # NULL => lease.hw = m.chaddr, grant(Pruned, lease, config.addr)
      PROVE  Handled(m)
  <2>1. lease # NULL => lease \in Pruned.leases /\ lease.addr = config.addr /\ OwnLease(lease, m)
    BY <1>5 DEF OrNull, lease_find_by_addr, OwnLease
  <2>2. lease = NULL => ~Leased(Pruned, config.addr)
    BY <1>5, NullOK DEF OrNull, lease_find_by_addr, Leased
  <2>3. ptr(Pruned, lease, config.addr).l.addr = config.addr
    BY <2>1 DEF At, lease4_allocate, FreshLease
  <2>4. config \in dhcp_conf /\ config_has_mac(config, m.chaddr)
    BY <1>2, <1>5 DEF OnLink, NoConfig
  <2>5. \A c \in dhcp_conf : c.addr = config.addr => c = config
    <3> HIDE DEF config
    <3> QED
      BY <1>5, <2>4, PoolAssumption DEF ServerInv, ServerTypeOK
  <2>6. OwnAddress(ptr(Pruned, lease, config.addr).l, m, NoId)
    <3> HIDE DEF config, ptr
    <3> QED
      BY <2>3, <2>4, <2>5 DEF OwnAddress, OnLink, LineFor
  <2> HIDE DEF grant, config, ptr
  <2> QED
    BY <1>1, <1>2, <1>3, <1>5, <2>1, <2>2, <2>6
<1>6. ASSUME NEW lease \in lease_find_by_client(Pruned, m.chaddr, NoId),
             lease # NULL, grant(Pruned, lease, lease.addr)
      PROVE  Handled(m)
  <2>1. lease \in Pruned.leases /\ lease.hw = m.chaddr
    BY <1>6, FoundBy
  <2>2. OwnAddress(ptr(Pruned, lease, lease.addr).l, m, NoId) /\ lease.addr \in AnyAddr
    BY <1>0, <1>1, <1>6, <2>1, FoundOK DEF OwnAddress, At
  <2>3. OwnLease(lease, m)
    BY <2>1 DEF OwnLease
  <2> HIDE DEF grant, ptr
  <2> QED
    BY <1>1, <1>3, <1>6, <2>1, <2>2, <2>3
<1>7. ASSUME NEW lease \in lease_find_by_client(Pruned, m.chaddr, NoId),
             \/ \E memo2, reply : GrantsNothing(reply) /\ Finish(fresh(lease), memo2, reply)
             \/ found(lease).addr # NoAddr /\ grant(fresh(lease), NULL, found(lease).addr)
      PROVE  Handled(m)
  <2>1. lease # NULL => lease \in Pruned.leases /\ lease.hw = m.chaddr
    BY <1>7, FoundBy
  <2>2. DbOK(fresh(lease)) /\ (fresh(lease) = Pruned \/ Removed(m, fresh(lease)))
    BY <1>1, <2>1, lease_pruneOK DEF Removed, OwnLease
  <2>3. /\ found(lease).addr \in AnyAddr
        /\ found(lease).addr # NoAddr => Unused(fresh(lease), found(lease).addr)
    <3> HIDE DEF fresh
    <3> QED
      BY <1>1, <2>2, AllocatedIsFree
  <2>4. CASE \E memo2, reply : GrantsNothing(reply) /\ Finish(fresh(lease), memo2, reply)
    <3> HIDE DEF fresh
    <3> QED
      BY <2>2, <2>4, AnswerGrantsNothing DEF Handled, HandledAs
  <2>5. CASE found(lease).addr # NoAddr /\ grant(fresh(lease), NULL, found(lease).addr)
    <3> DEFINE a == found(lease).addr
    <3>1. ~Leased(fresh(lease), a) /\ config_find_by_address(a) = {}
      BY <2>3, <2>5 DEF Unused
    <3>2. ptr(fresh(lease), NULL, a).l.addr = a
      BY DEF lease4_allocate, At, FreshLease
    <3>3. OwnAddress(ptr(fresh(lease), NULL, a).l, m, NoId)
      <4> HIDE DEF ptr, a
      <4> QED
        BY <3>1, <3>2 DEF OwnAddress, config_find_by_address, OnLink
    <3> HIDE DEF grant, ptr, fresh, found
    <3> QED
      BY <1>3, <2>2, <2>3, <2>5, <3>1, <3>3
  <2> HIDE DEF grant, fresh, found
  <2> QED
    BY <1>7, <2>4, <2>5
<1>8. \/ \E memo2, reply : GrantsNothing(reply) /\ Finish(Pruned, memo2, reply)
      \/ /\ nailed
         /\ \E lease \in OrNull(lease_find_by_addr(Pruned, config.addr)) :
               (lease # NULL => lease.hw = m.chaddr) /\ grant(Pruned, lease, config.addr)
      \/ \E lease \in lease_find_by_client(Pruned, m.chaddr, NoId) :
            \/ lease # NULL /\ grant(Pruned, lease, lease.addr)
            \/ \E memo2, reply : GrantsNothing(reply) /\ Finish(fresh(lease), memo2, reply)
            \/ found(lease).addr # NoAddr /\ grant(fresh(lease), NULL, found(lease).addr)
  BY AnswerGrantsNothing DEF BOOTP
<1> HIDE DEF grant, fresh, found, nailed, config
<1> QED
  BY <1>4, <1>5, <1>6, <1>7, <1>8

\* Whatever the datagram, the table is handled as described.
LEMMA DatagramHandled ==
    ASSUME ServerInv, NEW m \in RequestMsg, NEW answering, DhcpPacket(m, answering)
    PROVE  Handled(m)
  BY DHCPDISCOVERHandled, DHCPREQUESTHandled, DHCPDECLINEHandled, DHCPRELEASEHandled,
     DHCPINFORMHandled, BOOTPHandled DEF DhcpPacket

(***************************************************************************)
(* The file and the DNS follow the table: what they show is what the table *)
(* says, or they are marked dirty.                                         *)
(***************************************************************************)

\* The names of a table that resolve now.
Shown(d) == {e \in DnsEntries(d) : Resolves(e)}

Follows(d, e) ==
    /\ d.file_dirty => e.file_dirty
    /\ e.file_dirty \/ Entries(e) = Entries(d)
    /\ d.dns_dirty => e.dns_dirty
    /\ e.dns_dirty \/ Shown(e) = Shown(d)

\* Two changes in a row.
LEMMA FollowsTwice ==
    ASSUME NEW d, NEW e, NEW f, Follows(d, e), Follows(e, f)
    PROVE  Follows(d, f)
  BY DEF Follows

\* An expired lease does not resolve; lease_prune marks what else it removes.
LEMMA PruneFollows ==
    ASSUME NEW d, DbOK(d), NEW target, now \in Nat
    PROVE  Follows(d, lease_prune(d, target, now))
<1> DEFINE gone == {l \in d.leases : Expired(l, now) \/ l \in target}
           e == lease_prune(d, target, now)
<1>1. /\ e.leases = d.leases \ gone
      /\ e.file_dirty <=> d.file_dirty \/ gone # {}
      /\ e.dns_dirty <=> d.dns_dirty \/ \E l \in gone : l.name # NoName
  BY DEF lease_prune
<1> HIDE DEF e
<1>2. gone = {} => Entries(e) = Entries(d)
  BY <1>1 DEF Entries
<1>3. ASSUME \A l \in gone : l.name = NoName
      PROVE  DnsEntries(e) = DnsEntries(d)
  <2> HIDE DEF gone
  <2> QED
    BY <1>1, <1>3 DEF DnsEntries
<1> HIDE DEF gone
<1> QED
  BY <1>1, <1>2, <1>3 DEF Follows, Shown, e

\* A new lease marks the file and has no name.
LEMMA AllocateFollows ==
    ASSUME NEW d, DbOK(d), NEW a
    PROVE  Follows(d, lease4_allocate(d, a).d)
<1> DEFINE e == lease4_allocate(d, a).d
           n == FreshLease(a)
<1>1. d \in Database
  BY DEF DbOK
<1>2. e.leases = d.leases \cup {n} /\ e.file_dirty = TRUE /\ e.dns_dirty = d.dns_dirty
  <2>1. e = [d EXCEPT !.leases = @ \cup {n}, !.leases_left = @ - 1, !.file_dirty = TRUE]
    BY DEF lease4_allocate, At
  <2> HIDE DEF n, e
  <2> QED
    BY <1>1, <2>1 DEF Database
<1>3. n.name = NoName
  BY DEF FreshLease
<1> HIDE DEF e, n
<1>4. DnsEntries(e) = DnsEntries(d)
  BY <1>2, <1>3 DEF DnsEntries
<1> QED
  BY <1>2, <1>4 DEF Follows, Shown, e

\* The entries of a table with a pointer into it.
LEMMA OthersEntries ==
    ASSUME NEW p, PtrOK(p)
    PROVE  /\ Entries(p.d) = {Entry(k) : k \in Others(p)} \cup {Entry(p.l)}
           /\ DnsEntries(p.d) = { [name |-> k.name, addr |-> k.addr, ttd |-> k.expires] :
                                    k \in {l \in Others(p) \cup {p.l} : l.name # NoName} }
<1>1. p.d.leases = Others(p) \cup {p.l}
  BY OthersOK
<1> QED
  BY <1>1 DEF Entries, DnsEntries

\* An edit shows, or it is marked.
LEMMA EditedFollows ==
    ASSUME NEW p, PtrOK(p), NEW r, Edited(p, r)
    PROVE  Follows(p.d, r.d)
<1>1. PtrOK(r) /\ Others(r) = Others(p) /\ r.l.addr = p.l.addr
  BY DEF Edited, SameTable
<1>2. Entry(r.l) = Entry(p.l) => Entries(r.d) = Entries(p.d)
  BY <1>1, OthersEntries
<1>3. ASSUME r.l.name = p.l.name, r.l.expires = p.l.expires
      PROVE  DnsEntries(r.d) = DnsEntries(p.d)
  <2> DEFINE S == {l \in Others(p) : l.name # NoName}
             x(k) == [name |-> k.name, addr |-> k.addr, ttd |-> k.expires]
             R(l) == {x(k) : k \in S} \cup (IF l.name # NoName THEN {x(l)} ELSE {})
  <2>1. DnsEntries(p.d) = R(p.l) /\ DnsEntries(r.d) = R(r.l)
    <3>1. \A l : {x(k) : k \in {z \in Others(p) \cup {l} : z.name # NoName}} = R(l)
      OBVIOUS
    <3> HIDE DEF R
    <3> QED
      BY <1>1, <3>1, OthersEntries
  <2>2. x(p.l) = x(r.l)
    BY <1>1, <1>3
  <2> HIDE DEF S, x
  <2> QED
    BY <1>3, <2>1, <2>2
<1> QED
  BY <1>2, <1>3 DEF Edited, SameTable, Follows, Shown

\* So does giving a lease to a host.
LEMMA RegrantedFollows ==
    ASSUME NEW p, NEW r, NEW hw, NEW clid, NEW exp, Regranted(p, r, hw, clid, exp)
    PROVE  Follows(p.d, r.d)
<1>1. PtrOK(p) /\ (Edited(p, r) \/ (r.d.file_dirty /\ r.d.dns_dirty))
  BY DEF Regranted, Renamed
<1> QED
  BY <1>1, EditedFollows DEF Follows

\* The file and the DNS follow whatever a datagram does to the table.
LEMMA HandledFollows ==
    ASSUME ServerInv, NEW m, NEW d, HandledAs(m, d)
    PROVE  Follows(db, d)
<1>1. DbOK(db) /\ now \in Nat /\ DbOK(Pruned)
  BY PrunedOK DEF ServerInv, ServerTypeOK
<1>2. Follows(db, Pruned)
  <2> DEFINE none == {}
  <2>1. Pruned = lease_prune(db, none, now)
    BY DEF Pruned
  <2> HIDE DEF none
  <2> QED
    BY <1>1, <2>1, PruneFollows
<1>3. ASSUME NEW e, Removed(m, e) PROVE Follows(db, e) /\ DbOK(e)
  <2>1. PICK lease : e = lease_prune(Pruned, {lease}, now)
    BY <1>3 DEF Removed
  <2> DEFINE target == {lease}
  <2>2. e = lease_prune(Pruned, target, now)
    BY <2>1
  <2> HIDE DEF target
  <2> QED
    BY <1>1, <1>2, <2>2, PruneFollows, FollowsTwice, lease_pruneOK
<1>4. ASSUME Marked(d) PROVE Follows(db, d)
  <2>1. PICK lease \in Pruned.leases : d = lease_set_interface(At(Pruned, lease)).d
    BY <1>4 DEF Marked
  <2>2. PtrOK(At(Pruned, lease)) /\ At(Pruned, lease).d = Pruned
    BY <1>1, AtOK DEF At
  <2>3. Follows(Pruned, d)
    BY <2>1, <2>2, lease_set_interfaceEdits, EditedFollows
  <2> QED
    BY <1>2, <2>3, FollowsTwice
<1>5. ASSUME Given(m, d) PROVE Follows(db, d)
  <2>1. PICK clid, exp, e, p, r :
           GivenFrom(m, e, p, clid) /\ Regranted(p, r, m.chaddr, clid, exp) /\ d = r.d
    BY <1>5 DEF Given
  <2>2. Follows(db, e) /\ DbOK(e)
    BY <1>1, <1>2, <1>3, <2>1 DEF GivenFrom
  <2>3. Follows(db, p.d)
    BY <2>1, <2>2, AllocateFollows, FollowsTwice DEF GivenFrom
  <2> QED
    BY <2>1, <2>3, RegrantedFollows, FollowsTwice
<1> QED
  BY <1>2, <1>3, <1>4, <1>5 DEF HandledAs

(***************************************************************************)
(* Names and identifiers.                                                  *)
(***************************************************************************)

\* Lines of the lease file with a name and an identifier each, and the same of a
\* table.
UniqueNames(F) == \A e, g \in F : e.name = g.name /\ e.name # NoName => e = g
UniqueClids(F) == \A e, g \in F : e.clid = g.clid /\ e.clid # NoId => e = g
GoodEntries(F) == UniqueNames(F) /\ UniqueClids(F)
GoodTable(d) == OneLeasePerName(d) /\ OneLeasePerClid(d)

\* What is said of a table can be said of what is written of it.
LEMMA GoodWritten ==
    ASSUME NEW d, DbOK(d)
    PROVE  GoodTable(d) <=> GoodEntries(Entries(d))
<1>2. OneLeasePerName(d) <=> UniqueNames(Entries(d))
  <2>1. OneLeasePerName(d) => UniqueNames(Entries(d))
    BY DEF OneLeasePerName, UniqueNames, Entries, Entry
  <2>2. ASSUME UniqueNames(Entries(d)) PROVE OneLeasePerName(d)
    <3> SUFFICES ASSUME NEW k \in d.leases, NEW l \in d.leases, k.name = l.name, k.name # NoName
                 PROVE  k = l
      BY DEF OneLeasePerName
    <3>1. Entry(k) = Entry(l)
      BY <2>2 DEF UniqueNames, Entries, Entry
    <3>2. k.addr = l.addr
      BY <3>1 DEF Entry
    <3> QED
      BY <3>2 DEF DbOK, OneLeasePerAddr
  <2> QED
    BY <2>1, <2>2
<1>3. OneLeasePerClid(d) <=> UniqueClids(Entries(d))
  <2>1. OneLeasePerClid(d) => UniqueClids(Entries(d))
    BY DEF OneLeasePerClid, UniqueClids, Entries, Entry
  <2>2. ASSUME UniqueClids(Entries(d)) PROVE OneLeasePerClid(d)
    <3> SUFFICES ASSUME NEW k \in d.leases, NEW l \in d.leases, k.clid = l.clid, k.clid # NoId
                 PROVE  k = l
      BY DEF OneLeasePerClid
    <3>1. Entry(k) = Entry(l)
      BY <2>2 DEF UniqueClids, Entries, Entry
    <3>2. k.addr = l.addr
      BY <3>1 DEF Entry
    <3> QED
      BY <3>2 DEF DbOK, OneLeasePerAddr
  <2> QED
    BY <2>1, <2>2
<1> QED
  BY <1>2, <1>3 DEF GoodTable, GoodEntries

\* It can be said of a part of the table or of the file, too.
LEMMA GoodParts ==
    /\ \A F, G : GoodEntries(F) /\ G \subseteq F => GoodEntries(G)
    /\ \A d, e : GoodTable(d) /\ e.leases \subseteq d.leases => GoodTable(e)
    /\ GoodEntries({})
  BY DEF GoodEntries, UniqueNames, UniqueClids, GoodTable, OneLeasePerName, OneLeasePerClid

\* A lease that is given to a client with an identifier of its own leaves a good
\* table good.
LEMMA RegrantedGood ==
    ASSUME NEW m, NEW e, GoodTable(e),
           NEW p, NEW r, NEW clid, NEW exp,
           Regranted(p, r, m.chaddr, clid, exp), Others(p) \subseteq e.leases,
           p.l \in e.leases \/ (p.l.name = NoName /\ p.l.clid = NoId),
           OwnClid(e, p.l, clid)
    PROVE  GoodTable(r.d)
<1>1. /\ PtrOK(p) /\ PtrOK(r) /\ r.l.addr = p.l.addr
      /\ p.l \notin Others(p) /\ r.d.leases = Others(r) \cup {r.l}
  BY OthersOK DEF Regranted, Edited, Renamed, SameTable
<1>2. \A k \in Others(r) : \E l \in Others(p) :
         /\ k.addr = l.addr /\ k.hw = l.hw /\ k.clid = l.clid
         /\ k = l \/ k.name = NoName
  <2>1. CASE Others(r) = Others(p)
    BY <2>1
  <2>2. CASE \E name, holder : Renamed(p, r, name, holder)
    <3>1. \A l \in Others(p) : /\ kill_name(l).addr = l.addr /\ kill_name(l).hw = l.hw
                               /\ kill_name(l).clid = l.clid /\ kill_name(l).name = NoName
      BY <1>1, OthersOK DEF kill_name, Lease
    <3> QED
      BY <2>2, <3>1 DEF Renamed
  <2> QED
    BY <2>1, <2>2 DEF Regranted, Edited
<1>3. \A k, l \in Others(r) : /\ k.name = l.name /\ k.name # NoName => k = l
                              /\ k.clid = l.clid /\ k.clid # NoId => k.addr = l.addr
  BY <1>2 DEF GoodTable, OneLeasePerName, OneLeasePerClid
<1>4. \A k \in Others(r) : k.name # NoName => k.name # r.l.name
  <2>1. CASE Edited(p, r) /\ SameNames(r.l, p.l)
    <3>1. Others(r) = Others(p) /\ r.l.name = p.l.name
      BY <2>1 DEF Edited, SameNames
    <3> QED
      BY <1>1, <3>1 DEF GoodTable, OneLeasePerName
  <2>2. CASE \E name, holder : Renamed(p, r, name, holder)
    <3>1. PICK name, holder : Renamed(p, r, name, holder)
      BY <2>2
    <3>2. \A t \in Others(p) \ holder : t.name # name
      BY <3>1 DEF Renamed, GoodTable, OneLeasePerName
    <3>3. \A t \in holder : kill_name(t).name = NoName
      BY <1>1, <3>1, OthersOK DEF Renamed, kill_name, Lease
    <3> QED
      BY <3>1, <3>2, <3>3 DEF Renamed
  <2> QED
    BY <2>1, <2>2 DEF Regranted
<1>5. \A k \in Others(r) : k.clid # NoId => k.clid # r.l.clid
  BY <1>1, <1>2 DEF Regranted, OwnClid, GoodTable, OneLeasePerClid
<1>8. \A k, l \in r.d.leases : k.addr = l.addr => k = l
  BY <1>1 DEF PtrOK, DbOK, OneLeasePerAddr
<1>9. OneLeasePerName(r.d) /\ OneLeasePerClid(r.d)
  BY <1>1, <1>3, <1>4, <1>5, <1>8 DEF OneLeasePerName, OneLeasePerClid
<1> QED
  BY <1>9 DEF GoodTable

\* A datagram leaves a good table good.
LEMMA HandledGood ==
    ASSUME ServerInv, GoodTable(db), NEW m, NEW d, HandledAs(m, d)
    PROVE  GoodTable(d)
<1>1. DbOK(db) /\ now \in Nat /\ DbOK(Pruned)
  BY PrunedOK DEF ServerInv, ServerTypeOK
<1>2. GoodTable(Pruned)
  BY PrunedTakes, GoodParts
<1>3. ASSUME NEW e, Removed(m, e) PROVE GoodTable(e) /\ DbOK(e)
  <2>1. PICK lease : e = lease_prune(Pruned, {lease}, now)
    BY <1>3 DEF Removed
  <2> DEFINE target == {lease}
  <2>2. e = lease_prune(Pruned, target, now)
    BY <2>1
  <2> HIDE DEF target
  <2>3. e.leases \subseteq Pruned.leases /\ DbOK(e)
    BY <1>1, <2>2, lease_pruneOK
  <2> QED
    BY <1>2, <2>3, GoodParts
<1>4. ASSUME Marked(d) PROVE GoodTable(d)
  <2>1. PICK lease \in Pruned.leases : d = lease_set_interface(At(Pruned, lease)).d
    BY <1>4 DEF Marked
  <2> DEFINE p == At(Pruned, lease)
             r == lease_set_interface(p)
  <2>2. PtrOK(p) /\ p.d = Pruned
    BY <1>1, AtOK DEF At
  <2>3. PtrOK(r) /\ Others(r) = Others(p) /\ Entry(r.l) = Entry(p.l)
    <3> HIDE DEF p
    <3>1. Edited(p, r) /\ SameNames(r.l, p.l) /\ SameHolder(r.l, p.l) /\ r.l.expires = p.l.expires
      BY <2>2, lease_set_interfaceEdits
    <3> HIDE DEF r
    <3> QED
      BY <3>1 DEF Edited, SameTable, SameNames, SameHolder, Entry
  <2> HIDE DEF p, r
  <2>4. Entries(r.d) = Entries(Pruned) /\ DbOK(r.d)
    BY <2>2, <2>3, OthersEntries DEF PtrOK
  <2> QED
    BY <1>1, <1>2, <2>1, <2>4, GoodWritten DEF r, p
<1>5. ASSUME Given(m, d) PROVE GoodTable(d)
  <2>1. PICK clid, exp, e, p, r :
           GivenFrom(m, e, p, clid) /\ Regranted(p, r, m.chaddr, clid, exp) /\ d = r.d
    BY <1>5 DEF Given
  <2>2. GoodTable(e) /\ DbOK(e)
    BY <1>1, <1>2, <1>3, <2>1 DEF GivenFrom
  <2>3. /\ Others(p) \subseteq e.leases
        /\ p.l \in e.leases \/ (p.l.name = NoName /\ p.l.clid = NoId)
    <3>1. PtrOK(p)
      BY <2>1 DEF Regranted
    <3>2. CASE p.d = e
      BY <3>1, <3>2 DEF Others, PtrOK
    <3>3. CASE \E a \in AnyAddr : p = lease4_allocate(e, a)
      <4>1. PICK a \in AnyAddr : p = lease4_allocate(e, a)
        BY <3>3
      <4>2. p.l = FreshLease(a) /\ p.d.leases = e.leases \cup {FreshLease(a)}
        <5> DEFINE n == FreshLease(a)
        <5>1. p = At([e EXCEPT !.leases = @ \cup {n}, !.leases_left = @ - 1, !.file_dirty = TRUE], n)
          BY <4>1 DEF lease4_allocate
        <5> HIDE DEF n
        <5>2. p.l = n /\ p.d.leases = e.leases \cup {n}
          BY <2>2, <5>1 DEF At, DbOK, Database
        <5> QED
          BY <5>2 DEF n
      <4> QED
        BY <4>2 DEF Others, FreshLease
    <3> QED
      BY <2>1, <3>2, <3>3 DEF GivenFrom
  <2>4. OwnClid(e, p.l, clid)
    BY <1>2, <2>1 DEF GivenFrom, GoodTable
  <2> QED
    BY <2>1, <2>2, <2>3, <2>4, RegrantedGood
<1> QED
  BY <1>2, <1>3, <1>4, <1>5 DEF HandledAs

(***************************************************************************)
(* The end of a handler: the file, the alarm and the DNS are brought up to *)
(* the table, and the table itself says what it said.                      *)
(***************************************************************************)

\* What is written of a table determines what the DNS and the alarm take from it.
LEMMA WrittenShows ==
    ASSUME NEW d, NEW e, Entries(e) = Entries(d)
    PROVE  Finite(e) = Finite(d) /\ DnsEntries(e) = DnsEntries(d)
<1>1. ASSUME NEW x, NEW y, Entries(x) = Entries(y)
      PROVE  Finite(x) \subseteq Finite(y) /\ DnsEntries(x) \subseteq DnsEntries(y)
  <2>1. \A k \in x.leases : \E l \in y.leases : Entry(k) = Entry(l)
    BY <1>1 DEF Entries
  <2>2. \A k \in x.leases : \E l \in y.leases :
           k.addr = l.addr /\ k.name = l.name /\ k.expires = l.expires
    BY <2>1 DEF Entry
  <2> QED
    BY <2>2 DEF Finite, DnsEntries
<1> QED
  BY <1>1

\* Forgetting and repeating news for the script are such changes.
LEMMA NewsNotWritten ==
    ASSUME NEW d, DbOK(d)
    PROVE  /\ Entries(Settled(d)) = Entries(d) /\ Settled(d).file_dirty = d.file_dirty
           /\ Entries(rerun_scripts(d)) = Entries(d) /\ rerun_scripts(d).file_dirty = d.file_dirty
<1> DEFINE g(l) == [l EXCEPT !.oldname = NoName, !.flags = @ \ {"NEW", "CHANGED"}]
           h(l) == [l EXCEPT !.flags = @ \cup {"CHANGED"}]
<1>1. d \in Database
  BY DEF DbOK
<1>2. \A l \in d.leases : Entry(g(l)) = Entry(l) /\ Entry(h(l)) = Entry(l)
  BY <1>1 DEF Database, Lease, Entry
<1>3. Settled(d) = IF LeaseScript THEN d
                   ELSE [d EXCEPT !.old_leases = <<>>, !.leases = {g(l) : l \in @}]
  BY DEF Settled
<1>4. rerun_scripts(d) = [d EXCEPT !.leases = {h(l) : l \in @}]
  BY DEF rerun_scripts
<1> HIDE DEF g, h
<1>5. /\ Settled(d).leases = IF LeaseScript THEN d.leases ELSE {g(l) : l \in d.leases}
      /\ Settled(d).file_dirty = d.file_dirty
  BY <1>1, <1>3 DEF Database
<1>6. rerun_scripts(d).leases = {h(l) : l \in d.leases} /\ rerun_scripts(d).file_dirty = d.file_dirty
  BY <1>1, <1>4 DEF Database
<1> QED
  BY <1>2, <1>5, <1>6 DEF Entries

\* The alarm is there for the first expiry and for the retry.
LEMMA NextAlarmCovers ==
    ASSUME ServerInv, NEW d, DbOK(d), NEW err \in BOOLEAN, NEW old \in Nat
    PROVE  /\ \A t \in Finite(d) : NextAlarm(d, err, old) # 0 /\ NextAlarm(d, err, old) <= t + SLOP
           /\ err => NextAlarm(d, err, old) # 0 /\ NextAlarm(d, err, old) <= now + LEASE_RETRY
<1> DEFINE events == {t + SLOP : t \in Finite(d)} \cup (IF err THEN {now + LEASE_RETRY} ELSE {})
<1>1. now \in Nat \ {0} /\ SLOP \in Nat /\ LEASE_RETRY \in Nat
  BY ServerAssumption DEF ServerInv, ServerTypeOK
<1>2. Finite(d) \subseteq Nat \ {0}
  BY DEF Finite, DbOK, Database, Lease
<1>3. events \in SUBSET Nat /\ 0 \notin events
  BY <1>1, <1>2
<1>4. events # {} => \E t \in events : \A u \in events : t <= u
  <2> HIDE DEF events
  <2> QED
    BY <1>3, LeastNumber
<1>5. NextAlarm(d, err, old) = IF events = {} THEN old ELSE CHOOSE t \in events : \A u \in events : t <= u
  BY DEF NextAlarm
<1>6. (\A t \in Finite(d) : t + SLOP \in events) /\ (err => now + LEASE_RETRY \in events)
  OBVIOUS
<1> HIDE DEF events
<1>7. events # {} => /\ NextAlarm(d, err, old) \in events
                     /\ \A u \in events : NextAlarm(d, err, old) <= u
  BY <1>4, <1>5
<1> QED
  BY <1>3, <1>6, <1>7

\* What Save makes of the file, the alarm and the DNS.
Saved(d, armed, mode) ==
    \E err \in BOOLEAN :
        /\ Entries(db') = Entries(d) /\ db'.file_dirty = (d.file_dirty /\ err)
        /\ err => d.file_dirty
        /\ file' = file \/ file' \subseteq Entries(d)
        /\ ~d.file_dirty => file' = file
        /\ d.file_dirty /\ ~err => file' = Entries(d)
        /\ alarm' = NextAlarm(d, err, armed)
        /\ dns' = IF mode = "reload" \/ (mode = "packet" /\ d.dns_dirty) THEN DnsEntries(d) ELSE dns
        /\ up' = TRUE /\ now' = now

Dead(d) == db' = EmptyDb /\ up' = FALSE /\ (file' = file \/ file' \subseteq Entries(d))

\* Save writes, or the process dies over it.
LEMMA SaveSaves ==
    ASSUME NEW d, DbOK(d), NEW armed, NEW mode, NEW memo2, NEW reply,
           Save(d, armed, mode, memo2, reply)
    PROVE  Saved(d, armed, mode) \/ Dead(d)
<1>1. CASE KilledWhileSaving(d)
  BY <1>1 DEF KilledWhileSaving, Torn, Dies, Dead
<1>2. CASE ~KilledWhileSaving(d)
  <2> DEFINE toDns == mode = "reload" \/ (mode = "packet" /\ d.dns_dirty)
             saved(err) == [d EXCEPT !.file_dirty = @ /\ err, !.dns_dirty = @ /\ ~toDns]
  <2>1. PICK err \in BOOLEAN :
           /\ err => d.file_dirty /\ faults < MaxFaults
           /\ IF ~d.file_dirty THEN file' = file
              ELSE IF err THEN file' \in Torn(d)
              ELSE file' = Entries(d)
           /\ alarm' = NextAlarm(d, err, armed)
           /\ dns' = IF toDns THEN DnsEntries(d) ELSE dns
           /\ db' = Settled(IF mode = "reload" THEN rerun_scripts(saved(err)) ELSE saved(err))
           /\ up' = TRUE /\ now' = now
    BY <1>2 DEF Save
  <2>2. /\ DbOK(saved(err)) /\ saved(err).leases = d.leases
        /\ saved(err).file_dirty = (d.file_dirty /\ err)
    <3>1. d \in Database
      BY DEF DbOK
    <3>2. /\ saved(err) \in Database /\ saved(err).leases = d.leases
          /\ saved(err).leases_left = d.leases_left
          /\ saved(err).file_dirty = (d.file_dirty /\ err)
      BY <3>1 DEF Database
    <3> QED
      BY <3>2, SameLeases
  <2> HIDE DEF saved
  <2>3. Entries(saved(err)) = Entries(d)
    BY <2>2 DEF Entries
  <2>4. DbOK(rerun_scripts(saved(err)))
    BY <2>2, rerun_scriptsOK
  <2>5. Entries(db') = Entries(d) /\ db'.file_dirty = (d.file_dirty /\ err)
    BY <2>1, <2>2, <2>3, <2>4, NewsNotWritten
  <2> QED
    BY <2>1, <2>5 DEF Saved, Torn
<1> QED
  BY <1>1, <1>2

(***************************************************************************)
(* The invariant: the table and the file are good, and the file, the DNS   *)
(* and the alarm agree with the table.                                     *)
(***************************************************************************)
TableInv ==
    /\ GoodTable(db) /\ GoodEntries(file)
    /\ FileMatchesLeases /\ DnsShowsLeases /\ AlarmCovers

\* What a handler has to see to before Save.
Ready(d, mode) ==
    /\ DbOK(d) /\ GoodTable(d)
    /\ ~d.file_dirty => file = Entries(d)
    /\ (mode = "packet" /\ d.dns_dirty) \/ mode = "reload" \/ {e \in dns : Resolves(e)} = Shown(d)

\* Death leaves a file that is good if the old one and the table were.
LEMMA DeadKeepsTable ==
    ASSUME ServerInv, GoodEntries(file), NEW d, DbOK(d), GoodTable(d), Dead(d)
    PROVE  TableInv'
<1>1. GoodEntries(file')
  BY GoodWritten, GoodParts DEF Dead
<1>2. GoodTable(EmptyDb)
  BY DEF EmptyDb, GoodTable, OneLeasePerName, OneLeasePerClid
<1> QED
  BY <1>1, <1>2 DEF Dead, TableInv, FileMatchesLeases, DnsShowsLeases, AlarmCovers

\* Save brings the file, the alarm and the DNS up to the table.
LEMMA SaveKeepsTable ==
    ASSUME ServerInv, ServerInv', GoodEntries(file), NEW d, NEW mode, Ready(d, mode), NEW armed \in Nat,
           NEW memo2, NEW reply, Save(d, armed, mode, memo2, reply)
    PROVE  TableInv'
<1>1. CASE Dead(d)
  BY <1>1, DeadKeepsTable DEF Ready
<1>2. CASE Saved(d, armed, mode)
  <2>1. PICK err \in BOOLEAN :
        /\ Entries(db') = Entries(d) /\ db'.file_dirty = (d.file_dirty /\ err)
        /\ err => d.file_dirty
        /\ file' = file \/ file' \subseteq Entries(d)
        /\ ~d.file_dirty => file' = file
        /\ d.file_dirty /\ ~err => file' = Entries(d)
        /\ alarm' = NextAlarm(d, err, armed)
        /\ dns' = IF mode = "reload" \/ (mode = "packet" /\ d.dns_dirty) THEN DnsEntries(d) ELSE dns
        /\ up' = TRUE /\ now' = now
    BY <1>2 DEF Saved
  <2>2. DbOK(db') /\ Finite(db') = Finite(d) /\ DnsEntries(db') = DnsEntries(d)
    BY <2>1, WrittenShows DEF ServerInv
  <2>3. GoodTable(db') /\ GoodEntries(file')
    BY <2>1, <2>2, GoodWritten, GoodParts DEF Ready
  <2>4. FileMatchesLeases'
    BY <2>1 DEF FileMatchesLeases, Ready
  <2>5. DnsShowsLeases'
    BY <2>1, <2>2 DEF DnsShowsLeases, Ready, Shown, Resolves
  <2>6. AlarmCovers'
    BY <2>1, <2>2, NextAlarmCovers DEF AlarmCovers, Ready
  <2> QED
    BY <2>3, <2>4, <2>5, <2>6 DEF TableInv
<1> QED
  BY <1>1, <1>2, SaveSaves DEF Ready

\* What follows a table that is right is ready to be saved.
LEMMA FollowingIsReady ==
    ASSUME TableInv, up, NEW d, DbOK(d), GoodTable(d), Follows(db, d)
    PROVE  Ready(d, "packet")
  BY DEF TableInv, FileMatchesLeases, DnsShowsLeases, Follows, Ready, Shown

\* A datagram.
LEMMA DhcpPacketKeepsTable ==
    ASSUME ServerInv, ServerInv', TableInv, NEW m \in RequestMsg, NEW answering, DhcpPacket(m, answering)
    PROVE  TableInv'
<1>1. up /\ alarm \in Nat
  BY DEF DhcpPacket, ServerInv, ServerTypeOK
<1>2. PICK d, memo2, reply :
        /\ DbOK(d) /\ HandledAs(m, d) /\ Acknowledges(d, reply)
        /\ Finish(d, memo2, reply) \/ NullDereference(d)
  BY DatagramHandled DEF Handled
<1>3. GoodTable(d) /\ Follows(db, d)
  BY <1>2, HandledGood, HandledFollows DEF TableInv
<1>4. CASE Finish(d, memo2, reply)
  BY <1>1, <1>2, <1>3, <1>4, FollowingIsReady, SaveKeepsTable DEF Finish, TableInv
<1>5. CASE NullDereference(d)
  BY <1>2, <1>3, <1>5, DeadKeepsTable DEF NullDereference, Dies, Dead, TableInv
<1> QED
  BY <1>2, <1>4, <1>5

\* Only what does not resolve any more is missing in the DNS after pruning.
LEMMA PrunedShown ==
    ASSUME ServerInv
    PROVE  Shown(Pruned) = Shown(db)
<1> DEFINE gone == {l \in db.leases : Expired(l, now) \/ l \in {}}
<1>1. Pruned.leases = db.leases \ gone
  BY DEF Pruned, lease_prune
<1>2. \A l \in gone : l.expires # 0 /\ ~(now < l.expires)
  BY DEF Expired, ServerInv, ServerTypeOK, DbOK, Database, Lease
<1> HIDE DEF gone
<1> QED
  BY <1>1, <1>2 DEF Shown, DnsEntries, Resolves

\* The alarm.
LEMMA AlarmEventKeepsTable ==
    ASSUME ServerInv, ServerInv', TableInv, AlarmEvent
    PROVE  TableInv'
<1> DEFINE none == {}
           off == 0
<1>1. DbOK(db) /\ now \in Nat /\ DbOK(Pruned) /\ off \in Nat
  BY PrunedOK DEF ServerInv, ServerTypeOK
<1>2. up /\ Save(Pruned, off, "none", memo, none)
  BY DEF AlarmEvent
<1>3. GoodTable(Pruned)
  BY PrunedTakes, GoodParts DEF TableInv
<1>4. Pruned = lease_prune(db, none, now)
  BY DEF Pruned
<1> HIDE DEF none, off
<1>5. Follows(db, Pruned)
  BY <1>1, <1>4, PruneFollows
<1>6. Ready(Pruned, "none")
  BY <1>1, <1>2, <1>3, <1>5, PrunedShown
  DEF Ready, TableInv, Follows, FileMatchesLeases, DnsShowsLeases, Shown
<1> QED
  BY <1>1, <1>2, <1>6, SaveKeepsTable DEF TableInv

(***************************************************************************)
(* A reload and a restart.                                                 *)
(***************************************************************************)

\* What is said of the name of a lease, l before and k after: it is the same, or
\* it is lost and the loss will be announced, or it is another one and so will
\* be the change, after the loss of an earlier name.
NameFollows(k, l) ==
    /\ l.flags \subseteq k.flags
    /\ \/ SameNames(k, l)
       \/ k.name = NoName /\ k.oldname # NoName
       \/ "CHANGED" \in k.flags /\ (k.oldname # NoName \/ (l.name = NoName /\ l.oldname = NoName))

\* The same lease but for its name.
SameButName(k, l) ==
    /\ k.addr = l.addr /\ SameHolder(k, l) /\ k.expires = l.expires
    /\ NameFollows(k, l)

\* Going through the configuration changes names only, a name is given to one
\* lease at most, and a change of a name is marked.
LEMMA ConfigsRename ==
    ASSUME NEW conf, NEW d, DbOK(d), NEW pos \in Bijection(d.leases, 1 .. Cardinality(d.leases)),
           NEW e, e = lease_update_from_configs(conf, d, pos)
    PROVE  /\ \A k \in e.leases : \E l \in d.leases : SameButName(k, l)
           /\ \A l \in d.leases : \E k \in e.leases : SameButName(k, l)
           /\ \A k \in e.leases : k.name # NoName =>
                 \E l \in d.leases : SameButName(k, l) /\ k.name \in {l.name, ConfiguredName(conf, l)}
           /\ OneLeasePerName(d) => OneLeasePerName(e)
           /\ e.old_leases = d.old_leases
           /\ d.file_dirty => e.file_dirty
           /\ OneLeasePerName(d) => e.file_dirty \/ Entries(e) = Entries(d)
<1> DEFINE c(l) == ConfiguredName(conf, l)
           claims(n) == {k \in d.leases : n # NoName /\ c(k) = n}
           first(l) == \A k \in claims(c(l)) : pos[l] <= pos[k]
           last(l) == \A k \in claims(c(l)) : pos[k] <= pos[l]
           keeps(l) == c(l) = l.name /\ first(l)
           name2(l) == IF last(l) THEN c(l) ELSE NoName
           oldname2(l) == IF ~last(l) THEN c(l)
                          ELSE IF l.name = NoName \/ keeps(l) THEN l.oldname ELSE l.name
           flags2(l) == l.flags \cup {"AUTH_NAME"} \cup (IF keeps(l) THEN {} ELSE {"CHANGED"})
           claimed(l) == [l EXCEPT !.name = name2(l), !.oldname = oldname2(l), !.flags = flags2(l)]
           after(l) == IF c(l) # NoName THEN claimed(l)
                       ELSE IF claims(l.name) # {} THEN kill_name(l)
                       ELSE l
           renamed == \E l \in d.leases : c(l) # NoName /\ ~keeps(l)
           T == {after(l) : l \in d.leases}
<1>1. d \in Database /\ d.leases \subseteq Lease
  BY DEF DbOK, Database
<1>2. e = [d EXCEPT !.leases = T, !.file_dirty = @ \/ renamed, !.dns_dirty = @ \/ renamed]
  BY DEF lease_update_from_configs
<1>3. /\ e.leases = T /\ e.old_leases = d.old_leases
      /\ e.file_dirty = (d.file_dirty \/ renamed)
  <2> HIDE DEF T, renamed
  <2> QED
    BY <1>1, <1>2 DEF Database
<1>4. ASSUME NEW l \in d.leases
      PROVE  after(l).name = IF c(l) # NoName THEN name2(l)
                             ELSE IF claims(l.name) # {} THEN NoName ELSE l.name
  <2> HIDE DEF c, claims, name2, oldname2, flags2
  <2> QED
    BY <1>1 DEF kill_name, Lease
<1>5. ASSUME NEW l \in d.leases PROVE SameButName(after(l), l)
  <2>1. CASE c(l) # NoName
    <3>1. after(l) = claimed(l)
      BY <2>1
    <3> HIDE DEF after
    <3>2. /\ claimed(l).addr = l.addr /\ SameHolder(claimed(l), l) /\ claimed(l).expires = l.expires
          /\ claimed(l).name = name2(l) /\ claimed(l).oldname = oldname2(l)
          /\ claimed(l).flags = flags2(l)
      <4> HIDE DEF name2, oldname2, flags2
      <4> QED
        BY <1>1 DEF Lease, SameHolder
    <3>3. NameFollows(claimed(l), l)
      <4> HIDE DEF claimed, c, first, last
      <4> QED
        BY <2>1, <3>2 DEF NameFollows, SameNames
    <3> QED
      BY <3>1, <3>2, <3>3 DEF SameButName
  <2>2. CASE c(l) = NoName /\ claims(l.name) # {}
    <3>1. after(l) = kill_name(l) /\ l.name # NoName
      BY <2>2
    <3> HIDE DEF after, claims
    <3> QED
      BY <1>1, <3>1 DEF kill_name, SameButName, NameFollows, SameHolder, Lease
  <2>3. CASE c(l) = NoName /\ claims(l.name) = {}
    <3>1. after(l) = l
      BY <2>3
    <3> HIDE DEF after
    <3> QED
      BY <3>1 DEF SameButName, NameFollows, SameHolder, SameNames
  <2> QED
    BY <2>1, <2>2, <2>3
<1> HIDE DEF after
<1>6. ASSUME OneLeasePerName(d), NEW k \in d.leases, NEW l \in d.leases,
             after(k).name = after(l).name, after(k).name # NoName
      PROVE  k = l
  <2>1. CASE c(k) # NoName /\ c(l) # NoName
    <3>1. last(k) /\ last(l) /\ c(k) = c(l)
      BY <1>4, <1>6, <2>1
    <3>2. pos[k] <= pos[l] /\ pos[l] <= pos[k]
      BY <2>1, <3>1
    <3>3. pos[k] \in Int /\ pos[l] \in Int /\ (pos[k] = pos[l] => k = l)
      <4>1. \A n : 1 .. n \subseteq Int
        OBVIOUS
      <4> QED
        BY <4>1 DEF Bijection, Injection, IsInjective, Surjection
    <3> QED
      BY <3>2, <3>3
  <2>2. CASE c(k) # NoName /\ c(l) = NoName
    <3>1. c(k) = l.name /\ claims(l.name) = {}
      BY <1>4, <1>6, <2>2
    <3> QED
      BY <2>2, <3>1
  <2>3. CASE c(k) = NoName /\ c(l) # NoName
    <3>1. c(l) = k.name /\ claims(k.name) = {}
      BY <1>4, <1>6, <2>3
    <3> QED
      BY <2>3, <3>1
  <2>4. CASE c(k) = NoName /\ c(l) = NoName
    <3>1. k.name = l.name /\ k.name # NoName
      <4> HIDE DEF claims
      <4> QED
        BY <1>4, <1>6, <2>4
    <3> QED
      BY <1>6, <3>1 DEF OneLeasePerName
  <2> QED
    BY <2>1, <2>2, <2>3, <2>4
<1>7. ASSUME OneLeasePerName(d), ~renamed, NEW l \in d.leases
      PROVE  Entry(after(l)) = Entry(l)
  <2>1. \A k \in d.leases : c(k) # NoName => c(k) = k.name
    BY <1>7
  <2>2. \A k \in d.leases : c(k) # NoName /\ c(k) = l.name => k = l
    BY <1>7, <2>1 DEF OneLeasePerName
  <2>3. c(l) # NoName => last(l)
    <3> SUFFICES ASSUME c(l) # NoName PROVE \A k \in claims(c(l)) : k = l /\ pos[k] <= pos[l]
      OBVIOUS
    <3>1. pos[l] \in Int
      BY DEF Bijection, Injection
    <3> QED
      BY <2>1, <2>2, <3>1
  <2>4. after(l).name = l.name
    <3>1. CASE c(l) # NoName
      BY <1>4, <2>1, <2>3, <3>1
    <3>2. CASE c(l) = NoName
      <4>1. claims(l.name) = {}
        BY <2>2, <3>2
      <4> QED
        BY <1>4, <3>2, <4>1
    <3> QED
      BY <3>1, <3>2
  <2> QED
    BY <1>5, <2>4 DEF SameButName, SameHolder, Entry
<1>8. OneLeasePerName(d) => OneLeasePerName(e)
  BY <1>3, <1>6 DEF OneLeasePerName
<1>9. OneLeasePerName(d) /\ ~renamed => Entries(e) = Entries(d)
  BY <1>3, <1>7 DEF Entries
<1> HIDE DEF renamed
<1>10. ASSUME NEW k \in e.leases, k.name # NoName
       PROVE  \E l \in d.leases : SameButName(k, l) /\ k.name \in {l.name, ConfiguredName(conf, l)}
  <2>1. PICK l \in d.leases : k = after(l)
    BY <1>3, <1>10
  <2>2. k.name \in {l.name, c(l)}
    <3> HIDE DEF c, claims, last
    <3> QED
      BY <1>4, <1>10, <2>1
  <2> QED
    BY <1>5, <2>1, <2>2
<1> QED
  BY <1>3, <1>5, <1>8, <1>9, <1>10

\* A reload of a table that is right.
LEMMA ReloadOfKeepsTable ==
    ASSUME ServerInv, ServerInv', GoodEntries(file), NEW d, DbOK(d), GoodTable(d),
           ~d.file_dirty => file = Entries(d), NEW armed \in Nat,
           NEW conf \in Configurations, NEW memo2, ReloadOf(conf, d, armed, memo2)
    PROVE  TableInv'
<1> DEFINE none == {}
           reload == "reload"
<1>1. PICK pos \in Bijection(d.leases, 1 .. Cardinality(d.leases)) :
         Save(lease_update_from_configs(conf, d, pos), armed, reload, memo2, none)
  BY DEF ReloadOf
<1> DEFINE e == lease_update_from_configs(conf, d, pos)
<1>2. DbOK(e)
  BY lease_update_from_configsOK
<1>3. /\ \A k \in e.leases : \E l \in d.leases : SameButName(k, l)
      /\ OneLeasePerName(d) => OneLeasePerName(e)
      /\ d.file_dirty => e.file_dirty
      /\ OneLeasePerName(d) => e.file_dirty \/ Entries(e) = Entries(d)
  BY ConfigsRename
<1>4. Save(e, armed, reload, memo2, none)
  BY <1>1
<1> HIDE DEF e, none
<1>5. GoodTable(e)
  <2>1. \A k \in e.leases : \E l \in d.leases : k.addr = l.addr /\ k.hw = l.hw /\ k.clid = l.clid
    BY <1>3 DEF SameButName, SameHolder
  <2>2. OneLeasePerClid(e)
    <3> SUFFICES ASSUME NEW k \in e.leases, NEW l \in e.leases, k.clid = l.clid, k.clid # NoId
                 PROVE  k.addr = l.addr
      BY <1>2 DEF OneLeasePerClid, DbOK, OneLeasePerAddr
    <3> QED
      BY <2>1 DEF GoodTable, OneLeasePerClid
  <2> QED
    BY <1>3, <2>2 DEF GoodTable
<1>6. Ready(e, reload)
  BY <1>2, <1>3, <1>5 DEF Ready, GoodTable
<1> QED
  BY <1>4, <1>6, SaveKeepsTable

\* EVENT_RELOAD.
LEMMA ReloadKeepsTable ==
    ASSUME ServerInv, ServerInv', TableInv, Reload
    PROVE  TableInv'
  BY ReloadOfKeepsTable DEF Reload, TableInv, FileMatchesLeases, ServerInv, ServerTypeOK

\* The lines of the file become leases.
LEMMA FromFileWritten ==
    ASSUME NEW f, FileOK(f), NEW d, d.leases = FromFile(f)
    PROVE  Entries(d) = f
<1> DEFINE lease(e) == [ addr |-> e.addr, hw |-> e.hw, clid |-> e.clid, expires |-> e.expires,
                         name |-> e.name, oldname |-> NoName, iface |-> FALSE, flags |-> {} ]
<1>1. d.leases = {lease(e) : e \in f}
  BY DEF FromFile
<1>2. ASSUME NEW e \in f PROVE Entry(lease(e)) = e
  BY DEF FileOK, LeaseFile, Entry
<1> HIDE DEF lease
<1> QED
  BY <1>1, <1>2 DEF Entries

\* What lease_init reads: the file, less what has expired.
LEMMA lease_initReads ==
    ASSUME NEW f, FileOK(f), now \in Nat, NEW d, d = lease_init(f, now)
    PROVE  /\ d.leases \subseteq FromFile(f) /\ Entries(d) \subseteq f
           /\ ~d.file_dirty => Entries(d) = f
           /\ \A l \in FromFile(f) \ d.leases : \E i \in DOMAIN d.old_leases : d.old_leases[i] = l
<1> DEFINE r == [ leases |-> FromFile(f), old_leases |-> <<>>,
                  leases_left |-> MaxLeases - Cardinality(f),
                  file_dirty |-> FALSE, dns_dirty |-> FALSE ]
           e == lease_prune(r, {}, now)
           gone == {l \in r.leases : Expired(l, now) \/ l \in {}}
<1>1. r.leases = FromFile(f) /\ r.file_dirty = FALSE /\ r.old_leases = <<>>
  OBVIOUS
<1>2. e = [ leases |-> r.leases \ gone, old_leases |-> SetToSeq(gone) \o r.old_leases,
            leases_left |-> r.leases_left + Cardinality(gone),
            file_dirty |-> r.file_dirty \/ gone # {},
            dns_dirty |-> r.dns_dirty \/ \E l \in gone : l.name # NoName ]
  BY DEF lease_prune
<1>3. d = [e EXCEPT !.dns_dirty = TRUE]
  BY DEF lease_init
<1>4. gone \subseteq FromFile(f) /\ IsFiniteSet(gone)
  BY FromFileOK, FS_Subset
<1> HIDE DEF gone, r
<1>5. /\ d.leases = FromFile(f) \ gone /\ d.file_dirty = (gone # {})
      /\ d.old_leases = SetToSeq(gone) \o <<>>
  BY <1>1, <1>2, <1>3
<1>6. Entries(r) = f
  BY <1>1, FromFileWritten
<1>7. Entries(d) \subseteq f /\ (gone = {} => Entries(d) = f)
  BY <1>1, <1>5, <1>6 DEF Entries
<1>8. SetToSeq(gone) \o <<>> = SetToSeq(gone)
  BY <1>4, SetToSeqType
<1>9. \A l \in gone : \E i \in DOMAIN SetToSeq(gone) : SetToSeq(gone)[i] = l
  BY <1>4, SetToSeqType
<1> QED
  BY <1>4, <1>5, <1>7, <1>8, <1>9

\* dnsmasq is started again, on whatever file is there.
LEMMA RestartKeepsTable ==
    ASSUME ServerInv, ServerInv', TableInv, Restart
    PROVE  TableInv'
<1> DEFINE d == lease_init(file, now)
           off == 0
<1>1. now \in Nat /\ FileOK(file) /\ off \in Nat
  BY DEF ServerInv, ServerTypeOK
<1>2. DbOK(d)
  BY <1>1, lease_initOK
<1>3. \E conf \in Configurations : ReloadOf(conf, d, off, memo)
  BY DEF Restart
<1>4. Entries(d) \subseteq file /\ (~d.file_dirty => Entries(d) = file)
  BY <1>1, lease_initReads
<1> HIDE DEF d, off
<1>5. GoodTable(d)
  BY <1>2, <1>4, GoodWritten, GoodParts DEF TableInv
<1> QED
  BY <1>1, <1>2, <1>3, <1>4, <1>5, ReloadOfKeepsTable DEF TableInv

(***************************************************************************)
(* The other events.                                                       *)
(***************************************************************************)

\* What do_script_run queues: the loss of the name of a removed lease (1), its
\* removal (2), the loss of the name of a lease (3), or a lease (4).
Queued(action, l, name) == script'.buf = {[action |-> action, addr |-> l.addr, name |-> name]}
Replaced(l, l2) == db'.leases = (db.leases \ {l}) \cup {l2} /\ db'.old_leases = db.old_leases

NameOfRemoved ==
    /\ db.old_leases # <<>> /\ db'.leases = db.leases
    /\ Queued("old_hostname", db.old_leases[1], db.old_leases[1].oldname)
    /\ DOMAIN db'.old_leases = DOMAIN db.old_leases
    /\ \A i \in DOMAIN db.old_leases : db'.old_leases[i].addr = db.old_leases[i].addr
Removal ==
    /\ db.old_leases # <<>> /\ db'.leases = db.leases
    /\ Queued("del", db.old_leases[1], db.old_leases[1].name)
    /\ db'.old_leases = Tail(db.old_leases)
NameOfLease ==
    /\ db.old_leases = <<>>
    /\ \E l \in db.leases : /\ l.oldname # NoName /\ Queued("old_hostname", l, l.oldname)
                            /\ Replaced(l, [l EXCEPT !.oldname = NoName])
NewsOfLease ==
    /\ db.old_leases = <<>> /\ \A l \in db.leases : l.oldname = NoName
    /\ \E l \in db.leases : /\ Queued("add", l, l.name) \/ Queued("old", l, l.name)
                            /\ Replaced(l, [l EXCEPT !.flags = @ \ {"NEW", "CHANGED"}])

\* do_script_run queues one event, and forgets that it had to.
LEMMA DoScriptRunQueues ==
    ASSUME ServerInv, DoScriptRun
    PROVE  /\ up /\ LeaseScript /\ script.buf = {}
           /\ script'.told = script.told /\ script'.missed = script.missed
           /\ NameOfRemoved \/ Removal \/ NameOfLease \/ NewsOfLease
           /\ db'.file_dirty = db.file_dirty
           /\ file' = file /\ alarm' = alarm /\ dns' = dns /\ now' = now /\ up' = up
<1> DEFINE silent(l) == [l EXCEPT !.oldname = NoName]
           known(l) == [l EXCEPT !.flags = @ \ {"NEW", "CHANGED"}]
           head == db.old_leases[1]
           event(action, l, name) == [action |-> action, addr |-> l.addr, name |-> name]
           said(action, l, name) == script' = [script EXCEPT !.buf = {event(action, l, name)}]
           first == [db EXCEPT !.old_leases[1] = silent(head)]
           rest == [db EXCEPT !.old_leases = Tail(@)]
           changed(l, l2) == [db EXCEPT !.leases = (@ \ {l}) \cup {l2}]
<1>1. /\ up /\ LeaseScript /\ script.buf = {}
      /\ UNCHANGED <<wire, dhcp_conf, file, alarm, dns, memo, now, up, faults>>
      /\ \/ /\ db.old_leases # <<>>
            /\ \/ said("old_hostname", head, head.oldname) /\ db' = first
               \/ said("del", head, head.name) /\ db' = rest
         \/ /\ db.old_leases = <<>>
            /\ \E l \in db.leases :
                  /\ l.oldname # NoName /\ said("old_hostname", l, l.oldname)
                  /\ db' = changed(l, silent(l))
         \/ /\ db.old_leases = <<>> /\ \A l \in db.leases : l.oldname = NoName
            /\ \E l \in db.leases :
                  /\ said("add", l, l.name) \/ said("old", l, l.name)
                  /\ db' = changed(l, known(l))
  BY DEF DoScriptRun
<1>2. db \in Database /\ script \in Script /\ db.old_leases \in Seq(Lease)
  BY DEF ServerInv, ServerTypeOK, Database
<1>3. ASSUME NEW action, NEW l, NEW name, said(action, l, name)
      PROVE  Queued(action, l, name) /\ script'.told = script.told /\ script'.missed = script.missed
  BY <1>2, <1>3 DEF Queued, Script
<1>4. ASSUME NEW l, NEW l2, db' = changed(l, l2)
      PROVE  Replaced(l, l2) /\ db'.file_dirty = db.file_dirty
  BY <1>2, <1>4 DEF Replaced, Database
<1>5. ASSUME db.old_leases # <<>>, db' = first
      PROVE  /\ db'.leases = db.leases /\ db'.file_dirty = db.file_dirty
             /\ DOMAIN db'.old_leases = DOMAIN db.old_leases
             /\ \A i \in DOMAIN db.old_leases : db'.old_leases[i].addr = db.old_leases[i].addr
  <2>1. head \in Lease
    BY <1>2, <1>5
  <2>2. silent(head).addr = head.addr
    BY <2>1 DEF Lease
  <2> DEFINE s == [db.old_leases EXCEPT ![1] = silent(head)]
  <2>3. first = [db EXCEPT !.old_leases = s]
    OBVIOUS
  <2>4. DOMAIN s = DOMAIN db.old_leases /\ \A i \in DOMAIN db.old_leases : s[i].addr = db.old_leases[i].addr
    <3> HIDE DEF silent
    <3> QED
      BY <1>2, <2>2
  <2> HIDE DEF s, first
  <2> QED
    BY <1>2, <1>5, <2>3, <2>4 DEF Database
<1>6. ASSUME db' = rest
      PROVE  /\ db'.leases = db.leases /\ db'.file_dirty = db.file_dirty
             /\ db'.old_leases = Tail(db.old_leases)
  BY <1>2, <1>6 DEF Database
<1>7. CASE db.old_leases # <<>>
  <2> HIDE DEF said, first, rest
  <2> QED
    BY <1>1, <1>3, <1>5, <1>6, <1>7 DEF NameOfRemoved, Removal
<1>8. CASE /\ db.old_leases = <<>>
           /\ \E l \in db.leases : /\ l.oldname # NoName /\ said("old_hostname", l, l.oldname)
                                   /\ db' = changed(l, silent(l))
  <2> HIDE DEF said, changed
  <2> QED
    BY <1>1, <1>3, <1>4, <1>8 DEF NameOfLease
<1>9. CASE /\ db.old_leases = <<>> /\ \A l \in db.leases : l.oldname = NoName
           /\ \E l \in db.leases : /\ said("add", l, l.name) \/ said("old", l, l.name)
                                   /\ db' = changed(l, known(l))
  <2> HIDE DEF said, changed
  <2> QED
    BY <1>1, <1>3, <1>4, <1>9 DEF NewsOfLease
<1> HIDE DEF said, changed, first, rest
<1> QED
  BY <1>1, <1>7, <1>8, <1>9

\* An event that shows nowhere.
LEMMA UnwrittenKeepsTable ==
    ASSUME ServerInv, ServerInv', TableInv,
           Entries(db') = Entries(db), db'.file_dirty = db.file_dirty,
           file' = file, alarm' = alarm, dns' = dns, now' = now, up' = up
    PROVE  TableInv'
<1>1. DbOK(db) /\ DbOK(db') /\ Finite(db') = Finite(db) /\ DnsEntries(db') = DnsEntries(db)
  BY WrittenShows DEF ServerInv
<1>2. GoodTable(db') /\ GoodEntries(file')
  BY <1>1, GoodWritten DEF TableInv
<1> QED
  BY <1>1, <1>2 DEF TableInv, FileMatchesLeases, DnsShowsLeases, AlarmCovers, Resolves

\* do_script_run changes nothing that is written.
LEMMA DoScriptRunWrites ==
    ASSUME ServerInv, DoScriptRun
    PROVE  Entries(db') = Entries(db)
<1> DEFINE silent(l) == [l EXCEPT !.oldname = NoName]
           known(l) == [l EXCEPT !.flags = @ \ {"NEW", "CHANGED"}]
<1>1. db.leases \subseteq Lease
  BY DEF ServerInv, DbOK, Database
<1>2. \A l \in db.leases : Entry(silent(l)) = Entry(l) /\ Entry(known(l)) = Entry(l)
  BY <1>1 DEF Lease, Entry
<1>3. \/ db'.leases = db.leases
      \/ \E l \in db.leases : Replaced(l, silent(l)) \/ Replaced(l, known(l))
  BY DoScriptRunQueues DEF NameOfRemoved, Removal, NameOfLease, NewsOfLease
<1> HIDE DEF silent, known
<1> QED
  BY <1>2, <1>3 DEF Replaced, Entries

\* So the table stays right.
LEMMA DoScriptRunKeepsTable ==
    ASSUME ServerInv, ServerInv', TableInv, DoScriptRun
    PROVE  TableInv'
  BY DoScriptRunWrites, DoScriptRunQueues, UnwrittenKeepsTable

\* Time passes: what resolves later resolves now.
LEMMA TickKeepsTable ==
    ASSUME ServerInv, TableInv, Tick
    PROVE  TableInv'
<1>1. /\ db' = db /\ file' = file /\ alarm' = alarm /\ dns' = dns /\ up' = up /\ now' = now + 1
      /\ now \in Nat /\ alarm \in Nat /\ LEASE_RETRY \in Nat
      /\ dns \subseteq [name : AnyName, addr : AnyAddr, ttd : Nat]
  BY ServerAssumption DEF Tick, ServerInv, ServerTypeOK
<1>2. \A e \in DnsEntries(db) : e.ttd \in Nat
  BY DEF DnsEntries, ServerInv, DbOK, Database, Lease
<1>3. \A e \in dns \cup DnsEntries(db) : Resolves(e)' => Resolves(e)
  BY <1>1, <1>2 DEF Resolves
<1>4. DnsShowsLeases'
  <2> SUFFICES ASSUME up PROVE {e \in dns : Resolves(e)'} = {e \in DnsEntries(db) : Resolves(e)'}
    BY <1>1 DEF DnsShowsLeases
  <2> QED
    BY <1>3 DEF TableInv, DnsShowsLeases
<1>5. FileMatchesLeases' /\ AlarmCovers'
  BY <1>1 DEF TableInv, FileMatchesLeases, AlarmCovers
<1> QED
  BY <1>1, <1>4, <1>5 DEF TableInv

\* dnsmasq stops or is killed between two events; the file is what it was.
LEMMA StopKeepsTable ==
    ASSUME ServerInv, TableInv, Crash \/ Terminate
    PROVE  TableInv'
<1>1. Dead(db)
  BY DEF Crash, Terminate, Dies, Dead
<1> QED
  BY <1>1, DeadKeepsTable DEF TableInv, ServerInv

\* Every event that is no datagram.
LEMMA ServerNextKeepsTable ==
    ASSUME ServerInv, ServerInv', TableInv, ServerNext
    PROVE  TableInv'
<1>1. CASE HelperWrite
  BY <1>1, UnwrittenKeepsTable DEF HelperWrite
<1> QED
  BY <1>1, AlarmEventKeepsTable, ReloadKeepsTable, RestartKeepsTable, DoScriptRunKeepsTable,
     StopKeepsTable, TickKeepsTable
  DEF ServerNext

\* Every step.
LEMMA StepKeepsTable == IInv /\ IInv' /\ TableInv /\ [Next]_vars => TableInv'
<1> SUFFICES ASSUME IInv, IInv', TableInv, [Next]_vars PROVE TableInv'
  OBVIOUS
<1>1. ServerInv /\ ServerInv'
  BY DEF IInv
<1>2. ASSUME NEW m \in ClientMsgs, Receive(m)
      PROVE  TableInv'
  <2>1. m \in RequestMsg /\ \E answering : DhcpPacket(m, answering)
    BY <1>2, AloneAssumption DEF Receive
  <2> QED
    BY <1>1, <2>1, DhcpPacketKeepsTable
<1>3. CASE Other(ServerNext)
  BY <1>1, <1>3, ServerNextKeepsTable DEF Other
<1>4. CASE Deliver \/ UNCHANGED vars
  BY <1>1, <1>4, UnwrittenKeepsTable DEF Deliver, vars, server
<1> QED
  BY <1>2, <1>3, <1>4 DEF Next

\* The server starts with nothing, so nothing is wrong.
LEMMA InitTable == Init => TableInv
  BY DEF Init, ServerInit, EmptyDb, TableInv, GoodTable, OneLeasePerName, OneLeasePerClid,
         GoodEntries, UniqueNames, UniqueClids, FileMatchesLeases, Entries, DnsShowsLeases,
         DnsEntries, AlarmCovers, Finite

\* The table and the file are good, and the file, the DNS and the alarm agree with
\* the table, in every reachable state.
THEOREM TableInvariance == Spec => []TableInv
  BY InitTable, StepKeepsTable, Invariance, PTL DEF Spec

\* A client identifier is on one lease only: lease_find_by_client looks for it
\* before dhcp_reply gives the client another lease, and what a DHCPREQUEST
\* squashes is removed before the new lease is named after it.
THEOREM ClientsAreUnique == Spec => []ClientHasOneLease
<1>1. TableInv => ClientHasOneLease
  BY DEF TableInv, GoodTable, ClientHasOneLease
<1> QED
  BY <1>1, TableInvariance, PTL

\* A name is on one lease only, whether it comes from a client or from the
\* configuration, also after a reload (lease_set_hostname,
\* lease_update_from_configs).
THEOREM NamesAreUnique == Spec => []NameHasOneLease
<1>1. TableInv => NameHasOneLease
  BY DEF TableInv, GoodTable, NameHasOneLease
<1> QED
  BY <1>1, TableInvariance, PTL

\* The lease file is what memory is, or a rewrite is due (file_dirty in lease.c):
\* no handler forgets to mark a change that is written.
THEOREM FileFollows == Spec => []FileMatchesLeases
<1>1. TableInv => FileMatchesLeases
  BY DEF TableInv
<1> QED
  BY <1>1, TableInvariance, PTL

\* Until the last moment of a lease its name resolves in the DNS cache, and no other
\* name does (dns_dirty and lease_update_dns; the alarm does without).
THEOREM DnsFollows == Spec => []DnsShowsLeases
<1>1. TableInv => DnsShowsLeases
  BY DEF TableInv
<1> QED
  BY <1>1, TableInvariance, PTL

\* The alarm is always armed in time for the first expiry and for the retry of a
\* failed write (lease_update_file).
THEOREM AlarmIsArmed == Spec => []AlarmCovers
<1>1. TableInv => AlarmCovers
  BY DEF TableInv
<1> QED
  BY <1>1, TableInvariance, PTL

(***************************************************************************)
(* Nobody's lease is taken by another.                                     *)
(***************************************************************************)

\* The lease l is in table d, perhaps with another name, identifier or news.
Held(l, d) == \E k \in d.leases : k.addr = l.addr /\ k.hw = l.hw /\ k.expires = l.expires

\* Removing a client's lease leaves all others that have not expired.
LEMMA RemovedHolds ==
    ASSUME ServerInv, NEW m, NEW d, Removed(m, d), NEW l \in Pruned.leases,
           ~Expired(l, now), ~SameClient(l, m)
    PROVE  l \in d.leases
<1>1. PICK lease : OwnLease(lease, m) /\ d = lease_prune(Pruned, {lease}, now)
  BY DEF Removed
<1>2. lease # l
  BY <1>1 DEF OwnLease, SameClient
<1> QED
  BY <1>1, <1>2 DEF lease_prune

\* Giving a lease to a client leaves all others.
LEMMA RegrantedHolds ==
    ASSUME NEW p, NEW r, NEW hw, NEW clid, NEW exp, Regranted(p, r, hw, clid, exp),
           NEW l \in Others(p)
    PROVE  Held(l, r.d)
<1>1. PtrOK(p) /\ PtrOK(r) /\ Others(r) \subseteq r.d.leases /\ l \in Lease
  BY OthersOK DEF Regranted, Edited, Renamed, SameTable, Others, PtrOK, DbOK, Database
<1>2. CASE Others(r) = Others(p)
  BY <1>1, <1>2 DEF Held
<1>3. CASE \E name, holder : Renamed(p, r, name, holder)
  <2>1. l \in Others(r) \/ kill_name(l) \in Others(r)
    BY <1>3 DEF Renamed
  <2>2. kill_name(l).addr = l.addr /\ kill_name(l).hw = l.hw /\ kill_name(l).expires = l.expires
    BY <1>1 DEF kill_name, Lease
  <2> QED
    BY <1>1, <2>1, <2>2 DEF Held
<1> QED
  BY <1>2, <1>3 DEF Regranted, Edited

\* A datagram leaves every lease that is neither expired nor its sender's.
LEMMA HandledHolds ==
    ASSUME ServerInv, NEW m, NEW d, HandledAs(m, d), NEW l \in db.leases,
           ~Expired(l, now), ~SameClient(l, m)
    PROVE  Held(l, d)
<1>1. l \in Pruned.leases
  BY DEF Pruned, lease_prune
<1>2. CASE d = Pruned \/ Removed(m, d)
  BY <1>1, <1>2, RemovedHolds DEF Held
<1>3. CASE Marked(d)
  <2>1. PICK lease \in Pruned.leases : d = lease_set_interface(At(Pruned, lease)).d
    BY <1>3 DEF Marked
  <2> DEFINE p == At(Pruned, lease)
             r == lease_set_interface(p)
  <2>2. PtrOK(p) /\ p.d = Pruned
    BY PrunedOK, AtOK DEF At
  <2> HIDE DEF p
  <2>3. Edited(p, r) /\ SameHolder(r.l, p.l) /\ r.l.expires = p.l.expires
    BY <2>2, lease_set_interfaceEdits
  <2> HIDE DEF r
  <2>4. /\ p.d.leases = Others(p) \cup {p.l} /\ r.d.leases = Others(p) \cup {r.l}
        /\ r.l.addr = p.l.addr
    BY <2>2, <2>3, OthersOK DEF Edited, SameTable
  <2> QED
    BY <1>1, <2>1, <2>2, <2>3, <2>4 DEF Held, SameHolder, r, p
<1>4. CASE Given(m, d)
  <2>1. PICK clid, exp, e, p, r :
           GivenFrom(m, e, p, clid) /\ Regranted(p, r, m.chaddr, clid, exp) /\ d = r.d
    BY <1>4 DEF Given
  <2>2. l \in e.leases /\ DbOK(e)
    <3>1. DbOK(Pruned) /\ now \in Nat
      BY PrunedOK DEF ServerInv, ServerTypeOK
    <3>2. ASSUME Removed(m, e) PROVE DbOK(e)
      <4>1. PICK lease : e = lease_prune(Pruned, {lease}, now)
        BY <3>2 DEF Removed
      <4> DEFINE target == {lease}
      <4>2. e = lease_prune(Pruned, target, now)
        BY <4>1
      <4> HIDE DEF target
      <4> QED
        BY <3>1, <4>2, lease_pruneOK
    <3> QED
      BY <1>1, <2>1, <3>1, <3>2, RemovedHolds DEF GivenFrom
  <2>3. PtrOK(p) /\ p.d.leases = Others(p) \cup {p.l}
    BY <2>1, OthersOK DEF Regranted
  <2>4. l \in Others(p)
    <3>1. CASE p.d = e /\ SameClient(p.l, m)
      BY <2>2, <2>3, <3>1
    <3>2. CASE \E a \in AnyAddr : ~Leased(e, a) /\ p = lease4_allocate(e, a)
      <4>1. PICK a \in AnyAddr : ~Leased(e, a) /\ p = lease4_allocate(e, a)
        BY <3>2
      <4> DEFINE n == FreshLease(a)
      <4>2. n.addr = a
        BY DEF FreshLease
      <4>3. p = At([e EXCEPT !.leases = @ \cup {n}, !.leases_left = @ - 1, !.file_dirty = TRUE], n)
        BY <4>1 DEF lease4_allocate
      <4> HIDE DEF n
      <4>4. p.l = n /\ p.d.leases = e.leases \cup {n}
        BY <2>2, <4>3 DEF At, DbOK, Database
      <4> QED
        BY <2>2, <4>1, <4>2, <4>4 DEF Others, Leased
    <3> QED
      BY <2>1, <3>1, <3>2 DEF GivenFrom
  <2> QED
    BY <2>1, <2>4, RegrantedHolds
<1> QED
  BY <1>2, <1>3, <1>4 DEF HandledAs

\* Save writes to the leases nothing but what the script needs.
LEMMA SavedHolds ==
    ASSUME NEW d, Saved(d, alarm, "packet"), NEW l, Held(l, d)
    PROVE  Untouched(l)
<1>1. PICK k \in d.leases : k.addr = l.addr /\ k.hw = l.hw /\ k.expires = l.expires
  BY DEF Held
<1>2. PICK k2 \in db'.leases : Entry(k2) = Entry(k)
  BY DEF Saved, Entries
<1> QED
  BY <1>1, <1>2 DEF Entry, Untouched

\* The step of a datagram.
LEMMA DhcpPacketHolds ==
    ASSUME ServerInv, NEW m \in RequestMsg, NEW answering, DhcpPacket(m, answering),
           up', NEW l \in db.leases
    PROVE  Expired(l, now) \/ Untouched(l) \/ SameClient(l, m)
<1>1. PICK d, memo2, reply :
        /\ DbOK(d) /\ HandledAs(m, d) /\ Acknowledges(d, reply)
        /\ Finish(d, memo2, reply) \/ NullDereference(d)
  BY DatagramHandled DEF Handled
<1>2. Finish(d, memo2, reply)
  BY <1>1 DEF NullDereference, Dies
<1>3. Saved(d, alarm, "packet")
  BY <1>1, <1>2, SaveSaves DEF Finish, Dead
<1> QED
  BY <1>1, <1>3, HandledHolds, SavedHolds

\* A datagram costs no other client its unexpired lease: what dhcp_reply removes,
\* squashes, abandons or hands on belongs to the sender, by hardware address, by
\* client identifier or by a dhcp-host line for both.
THEOREM NobodyElseLoses == Spec => TakenFromNobodyElse
<1> DEFINE Keeps == up' => \A m \in asked', l \in db.leases :
                              Expired(l, now) \/ Untouched(l) \/ SameClient(l, m)
<1>1. IInv /\ [Next]_vars => [Keeps]_vars
  <2> SUFFICES ASSUME IInv, Next PROVE Keeps \/ UNCHANGED vars
    OBVIOUS
  <2>1. ServerInv
    BY DEF IInv
  <2>2. ASSUME NEW m \in ClientMsgs, Receive(m) PROVE Keeps
    <3>1. m \in RequestMsg /\ asked' = {m} /\ \E answering : DhcpPacket(m, answering)
      BY <2>2, AloneAssumption DEF Receive
    <3> QED
      BY <2>1, <3>1, DhcpPacketHolds
  <2>3. CASE Deliver \/ Other(ServerNext)
    <3>1. asked' = {}
      BY <2>3 DEF Deliver, Other
    <3> QED
      BY <3>1
  <2> HIDE DEF Keeps
  <2> QED
    BY <2>2, <2>3 DEF Next
<1>2. [][Keeps]_vars <=> TakenFromNobodyElse
  BY DEF TakenFromNobodyElse
<1> HIDE DEF Keeps
<1> QED
  BY <1>1, <1>2, Invariance, PTL DEF Spec

(***************************************************************************)
(* The address of a dhcp-host line is given to the host of the line only.  *)
(***************************************************************************)

\* A lease of table d is its host's by the line, or its host had it before, to the
\* same time unless it is a BOOTP client.
HadBefore(m, l) ==
    \E k \in db.leases : /\ k.addr = l.addr /\ k.hw = l.hw
                         /\ k.expires = l.expires \/ m.type = "bootp"
ReservedFrom(m, d) ==
    \A l \in d.leases, c \in OnLink :
        c.addr = l.addr /\ c.addr # NoAddr => OfLine(c, l) \/ HadBefore(m, l)

\* The lease that is given goes to a host that may have it, the others stay.
LEMMA GivenReserves ==
    ASSUME ServerInv, NEW m, NEW d, Given(m, d)
    PROVE  ReservedFrom(m, d)
<1>1. PICK clid \in AnyClientId, exp \in Nat : \E e, p, r :
        /\ GivenFrom(m, e, p, clid) /\ Regranted(p, r, m.chaddr, clid, exp) /\ d = r.d
  BY DEF Given
<1>2. PICK e, p, r :
        /\ GivenFrom(m, e, p, clid) /\ Regranted(p, r, m.chaddr, clid, exp) /\ d = r.d
  BY <1>1
<1>3. /\ PtrOK(p) /\ r.l.addr = p.l.addr /\ r.l.hw = m.chaddr
      /\ clid # NoId => r.l.clid = clid
      /\ d.leases = Others(r) \cup {r.l} /\ Others(p) \subseteq Lease
  BY <1>2, OthersOK DEF Regranted, Edited, Renamed, SameTable
<1>4. Others(p) \subseteq db.leases
  BY <1>2, <1>3, GivenOthers, PrunedTakes
<1>5. \A t \in Others(r) : \E u \in Others(p) : t.addr = u.addr /\ t.hw = u.hw /\ t.expires = u.expires
  <2>1. \A u \in Others(p) :
           kill_name(u).addr = u.addr /\ kill_name(u).hw = u.hw /\ kill_name(u).expires = u.expires
    BY <1>3 DEF kill_name, Lease
  <2> QED
    BY <1>2, <2>1 DEF Regranted, Edited, Renamed
<1>6. \A t \in Others(r) : HadBefore(m, t)
  BY <1>4, <1>5 DEF HadBefore
<1>7. ASSUME NEW c \in OnLink, c.addr = r.l.addr, c.addr # NoAddr
      PROVE  OfLine(c, r.l) \/ HadBefore(m, r.l)
  <2>1. CASE LineFor(c, m.chaddr, clid)
    BY <1>3, <2>1 DEF LineFor, OfLine
  <2>2. CASE m.type = "bootp" /\ p.l.hw = m.chaddr /\ p.l \in Pruned.leases
    BY <1>3, <2>2, PrunedTakes DEF HadBefore
  <2> QED
    BY <1>2, <1>3, <1>7, <2>1, <2>2 DEF GivenFrom, OwnAddress
<1> QED
  BY <1>3, <1>6, <1>7 DEF ReservedFrom

\* Every handler does so.
LEMMA HandledReserves ==
    ASSUME ServerInv, NEW m, NEW d, HandledAs(m, d)
    PROVE  ReservedFrom(m, d)
<1>1. CASE d = Pruned \/ Removed(m, d)
  <2>1. ASSUME Removed(m, d) PROVE d.leases \subseteq Pruned.leases
    <3>1. PICK lease : d = lease_prune(Pruned, {lease}, now)
      BY <2>1 DEF Removed
    <3> QED
      BY <3>1 DEF lease_prune
  <2>2. d.leases \subseteq db.leases
    BY <1>1, <2>1, PrunedTakes
  <2> QED
    BY <2>2 DEF ReservedFrom, HadBefore
<1>2. CASE Marked(d)
  <2>1. PICK lease \in Pruned.leases : d = lease_set_interface(At(Pruned, lease)).d
    BY <1>2 DEF Marked
  <2> DEFINE p == At(Pruned, lease)
             r == lease_set_interface(p)
  <2>2. PtrOK(p) /\ p.d = Pruned
    BY PrunedOK, AtOK DEF At
  <2> HIDE DEF p
  <2>3. Edited(p, r) /\ SameHolder(r.l, p.l) /\ r.l.expires = p.l.expires
    BY <2>2, lease_set_interfaceEdits
  <2> HIDE DEF r
  <2>4. /\ p.d.leases = Others(p) \cup {p.l} /\ r.d.leases = Others(p) \cup {r.l}
        /\ r.l.addr = p.l.addr
    BY <2>2, <2>3, OthersOK DEF Edited, SameTable
  <2>5. \A k \in d.leases : HadBefore(m, k)
    BY <2>1, <2>2, <2>3, <2>4, PrunedTakes DEF HadBefore, SameHolder, r, p
  <2> QED
    BY <2>5 DEF ReservedFrom
<1>3. CASE Given(m, d)
  BY <1>3, GivenReserves
<1> QED
  BY <1>1, <1>2, <1>3 DEF HandledAs

\* What the property says of a step.
LinesHold ==
    up' => \A l \in db'.leases, c \in OnLink' :
              c.addr = l.addr /\ c.addr # NoAddr => OfLine(c, l) \/ HadIt(l)

\* Save sends the reply and nothing else.
LEMMA SaveReplies ==
    ASSUME NEW d, NEW armed, NEW mode, NEW memo2, NEW reply, Save(d, armed, mode, memo2, reply)
    PROVE  wire' \ wire \subseteq reply
  BY DEF Save, KilledWhileSaving, Dies

\* A datagram.
LEMMA DhcpPacketReserves ==
    ASSUME ServerInv, NEW m \in RequestMsg, NEW answering, DhcpPacket(m, answering), asked' = {m}, up'
    PROVE  LinesHold
<1>1. PICK d, memo2, reply :
        /\ DbOK(d) /\ HandledAs(m, d) /\ Acknowledges(d, reply)
        /\ Finish(d, memo2, reply) \/ NullDereference(d)
  BY DatagramHandled DEF Handled
<1>2. up /\ Finish(d, memo2, reply) /\ dhcp_conf' = dhcp_conf
  BY <1>1 DEF NullDereference, Dies, DhcpPacket, Finish
<1>3. Saved(d, alarm, "packet") /\ wire' \ wire \subseteq reply
  BY <1>1, <1>2, SaveSaves, SaveReplies DEF Finish, Dead
<1>4. OnLink' = OnLink
  BY <1>2 DEF OnLink
<1> SUFFICES ASSUME NEW l2 \in db'.leases, NEW c \in OnLink, c.addr = l2.addr, c.addr # NoAddr
             PROVE  OfLine(c, l2) \/ HadIt(l2)
  BY <1>4 DEF LinesHold
<1>5. PICK l \in d.leases : Entry(l) = Entry(l2)
  BY <1>3 DEF Saved, Entries
<1>6. l.addr = l2.addr /\ l.hw = l2.hw /\ l.clid = l2.clid /\ l.expires = l2.expires
  BY <1>5 DEF Entry
<1>7. OfLine(c, l) => OfLine(c, l2)
  BY <1>6 DEF OfLine
<1>8. CASE \E r \in wire' \ wire : r.type = "ack" /\ r.yiaddr = l2.addr
  BY <1>1, <1>3, <1>6, <1>7, <1>8 DEF Acknowledges, ForHost
<1>9. CASE HadBefore(m, l) /\ ~\E r \in wire' \ wire : r.type = "ack" /\ r.yiaddr = l2.addr
  <2>1. PICK k \in db.leases : /\ k.addr = l.addr /\ k.hw = l.hw
                               /\ k.expires = l.expires \/ m.type = "bootp"
    BY <1>9 DEF HadBefore
  <2>2. /\ Entry(k) \in Entries(db) /\ Entry(k).addr = k.addr /\ Entry(k).hw = k.hw
        /\ Entry(k).expires = k.expires
    BY DEF Entries, Entry
  <2> QED
    BY <1>2, <1>6, <1>9, <2>1, <2>2 DEF HadIt
<1> QED
  BY <1>1, <1>6, <1>7, <1>8, <1>9, HandledReserves DEF ReservedFrom

\* A step that sends nothing and after which each lease is one from before, perhaps
\* with another name.
LEMMA SameReserves ==
    ASSUME wire' \subseteq wire,
           \A l \in db'.leases : \E k \in IF up THEN Entries(db) ELSE file :
              k.addr = l.addr /\ k.hw = l.hw /\ k.expires = l.expires
    PROVE  LinesHold
  BY DEF LinesHold, HadIt

\* A reload and a restart: what lease_update_from_configs changes is the names.
LEMMA ReloadOfReserves ==
    ASSUME NEW conf \in Configurations, NEW d, DbOK(d), NEW armed, NEW memo2, ReloadOf(conf, d, armed, memo2),
           Entries(d) \subseteq IF up THEN Entries(db) ELSE file, up'
    PROVE  LinesHold
<1> DEFINE none == {}
           reload == "reload"
<1>1. PICK pos \in Bijection(d.leases, 1 .. Cardinality(d.leases)) :
         Save(lease_update_from_configs(conf, d, pos), armed, reload, memo2, none)
  BY DEF ReloadOf
<1> DEFINE e == lease_update_from_configs(conf, d, pos)
<1>2. DbOK(e)
  BY lease_update_from_configsOK
<1>3. \A k \in e.leases : \E l \in d.leases : SameButName(k, l)
  BY ConfigsRename
<1> HIDE DEF e, reload
<1>4. Saved(e, armed, reload) /\ wire' \subseteq wire
  <2>1. Save(e, armed, reload, memo2, none)
    BY <1>1 DEF e
  <2> QED
    BY <1>2, <2>1, SaveSaves, SaveReplies DEF Dead
<1>5. \A l \in db'.leases : \E k \in Entries(d) : k.addr = l.addr /\ k.hw = l.hw /\ k.expires = l.expires
  <2> TAKE l \in db'.leases
  <2>1. PICK t \in e.leases : Entry(t) = Entry(l)
    BY <1>4 DEF Saved, Entries
  <2>2. PICK k \in d.leases : k.addr = t.addr /\ k.hw = t.hw /\ k.expires = t.expires
    BY <1>3 DEF SameButName, SameHolder
  <2>3. Entry(k) \in Entries(d) /\ Entry(k).addr = l.addr /\ Entry(k).hw = l.hw /\ Entry(k).expires = l.expires
    BY <2>1, <2>2 DEF Entries, Entry
  <2> QED
    BY <2>3
<1> QED
  BY <1>4, <1>5, SameReserves

\* Every event that is no datagram.
LEMMA ServerNextReserves ==
    ASSUME ServerInv, ServerNext, up'
    PROVE  LinesHold
<1>1. CASE Reload
  BY <1>1, ReloadOfReserves DEF Reload, ServerInv
<1>2. CASE Restart
  <2>1. FileOK(file) /\ now \in Nat /\ ~up
    BY <1>2 DEF ServerInv, ServerTypeOK, Restart
  <2>2. DbOK(lease_init(file, now)) /\ Entries(lease_init(file, now)) \subseteq file
    BY <2>1, lease_initOK, lease_initReads
  <2>3. PICK conf \in Configurations : ReloadOf(conf, lease_init(file, now), 0, memo)
    BY <1>2 DEF Restart
  <2> QED
    BY <2>1, <2>2, <2>3, ReloadOfReserves
<1>3. CASE AlarmEvent
  <2> DEFINE none == {}
  <2>1. up /\ Save(Pruned, 0, "none", memo, none)
    BY <1>3 DEF AlarmEvent
  <2>2. Saved(Pruned, 0, "none") /\ wire' \subseteq wire
    BY <2>1, PrunedOK, SaveSaves, SaveReplies DEF Dead
  <2>3. Entries(db') \subseteq Entries(db)
    BY <2>2, PrunedTakes DEF Saved, Entries
  <2>4. \A l \in db'.leases : Entry(l) \in Entries(db)
    BY <2>3 DEF Entries
  <2> QED
    BY <2>1, <2>2, <2>4, SameReserves DEF Entry
<1>4. CASE DoScriptRun \/ HelperWrite \/ Tick
  <2>1. up /\ Entries(db') = Entries(db) /\ wire' \subseteq wire
    <3>1. CASE DoScriptRun
      BY <3>1, DoScriptRunWrites DEF DoScriptRun
    <3>2. CASE HelperWrite \/ Tick
      BY <3>2 DEF HelperWrite, Tick
    <3> QED
      BY <1>4, <3>1, <3>2
  <2>2. \A l \in db'.leases : Entry(l) \in Entries(db)
    BY <2>1 DEF Entries
  <2> QED
    BY <2>1, <2>2, SameReserves DEF Entry
<1>5. ~Crash /\ ~Terminate
  BY DEF Crash, Terminate, Dies
<1> QED
  BY <1>1, <1>2, <1>3, <1>4, <1>5 DEF ServerNext

\* The address of a dhcp-host line goes to a host of the line only, whichever handler
\* gives it out and whatever reloads change the lines to and files bring back: a host
\* that had it before the line was in force keeps it to the end of its lease and is
\* acknowledged nothing on it (config_find_by_address in dhcp_reply and
\* address_allocate; BOOTP does not look).
THEOREM ReservationsHold == Spec => ReservedForItsHost
<1>1. IInv /\ [Next]_vars => [LinesHold]_vars
  <2> SUFFICES ASSUME IInv, Next PROVE LinesHold \/ UNCHANGED vars
    OBVIOUS
  <2>1. ServerInv
    BY DEF IInv
  <2>2. SUFFICES ASSUME up' PROVE LinesHold
    BY DEF LinesHold
  <2>3. ASSUME NEW m \in ClientMsgs, Receive(m) PROVE LinesHold
    <3>1. m \in RequestMsg /\ asked' = {m} /\ \E answering : DhcpPacket(m, answering)
      BY <2>3, AloneAssumption DEF Receive
    <3> QED
      BY <2>1, <2>2, <3>1, DhcpPacketReserves
  <2>4. CASE Deliver
    <3>1. up /\ db' = db /\ wire' = {}
      BY <2>2, <2>4 DEF Deliver, server
    <3>2. \A l \in db.leases : Entry(l) \in Entries(db)
      BY DEF Entries
    <3> QED
      BY <3>1, <3>2, SameReserves DEF Entry
  <2>5. CASE Other(ServerNext)
    BY <2>1, <2>2, <2>5, ServerNextReserves DEF Other
  <2> QED
    BY <2>3, <2>4, <2>5 DEF Next
<1>2. [][LinesHold]_vars <=> ReservedForItsHost
  BY DEF ReservedForItsHost, LinesHold
<1> HIDE DEF LinesHold
<1> QED
  BY <1>1, <1>2, Invariance, PTL DEF Spec

(***************************************************************************)
(* A name that the configuration gave is not taken by a client.            *)
(***************************************************************************)

\* A name of a lease of table d is the name it had in the table before, or a line
\* of the configuration gives it to the host of the lease, or no lease that is
\* still there has it by the configuration.
NameFair(conf, k, d) ==
    \/ k.name = NoName \/ GivenTo(conf, k.name, k)
    \/ \E l \in db.leases : l.name = k.name /\ l.addr = k.addr
    \/ \A l \in db.leases : l.name = k.name /\ "AUTH_NAME" \in l.flags =>
          l.addr = k.addr \/ ~Leased(d, l.addr)

\* A table of leases that were there is fair.
LEMMA OldIsFair ==
    ASSUME NEW conf, NEW d, NEW k, NEW l \in db.leases, l.name = k.name, l.addr = k.addr
    PROVE  NameFair(conf, k, d)
  BY DEF NameFair

\* Giving a lease to a client is fair.
LEMMA GivenIsFair ==
    ASSUME ServerInv, OneLeasePerName(db), NEW m, NEW d, Given(m, d), NEW k \in d.leases
    PROVE  NameFair(dhcp_conf, k, d)
<1>1. PICK clid \in AnyClientId, exp \in Nat : \E e, p, r :
        /\ GivenFrom(m, e, p, clid)
        /\ Regranted(p, r, m.chaddr, clid, exp) /\ NameMayBe(p, r)
        /\ d = r.d
  BY DEF Given
<1>2. PICK e, p, r :
        /\ GivenFrom(m, e, p, clid)
        /\ Regranted(p, r, m.chaddr, clid, exp) /\ NameMayBe(p, r)
        /\ d = r.d
  BY <1>1
<1>3. /\ PtrOK(p) /\ PtrOK(r) /\ r.l.addr = p.l.addr
      /\ d.leases = Others(r) \cup {r.l} /\ Others(p) \subseteq Lease
  BY <1>2, OthersOK DEF Regranted, Edited, Renamed, SameTable
<1>4. /\ Others(p) \subseteq db.leases
      /\ p.l \in db.leases \/ p.l.name = NoName
  BY <1>2, <1>3, GivenOthers, PrunedTakes
<1>5. \A t \in Others(r) : \E u \in Others(p) : t.addr = u.addr /\ t.name \in {u.name, NoName}
  <2>1. \A u \in Others(p) : kill_name(u).addr = u.addr /\ kill_name(u).name = NoName
    BY <1>3 DEF kill_name, Lease
  <2> QED
    BY <1>2, <2>1 DEF Regranted, Edited, Renamed
<1>6. CASE k \in Others(r)
  BY <1>4, <1>5, <1>6 DEF NameFair
<1>7. CASE k = r.l /\ r.l.name = p.l.name
  BY <1>3, <1>4, <1>7 DEF NameFair
<1>8. CASE k = r.l /\ GivenTo(dhcp_conf, r.l.name, r.l)
  BY <1>8 DEF NameFair
<1>9. CASE k = r.l /\ NotConfigured(p, r.l.name)
  <2> SUFFICES ASSUME NEW l \in db.leases, l.name = k.name, "AUTH_NAME" \in l.flags,
                      l.addr # k.addr, Leased(d, l.addr)
               PROVE  FALSE
    BY DEF NameFair
  <2>1. PICK t \in Others(r) : t.addr = l.addr
    BY <1>3, <1>9 DEF Leased
  <2>2. PICK u \in Others(p) : u.addr = l.addr
    BY <1>5, <2>1
  <2>3. u = l
    BY <1>4, <2>2 DEF ServerInv, DbOK, OneLeasePerAddr
  <2> QED
    BY <1>9, <2>3 DEF NotConfigured
<1>10. OneLeasePerName(Pruned)
  BY PrunedTakes DEF OneLeasePerName
<1> QED
  BY <1>2, <1>3, <1>6, <1>7, <1>8, <1>9, <1>10 DEF NameMayBe

\* Every handler is.
LEMMA HandledIsFair ==
    ASSUME ServerInv, OneLeasePerName(db), NEW m, NEW d, HandledAs(m, d), NEW k \in d.leases
    PROVE  NameFair(dhcp_conf, k, d)
<1>1. CASE d = Pruned \/ Removed(m, d)
  <2>1. ASSUME Removed(m, d) PROVE d.leases \subseteq Pruned.leases
    <3>1. PICK lease : d = lease_prune(Pruned, {lease}, now)
      BY <2>1 DEF Removed
    <3> QED
      BY <3>1 DEF lease_prune
  <2>2. k \in db.leases
    BY <1>1, <2>1, PrunedTakes
  <2> QED
    BY <2>2, OldIsFair
<1>2. CASE Marked(d)
  <2>1. PICK lease \in Pruned.leases : d = lease_set_interface(At(Pruned, lease)).d
    BY <1>2 DEF Marked
  <2> DEFINE p == At(Pruned, lease)
             r == lease_set_interface(p)
  <2>2. PtrOK(p) /\ p.d = Pruned
    BY PrunedOK, AtOK DEF At
  <2> HIDE DEF p
  <2>3. Edited(p, r) /\ SameNames(r.l, p.l)
    BY <2>2, lease_set_interfaceEdits
  <2> HIDE DEF r
  <2>4. /\ p.d.leases = Others(p) \cup {p.l} /\ r.d.leases = Others(p) \cup {r.l}
        /\ r.l.addr = p.l.addr /\ r.l.name = p.l.name
    BY <2>2, <2>3, OthersOK DEF Edited, SameTable, SameNames
  <2>5. \E l \in Pruned.leases : l.addr = k.addr /\ l.name = k.name
    BY <2>1, <2>2, <2>4 DEF r, p
  <2> QED
    BY <2>5, PrunedTakes, OldIsFair
<1>3. CASE Given(m, d)
  BY <1>3, GivenIsFair
<1> QED
  BY <1>1, <1>2, <1>3 DEF HandledAs

\* A reload is: a new name is the configured one.
LEMMA ReloadIsFair ==
    ASSUME ServerInv, NEW conf, NEW pos \in Bijection(db.leases, 1 .. Cardinality(db.leases)),
           NEW d, d = lease_update_from_configs(conf, db, pos), NEW k \in d.leases
    PROVE  NameFair(conf, k, d)
<1> SUFFICES ASSUME k.name # NoName PROVE NameFair(conf, k, d)
  BY DEF NameFair
<1>1. DbOK(db)
  BY DEF ServerInv
<1>2. PICK l \in db.leases : SameButName(k, l) /\ k.name \in {l.name, ConfiguredName(conf, l)}
  BY <1>1, ConfigsRename
<1>3. CASE k.name = ConfiguredName(conf, l)
  <2> DEFINE config == find_config(conf, l.clid, l.hw)
  <2>1. config.name = k.name /\ config \in conf /\ LineFor(config, l.hw, l.clid)
    BY <1>3, find_configFinds DEF ConfiguredName, NoConfig
  <2> HIDE DEF config
  <2>2. k.hw = l.hw /\ k.clid = l.clid
    BY <1>2 DEF SameButName, SameHolder
  <2>3. GivenTo(conf, k.name, k)
    BY <2>1, <2>2 DEF GivenTo, OfLine, LineFor
  <2> QED
    BY <2>3 DEF NameFair
<1>4. CASE k.name = l.name
  BY <1>2, <1>4, OldIsFair DEF SameButName
<1> QED
  BY <1>2, <1>3, <1>4

\* What the property says of a step.
NamesKept ==
    \A l \in db.leases, k \in db'.leases :
        /\ up /\ up' /\ l.name # NoName /\ "AUTH_NAME" \in l.flags /\ Leased(db', l.addr)
        /\ k.name = l.name
        => k.addr = l.addr \/ GivenTo(dhcp_conf', l.name, k)

\* A table that is as fair as d keeps the names.
LEMMA FairKeeps ==
    ASSUME OneLeasePerName(db), NEW d, Entries(db') = Entries(d),
           \A k \in d.leases : NameFair(dhcp_conf', k, d)
    PROVE  NamesKept
<1> SUFFICES ASSUME NEW l \in db.leases, NEW k2 \in db'.leases,
                    l.name # NoName, "AUTH_NAME" \in l.flags, Leased(db', l.addr),
                    k2.name = l.name
             PROVE  k2.addr = l.addr \/ GivenTo(dhcp_conf', l.name, k2)
  BY DEF NamesKept
<1>1. PICK k \in d.leases : Entry(k) = Entry(k2)
  BY DEF Entries
<1>2. k.addr = k2.addr /\ k.hw = k2.hw /\ k.clid = k2.clid /\ k.name = k2.name
  BY <1>1 DEF Entry
<1>3. Leased(d, l.addr)
  <2>1. PICK t2 \in db'.leases : t2.addr = l.addr
    BY DEF Leased
  <2>2. PICK t \in d.leases : Entry(t) = Entry(t2)
    BY DEF Entries
  <2> QED
    BY <2>1, <2>2 DEF Entry, Leased
<1>4. NameFair(dhcp_conf', k, d)
  OBVIOUS
<1>5. CASE GivenTo(dhcp_conf', k.name, k)
  BY <1>2, <1>5 DEF GivenTo, OfLine
<1>6. CASE \E t \in db.leases : t.name = k.name /\ t.addr = k.addr
  BY <1>2, <1>6 DEF OneLeasePerName
<1>7. CASE \A t \in db.leases : t.name = k.name /\ "AUTH_NAME" \in t.flags =>
              t.addr = k.addr \/ ~Leased(d, t.addr)
  BY <1>2, <1>3, <1>7
<1> QED
  BY <1>2, <1>4, <1>5, <1>6, <1>7 DEF NameFair

\* The end of a handler keeps them.
LEMMA SaveKeepsNames ==
    ASSUME OneLeasePerName(db), NEW d, DbOK(d), \A k \in d.leases : NameFair(dhcp_conf', k, d),
           NEW armed, NEW mode, NEW memo2, NEW reply, Save(d, armed, mode, memo2, reply)
    PROVE  NamesKept
<1>1. CASE Saved(d, armed, mode)
  BY <1>1, FairKeeps DEF Saved
<1>2. CASE Dead(d)
  BY <1>2 DEF Dead, NamesKept
<1> QED
  BY <1>1, <1>2, SaveSaves

\* A datagram keeps them.
LEMMA DhcpPacketKeepsNames ==
    ASSUME ServerInv, OneLeasePerName(db), NEW m \in RequestMsg, NEW answering,
           DhcpPacket(m, answering)
    PROVE  NamesKept
<1>1. PICK d, memo2, reply :
        /\ DbOK(d) /\ HandledAs(m, d) /\ Acknowledges(d, reply)
        /\ Finish(d, memo2, reply) \/ NullDereference(d)
  BY DatagramHandled DEF Handled
<1>2. CASE Finish(d, memo2, reply)
  BY <1>1, <1>2, HandledIsFair, SaveKeepsNames DEF Finish
<1>3. CASE NullDereference(d)
  BY <1>3 DEF NullDereference, Dies, NamesKept
<1> QED
  BY <1>1, <1>2, <1>3

\* And so does every other event.
LEMMA ServerNextKeepsNames ==
    ASSUME ServerInv, OneLeasePerName(db), ServerNext
    PROVE  NamesKept
<1>1. CASE AlarmEvent
  <2>1. \A k \in Pruned.leases : NameFair(dhcp_conf', k, Pruned)
    BY PrunedTakes, OldIsFair
  <2> QED
    BY <1>1, <2>1, PrunedOK, SaveKeepsNames DEF AlarmEvent
<1>2. CASE Reload
  <2> DEFINE reload == "reload"
             none == {}
             memo2 == [memo EXCEPT !.declined = Reread(@)]
  <2>0. PICK conf \in Configurations : ReloadOf(conf, db, alarm, memo2)
    BY <1>2 DEF Reload
  <2> HIDE DEF memo2
  <2>1. PICK pos \in Bijection(db.leases, 1 .. Cardinality(db.leases)) :
           dhcp_conf' = conf /\ Save(lease_update_from_configs(conf, db, pos), alarm, reload, memo2, none)
    BY <2>0 DEF ReloadOf
  <2> DEFINE d == lease_update_from_configs(conf, db, pos)
  <2>2. DbOK(d)
    BY lease_update_from_configsOK DEF ServerInv
  <2>3. \A k \in d.leases : NameFair(dhcp_conf', k, d)
    BY <2>1, ReloadIsFair
  <2> HIDE DEF d, reload, none
  <2> QED
    BY <2>1, <2>2, <2>3, SaveKeepsNames DEF d
<1>3. CASE Restart \/ Crash \/ Terminate
  BY <1>3 DEF Restart, Crash, Terminate, Dies, NamesKept
<1>4. CASE DoScriptRun
  BY <1>4, DoScriptRunWrites, OldIsFair, FairKeeps
<1>5. CASE HelperWrite \/ Tick
  <2>1. db' = db
    BY <1>5 DEF HelperWrite, Tick
  <2> QED
    BY <2>1, OldIsFair, FairKeeps
<1> QED
  BY <1>1, <1>2, <1>3, <1>4, <1>5 DEF ServerNext

\* A name that a lease has by the configuration goes to no other lease while that
\* one stays, unless the configuration gives it to the other host too: a client's
\* own name never overrides it (lease_set_hostname, MayTakeFrom), and what a
\* reload gives is what the lines say.
THEOREM ConfiguredNamesAreKept == Spec => ConfiguredNameIsKept
<1>1. IInv /\ TableInv /\ [Next]_vars => [NamesKept]_vars
  <2> SUFFICES ASSUME IInv, TableInv, Next PROVE NamesKept \/ UNCHANGED vars
    OBVIOUS
  <2>1. ServerInv /\ OneLeasePerName(db)
    BY DEF IInv, TableInv, GoodTable
  <2>2. ASSUME NEW m \in ClientMsgs, Receive(m) PROVE NamesKept
    <3>1. m \in RequestMsg /\ \E answering : DhcpPacket(m, answering)
      BY <2>2, AloneAssumption DEF Receive
    <3> QED
      BY <2>1, <3>1, DhcpPacketKeepsNames
  <2>3. CASE Deliver
    <3>1. db' = db
      BY <2>3 DEF Deliver, server
    <3> QED
      BY <2>1, <3>1, OldIsFair, FairKeeps
  <2>4. CASE Other(ServerNext)
    BY <2>1, <2>4, ServerNextKeepsNames DEF Other
  <2> QED
    BY <2>2, <2>3, <2>4 DEF Next
<1>2. [][NamesKept]_vars <=> ConfiguredNameIsKept
  BY DEF ConfiguredNameIsKept, NamesKept
<1> HIDE DEF NamesKept
<1> QED
  BY <1>1, <1>2, Invariance, TableInvariance, PTL DEF Spec

(***************************************************************************)
(* A host that is refused for the sake of its static address gets it.      *)
(***************************************************************************)

\* What DHCPREQUEST calls available, DHCPDISCOVER offers: the two checks are of the
\* same line and lease, and the line counts only if its address is on the network.
LEMMA AvailableIsOffered ==
    ASSUME ServerInv, NEW m \in RequestMsg, NEW lease, StaticLeaseAvailable(m, lease)
    PROVE  IsOffered(StartOver(m), lease, ConfigOf(m, lease).addr)
<1> DEFINE r == StartOver(m)
           config == ConfigOf(m, lease)
<1>1. r.chaddr = m.chaddr /\ r.clid = m.clid
  BY DEF StartOver, RequestMsg
<1> HIDE DEF r
<1>2. ConfigOf(r, lease) = config
  BY <1>1 DEF ConfigOf, ClidOf
<1> HIDE DEF config
<1>3. /\ config.addr # NoAddr /\ NotRouter(config) /\ ~config.disabled
      /\ Declined(config) => now - memo.declined[config] > DECLINE_BACKOFF
      /\ \A l \in lease_find_by_addr(Pruned, config.addr) : l = lease
  BY DEF StaticLeaseAvailable, Ignored, config
<1>4. config \in OnLink
  <2>1. config = NoConfig \/ config \in OnLink
    BY find_configFinds DEF ConfigOf, config
  <2> QED
    BY <1>3, <2>1 DEF NoConfig
<1>5. ~BackingOff(config)
  <2>1. Declined(config) => now \in Int /\ memo.declined[config] \in Int /\ DECLINE_BACKOFF \in Int
    BY <1>4, PoolAssumption DEF ServerInv, ServerTypeOK, Memo, Declined, OnLink, Lines
  <2> QED
    BY <1>3, <2>1 DEF BackingOff
<1>6. ASSUME NEW answering PROVE OfferFor(Pruned, r, lease, answering).addr = config.addr
  BY <1>2, <1>3, <1>5 DEF OfferFor
<1>7. narrow_context(Ranges, config.addr) # <<>>
  BY <1>3, <1>4 DEF narrow_context, OnLink
<1> QED
  BY <1>2, <1>3, <1>6, <1>7 DEF IsOffered, r, config

\* A host that is refused its address for the sake of the one of its line, and
\* starts over, is offered that one, with a reply, whoever answers pings
\* (dhcp_reply, DHCPREQUEST and DHCPDISCOVER).
THEOREM StaticAddressIsOffered == Spec => []StaticIsOffered
<1>1. IInv => StaticIsOffered
  BY AvailableIsOffered, AloneAssumption DEF IInv, StaticIsOffered
<1> QED
  BY <1>1, Invariance, PTL
=============================================================================
