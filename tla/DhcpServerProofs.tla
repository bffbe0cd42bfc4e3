-------------------------- MODULE DhcpServerProofs --------------------------
(***************************************************************************)
(* Proofs about the DHCP server, for any network, configuration and set of *)
(* datagrams: the state is typed, an address has one lease, and leases_left *)
(* counts the leases that may still be allocated.                          *)
(*                                                                         *)
(* The inductive invariant adds to these that the set of leases is finite  *)
(* and that whatever is on disk, also after a crash in the middle of a     *)
(* write, can be read back into such a table: one line for an address, and *)
(* no more lines than the table has room for.                              *)
(***************************************************************************)
EXTENDS DhcpServerAlone, DhcpPoolProofs, SequenceTheorems

ServerInv == ServerTypeOK /\ DbOK(db) /\ FileOK(file) /\ wire \subseteq ReplyMsg
IInv == ServerInv /\ asked \subseteq RequestMsg

USE DEF ServerInv

(***************************************************************************)
(* The end of a handler.                                                   *)
(***************************************************************************)

\* The table and the file the server starts with are consistent.
LEMMA EmptyDbOK == DbOK(EmptyDb) /\ FileOK({})
<1>1. IsFiniteSet({}) /\ Cardinality({}) = 0
  BY FS_EmptySet
<1>2. EmptyDb \in Database
  BY LeaseAssumption DEF EmptyDb, Database
<1> QED
  BY <1>1, <1>2, LeaseAssumption
  DEF EmptyDb, DbOK, OneLeasePerAddr, LeasesAccounted, FileOK, LeaseFile

\* The time of the next alarm is a number: there is a first event if there is any.
LEMMA NextAlarmOK ==
    ASSUME ServerInv, NEW d, DbOK(d), NEW err \in BOOLEAN, NEW old \in Nat
    PROVE  NextAlarm(d, err, old) \in Nat
<1> DEFINE events == {t + SLOP : t \in Finite(d)} \cup (IF err THEN {now + LEASE_RETRY} ELSE {})
<1>1. now \in Nat /\ SLOP \in Nat /\ LEASE_RETRY \in Nat
  BY ServerAssumption DEF ServerTypeOK
<1>2. Finite(d) \subseteq Nat
  BY DEF Finite, DbOK, Database, Lease
<1>3. events \in SUBSET Nat
  BY <1>1, <1>2
<1>4. events # {} => \E t \in events : \A u \in events : t <= u
  <2> HIDE DEF events
  <2> QED
    BY <1>3, LeastNumber
<1>5. NextAlarm(d, err, old) = IF events = {} THEN old ELSE CHOOSE t \in events : \A u \in events : t <= u
  BY DEF NextAlarm
<1> HIDE DEF events
<1> QED
  BY <1>3, <1>4, <1>5

\* Dropping the news for the script keeps the table consistent.
LEMMA SettledOK ==
    ASSUME NEW d, DbOK(d)
    PROVE  DbOK(Settled(d))
<1> DEFINE g(l) == [l EXCEPT !.oldname = NoName, !.flags = @ \ {"NEW", "CHANGED"}]
           f == [l \in d.leases |-> g(l)]
           T == {g(l) : l \in d.leases}
<1>1. d \in Database /\ d.leases \subseteq Lease
  BY DEF DbOK, Database
<1>2. \A l \in Lease : g(l) \in Lease /\ g(l).addr = l.addr
  BY DEF Lease, AnyName
<1>3. f \in [d.leases -> Lease] /\ \A l \in d.leases : f[l].addr = l.addr
  BY <1>1, <1>2
<1>4. T \in SUBSET Lease /\ T = {f[l] : l \in d.leases}
  BY <1>1, <1>2
<1>5. CASE LeaseScript
  BY <1>5 DEF Settled
<1>6. CASE ~LeaseScript
  <2>1. Settled(d) = [d EXCEPT !.old_leases = <<>>, !.leases = T]
    BY <1>6 DEF Settled
  <2>2. /\ Settled(d) \in Database /\ Settled(d).leases = {f[l] : l \in d.leases}
        /\ Settled(d).leases_left = d.leases_left
    <3> DEFINE none == <<>>
    <3>1. none \in Seq(Lease)
      OBVIOUS
    <3>2. Settled(d) = [d EXCEPT !.old_leases = none, !.leases = T]
      BY <2>1
    <3> HIDE DEF T, f, none
    <3> QED
      BY <1>1, <1>4, <3>1, <3>2 DEF Database
  <2> HIDE DEF f
  <2> QED
    BY <1>3, <2>2, ChangedDb
<1> QED
  BY <1>5, <1>6

\* A rewrite of the lease file that stops anywhere leaves a file that can be read.
LEMMA TornOK ==
    ASSUME ServerInv, NEW d, DbOK(d), NEW f \in Torn(d) \cup {Entries(d)}
    PROVE  FileOK(f)
  BY WrittenFileOK DEF Torn

\* What lease_update_dns puts into the cache is typed.
LEMMA DnsEntriesOK ==
    ASSUME NEW d, DbOK(d)
    PROVE  DnsEntries(d) \subseteq [name : AnyName, addr : AnyAddr, ttd : Nat]
  BY DEF DnsEntries, DbOK, Database, Lease

\* Address selection starts typed.
LEMMA EmptyMemoOK == EmptyMemo \in Memo
  BY DEF EmptyMemo, Memo

\* Whatever is in memory, the process can die and the rest is sound.
LEMMA DiesOK ==
    ASSUME ServerInv, NEW d, DbOK(d), Dies(d), FileOK(file'), faults' \in Nat,
           dhcp_conf' \in Configurations
    PROVE  ServerInv'
<1> DEFINE lost == {e.addr : e \in script.buf}
                   \cup {d.old_leases[i].addr : i \in DOMAIN d.old_leases}
                   \cup {l.addr : l \in {k \in d.leases : k.oldname # NoName \/ Entry(k) \notin file'}}
<1>1. script \in Script
  BY DEF ServerTypeOK
<1>2. {e.addr : e \in script.buf} \subseteq AnyAddr
  BY <1>1 DEF Script, Event
<1>3. d.leases \subseteq Lease /\ \A i \in DOMAIN d.old_leases : d.old_leases[i] \in Lease
  BY DEF DbOK, Database
<1>4. lost \subseteq AnyAddr
  BY <1>2, <1>3 DEF Lease
<1>5. script' = script \/ script' = [script EXCEPT !.buf = {}, !.missed = @ \cup lost]
  BY DEF Dies
<1>6. script' \in Script
  <2> HIDE DEF lost
  <2> QED
    BY <1>1, <1>4, <1>5 DEF Script
<1>7. /\ up' = FALSE /\ db' = EmptyDb /\ alarm' = 0 /\ dns' = {} /\ memo' = EmptyMemo
      /\ now' = now /\ wire' = wire
  BY DEF Dies
<1>8. ServerTypeOK'
  BY <1>6, <1>7, EmptyDbOK, EmptyMemoOK DEF ServerTypeOK, DbOK, FileOK
<1> QED
  BY <1>7, <1>8, EmptyDbOK

\* The end of every handler keeps the invariant, whether it completes or is killed.
LEMMA SaveOK ==
    ASSUME ServerInv, NEW d, DbOK(d), NEW armed \in Nat, NEW mode, NEW memo2 \in Memo,
           NEW reply, reply \subseteq ReplyMsg, Save(d, armed, mode, memo2, reply),
           dhcp_conf' \in Configurations
    PROVE  ServerInv'
<1>1. CASE KilledWhileSaving(d)
  <2>1. FileOK(file') /\ faults' \in Nat /\ Dies(d)
    BY <1>1, TornOK DEF KilledWhileSaving, ServerTypeOK
  <2> QED
    BY <2>1, DiesOK
<1>2. CASE ~KilledWhileSaving(d)
  <2> DEFINE toDns == mode = "reload" \/ (mode = "packet" /\ d.dns_dirty)
             saved(err) == [d EXCEPT !.file_dirty = @ /\ err, !.dns_dirty = @ /\ ~toDns]
  <2>1. PICK err \in BOOLEAN :
           /\ faults' = IF err THEN faults + 1 ELSE faults
           /\ IF ~d.file_dirty THEN file' = file
              ELSE IF err THEN file' \in Torn(d)
              ELSE file' = Entries(d)
           /\ alarm' = NextAlarm(d, err, armed)
           /\ dns' = IF toDns THEN DnsEntries(d) ELSE dns
           /\ db' = Settled(IF mode = "reload" THEN rerun_scripts(saved(err)) ELSE saved(err))
           /\ up' = TRUE /\ memo' = memo2 /\ wire' = wire \cup reply
           /\ UNCHANGED <<now, script>>
    BY <1>2 DEF Save
  <2>2. FileOK(file')
    BY <2>1, TornOK
  <2>3. DbOK(db')
    <3>1. /\ saved(err) \in Database /\ saved(err).leases = d.leases
          /\ saved(err).leases_left = d.leases_left
      BY DEF DbOK, Database
    <3>2. DbOK(saved(err))
      <4> HIDE DEF saved
      <4> QED
        BY <3>1, SameLeases
    <3> HIDE DEF saved
    <3>3. DbOK(rerun_scripts(saved(err)))
      BY <3>2, rerun_scriptsOK
    <3> QED
      BY <2>1, <3>2, <3>3, SettledOK
  <2>4. alarm' \in Nat
    BY <2>1, NextAlarmOK
  <2>5. dns' \subseteq [name : AnyName, addr : AnyAddr, ttd : Nat]
    BY <2>1, DnsEntriesOK DEF ServerTypeOK
  <2>6. ServerTypeOK'
    BY <2>1, <2>2, <2>3, <2>4, <2>5 DEF ServerTypeOK, DbOK, FileOK
  <2> QED
    BY <2>1, <2>2, <2>3, <2>6
<1> QED
  BY <1>1, <1>2

(***************************************************************************)
(* What the handlers have in common.                                       *)
(***************************************************************************)

\* The table after the first step of every handler is consistent.
LEMMA PrunedOK ==
    ASSUME ServerInv
    PROVE  DbOK(Pruned)
<1>1. now \in Nat
  BY DEF ServerTypeOK
<1> QED
  BY <1>1, lease_pruneOK DEF Pruned

\* A handler that leaves a consistent database ends well.
LEMMA FinishOK ==
    ASSUME ServerInv, NEW d, DbOK(d), NEW memo2 \in Memo,
           NEW reply, reply \subseteq ReplyMsg, Finish(d, memo2, reply)
    PROVE  ServerInv'
<1>1. alarm \in Nat /\ dhcp_conf' \in Configurations
  BY DEF Finish, ServerTypeOK
<1> QED
  BY <1>1, SaveOK DEF Finish

\* server_id returns a server identifier.
LEMMA server_idOK ==
    ASSUME NEW chain \in Seq(DhcpRange)
    PROVE  server_id(chain) \in AnyServerId
<1>1. chain # <<>> => chain[1] \in DhcpRange
  OBVIOUS
<1> QED
  BY <1>1, ServerAssumption DEF server_id, DhcpRange, AnyServerId

\* An answer is a set of reply messages.
LEMMA AnswerOK ==
    ASSUME NEW m \in RequestMsg, NEW type \in ReplyTypes, NEW a \in AnyAddr, NEW sid \in AnyServerId
    PROVE  Answer(m, type, a, sid) \subseteq ReplyMsg
  BY DEF Answer, RequestMsg, ReplyMsg

\* An answer with the id of the context that an address belongs to.
LEMMA ContextAnswerOK ==
    ASSUME NEW m \in RequestMsg, NEW type \in ReplyTypes, NEW a \in AnyAddr,
           NEW chain \in Seq(DhcpRange), NEW b
    PROVE  Answer(m, type, a, server_id(narrow_context(chain, b))) \subseteq ReplyMsg
<1>1. server_id(narrow_context(chain, b)) \in AnyServerId
  BY narrow_contextOK, server_idOK
<1> QED
  BY <1>1, AnswerOK

\* The reply types the handlers use.
LEMMA ReplyTypesOK == "offer" \in ReplyTypes /\ "ack" \in ReplyTypes /\ "nak" \in ReplyTypes
                      /\ "bootp" \in ReplyTypes /\ NoAddr \in AnyAddr /\ NoAddr \in AnyServerId
  BY DEF ReplyTypes, AnyAddr, AnyServerId

\* The lease that was found for a client, or NULL.
LEMMA FoundOK ==
    ASSUME NEW d, DbOK(d), NEW hw, NEW clid, NEW lease \in lease_find_by_client(d, hw, clid)
    PROVE  /\ lease # NULL => lease \in d.leases
           /\ lease \in Lease /\ lease.addr \in AnyAddr /\ lease.clid \in AnyClientId
<1>1. NULL \in Lease
  BY DEF NULL, FreshLease, Lease, NoHost, NoId, NoName, AnyClientId, AnyName, AnyAddr
<1>2. lease # NULL => lease \in d.leases
  BY lease_find_by_clientOK
<1>3. lease \in Lease
  BY <1>1, <1>2 DEF DbOK, Database
<1> QED
  BY <1>2, <1>3 DEF Lease

\* The fields of a datagram are typed.
LEMMA MessageOK ==
    ASSUME NEW m \in RequestMsg
    PROVE  /\ m.chaddr \in Hosts /\ m.reqip \in AnyAddr /\ m.sid \in AnyServerId
           /\ m.clid \in AnyClientId /\ m.name \in AnyName
           /\ Ciaddr(m) \in AnyAddr /\ Wanted(m) \in AnyAddr
  BY DEF RequestMsg, Ciaddr, Wanted, AnyAddr

\* The line that counts for a datagram is a configuration line or none.
LEMMA ConfigOfOK ==
    ASSUME ServerInv, NEW m, NEW lease
    PROVE  /\ ConfigOf(m, lease) \in dhcp_conf \cup {NoConfig}
           /\ ConfigOf(m, lease).addr \in AnyAddr /\ ConfigOf(m, lease).name \in AnyName
<1>1. OnLink \in SUBSET dhcp_conf /\ dhcp_conf \in Configurations
  BY DEF OnLink, ServerTypeOK
<1> QED
  BY <1>1, find_configOK DEF ConfigOf

\* Naming a lease keeps the table consistent.
LEMMA NamedOK ==
    ASSUME NEW p, PtrOK(p), NEW name \in AnyName, NEW auth \in BOOLEAN
    PROVE  PtrOK(Named(p, name, auth)) /\ Named(p, name, auth).l.addr = p.l.addr
<1>1. name # NoName => name \in Names
  BY DEF AnyName
<1> QED
  BY <1>1, lease_set_hostnameOK DEF Named

\* A process that dies in a handler leaves the invariant behind.
LEMMA NullDereferenceOK ==
    ASSUME ServerInv, NEW d, DbOK(d), NullDereference(d)
    PROVE  ServerInv'
<1>1. FileOK(file') /\ faults' \in Nat /\ Dies(d) /\ dhcp_conf' \in Configurations
  BY DEF NullDereference, ServerTypeOK
<1> QED
  BY <1>1, DiesOK

(***************************************************************************)
(* The handlers of dhcp_reply.                                             *)
(***************************************************************************)

\* What is offered is an address or none, and address selection stays typed.
LEMMA OfferForOK ==
    ASSUME ServerInv, NEW d, DbOK(d), NEW m \in RequestMsg, NEW lease \in Lease, NEW answering
    PROVE  /\ OfferFor(d, m, lease, answering).addr \in AnyAddr
           /\ OfferFor(d, m, lease, answering).memo \in Memo
<1> DEFINE o == OfferFor(d, m, lease, answering)
           al == address_allocate(d, memo, m.chaddr, answering)
           known(a) == [addr |-> a, memo |-> memo]
<1>1. \/ o = known(ConfigOf(m, lease).addr)
      \/ o = known(lease.addr)
      \/ o = known(m.reqip)
      \/ o = al
  BY DEF OfferFor
<1>2. memo \in Memo /\ m.chaddr \in Hosts /\ m.reqip \in AnyAddr
  BY MessageOK DEF ServerTypeOK
<1>3. al.addr \in AnyAddr /\ al.memo \in Memo
  BY <1>2, AllocatedIsFree
<1>4. lease.addr \in AnyAddr /\ ConfigOf(m, lease).addr \in AnyAddr
  BY ConfigOfOK DEF Lease
<1> HIDE DEF o, al
<1> QED
  BY <1>1, <1>2, <1>3, <1>4 DEF o

\* DHCPDISCOVER keeps the invariant.
LEMMA DHCPDISCOVEROK ==
    ASSUME ServerInv, NEW m \in RequestMsg, NEW answering, DHCPDISCOVER(m, answering)
    PROVE  ServerInv'
<1>1. PICK lease \in lease_find_by_client(Pruned, m.chaddr, m.clid) :
         LET o == OfferFor(Pruned, m, lease, answering) IN
         IF ConfigOf(m, lease).disabled THEN Finish(Pruned, memo, {})
         ELSE Finish(Pruned, o.memo,
                     IF o.addr = NoAddr \/ narrow_context(Ranges, o.addr) = <<>> THEN {}
                     ELSE Answer(m, "offer", o.addr, server_id(narrow_context(Ranges, o.addr))))
  BY DEF DHCPDISCOVER
<1> DEFINE o == OfferFor(Pruned, m, lease, answering)
           answer == Answer(m, "offer", o.addr, server_id(narrow_context(Ranges, o.addr)))
           none == {}
<1>2. DbOK(Pruned) /\ lease \in Lease
  BY <1>1, PrunedOK, FoundOK
<1>3. o.addr \in AnyAddr /\ o.memo \in Memo
  BY <1>2, OfferForOK
<1>4. answer \subseteq ReplyMsg /\ none \subseteq ReplyMsg
  <2> HIDE DEF o
  <2> QED
    BY <1>3, ContextAnswerOK, ReplyTypesOK, RangesType
<1>5. memo \in Memo
  BY DEF ServerTypeOK
<1>6. Finish(Pruned, memo, none) \/ Finish(Pruned, o.memo, none) \/ Finish(Pruned, o.memo, answer)
  BY <1>1
<1> HIDE DEF o, answer, none
<1> QED
  BY <1>2, <1>3, <1>4, <1>5, <1>6, FinishOK

\* The contexts that are left in SELECTING are a chain of ranges.
LEMMA SelectedChainOK ==
    ASSUME NEW m
    PROVE  SelectedChain(m) \in Seq(DhcpRange)
<1> DEFINE mine == {i \in DOMAIN Ranges : Ranges[i].router = m.sid}
           first == CHOOSE i \in mine : \A j \in mine : i <= j
           none == <<>>
<1>1. CASE mine # {}
  <2>1. mine \in SUBSET Nat
    BY RangesType
  <2>2. \E i \in mine : \A j \in mine : i <= j
    <3> HIDE DEF mine
    <3> QED
      BY <1>1, <2>1, LeastNumber
  <2>3. first \in DOMAIN Ranges
    BY <2>2
  <2>4. SubSeq(Ranges, first, Len(Ranges)) \in Seq(DhcpRange)
    <3>1. \A i \in first .. Len(Ranges) : Ranges[i] \in DhcpRange
      BY <2>3, RangesType
    <3>2. first \in Int /\ Len(Ranges) \in Int
      BY <2>3, RangesType
    <3> HIDE DEF first
    <3> QED
      BY <3>1, <3>2, SubSeqProperties
  <2> QED
    BY <1>1, <2>4, RangesType DEF SelectedChain
<1>2. CASE mine = {}
  <2>1. none \in Seq(DhcpRange)
    OBVIOUS
  <2>2. SelectedChain(m) = Ranges \/ SelectedChain(m) = none
    BY <1>2 DEF SelectedChain
  <2> HIDE DEF none
  <2> QED
    BY <2>1, <2>2, RangesType
<1> QED
  BY <1>1, <1>2

\* The server identifier of a NAK is one.
LEMMA NakIdOK ==
    ASSUME NEW m \in RequestMsg, NEW lease
    PROVE  NakId(m, lease) \in AnyServerId
<1>1. /\ \/ NakId(m, lease) = m.sid
         \/ NakId(m, lease) = IfaceAddr
         \/ NakId(m, lease) = server_id(Ranges)
         \/ NakId(m, lease) = server_id(narrow_context(SelectedChain(m), Wanted(m)))
  BY DEF NakId
<1>2. server_id(narrow_context(SelectedChain(m), Wanted(m))) \in AnyServerId
  BY SelectedChainOK, narrow_contextOK, server_idOK
<1>3. server_id(Ranges) \in AnyServerId
  BY RangesType, server_idOK
<1>4. m.sid \in AnyServerId /\ IfaceAddr \in AnyServerId
  BY MessageOK, ServerAssumption DEF AnyServerId
<1> QED
  BY <1>1, <1>2, <1>3, <1>4

\* A lease of the table gives a valid pointer.
LEMMA AtOK ==
    ASSUME NEW d, DbOK(d), NEW l \in d.leases
    PROVE  PtrOK(At(d, l)) /\ At(d, l).l = l
  BY DEF At, PtrOK, Pointer, DbOK, Database

\* The lease that is granted is in the table, and a new one is added only for
\* an address that has none, while the table has room.
LEMMA GranteeOK ==
    ASSUME NEW d, DbOK(d), NEW m \in RequestMsg, NEW mine, mine # NULL => mine \in d.leases,
           ~TableFull(d, m, mine)
    PROVE  PtrOK(Grantee(d, m, mine))
<1>1. CASE mine # NULL
  BY <1>1, AtOK DEF Grantee
<1>2. CASE mine = NULL /\ Leased(d, Wanted(m))
  <2> DEFINE l == CHOOSE k \in d.leases : k.addr = Wanted(m)
  <2>1. l \in d.leases
    BY <1>2 DEF Leased
  <2>2. Grantee(d, m, mine) = At(d, l)
    BY <1>2 DEF Grantee
  <2> HIDE DEF l
  <2> QED
    BY <2>1, <2>2, AtOK
<1>3. CASE mine = NULL /\ ~Leased(d, Wanted(m))
  <2>1. d.leases_left # 0
    BY <1>3 DEF TableFull
  <2>2. Grantee(d, m, mine) = lease4_allocate(d, Wanted(m))
    BY <1>3 DEF Grantee
  <2> QED
    BY <1>3, <2>1, <2>2, MessageOK, lease4_allocateOK
<1> QED
  BY <1>1, <1>2, <1>3

\* Marking a lease for the script keeps the table consistent.
LEMMA MarkChangedOK ==
    ASSUME NEW p, PtrOK(p), NEW m, NEW fresh
    PROVE  PtrOK(MarkChanged(p, m, fresh))
<1> DEFINE l2 == [p.l EXCEPT !.flags = @ \cup {"CHANGED"}]
<1>1. l2 \in Lease /\ l2.addr = p.l.addr
  BY DEF PtrOK, Pointer, Lease
<1>2. PtrOK(Put(p, l2))
  <2> HIDE DEF l2
  <2> QED
    BY <1>1, PutOK
<1> QED
  BY <1>2 DEF MarkChanged

\* Granting a lease, old, abandoned or new, keeps the table consistent and counted.
LEMMA GrantedOK ==
    ASSUME ServerInv, NEW d, DbOK(d), NEW m \in RequestMsg, NEW config, config.name \in AnyName,
           NEW mine, mine # NULL => mine \in d.leases, ~TableFull(d, m, mine),
           NEW clid \in AnyClientId, NEW len \in LeaseTimes
    PROVE  DbOK(Granted(d, m, config, mine, clid, len).d)
<1> DEFINE fresh == mine = NULL /\ ~Leased(d, Wanted(m))
           c == MarkChanged(Grantee(d, m, mine), m, fresh)
           p == lease_set_hwaddr(c, m.chaddr, clid)
           yes == TRUE
           no == FALSE
           q == IF config.name # NoName THEN Named(p, config.name, yes) ELSE Named(p, m.name, no)
           r == lease_set_expires(q, len, now)
<1>1. PtrOK(c)
  BY GranteeOK, MarkChangedOK
<1>2. PtrOK(p)
  <2> HIDE DEF c
  <2> QED
    BY <1>1, MessageOK, lease_set_hwaddrOK
<1>3. PtrOK(q)
  <2>1. yes \in BOOLEAN /\ no \in BOOLEAN
    OBVIOUS
  <2> HIDE DEF p, yes, no
  <2> QED
    BY <1>2, <2>1, MessageOK, NamedOK
<1>4. PtrOK(r)
  <2>1. len \in Nat /\ now \in Nat
    BY ServerAssumption DEF ServerTypeOK
  <2> HIDE DEF q
  <2> QED
    BY <1>3, <2>1, lease_set_expiresOK
<1>5. Granted(d, m, config, mine, clid, len) = lease_set_interface(r)
  BY DEF Granted, NamedFor
<1> HIDE DEF r
<1> QED
  BY <1>4, <1>5, lease_set_interfaceOK DEF PtrOK

\* DHCPREQUEST keeps the invariant.
LEMMA DHCPREQUESTOK ==
    ASSUME ServerInv, NEW m \in RequestMsg, DHCPREQUEST(m)
    PROVE  ServerInv'
<1>1. PICK lease \in lease_find_by_client(Pruned, m.chaddr, m.clid) :
          LET config == ConfigOf(m, lease)
              clid == IF config.noclid THEN NoId ELSE ClidOf(m, lease)
              mine == IF Squashes(m, lease) THEN NULL ELSE lease
              d == IF Squashes(m, lease) THEN lease_prune(Pruned, {lease}, now) ELSE Pruned
              wrong == WrongClient(m, lease) \/ WrongAddress(d, m, config, mine)
          IN  IF Ignored(m, lease) THEN Finish(Pruned, memo, {})
              ELSE \/ Muted /\ Finish(d, memo, {})
                   \/ wrong /\ Finish(d, memo, Answer(m, "nak", NoAddr, NakId(m, lease)))
                   \/ ~wrong /\ TableFull(d, m, mine) /\ NullDereference(d)
                   \/ /\ ~wrong /\ ~TableFull(d, m, mine)
                      /\ \E len \in LeaseTimes :
                            Finish(Granted(d, m, config, mine, clid, len).d, memo,
                                   Answer(m, "ack", Wanted(m),
                                          server_id(narrow_context(SelectedChain(m), Wanted(m)))))
  BY DEF DHCPREQUEST
<1> DEFINE config == ConfigOf(m, lease)
           clid == IF config.noclid THEN NoId ELSE ClidOf(m, lease)
           mine == IF Squashes(m, lease) THEN NULL ELSE lease
           d == IF Squashes(m, lease) THEN lease_prune(Pruned, {lease}, now) ELSE Pruned
           none == {}
           nak == Answer(m, "nak", NoAddr, NakId(m, lease))
           ack == Answer(m, "ack", Wanted(m), server_id(narrow_context(SelectedChain(m), Wanted(m))))
<1>2. \/ Finish(Pruned, memo, none)
      \/ Finish(d, memo, none)
      \/ Finish(d, memo, nak)
      \/ NullDereference(d)
      \/ /\ ~TableFull(d, m, mine)
         /\ \E len \in LeaseTimes : Finish(Granted(d, m, config, mine, clid, len).d, memo, ack)
  BY <1>1
<1>3. DbOK(Pruned)
  BY PrunedOK
<1>4. /\ lease # NULL => lease \in Pruned.leases
      /\ lease.clid \in AnyClientId
  BY <1>3, FoundOK
<1>5. DbOK(d)
  <2>1. now \in Nat
    BY DEF ServerTypeOK
  <2> QED
    BY <1>3, <2>1, lease_pruneOK
<1>6. mine # NULL => mine \in d.leases
  BY <1>4
<1>7. config.name \in AnyName
  BY ConfigOfOK
<1>8. clid \in AnyClientId
  BY <1>4, MessageOK DEF ClidOf, AnyClientId
<1>9. none \subseteq ReplyMsg /\ nak \subseteq ReplyMsg /\ ack \subseteq ReplyMsg
  <2>1. nak \subseteq ReplyMsg
    BY NakIdOK, AnswerOK, ReplyTypesOK
  <2>2. ack \subseteq ReplyMsg
    BY SelectedChainOK, ContextAnswerOK, ReplyTypesOK, MessageOK
  <2> QED
    BY <2>1, <2>2
<1>10. memo \in Memo
  BY DEF ServerTypeOK
<1> HIDE DEF config, clid, mine, d, none, nak, ack
<1>11. CASE NullDereference(d)
  BY <1>5, <1>11, NullDereferenceOK
<1>12. ASSUME ~TableFull(d, m, mine), NEW len \in LeaseTimes,
              Finish(Granted(d, m, config, mine, clid, len).d, memo, ack)
       PROVE  ServerInv'
  <2>1. DbOK(Granted(d, m, config, mine, clid, len).d)
    BY <1>5, <1>6, <1>7, <1>8, <1>12, GrantedOK
  <2> QED
    BY <2>1, <1>9, <1>10, <1>12, FinishOK
<1> QED
  BY <1>2, <1>3, <1>5, <1>9, <1>10, <1>11, <1>12, FinishOK

\* A handler that at most removes the client's lease, and sends nothing.
LEMMA RemovalOK ==
    ASSUME ServerInv, NEW target, NEW memo2 \in Memo,
           Finish(Pruned, memo2, {}) \/ Finish(lease_prune(Pruned, target, now), memo2, {})
    PROVE  ServerInv'
<1> DEFINE d == lease_prune(Pruned, target, now)
           none == {}
<1>1. DbOK(Pruned) /\ now \in Nat
  BY PrunedOK DEF ServerTypeOK
<1>2. DbOK(d)
  BY <1>1, lease_pruneOK
<1>3. Finish(Pruned, memo2, none) \/ Finish(d, memo2, none)
  OBVIOUS
<1>4. none \subseteq ReplyMsg
  OBVIOUS
<1> HIDE DEF d, none
<1> QED
  BY <1>1, <1>2, <1>3, <1>4, FinishOK

\* DHCPDECLINE keeps the invariant.
LEMMA DHCPDECLINEOK ==
    ASSUME ServerInv, NEW m \in RequestMsg, DHCPDECLINE(m)
    PROVE  ServerInv'
<1> DEFINE declined(config) == [memo EXCEPT !.declined[config] = now]
           moved == [memo EXCEPT !.epoch = [i \in DOMAIN Ranges |-> (@[i] + 1) % Size(Ranges[i])]]
<1>1. memo \in Memo /\ now \in Nat
  BY DEF ServerTypeOK
<1>2. \A config : declined(config) \in Memo
  BY <1>1 DEF Memo
<1>3. moved \in Memo
  <2> DEFINE epoch == [i \in DOMAIN Ranges |-> (memo.epoch[i] + 1) % Size(Ranges[i])]
  <2>1. ASSUME NEW i \in DOMAIN Ranges PROVE (memo.epoch[i] + 1) % Size(Ranges[i]) \in Nat
    <3>1. memo.epoch[i] + 1 \in Nat
      BY <1>1 DEF Memo
    <3> QED
      BY <3>1, RangeType, Modulo
  <2>2. epoch \in [DOMAIN Ranges -> Nat]
    BY <2>1
  <2>3. moved = [memo EXCEPT !.epoch = epoch]
    OBVIOUS
  <2> HIDE DEF epoch, moved
  <2> QED
    BY <1>1, <2>2, <2>3 DEF Memo
<1>4. PICK lease : \E memo2 \in Memo :
         Finish(Pruned, memo2, {}) \/ Finish(lease_prune(Pruned, {lease}, now), memo2, {})
  <2>1. PICK lease \in lease_find_by_client(Pruned, m.chaddr, m.clid) :
           LET config == ConfigOf(m, lease)
               d == IF lease.addr = m.reqip THEN lease_prune(Pruned, {lease}, now) ELSE Pruned
           IN  IF m.sid # server_id(Ranges) \/ m.reqip = NoAddr THEN Finish(Pruned, memo, {})
               ELSE IF config.addr = m.reqip THEN Finish(d, declined(config), {})
               ELSE Finish(d, moved, {})
    BY DEF DHCPDECLINE
  <2>2. \/ Finish(Pruned, memo, {})
        \/ Finish(Pruned, declined(ConfigOf(m, lease)), {})
        \/ Finish(lease_prune(Pruned, {lease}, now), declined(ConfigOf(m, lease)), {})
        \/ Finish(Pruned, moved, {})
        \/ Finish(lease_prune(Pruned, {lease}, now), moved, {})
    BY <2>1
  <2> HIDE DEF declined, moved
  <2> QED
    BY <1>1, <1>2, <1>3, <2>2
<1> QED
  BY <1>4, RemovalOK

\* DHCPRELEASE keeps the invariant.
LEMMA DHCPRELEASEOK ==
    ASSUME ServerInv, NEW m \in RequestMsg, DHCPRELEASE(m)
    PROVE  ServerInv'
<1>1. memo \in Memo
  BY DEF ServerTypeOK
<1>2. PICK lease :
         Finish(Pruned, memo, {}) \/ Finish(lease_prune(Pruned, {lease}, now), memo, {})
  BY DEF DHCPRELEASE
<1> QED
  BY <1>1, <1>2, RemovalOK

\* DHCPINFORM keeps the invariant.
LEMMA DHCPINFORMOK ==
    ASSUME ServerInv, NEW m \in RequestMsg, DHCPINFORM(m)
    PROVE  ServerInv'
<1> DEFINE none == {}
           ack == Answer(m, "ack", NoAddr, server_id(narrow_context(Ranges, Ciaddr(m))))
<1>1. PICK found \in lease_find_by_client(Pruned, m.chaddr, m.clid) :
         \E lease \in IF found # NULL THEN {found}
                      ELSE OrNull(lease_find_by_addr(Pruned, Ciaddr(m))) :
            \/ Finish(Pruned, memo, none)
            \/ lease = NULL /\ Finish(Pruned, memo, ack)
            \/ lease # NULL /\ Finish(lease_set_interface(At(Pruned, lease)).d, memo, ack)
  BY DEF DHCPINFORM
<1>2. PICK lease \in IF found # NULL THEN {found}
                     ELSE OrNull(lease_find_by_addr(Pruned, Ciaddr(m))) :
         \/ Finish(Pruned, memo, none)
         \/ Finish(Pruned, memo, ack)
         \/ lease # NULL /\ Finish(lease_set_interface(At(Pruned, lease)).d, memo, ack)
  BY <1>1
<1>3. DbOK(Pruned) /\ memo \in Memo
  BY PrunedOK DEF ServerTypeOK
<1>4. lease # NULL => lease \in Pruned.leases
  BY <1>3, FoundOK DEF OrNull, lease_find_by_addr
<1>5. none \subseteq ReplyMsg /\ ack \subseteq ReplyMsg
  BY ContextAnswerOK, ReplyTypesOK, RangesType
<1>6. ASSUME lease # NULL PROVE DbOK(lease_set_interface(At(Pruned, lease)).d)
  <2>1. PtrOK(At(Pruned, lease))
    BY <1>3, <1>4, <1>6, AtOK
  <2> QED
    BY <2>1, lease_set_interfaceOK DEF PtrOK
<1> HIDE DEF none, ack
<1> QED
  BY <1>2, <1>3, <1>5, <1>6, FinishOK

\* A BOOTP client gets a lease it has, or one for an address that has none.
LEMMA BootpGrantOK ==
    ASSUME ServerInv, NEW m \in RequestMsg, NEW d, DbOK(d), NEW name \in AnyName,
           NEW a \in AnyAddr, NEW lease, NEW time \in Nat,
           lease # NULL => lease \in d.leases,
           lease = NULL => ~Leased(d, a) /\ d.leases_left # 0
    PROVE  LET p == IF lease = NULL THEN lease4_allocate(d, a) ELSE At(d, lease)
               q == Named(lease_set_hwaddr(p, m.chaddr, NoId), name, TRUE)
           IN  DbOK(lease_set_interface(lease_set_expires(q, time, now)).d)
<1> DEFINE p == IF lease = NULL THEN lease4_allocate(d, a) ELSE At(d, lease)
           h == lease_set_hwaddr(p, m.chaddr, NoId)
           yes == TRUE
           q == Named(h, name, yes)
           r == lease_set_expires(q, time, now)
<1>1. PtrOK(p)
  <2>1. CASE lease = NULL
    BY <2>1, lease4_allocateOK
  <2>2. CASE lease # NULL
    BY <2>2, AtOK
  <2> QED
    BY <2>1, <2>2
<1>2. PtrOK(h)
  <2>1. m.chaddr \in Hosts /\ NoId \in AnyClientId
    BY MessageOK DEF AnyClientId
  <2> HIDE DEF p
  <2> QED
    BY <1>1, <2>1, lease_set_hwaddrOK
<1>3. PtrOK(q)
  <2>1. yes \in BOOLEAN
    OBVIOUS
  <2> HIDE DEF h, yes
  <2> QED
    BY <1>2, <2>1, NamedOK
<1>4. PtrOK(r)
  <2>1. now \in Nat
    BY DEF ServerTypeOK
  <2> HIDE DEF q
  <2> QED
    BY <1>3, <2>1, lease_set_expiresOK
<1>5. DbOK(lease_set_interface(r).d)
  <2> HIDE DEF r
  <2> QED
    BY <1>4, lease_set_interfaceOK DEF PtrOK
<1> QED
  BY <1>5

\* BOOTP keeps the invariant.
LEMMA BOOTPOK ==
    ASSUME ServerInv, NEW m \in RequestMsg, NEW answering, BOOTP(m, answering)
    PROVE  ServerInv'
<1> DEFINE config == find_config(OnLink, NoId, m.chaddr)
           nailed == config.addr # NoAddr
           none == {}
           given(d, lease, a) ==
             LET p == IF lease = NULL THEN lease4_allocate(d, a) ELSE At(d, lease)
                 q == Named(lease_set_hwaddr(p, m.chaddr, NoId), config.name, TRUE)
             IN  lease_set_interface(lease_set_expires(q, config.time, now)).d
           reply(a) == Answer(m, "bootp", a, NoAddr)
           grant(d, memo2, lease, a) ==
             \/ Finish(d, memo2, none)
             \/ lease = NULL /\ d.leases_left = 0 /\ NullDereference(d)
             \/ ~(lease = NULL /\ d.leases_left = 0) /\ Finish(given(d, lease, a), memo2, reply(a))
           fresh(lease) == IF lease = NULL THEN Pruned ELSE lease_prune(Pruned, {lease}, now)
           found(lease) == address_allocate(fresh(lease), memo, m.chaddr, answering)
<1>1. DbOK(Pruned) /\ memo \in Memo /\ now \in Nat /\ m.chaddr \in Hosts
  BY PrunedOK, MessageOK DEF ServerTypeOK
<1>2. config.addr \in AnyAddr /\ config.name \in AnyName /\ config.time \in Nat
  <2>1. OnLink \in SUBSET dhcp_conf /\ dhcp_conf \in Configurations
    BY DEF OnLink, ServerTypeOK
  <2> QED
    BY <2>1, find_configOK
<1>3. none \subseteq ReplyMsg /\ \A a \in AnyAddr : reply(a) \subseteq ReplyMsg
  BY AnswerOK, ReplyTypesOK
<1>4. ASSUME NEW d, DbOK(d), NEW memo2 \in Memo, NEW a \in AnyAddr, NEW lease,
             lease # NULL => lease \in d.leases, lease = NULL => ~Leased(d, a),
             grant(d, memo2, lease, a)
      PROVE  ServerInv'
  <2>1. CASE Finish(d, memo2, none)
    <3> HIDE DEF none
    <3> QED
      BY <1>3, <1>4, <2>1, FinishOK
  <2>2. CASE NullDereference(d)
    BY <1>4, <2>2, NullDereferenceOK
  <2>3. CASE ~(lease = NULL /\ d.leases_left = 0) /\ Finish(given(d, lease, a), memo2, reply(a))
    <3>1. DbOK(given(d, lease, a))
      <4> HIDE DEF config
      <4> QED
        BY <1>2, <1>4, <2>3, BootpGrantOK
    <3> HIDE DEF given, reply
    <3> QED
      BY <1>3, <1>4, <2>3, <3>1, FinishOK
  <2> HIDE DEF given, reply, none
  <2> QED
    BY <1>4, <2>1, <2>2, <2>3
<1>5. ASSUME Finish(Pruned, memo, none) PROVE ServerInv'
  <2> HIDE DEF none
  <2> QED
    BY <1>1, <1>3, <1>5, FinishOK
<1>6. ASSUME nailed,
             \E lease \in OrNull(lease_find_by_addr(Pruned, config.addr)) :
                grant(Pruned, memo, lease, config.addr)
      PROVE  ServerInv'
  <2>1. PICK lease \in OrNull(lease_find_by_addr(Pruned, config.addr)) :
           grant(Pruned, memo, lease, config.addr)
    BY <1>6
  <2>2. lease # NULL => lease \in Pruned.leases
    BY DEF OrNull, lease_find_by_addr
  <2>3. lease = NULL => ~Leased(Pruned, config.addr)
    <3>1. NoAddr # config.addr /\ NULL.addr = NoAddr
      BY <1>6 DEF NULL, FreshLease
    <3> QED
      BY <3>1 DEF OrNull, lease_find_by_addr, Leased
  <2> HIDE DEF grant, config
  <2> QED
    BY <1>1, <1>2, <1>4, <2>1, <2>2, <2>3
<1>7. ASSUME NEW lease \in lease_find_by_client(Pruned, m.chaddr, NoId),
             \/ lease # NULL /\ grant(Pruned, memo, lease, lease.addr)
             \/ found(lease).addr = NoAddr /\ Finish(fresh(lease), found(lease).memo, none)
             \/ /\ found(lease).addr # NoAddr
                /\ grant(fresh(lease), found(lease).memo, NULL, found(lease).addr)
      PROVE  ServerInv'
  <2>1. lease # NULL => lease \in Pruned.leases
    BY <1>1, <1>7, FoundOK
  <2>2. lease.addr \in AnyAddr
    BY <1>1, <1>7, FoundOK
  <2>3. DbOK(fresh(lease))
    BY <1>1, lease_pruneOK
  <2>4. /\ found(lease).addr \in AnyAddr /\ found(lease).memo \in Memo
        /\ found(lease).addr # NoAddr => ~Leased(fresh(lease), found(lease).addr)
    <3> HIDE DEF fresh
    <3> QED
      BY <1>1, <2>3, AllocatedIsFree DEF Unused
  <2> HIDE DEF grant, fresh, found, none
  <2>5. CASE lease # NULL /\ grant(Pruned, memo, lease, lease.addr)
    BY <1>1, <1>4, <2>1, <2>2, <2>5
  <2>6. CASE Finish(fresh(lease), found(lease).memo, none)
    BY <1>3, <2>3, <2>4, <2>6, FinishOK
  <2>7. CASE /\ found(lease).addr # NoAddr
             /\ grant(fresh(lease), found(lease).memo, NULL, found(lease).addr)
    BY <1>4, <2>3, <2>4, <2>7
  <2> QED
    BY <1>7, <2>5, <2>6, <2>7
<1>8. \/ Finish(Pruned, memo, none)
      \/ /\ nailed
         /\ \E lease \in OrNull(lease_find_by_addr(Pruned, config.addr)) :
               grant(Pruned, memo, lease, config.addr)
      \/ \E lease \in lease_find_by_client(Pruned, m.chaddr, NoId) :
            \/ lease # NULL /\ grant(Pruned, memo, lease, lease.addr)
            \/ found(lease).addr = NoAddr /\ Finish(fresh(lease), found(lease).memo, none)
            \/ /\ found(lease).addr # NoAddr
               /\ grant(fresh(lease), found(lease).memo, NULL, found(lease).addr)
  BY DEF BOOTP
<1> HIDE DEF grant, fresh, found, none, nailed, config
<1> QED
  BY <1>5, <1>6, <1>7, <1>8

\* Every datagram keeps the invariant.
LEMMA DhcpPacketOK ==
    ASSUME ServerInv, NEW m \in RequestMsg, NEW answering, DhcpPacket(m, answering)
    PROVE  ServerInv'
<1>1. CASE DHCPDISCOVER(m, answering)
  BY <1>1, DHCPDISCOVEROK
<1>2. CASE DHCPREQUEST(m)
  BY <1>2, DHCPREQUESTOK
<1>3. CASE DHCPDECLINE(m)
  BY <1>3, DHCPDECLINEOK
<1>4. CASE DHCPRELEASE(m)
  BY <1>4, DHCPRELEASEOK
<1>5. CASE DHCPINFORM(m)
  BY <1>5, DHCPINFORMOK
<1>6. CASE BOOTP(m, answering)
  BY <1>6, BOOTPOK
<1> QED
  BY <1>1, <1>2, <1>3, <1>4, <1>5, <1>6 DEF DhcpPacket

(***************************************************************************)
(* The other events.                                                       *)
(***************************************************************************)

\* lease_update_from_configs changes names and flags only.
LEMMA lease_update_from_configsOK ==
    ASSUME NEW conf \in Configurations, NEW d, DbOK(d), NEW pos
    PROVE  DbOK(lease_update_from_configs(conf, d, pos))
<1> DEFINE claims(n) == {k \in d.leases : n # NoName /\ ConfiguredName(conf, k) = n}
           first(l) == \A k \in claims(ConfiguredName(conf, l)) : pos[l] <= pos[k]
           last(l) == \A k \in claims(ConfiguredName(conf, l)) : pos[k] <= pos[l]
           keeps(l) == ConfiguredName(conf, l) = l.name /\ first(l)
           name2(l) == IF last(l) THEN ConfiguredName(conf, l) ELSE NoName
           oldname2(l) == IF ~last(l) THEN ConfiguredName(conf, l)
                          ELSE IF l.name = NoName \/ keeps(l) THEN l.oldname ELSE l.name
           flags2(l) == l.flags \cup {"AUTH_NAME"} \cup (IF keeps(l) THEN {} ELSE {"CHANGED"})
           claimed(l) == [l EXCEPT !.name = name2(l), !.oldname = oldname2(l), !.flags = flags2(l)]
           after(l) == IF ConfiguredName(conf, l) # NoName THEN claimed(l)
                       ELSE IF claims(l.name) # {} THEN kill_name(l)
                       ELSE l
           renamed == \E l \in d.leases : ConfiguredName(conf, l) # NoName /\ ~keeps(l)
           f == [l \in d.leases |-> after(l)]
           T == {after(l) : l \in d.leases}
           e == lease_update_from_configs(conf, d, pos)
<1>1. d \in Database /\ d.leases \subseteq Lease
  BY DEF DbOK, Database
<1>2. ASSUME NEW l \in Lease PROVE ConfiguredName(conf, l) \in AnyName
  <2>1. conf \in SUBSET conf
    OBVIOUS
  <2> QED
    BY <2>1, find_configOK DEF ConfiguredName, AnyName
<1>3. ASSUME NEW l \in Lease PROVE after(l) \in Lease /\ after(l).addr = l.addr
  <2>1. claimed(l) \in Lease /\ claimed(l).addr = l.addr
    <3>1. name2(l) \in AnyName /\ oldname2(l) \in AnyName
      <4> HIDE DEF first, last, keeps
      <4> QED
        BY <1>2 DEF AnyName, Lease
    <3>2. flags2(l) \in SUBSET {"NEW", "CHANGED", "AUTH_NAME"}
      <4> HIDE DEF keeps
      <4> QED
        BY DEF Lease
    <3> HIDE DEF name2, oldname2, flags2
    <3> QED
      BY <3>1, <3>2 DEF Lease
  <2> HIDE DEF claimed, claims
  <2> QED
    BY <2>1, kill_nameOK
<1>4. f \in [d.leases -> Lease] /\ \A l \in d.leases : f[l].addr = l.addr
  <2> HIDE DEF after
  <2> QED
    BY <1>1, <1>3
<1>5. T \in SUBSET Lease /\ T = {f[l] : l \in d.leases}
  <2> HIDE DEF after
  <2> QED
    BY <1>1, <1>3
<1>6. e = [d EXCEPT !.leases = T, !.file_dirty = @ \/ renamed, !.dns_dirty = @ \/ renamed]
  BY DEF lease_update_from_configs
<1>7. e \in Database /\ e.leases = {f[l] : l \in d.leases} /\ e.leases_left = d.leases_left
  <2> HIDE DEF T, f, renamed, e
  <2> QED
    BY <1>1, <1>5, <1>6 DEF Database
<1> HIDE DEF f, e
<1> QED
  BY <1>4, <1>7, ChangedDb DEF e

\* A reload of a consistent table keeps the invariant.
LEMMA ReloadOfOK ==
    ASSUME ServerInv, NEW conf \in Configurations, NEW d, DbOK(d), NEW armed \in Nat,
           NEW memo2 \in Memo, ReloadOf(conf, d, armed, memo2)
    PROVE  ServerInv'
<1> DEFINE none == {}
           reload == "reload"
<1>1. PICK pos : Save(lease_update_from_configs(conf, d, pos), armed, reload, memo2, none)
  BY DEF ReloadOf
<1>2. none \subseteq ReplyMsg /\ dhcp_conf' \in Configurations
  BY DEF ReloadOf
<1> HIDE DEF none, reload
<1> QED
  BY <1>1, <1>2, lease_update_from_configsOK, SaveOK

\* The reload event keeps the invariant.
LEMMA ReloadOK ==
    ASSUME ServerInv, Reload
    PROVE  ServerInv'
<1> DEFINE memo2 == [memo EXCEPT !.declined = Reread(@)]
<1>1. PICK conf \in Configurations : ReloadOf(conf, db, alarm, memo2)
  BY DEF Reload
<1>2. memo2 \in Memo
  BY DEF ServerTypeOK, Memo, Reread
<1> HIDE DEF memo2
<1> QED
  BY <1>1, <1>2, ReloadOfOK DEF ServerTypeOK

\* A restart from any file a crash may have left keeps the invariant.
LEMMA RestartOK ==
    ASSUME ServerInv, Restart
    PROVE  ServerInv'
<1> DEFINE d == lease_init(file, now)
           off == 0
<1>1. DbOK(d) /\ off \in Nat /\ memo \in Memo
  BY lease_initOK DEF ServerTypeOK
<1>2. PICK conf \in Configurations : ReloadOf(conf, d, off, memo)
  BY DEF Restart
<1> HIDE DEF d, off
<1> QED
  BY <1>1, <1>2, ReloadOfOK

\* The alarm keeps the invariant.
LEMMA AlarmEventOK ==
    ASSUME ServerInv, AlarmEvent
    PROVE  ServerInv'
<1> DEFINE none == {}
           off == 0
           mode == "none"
<1>1. /\ DbOK(Pruned) /\ memo \in Memo /\ none \subseteq ReplyMsg /\ off \in Nat
      /\ dhcp_conf' \in Configurations
  BY PrunedOK DEF AlarmEvent, ServerTypeOK
<1>2. Save(Pruned, off, mode, memo, none)
  BY DEF AlarmEvent
<1> HIDE DEF none, off, mode
<1> QED
  BY <1>1, <1>2, SaveOK

\* A change of one lease that keeps its address.
LEMMA OneLeaseChanged ==
    ASSUME NEW d, DbOK(d), NEW l \in d.leases, NEW l2 \in Lease, l2.addr = l.addr
    PROVE  DbOK([d EXCEPT !.leases = (@ \ {l}) \cup {l2}])
<1>1. PtrOK(At(d, l)) /\ At(d, l).l = l /\ At(d, l).d = d
  BY AtOK DEF At
<1>2. DbOK(Put(At(d, l), l2).d)
  BY <1>1, PutOK DEF PtrOK
<1>3. Put(At(d, l), l2).d = [d EXCEPT !.leases = (@ \ {l}) \cup {l2}]
  BY <1>1 DEF Put, At
<1> QED
  BY <1>2, <1>3

\* Queueing news for the script keeps the invariant.
LEMMA DoScriptRunOK ==
    ASSUME ServerInv, DoScriptRun
    PROVE  ServerInv'
<1> DEFINE silent(l) == [l EXCEPT !.oldname = NoName]
           known(l) == [l EXCEPT !.flags = @ \ {"NEW", "CHANGED"}]
           head == db.old_leases[1]
           event(action, l, name) == [action |-> action, addr |-> l.addr, name |-> name]
           said(action, l, name) == script' = [script EXCEPT !.buf = {event(action, l, name)}]
           first == [db EXCEPT !.old_leases[1] = silent(head)]
           rest == [db EXCEPT !.old_leases = Tail(@)]
           changed(l, l2) == [db EXCEPT !.leases = (@ \ {l}) \cup {l2}]
<1>1. /\ UNCHANGED <<wire, dhcp_conf, file, alarm, dns, memo, now, up, faults>>
      /\ \/ /\ db.old_leases # <<>>
            /\ \/ said("old_hostname", head, head.oldname) /\ db' = first
               \/ said("del", head, head.name) /\ db' = rest
         \/ \E l \in db.leases :
               \/ said("old_hostname", l, l.oldname) /\ db' = changed(l, silent(l))
               \/ /\ said("add", l, l.name) \/ said("old", l, l.name)
                  /\ db' = changed(l, known(l))
  BY DEF DoScriptRun
<1>2. \A l \in Lease : /\ silent(l) \in Lease /\ silent(l).addr = l.addr
                       /\ known(l) \in Lease /\ known(l).addr = l.addr
  BY DEF Lease, AnyName
<1>3. db \in Database /\ script \in Script /\ db.leases \subseteq Lease
  BY DEF ServerTypeOK, Database
<1>4. ASSUME NEW action \in {"add", "old", "del", "old_hostname"}, NEW l \in Lease,
             NEW name \in AnyName, said(action, l, name)
      PROVE  script' \in Script
  <2>1. event(action, l, name) \in Event
    BY <1>4 DEF Event, Lease
  <2> HIDE DEF event
  <2> QED
    BY <1>3, <1>4, <2>1 DEF Script
<1>5. \A l \in Lease : l.name \in AnyName /\ l.oldname \in AnyName
  BY DEF Lease
<1>6. ASSUME db.old_leases # <<>>
      PROVE  head \in Lease /\ DbOK(first) /\ DbOK(rest)
  <2>1. db.old_leases \in Seq(Lease) /\ head \in Lease
    BY <1>3, <1>6 DEF Database
  <2>2. [db.old_leases EXCEPT ![1] = silent(head)] \in Seq(Lease) /\ Tail(db.old_leases) \in Seq(Lease)
    <3>1. silent(head) \in Lease
      BY <1>2, <2>1
    <3> HIDE DEF silent, head
    <3> QED
      BY <1>6, <2>1, <3>1
  <2>3. first \in Database /\ rest \in Database
    <3> DEFINE s == [db.old_leases EXCEPT ![1] = silent(head)]
               t == Tail(db.old_leases)
    <3>1. first = [db EXCEPT !.old_leases = s] /\ rest = [db EXCEPT !.old_leases = t]
      OBVIOUS
    <3> HIDE DEF s, t, first, rest
    <3> QED
      BY <1>3, <2>2, <3>1 DEF Database, s, t
  <2>4. /\ first.leases = db.leases /\ first.leases_left = db.leases_left
        /\ rest.leases = db.leases /\ rest.leases_left = db.leases_left
    BY <1>3 DEF Database
  <2> HIDE DEF first, rest
  <2> QED
    BY <2>1, <2>3, <2>4, SameLeases
<1>7. ASSUME NEW l \in db.leases
      PROVE  l \in Lease /\ DbOK(changed(l, silent(l))) /\ DbOK(changed(l, known(l)))
  <2> HIDE DEF silent, known
  <2> QED
    BY <1>2, <1>3, OneLeaseChanged
<1>8. DbOK(db') /\ script' \in Script
  <2>1. CASE db.old_leases # <<>> /\ said("old_hostname", head, head.oldname) /\ db' = first
    <3> HIDE DEF first, said, head
    <3> QED
      BY <2>1, <1>4, <1>5, <1>6
  <2>2. CASE db.old_leases # <<>> /\ said("del", head, head.name) /\ db' = rest
    <3> HIDE DEF rest, said, head
    <3> QED
      BY <2>2, <1>4, <1>5, <1>6
  <2>3. CASE \E l \in db.leases : said("old_hostname", l, l.oldname) /\ db' = changed(l, silent(l))
    <3> HIDE DEF said, changed, silent
    <3> QED
      BY <2>3, <1>4, <1>5, <1>7
  <2>4. CASE \E l \in db.leases : /\ said("add", l, l.name) \/ said("old", l, l.name)
                                  /\ db' = changed(l, known(l))
    <3> HIDE DEF said, changed, known
    <3> QED
      BY <2>4, <1>4, <1>5, <1>7
  <2> HIDE DEF said, changed, known, silent, first, rest, head
  <2> QED
    BY <1>1, <2>1, <2>2, <2>3, <2>4
<1>9. /\ file' = file /\ alarm' = alarm /\ dns' = dns /\ memo' = memo /\ now' = now /\ up' = up
      /\ faults' = faults /\ wire' = wire /\ dhcp_conf' = dhcp_conf
  BY <1>1
<1> QED
  BY <1>8, <1>9 DEF ServerTypeOK, DbOK

\* Writing the helper's buffer keeps the invariant.
LEMMA HelperWriteOK ==
    ASSUME ServerInv, HelperWrite
    PROVE  ServerInv'
<1>1. PICK e \in script.buf :
         /\ \/ script' = [ buf |-> {}, told |-> [script.told EXCEPT ![e.addr] = Heard(e)],
                           missed |-> script.missed \ {e.addr} ]
            \/ script' = [script EXCEPT !.buf = {}, !.missed = @ \cup {e.addr}]
         /\ faults' = faults \/ faults' = faults + 1
  BY DEF HelperWrite
<1>2. script \in Script /\ e \in Event
  BY DEF ServerTypeOK, Script
<1>3. Heard(e) \in Word /\ e.addr \in AnyAddr
  BY <1>2 DEF Heard, Word, Unheard, Event, AnyName
<1>4. script' \in Script
  <2> DEFINE told == [script.told EXCEPT ![e.addr] = Heard(e)]
             heard == [buf |-> {}, told |-> told, missed |-> script.missed \ {e.addr}]
             dropped == [script EXCEPT !.buf = {}, !.missed = @ \cup {e.addr}]
  <2>1. told \in [Addrs -> Word]
    BY <1>2, <1>3 DEF Script
  <2>2. heard \in Script
    <3> HIDE DEF told
    <3> QED
      BY <1>2, <2>1 DEF Script
  <2>3. dropped \in Script
    BY <1>2, <1>3 DEF Script
  <2> QED
    BY <1>1, <2>2, <2>3
<1>5. /\ db' = db /\ file' = file /\ alarm' = alarm /\ dns' = dns /\ memo' = memo /\ now' = now
      /\ up' = up /\ wire' = wire /\ dhcp_conf' = dhcp_conf
  BY DEF HelperWrite
<1> QED
  BY <1>1, <1>4, <1>5 DEF ServerTypeOK

\* A crash between two events keeps the invariant.
LEMMA CrashOK ==
    ASSUME ServerInv, Crash
    PROVE  ServerInv'
  BY DiesOK DEF Crash, ServerTypeOK

\* SIGTERM keeps the invariant.
LEMMA TerminateOK ==
    ASSUME ServerInv, Terminate
    PROVE  ServerInv'
<1> DEFINE pending == {e.addr : e \in script.buf}
                      \cup {db.old_leases[i].addr : i \in DOMAIN db.old_leases}
                      \cup {l.addr : l \in {k \in db.leases :
                                k.oldname # NoName \/ k.flags \cap {"NEW", "CHANGED"} # {}}}
           unsaved == {l.addr : l \in {k \in db.leases : Entry(k) \notin file}}
           final(a) == IF ~Leased(db, a) THEN Unheard
                       ELSE [present |-> TRUE, name |-> (CHOOSE l \in db.leases : l.addr = a).name]
           told == [a \in Addrs |-> IF a \in pending THEN final(a) ELSE script.told[a]]
<1>1. /\ up' = FALSE /\ db' = EmptyDb /\ alarm' = 0 /\ dns' = {} /\ memo' = EmptyMemo
      /\ faults' = faults + 1 /\ wire' = wire /\ file' = file /\ now' = now
      /\ dhcp_conf' = dhcp_conf
      /\ \/ script' = script
         \/ script' = [buf |-> {}, told |-> told, missed |-> (script.missed \ pending) \cup unsaved]
  BY DEF Terminate
<1>2. script \in Script
  BY DEF ServerTypeOK
<1>3. \A a \in Addrs : final(a) \in Word
  BY DEF Leased, Word, Unheard, AnyName, DbOK, Database, Lease
<1>4. told \in [Addrs -> Word]
  <2> HIDE DEF final, pending
  <2> QED
    BY <1>2, <1>3 DEF Script
<1>5. script' \in Script
  <2>1. unsaved \subseteq AnyAddr
    BY DEF DbOK, Database, Lease
  <2> HIDE DEF told, pending, unsaved
  <2> QED
    BY <1>1, <1>2, <1>4, <2>1 DEF Script
<1> HIDE DEF told
<1>6. faults' \in Nat
  BY <1>1 DEF ServerTypeOK
<1> QED
  BY <1>1, <1>5, <1>6, EmptyDbOK, EmptyMemoOK DEF ServerTypeOK, DbOK

\* The passing of time keeps the invariant.
LEMMA TickOK ==
    ASSUME ServerInv, Tick
    PROVE  ServerInv'
<1>1. now' \in Nat \ {0}
  BY DEF Tick, ServerTypeOK
<1>2. memo' \in Memo
  BY DEF Tick, ServerTypeOK, Memo
<1>3. /\ db' = db /\ file' = file /\ alarm' = alarm /\ dns' = dns /\ up' = up
      /\ script' = script /\ faults' = faults /\ wire' = {} /\ dhcp_conf' = dhcp_conf
  BY DEF Tick
<1> QED
  BY <1>1, <1>2, <1>3 DEF ServerTypeOK

\* Every event that is no datagram keeps the invariant.
LEMMA ServerNextOK ==
    ASSUME ServerInv, ServerNext
    PROVE  ServerInv'
  BY AlarmEventOK, ReloadOK, RestartOK, DoScriptRunOK, HelperWriteOK, CrashOK, TerminateOK, TickOK
  DEF ServerNext

(***************************************************************************)
(* The invariant and the theorems.                                         *)
(***************************************************************************)

\* The invariant holds initially.
LEMMA InitOK == Init => IInv
<1> SUFFICES ASSUME Init PROVE IInv
  OBVIOUS
<1> DEFINE told == [a \in Addrs |-> Unheard]
<1>1. script \in Script
  <2>1. told \in [Addrs -> Word]
    BY DEF Unheard, Word, AnyName
  <2>2. script = [buf |-> {}, told |-> told, missed |-> {}]
    BY DEF Init, ServerInit
  <2> HIDE DEF told
  <2> QED
    BY <2>1, <2>2 DEF Script
<1>2. /\ db = EmptyDb /\ file = {} /\ alarm = 0 /\ dns = {} /\ memo = EmptyMemo
      /\ now = 1 /\ up = TRUE /\ faults = 0 /\ wire = {} /\ asked = {}
      /\ dhcp_conf \in Configurations
  BY DEF Init, ServerInit
<1>3. ServerTypeOK
  BY <1>1, <1>2, EmptyDbOK, EmptyMemoOK DEF ServerTypeOK, DbOK, FileOK
<1> QED
  BY <1>2, <1>3, EmptyDbOK DEF IInv

\* Every step keeps the invariant.
LEMMA NextOK == IInv /\ [Next]_vars => IInv'
<1> SUFFICES ASSUME IInv, [Next]_vars PROVE IInv'
  OBVIOUS
<1> USE DEF IInv
<1>1. ASSUME NEW m \in ClientMsgs, Receive(m)
      PROVE  IInv'
  <2>1. m \in RequestMsg /\ asked' = {m}
    BY <1>1, AloneAssumption DEF Receive
  <2>2. PICK answering : DhcpPacket(m, answering)
    BY <1>1 DEF Receive
  <2> QED
    BY <2>1, <2>2, DhcpPacketOK
<1>2. CASE Deliver
  <2>1. /\ asked' = {} /\ wire' = {} /\ db' = db /\ file' = file /\ alarm' = alarm /\ dns' = dns
        /\ memo' = memo /\ now' = now /\ up' = up /\ script' = script /\ faults' = faults
        /\ dhcp_conf' = dhcp_conf
    BY <1>2 DEF Deliver, server
  <2> QED
    BY <2>1 DEF ServerTypeOK
<1>3. CASE Other(ServerNext)
  BY <1>3, ServerNextOK DEF Other
<1>4. CASE UNCHANGED vars
  <2>1. /\ asked' = asked /\ wire' = wire /\ db' = db /\ file' = file /\ alarm' = alarm /\ dns' = dns
        /\ memo' = memo /\ now' = now /\ up' = up /\ script' = script /\ faults' = faults
        /\ dhcp_conf' = dhcp_conf
    BY <1>4 DEF vars, server
  <2> QED
    BY <2>1 DEF ServerTypeOK
<1> QED
  BY <1>1, <1>2, <1>3, <1>4 DEF Next

\* The inductive invariant holds in every reachable state of the server: the table
\* in memory is consistent, and the lease file can be read back into one.
THEOREM Invariance == Spec => []IInv
  BY InitOK, NextOK, PTL DEF Spec

\* The server's state is typed, whatever datagrams come, crashes happen and
\* writes fail (lease.c, rfc2131.c, dhcp.c).
THEOREM TypeCorrect == Spec => []TypeOK
<1>1. IInv => TypeOK
  BY DEF IInv, TypeOK
<1> QED
  BY <1>1, Invariance, PTL

\* No address is ever on two leases (lease4_allocate is only reached for an
\* address that lease_find_by_addr does not find, and no lease file that is
\* read back names an address twice).
THEOREM AddressesAreUnique == Spec => []AddressHasOneLease
<1>1. IInv => AddressHasOneLease
  BY DEF IInv, DbOK, AddressHasOneLease
<1> QED
  BY <1>1, Invariance, PTL

\* leases_left plus the leases in the table is the capacity of the table
\* (lease_prune and lease_allocate, across lease_init).
THEOREM TableStaysCounted == Spec => []TableIsCounted
<1>1. IInv => TableIsCounted
  BY DEF IInv, DbOK, TableIsCounted
<1> QED
  BY <1>1, Invariance, PTL
=============================================================================
