--------------------------- MODULE DhcpPoolProofs ---------------------------
(***************************************************************************)
(* What the functions of lease.c preserve: a lease database stays typed,   *)
(* finite, with one lease for an address and every lease counted.  And     *)
(* what the choice of an address guarantees: address_allocate finds an     *)
(* address that is not leased, or none.                                    *)
(***************************************************************************)
EXTENDS DhcpPool, FiniteSetTheorems, WellFoundedInduction, TLAPS

\* A consistent database, and a pointer into one.
DbOK(d) == d \in Database /\ IsFiniteSet(d.leases) /\ OneLeasePerAddr(d) /\ LeasesAccounted(d)

Pointer == [d : Database, l : Lease]
PtrOK(p) == p \in Pointer /\ DbOK(p.d) /\ p.l \in p.d.leases

\* A lease file that lease_init can read back.
FileOK(f) ==
    /\ f \in LeaseFile /\ IsFiniteSet(f) /\ Cardinality(f) <= MaxLeases
    /\ \A e, g \in f : e.addr = g.addr => e = g

(***************************************************************************)
(* Databases and pointers in general.                                      *)
(***************************************************************************)

\* Nothing but the leases and their number count.
LEMMA SameLeases ==
    ASSUME NEW d, DbOK(d), NEW d2 \in Database,
           d2.leases = d.leases, d2.leases_left = d.leases_left
    PROVE  DbOK(d2)
  BY DEF DbOK, OneLeasePerAddr, LeasesAccounted

\* A change of leases that leaves their addresses alone keeps what DbOK says
\* of the set of leases.
LEMMA ChangedLeases ==
    ASSUME NEW d, DbOK(d), NEW f \in [d.leases -> Lease],
           \A l \in d.leases : f[l].addr = l.addr,
           NEW T, T = {f[l] : l \in d.leases}
    PROVE  /\ T \in SUBSET Lease /\ IsFiniteSet(T)
           /\ Cardinality(T) = Cardinality(d.leases)
           /\ \A k, l \in T : k.addr = l.addr => k = l
<1>1. T \in SUBSET Lease
  OBVIOUS
<1>2. f \in Bijection(d.leases, T)
  BY DEF DbOK, OneLeasePerAddr, Bijection, Injection, Surjection, IsInjective
<1>3. IsFiniteSet(T) /\ Cardinality(T) = Cardinality(d.leases)
  BY <1>2, FS_Bijection DEF DbOK, ExistsBijection
<1>4. \A k, l \in T : k.addr = l.addr => k = l
  BY DEF DbOK, OneLeasePerAddr
<1> QED
  BY <1>1, <1>3, <1>4

\* The same for the database.
LEMMA ChangedDb ==
    ASSUME NEW d, DbOK(d), NEW f \in [d.leases -> Lease],
           \A l \in d.leases : f[l].addr = l.addr,
           NEW d2 \in Database, d2.leases = {f[l] : l \in d.leases},
           d2.leases_left = d.leases_left
    PROVE  DbOK(d2)
  BY ChangedLeases DEF DbOK, OneLeasePerAddr, LeasesAccounted

\* Changing the lease pointed at, without its address, keeps the database consistent.
LEMMA PutOK ==
    ASSUME NEW p, PtrOK(p), NEW l2 \in Lease, l2.addr = p.l.addr
    PROVE  PtrOK(Put(p, l2)) /\ Put(p, l2).l = l2
<1> DEFINE S == p.d.leases
           T == (S \ {p.l}) \cup {l2}
           f == [l \in S |-> IF l = p.l THEN l2 ELSE l]
<1>1. S \subseteq Lease /\ p.l \in S
  BY DEF PtrOK, DbOK, Database
<1>2. f \in [S -> Lease] /\ \A l \in S : f[l].addr = l.addr
  BY <1>1
<1>3. T = {f[l] : l \in S}
  BY <1>1
<1>4. /\ Put(p, l2).d \in Database /\ Put(p, l2).d.leases = T
      /\ Put(p, l2).d.leases_left = p.d.leases_left
      /\ Put(p, l2).l = l2 /\ Put(p, l2) \in Pointer
  BY <1>1 DEF Put, At, PtrOK, Pointer, Database
<1>5. DbOK(Put(p, l2).d)
  BY <1>2, <1>3, <1>4, ChangedDb DEF PtrOK
<1> QED
  BY <1>4, <1>5 DEF PtrOK

\* Setting the dirty flags keeps a pointer valid.
LEMMA DirtyOK ==
    ASSUME NEW p, PtrOK(p), NEW inFile \in BOOLEAN, NEW inDns \in BOOLEAN
    PROVE  PtrOK(Dirty(p, inFile, inDns)) /\ Dirty(p, inFile, inDns).l = p.l
<1> DEFINE q == Dirty(p, inFile, inDns)
<1>1. /\ q \in Pointer /\ q.l = p.l
      /\ q.d.leases = p.d.leases /\ q.d.leases_left = p.d.leases_left
  BY DEF Dirty, PtrOK, Pointer, Database
<1> QED
  BY <1>1, SameLeases DEF PtrOK, Pointer

\* SetToSeq makes a sequence of the elements of a finite set, of all of them.
LEMMA SetToSeqType ==
    ASSUME NEW S, IsFiniteSet(S)
    PROVE  /\ SetToSeq(S) \in Seq(S)
           /\ \A x \in S : \E i \in DOMAIN SetToSeq(S) : SetToSeq(S)[i] = x
<1>1. Cardinality(S) \in Nat /\ ExistsBijection(1 .. Cardinality(S), S)
  BY FS_CardinalityType
<1>2. PICK f \in [1 .. Cardinality(S) -> S] : IsInjective(f)
  BY <1>1 DEF ExistsBijection, Bijection, Injection, IsInjective
<1>3. SetToSeq(S) \in [1 .. Cardinality(S) -> S] /\ IsInjective(SetToSeq(S))
  BY <1>2 DEF SetToSeq
<1>4. SetToSeq(S) \in Injection(1 .. Cardinality(S), S)
  BY <1>3 DEF Injection, IsInjective
<1>5. SetToSeq(S) \in Surjection(1 .. Cardinality(S), S)
  <2>1. Cardinality(1 .. Cardinality(S)) = Cardinality(S)
    BY <1>1, FS_Interval
  <2> QED
    BY <1>4, <2>1, FS_Injection
<1> QED
  BY <1>1, <1>3, <1>5 DEF Surjection

(***************************************************************************)
(* The functions of lease.c.                                               *)
(***************************************************************************)

\* lease_find_by_client returns a lease of the table, or NULL.
LEMMA lease_find_by_clientOK ==
    ASSUME NEW d, NEW hw, NEW clid, NEW l \in lease_find_by_client(d, hw, clid), l # NULL
    PROVE  l \in d.leases
  BY DEF lease_find_by_client, OrNull

\* lease_prune keeps the count: leases_left grows by what leaves the table.
LEMMA lease_pruneOK ==
    ASSUME NEW d, DbOK(d), NEW target, NEW now \in Nat
    PROVE  /\ DbOK(lease_prune(d, target, now))
           /\ lease_prune(d, target, now).leases \subseteq d.leases
<1> DEFINE gone == {l \in d.leases : Expired(l, now) \/ l \in target}
           e == lease_prune(d, target, now)
<1>1. d \in Database /\ IsFiniteSet(d.leases)
  BY DEF DbOK
<1>2. /\ gone \subseteq d.leases /\ IsFiniteSet(gone)
      /\ Cardinality(gone) \in Nat /\ Cardinality(d.leases) \in Nat
  BY <1>1, FS_Subset, FS_CardinalityType
<1>3. /\ IsFiniteSet(d.leases \ gone)
      /\ Cardinality(d.leases \ gone) = Cardinality(d.leases) - Cardinality(gone)
  <2>1. d.leases \cap gone = gone
    BY <1>2
  <2> QED
    BY <2>1, <1>1, FS_Difference
<1>4. SetToSeq(gone) \o d.old_leases \in Seq(Lease)
  <2>1. SetToSeq(gone) \in Seq(gone)
    BY <1>2, SetToSeqType
  <2>2. gone \subseteq Lease /\ d.old_leases \in Seq(Lease)
    BY <1>1 DEF Database
  <2> QED
    BY <2>1, <2>2
<1>5. /\ e.leases = d.leases \ gone
      /\ e.leases_left = d.leases_left + Cardinality(gone)
  BY DEF lease_prune
<1>6. e \in Database
  BY <1>1, <1>2, <1>4 DEF lease_prune, Database
<1>7. LeasesAccounted(e)
  BY <1>1, <1>2, <1>3, <1>5, LeaseAssumption DEF DbOK, LeasesAccounted, Database
<1> QED
  BY <1>1, <1>3, <1>5, <1>6, <1>7 DEF DbOK, OneLeasePerAddr

\* A new lease: only for an address that is not leased, and while one is left.
LEMMA lease4_allocateOK ==
    ASSUME NEW d, DbOK(d), NEW a \in AnyAddr, ~Leased(d, a), d.leases_left # 0
    PROVE  PtrOK(lease4_allocate(d, a)) /\ lease4_allocate(d, a).l = FreshLease(a)
<1> DEFINE p == lease4_allocate(d, a)
           n == FreshLease(a)
<1>1. n \in Lease /\ n.addr = a
  BY DEF FreshLease, Lease, NoHost, NoId, NoName, AnyClientId, AnyName
<1>2. n \notin d.leases
  BY <1>1 DEF Leased
<1>3. /\ IsFiniteSet(d.leases \cup {n})
      /\ Cardinality(d.leases \cup {n}) = Cardinality(d.leases) + 1
      /\ Cardinality(d.leases) \in Nat
  BY <1>2, FS_AddElement, FS_CardinalityType DEF DbOK
<1>4. /\ p \in Pointer /\ p.l = n
      /\ p.d.leases = d.leases \cup {n} /\ p.d.leases_left = d.leases_left - 1
  <2> DEFINE e == [d EXCEPT !.leases = @ \cup {n}, !.leases_left = @ - 1, !.file_dirty = TRUE]
  <2>1. d.leases_left - 1 \in Nat
    BY DEF DbOK, Database
  <2>2. /\ e \in Database /\ e.leases = d.leases \cup {n}
        /\ e.leases_left = d.leases_left - 1
    <3> HIDE DEF n
    <3> QED
      BY <1>1, <2>1 DEF DbOK, Database
  <2>3. p = At(e, n)
    BY DEF lease4_allocate
  <2> HIDE DEF e, n, p
  <2> QED
    BY <1>1, <2>2, <2>3 DEF At, Pointer
<1>5. LeasesAccounted(p.d)
  BY <1>3, <1>4 DEF DbOK, LeasesAccounted, Database
<1>6. OneLeasePerAddr(p.d)
  BY <1>1, <1>4 DEF DbOK, OneLeasePerAddr, Leased
<1> QED
  BY <1>3, <1>4, <1>5, <1>6 DEF PtrOK, DbOK, Pointer

\* lease_set_hwaddr keeps the address of the lease and the table consistent.
LEMMA lease_set_hwaddrOK ==
    ASSUME NEW p, PtrOK(p), NEW hw \in Hosts, NEW clid \in AnyClientId
    PROVE  PtrOK(lease_set_hwaddr(p, hw, clid)) /\ lease_set_hwaddr(p, hw, clid).l.addr = p.l.addr
<1> DEFINE clid2 == IF clid = NoId THEN p.l.clid ELSE clid
           moved == p.l.hw # hw
           l2 == [ p.l EXCEPT !.hw = hw, !.clid = clid2,
                              !.flags = IF moved THEN @ \cup {"CHANGED"} ELSE @ ]
<1>1. p.l \in Lease
  BY DEF PtrOK, Pointer
<1>2. l2 \in Lease /\ l2.addr = p.l.addr
  BY <1>1 DEF Lease
<1>3. PtrOK(Put(p, l2)) /\ Put(p, l2).l = l2
  BY <1>2, PutOK
<1> DEFINE inFile == moved \/ clid2 # p.l.clid
           inDns == FALSE
<1>4. inFile \in BOOLEAN /\ inDns \in BOOLEAN
  OBVIOUS
<1>5. lease_set_hwaddr(p, hw, clid) = Dirty(Put(p, l2), inFile, inDns)
  BY DEF lease_set_hwaddr
<1> HIDE DEF l2, inFile, inDns
<1> QED
  BY <1>2, <1>3, <1>4, <1>5, DirtyOK

\* So does lease_set_expires.
LEMMA lease_set_expiresOK ==
    ASSUME NEW p, PtrOK(p), NEW len \in Nat, NEW now \in Nat
    PROVE  PtrOK(lease_set_expires(p, len, now)) /\ lease_set_expires(p, len, now).l.addr = p.l.addr
<1> DEFINE exp == IF len = 0 THEN 0 ELSE now + len
           l2 == [p.l EXCEPT !.expires = exp]
<1>1. l2 \in Lease /\ l2.addr = p.l.addr
  BY DEF PtrOK, Pointer, Lease
<1>2. PtrOK(Put(p, l2)) /\ Put(p, l2).l = l2
  BY <1>1, PutOK
<1> DEFINE dirty == exp # p.l.expires
<1>3. dirty \in BOOLEAN
  OBVIOUS
<1>4. lease_set_expires(p, len, now) = Dirty(Put(p, l2), dirty, dirty)
  BY DEF lease_set_expires
<1> HIDE DEF l2, dirty
<1> QED
  BY <1>1, <1>2, <1>3, <1>4, DirtyOK

\* So does lease_set_interface.
LEMMA lease_set_interfaceOK ==
    ASSUME NEW p, PtrOK(p)
    PROVE  PtrOK(lease_set_interface(p))
<1> DEFINE l2 == [p.l EXCEPT !.iface = TRUE, !.flags = @ \cup {"CHANGED"}]
<1>1. l2 \in Lease /\ l2.addr = p.l.addr
  BY DEF PtrOK, Pointer, Lease
<1> QED
  BY <1>1, PutOK DEF lease_set_interface

\* kill_name keeps the address of a lease.
LEMMA kill_nameOK ==
    ASSUME NEW l \in Lease
    PROVE  kill_name(l) \in Lease /\ kill_name(l).addr = l.addr
  BY DEF kill_name, Lease, AnyName
\* Taking a name from its holder keeps the table consistent.
LEMMA TakeFromOK ==
    ASSUME NEW d, DbOK(d), NEW holder, holder \subseteq d.leases
    PROVE  /\ DbOK(TakeFrom(d, holder))
           /\ \A l \in d.leases : l \notin holder => l \in TakeFrom(d, holder).leases
<1> DEFINE f == [l \in d.leases |-> IF l \in holder THEN kill_name(l) ELSE l]
           T == (d.leases \ holder) \cup {kill_name(t) : t \in holder}
           e == TakeFrom(d, holder)
<1>1. d \in Database /\ d.leases \subseteq Lease
  BY DEF DbOK, Database
<1>2. f \in [d.leases -> Lease] /\ \A l \in d.leases : f[l].addr = l.addr
  BY <1>1, kill_nameOK
<1>3. T = {f[l] : l \in d.leases}
  OBVIOUS
<1>4. T \in SUBSET Lease
  BY <1>1, kill_nameOK
<1>5. e \in Database /\ e.leases = T /\ e.leases_left = d.leases_left
  <2> HIDE DEF T
  <2>1. e = [d EXCEPT !.leases = T]
    BY DEF TakeFrom, T
  <2> QED
    BY <2>1, <1>1, <1>4 DEF Database
<1>6. DbOK(e)
  BY <1>2, <1>3, <1>5, ChangedDb
<1> QED
  BY <1>5, <1>6

\* lease_set_hostname, which changes two leases, keeps the table consistent.
LEMMA lease_set_hostnameOK ==
    ASSUME NEW p, PtrOK(p), NEW name \in Names, NEW auth \in BOOLEAN
    PROVE  PtrOK(lease_set_hostname(p, name, auth)) /\ lease_set_hostname(p, name, auth).l.addr = p.l.addr
<1> DEFINE holders == {t \in p.d.leases : t.name = name}
           holder == IF holders = {} THEN {} ELSE {CHOOSE t \in holders : TRUE}
           authFlag == IF auth THEN {"AUTH_NAME"} ELSE {}
           k == IF p.l.name = NoName THEN p.l ELSE kill_name(p.l)
           freed == [p EXCEPT !.d = TakeFrom(@, holder)]
           same == [p.l EXCEPT !.flags = @ \cup authFlag]
           new == [ k EXCEPT !.name = name, !.flags = @ \cup {"CHANGED"} \cup authFlag ]
<1>1. p \in Pointer /\ DbOK(p.d) /\ p.l \in p.d.leases /\ p.l \in Lease
  BY DEF PtrOK, Pointer
<1>2. holder \subseteq holders
  OBVIOUS
<1>3. authFlag \subseteq {"AUTH_NAME"}
  OBVIOUS
<1>4. same \in Lease /\ same.addr = p.l.addr
  BY <1>1, <1>3 DEF Lease
<1>5. new \in Lease /\ new.addr = p.l.addr
  <2>1. k \in Lease /\ k.addr = p.l.addr
    BY <1>1, kill_nameOK
  <2> HIDE DEF k
  <2> QED
    BY <1>3, <2>1 DEF Lease, AnyName
<1>6. CASE p.l.name = name
  <2>1. lease_set_hostname(p, name, auth) = Put(p, same)
    BY <1>6 DEF lease_set_hostname
  <2> HIDE DEF same
  <2> QED
    BY <2>1, <1>4, PutOK
<1>7. CASE p.l.name # name
  <2>1. p.l \notin holder
    BY <1>2, <1>7
  <2>2. PtrOK(freed) /\ freed.l = p.l
    <3>1. DbOK(TakeFrom(p.d, holder)) /\ p.l \in TakeFrom(p.d, holder).leases
      BY <1>1, <1>2, <2>1, TakeFromOK
    <3>2. freed.l = p.l /\ freed.d = TakeFrom(p.d, holder) /\ freed \in Pointer
      BY <1>1, <3>1 DEF Pointer, DbOK
    <3> QED
      BY <3>1, <3>2 DEF PtrOK
  <2>3. PtrOK(Put(freed, new)) /\ Put(freed, new).l = new
    <3> HIDE DEF new, freed
    <3> QED
      BY <1>5, <2>2, PutOK
  <2> DEFINE all == TRUE
  <2>4. all \in BOOLEAN
    OBVIOUS
  <2>5. \/ lease_set_hostname(p, name, auth) = p
        \/ lease_set_hostname(p, name, auth) = Dirty(Put(freed, new), all, all)
    BY <1>7 DEF lease_set_hostname
  <2> HIDE DEF all, new, freed
  <2> QED
    BY <1>5, <2>3, <2>4, <2>5, DirtyOK
<1> QED
  BY <1>6, <1>7

\* rerun_scripts, which changes every lease, keeps the table consistent.
LEMMA rerun_scriptsOK ==
    ASSUME NEW d, DbOK(d)
    PROVE  DbOK(rerun_scripts(d))
<1> DEFINE g(l) == [l EXCEPT !.flags = @ \cup {"CHANGED"}]
           f == [l \in d.leases |-> g(l)]
<1>1. d \in Database /\ d.leases \subseteq Lease
  BY DEF DbOK, Database
<1>2. \A l \in Lease : g(l) \in Lease /\ g(l).addr = l.addr
  BY DEF Lease
<1>3. /\ rerun_scripts(d) \in Database
      /\ rerun_scripts(d).leases = {f[l] : l \in d.leases}
      /\ rerun_scripts(d).leases_left = d.leases_left
  <2> DEFINE T == {g(l) : l \in d.leases}
  <2>1. T \in SUBSET Lease /\ T = {f[l] : l \in d.leases}
    BY <1>1, <1>2
  <2>2. rerun_scripts(d) = [d EXCEPT !.leases = T]
    BY DEF rerun_scripts
  <2> HIDE DEF T, f, g
  <2> QED
    BY <1>1, <2>1, <2>2 DEF Database
<1>4. f \in [d.leases -> Lease] /\ \A l \in d.leases : f[l].addr = l.addr
  BY <1>1, <1>2
<1> HIDE DEF f
<1> QED
  BY <1>3, <1>4, ChangedDb

(***************************************************************************)
(* The lease file.                                                         *)
(***************************************************************************)

\* What is written of a consistent database, whole or in part, can be read.
LEMMA WrittenFileOK ==
    ASSUME NEW d, DbOK(d), NEW f, f \subseteq Entries(d)
    PROVE  FileOK(f)
<1> DEFINE g == [l \in d.leases |-> Entry(l)]
<1>1. d.leases \subseteq Lease /\ IsFiniteSet(d.leases) /\ d.leases_left \in Nat
  BY DEF DbOK, Database
<1>2. g \in Surjection(d.leases, Entries(d))
  BY DEF Entries, Surjection
<1>3. IsFiniteSet(Entries(d)) /\ Cardinality(Entries(d)) <= Cardinality(d.leases)
  BY <1>1, <1>2, FS_Surjection
<1>4. IsFiniteSet(f) /\ Cardinality(f) <= Cardinality(Entries(d))
  BY <1>3, FS_Subset
<1>5. /\ Cardinality(f) \in Nat /\ Cardinality(Entries(d)) \in Nat
      /\ Cardinality(d.leases) \in Nat
  BY <1>1, <1>3, <1>4, FS_CardinalityType
<1>6. d.leases_left + Cardinality(d.leases) = MaxLeases
  BY DEF DbOK, LeasesAccounted
<1>7. Cardinality(f) <= MaxLeases
  BY <1>1, <1>3, <1>4, <1>5, <1>6, LeaseAssumption
<1>8. f \in LeaseFile
  BY <1>1 DEF LeaseFile, Entries, Entry, Lease
<1>9. \A e, k \in f : e.addr = k.addr => e = k
  BY DEF Entries, Entry, DbOK, OneLeasePerAddr
<1> QED
  BY <1>4, <1>7, <1>8, <1>9 DEF FileOK

\* Reading a lease file gives a typed set of leases, one for an address.
LEMMA FromFileOK ==
    ASSUME NEW f, FileOK(f)
    PROVE  /\ FromFile(f) \in SUBSET Lease /\ IsFiniteSet(FromFile(f))
           /\ Cardinality(FromFile(f)) = Cardinality(f)
           /\ \A k, l \in FromFile(f) : k.addr = l.addr => k = l
<1> DEFINE lease(e) == [ addr |-> e.addr, hw |-> e.hw, clid |-> e.clid, expires |-> e.expires,
                         name |-> e.name, oldname |-> NoName, iface |-> FALSE, flags |-> {} ]
           g == [e \in f |-> lease(e)]
<1>1. FromFile(f) = {lease(e) : e \in f}
  BY DEF FromFile
<1>2. \A e \in f : lease(e) \in Lease /\ lease(e).addr = e.addr
  BY DEF FileOK, LeaseFile, Lease, AnyName
<1> HIDE DEF lease
<1>3. g \in Bijection(f, FromFile(f))
  BY <1>1, <1>2 DEF FileOK, Bijection, Injection, Surjection, IsInjective
<1>4. IsFiniteSet(FromFile(f)) /\ Cardinality(FromFile(f)) = Cardinality(f)
  BY <1>3, FS_Bijection DEF FileOK, ExistsBijection
<1> QED
  BY <1>1, <1>2, <1>4 DEF FileOK

\* lease_init makes a consistent table of any lease file that FileOK allows.
LEMMA lease_initOK ==
    ASSUME NEW f, FileOK(f), NEW now \in Nat
    PROVE  DbOK(lease_init(f, now))
<1> DEFINE d == [ leases |-> FromFile(f), old_leases |-> <<>>,
                  leases_left |-> MaxLeases - Cardinality(f),
                  file_dirty |-> FALSE, dns_dirty |-> FALSE ]
           e == lease_prune(d, {}, now)
<1>1. Cardinality(f) \in Nat /\ MaxLeases - Cardinality(f) \in Nat
  BY FS_CardinalityType, LeaseAssumption DEF FileOK
<1>2. d \in Database
  BY <1>1, FromFileOK DEF Database
<1>3. DbOK(d)
  BY <1>1, <1>2, FromFileOK, LeaseAssumption DEF DbOK, OneLeasePerAddr, LeasesAccounted
<1>4. DbOK(e)
  <2> HIDE DEF d
  <2> QED
    BY <1>3, lease_pruneOK
<1>5. lease_init(f, now) = [e EXCEPT !.dns_dirty = TRUE]
  BY DEF lease_init
<1>6. /\ lease_init(f, now) \in Database
      /\ lease_init(f, now).leases = e.leases /\ lease_init(f, now).leases_left = e.leases_left
  <2> HIDE DEF e
  <2> QED
    BY <1>4, <1>5 DEF DbOK, Database
<1> HIDE DEF e
<1> QED
  BY <1>4, <1>6, SameLeases

(***************************************************************************)
(* What the functions that change a lease change, and what they leave.     *)
(***************************************************************************)

\* The leases that a pointer does not point at.
Others(p) == {k \in p.d.leases : k.addr # p.l.addr}

\* The lease pointed at may be another, on the same address, and the file or the
\* DNS is marked if it differs in what they show; the rest of the table is as it was.
SameTable(p, r) ==
    /\ PtrOK(r) /\ r.l.addr = p.l.addr /\ r.d.old_leases = p.d.old_leases
    /\ p.d.file_dirty => r.d.file_dirty
    /\ p.d.dns_dirty => r.d.dns_dirty
    /\ p.l.flags \subseteq r.l.flags
Edited(p, r) ==
    /\ SameTable(p, r) /\ Others(r) = Others(p)
    /\ r.d.file_dirty \/ Entry(r.l) = Entry(p.l)
    /\ r.d.dns_dirty \/ (r.l.name = p.l.name /\ r.l.expires = p.l.expires)

SameNames(k, l) == k.name = l.name /\ k.oldname = l.oldname
SameHolder(k, l) == k.hw = l.hw /\ k.clid = l.clid

\* The name `name' went to the lease pointed at, from the lease in `holder' if any had it.
Renamed(p, r, name, holder) ==
    /\ SameTable(p, r) /\ r.d.file_dirty /\ r.d.dns_dirty
    /\ holder \subseteq Others(p)
    /\ Others(r) = (Others(p) \ holder) \cup {kill_name(t) : t \in holder}
    /\ \A t \in holder : t.name = name
    /\ \A t, u \in holder : t = u
    /\ holder # {} \/ \A t \in Others(p) : t.name # name
    /\ name # NoName /\ name # p.l.name /\ r.l.name = name
    /\ r.l.oldname = IF p.l.name = NoName THEN p.l.oldname ELSE p.l.name
    /\ "CHANGED" \in r.l.flags

\* A table is the lease pointed at and the others.
LEMMA OthersOK ==
    ASSUME NEW p, PtrOK(p)
    PROVE  /\ p.d.leases = Others(p) \cup {p.l} /\ p.l \notin Others(p)
           /\ p.l \in Lease /\ Others(p) \subseteq Lease
  BY DEF Others, PtrOK, DbOK, OneLeasePerAddr, Database

\* Put changes the lease pointed at and nothing else.
LEMMA PutEdits ==
    ASSUME NEW p, PtrOK(p), NEW l2 \in Lease, l2.addr = p.l.addr
    PROVE  /\ PtrOK(Put(p, l2)) /\ Put(p, l2).l = l2 /\ Others(Put(p, l2)) = Others(p)
           /\ Put(p, l2).d.old_leases = p.d.old_leases
           /\ Put(p, l2).d.file_dirty = p.d.file_dirty /\ Put(p, l2).d.dns_dirty = p.d.dns_dirty
<1> DEFINE T == (p.d.leases \ {p.l}) \cup {l2}
<1>1. PtrOK(Put(p, l2)) /\ Put(p, l2).l = l2
  BY PutOK
<1>2. Put(p, l2).d = [p.d EXCEPT !.leases = T]
  BY DEF Put, At
<1>3. p.d \in Database
  BY DEF PtrOK, DbOK
<1>4. Put(p, l2).d.leases = T
  <2> HIDE DEF T
  <2> QED
    BY <1>2, <1>3 DEF Database
<1>5. /\ Put(p, l2).d.old_leases = p.d.old_leases
      /\ Put(p, l2).d.file_dirty = p.d.file_dirty /\ Put(p, l2).d.dns_dirty = p.d.dns_dirty
  <2> HIDE DEF T
  <2> QED
    BY <1>2, <1>3 DEF Database
<1>6. Others(Put(p, l2)) = {k \in T : k.addr # l2.addr}
  BY <1>1, <1>4 DEF Others
<1>7. {k \in T : k.addr # l2.addr} = Others(p)
  BY DEF Others
<1> QED
  BY <1>1, <1>5, <1>6, <1>7

\* Setting the dirty flags changes nothing but them.
LEMMA DirtyEdits ==
    ASSUME NEW p, PtrOK(p), NEW inFile \in BOOLEAN, NEW inDns \in BOOLEAN
    PROVE  /\ PtrOK(Dirty(p, inFile, inDns)) /\ Dirty(p, inFile, inDns).l = p.l
           /\ Others(Dirty(p, inFile, inDns)) = Others(p)
           /\ Dirty(p, inFile, inDns).d.old_leases = p.d.old_leases
           /\ Dirty(p, inFile, inDns).d.file_dirty <=> p.d.file_dirty \/ inFile
           /\ Dirty(p, inFile, inDns).d.dns_dirty <=> p.d.dns_dirty \/ inDns
<1> DEFINE q == Dirty(p, inFile, inDns)
<1>1. PtrOK(q) /\ q.l = p.l
  BY DirtyOK
<1>2. /\ q.d.leases = p.d.leases /\ q.d.old_leases = p.d.old_leases
      /\ q.d.file_dirty <=> p.d.file_dirty \/ inFile
      /\ q.d.dns_dirty <=> p.d.dns_dirty \/ inDns
  BY DEF Dirty, PtrOK, Pointer, Database
<1>3. Others(q) = Others(p)
  BY <1>1, <1>2 DEF Others
<1> QED
  BY <1>1, <1>2, <1>3

\* A change of the lease pointed at that marks what it changes.
LEMMA PutDirtyEdits ==
    ASSUME NEW p, PtrOK(p), NEW l2 \in Lease, l2.addr = p.l.addr, p.l.flags \subseteq l2.flags,
           NEW inFile \in BOOLEAN, NEW inDns \in BOOLEAN,
           inFile \/ Entry(l2) = Entry(p.l),
           inDns \/ (l2.name = p.l.name /\ l2.expires = p.l.expires)
    PROVE  Edited(p, Dirty(Put(p, l2), inFile, inDns)) /\ Dirty(Put(p, l2), inFile, inDns).l = l2
<1> DEFINE r == Put(p, l2)
           q == Dirty(r, inFile, inDns)
<1>1. /\ PtrOK(r) /\ r.l = l2 /\ Others(r) = Others(p)
      /\ r.d.old_leases = p.d.old_leases
      /\ r.d.file_dirty = p.d.file_dirty /\ r.d.dns_dirty = p.d.dns_dirty
  BY PutEdits
<1> HIDE DEF r
<1>2. /\ PtrOK(q) /\ q.l = r.l /\ Others(q) = Others(r)
      /\ q.d.old_leases = r.d.old_leases
      /\ q.d.file_dirty <=> r.d.file_dirty \/ inFile
      /\ q.d.dns_dirty <=> r.d.dns_dirty \/ inDns
  BY <1>1, DirtyEdits
<1> HIDE DEF q
<1>3. Edited(p, q) /\ q.l = l2
  BY <1>1, <1>2 DEF Edited, SameTable
<1> QED
  BY <1>3 DEF q, r

\* lease_set_hwaddr gives the lease pointed at to a host.
LEMMA lease_set_hwaddrEdits ==
    ASSUME NEW p, PtrOK(p), NEW hw \in Hosts, NEW clid \in AnyClientId
    PROVE  /\ Edited(p, lease_set_hwaddr(p, hw, clid))
           /\ SameNames(lease_set_hwaddr(p, hw, clid).l, p.l)
           /\ lease_set_hwaddr(p, hw, clid).l.hw = hw
           /\ lease_set_hwaddr(p, hw, clid).l.clid = IF clid = NoId THEN p.l.clid ELSE clid
<1> DEFINE clid2 == IF clid = NoId THEN p.l.clid ELSE clid
           moved == p.l.hw # hw
           l2 == [ p.l EXCEPT !.hw = hw, !.clid = clid2,
                              !.flags = IF moved THEN @ \cup {"CHANGED"} ELSE @ ]
           inFile == moved \/ clid2 # p.l.clid
           inDns == FALSE
<1>1. p.l \in Lease
  BY DEF PtrOK, Pointer
<1>2. /\ l2 \in Lease /\ l2.addr = p.l.addr /\ p.l.flags \subseteq l2.flags
      /\ l2.hw = hw /\ l2.clid = clid2
      /\ l2.name = p.l.name /\ l2.oldname = p.l.oldname /\ l2.expires = p.l.expires
  BY <1>1 DEF Lease
<1>3. inFile \/ Entry(l2) = Entry(p.l)
  BY <1>2 DEF Entry
<1>4. inFile \in BOOLEAN /\ inDns \in BOOLEAN
  OBVIOUS
<1>5. lease_set_hwaddr(p, hw, clid) = Dirty(Put(p, l2), inFile, inDns)
  BY DEF lease_set_hwaddr
<1> HIDE DEF l2, inFile, inDns
<1> QED
  BY <1>2, <1>3, <1>4, <1>5, PutDirtyEdits DEF SameNames

\* lease_set_expires sets the time of the lease pointed at.
LEMMA lease_set_expiresEdits ==
    ASSUME NEW p, PtrOK(p), NEW len \in Nat, NEW now \in Nat
    PROVE  /\ Edited(p, lease_set_expires(p, len, now))
           /\ SameNames(lease_set_expires(p, len, now).l, p.l)
           /\ SameHolder(lease_set_expires(p, len, now).l, p.l)
           /\ lease_set_expires(p, len, now).l.expires = IF len = 0 THEN 0 ELSE now + len
<1> DEFINE exp == IF len = 0 THEN 0 ELSE now + len
           l2 == [p.l EXCEPT !.expires = exp]
           dirty == exp # p.l.expires
<1>1. p.l \in Lease
  BY DEF PtrOK, Pointer
<1>2. /\ l2 \in Lease /\ l2.addr = p.l.addr /\ l2.flags = p.l.flags
      /\ l2.hw = p.l.hw /\ l2.clid = p.l.clid
      /\ l2.name = p.l.name /\ l2.oldname = p.l.oldname /\ l2.expires = exp
  BY <1>1 DEF Lease
<1>3. dirty \/ Entry(l2) = Entry(p.l)
  BY <1>2 DEF Entry
<1>4. dirty \in BOOLEAN
  OBVIOUS
<1>5. lease_set_expires(p, len, now) = Dirty(Put(p, l2), dirty, dirty)
  BY DEF lease_set_expires
<1>6. dirty \/ (l2.name = p.l.name /\ l2.expires = p.l.expires)
  BY <1>2
<1> HIDE DEF l2, dirty
<1> QED
  BY <1>2, <1>3, <1>4, <1>5, <1>6, PutDirtyEdits DEF SameNames, SameHolder

\* A change of the flags alone.
LEMMA FlagsEdit ==
    ASSUME NEW p, PtrOK(p), NEW l2 \in Lease, l2.addr = p.l.addr, p.l.flags \subseteq l2.flags,
           Entry(l2) = Entry(p.l), l2.oldname = p.l.oldname
    PROVE  /\ Edited(p, Put(p, l2)) /\ SameNames(Put(p, l2).l, p.l)
           /\ SameHolder(Put(p, l2).l, p.l) /\ Put(p, l2).l.expires = p.l.expires
<1>1. /\ l2.name = p.l.name /\ l2.expires = p.l.expires /\ l2.hw = p.l.hw /\ l2.clid = p.l.clid
  BY DEF Entry
<1> QED
  BY <1>1, PutEdits DEF Edited, SameTable, SameNames, SameHolder

\* A pointer is an edit of itself.
LEMMA NoEdit ==
    ASSUME NEW p, PtrOK(p)
    PROVE  Edited(p, p) /\ SameNames(p.l, p.l) /\ SameHolder(p.l, p.l)
  BY DEF Edited, SameTable, SameNames, SameHolder

\* lease_set_interface changes nothing that is written to the file.
LEMMA lease_set_interfaceEdits ==
    ASSUME NEW p, PtrOK(p)
    PROVE  /\ Edited(p, lease_set_interface(p)) /\ SameNames(lease_set_interface(p).l, p.l)
           /\ SameHolder(lease_set_interface(p).l, p.l)
           /\ lease_set_interface(p).l.expires = p.l.expires
<1> DEFINE l2 == [p.l EXCEPT !.iface = TRUE, !.flags = @ \cup {"CHANGED"}]
<1>1. /\ l2 \in Lease /\ l2.addr = p.l.addr /\ p.l.flags \subseteq l2.flags
      /\ Entry(l2) = Entry(p.l) /\ l2.oldname = p.l.oldname
  BY DEF PtrOK, Pointer, Lease, Entry
<1> HIDE DEF l2
<1> QED
  BY <1>1, FlagsEdit, NoEdit DEF lease_set_interface, l2

\* lease_set_hostname leaves the names as they are or moves the name.
LEMMA lease_set_hostnameEdits ==
    ASSUME NEW p, PtrOK(p), NEW name \in Names, name # NoName, NEW auth \in BOOLEAN
    PROVE  LET r == lease_set_hostname(p, name, auth)
           IN  /\ SameHolder(r.l, p.l) /\ r.l.expires = p.l.expires
               /\ \/ Edited(p, r) /\ SameNames(r.l, p.l)
                  \/ \E holder : Renamed(p, r, name, holder)
<1> DEFINE holders == {t \in p.d.leases : t.name = name}
           holder == IF holders = {} THEN {} ELSE {CHOOSE t \in holders : TRUE}
           authFlag == IF auth THEN {"AUTH_NAME"} ELSE {}
           k == IF p.l.name = NoName THEN p.l ELSE kill_name(p.l)
           freed == [p EXCEPT !.d = TakeFrom(@, holder)]
           same == [p.l EXCEPT !.flags = @ \cup authFlag]
           new == [ k EXCEPT !.name = name, !.flags = @ \cup {"CHANGED"} \cup authFlag ]
           r == lease_set_hostname(p, name, auth)
<1>1. p \in Pointer /\ DbOK(p.d) /\ p.l \in p.d.leases /\ p.l \in Lease
  BY DEF PtrOK, Pointer
<1>2. authFlag \subseteq {"AUTH_NAME"}
  OBVIOUS
<1>3. CASE p.l.name = name
  <2>1. r = Put(p, same)
    BY <1>3 DEF lease_set_hostname
  <2>2. /\ same \in Lease /\ same.addr = p.l.addr /\ p.l.flags \subseteq same.flags
        /\ Entry(same) = Entry(p.l) /\ same.oldname = p.l.oldname
    BY <1>1, <1>2 DEF Lease, Entry
  <2> HIDE DEF same, r
  <2>3. Edited(p, r) /\ SameNames(r.l, p.l) /\ SameHolder(r.l, p.l) /\ r.l.expires = p.l.expires
    BY <2>1, <2>2, FlagsEdit
  <2> QED
    BY <2>3 DEF r
<1>4. CASE p.l.name # name /\ \E t \in holder : ~MayTakeFrom(t, auth)
  <2>1. r = p
    BY <1>4 DEF lease_set_hostname
  <2> HIDE DEF r
  <2> QED
    BY <2>1, NoEdit DEF r
<1>5. CASE p.l.name # name /\ \A t \in holder : MayTakeFrom(t, auth)
  <2> DEFINE yes == TRUE
  <2>1. r = Dirty(Put(freed, new), yes, yes)
    BY <1>5 DEF lease_set_hostname
  <2>2. /\ holder \subseteq p.d.leases /\ \A t \in holder : t.name = name
        /\ \A t, u \in holder : t = u
        /\ holder # {} \/ \A t \in p.d.leases : t.name # name
    OBVIOUS
  <2>3. /\ new \in Lease /\ new.addr = p.l.addr /\ new.hw = p.l.hw /\ new.clid = p.l.clid
        /\ new.expires = p.l.expires /\ new.name = name /\ p.l.flags \subseteq new.flags
        /\ new.oldname = (IF p.l.name = NoName THEN p.l.oldname ELSE p.l.name)
        /\ "CHANGED" \in new.flags
    <3>1. /\ k \in Lease /\ k.addr = p.l.addr /\ k.hw = p.l.hw /\ k.clid = p.l.clid
          /\ k.expires = p.l.expires /\ k.flags = p.l.flags
          /\ k.oldname = IF p.l.name = NoName THEN p.l.oldname ELSE p.l.name
      BY <1>1 DEF kill_name, Lease, AnyName
    <3> HIDE DEF k
    <3> QED
      BY <1>2, <3>1 DEF Lease, AnyName
  <2>4. holder \subseteq Others(p)
    BY <1>1, <1>5, <2>2, OthersOK
  <2>5. /\ PtrOK(freed) /\ freed.l = p.l
        /\ Others(freed) = (Others(p) \ holder) \cup {kill_name(t) : t \in holder}
        /\ freed.d.old_leases = p.d.old_leases
        /\ freed.d.file_dirty = p.d.file_dirty /\ freed.d.dns_dirty = p.d.dns_dirty
    <3> DEFINE e == TakeFrom(p.d, holder)
               T == (p.d.leases \ holder) \cup {kill_name(t) : t \in holder}
    <3>1. DbOK(e) /\ p.l \in e.leases
      BY <1>1, <1>5, <2>2, TakeFromOK
    <3>2. freed.l = p.l /\ freed.d = e /\ freed \in Pointer
      BY <1>1, <3>1 DEF Pointer, DbOK
    <3>3. /\ e.leases = T /\ e.old_leases = p.d.old_leases
          /\ e.file_dirty = p.d.file_dirty /\ e.dns_dirty = p.d.dns_dirty
      <4>1. e = [p.d EXCEPT !.leases = T]
        BY DEF TakeFrom
      <4>2. p.d \in Database
        BY <1>1 DEF DbOK
      <4> HIDE DEF T, e
      <4> QED
        BY <4>1, <4>2 DEF Database
    <3>4. \A t \in holder : kill_name(t).addr = t.addr /\ t.addr # p.l.addr
      BY <1>1, <2>2, <2>4, kill_nameOK, OthersOK DEF Others
    <3>5. {x \in T : x.addr # p.l.addr} = (Others(p) \ holder) \cup {kill_name(t) : t \in holder}
      <4> HIDE DEF holder
      <4> QED
        BY <3>4 DEF Others
    <3> HIDE DEF T, freed, e, holder
    <3> QED
      BY <3>1, <3>2, <3>3, <3>5 DEF Others, PtrOK
  <2> HIDE DEF freed, new, holder
  <2>6. /\ PtrOK(Put(freed, new)) /\ Put(freed, new).l = new /\ Others(Put(freed, new)) = Others(freed)
        /\ Put(freed, new).d.old_leases = p.d.old_leases
    BY <2>3, <2>5, PutEdits
  <2>7. yes \in BOOLEAN
    OBVIOUS
  <2> DEFINE q == Put(freed, new)
  <2>8. yes
    OBVIOUS
  <2> HIDE DEF q, r, yes, k
  <2>9. /\ PtrOK(r) /\ r.l = new /\ Others(r) = Others(freed)
        /\ r.d.old_leases = p.d.old_leases /\ r.d.file_dirty /\ r.d.dns_dirty
    BY <2>1, <2>6, <2>7, <2>8, DirtyEdits DEF q
  <2>10. name # p.l.name
    BY <1>5
  <2>11. holder # {} \/ \A t \in Others(p) : t.name # name
    BY <2>2 DEF Others
  <2>12. Renamed(p, r, name, holder)
    BY <2>2, <2>3, <2>4, <2>5, <2>9, <2>10, <2>11 DEF Renamed, SameTable
  <2>13. SameHolder(r.l, p.l) /\ r.l.expires = p.l.expires
    BY <2>3, <2>9 DEF SameHolder
  <2> QED
    BY <2>12, <2>13 DEF r
<1> QED
  BY <1>3, <1>4, <1>5

\* An edit after an edit is an edit.
LEMMA EditedTwice ==
    ASSUME NEW p, NEW q, NEW r, Edited(p, q), Edited(q, r)
    PROVE  Edited(p, r)
  BY DEF Edited, SameTable

\* Edits that keep the names, before or after a name moves.
LEMMA EditedAndRenamed ==
    ASSUME NEW p, NEW q, NEW r, NEW s, NEW name, NEW holder,
           Edited(p, q), SameNames(q.l, p.l), Renamed(q, r, name, holder),
           Edited(r, s), SameNames(s.l, r.l)
    PROVE  Renamed(p, s, name, holder)
  BY DEF Edited, SameTable, SameNames, Renamed

(***************************************************************************)
(* A lease that is given to a host, or given to it again.                  *)
(***************************************************************************)

\* From `p' to `r' the lease went to a host, for a time, and may have got a name.
Regranted(p, r, hw, clid, exp) ==
    /\ PtrOK(p) /\ PtrOK(r)
    /\ r.l.hw = hw /\ r.l.expires = exp
    /\ r.l.clid = IF clid = NoId THEN p.l.clid ELSE clid
    /\ \/ Edited(p, r) /\ SameNames(r.l, p.l)
       \/ \E name \in Names : \E holder : Renamed(p, r, name, holder)

\* What the server does when it gives a lease, in the order of the code.
LEMMA RegrantedOK ==
    ASSUME NEW p, PtrOK(p), NEW c, Edited(p, c), SameNames(c.l, p.l), SameHolder(c.l, p.l),
           NEW hw \in Hosts, NEW clid \in AnyClientId, NEW name \in AnyName,
           NEW auth \in BOOLEAN, NEW len \in Nat, NEW now \in Nat
    PROVE  LET h == lease_set_hwaddr(c, hw, clid)
               n == IF name = NoName THEN h ELSE lease_set_hostname(h, name, auth)
               r == lease_set_interface(lease_set_expires(n, len, now))
           IN  Regranted(p, r, hw, clid, IF len = 0 THEN 0 ELSE now + len)
<1> DEFINE h == lease_set_hwaddr(c, hw, clid)
           n == IF name = NoName THEN h ELSE lease_set_hostname(h, name, auth)
           x == lease_set_expires(n, len, now)
           r == lease_set_interface(x)
           exp == IF len = 0 THEN 0 ELSE now + len
           clid2 == IF clid = NoId THEN p.l.clid ELSE clid
<1>1. PtrOK(c)
  BY DEF Edited, SameTable
<1>2. /\ Edited(c, h) /\ SameNames(h.l, c.l) /\ h.l.hw = hw
      /\ h.l.clid = IF clid = NoId THEN c.l.clid ELSE clid
  BY <1>1, lease_set_hwaddrEdits
<1> HIDE DEF h
<1>3. Edited(p, h) /\ SameNames(h.l, p.l) /\ h.l.clid = clid2 /\ PtrOK(h)
  BY <1>2, EditedTwice DEF SameNames, SameHolder, Edited, SameTable
<1>4. /\ SameHolder(n.l, h.l) /\ PtrOK(n)
      /\ \/ Edited(h, n) /\ SameNames(n.l, h.l)
         \/ \E nm \in Names : \E holder : Renamed(h, n, nm, holder)
  <2>1. CASE name = NoName
    BY <1>3, <2>1, NoEdit
  <2>2. CASE name # NoName
    <3>1. name \in Names
      BY <2>2 DEF AnyName
    <3> DEFINE s == lease_set_hostname(h, name, auth)
    <3>2. /\ SameHolder(s.l, h.l)
          /\ \/ Edited(h, s) /\ SameNames(s.l, h.l)
             \/ \E holder : Renamed(h, s, name, holder)
      BY <1>3, <2>2, <3>1, lease_set_hostnameEdits
    <3>3. n = s
      BY <2>2
    <3> HIDE DEF s, n
    <3>4. PtrOK(n)
      BY <3>2, <3>3 DEF Edited, Renamed, SameTable
    <3> QED
      BY <3>1, <3>2, <3>3, <3>4
  <2> QED
    BY <2>1, <2>2
<1> HIDE DEF n
<1>5. /\ Edited(n, x) /\ SameNames(x.l, n.l) /\ SameHolder(x.l, n.l) /\ x.l.expires = exp
  BY <1>4, lease_set_expiresEdits
<1> HIDE DEF x
<1>6. PtrOK(x)
  BY <1>5 DEF Edited, SameTable
<1>7. /\ Edited(x, r) /\ SameNames(r.l, x.l) /\ SameHolder(r.l, x.l) /\ r.l.expires = x.l.expires
  BY <1>6, lease_set_interfaceEdits
<1> HIDE DEF r
<1>8. PtrOK(r) /\ Edited(n, r) /\ SameNames(r.l, n.l)
  BY <1>5, <1>7, EditedTwice DEF SameNames, Edited, SameTable
<1>9. r.l.hw = hw /\ r.l.expires = exp /\ r.l.clid = clid2
  BY <1>2, <1>3, <1>4, <1>5, <1>7 DEF SameHolder
<1>10. \/ Edited(p, r) /\ SameNames(r.l, p.l)
       \/ \E nm \in Names : \E holder : Renamed(p, r, nm, holder)
  <2>1. CASE Edited(h, n) /\ SameNames(n.l, h.l)
    BY <1>3, <1>8, <2>1, EditedTwice DEF SameNames
  <2>2. CASE \E nm \in Names : \E holder : Renamed(h, n, nm, holder)
    BY <1>3, <1>8, <2>2, EditedAndRenamed
  <2> QED
    BY <1>4, <2>1, <2>2
<1>11. Regranted(p, r, hw, clid, exp)
  BY <1>8, <1>9, <1>10 DEF Regranted
<1> QED
  BY <1>11 DEF r, x, n, h

\* No two of the leases that p does not point at have the same name.
UniqueOthers(p) == \A t, u \in Others(p) : t.name = u.name /\ t.name # NoName => t = u

\* None of the leases that p does not point at has the name by the configuration.
NotConfigured(p, name) == \A t \in Others(p) : t.name = name => "AUTH_NAME" \notin t.flags

\* lease_set_hostname takes a name from no lease that has it by the configuration,
\* unless the configuration gives it.
LEMMA lease_set_hostnameTakes ==
    ASSUME NEW p, PtrOK(p), UniqueOthers(p),
           NEW name \in Names, name # NoName, NEW auth \in BOOLEAN
    PROVE  LET r == lease_set_hostname(p, name, auth)
           IN  \/ r.l.name = p.l.name
               \/ r.l.name = name /\ (auth \/ NotConfigured(p, name))
<1> DEFINE r == lease_set_hostname(p, name, auth)
           holders == {t \in p.d.leases : t.name = name}
           holder == IF holders = {} THEN {} ELSE {CHOOSE t \in holders : TRUE}
<1>1. r.l.name = p.l.name \/ r.l.name = name
  BY lease_set_hostnameEdits DEF SameNames, Renamed
<1>2. ASSUME NEW t \in Others(p), t.name = name, "AUTH_NAME" \in t.flags, ~auth, p.l.name # name
      PROVE  r = p
  <2>1. p.d.leases = Others(p) \cup {p.l}
    BY OthersOK
  <2>2. holder = {t}
    BY <1>2, <2>1 DEF UniqueOthers
  <2>3. \E u \in holder : ~MayTakeFrom(u, auth)
    <3> HIDE DEF holder
    <3> QED
      BY <1>2, <2>2 DEF MayTakeFrom
  <2> QED
    BY <1>2, <2>3 DEF lease_set_hostname
<1>3. CASE p.l.name = name
  BY <1>1, <1>3
<1>4. CASE p.l.name # name
  <2> HIDE DEF r, holder
  <2> QED
    BY <1>1, <1>2, <1>4 DEF NotConfigured, r
<1> QED
  BY <1>3, <1>4

\* The name of a lease that is given to a host is the one it had, or the new one,
\* which is the configuration's or taken from no lease that has it by that.
LEMMA RegrantedName ==
    ASSUME NEW p, PtrOK(p), UniqueOthers(p),
           NEW c, Edited(p, c), SameNames(c.l, p.l), SameHolder(c.l, p.l),
           NEW hw \in Hosts, NEW clid \in AnyClientId, NEW name \in AnyName,
           NEW auth \in BOOLEAN, NEW len \in Nat, NEW now \in Nat
    PROVE  LET h == lease_set_hwaddr(c, hw, clid)
               n == IF name = NoName THEN h ELSE lease_set_hostname(h, name, auth)
               r == lease_set_interface(lease_set_expires(n, len, now))
           IN  \/ r.l.name = p.l.name
               \/ r.l.name = name /\ name # NoName /\ (auth \/ NotConfigured(p, name))
<1> DEFINE h == lease_set_hwaddr(c, hw, clid)
           n == IF name = NoName THEN h ELSE lease_set_hostname(h, name, auth)
           x == lease_set_expires(n, len, now)
           r == lease_set_interface(x)
<1>1. PtrOK(c)
  BY DEF Edited, SameTable
<1>2. Edited(c, h) /\ SameNames(h.l, c.l)
  BY <1>1, lease_set_hwaddrEdits
<1> HIDE DEF h
<1>3. PtrOK(h) /\ Others(h) = Others(p) /\ h.l.name = p.l.name
  BY <1>2 DEF Edited, SameTable, SameNames
<1>4. UniqueOthers(h) /\ (NotConfigured(h, name) <=> NotConfigured(p, name))
  BY <1>3 DEF UniqueOthers, NotConfigured
<1>5. /\ PtrOK(n)
      /\ \/ n.l.name = p.l.name
         \/ n.l.name = name /\ name # NoName /\ (auth \/ NotConfigured(p, name))
  <2>1. CASE name = NoName
    BY <1>3, <2>1
  <2>2. CASE name # NoName
    <3> DEFINE s == lease_set_hostname(h, name, auth)
    <3>1. name \in Names
      BY <2>2 DEF AnyName
    <3>2. \/ s.l.name = h.l.name
          \/ s.l.name = name /\ (auth \/ NotConfigured(h, name))
      BY <1>3, <1>4, <2>2, <3>1, lease_set_hostnameTakes
    <3>3. PtrOK(s)
      BY <1>3, <2>2, <3>1, lease_set_hostnameEdits DEF Edited, Renamed, SameTable
    <3>4. n = s
      BY <2>2
    <3> HIDE DEF s, n
    <3> QED
      BY <1>3, <1>4, <2>2, <3>2, <3>3, <3>4
  <2> QED
    BY <2>1, <2>2
<1> HIDE DEF n
<1>6. PtrOK(x) /\ x.l.name = n.l.name
  BY <1>5, lease_set_expiresEdits DEF Edited, SameTable, SameNames
<1> HIDE DEF x
<1>7. r.l.name = x.l.name
  BY <1>6, lease_set_interfaceEdits DEF SameNames
<1> HIDE DEF r
<1> QED
  BY <1>5, <1>6, <1>7 DEF r, x, n, h

(***************************************************************************)
(* Numbers.                                                                *)
(***************************************************************************)

\* The least-number principle.
LEMMA LeastNumber ==
    ASSUME NEW S \in SUBSET Nat, S # {}
    PROVE  \E m \in S : \A n \in S : m <= n
<1> DEFINE R == {ss \in Nat \X Nat : ss[1] < ss[2]}
<1>1. IsWellFoundedOn(R, Nat)
  BY NatLessThanWellFounded DEF OpToRel
<1>2. \E m \in S : \A n \in S : ~(<<n, m>> \in R)
  <2> HIDE DEF R
  <2> QED
    BY <1>1, WFMin
<1>3. ASSUME NEW m \in Nat, NEW n \in Nat, n < m
      PROVE  <<n, m>> \in R
  BY <1>3
<1>4. ASSUME NEW m \in Nat, NEW n \in Nat, ~(n < m)
      PROVE  m <= n
  BY <1>4
<1> HIDE DEF R
<1> QED
  BY <1>2, <1>3, <1>4

\* The first index of a nonempty set of indices is the least of them.
LEMMA FirstOfOK ==
    ASSUME NEW S \in SUBSET Nat, S # {}
    PROVE  FirstOf(S) \in S
  BY LeastNumber DEF FirstOf

\* A bounded set of numbers has a greatest.
LEMMA GreatestNumber ==
    ASSUME NEW S \in SUBSET Nat, S # {}, NEW b \in Nat, \A n \in S : n <= b
    PROVE  \E m \in S : \A n \in S : n <= m
<1> DEFINE T == {k \in Nat : b - k \in S}
<1>1. T \in SUBSET Nat /\ T # {}
  <2>1. PICK n \in S : TRUE
    OBVIOUS
  <2>2. n \in Nat /\ b - n \in Nat /\ b - (b - n) = n
    OBVIOUS
  <2>3. b - n \in T
    BY <2>2
  <2> QED
    BY <2>3
<1>2. PICK k \in T : \A j \in T : k <= j
  <2> HIDE DEF T
  <2> QED
    BY <1>1, LeastNumber
<1>3. k \in Nat /\ b - k \in S
  OBVIOUS
<1>4. ASSUME NEW n \in S PROVE n <= b - k
  <2>1. n \in Nat /\ b - n \in Nat /\ b - (b - n) = n
    OBVIOUS
  <2>2. b - n \in T
    BY <2>1
  <2>3. k <= b - n
    BY <1>2, <2>2
  <2> QED
    BY <1>3, <2>1, <2>3
<1> QED
  BY <1>3, <1>4

(***************************************************************************)
(* Contexts and configuration.                                             *)
(***************************************************************************)

\* Every range is a DhcpRange of addresses, and no range is empty.
LEMMA RangesType ==
    /\ Ranges \in Seq(DhcpRange) /\ Len(Ranges) \in Nat /\ Len(Ranges) >= 1
    /\ DOMAIN Ranges = 1 .. Len(Ranges)
    /\ \A i \in DOMAIN Ranges : Ranges[i] \in DhcpRange
  BY PoolAssumption

\* The result of narrow_context is a chain of ranges of the chain it is given.
LEMMA narrow_contextOK ==
    ASSUME NEW chain \in Seq(DhcpRange), NEW a
    PROVE  narrow_context(chain, a) \in Seq(DhcpRange)
<1> DEFINE fits == {i \in DOMAIN chain : InRange(chain[i], a)}
           near == {i \in DOMAIN chain : a \in chain[i].net}
<1>1. DOMAIN chain \subseteq Nat /\ \A i \in DOMAIN chain : chain[i] \in DhcpRange
  OBVIOUS
<1>2. fits # {} => FirstOf(fits) \in fits
  BY <1>1, FirstOfOK
<1>3. near # {} => FirstOf(near) \in near
  BY <1>1, FirstOfOK
<1>4. address_available(chain, a) \in Seq(DhcpRange)
  BY <1>1, <1>2 DEF address_available
<1> QED
  BY <1>1, <1>3, <1>4 DEF narrow_context

\* find_config returns a line of the given set, or no line.
LEMMA find_configOK ==
    ASSUME NEW conf \in Configurations, NEW configs \in SUBSET conf, NEW clid, NEW hw
    PROVE  /\ find_config(configs, clid, hw) \in conf \cup {NoConfig}
           /\ find_config(configs, clid, hw).addr \in AnyAddr
           /\ find_config(configs, clid, hw).name \in AnyName
           /\ find_config(configs, clid, hw).time \in Nat
<1>1. find_config(configs, clid, hw) \in conf \cup {NoConfig}
  BY DEF find_config
<1> QED
  BY <1>1, PoolAssumption DEF Config, NoConfig, AnyAddr, AnyName

(***************************************************************************)
(* The search for a free address.                                          *)
(***************************************************************************)

\* An offset modulo the size of a range stays inside the range.
LEMMA Modulo ==
    ASSUME NEW n \in Nat, NEW k \in Nat, k > 0
    PROVE  n % k \in 0 .. k - 1
  OBVIOUS

\* The size of a range is positive, and an offset below it is an address of the range.
LEMMA RangeType ==
    ASSUME NEW i \in DOMAIN Ranges
    PROVE  /\ Ranges[i].start \in Nat /\ Ranges[i].end \in Nat
           /\ Ranges[i].start <= Ranges[i].end
           /\ Ranges[i].start .. Ranges[i].end \subseteq Addrs
           /\ Size(Ranges[i]) \in Nat /\ Size(Ranges[i]) > 0
           /\ Size(Ranges[i]) = Ranges[i].end - Ranges[i].start + 1
<1>1. Ranges[i].start \in Nat /\ Ranges[i].end \in Nat /\ Ranges[i].start <= Ranges[i].end
  BY RangesType, PoolAssumption, NetAssumption DEF DhcpRange
<1> QED
  BY <1>1, PoolAssumption DEF Size

\* lease_find_max_addr returns a number that is not below the range.
LEMMA lease_find_max_addrOK ==
    ASSUME NEW d, DbOK(d), NEW i \in DOMAIN Ranges
    PROVE  /\ lease_find_max_addr(d, Ranges[i]) \in Nat
           /\ lease_find_max_addr(d, Ranges[i]) >= Ranges[i].start
<1> DEFINE r == Ranges[i]
           used == {r.start} \cup {l.addr : l \in {k \in d.leases : InRange(r, k.addr)}}
<1>1. r.start \in Nat /\ r.end \in Nat /\ r.start <= r.end
  BY RangeType
<1>2. \A l \in d.leases : l.addr \in Nat
  <2>1. AnyAddr \subseteq Nat
    BY NetAssumption DEF AnyAddr, NoAddr
  <2>2. d.leases \subseteq Lease
    BY DEF DbOK, Database
  <2> QED
    BY <2>1, <2>2 DEF Lease
<1>3. used \in SUBSET Nat /\ \A n \in used : r.start <= n /\ n <= r.end
  BY <1>1, <1>2 DEF InRange
<1>4. \E m \in used : \A n \in used : n <= m
  <2>1. used # {}
    OBVIOUS
  <2> HIDE DEF used, r
  <2> QED
    BY <1>1, <1>3, <2>1, GreatestNumber
<1>5. lease_find_max_addr(d, r) \in used
  BY <1>4 DEF lease_find_max_addr
<1> HIDE DEF used
<1> QED
  BY <1>3, <1>5

\* The scan stays inside its range.
LEMMA CandidateType ==
    ASSUME NEW d, DbOK(d), NEW memo \in Memo, NEW i \in DOMAIN Ranges,
           NEW hw \in Hosts, NEW k \in Nat
    PROVE  Candidate(d, memo, i, hw, k) \in Addrs
<1> DEFINE r == Ranges[i]
           first == IF Consecutive THEN lease_find_max_addr(d, r) - r.start
                    ELSE (Hash[hw] + memo.epoch[i]) % Size(r)
<1>1. r.start \in Nat /\ Size(r) \in Nat /\ Size(r) > 0 /\ Size(r) = r.end - r.start + 1 /\ r.end \in Nat
  BY RangeType
<1>2. first \in Nat
  <2>1. lease_find_max_addr(d, r) - r.start \in Nat
    BY <1>1, lease_find_max_addrOK
  <2>2. Hash[hw] + memo.epoch[i] \in Nat
    BY PoolAssumption DEF Memo
  <2>3. (Hash[hw] + memo.epoch[i]) % Size(r) \in Nat
    <3> HIDE DEF r
    <3> QED
      BY <1>1, <2>2, Modulo
  <2> QED
    BY <2>1, <2>3
<1>3. (first + k) % Size(r) \in 0 .. Size(r) - 1
  <2>1. first + k \in Nat
    BY <1>2
  <2> HIDE DEF first, r
  <2> QED
    BY <1>1, <2>1, Modulo
<1>4. Candidate(d, memo, i, hw, k) = r.start + ((first + k) % Size(r))
  BY DEF Candidate
<1>5. r.start + ((first + k) % Size(r)) \in r.start .. r.end
  <2> HIDE DEF first, r
  <2> QED
    BY <1>1, <1>3
<1> QED
  BY <1>4, <1>5, RangeType

\* The address a range yields is an unused address, or none.
LEMMA ScanOK ==
    ASSUME NEW d, DbOK(d), NEW memo \in Memo, NEW i \in DOMAIN Ranges,
           NEW hw \in Hosts, NEW answering
    PROVE  /\ Scan(d, memo, i, hw, answering).addr \in AnyAddr
           /\ Scan(d, memo, i, hw, answering).addr # NoAddr =>
                 Unused(d, Scan(d, memo, i, hw, answering).addr)
           /\ Scan(d, memo, i, hw, answering).busy \in Nat
<1> DEFINE at(k) == Candidate(d, memo, i, hw, k)
           all == 0 .. Size(Ranges[i]) - 1
           good == {k \in all : Takes(d, memo, at(k), hw, answering)}
           passed == {k \in all : \A g \in good : k < g}
           busy == {k \in passed : Pings(d, memo, at(k)) /\ at(k) \in answering}
           s == Scan(d, memo, i, hw, answering)
<1>1. /\ s.addr = IF good = {} THEN NoAddr ELSE at(FirstOf(good))
      /\ s.busy = Cardinality(busy)
  BY DEF Scan
<1>2. IsFiniteSet(all) /\ busy \in SUBSET all
  <2>1. 0 \in Int /\ Size(Ranges[i]) - 1 \in Int
    BY RangeType
  <2> QED
    BY <2>1, FS_Interval
<1>3. s.busy \in Nat
  <2> HIDE DEF all, busy
  <2> QED
    BY <1>1, <1>2, FS_Subset, FS_CardinalityType
<1>4. ASSUME good # {}
      PROVE  s.addr \in Addrs /\ Unused(d, s.addr)
  <2>1. good \in SUBSET Nat
    BY RangeType
  <2>2. FirstOf(good) \in good /\ FirstOf(good) \in Nat
    <3> HIDE DEF good
    <3> QED
      BY <1>4, <2>1, FirstOfOK
  <2>3. at(FirstOf(good)) \in Addrs
    BY <2>2, CandidateType
  <2>4. Takes(d, memo, at(FirstOf(good)), hw, answering)
    BY <2>2
  <2> HIDE DEF good, at, s
  <2> QED
    BY <1>1, <1>4, <2>3, <2>4 DEF Takes
<1> HIDE DEF good, busy, s
<1>5. good = {} => s.addr = NoAddr
  BY <1>1
<1> QED
  BY <1>3, <1>4, <1>5 DEF AnyAddr, s

\* What address_allocate returns is on no lease, no line of the configuration
\* has it, and it is no address of the server.
THEOREM AllocatedIsFree ==
    ASSUME NEW d, DbOK(d), NEW memo \in Memo, NEW hw \in Hosts, NEW answering
    PROVE  /\ address_allocate(d, memo, hw, answering).addr \in AnyAddr
           /\ address_allocate(d, memo, hw, answering).addr # NoAddr =>
                 Unused(d, address_allocate(d, memo, hw, answering).addr)
           /\ address_allocate(d, memo, hw, answering).memo \in Memo
<1> DEFINE scan == [i \in DOMAIN Ranges |-> Scan(d, memo, i, hw, answering)]
           hits == {i \in DOMAIN Ranges : scan[i].addr # NoAddr}
           last == IF hits = {} THEN Len(Ranges) ELSE FirstOf(hits)
           a == IF hits = {} THEN NoAddr ELSE scan[last].addr
           epoch == [ i \in DOMAIN Ranges |->
                        IF Consecutive \/ i > last THEN memo.epoch[i]
                        ELSE (memo.epoch[i] + scan[i].busy) % Size(Ranges[i]) ]
           pings == IF a = NoAddr \/ Checked(memo, a) THEN memo.pings
                    ELSE memo.pings \cup {[addr |-> a, hash |-> Hash[hw]]}
           o == address_allocate(d, memo, hw, answering)
<1>1. o.addr = a /\ o.memo = [memo EXCEPT !.epoch = epoch, !.pings = pings]
  BY DEF address_allocate
<1>2. \A i \in DOMAIN Ranges :
         /\ scan[i].addr \in AnyAddr /\ scan[i].busy \in Nat
         /\ scan[i].addr # NoAddr => Unused(d, scan[i].addr)
  BY ScanOK
<1>3. hits # {} => last \in hits
  <2>1. hits \in SUBSET Nat
    BY RangesType
  <2> HIDE DEF hits
  <2> QED
    BY <2>1, FirstOfOK
<1>4. a \in AnyAddr /\ (a # NoAddr => a \in Addrs /\ Unused(d, a))
  BY <1>2, <1>3 DEF AnyAddr
<1>5. epoch \in [DOMAIN Ranges -> Nat]
  <2> SUFFICES ASSUME NEW i \in DOMAIN Ranges PROVE epoch[i] \in Nat
    OBVIOUS
  <2>1. memo.epoch[i] \in Nat
    BY DEF Memo
  <2>2. (memo.epoch[i] + scan[i].busy) % Size(Ranges[i]) \in Nat
    <3>1. memo.epoch[i] + scan[i].busy \in Nat
      BY <1>2, <2>1
    <3> HIDE DEF scan
    <3> QED
      BY <3>1, RangeType, Modulo
  <2> HIDE DEF scan, last
  <2> QED
    BY <2>1, <2>2
<1>6. pings \in SUBSET [addr : Addrs, hash : Nat]
  <2> HIDE DEF a
  <2> QED
    BY <1>4, PoolAssumption DEF Memo
<1>7. o.memo \in Memo
  <2> HIDE DEF epoch, pings, o
  <2> QED
    BY <1>1, <1>5, <1>6 DEF Memo
<1> HIDE DEF a, o
<1> QED
  BY <1>1, <1>4, <1>7 DEF o

=============================================================================
