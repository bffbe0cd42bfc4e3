------------------------------ MODULE LeaseDb ------------------------------
(***************************************************************************)
(* The lease database of dnsmasq (lease.c) as a value and the functions of *)
(* lease.c as operators that take a database and return the next one.  The *)
(* server calls several of them while it handles one event, so they are    *)
(* not actions of their own.                                               *)
(*                                                                         *)
(* The linked list `leases' is a set here: where the code takes the first  *)
(* lease of the list that matches, the operator returns every match and    *)
(* the caller takes any of them.  The list's order has no other effect.    *)
(* IPv4 leases only, --dhcp-fqdn off, a lease file kept by dnsmasq itself. *)
(***************************************************************************)
EXTENDS DhcpNet, Sequences, SequencesExt

CONSTANT
    MaxLeases   \* daemon->dhcp_max, the number of leases the server may hold

ASSUME LeaseAssumption == MaxLeases \in Nat

NoHost == "-"   \* hwaddr_len = 256: no hardware address was stored yet

Lease ==
    [ addr : AnyAddr,
      hw : Hosts \cup {NoHost},
      clid : AnyClientId,
      expires : Nat,              \* 0 is "never"
      name : AnyName,             \* hostname
      oldname : AnyName,          \* old_hostname: a lost name still to be announced
      iface : BOOLEAN,            \* last_interface is set
      flags : SUBSET {"NEW", "CHANGED", "AUTH_NAME"} ]

Database ==
    [ leases : SUBSET Lease,
      old_leases : Seq(Lease),    \* removed, the script has not been told yet
      leases_left : Nat,
      file_dirty : BOOLEAN,
      dns_dirty : BOOLEAN ]

FreshLease(a) ==
    [ addr |-> a, hw |-> NoHost, clid |-> NoId, expires |-> 1, name |-> NoName,
      oldname |-> NoName, iface |-> FALSE, flags |-> {"NEW"} ]

NULL == FreshLease(NoAddr)      \* the null pointer to a lease

\* An operator that "returns a lease or NULL" gives the set of its results.
OrNull(S) == IF S = {} THEN {NULL} ELSE S

lease_find_by_addr(d, a) == {l \in d.leases : l.addr = a}

Leased(d, a) == \E l \in d.leases : l.addr = a

\* By client identifier; failing that by hardware address, but only if the
\* client or the lease has no client identifier.
lease_find_by_client(d, hw, clid) ==
    LET byClid == {l \in d.leases : clid # NoId /\ l.clid = clid}
        byHw == {l \in d.leases : (l.clid = NoId \/ clid = NoId) /\ l.hw = hw}
    IN  OrNull(IF byClid # {} THEN byClid ELSE byHw)

Expired(l, now) == l.expires # 0 /\ now > l.expires

\* Changed forms of lease_prune: leases_left, the file, the DNS or the script is
\* forgotten, or only expired leases go.
PruneUncounted(d, target, now) ==
    LET gone == {l \in d.leases : Expired(l, now) \/ l \in target} IN
    [d EXCEPT !.leases = @ \ gone, !.file_dirty = @ \/ gone # {}]
PruneUnsaved(d, target, now) ==
    LET gone == {l \in d.leases : Expired(l, now) \/ l \in target} IN
    [d EXCEPT !.leases = @ \ gone, !.leases_left = @ + Cardinality(gone)]
PruneNotInDns(d, target, now) ==
    LET gone == {l \in d.leases : Expired(l, now) \/ l \in target} IN
    [PruneUnsaved(d, target, now) EXCEPT !.file_dirty = @ \/ gone # {},
                                         !.old_leases = SetToSeq(gone) \o @]
PruneUnannounced(d, target, now) ==
    LET gone == {l \in d.leases : Expired(l, now) \/ l \in target} IN
    [ PruneUnsaved(d, target, now) EXCEPT !.file_dirty = @ \/ gone # {},
          !.dns_dirty = @ \/ \E l \in gone : l.name # NoName ]
PruneExpiredOnly(d, target, now) ==
    LET gone == {l \in d.leases : Expired(l, now)} IN
    [ PruneUnsaved(d, {}, now) EXCEPT !.file_dirty = @ \/ gone # {},
                                      !.old_leases = SetToSeq(gone) \o @ ]

\* Move the expired leases and those in `target' to old_leases.
lease_prune(d, target, now) ==
    LET gone == {l \in d.leases : Expired(l, now) \/ l \in target} IN
    [ leases |-> d.leases \ gone,
      old_leases |-> SetToSeq(gone) \o d.old_leases,
      leases_left |-> d.leases_left + Cardinality(gone),
      file_dirty |-> d.file_dirty \/ gone # {},
      dns_dirty |-> d.dns_dirty \/ \E l \in gone : l.name # NoName ]

(***************************************************************************)
(* A pointer to a lease of a database: the functions that change a lease   *)
(* take and return one.                                                    *)
(***************************************************************************)
At(d, l) == [d |-> d, l |-> l]

\* Change the lease pointed at.
Put(p, l2) == At([p.d EXCEPT !.leases = (@ \ {p.l}) \cup {l2}], l2)

Dirty(p, inFile, inDns) ==
    [p EXCEPT !.d.file_dirty = @ \/ inFile, !.d.dns_dirty = @ \/ inDns]

\* lease_allocate and lease4_allocate, when the table is not full.
lease4_allocate(d, a) ==
    At([ d EXCEPT !.leases = @ \cup {FreshLease(a)},
                  !.leases_left = @ - 1,
                  !.file_dirty = TRUE ], FreshLease(a))

\* lease_set_hwaddr: a client identifier is never removed, only replaced.
lease_set_hwaddr(p, hw, clid) ==
    LET clid2 == IF clid = NoId THEN p.l.clid ELSE clid
        moved == p.l.hw # hw
    IN  Dirty(Put(p, [ p.l EXCEPT !.hw = hw, !.clid = clid2,
                                  !.flags = IF moved THEN @ \cup {"CHANGED"} ELSE @ ]),
              moved \/ clid2 # p.l.clid, FALSE)

\* Changed forms of lease_set_expires: the file or the DNS is forgotten.
SetExpiresUnsaved(p, len, now) ==
    LET exp == IF len = 0 THEN 0 ELSE now + len
    IN  Dirty(Put(p, [p.l EXCEPT !.expires = exp]), FALSE, exp # p.l.expires)
SetExpiresNotInDns(p, len, now) ==
    LET exp == IF len = 0 THEN 0 ELSE now + len
    IN  Dirty(Put(p, [p.l EXCEPT !.expires = exp]), exp # p.l.expires, FALSE)

\* lease_set_expires; len = 0 stands for 0xffffffff, an infinite lease.
lease_set_expires(p, len, now) ==
    LET exp == IF len = 0 THEN 0 ELSE now + len
    IN  Dirty(Put(p, [p.l EXCEPT !.expires = exp]), exp # p.l.expires, exp # p.l.expires)

\* lease_set_interface: all requests come in on the same interface.
lease_set_interface(p) ==
    IF p.l.iface THEN p
    ELSE Put(p, [p.l EXCEPT !.iface = TRUE, !.flags = @ \cup {"CHANGED"}])

\* Changed form of kill_name: the loss is not announced.
KillNameSilently(l) == [l EXCEPT !.name = NoName]

\* The loss of the name is announced later; an earlier loss that was not yet
\* announced is forgotten.
kill_name(l) == [l EXCEPT !.oldname = l.name, !.name = NoName]

\* Changed form of TakeFrom: the name stays with its holder too.
TakeFromNobody(d, holder) == d

\* The leases in `holder' lose their names.
TakeFrom(d, holder) ==
    [d EXCEPT !.leases = (@ \ holder) \cup {kill_name(t) : t \in holder}]

\* Changed form of MayTakeFrom: whoever asks, gets the name.
MayTakeFromAll(t, auth) == TRUE

\* "Don't allow a name from the client to override a name from dnsmasq config".
MayTakeFrom(t, auth) == auth \/ "AUTH_NAME" \notin t.flags

\* lease_set_hostname: take the name from the lease that has it, unless that
\* name was given by the configuration and the new one is the client's.
lease_set_hostname(p, name, auth) ==
    LET holders == {t \in p.d.leases : t.name = name}
        holder == IF holders = {} THEN {} ELSE {CHOOSE t \in holders : TRUE}
        authFlag == IF auth THEN {"AUTH_NAME"} ELSE {}
        l2 == IF p.l.name = NoName THEN p.l ELSE kill_name(p.l)
        freed == [p EXCEPT !.d = TakeFrom(@, holder)]
    IN  IF p.l.name = name THEN Put(p, [p.l EXCEPT !.flags = @ \cup authFlag])
        ELSE IF \E t \in holder : ~MayTakeFrom(t, auth) THEN p
        ELSE Dirty(Put(freed, [ l2 EXCEPT !.name = name,
                                          !.flags = @ \cup {"CHANGED"} \cup authFlag ]),
                   TRUE, TRUE)

\* rerun_scripts
rerun_scripts(d) ==
    [d EXCEPT !.leases = {[l EXCEPT !.flags = @ \cup {"CHANGED"}] : l \in @}]

\* One line of the lease file.
Entry(l) == [addr |-> l.addr, hw |-> l.hw, clid |-> l.clid, expires |-> l.expires, name |-> l.name]
Entries(d) == {Entry(l) : l \in d.leases}
LeaseFile == SUBSET [ addr : AnyAddr, hw : Hosts \cup {NoHost}, clid : AnyClientId,
                      expires : Nat, name : AnyName ]

\* lease_init: every line becomes a lease that the script has been told of,
\* with a name that does not count as configured; then the expired ones go.
\* file_dirty is cleared before that, so that it shows whether any went.
FromFile(file) ==
    { [ addr |-> e.addr, hw |-> e.hw, clid |-> e.clid, expires |-> e.expires,
        name |-> e.name, oldname |-> NoName, iface |-> FALSE, flags |-> {} ] : e \in file }

lease_init(file, now) ==
    [ lease_prune([ leases |-> FromFile(file), old_leases |-> <<>>,
                    leases_left |-> MaxLeases - Cardinality(file),
                    file_dirty |-> FALSE, dns_dirty |-> FALSE ], {}, now)
      EXCEPT !.dns_dirty = TRUE ]

\* What lease_update_dns puts into the DNS cache.
DnsEntries(d) ==
    { [name |-> l.name, addr |-> l.addr, ttd |-> l.expires] :
        l \in {k \in d.leases : k.name # NoName} }

(***************************************************************************)
(* The consistency of a database.                                          *)
(***************************************************************************)

OneLeasePerAddr(d) == \A k, l \in d.leases : k.addr = l.addr => k = l
OneLeasePerClid(d) ==
    \A k, l \in d.leases : k.clid = l.clid /\ k.clid # NoId => k = l
OneLeasePerName(d) ==
    \A k, l \in d.leases : k.name = l.name /\ k.name # NoName => k = l
LeasesAccounted(d) == d.leases_left + Cardinality(d.leases) = MaxLeases
=============================================================================
