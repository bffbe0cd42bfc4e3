--------------------------- MODULE DhcpServerAlone ---------------------------
(***************************************************************************)
(* The DHCP server of dnsmasq with clients that send anything.  After a    *)
(* datagram, it and the replies to it are there to be looked at until the  *)
(* next step, which takes them away.                                       *)
(***************************************************************************)
EXTENDS DhcpServer

CONSTANTS
    ClientMsgs,     \* the datagrams that may arrive
    Answering,      \* the sets of addresses that may answer a ping
    MaxBacklog      \* bound on the lost leases the script has not heard of

ASSUME AloneAssumption ==
    ClientMsgs \subseteq RequestMsg /\ Answering \subseteq SUBSET Addrs /\ MaxBacklog \in Nat

VARIABLE
    asked           \* the datagram just handled, if any, as a set

vars == <<wire, server, asked>>

Init == ServerInit /\ wire = {} /\ asked = {}

Receive(m) ==
    /\ asked = {} /\ asked' = {m}
    /\ Len(db.old_leases) < MaxBacklog
    /\ \E answering \in Answering : DhcpPacket(m, answering)

Deliver == asked # {} /\ asked' = {} /\ wire' = {} /\ UNCHANGED server

\* An event of the server's that is no datagram.
Other(action) == asked = {} /\ UNCHANGED asked /\ action

Next ==
    \/ \E m \in ClientMsgs : Receive(m)
    \/ Deliver
    \/ Other(ServerNext)

Spec == Init /\ [][Next]_vars

\* The kernel delivers SIGALRM, sig_handler writes the event into the pipe, and
\* the main loop reads the pipe in order: other events and datagrams come before
\* the alarm, but not for ever.
FairSpec == Spec /\ SF_vars(Other(AlarmEvent)) /\ WF_vars(Deliver)

(***************************************************************************)
(* Safety.                                                                 *)
(***************************************************************************)

TypeOK == ServerTypeOK /\ wire \subseteq ReplyMsg /\ asked \subseteq RequestMsg

\* lease.c: every lease stands for one address, one client and one name, and
\* leases_left counts what may still be allocated.
AddressHasOneLease == OneLeasePerAddr(db)
ClientHasOneLease == OneLeasePerClid(db)
NameHasOneLease == OneLeasePerName(db)
TableIsCounted == LeasesAccounted(db)

\* lease_update_file, file_dirty: a change of a lease that matters on disk is
\* never forgotten; the file is what memory is, or a rewrite is due.
FileMatchesLeases == up /\ ~db.file_dirty => file = Entries(db)

\* lease_update_file, send_alarm: while dnsmasq runs, the alarm is armed soon
\* enough for the first expiry and for the retry of a failed write.
AlarmCovers ==
    up => /\ \A t \in Finite(db) : alarm # 0 /\ alarm <= t + SLOP
          /\ db.file_dirty => alarm # 0 /\ alarm <= now + LEASE_RETRY

\* lease_update_dns, dns_dirty: a name resolves to an address as long as the lease
\* on the address has that name and does not run out now, although the alarm prunes
\* leases without touching the DNS cache.  The cache drops an entry when its time to
\* die has come, the table keeps a lease until its last moment is over.
Resolves(e) == e.ttd = 0 \/ now < e.ttd
DnsShowsLeases ==
    up => {e \in dns : Resolves(e)} = {e \in DnsEntries(db) : Resolves(e)}

\* dhcp_reply, config_find_by_address: the address of a dhcp-host line is leased to
\* the host of that line only.  Another host that had it when the line came into
\* force by a reload or a restart keeps it to the end, but no REQUEST prolongs it
\* or is acknowledged; by BOOTP, which does not look at the line, the host keeps it.
OfLine(c, l) == config_has_mac(c, l.hw) \/ (c.clid # NoId /\ c.clid = l.clid)
HadIt(l) ==
    \E k \in IF up THEN Entries(db) ELSE file :
        /\ k.addr = l.addr /\ k.hw = l.hw
        /\ \/ k.expires = l.expires /\ \A r \in wire' \ wire : r.type = "ack" => r.yiaddr # l.addr
           \/ \E m \in asked' : m.type = "bootp"
ReservedForItsHost ==
    [][ up' => \A l \in db'.leases, c \in OnLink' :
                  c.addr = l.addr /\ c.addr # NoAddr => OfLine(c, l) \/ HadIt(l) ]_vars

\* lease_set_hostname: "Don't allow a name from the client to override a name
\* from dnsmasq config": while a lease stays that has its name by a dhcp-host
\* line, no other gets the name unless a line of its host gives it too.
GivenTo(conf, n, l) == \E c \in conf : c.name = n /\ OfLine(c, l)
ConfiguredNameIsKept ==
    [][ \A l \in db.leases, k \in db'.leases :
          /\ up /\ up' /\ l.name # NoName /\ "AUTH_NAME" \in l.flags /\ Leased(db', l.addr)
          /\ k.name = l.name
          => k.addr = l.addr \/ GivenTo(dhcp_conf', l.name, k) ]_vars

\* do_script_run: "make sure we announce the loss of a hostname before its new
\* location": the script never believes that two addresses have one name.
ScriptNamesUnique ==
    \A a, b \in Addrs \ script.missed :
        a # b /\ script.told[a].name # NoName => script.told[a].name # script.told[b].name

\* do_script_run, rerun_scripts: when there is nothing more to announce, the
\* script knows the leases as they are, except for news that a dying process
\* or a broken pipe took along.
ScriptKnowsLeases ==
    up /\ LeaseScript /\ script.buf = {} /\ ~ScriptWork(db) =>
        \A a \in Addrs \ script.missed :
            IF Leased(db, a)
            THEN \E l \in db.leases : l.addr = a /\ script.told[a] = [present |-> TRUE, name |-> l.name]
            ELSE script.told[a] = Unheard

\* dhcp_reply: a datagram costs no other client its unexpired lease, unless the
\* two are interfaces of one dhcp-host line: "If this request is missing a clid,
\* but we've seen one before, use it again".
ClidsOf(m) ==
    (IF m.clid # NoId THEN {m.clid} ELSE {l.clid : l \in {k \in db.leases : k.hw = m.chaddr}})
    \ {NoId}
SameClient(l, m) ==
    \/ l.hw = m.chaddr
    \/ m.clid # NoId /\ l.clid = m.clid
    \/ \E c \in dhcp_conf : config_has_mac(c, l.hw) /\ (config_has_mac(c, m.chaddr) \/ c.clid \in ClidsOf(m))
Untouched(l) == \E k \in db'.leases : k.addr = l.addr /\ k.hw = l.hw /\ k.expires = l.expires
TakenFromNobodyElse ==
    [][ up' => \A m \in asked', l \in db.leases :
                  Expired(l, now) \/ Untouched(l) \/ SameClient(l, m) ]_vars

\* dhcp_reply, DHCPDISCOVER and DHCPREQUEST: what is offered is granted when
\* the client asks for it at once; otherwise it would start over for ever.
SelectRequest(m, offer) ==
    [m EXCEPT !.type = "request", !.reqip = offer.yiaddr, !.sid = offer.sid]
Refused(m) ==
    \E lease \in lease_find_by_client(Pruned, m.chaddr, m.clid) :
        LET mine == IF Squashes(m, lease) THEN NULL ELSE lease
            d == IF Squashes(m, lease) THEN lease_prune(Pruned, {lease}, now) ELSE Pruned
        IN  \/ Ignored(m, lease) \/ WrongClient(m, lease)
            \/ WrongAddress(d, m, ConfigOf(m, lease), mine)
OfferIsHonoured ==
    \A offer \in wire, m \in asked : offer.type = "offer" => ~Refused(SelectRequest(m, offer))

\* dhcp_reply: "Be very sure that when the client does DISCOVER, it will get
\* the static address, otherwise an endless protocol loop will ensue": a host
\* that is refused its address for the sake of its configured one and starts
\* over is offered that one.  `lease' is what lease_find_by_client finds first,
\* both times.
StaticLeaseAvailable(m, lease) ==
    LET config == ConfigOf(m, lease) IN
    /\ ~Selecting(m) /\ ~Ignored(m, lease) /\ ~WrongClient(m, lease)
    /\ config.addr \notin {NoAddr, Wanted(m)} /\ NotRouter(config)
    /\ Declined(config) => now - memo.declined[config] > DECLINE_BACKOFF
    /\ lease_find_by_addr(Pruned, config.addr) \subseteq {lease}
StartOver(m) == [m EXCEPT !.type = "discover", !.reqip = NoAddr, !.ciaddr = NoAddr]
IsOffered(m, lease, a) ==
    /\ ~ConfigOf(m, lease).disabled
    /\ \A answering \in Answering : OfferFor(Pruned, m, lease, answering).addr = a
    /\ narrow_context(Ranges, a) # <<>>
StaticIsOffered ==
    \A m \in ClientMsgs : up /\ m.type = "request" =>
        \A lease \in lease_find_by_client(Pruned, m.chaddr, m.clid) :
            StaticLeaseAvailable(m, lease) =>
                IsOffered(StartOver(m), lease, ConfigOf(m, lease).addr)

\* dhcp_reply, lease4_allocate: the server does not fall over a datagram.
\* (It does when the table is full: lease4_allocate stores through NULL.)
ServerKeepsRunning == asked # {} => up

(***************************************************************************)
(* Liveness.                                                               *)
(***************************************************************************)

\* lease_update_file, EVENT_ALARM: a lease that ran out does not stay, even if
\* no client ever sends anything again.
Overdue(a) == up /\ \E l \in db.leases : l.addr = a /\ l.expires # 0 /\ now >= l.expires + SLOP
ExpiredLeasesGo == \A a \in Addrs : Overdue(a) ~> ~Overdue(a)
=============================================================================
