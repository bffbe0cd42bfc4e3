----------------------------- MODULE DhcpServer -----------------------------
(***************************************************************************)
(* The DHCPv4 server of dnsmasq: dhcp_packet()/dhcp_reply() with the lease *)
(* database, the lease file, the alarm that prunes it, the names given to  *)
(* the DNS cache, and the lease-change script.                             *)
(*                                                                         *)
(* dnsmasq is one process with one event loop: an event (a datagram, the   *)
(* alarm, a signal, a writable helper pipe) is handled to the end before   *)
(* the next one, so a handler is one action.  The process may be killed    *)
(* between two events or while it rewrites the lease file.                 *)
(*                                                                         *)
(* Abstracted: the interface's own configuration (see DhcpPool); vendor and *)
(* user classes, PXE; configuration lines by host name only and addresses  *)
(* for them or for leases in /etc/hosts; the options that only fill a      *)
(* reply.                                                                  *)
(* Time is counted in units far longer than a DHCP exchange.               *)
(***************************************************************************)
EXTENDS DhcpPool

CONSTANTS
    IfaceAddr,      \* the interface's address, the server-id of last resort
    OtherIds,       \* the addresses of the server's other DHCP interfaces
    LeaseTimes,     \* lease lengths; 0 is infinite
    Authoritative,  \* --dhcp-authoritative
    BootpDynamic,   \* --bootp-dynamic
    Muted,          \* whether net.dhcpresponseenable may be "disable" (dongle)
    LeaseScript,    \* --dhcp-script is given
    SLOP,           \* alarm after the first expiry: 10 s
    LEASE_RETRY,    \* alarm after a failed write of the lease file: 60 s
    MaxTime,        \* bound on the clock
    MaxFaults       \* bound on crashes, stops and failed writes

ASSUME ServerAssumption ==
    /\ IfaceAddr \in ServerIds /\ OtherIds \subseteq ServerIds
    /\ LeaseTimes \subseteq Nat
    /\ {Authoritative, BootpDynamic, Muted, LeaseScript} \subseteq BOOLEAN
    /\ {SLOP, LEASE_RETRY, MaxTime, MaxFaults} \subseteq Nat

VARIABLES
    db,         \* the lease database in memory
    file,       \* the lease file on disk
    alarm,      \* when SIGALRM comes; 0 if it is not armed
    dns,        \* the DHCP names in the DNS cache
    memo,       \* what address selection remembers, see Memo
    now,        \* the clock
    up,         \* the process is running
    script,     \* the helper's buffer, and what the script has been told
    faults      \* number of crashes, stops and failed writes so far

server == <<dhcp_conf, db, file, alarm, dns, memo, now, up, script, faults>>

EmptyDb == [ leases |-> {}, old_leases |-> <<>>, leases_left |-> MaxLeases,
             file_dirty |-> FALSE, dns_dirty |-> FALSE ]

\* What the script was last told of an address.
Word == [present : BOOLEAN, name : AnyName]
Unheard == [present |-> FALSE, name |-> NoName]

Event == [action : {"add", "old", "del", "old_hostname"}, addr : AnyAddr, name : AnyName]

\* The helper's buffer, what the script was told, and the addresses whose last
\* news was lost when a process died.
Script == [ buf : SUBSET Event, told : [Addrs -> Word], missed : SUBSET AnyAddr ]

ServerTypeOK ==
    /\ dhcp_conf \in Configurations
    /\ db \in Database
    /\ file \in LeaseFile
    /\ alarm \in Nat
    /\ dns \subseteq [name : AnyName, addr : AnyAddr, ttd : Nat]
    /\ memo \in Memo
    /\ now \in Nat \ {0}
    /\ up \in BOOLEAN
    /\ script \in Script
    /\ faults \in Nat

ServerInit ==
    /\ dhcp_conf \in Configurations
    /\ db = EmptyDb /\ file = {} /\ alarm = 0 /\ dns = {} /\ memo = EmptyMemo
    /\ now = 1 /\ up = TRUE /\ faults = 0
    /\ script = [buf |-> {}, told |-> [a \in Addrs |-> Unheard], missed |-> {}]

(***************************************************************************)
(* After the handler: lease file, alarm, DNS, script (lease.c).            *)
(***************************************************************************)

\* What the end of the file holds when it is not rewritten to the end: nothing
\* was truncated yet, or only some leases were written.
Torn(d) == {file} \cup SUBSET Entries(d)

Finite(d) == {l.expires : l \in {k \in d.leases : k.expires # 0}}

\* Changed forms of NextAlarm: a failed write is not retried; the last expiry
\* counts, not the first.
NextAlarmNoRetry(d, err, old) ==
    LET events == {t + SLOP : t \in Finite(d)}
    IN  IF events = {} THEN old ELSE CHOOSE t \in events : \A u \in events : t <= u
NextAlarmLast(d, err, old) ==
    LET events == {t + SLOP : t \in Finite(d)} \cup (IF err THEN {now + LEASE_RETRY} ELSE {})
    IN  IF events = {} THEN old ELSE CHOOSE t \in events : \A u \in events : u <= t

\* The alarm lease_update_file sets; send_alarm(0) leaves the old one armed.
NextAlarm(d, err, old) ==
    LET events == {t + SLOP : t \in Finite(d)} \cup (IF err THEN {now + LEASE_RETRY} ELSE {})
    IN  IF events = {} THEN old ELSE CHOOSE t \in events : \A u \in events : t <= u

\* do_script_run has something to announce.
ScriptWork(d) ==
    \/ d.old_leases # <<>>
    \/ \E l \in d.leases : l.oldname # NoName \/ l.flags \cap {"NEW", "CHANGED"} # {}

\* Without a script the main loop runs through do_script_run before it selects.
Settled(d) ==
    IF LeaseScript THEN d
    ELSE [ d EXCEPT !.old_leases = <<>>,
                    !.leases = {[ l EXCEPT !.oldname = NoName,
                                           !.flags = @ \ {"NEW", "CHANGED"} ] : l \in @} ]

\* The process dies: everything in memory is gone, news for the script too (a
\* lost lease or name; a lease that is not in the file).
Dies(d) ==
    /\ up' = FALSE /\ db' = EmptyDb /\ alarm' = 0 /\ dns' = {} /\ memo' = EmptyMemo
    /\ script' = IF ~LeaseScript THEN script ELSE
         [ script EXCEPT !.buf = {}, !.missed = @ \cup {e.addr : e \in script.buf}
                        \cup {d.old_leases[i].addr : i \in DOMAIN d.old_leases}
                        \cup {l.addr : l \in {k \in d.leases : k.oldname # NoName
                                                              \/ Entry(k) \notin file'}} ]
    /\ UNCHANGED <<now, wire>>

\* Killed in lease_update_file, or after it but before the reply is sent.
KilledWhileSaving(d) ==
    /\ d.file_dirty /\ faults < MaxFaults
    /\ faults' = faults + 1
    /\ file' \in Torn(d) \cup {Entries(d)}
    /\ Dies(d)

\* The end of every handler: lease_update_file, with `armed' the alarm before,
\* then by `mode' lease_update_dns(0), or lease_update_dns(1) and rerun_scripts
\* for a reload, or neither; then the reply is sent.  A failed write is logged
\* and retried when the alarm comes.
Save(d, armed, mode, memo2, reply) ==
    \/ \E err \in BOOLEAN :
          LET toDns == mode = "reload" \/ (mode = "packet" /\ d.dns_dirty)
              saved == [d EXCEPT !.file_dirty = @ /\ err, !.dns_dirty = @ /\ ~toDns]
          IN
          /\ err => d.file_dirty /\ faults < MaxFaults
          /\ faults' = IF err THEN faults + 1 ELSE faults
          /\ IF ~d.file_dirty THEN file' = file
             ELSE IF err THEN file' \in Torn(d)
             ELSE file' = Entries(d)
          /\ alarm' = NextAlarm(d, err, armed)
          /\ dns' = IF toDns THEN DnsEntries(d) ELSE dns
          /\ db' = Settled(IF mode = "reload" THEN rerun_scripts(saved) ELSE saved)
          /\ up' = TRUE /\ memo' = memo2 /\ wire' = wire \cup reply
          /\ UNCHANGED <<now, script>>
    \/ KilledWhileSaving(d)

(***************************************************************************)
(* The handlers of dhcp_reply (rfc2131.c).                                 *)
(***************************************************************************)

\* dhcp_packet prunes before dhcp_reply, and saves after it.
Pruned == lease_prune(db, {}, now)
Finish(d, memo2, reply) == Save(d, alarm, "packet", memo2, reply) /\ UNCHANGED dhcp_conf

\* server_id: the local address of the context, if there is one left.
server_id(chain) == IF chain = <<>> THEN IfaceAddr ELSE chain[1].router

Answer(m, type, a, sid) ==
    {[dir |-> "reply", type |-> type, chaddr |-> m.chaddr, xid |-> m.xid,
      yiaddr |-> a, sid |-> sid]}

\* "Some buggy clients set ciaddr when they shouldn't, so clear that here".
Ciaddr(m) == IF m.reqip # NoAddr \/ m.type = "discover" THEN NoAddr ELSE m.ciaddr

\* A client without an identifier is given the one its lease has.
ClidOf(m, lease) == IF m.clid = NoId THEN lease.clid ELSE m.clid
ConfigOf(m, lease) == find_config(OnLink, ClidOf(m, lease), m.chaddr)

Declined(config) == config # NoConfig /\ memo.declined[config] # 0
\* Changed form of BackingOff: it never ends.
BackingOffForEver(config) == Declined(config)
BackingOff(config) == Declined(config) /\ now - memo.declined[config] < DECLINE_BACKOFF

\* DHCPDISCOVER: the address to offer, in the code's order of preference.
OfferFor(d, m, lease, answering) ==
    LET config == ConfigOf(m, lease)
        known(a) == [addr |-> a, memo |-> memo]
        useConfig ==
            /\ config.addr # NoAddr
            /\ \A l \in lease_find_by_addr(d, config.addr) :
                  l = lease \/ config_has_mac(config, l.hw)
            /\ NotRouter(config)
            /\ ~BackingOff(config)
        useLease ==
            /\ lease # NULL
            /\ address_available(Ranges, lease.addr) # <<>>
            /\ config_find_by_address(lease.addr) = {}
        useRequested ==
            /\ m.reqip # NoAddr
            /\ address_available(Ranges, m.reqip) # <<>>
            /\ ~Leased(d, m.reqip)
            /\ config_find_by_address(m.reqip) = {}
    IN  IF useConfig THEN known(config.addr)
        ELSE IF useLease THEN known(lease.addr)
        ELSE IF useRequested THEN known(m.reqip)
        ELSE address_allocate(d, memo, m.chaddr, answering)

\* No reply if nothing is left or the address is not on the network.
DHCPDISCOVER(m, answering) ==
    /\ m.type = "discover"
    /\ \E lease \in lease_find_by_client(Pruned, m.chaddr, m.clid) :
          LET o == OfferFor(Pruned, m, lease, answering) IN
          IF ConfigOf(m, lease).disabled THEN Finish(Pruned, memo, {})
          ELSE Finish(Pruned, o.memo,
                      IF o.addr = NoAddr \/ narrow_context(Ranges, o.addr) = <<>> THEN {}
                      ELSE Answer(m, "offer", o.addr, server_id(narrow_context(Ranges, o.addr))))

\* DHCPREQUEST.  What the client is doing, from the options it sends.
Selecting(m) == m.reqip # NoAddr /\ m.sid # NoAddr
InitReboot(m) == m.reqip # NoAddr /\ m.sid = NoAddr
Renewing(m) == m.reqip = NoAddr

\* yiaddr of the reply: the address the client wants to have.
Wanted(m) == IF Renewing(m) THEN Ciaddr(m) ELSE m.reqip

\* SELECTING: the contexts from the first whose local address is the server-id.
SelectedChain(m) ==
    LET mine == {i \in DOMAIN Ranges : Ranges[i].router = m.sid}
    IN  IF ~Selecting(m) THEN Ranges
        ELSE IF mine = {} THEN <<>>
        ELSE SubSeq(Ranges, CHOOSE i \in mine : \A j \in mine : i <= j, Len(Ranges))

\* The client's state does not fit: it renews what it does not have, reboots
\* with another address than the one it has, or talks to another server.
Unknown(m, lease) == IF lease = NULL THEN ~Authoritative ELSE lease.addr # Ciaddr(m)
WrongServer(m) == Selecting(m) /\ SelectedChain(m) = <<>> /\ m.sid \notin OtherIds
WrongClient(m, lease) ==
    \/ WrongServer(m)
    \/ InitReboot(m) /\ lease # NULL /\ lease.addr # m.reqip
    \/ Renewing(m) /\ Unknown(m, lease)

\* The request is dropped without a reply.
Ignored(m, lease) ==
    \/ ConfigOf(m, lease).disabled
    \/ WrongServer(m) /\ ~Authoritative
    \/ InitReboot(m) /\ lease = NULL /\ ~Authoritative
    \/ Renewing(m) /\ Unknown(m, lease) /\ ~m.unicast

\* SELECTING: "If a lease exists for this host and another address, squash it."
Squashes(m, lease) == Selecting(m) /\ lease # NULL /\ lease.addr # m.reqip

\* Changed forms of Reserved and InUse: the check is not made.
NeverReserved(a, config) == FALSE
NeverInUse(d, a, config) == FALSE

\* "address reserved": the address is that of another host's line.
Reserved(a, config) == \E c \in config_find_by_address(a) : c # config

\* "address in use", by a lease that is not one of the same configured host.
InUse(d, a, config) == \E l \in lease_find_by_addr(d, a) : ~config_has_mac(config, l.hw)

\* The wanted address cannot be given; `mine' is the client's lease that is left.
WrongAddress(d, m, config, mine) ==
    LET chain == SelectedChain(m)
        range == narrow_context(chain, Wanted(m))
    IN  \/ range = <<>>                                     \* wrong network
        \/ /\ address_available(range, Wanted(m)) = <<>>    \* address not available
           /\ config.addr # Wanted(m)
        \/ /\ ~Selecting(m)                                 \* static lease available
           /\ config.addr \notin {NoAddr, Wanted(m)} /\ NotRouter(config)
           /\ Declined(config) => now - memo.declined[config] > DECLINE_BACKOFF
           /\ lease_find_by_addr(d, config.addr) \subseteq {mine}
        \/ Reserved(Wanted(m), config)
        \/ mine = NULL /\ InUse(d, Wanted(m), config)

\* The server-id of a NAK: an interface whose id the client used, the context
\* that is left, or the interface's address.
NakId(m, lease) ==
    IF Selecting(m) /\ SelectedChain(m) = <<>>
    THEN IF m.sid \in OtherIds THEN m.sid ELSE IfaceAddr
    ELSE IF WrongClient(m, lease) THEN server_id(Ranges)
    ELSE server_id(narrow_context(SelectedChain(m), Wanted(m)))

\* Changed form of Grantee: a client without a lease always gets a new one.
GranteeAlwaysNew(d, m, mine) ==
    IF mine # NULL THEN At(d, mine) ELSE lease4_allocate(d, Wanted(m))

\* The lease that is granted: the client's, one abandoned by another interface
\* of the same configured host, or a new one.
Grantee(d, m, mine) ==
    IF mine # NULL THEN At(d, mine)
    ELSE IF Leased(d, Wanted(m)) THEN At(d, CHOOSE l \in d.leases : l.addr = Wanted(m))
    ELSE lease4_allocate(d, Wanted(m))

\* `do_classes': a lease is announced again unless it is just renewed.
MarkChanged(p, m, fresh) ==
    IF Renewing(m) /\ ~fresh THEN p ELSE Put(p, [p.l EXCEPT !.flags = @ \cup {"CHANGED"}])

Named(p, name, auth) == IF name = NoName THEN p ELSE lease_set_hostname(p, name, auth)

\* A name from the configuration goes before the client's.
NamedFor(p, m, config) ==
    IF config.name # NoName THEN Named(p, config.name, TRUE) ELSE Named(p, m.name, FALSE)

\* What granting writes into the lease: who has it, its name, its length and its interface.
Granted(d, m, config, mine, clid, len) ==
    LET fresh == mine = NULL /\ ~Leased(d, Wanted(m))
        p == lease_set_hwaddr(MarkChanged(Grantee(d, m, mine), m, fresh), m.chaddr, clid)
    IN  lease_set_interface(lease_set_expires(NamedFor(p, m, config), len, now))

\* lease_allocate returns NULL and lease4_allocate stores through it.
TableFull(d, m, mine) == mine = NULL /\ ~Leased(d, Wanted(m)) /\ d.leases_left = 0
NullDereference(d) == UNCHANGED <<dhcp_conf, file, faults>> /\ Dies(d)

DHCPREQUEST(m) ==
    /\ m.type = "request"
    /\ \E lease \in lease_find_by_client(Pruned, m.chaddr, m.clid) :
          LET config == ConfigOf(m, lease)
              clid == IF config.noclid THEN NoId ELSE ClidOf(m, lease)
              mine == IF Squashes(m, lease) THEN NULL ELSE lease
              d == IF Squashes(m, lease) THEN lease_prune(Pruned, {lease}, now) ELSE Pruned
              wrong == WrongClient(m, lease) \/ WrongAddress(d, m, config, mine)
          IN  IF Ignored(m, lease) THEN Finish(Pruned, memo, {})
              ELSE \/ Muted /\ Finish(d, memo, {})
                   \/ wrong /\ Finish(d, memo, Answer(m, "nak", NoAddr, NakId(m, lease)))
                   \/ ~wrong /\ TableFull(d, m, mine) /\ NullDereference(d)
                   \/ /\ ~wrong /\ ~TableFull(d, m, mine)
                      /\ \E len \in LeaseTimes :
                            Finish(Granted(d, m, config, mine, clid, len).d, memo,
                                   Answer(m, "ack", Wanted(m),
                                          server_id(narrow_context(SelectedChain(m), Wanted(m)))))

\* DHCPDECLINE: the client found its address in use.
DHCPDECLINE(m) ==
    /\ m.type = "decline"
    /\ \E lease \in lease_find_by_client(Pruned, m.chaddr, m.clid) :
          LET config == ConfigOf(m, lease)
              d == IF lease.addr = m.reqip THEN lease_prune(Pruned, {lease}, now) ELSE Pruned
          IN  IF m.sid # server_id(Ranges) \/ m.reqip = NoAddr THEN Finish(Pruned, memo, {})
              ELSE IF config.addr = m.reqip
              THEN Finish(d, [memo EXCEPT !.declined[config] = now], {})
              ELSE Finish(d, [memo EXCEPT !.epoch =
                                 [i \in DOMAIN Ranges |-> (@[i] + 1) % Size(Ranges[i])]], {})

DHCPRELEASE(m) ==
    /\ m.type = "release"
    /\ \E lease \in lease_find_by_client(Pruned, m.chaddr, m.clid) :
          IF /\ narrow_context(Ranges, Ciaddr(m)) # <<>>
             /\ m.sid = server_id(narrow_context(Ranges, Ciaddr(m)))
             /\ lease # NULL /\ lease.addr = Ciaddr(m)
          THEN Finish(lease_prune(Pruned, {lease}, now), memo, {})
          ELSE Finish(Pruned, memo, {})

\* DHCPINFORM: the lease is looked up by address if the client is not known.
DHCPINFORM(m) ==
    /\ m.type = "inform"
    /\ \E found \in lease_find_by_client(Pruned, m.chaddr, m.clid) :
       \E lease \in IF found # NULL THEN {found}
                    ELSE OrNull(lease_find_by_addr(Pruned, Ciaddr(m))) :
          IF ConfigOf(m, found).disabled \/ Ciaddr(m) = NoAddr THEN Finish(Pruned, memo, {})
          ELSE Finish(IF lease = NULL THEN Pruned
                      ELSE lease_set_interface(At(Pruned, lease)).d, memo,
                      Answer(m, "ack", NoAddr, server_id(narrow_context(Ranges, Ciaddr(m)))))

\* A BOOTP request: no client identifier, no handshake, and an infinite lease
\* unless the line says otherwise.
BOOTP(m, answering) ==
    LET config == find_config(OnLink, NoId, m.chaddr)
        nailed == config.addr # NoAddr
        grant(d, memo2, lease, a) ==
            IF \/ narrow_context(Ranges, a) = <<>>          \* wrong network
               \/ ~nailed /\ ~BootpDynamic                  \* no address configured
            THEN Finish(d, memo2, {})
            ELSE IF lease = NULL /\ d.leases_left = 0 THEN NullDereference(d)
            ELSE LET p == IF lease = NULL THEN lease4_allocate(d, a) ELSE At(d, lease)
                     q == Named(lease_set_hwaddr(p, m.chaddr, NoId), config.name, TRUE)
                 IN  Finish(lease_set_interface(lease_set_expires(q, config.time, now)).d, memo2,
                            Answer(m, "bootp", a, NoAddr))
    IN
    /\ m.type = "bootp"
    /\ IF config.disabled THEN Finish(Pruned, memo, {})
       ELSE IF nailed
       THEN \E lease \in OrNull(lease_find_by_addr(Pruned, config.addr)) :
               IF lease # NULL /\ lease.hw # m.chaddr       \* address in use
               THEN Finish(Pruned, memo, {})
               ELSE grant(Pruned, memo, lease, config.addr)
       ELSE \E lease \in lease_find_by_client(Pruned, m.chaddr, NoId) :
               IF lease # NULL /\ address_available(Ranges, lease.addr) # <<>>
               THEN grant(Pruned, memo, lease, lease.addr)
               ELSE LET d == IF lease = NULL THEN Pruned ELSE lease_prune(Pruned, {lease}, now)
                        o == address_allocate(d, memo, m.chaddr, answering)
                    IN  IF o.addr = NoAddr THEN Finish(d, o.memo, {})
                        ELSE grant(d, o.memo, NULL, o.addr)

\* dhcp_packet; `answering' are the addresses that answer a ping.  One pass of the
\* loop handles an event from the pipe and then a datagram, so there may be news
\* for the script that do_script_run could have queued.
DhcpPacket(m, answering) ==
    /\ up
    /\ \/ DHCPDISCOVER(m, answering)
       \/ DHCPREQUEST(m)
       \/ DHCPDECLINE(m)
       \/ DHCPRELEASE(m)
       \/ DHCPINFORM(m)
       \/ BOOTP(m, answering)

(***************************************************************************)
(* The other events of the main loop (dnsmasq.c), and the world outside.   *)
(***************************************************************************)

\* Changed form of AlarmEvent: it saves but does not prune.
AlarmEventWithoutPrune ==
    up /\ alarm # 0 /\ now >= alarm /\ Save(db, 0, "none", memo, {}) /\ UNCHANGED dhcp_conf

\* EVENT_ALARM: prune and save; the DNS cache is left to its times to die.
AlarmEvent ==
    /\ up /\ alarm # 0 /\ now >= alarm
    /\ Save(Pruned, 0, "none", memo, {})
    /\ UNCHANGED dhcp_conf

\* The name that the lines of a configuration give to a lease.
ConfiguredName(conf, l) ==
    LET config == find_config(conf, l.clid, l.hw)
    IN  IF config.addr \in {NoAddr, l.addr} THEN config.name ELSE NoName

\* lease_update_from_configs goes through the leases in the order `pos' and
\* names each one that has a configured name (lease_set_hostname with auth):
\* the last lease that claims a name has it in the end.
lease_update_from_configs(conf, d, pos) ==
    LET claims(n) == {k \in d.leases : n # NoName /\ ConfiguredName(conf, k) = n}
        first(l) == \A k \in claims(ConfiguredName(conf, l)) : pos[l] <= pos[k]
        last(l) == \A k \in claims(ConfiguredName(conf, l)) : pos[k] <= pos[l]
        keeps(l) == ConfiguredName(conf, l) = l.name /\ first(l)
        claimed(l) ==
            [ l EXCEPT !.name = IF last(l) THEN ConfiguredName(conf, l) ELSE NoName,
                       !.oldname = IF ~last(l) THEN ConfiguredName(conf, l)
                                   ELSE IF l.name = NoName \/ keeps(l) THEN @ ELSE l.name,
                       !.flags = @ \cup {"AUTH_NAME"} \cup (IF keeps(l) THEN {} ELSE {"CHANGED"}) ]
        after(l) == IF ConfiguredName(conf, l) # NoName THEN claimed(l)
                    ELSE IF claims(l.name) # {} THEN kill_name(l)
                    ELSE l
        renamed == \E l \in d.leases : ConfiguredName(conf, l) # NoName /\ ~keeps(l)
    IN  [ d EXCEPT !.leases = {after(l) : l \in @},
                   !.file_dirty = @ \/ renamed, !.dns_dirty = @ \/ renamed ]

\* EVENT_RELOAD: clear_cache_and_reload and rerun_scripts, with the lines `conf'.
ReloadOf(conf, d, armed, memo2) ==
    /\ dhcp_conf' = conf
    /\ \E pos \in Bijection(d.leases, 1 .. Cardinality(d.leases)) :
          Save(lease_update_from_configs(conf, d, pos), armed, "reload", memo2, {})

\* The lines that were read again have not been declined.
Reread(declined) == [c \in DOMAIN declined |-> IF c.reread THEN 0 ELSE declined[c]]

\* SIGHUP: dhcp_read_ethers and reread_dhcp read their files again; the lines of
\* the configuration file and the command line stay.
Reload ==
    /\ up
    /\ \E conf \in Configurations :
          /\ {c \in conf : ~c.reread} = {c \in dhcp_conf : ~c.reread}
          /\ ReloadOf(conf, db, alarm, [memo EXCEPT !.declined = Reread(@)])

\* All lines are read, and lease_init reads the leases; a reload waits in the event
\* pipe before anything else.
Restart ==
    ~up /\ \E conf \in Configurations : ReloadOf(conf, lease_init(file, now), 0, memo)

\* do_script_run: the next piece of news for the script, into the helper's
\* buffer: lost leases, then lost names, then new and changed leases.
DoScriptRun ==
    LET tell(action, l, name) == {[action |-> action, addr |-> l.addr, name |-> name]}
        queue(e, d) == /\ script' = [script EXCEPT !.buf = e]
                       /\ db' = d
        head == db.old_leases[1]
        silent(l) == [l EXCEPT !.oldname = NoName]
        known(l) == [l EXCEPT !.flags = @ \ {"NEW", "CHANGED"}]
        lost == {l \in db.leases : l.oldname # NoName}
        news == {l \in db.leases : l.flags \cap {"NEW", "CHANGED"} # {}}
    IN
    /\ up /\ LeaseScript /\ script.buf = {}
    /\ IF db.old_leases # <<>>
       THEN IF head.oldname # NoName
            THEN queue(tell("old_hostname", head, head.oldname),
                       [db EXCEPT !.old_leases[1] = silent(head)])
            ELSE queue(tell("del", head, head.name), [db EXCEPT !.old_leases = Tail(@)])
       ELSE IF lost # {}
       THEN \E l \in lost : queue(tell("old_hostname", l, l.oldname),
                                  [db EXCEPT !.leases = (@ \ {l}) \cup {silent(l)}])
       ELSE \E l \in news : queue(tell(IF "NEW" \in l.flags THEN "add" ELSE "old", l, l.name),
                                  [db EXCEPT !.leases = (@ \ {l}) \cup {known(l)}])
    /\ UNCHANGED <<wire, dhcp_conf, file, alarm, dns, memo, now, up, faults>>

\* What the script knows of an address after it heard an event.
Heard(e) == CASE e.action = "del" -> Unheard
              [] e.action = "old_hostname" -> [present |-> TRUE, name |-> NoName]
              [] OTHER -> [present |-> TRUE, name |-> e.name]

\* helper_write: the pipe takes the event, or the event is dropped.  What is
\* in the pipe reaches the script even if dnsmasq dies.
HelperWrite ==
    /\ up
    /\ \E e \in script.buf :
          \/ /\ script' = [ buf |-> {}, told |-> [script.told EXCEPT ![e.addr] = Heard(e)],
                            missed |-> script.missed \ {e.addr} ]
             /\ faults' = faults
          \/ /\ faults < MaxFaults /\ faults' = faults + 1
             /\ script' = [script EXCEPT !.buf = {}, !.missed = @ \cup {e.addr}]
    /\ UNCHANGED <<wire, dhcp_conf, db, file, alarm, dns, memo, now, up>>

\* dnsmasq is killed between two events.
Crash ==
    /\ up /\ faults < MaxFaults
    /\ faults' = faults + 1 /\ file' = file
    /\ Dies(db)
    /\ UNCHANGED dhcp_conf

\* SIGTERM: the script is told everything; the file is not written again, so a
\* lease that the last write of it did not reach is lost.
Terminate ==
    LET pending == {e.addr : e \in script.buf}
                   \cup {db.old_leases[i].addr : i \in DOMAIN db.old_leases}
                   \cup {l.addr : l \in {k \in db.leases :
                             k.oldname # NoName \/ k.flags \cap {"NEW", "CHANGED"} # {}}}
        unsaved == {l.addr : l \in {k \in db.leases : Entry(k) \notin file}}
        final(a) == IF ~Leased(db, a) THEN Unheard
                    ELSE [present |-> TRUE, name |-> (CHOOSE l \in db.leases : l.addr = a).name]
    IN
    /\ up /\ faults < MaxFaults
    /\ faults' = faults + 1
    /\ up' = FALSE /\ db' = EmptyDb /\ alarm' = 0 /\ dns' = {} /\ memo' = EmptyMemo
    /\ script' = IF ~LeaseScript THEN script
                 ELSE [ buf |-> {}, missed |-> (script.missed \ pending) \cup unsaved,
                        told |-> [a \in Addrs |-> IF a \in pending THEN final(a) ELSE script.told[a]] ]
    /\ UNCHANGED <<wire, dhcp_conf, file, now>>

\* Time passes: what is in flight is lost, the checked addresses are forgotten.
Tick ==
    /\ now < MaxTime
    /\ now' = now + 1 /\ wire' = {} /\ memo' = [memo EXCEPT !.pings = {}]
    /\ UNCHANGED <<dhcp_conf, db, file, alarm, dns, up, script, faults>>

ServerNext ==
    \/ AlarmEvent \/ Reload \/ Restart \/ DoScriptRun \/ HelperWrite
    \/ Crash \/ Terminate \/ Tick
=============================================================================
