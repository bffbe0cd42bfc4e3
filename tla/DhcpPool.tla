------------------------------ MODULE DhcpPool ------------------------------
(***************************************************************************)
(* Which address a client may have: the dhcp-range and dhcp-host lines of  *)
(* the configuration and the search for a free address (dhcp.c).           *)
(*                                                                         *)
(* Abstracted: one interface without relays, so every range is on the      *)
(* chain of contexts of a request; no tags, wildcard MACs, static-only or  *)
(* proxy ranges; no addresses that end in .0 or .255.                      *)
(***************************************************************************)
EXTENDS LeaseDb

CONSTANTS
    Ranges,         \* the chain of ranges: <<[start, end, router, net], ...>>
    Configurations, \* what the dhcp-host lines may be: sets of lines
    Hash,           \* [Hosts -> Nat], the hash of the MAC address_allocate starts from
    PingMax,        \* pings per PING_CACHE_TIME before the server stops pinging
    NoPing,         \* --no-ping (OPT_NO_PING)
    Consecutive,    \* --dhcp-sequential-ip (OPT_CONSEC_ADDR)
    DECLINE_BACKOFF \* a declined static address is not offered for 600 s

\* A range, the address the server has on its subnet, and that subnet.
DhcpRange == [start : Addrs, end : Addrs, router : ServerIds, net : SUBSET AnyAddr]

\* A dhcp-host line.  `time' is its lease length, 0 if it gives none or an infinite
\* one; `reread' is that it is from --dhcp-hostsfile or /etc/ethers.
Config == [ hw : SUBSET Hosts, clid : AnyClientId, addr : AnyAddr, name : AnyName, time : Nat,
            noclid : BOOLEAN, disabled : BOOLEAN, reread : BOOLEAN ]
NoConfig == [ hw |-> {}, clid |-> NoId, addr |-> NoAddr, name |-> NoName, time |-> 0,
              noclid |-> FALSE, disabled |-> FALSE, reread |-> FALSE ]

\* check_dhcp_hosts() drops a second dhcp-host line for the same address; a
\* host is named by one line only; "id:*" stands in the place of an id.
ASSUME PoolAssumption ==
    /\ Ranges \in Seq(DhcpRange) /\ Ranges # <<>>
    /\ \A i \in DOMAIN Ranges :
          /\ Ranges[i].start <= Ranges[i].end
          /\ Ranges[i].start .. Ranges[i].end \subseteq Addrs
    /\ \A conf \in Configurations :
          /\ conf \subseteq Config \ {NoConfig}
          /\ \A c \in conf : c.noclid => c.clid = NoId
          /\ \A c, k \in conf :
                \/ c = k
                \/ /\ c.hw \cap k.hw = {}
                   /\ c.clid = NoId \/ c.clid # k.clid
                   /\ c.addr = NoAddr \/ c.addr # k.addr
    /\ Hash \in [Hosts -> Nat]
    /\ {PingMax, DECLINE_BACKOFF} \subseteq Nat
    /\ {NoPing, Consecutive} \subseteq BOOLEAN

VARIABLE
    dhcp_conf       \* the dhcp-host lines in force

\* All lines there ever are.
Lines == UNION Configurations

\* What the choice of an address remembers.
Memo ==
    [ epoch : [DOMAIN Ranges -> Nat],       \* addr_epoch of each range
      pings : SUBSET [addr : Addrs, hash : Nat],    \* checks of the last PING_CACHE_TIME
      declined : [Lines -> Nat] ]           \* decline_time of each dhcp-host line; 0 never

EmptyMemo == [ epoch |-> [r \in DOMAIN Ranges |-> 0], pings |-> {},
               declined |-> [c \in Lines |-> 0] ]

(***************************************************************************)
(* Contexts and configuration.                                             *)
(***************************************************************************)

\* The index of the first context of the chain in a nonempty set of indices.
FirstOf(S) == CHOOSE i \in S : \A j \in S : i <= j

InRange(r, a) == r.start <= a /\ a <= r.end

\* address_available: the range of the chain that holds `a', as a chain of at
\* most one.  The first loop looks at the router of the head only.
address_available(chain, a) ==
    LET fits == {i \in DOMAIN chain : InRange(chain[i], a)}
    IN  IF chain = <<>> \/ a = chain[1].router \/ fits = {} THEN <<>>
        ELSE <<chain[FirstOf(fits)]>>

\* narrow_context: failing that, the first range whose subnet has `a'.
narrow_context(chain, a) ==
    LET near == {i \in DOMAIN chain : a \in chain[i].net}
    IN  IF address_available(chain, a) # <<>> THEN address_available(chain, a)
        ELSE IF near = {} THEN <<>> ELSE <<chain[FirstOf(near)]>>

config_find_by_address(a) == {c \in dhcp_conf : c.addr = a /\ a # NoAddr}

config_has_mac(c, hw) == hw \in c.hw

\* is_addr_in_context: the lines that count for a request on this interface.
OnLink == {c \in dhcp_conf : c.addr = NoAddr \/ \E i \in DOMAIN Ranges : c.addr \in Ranges[i].net}

find_config(configs, clid, hw) ==
    LET byClid == {c \in configs : clid # NoId /\ c.clid = clid}
        byHw == {c \in configs : config_has_mac(c, hw)}
        found == IF byClid # {} THEN byClid ELSE byHw
    IN  IF found = {} THEN NoConfig ELSE CHOOSE c \in found : TRUE

\* The address of the line is not in use by the server or a relay.
NotRouter(config) == config.addr # Ranges[1].router

(***************************************************************************)
(* address_allocate: scan the ranges for an address that is free and does  *)
(* not answer a ping.                                                      *)
(***************************************************************************)

Size(r) == r.end + 1 - r.start

\* The largest leased address above the first of the range.
lease_find_max_addr(d, r) ==
    LET used == {r.start} \cup {l.addr : l \in {k \in d.leases : InRange(r, k.addr)}}
    IN  CHOOSE a \in used : \A b \in used : b <= a

\* Changed form of Candidate: the scan runs on after the end of the range.
CandidateUnwrapped(d, memo, i, hw, k) ==
    Ranges[i].start + ((Hash[hw] + memo.epoch[i]) % Size(Ranges[i])) + k

\* The k-th address the scan of range i looks at.
Candidate(d, memo, i, hw, k) ==
    LET r == Ranges[i]
        first == IF Consecutive THEN lease_find_max_addr(d, r) - r.start
                 ELSE (Hash[hw] + memo.epoch[i]) % Size(r)
    IN  r.start + ((first + k) % Size(r))

\* Changed forms of Unused: leased or reserved addresses are as good as free.
UnusedIfLeased(d, a) ==
    (\A i \in DOMAIN Ranges : Ranges[i].router # a) /\ config_find_by_address(a) = {}
UnusedIfReserved(d, a) ==
    (\A i \in DOMAIN Ranges : Ranges[i].router # a) /\ ~Leased(d, a)

Unused(d, a) ==
    /\ \A i \in DOMAIN Ranges : Ranges[i].router # a
    /\ ~Leased(d, a)
    /\ config_find_by_address(a) = {}

Checked(memo, a) == \E p \in memo.pings : p.addr = a

\* A free address is pinged unless it was checked lately or there were many.
Pings(d, memo, a) ==
    Unused(d, a) /\ ~Checked(memo, a) /\ Cardinality(memo.pings) < PingMax /\ ~NoPing

\* The scan stops at `a': it was checked lately (for this host, if addresses
\* are given out in sequence), or it is not pinged, or it does not answer.
Takes(d, memo, a, hw, answering) ==
    /\ Unused(d, a)
    /\ IF Checked(memo, a)
       THEN Consecutive => [addr |-> a, hash |-> Hash[hw]] \in memo.pings
       ELSE Pings(d, memo, a) => a \notin answering

\* The address a range yields, and how many answered a ping before it.
Scan(d, memo, i, hw, answering) ==
    LET at(k) == Candidate(d, memo, i, hw, k)
        all == 0 .. Size(Ranges[i]) - 1
        good == {k \in all : Takes(d, memo, at(k), hw, answering)}
        passed == {k \in all : \A g \in good : k < g}
    IN  [ addr |-> IF good = {} THEN NoAddr ELSE at(FirstOf(good)),
          busy |-> Cardinality({k \in passed : Pings(d, memo, at(k)) /\ at(k) \in answering}) ]

\* The address found (or none), and what is remembered of the search.
address_allocate(d, memo, hw, answering) ==
    LET scan == [i \in DOMAIN Ranges |-> Scan(d, memo, i, hw, answering)]
        hits == {i \in DOMAIN Ranges : scan[i].addr # NoAddr}
        last == IF hits = {} THEN Len(Ranges) ELSE FirstOf(hits)
        a == IF hits = {} THEN NoAddr ELSE scan[last].addr
    IN  [ addr |-> a,
          memo |-> [ memo EXCEPT
              !.epoch = [ i \in DOMAIN Ranges |->
                  IF Consecutive \/ i > last THEN @[i]
                  ELSE (@[i] + scan[i].busy) % Size(Ranges[i]) ],
              !.pings = IF a = NoAddr \/ Checked(memo, a) THEN @
                        ELSE @ \cup {[addr |-> a, hash |-> Hash[hw]]} ] ]
=============================================================================
