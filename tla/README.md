# DHCP and interface set-up in the G361F platform: a TLA+ model

The repository is the open-source part of an Android phone's platform. It holds
many programs that have little to do with each other. This project models the
part of it that gives the phone, and what is tethered to it, addresses:

- `libnetutils`, all of it that keeps state: the DHCP client, the interface
  functions that put into effect what it learned, and the control of the external
  DHCP client `dhcpcd` that the platform may use instead;
- the DHCP server of `dnsmasq`, which the phone runs when it is an access point.

It says what client and server do to an address, under loss, repetition and
reordering of datagrams, death and restart of the server, failing writes of the
lease file, and a slow or broken lease-change script; what is left of an
interface when system calls fail half-way and other programs work on it too; and
what a caller of `dhcpcd` may believe when requests time out and overlap.

Paths below are relative to `src/`; `rfc2131.c`, `lease.c`, `dhcp.c`,
`dnsmasq.c`, `helper.c` are in `external/dnsmasq/src/`, `dhcpclient.c`,
`dhcpmsg.c`, `packet.c`, `ifc_utils.c`, `dhcp_utils.c` in
`system/core/libnetutils/`.

## 1. Inventory

| Component | State | Operations | Hard behaviour | What makes it correct |
|---|---|---|---|---|
| DHCP client (`dhcpclient.c`, `dhcpmsg.c`, `packet.c`) | locals of `dhcp_init_ifc` (state, timeout, xid, info), the interface, `last_good_info` | `do_dhcp`; poll timeout; a datagram; device failure | late, repeated, foreign replies; retransmission; fallback without acknowledgement | only an own acknowledgement configures; the schedule is kept |
| lease database (`lease.c`) | `leases`, `old_leases`, `leases_left`, `file_dirty`, `dns_dirty`; the lease file; the alarm | `lease_init`, `lease_prune`, `lease4_allocate`, `lease_set_*`, `lease_update_file`, `lease_update_dns`, `do_script_run`, `rerun_scripts` | crash and failed write in the middle of a rewrite; names that move; expiry by one alarm; configuration that a reload changes | one lease per address and per name; file, DNS, alarm and script follow the table |
| address pool (`dhcp.c`) | ranges and `dhcp-host` lines, `addr_epoch`, `ping_results`, `decline_time` | `address_available`, `narrow_context`, `find_config`, `address_allocate` | scan with wrap-around, pings, declines | what is found is free, not reserved, not the server's |
| DHCPv4 server (`rfc2131.c`) | none of its own | DISCOVER, REQUEST in four client states, DECLINE, RELEASE, INFORM, BOOTP | offers reserve nothing; stale requests; two MACs on one line; full table | nobody loses a lease to a datagram of another; offers are granted; static addresses converge |
| main loop (`dnsmasq.c`) | event pipe, `now` | datagram, alarm, SIGHUP, SIGTERM | several events in one pass of the loop | expired leases go |
| script helper (`helper.c`) | a buffer of one event | `queue_script`, `helper_write` | slow script, broken pipe, death with news pending | the script's view is right or known to be stale |
| interface ioctls (`ifc_utils.c`) | two static control sockets per process; what it works on is the kernel's | enable, disable, configure, add, delete and clear addresses, routes, reset connections | a step that fails after others were done; nested opens and closes; flags and addresses that others change | success means all of it is in place; control sockets are closed again; nothing else is touched |
| dhcpcd control (`dhcp_utils.c`) | init properties: the result, the service's state, a dozen fields | request, renew, stop, release | a time-out racing a late result; interfaces that share their properties; fields read one by one | a request succeeds on its own answer and returns nothing older; every call returns |
| DNS forwarder and cache (`forward.c`, `cache.c`) | table of forwarded queries; hash table, LRU | query, reply, insert transaction | table at its limit, eviction during a transaction | *planned* |
| e2fsck journal replay (`recovery.c`, `revoke.c`) | journal, revoke table | three passes | crash during replay | *planned* |
| tdb transactions, `undo_io.c` | file, recovery area, undo log | commit, cancel, recover | crash at each write | *planned* |
| the rest: DHCPv6, RA, TFTP, other e2fsprogs, iproute2, iptables, libnl, junit, libexif, camera engine, Samsung packages, Rhino, kernel headers | | | | not modelled, see section 8 |

How they interact. Client and server exchange UDP datagrams; nothing else
connects them. Inside `dnsmasq` one thread runs one loop: it tells the script
what it can (`do_script_run`), waits in `select`, then handles at most one event
of the pipe (alarm, reload, terminate) and then at most one DHCP datagram. A
datagram goes through `dhcp_packet`, which prunes the leases, calls
`dhcp_reply`, saves the file and updates the DNS, and only then sends the reply.
Signals are turned into bytes of the event pipe. The helper is a second process
behind a pipe; `dnsmasq` never waits for it, except when it terminates.

`do_dhcp` calls `ifc_utils.c` before and after the exchange that `DhcpClient`
models; in `IfcUtils` the exchange is one step between the opening of the packet
socket and its close. Processes that use `ifc_utils.c` at once
share the kernel and nothing else. Callers of `dhcp_utils.c` share init's
properties: a control message waits in a queue for init, which starts or kills
`dhcpcd`; `dhcpcd` writes the fields of an answer and then the result; the caller
polls the result and reads the fields, each in a call of its own.

## 2. Modules

| Module | Models | Lines of correspondence |
|---|---|---|
| `DhcpNet` | the link: messages and `wire`, the datagrams that may still be received; the packets that a client's packet socket reads | the fields the control flow reads; a datagram that is received stays, so it can be received again, late, by another host, or never. `Packets` are its whole, cut-off and damaged copies, `receive_packet` lets through what is for the client's port and has the right sums |
| `DhcpClient` | `dhcp_init_ifc` | `Start` = entry up to the first `transmit`; `Timeout` = `poll` returned 0; `ReceiveReply`, `ReceiveGarbage` = a datagram; `DeviceFails` = the error returns. `client[h]` holds the locals |
| `DhcpClientAlone` | the client with arbitrary servers that follow RFC 2131 | `ServerOffers`, `ServerAcks`, `ServerNaks` are external |
| `LeaseDb` | `lease.c` as operators on a database `d`, a record of its file-scope variables | each `lease_*` function is an operator of its name. A function that gets a pointer to a lease takes and returns a pair `[d, l]` |
| `DhcpPool` | `dhcp.c`: ranges, configuration, `address_allocate` | the scan is the first of the candidates that `Takes` accepts |
| `DhcpServer` | `dhcp_packet`/`dhcp_reply`, `lease_update_file`, alarm, reload, restart, script | one action per DHCP message and per event; every handler ends in `Save`, as every path of `dhcp_packet` ends in `lease_update_file` |
| `DhcpServerAlone` | the server with clients that send any of a set of datagrams | `asked` and `wire` show a datagram and its replies for one step |
| `DhcpSystem` | `DhcpClient` and `DhcpServer` on one `wire` | a host with an address answers pings |
| `Netmask` | masks and prefix lengths: three conversions of `ifc_utils.c` and `dhcp_utils.c` | a mask is its bits; a loop that shifts is the number of rounds it makes |
| `NetKernel` | the kernel as `ifc_utils.c` uses it (external): links, addresses, routes, connections, DNS properties | `net` |
| `IfcUtils` | `ifc_utils.c` | a C function is an operator of its name that gives its program; `proc[p].todo` is what is left of it |
| `IfcAlone` | processes that call it, with devices that come and go, captures, router advertisements, new connections | `Call`, `Continue`, `Event` |
| `DhcpcdControl` | `dhcp_utils.c`, init and `dhcpcd` (external) | one action per property access or control message; `Steps(fn)` is the order of them |
| `DhcpcdAlone` | threads that call it | `CallSome`, `Continue`, `Surroundings` |
| `DhcpRequests` | the promise of a request: it succeeds only on an answer given after it began | implemented by `DhcpcdAlone` under the mapping `Progress` |
| `MC...` | small networks, sets of datagrams | values for the constants of the runs |
| `DhcpPoolProofs`, `DhcpServerProofs`, `DhcpServerTableProofs`, `DhcpServerScriptProofs`, `DhcpClientProofs`, `DhcpcdProofs`, `IfcKernelProofs`, `IfcProofs` | theorems | section 6 |

Points of the correspondence that are not obvious:

- **Atomicity.** A handler of `dnsmasq` is one action because the process has
  one thread. What can happen in the middle of one is death, or a failing write:
  `Save` has a disjunct for each, and the file is then one of the `Torn` files
  (the write stopped after some leases, or before the truncation).
  `KilledWhileSaving` also stands for death after the file is complete and
  before the reply is sent.
- **News for the script.** A handler may run while `do_script_run` still has
  something to say, because one pass of the loop handles an event and then a
  datagram. Without a script `do_script_run` only clears flags, and always runs
  to its end before `select`: `Settled`.
- **The list of leases** is a set. Where the code takes the first match of a
  list, the model takes any match (`lease_find_by_client`), since restart and
  reload change the order; `lease_update_from_configs` goes through the leases in
  some order `pos`.
- **A dead process.** `Dies` clears memory and keeps the file. The next step of
  the server is `Restart`, `lease_init` followed by the reload that `main`
  queues in the event pipe before anything else.
- **`script.missed`** is the set of addresses whose last news died with a
  process or a pipe; the script cannot be right about them, and the properties
  of the script leave them out until it hears of them again.
- **Packets.** A packet that is cut short or has a wrong sum is never received;
  `ReceivedAre` proves that what is left are messages a server sent. Damage always
  shows in a sum: the arithmetic of `checksum` and the damage it does not notice
  are left out, and so are the header fields that `send_packet` writes.
  `receive_packet` uses the UDP length without comparing it with the number of bytes
  it read (`packet.c:220`, `239`); a length that is wrong makes the sum wrong in the model.
- **Configurations.** `dhcp_conf` is one of `Configurations`. A line marked `reread` is from
  `/etc/ethers` or the `--dhcp-hostsfile`: a reload forgets these lines, and what it
  remembered of a decline with them, and reads any others (`dnsmasq.c:1218`); the rest of
  the lines stay. A restart reads all of them anew.
- **Time.** The server's clock counts in units much longer than an exchange of
  datagrams; `Tick` therefore empties `wire` and the 30-second ping memory. The
  client has no clock: its poll may time out whenever it waits.
- **The client's xid** is the time in milliseconds at the start of a run, plus
  one in the second state. Two hosts may draw the same one; two runs of one host
  do not.
- **Programs.** A step of `IfcUtils` is one system call, or one line of a loop
  over `/proc`. Calling a function is concatenation of programs, so that the inner
  `ifc_init` and `ifc_close` of `ifc_create_default_route` are in the program of
  `ifc_configure`. What a failing step does is the step's `fail`: `abort` is an
  early return, after which only the closes are left; `note` is an error that is
  returned later; `ignore` has no effect. A step whose failure is certain
  (no socket, no device, a route that is there already) fails with that error;
  any other may fail with `EIO`, except a close: the setting of a DNS property too,
  whose result the code does not look at. `return` is an early return of
  `dhcp_init_ifc`, after which nothing is closed.
- **Files under `/proc`** are read in blocks of `LINES` lines, and each block is worked
  off before the next is read, from the table as it is then. stdio's buffer has 1024
  bytes in bionic and a line of `/proc/net/route` has 128: eight lines, so on a phone a
  table is seldom longer. When it is, deletions move lines across the reading position
  and some are skipped. `got.whole` says that a table was read in one block; what other
  interfaces have in `/proc/net/if_inet6` is left out.
- **Static sockets.** `ctl[p].sock` and `.sock6` are the two static variables,
  `ctl[p].open` the control sockets' descriptors that are open. The model has three, so
  that a leak shows before they run out. `ctl[p].raw` counts the packet sockets of
  `open_raw_socket`, which nothing but `dhcp_init_ifc` closes. The sockets that a function
  opens and closes around one call (`if_nametoindex`, netlink) are in the step that uses
  them, and the threads of one process, which share the static sockets, are one.
- **Interface flags** are read by one step and written by the next, from what the
  first one read.
- **Undisturbed calls.** `calm`, `held` and `quiet` are history: whether anybody
  else touched the interface of a call or the properties it uses, and which sockets were
  open when it began; so is `errs`, the steps of a call that failed. No action of the
  code reads them.
- **Answers of dhcpcd** are numbered; a property is known by the number of the
  answer it is from, so that a value that is older, or mixed, can be told.
  `answered[c]` is the first answer since the request of `c` erased the result.
- **The p2p key.** All interfaces whose name starts with `p2p` have the
  properties and the service of the name `p2p`.
- **init** takes control messages in order and later than they are sent; a
  `property_set` of another property waits until it has. A service that it stops is
  `stopping` until the process is reaped. Whether `ctl.start` of a renewal service
  makes `dhcpcd` ask again is left open: the code does not wait for it.

Abstracted on purpose, each because no property here tells it apart: tags, relay
and vendor options, PXE, the contents of options that only fill a reply;
wildcard MACs, hardware types, configuration by host name only, static-only and
proxy ranges; addresses that end in .0 or .255; names from `/etc/hosts`, which a
reload reads too, for pool addresses, domain suffixes and `--dhcp-fqdn`; `calc_time` (a lease length is any
of `LeaseTimes`); the read-only database; a malformed tail of the lease file (a
torn file is a set of whole lines); `time_t` wrap-around; `ndc softap sta_join`
after a write (`lease.c:304`) and the change of the netmask or the local address
of an interface on a DECLINE of the vendor's `ncm` branch (`rfc2131.c:897-907`);
the vendor's `net.dhcpresponseenable` switch is `Muted`; on which interface a
datagram came in and whether it is served (`dhcp.c:124-297`), and where the reply
is sent, to a relay, an address, by broadcast or with an ARP entry (`dhcp.c:307-413`): a
reply is on the link; the formats of `/proc`
and of numeric addresses, printing, and hardware addresses beyond their identity
(`ifc_utils.c`); the fields that `fill_ip_info` copies without looking at them,
which are one field `rest`, the property names' spelling, and the message of
`dhcp_get_errmsg`, one static buffer that only some errors write (`dhcp_utils.c`).

## 3. Runs

Bounds are chosen so that two clients compete for what one could have: two
addresses for two or three hosts, or one. All runs allow every order of steps.

| Run | Question | Bounds | States (about) |
|---|---|---|---|
| `client_pair` | the schedule, the fallback, and own acknowledgements with two hosts that draw the same xid | 2 hosts, 1 run each, 1 address, the real schedule 4-8-16-32 s | 143 000 |
| `client_rerun` | own acknowledgements over two runs of one host | 1 host, 2 runs | 7 300 |
| `client_fallback` | *violated*: the fallback configures what was offered | as `client_pair` | - |
| `server_address` | table, file and offers under every kind of datagram, expiry, pings, a failed write or a death | 2 hosts, one with a lease time of its own, 2 addresses, 1 fault, clock to 3, 1 ping per unit | 91 000 |
| `server_static` | reserved addresses: a line with two MACs, one with a client identifier, one that a reload adds for an address that may be leased; declines; a full table | 3 hosts, 3 addresses, 2 leases, infinite leases, authoritative, sequential, clock to 3 | 170 000 |
| `server_names` | names between leases, DNS, script, reload, crash, stop | 2 hosts, a configured name that a reload gives to the other, infinite leases, 1 fault, backlog of 1 | 491 000 |
| `server_time` | leases of length 1, 2 and infinite, renewal, release, two failing writes, muted replies, the id of another interface; names in the DNS until their leases' last moment; expired leases leave (liveness) | 2 hosts, each with a name, 2 faults, clock to 4 | 31 000 |
| `system_pair` | clients and server together | 2 hosts (symmetric), 2 addresses, `TIMEOUT_MAX` 2 | 66 000 |
| `server_full` | *violated*: the server survives a full table | 1 lease | - |
| `ifc_calls` | what calls of `ifc_utils.c` leave behind, also when steps fail and others work on the same interface | 2 processes (symmetric), 2 interfaces, 2 calls of any function, a fresh machine, one in use, or one with more routes than are read at once, 1 `EIO`, 1 event, `CLEAR_MAX` 2, `LINES` 3 | 1 550 000 |
| `dhcpcd_calls` | what a request may succeed on and return; what a stop leaves | 2 threads (symmetric), a p2p interface, 3 calls, 2 answers, 1 nap | 656 000 |
| `dhcpcd_returns` | every call returns (liveness) | 2 threads, 2 calls, 1 answer with a hole in its mask, 2 naps | 42 000 |

Why the bounds are enough. Every property speaks of at most two leases, two
hosts, or a host and the server; two or three hosts on two or three addresses
let every pair of them collide, fill the table, and take over from each other.
One fault reaches every torn file; two faults reach a failed retry. The clock
passes the expiry, the alarm after it, and the end of a decline's back-off.
`MaxBacklog` only stops new datagrams while that many lost leases wait for the
script. The symmetry of `system_pair` is sound: no configuration or hash tells
the two hosts apart, and the run checks no liveness. Its constraint `SomeSteady`
cuts nothing off that its properties speak of: they are about steady hosts, and a
host that is not steady stays so while the clock stands still.
Deadlock is not an error in any run: clients may all have returned, and the
clock, the faults and the calls are bounded.

In `ifc_calls` two calls are enough for one to find what another left (its
socket, its route, its address), and for two processes to interleave; one
`EIO` fails each step of each program in turn; one event falls between any two
steps. On the machine in use an interface has an address, a link-local and another
IPv6 address, two host routes to one destination and a default route.
The third machine has four routes, so that with `LINES` 3 a host route is in the second
block, where deletions of the first one let it be skipped.
`CLEAR_MAX` 2 is one round more than there are addresses to clear in these
states. In `dhcpcd_calls` three calls by two threads let a request run between
another's erase and its result, be stopped by a third, and find what an abandoned
request left. One nap per wait makes a wait look, nap and look again, or time out;
more naps are only more of the same looks. Two answers are what a mixture needs;
the first has no gateway. Masks have `Bits` = 4 bits, and every use of them is
of a prefix or of a hole.

The constants `MaxTime`, `MaxFaults`, `MaxRuns`, `MaxBacklog`, `MAX_CALLS`, `MAX_EIO`
and `MAX_EVENTS` are bounds of the model and nothing in the code. `CLEAR_MAX` (255), `LINES` (8) and
the naps (50, 150, 25) are the code's, made small. `TIMEOUT_MAX` is 8 units of 4 s as in the code,
except in `system_pair`, where a state sends twice.

## 4. Properties

*Client.* `RetrySchedule`: in every running state the timer in force is the one
that belongs to the number of transmissions. `FallbackIsLastResort`.
`AckIsOwn`: an acknowledged address was requested in this run and acknowledged
to this host. There is no property that a run returns: every `poll` starts with the
full timeout (`dhcpclient.c:425`), and the packet socket wakes for every IPv4 packet of
the link, whatever its port, so that on a link that is never quiet no time-out comes,
and with it no retransmission, no fallback and no return. Only an assumption about
the link would make such a property true.

*Table.* `AddressHasOneLease`, `ClientHasOneLease` (per client identifier),
`NameHasOneLease`, `TableIsCounted`, `TakenFromNobodyElse` (a datagram never costs
another client its unexpired lease). `ReservedForItsHost`: after every step, a lease on
the address of a `dhcp-host` line is of the host of that line, or of a host that
had it before the line came into force, by a reload or a restart, and that no REQUEST has
prolonged it for or acknowledged it to; BOOTP, which does not look at the line, leaves
it to that host.

*Table against the rest.* `FileMatchesLeases`, `AlarmCovers`, `DnsShowsLeases`
(at every moment the names that resolve are those of the leases whose last
moment has not come: the cache drops an entry at its `ttd`, `cache.c:253-262`, and the
table keeps the lease one moment longer, `lease.c:470`; the alarm never touches the cache), `ScriptKnowsLeases`, `ScriptNamesUnique`,
`ConfiguredNameIsKept` (while a lease stays that has its name by a `dhcp-host` line, no
other gets it, unless a line of that other host gives it too), `ExpiredLeasesGo`.

*Protocol.* `OfferIsHonoured` (what is offered is granted if asked for at once),
`StaticIsOffered` (the comment at `rfc2131.c:1189`: a host refused for the sake
of its static address is answered with an offer of it when it starts over), `AckedHoldsLease`,
`AckedAddressesDiffer` (a client that was acknowledged holds the lease, alone).

*Interfaces.* `ConfigureIsComplete` (success of `ifc_configure` or `do_dhcp`: up,
address, default route, none undone by a later step; the prefix length, unless
the interface had another address, since `SIOCSIFNETMASK` is about the first one; and each
DNS server, unless its `property_set` failed, which nobody is told),
`DnsIsLast` (the DNS properties change only when all the rest is in place),
`ClearLeavesLinkLocal` and `HostRoutesGo` (what stays, of a table that was read in one
block, is what a deletion failed for; for an IPv6 address the call says so),
`RouteResult` (adding a route succeeds if and only if the route is there afterwards),
`ResetKillsConnections` (success means that the connections from the interface's address
are closed, or that the address could not be read, `ifc_utils.c:623`), `StaysLocal` (no
step touches another interface, or a flag but `IFF_UP`), `SocketsHeld`, and `ReturnsClosed`
(control sockets are closed again by every call but `ifc_init`; a packet socket stays open
after a `do_dhcp` whose exchange failed or fell back on an offer, and only then). Those about
the result of a call speak of calls that nobody disturbed, and `RouteResult` also of
calls without `EIO`, whose error would say nothing of a route that was there before.

*dhcpcd.* `RequestsAreAnswered`: the refinement of `DhcpRequests`. `InfoIsNotOlder`:
no field that a request returns is older than the answer it succeeded on.
`InfoIsWhole`: one answer, its prefix length, and a gateway if it named any, when
nothing is written meanwhile. `StopStops`: a `stopped` from before is not taken for
the answer to this `ctl.stop`. `CallReturns`.

`AckedHoldsLease` and `AckedAddressesDiffer` speak of *steady* hosts, whose REQUESTs in flight all name one
address. For others they are false of the code, for a reason that is the
protocol's: a delayed REQUEST for an earlier offer makes the server squash the
newer lease. The client can become unsteady because a retransmitted REQUEST names
what the last datagram left in `info`, see the first finding.

Every property of a passing run has a mutant in `PROJECT.json`: a change a
slip in the code could make, under which the run reports the property violated.

## 5. Findings

1. `client_fallback`, `dhcpclient.c:434`. The fallback configures the interface
   "with offered parameters" from `info`, which `decode_dhcp_msg` overwrites at
   line 489 before the datagram is validated. A broadcast offer to another host,
   received while this one waits for its last time-out, is what it configures:
   two hosts end up with one address, without an acknowledgement.
2. `server_full`, `lease.c:665`. With the table full, `lease4_allocate` stores
   through the NULL of `lease_allocate`; the caller's "no leases left" is never
   reached.

Observations, which contradict a comment or an expectation but no property a run
checks:

- `rfc2131.c:933`: the epoch moves the seed of the scan by one. If the scan had
  reached a declined address by passing over a leased one, the next scan starts at
  the declined address.
- `dhcp.c:511`: the loop over the chain of contexts tests `context->router` in every
  round. `address_allocate` has the right loop; an address the client asks for is
  only subject to the wrong one.
- `rfc2131.c:1087`: a REQUEST with the id of another of the server's interfaces is
  let pass with `context` NULL and refused with "wrong network" at line 1176.
- `dhcpclient.c:435`, `471`, `480`: the packet socket is not closed on the fallback, the
  poll-error and the device-down returns, nor by `open_raw_socket` when `bind` fails
  (`packet.c:59`). `ReturnsClosed` says that these are all.
- `dhcpclient.c:425`: each `poll` starts with the full timeout, see `Client` in section 4.
- `do_dhcp` leaves opening the control socket to its caller, and `ifc_configure`
  closes it: a second `do_dhcp` without an `ifc_init` fails at its first step.
- `ifc_set_default_route` of a route that is there already succeeds (`EEXIST`,
  `ifc_utils.c:544`) and leaves another default route of the interface in front of it.
- `ifc_utils.c:826`, `828`: what `property_set` returns is not looked at: `ifc_configure` may
  report success without a DNS server.
- `ifc_utils.c:678-699`: with more routes than stdio reads at once, deletions shift the table
  under the reads, and `ifc_remove_host_routes` may skip host routes; 366-394 likewise.
- `rfc2131.c:447`: BOOTP lets a host keep its lease, whoever the address is reserved for since.
- `ifc_utils.c:623`: if the address of the interface cannot be read,
  `ifc_reset_connections` resets with 0.0.0.0 and reports success.
- `dhcp_utils.c:246`, "shouldn't ever happen, given we just confirmed the property
  exists": it happens when two requests share a key and one erases the result between
  the other's two looks at it.
- `dhcp_utils.c:223`: that the erase of the result took effect is not checked. The model
  assumes that it did; otherwise a request could succeed on an old result.
- A request that reads while `dhcpcd` writes a renewed lease returns a mixture of the
  two answers.

The order "loss before new location"
(`lease.c:970`) holds as long as the process lives (`ScriptNamesUnique`). It does not
hold over a death, since `old_hostname` is not in the lease file; `script.missed`
says where. The same set covers SIGTERM after a failed write: `EVENT_TERM`
(`dnsmasq.c:1105`) lets the script hear the rest of the news without another
attempt at the file, so that the script knows leases the next process will not.

## 6. Theorems

All proofs are checked by `tlapm`; they hold for every network, every
configuration and every set of datagrams that satisfies the named assumptions
(`NetAssumption`, `LeaseAssumption`, `PoolAssumption`, `ServerAssumption`,
`AloneAssumption`, `ClientAssumption`, `ControlAssumption`, `FunctionsAssumption`,
`KernelAssumption`, `IfcAssumption`, `BitsAssumption`); the sets of hosts, addresses,
callers, processes and interfaces may be infinite.

*Server* (`DhcpServerProofs`): `Spec => []TypeOK` (`TypeCorrect`),
`Spec => []AddressHasOneLease` (`AddressesAreUnique`), `Spec => []TableIsCounted`
(`TableStaysCounted`), all from `Invariance`, `Spec => []IInv`. None of the three
is inductive alone. Address uniqueness depends on `lease4_allocate` being called
only for an address without a lease, which is a fact of each handler; the count
depends on the set of leases being finite and on the new lease not being in it;
and after a restart both come from the file. So `IInv` conjoins

- `DbOK(db)`: the database is typed, finite, has one lease per address, and
  is counted, and
- `FileOK`: the file on disk, torn or not, has at most one line per address and no
  more lines than `--dhcp-lease-max`, so that reading it back gives a
  `DbOK` database.

`DhcpPoolProofs` shows what every operator of `lease.c` does to `DbOK`, one lemma
per operator, and that an address `address_allocate` returns has no
lease, is on no line of the configuration and is not the server's own
(`AllocatedIsFree`), and that its memory stays well-formed; `DhcpServerProofs` then
has one lemma per handler and event and one for `Save` with its three outcomes.

*The table against the rest* (`DhcpServerTableProofs`): `ClientHasOneLease`,
`NameHasOneLease`, `FileMatchesLeases`, `DnsShowsLeases` and
`AlarmCovers` are proved, from one `TableInvariance`, `Spec => []TableInv`, on
top of `IInv`. `TableInv` conjoins

- `GoodTable(db)`: one lease per name and per client identifier;
- `GoodEntries(file)`: the same of the lines of any file a restart may read. It is
  needed because a torn file is the next table, and it is kept because what is
  written is always a part of a good table;
- `FileMatchesLeases`, `DnsShowsLeases`, `AlarmCovers` themselves. Between a change and
  `Save` they are false; what takes their place there is `Ready(d, mode)`: a table
  that is not the file's is marked `file_dirty`, one that is not the cache's is marked
  `dns_dirty` or will be shown without being asked.

The argument has three layers. For each operator of `lease.c`, lemmas say that
it keeps the table good and that it marks what it changes (the `dirty` flags). For
each handler, these are chained in the order of its calls: one lemma,
`DatagramHandled`, states of any datagram what the table is when `Save` begins.
Then `Save` (`lease_update_file`, `lease_update_dns`) with its outcomes, the
reload (`lease_update_from_configs`, the leases in any order) and the restart
(`lease_init`, which builds a table of the file's lines). `ReservationsHold` proves the
action property `ReservedForItsHost`: a reload may put a line on a leased address, so
that no invariant of the table could say it. Its lemmas say of each lease of the new
table that it is of the line's host, or was there before with the same end, and that
then no acknowledgement of the address is sent (`HandledReserves`); a reload changes
lines and names only, and a restart takes its leases from the file. `NobodyElseLoses` proves the
action property `TakenFromNobodyElse` of every step from the same lemmas.
`ConfiguredNamesAreKept` (`ConfiguredNameIsKept`) adds where a lease has its name from:
from before, from a line for its host, or from the client's option, and then
`lease_set_hostname` took it from no lease that has it by the configuration; that the
holder it looks at is the only one is `NameHasOneLease`. `StaticAddressIsOffered`
(`StaticIsOffered`) compares the branches of two handlers: what DHCPREQUEST
calls available, DHCPDISCOVER offers.

*The script* (`DhcpServerScriptProofs`): `ScriptNamesUnique` and `ScriptKnowsLeases`
are invariants, from `ScriptInvariance`, `Spec => []ScriptInv`. What the script has
been told lags behind the table, so the invariant speaks of the script's *view*:
what it has heard together with the one event in the helper's buffer.
For addresses whose news has not died with a process or a pipe, `Remembered`
says that the difference between the view and the table is still recorded in
the table (an entry of `old_leases`, an `old_hostname`, a flag), `Announced` that a lease
without a flag is known with its name, and `ViewsUnique` that no name is in two
views: this is where the order of `do_script_run`, losses before new names, is used.
`Left` is what remains of this after a death, in terms of the file.

TLC checked `TableInv` and `ScriptInv` on all server runs but `server_full` before they
were proved, and `ScriptInv` also on `server_names` with two faults; SIGTERM after a failed
write (section 5) was found in this way.

*Client* (`DhcpClientProofs`): `Spec => []TypeOK` (`ClientTypeCorrect`) and
`Spec => []AckIsOwn` (`AcknowledgedByOwn`). The invariant (`ClientInvariance`) adds
to the type that a running host's xid is that of its run and state (`XidOfRun`)
and that every acknowledgement on the link answers a REQUEST of the same host
with the same xid and address (`AcksAnswer`). That what `receive_packet` lets through
are the replies on the link, whatever damage is done to packets, is `ReceivedAre`. `Spec => []RetrySchedule`
(`ScheduleIsKept`) and `Spec => []FallbackIsLastResort` (`FallbackComesLast`) have an
invariant of their own, `ScheduleInv`: after `s` retransmissions the timeout is 2^s,
the last one was made because 2^(s-1) was below `TIMEOUT_MAX`, and a host that fell
back on the offer has transmitted `MaxSent` times. What it needs of powers of two (they
grow, and double) is shown by counting the subsets of an interval.

*dhcpcd control* (`DhcpcdProofs`): `Spec => []TypeOK` (`TypesHold`), with the
strengthening that a call is never past the end of its function; `Spec =>
RequestsAreAnswered` (`RequestsAnswered`), the refinement, whose steps are one lemma
per action. Its invariant `Asked` says that a request which was not answered cannot
have got past its wait with `ok`: between its erase and its success the result is
`ok` only if `answered` is set. `Spec => []InfoIsNotOlder` (`InfoNotOlder`) takes three
more: no property is older than the last answer that was given in full, and what
`dhcpcd` has still to write is newer than what it has written (`Written`); no
property of a request's key is older than its answer (`NotOlder`); nor is what it has
read (`HasRead`). `Spec => []InfoIsWhole` (`InfoWhole`) needs to know, at every point of
a request nobody wrote under, that what has been read is of the last answer
(`WholeOf`) and that the rest is what the code makes of it, the prefix length of the mask
and the gateway (`MadeOf`); a request becomes disturbed for good with the first write, so
that the answer cannot change before it is whole. `Spec => []StopStops` (`StopsStop`)
speaks of init's queue, for a `dhcp_stop` since whose call nobody asked for a start:
while it waits, every start in the queue has a stop behind it, and there is a stop
if `dhcpcd` runs (`StopComes`); when it has returned, `dhcpcd` does not run and no
start is queued (`StaysDown`). TLC checked both invariants on `dhcpcd_calls` first.

Of `Netmask`, for every width, a mask without a hole has the same prefix length by
either loop (`ShiftedOutAgrees`), and a prefix length is read back from its mask
(`PrefixLengthIsReadBack`, which `InfoWhole` cites); by counting the rounds, as
cardinalities of intervals.

*Interface functions.* `IfcKernelProofs` has what the rest uses, in three parts:

- **Tables.** Filters of tables and address lists are one operator, `Keep`: the
  element at a place that is kept moves to the place that is the rank of the old one.
  Ranks are one-to-one and keep the order (`KeepFacts`), so that a filtered table has
  the same elements in the same order. `Trims` says this of two routing tables.
- **The kernel.** `Sane` is a typed kernel that is `Settled`: a device that is not
  there has nothing, and routes are of devices that are up, with an address if
  they have a gateway. `Works(k, g, i)` says that `g` is sane, that nothing of another
  interface is different from `k`, and that no connection is new. There is one lemma
  per operation, then one for every step (`EffectWorks`) and one per event.
- **The programs.** The steps of every function, those that a loop or a file of `/proc` unfolds
  to and the closes that remain after an error are steps of the interface of the
  call (`ProgramTyped`, `UnfoldsTyped`, `ClosesTyped`).

`IfcProofs` has the theorems. They share the invariant `Typed` (a sane kernel; every
process has steps left of its own interface and has read values of the right kind),
from which `Spec => []TypeOK` (`TypesHold`) follows together with `Spec => []SocketsHeld`
(`SocketsAreHeld`).

- `Spec => StaysLocal` (`NamesOneInterface`): other interfaces by `Works`; of its own
  flags by `FlagsInv`, that an undisturbed call about to write flags has read the ones
  that are there.
- `Spec => []ReturnsClosed` (`CallsCloseSockets`): in each program a step that opens a control
  socket has a close behind it (`BothShut`). This is kept by concatenation, by every
  unfolding and by `Closes`; so a socket that was not open before is
  closed, or a close is left (`ClosesAll`). `CLEAR_MAX` is any number here. The early returns of
  `do_dhcp`, after which nothing is closed, come before any control socket is opened.
  Packet sockets are counted: only `do_dhcp` has steps on them (`Lacks`), and at each of its
  eighteen steps it is known how many there are (`ConfigureAt`).
- `Spec => []ResetKillsConnections` (`ConnectionsAreReset`): what is left of a program is a
  value of the state, so the invariant (`ResetAt`) says for each point of it, the socket
  to be opened, the address to be read, the connections to be killed, nothing left that
  concerns IPv4, what an undisturbed call knows there. A reading that fails is ignored and the reset is
  with 0.0.0.0; when it failed because the interface has no address there are no
  connections to close, otherwise they stay and the property says so.
- `Spec => []RouteResult` (`RouteIsThere`): an undisturbed call has one step left that adds the
  route it was asked for and only sockets to open before it, or it refuses and the
  route is none the kernel could have, or only closes are left and its result is right
  (`RouteAt`). The netmask in between is the identity on prefix lengths that are in range
  (`LengthIsReadBack`).
- `Spec => []HostRoutesGo` (`HostRoutesAreGone`): for each destination, until a deletion for it
  fails, what is left of the program has a deletion for each host route to it, in the order of
  the table (`Deletes`, `HostAt`). The order matters: a deletion without a gateway matches a
  route with any, and removes the first match, which is the one it is meant for only
  because no route before it is left. After one has failed this is no longer so, and the
  property speaks of the other destinations. `LINES` is any number; the table must fit into
  one block.
- `Spec => []ConfigureIsComplete` (`ConfigurationIsComplete`): what is left of a configuration is
  the end of the eighteen steps of `do_dhcp`, of which `ifc_configure` is the last ten
  (`At`); `Known` says what is in place after each, and every step adds its part and
  takes nothing back (`MoreIsKnown`). Setting a mask flushes the routes and setting an
  address may remove another, so this rests on their order. A step that fails leaves
  nothing or closes only, except where the route is there already, which is what it asks for,
  and for a DNS server, whose failure is on record when the call returns.
- `Spec => DnsIsLast` (`DnsComesLast`): a setting of a DNS server is the seventeenth or the
  eighteenth step, where `Known` is all of the configuration, and no other function has
  one (`NoDnsInv`).

TLC checked each of these on `ifc_calls` first.

Model-checked only:

- liveness (`ExpiredLeasesGo`, `CallReturns`), which is out of the
  prover's reach, as is anything with `ENABLED`;
- `AckedHoldsLease` and `AckedAddressesDiffer`: they hold of `system_pair`, whose clock
  stands still and where no write fails, and are not true for every value of the
  constants (a lease expires under a client that does not renew it);
- `OfferIsHonoured`: it holds for configurations in which the head-only test of
  `dhcp.c:511` (section 5) makes no difference, as those of the runs;
- `ClearLeavesLinkLocal`, which is not true for every value of the constants: the loop removes
  at most `CLEAR_MAX` IPv4 addresses (255 in the code), and it presumes that an interface
  that is up has its link-local address, which a caller may have deleted; the interfaces
  of the run have no more addresses, and its calls do not delete that one.

## 7. Fairness

`ExpiredLeasesGo` assumes strong fairness of the alarm event: the kernel delivers
SIGALRM, the signal handler writes one byte into the event pipe, and the loop
reads the pipe in order, so that only finitely many events come before it. The
action is not continuously enabled in the model, since a datagram may be on
display and the process may be down, hence strong and not weak. `Deliver` is the
model's own step.
Nothing forces a clock tick, a datagram, a restart or a fault.

`CallReturns` assumes weak fairness of `InitTakes`: init handles its property
socket whenever there is something to read. It assumes strong fairness of each
thread: the scheduler runs it again and again. A thread's step is not continuously
enabled, because a `property_set` waits for init while other threads fill the queue,
and `property_set` in fact sleeps until init answers it; hence strong. Nothing
forces `dhcpcd` to run, to answer or to exit.

## 8. Not modelled, and the plan

Order of the plan; each step is useful without the next.

1. *Done*: `DhcpNet`, `DhcpClient`, `LeaseDb`, `DhcpPool`, `DhcpServer`, their
   compositions, runs, and the theorems above.
2. *Dropped*: an abstract specification of the server, that an address is held by at
   most one client until it expires or is given back. All that it would promise is
   said, and proved, as `AddressHasOneLease`, `TakenFromNobodyElse` and `FileMatchesLeases`.
3. *Done*: proofs of the invariants of the table, its file, its names in the DNS cache,
   its alarm and its script; of the client's timers; of the interface functions.
4. *Done*: `DhcpcdControl` with init, `dhcpcd` and the properties, its promise
   `DhcpRequests`, and the refinement proved; `IfcUtils` with `NetKernel`.
5. `DnsForward` and `DnsCache`: the table of forwarded queries (an answer goes to
   who asked) and the insertion transaction of the cache.
6. `JournalRecovery` (e2fsck): replay with revocation is idempotent and survives
   crashes. `TdbTransaction`, `UndoIo`: old or new state after a crash.
7. libnl's cache manager, if there is room.

Left out for good: vendored libraries that keep no state or whose state is data
(libexif, gcc-demangle, junit, Rhino), encoders and command-line front ends
(iproute2, iptables, most of libnl), e2fsck's passes 1-5 (sequential repair of a
large on-disk graph), option parsing and logging of dnsmasq, the camera engine's
ioctl sequences, kernel headers and build files.
