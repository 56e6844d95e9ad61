# A verification of router-sim in TLA+

router-sim (`src/routersim`) is a discrete-event simulator of network devices:
hosts, learning switches and routers exchange frames over links with a
latency, driven by one global queue of events. This directory holds TLA+
modules translated from that code, TLC configurations that check them on small
networks, and TLAPS proofs of the most important properties for networks of
any size.

    tlc -workers 2 -config LanChain.cfg MCLan     # a run
    tlapm LanProofs.tla                           # a proof module

## Inventory of the system

| component | state | operations | made correct by |
|---|---|---|---|
| event queue, event loop (`observers.py`, `topology.py:321`) | scheduled events; listeners of each device | `enqueue`, `run`, `observe`, `listen`, `stop_listening`, `run_until` | the result does not depend on the random order of events of one instant (`observers.py:17-20`); every run comes back, no event is passed by |
| links, interfaces (`interface.py`) | link and interface state, latency | `connect`, `up`, `down`, `send`, `receive` | nothing is delivered over a link that is down; frames are never duplicated; both ends follow their link |
| learning switch (`switching/`) | MAC table: address to port, last seen | `process_frame`: look up, learn, forward or flood | the learned paths lead to their hosts; unicast is not flooded or sent back |
| ARP (`arp.py`) | cache, queue of packets per unresolved address | `request`, `reply`, `process`, `enqueue` | a packet leaves its queue once, none waits for ever |
| end host (`server.py`, `netdevice.py`) | interfaces, routes, UDP sockets | `send_ip`, `process_frame`, `process_packet`, `add_ip_address` | every echo request is answered once |
| ping command (`netdevice.py:152-250`) | remaining count, last id, timers | `send_packet`, `ping_handler`, `check_and_send` | a series ends and its handler is removed; a request is answered by its own reply only |
| DHCP (`dhcp.py`) | server: holds, leases; client: none but its interface | DISCOVER, OFFER, ARP probe and 100 ms check, REQUEST, ACK | no two hosts share an address; a client is configured with its lease |
| routing tables (`routing.py`) | one table of routes per protocol; the forwarding table of a router | `add_route`, `del_route`, `set_routes`, `lookup_ip`, `forwarding_table` | the forwarding table agrees with the routes; the longest prefix wins |
| connected routes (`server.py:25-91`, `router.py:22-84`) | rows of table `direct` | LINK_STATE and INTERFACE_STATE listeners | a route of an interface exists exactly while it is up |
| router, forwarding engine (`router.py`, `forwarding.py`) | forwarding table | `set_fib`, lookups, `process_frame` | a packet follows the forwarding table |
| IS-IS (`isis/`) | adjacencies, link state database, SRM and SSN flags | hello, LSP, CSNP, PSNP handlers and timers, shortest paths | databases converge; newer LSPs are never replaced by older ones; routes are shortest paths |
| RSVP-TE (`rsvp/`), MPLS (`mpls.py`) | path and reservation state, labels | `create_session`, PATH and RESV handlers, bypass | labels lead to the egress; the bypass goes around the link |
| topology script (`topology.py`) | devices, clusters, addresses taken | `add_*`, `link_router_pair`, `isis_enable_all`, `get_topology`, `schedule`, `run_until` | both ends of a link are addressed alike; no event is passed by; a run that ends in an exception comes back, and notices of links end one only at ends wired by hand. Frames end others: a hello (`send_clns`), a packet for the forwarding engine (`frame.pdu`) |
| messages (`messaging.py`, `scapy.py`), Junos parser (`junos*.py`), vendored `ply`, notebook helpers | none that is simulated | | |

How they interact: a device calls `interface.send`, which schedules
`receive` at the other end of the link after its latency. `receive` raises a
PACKET_RECV event, whose listener hands the frame to the switch engine
(`process_frame`) or to the host, which dispatches on the frame type to ARP or
to `process_packet` (echo, UDP listeners). DHCP is a UDP listener that uses ARP
to probe an address and configures the interface, which raises the events the
route updaters listen to. A link that fails schedules a notice to each end; the
end moves its logical interface, which raises LINK_STATE: the route updater
changes the table of connected routes, IS-IS looks at its interfaces again.
IS-IS, RSVP and the operator change their tables; these raise ROUTE_CHANGE, and
a router rebuilds its forwarding table on it. RSVP computes its explicit routes
from the IS-IS database and hangs bypasses on routes of the tables.

What is hard: there is no concurrency inside a handler, but the order of the
events is random, handlers of several devices interleave, latencies differ, and
links fail while frames, queues and timers are under way. Several changes raise
no event, and an exception in a handler ends the run with events left in the
queue. `hazards` in `PROJECT.json` lists the lines where this bites.

## Modules

| module | models | checked by | proved in |
|---|---|---|---|
| `Lan` | hosts, ARP, echo, learning switches, links with failures | `MCLan` with `LanChain`, `LanLine` | `LanProofs` |
| `EchoService` | abstract: what a user of ping is promised | `Lan` implements it | `LanProofs` |
| `Dhcp` | DHCP client and server, ARP probe, 100 ms check | `MCDhcp` with `DhcpOnce`, `DhcpRestart`, `DhcpRestartAck` | `DhcpProofs` |
| `AddressService` | abstract: what address assignment promises | `Dhcp` implements it | `DhcpProofs` |
| `RouteTables` | tables, adding, deleting, lookup, chains, as operators | in `ConnectedRoutes` and `Router` | in the proofs of these |
| `ConnectedRoutes` | interfaces, their notices and the routes that follow them | `MCConnectedRoutes` with `Connected` | `ConnectedRoutesProofs` |
| `Router` | the six tables of a router and its forwarding table | `MCRouter` with `Router` | `RouterProofs` |
| `LinkStateSpf` | shortest paths and next hops, with a reference definition | in `Isis` and `Rsvp` | `RsvpProofs`, `IsisProofs` |
| `Isis` | adjacencies, flooding, database, routes, link failures | `MCIsis` with `Isis`, `IsisCopies` | `IsisProofs` |
| `IsoAddress` | from loopback address to IS-IS system id | | `IsisProofs` |
| `Rsvp` | label-switched paths and their bypasses, MPLS operations | `MCRsvp` with `Rsvp` | `RsvpProofs` |
| `Ping` | series of pings and the listener list they share | `MCPing` with `Ping` | `PingProofs` |
| `Topology` | the script: building, wiring, starting IS-IS, running | `MCTopology` with `Topology` | `TopologyProofs` |

`Lan`, `Dhcp`, `Ping` and `Topology` each take one view of the same event loop:
`Lan` and `Dhcp` let any event run next, which covers every latency;
`Ping` does so for the timers of one device; `Topology` has the queue with its
clock. `Router` takes the moves of interfaces as `ConnectedRoutes` shows them,
and sets of IS-IS routes as `Isis` computes them.

Definitions commented as faults (`FlushedNone`, `NeverInUse`, ...) are seeded bugs:
each stands before the operator it would replace and is not part of any
specification. They are there to confirm that every property can fail.

### Lan

A host is its MAC and its IPv4 address alike, since a host has one interface
with one address set by hand. `wire` is the bag of frames in flight: any of
them may be the next one received, which covers every latency and the shuffle
of `observers.py:19`. A step of a switch is one `process_frame`
(`bridging.py:101-138`): look up the destination, learn the source, forward or
flood. A step of a host is one `process_frame` (`server.py:214`) with all that it
triggers: an ARP packet is cached, answered and empties the queue of its sender;
an echo request is answered over `send_ip` (`server.py:180`), which sends at once or queues
the packet and broadcasts an ARP request; an echo reply ends the exchange.

- `TreeAssumption` says the cabling is a tree; `Toward` is its routing
  function. The simulator has no spanning tree protocol (the repository's
  README lists RSTP as work in progress). `switchtest.py:67` closes a loop of
  three switches on purpose: every flooded frame then circulates for ever, and
  none of the properties below is meant for it. All other tests and demos are trees.
- `send_q` maps an address to a set: the list in the code never holds one
  packet twice, which `OnePlace` implies.
- Trunks between switches may fail. `LinkDown` stops sending at once; a frame
  that is still in flight is lost or arrives, since the endpoints see the failure
  after half the latency (`interface.py:212-222`). A link comes back only after its
  endpoints saw it go down.
- Left out: the ageing of MAC entries after 300 s of silence, gateways, a ping
  of a host's own address, ARP entries that change (addresses are static).
- A host that pings is one of several hosts, and an exchange is one `pingid`;
  the series of `ping(count=5)` is several exchanges. `Ping` has the series.

### Dhcp

`events` is the bag of pending events: DHCP messages, ARP probes and answers,
and the `check_and_request` timers. A broadcast is one event per host that acts on
it. `None` as an address is 0.0.0.0; it is cached like any other because the
guard in `arp.py:71` compares a string with an address and never filters.
`held` and `hold` are the two kinds of keys of the one dictionary `holds`
(`dhcp.py:296-303`); `leases` and `leased` are the two lease dictionaries.

- `Prompt` says whether an ARP round trip takes less than the 100 ms of
  `dhcp.py:143`. With it, `Check` waits until the probes of its address are
  answered; without it the check may run at any time. Both are possible in the code:
  a link has 10 ms latency unless `connect` is told otherwise.
- `BindAndAck` leases the address of the REQUEST and acknowledges the address
  of the hold, as the code does. The two differ after a second DISCOVER.
- `FewStarts` is the condition of `PoolConsistent` and `LeaseKept`: a client that
  starts at most twice. With a third start the code does neither, as *Observations* says.
- `ApplyConfig` sets the address. The default route it also adds is left to the
  routing tables.
- A client that restarts is `Start` a second time (`dhcp_client_start` has no guard).
  It is bounded by `MaxStarts`, and lost messages by `MaxLosses`.
- `HoldMissing` is the KeyError of `dhcp.py:414`: the hold of the client is
  gone, nothing is leased, the exception ends `run_until` and the other events
  stay in the queue.


### RouteTables, ConnectedRoutes and Router

`RouteTables` has `routing.py` as operators on a table, a function from
prefixes to sequences of routes. A prefix is a block of addresses, `[net, size]`;
its order is that of `routing.py:389-397`. `Added` keeps the place by metric
(`routing.py:242-249`), `Deleted` takes one equal route away and `DeleteRaises` is
the ValueError of `routing.py:224`.

`ConnectedRoutes` has the interfaces. Each end of a link is told by an event of
its own (`interface.py:202-222`); `agenda` groups the notices by instant, since
those of one instant run in a random order and those of different instants do
not. The listener of a router hears LINK_STATE only and takes the address for
granted (`router.py:27-84`), that of a host hears INTERFACE_STATE too and looks
(`server.py:25-91`).

- `careful` is chosen once: an operator who moves a link only when its ends
  have heard of the last move, and addresses a device before it has a link. Without
  it the tables can be wrong, as listed under *Findings*; `UpMeansRouted`
  holds for any operator, `ExactRoutes` and `EndsFollow` for a careful one.
- A physical interface carries at most one logical interface, as in all samples;
  the far end of one of the two links is left out.

`Router` has the six tables of a router with `up`, the interfaces that are up.
Whoever changes a table raises ROUTE_CHANGE or does not, as the code does; the
actions make `fib` anew exactly then. `Applies`, `Diverts` and `Entry…` are the
branches of `forwarding_table` (`routing.py:399-457`).

- `Orderly` says that BGP gives one route for a prefix and bypasses are made
  while the link they protect is up. The code needs both: a second route for a
  prefix that is hidden raises no event (`routing.py:255`), nor does a late
  bypass (`rsvp/process.py:467`). The samples do neither.
- The instance has the addresses 0 to 15: a default route, two networks, a block
  that IS-IS knows whole or with a more specific part, and blocks that BGP knows
  over it, so that every address has up to three prefixes that hold it.

### LinkStateSpf and Isis

`LinkStateSpf` has `run_full_dijkstra` and the walk back to the first hop, and
`Distance`, the reference (relaxing every edge as often as there are systems).
`Isis` has one process per router on point-to-point links. `db[r][o].seq` is -1
when r has no LSP of o; 0 is the empty LSP that an SNP leaves for one it names
(`process.py:421-424`). `RefreshLocal` is `__refresh_local` whole, with the
assignment that stands behind a `break` (`process.py:340-344`): it gives the LSP
a new number for a new neighbour only at the end whose address comes first.

- `Prompt`: frames have arrived, and what follows at once is done, before a timer
  fires or a link moves. The samples' links have 3 to 75 ms, the timers of
  IS-IS at least 99 ms. Of the proofs `SeqsAlwaysAgree` uses it. `Fires`
  says the same of a single timer. `LinkMoves` waits until both ends and the
  processes on them have followed the last move.
- SPF runs that wait are one (`spf` is a set): the second computes the same.
- Hellos between two ends that are UP are left out, they change nothing.
- `start` calls `__refresh_local` before `started` is set, so it makes no LSP
  (`process.py:278` and 531); the first adjacency or link event does, and
  `db[r][r]` starts absent.
- The transport is external: `send_clns` names a class `Frame` that does not exist
  (`interface.py:159`), and `OnWire` and `Receive` do what `PhysicalInterface`
  and the link do with frames of the other kinds.
- Reachability is one loopback prefix per router, so a route is to a system.

`IsoAddress` has the text conversion a system id comes from (`topology.py:290`,
`process.py:513`): each byte in three digits, regrouped by four. `Isis` names
LSPs by routers; the theorem `SystemIdsDiffer` is what allows it. It needs
an area id of two parts, which is the default and what `process.py:513` expects.

### Rsvp

A session is its ingress, egress and the next hop it goes around, if it is a
bypass. A message goes to the router it is meant for. A label is named by the
router that gave it and the session: each RESV gets a new one.
`Hung`, `KnownBypass` and `Protection` are the two ways in which a
bypass meets a route, whichever comes first (`process.py:441-467` and 518-536).
`Enters` and `Walk` follow a packet with its label stack through the routes as
`mpls.py` applies them.

- The database is the network: IS-IS has converged and does not change.
- The transport is external. `IP(protocol=…)`, `IPProtocol.RESV` and
  `packet.pdu` do not exist, so no RSVP message crosses the code as it stands; the
  module takes each message as handed to the next hop, or lost.
- The failure of a link is checked by walking packets with one link taken out,
  in every reachable state.
- The instance is a triangle with a tail: the protected path has three links, one
  of which nothing can go around, and the bypasses ask for bypasses.

### Ping

One device runs several series. `device.listeners` is the list of the event
manager, changed while it is walked (`observers.py:104-106`). The network is
external: a reply comes at any time, in any order, or never; the route to the
target goes and comes back. Timers carry the id of their request so that several
of one series are told apart. The timeout is the caller's, hence the queue may
run its events in any order; `source_interface` is None as in all callers.

### Topology

Calls of the script are atomic and happen between runs; `run_until` lasts. The order in
which devices are added is a constant, the cluster of a device is chosen when it is added.
`clock` counts ticks; a run advances to the next event or by one tick when the
queue is empty (`topology.py:321-338`). Loopbacks have no link and are left out.

Of the events the module keeps the notices of links and the hello timers of IS-IS. Both
have handlers that may raise:

- `Raises`: a logical interface without an address. A router's RouteTableUpdater takes
  the address for granted in both directions (`router.py:33-84`), a server's when
  the interface goes down (`server.py:64-91`). `Server.__init__` makes the first interface of a
  router, before `Router.__init__` replaces the event manager (`router.py:124-128`), so that port has
  the listener of a server (`ServersUpdater`) as long as the router keeps it (`Kept`).
- `SendHello`: a router with an interface of IS-IS that is up calls `send_clns`, whose `Frame` is
  not defined (`interface.py:159`). The NameError leaves the timer unset
  (`isis/process.py:171`), and `start` does not set it again: the router is silent. The
  other timers of IS-IS send nothing before a hello was heard, which none is. The module
  `Isis` models what the protocol would do with a transport; this one what the code does without.

The packets of pings, DHCP and RSVP, and what their handlers may raise, are not in this
module: `RunsLost` says nothing of a run that carries them. `Renew` is the
logical interface that takes the place of one of the same name, and that IS-IS does not know.
The drawings that are made of `get_topology` are left out, what it does to interfaces is not.

## Runs

| run | instance | distinct states | what it shows |
|---|---|---|---|
| `LanChain` | 3 hosts on 2 switches, 2 pings, no failure | 270 thousand | every ping is answered, once; no packet waits without an ARP exchange under way |
| `LanLine` | 3 hosts on 3 switches in a line, 2 pings, a trunk fails and recovers | 1.7 million | paths lead home, no unicast is flooded or sent back, `EchoService` is implemented |
| `DhcpOnce` | 3 clients, a server with 3 addresses of which one is taken by hand | 69 thousand | no shared address, configuration by lease, `AddressService` is implemented, every client that starts is configured while addresses last |
| `DhcpRestart` | 2 clients that start twice, one loss, late probes | 3.2 million | up to two starts holds and leases stay consistent and a lease is not moved |
| `DhcpRestartAck` | 2 clients that start twice | violation | the acknowledged address is not the leased one |
| `Connected` | a host with 2 interfaces and a router with 1, links moved 3 and 2 times | 1.4 million | routes are there, exact under care; ends follow their link |
| `Router` | a router as described above, 2 failures | 17 thousand | the forwarding table is current and exact; traffic moves to the bypass |
| `Isis` | a line that starts with nothing, a triangle at rest in which a link fails and recovers, or another one fails | 662 thousand | the last number wins everywhere; right copies give shortest paths |
| `IsisCopies` | the triangle | violation | the copies are not what the owner says |
| `Rsvp` | the path and its bypasses as described above, one loss | 365 thousand | labels lead to the egress at every moment, around a failed link too; setting up ends |
| `Ping` | 2 series of 2 requests, one route failure | 73 thousand | every series ends; a request is answered by its own reply |
| `Topology` | 2 routers (2 ports and 1), a server, 2 links, 1 scheduled move, runs to tick 2, hellos every 2 ticks | 890 thousand | addressing, IS-IS at both ends; what costs a run; every run ends and passes no event by |

Why the bounds are enough. Two pings make two packets of one host wait for one
address, cross in opposite directions, or compete for one ARP exchange; three
hosts give a bystander that only learns from floods; three switches give a
transit switch. Two clients already compete for one address; with the third of `DhcpOnce`
the last address of the range is handed out while one in it is taken by hand. In `DhcpRestart` two clients
exhaust the range of three with two starts each, and a DISCOVER finds nothing to offer. Two
starts let every message of one exchange meet every message of the next; they are also what
`PoolConsistent` and `LeaseKept` are about. Three moves of a link are connect, failure and recovery,
so that a failure and a recovery of one instant can reach the ends in
either order. Three routers are the least in which an LSP is passed on and in which a
route has another way. Two series are enough for one handler to remove
itself while another is called. Two links and three ports exhaust a router's
ports, so that a call fails halfway. With half a latency of one tick and hellos every two, events
of different instants are in the queue together, and a run of two ticks passes over both or overshoots.

Deadlock is not checked: a simulation stops when all its events have run. Some
modules have no type invariant among their runs: `ConnectedRoutes` has its
types in `Shaped`, which its proofs show, `Topology` and `Rsvp` spend every property
on what could go wrong.

### Fairness

The loop of `run_until` (`topology.py:321-338`) runs every event that is
scheduled, so weak fairness of running events is assumed: `Deliver` in `Lan`,
`Run` in `Dhcp`, `Works` in `Rsvp`, `OwnEvents` (no reply of the network is among
them) in `Ping`, `Loop` in `Topology`. Nothing is assumed of commands, starts, failures
or losses. `EveryPingAnswered` and `EveryClientConfigured` are about networks
without failure or loss, since ARP, echo and DHCP repeat nothing; `SettingUpEnds` and
`SeriesEnds` hold with loss. `Isis` has no liveness property: its timers would need a fairness
condition each; what it says of the end of an exchange is said of every
state in which nothing is under way (`Quiet`).

## Proofs

The prover shows the following for every value of the constants.

`LanProofs`, for every tree, any number of hosts, pings and link failures:

- `NetworkSafe`: paths learned lead home and a unicast frame that reaches a
  switch finds its destination. `PathsLeadHome` is not inductive: it needs that
  a frame travels away from its source over switches that know the source
  (`CopyOK`), that an address is cached only where the switch of the host
  knows the way (`CacheOK`), and that queued packets are under the right
  address (`QueueOK`). Together they are `NetInv`.
- `NeverDuplicated`: `OnePlace`, strengthened by `StageOK` (a request in any
  place was not served, a reply was served once) and based on `NetInv`.
- `QueueAlwaysAwaited`, when no link fails: `AwaitInv` says of every queue where
  the request or the answer it waits for is on its way.
- `ImplementsEchoService`: every step of `Lan` is a step of `EchoService` or
  stutters, from both invariants.

`DhcpProofs`, for one server and clients that start once, any pool, any number
of clients and losses, and either a pool free of addresses set by hand or
probes that work (`PoolsFree \/ ProbesWork`):

- `AddressesUnique`, `ServerConsistent` (with `HoldsCleared`) and
  `ImplementsAddressService`. The invariant `IInv` follows the exchange of a
  client as one event at a time (`OneEvent`), whose type fixes what the server
  holds and leased for it (`StageOK`, `HoldOK`); `ProbeOK` and `StaticOK` carry
  the probe of an address set by hand to the check that declines it.
- `WellTyped` for any number of servers, starts and losses.

`ConnectedRoutesProofs`, for any devices, links, addresses and moves:

- `UpAlwaysRouted`: an interface of a host that is up has its routes. The
  invariant adds that an address belongs to an interface the device knows and that
  no two interfaces have one address: then whatever another interface adds or
  takes away, even from the same network, leaves the two routes alone (`OneChanges`).
- `EndsAlwaysFollow`: with care at most one instant of a link is on the agenda
  (`OneInstant`), and an end whose notice has run is in the state of the link (`Follows`).
- `TablesStayExact`: with care a table has the routes of the interfaces that are
  up and no other, each once. `ExactInv` adds why a route is never
  added or taken away twice: a link tells each end once (`ToldOnce`), an end that was
  not told yet is in the other state (`UpAsTold`), an interface is up on a link only (`UpOnLinks`).

`RouterProofs`, for any set of interfaces, prefixes and IS-IS results, any
routes and paths, in any order:

- `WellTyped`. The module's assumptions on its constants are `PrefixesAssumption` (two
  prefixes are blocks of addresses that are apart or one inside the other) and
  `RoutesAssumption` (a route has the fields its source gives it; where a prefix may get
  several routes their type decides the metric, `router.py:210` and
  `rsvp/process.py:451`; an LSP names one route).
- `ForwardingFollows`: under `Orderly`, `fib` is what the tables give. A change that raises no event
  must leave that as it is: a second BGP route goes behind the first, a
  bypass is not looked at while the link of its path is up (under `Orderly`).
- `LongestAlwaysWins`: the lookup takes the entry of the longest prefix that
  holds the address, whatever the entries are.
- `LearnedAlwaysLive` and `BypassAlwaysTakesOver`, also under `Orderly`, follow from it: the branches of
  `forwarding_table` end at interfaces that are up.

`IsisProofs`, for every network, any failures and any pace of the timers:

- `OwnNewestAlways`: no copy of an LSP has a number above its owner's. `NumInv`
  says the same of every frame under way and carries types along.
- `NumbersGrow`: a router's own number never falls, whatever it receives.
- `WellTyped`: what a router marks and sends is an LSP it has, with neighbours its
  owner has. `TypeInv` adds the types of the frames; LSPs are never forgotten
  (`MarksKept`).
- `SeqsAlwaysAgree`: when the exchange is over, systems that reach each other hold
  each other's LSPs in the last number. The hypothesis is `Prompt`, or links that are let
  alone. With a free pace and links that fail an SNP may outlive the time its link was
  up, and the invariant does not hold; a counterexample to the property
  itself is not known. `SeqAgreement` speaks of the end only; `SeqInv` says
  at any moment why it will come. What an end that is UP has and the other lacks or
  has in an older number is under way in one of six forms (`Pending`): a mark to send it, a
  CSNP due or sent, a mark or a message of the other end that asks for it or
  offers the older number. No step takes one away and leaves none
  (`TellInv`), since a frame and an SNP are of the time the link is up (`LinkInv`) and an end
  that is UP lists its neighbour (`EndInv`, at any pace). When nothing is under way
  neighbours agree, and so do, hop by hop, all that reach each other.
- `RoutesAlwaysLead`, at any pace: once the copies are right and paths are computed from
  them, first hops are on shortest paths. `EndInv` makes the links of an LSP that is its
  owner's those that are up, so the graph a router computes from is the network
  (`NetIsGraph`). The rounds of the code's algorithm keep `SpfOK`: `Tree` hangs each system
  on one that is nearer and `Short` keeps what left the queue nearest. The distances of the
  reference are none above those of a tree (`DistanceNoMore`) and none below a
  potential (`DistanceNoLess`), so both are the same; `FirstHopIs` walks back to
  the neighbour of the root.

The loops of `Isis` run as often as there are routers; that this is enough follows
from sets that grow with each round (`Growing`). `IsisAssumption` says
that no path is as long as `Far`, which stands for `sys.maxsize` (`process.py:587`).

`TopologyProofs`, for every network and every order of the script's calls:

- `AddressesStayPaired`, from `WiringInv` (the ends of
  links are distinct ports; the networks that are taken are those up to `nets`; both ends
  of a link of `link_router_pair` have an address; an event is about a port with a link).
- `NothingIsLate`: the clock never passes an event, also after a run that was
  cut short.
- `RunsLostToFew`: among the events the module has, only the notice to an interface without
  address wired by hand and the first hello a router sends cost a run. `HellosOK` says that a hello under way is
  of a router that runs IS-IS and that no router has two; a router that lost its
  timer therefore never gets one back.
- `PeersAlwaysRunIsis`: IS-IS is enabled at both ends of a link of `link_router_pair` or at
  none, unless a server with an address was added between the two. `PeersInv` adds
  that devices are added in their order, those at the ends of links among them, each to its
  cluster; then a walk that enables one end also comes to the other, if nothing raises on the way.

`IsisProofs` has `SystemIdsDiffer` too, of the texts in `IsoAddress`.

`RsvpProofs`, for every network, metrics, paths asked for, order of the
messages and losses:

- What an explicit route is. `DijkstraIs` follows the rounds of the code's
  algorithm: `Tree` (each system behind one that is nearer, over a link of the
  graph) and `Short` (what left the queue is nearest and offered its neighbours the
  way). `TrailGrows` and `TrailEnds` follow the walk back to the ingress. So a route
  visits a router once, over links there are, and ends at the egress (`Ways`); a
  bypass always has one (`BypassWays`), and it leaves by another link if there is
  another way (`BypassLeaves`), since the distances of the reference are none
  below Dijkstra's (`DistanceNoLess`).
- `WaysStay`, the inductive invariant. None of the properties is inductive: that a
  label leads somewhere depends on a route two hops on. `WayInv` ties every message, path
  state, route and bypass to a hop of the explicit route: a RESV that arrives at a
  hop has left the one behind it with its route in place (`Behind`), and the
  label it carries is that hop's. `SetUpInv` says that a session without a route has
  a message under way, unless one was lost.
- `RoutesAlwaysLead`: the packets of a route get to the egress with an empty stack
  (`LspsLead`); `RepairsAlwaysLead`: around a failed link too (`RepairLeads`). The walk is
  counted down: `StepAlong` is one hop with any labels below, `EndsAlong` the rest of a path,
  `EndsAround` a bypass and the path behind it, whose links never come back to the
  router before the failure (`NeverBack`).
- `LabelsAlwaysProtected` and `AllGetSetUp`.

A loop of the code is a recursive function in the models. The provers have no
induction over data; what holds of each round is proved through the least
round in which it would not (`HasLeast`, `UpTo`), and that such a function exists at all by the same
argument (`Rounds`).

`PingProofs`, for any number of series, requests, delays and losses:

- `OwnReplyAnswers`: a request is counted as answered only with its own reply.
- `OneTooManyAtMost`: a series sends at most one request more than it was asked for. The
  invariant of this module is `Good`: `Asked` (nothing is owed below -1, and not below 0 before
  the first request), `Looked`, a listener is listed once, and `IdsKnown` (an id was given
  to one series only). It is followed through the walk over the listener list, which
  handlers change while it goes on.
- `NoHandlerLeft`: a series that listens has a timer under way, or met a missing route.

Model-checked only:

- the liveness properties (`EveryPingAnswered`, `EveryClientConfigured`, `SettingUpEnds`,
  `SeriesEnds`, `RunEnds`): the prover does not reason about fairness;
- `LeaseKept`, and `PoolConsistent` with a second start.

## Findings

- `dhcp.py:356` and `dhcp.py:438`: a client that DISCOVERs twice before its first
  REQUEST is handled is leased one address and configured with another
  (`DhcpRestartAck`).
- `isis/process.py:344`: after a link recovers, the end with the higher address
  lists its neighbour again without a new number, flooding or computing paths.
  The others keep the old copy (`IsisCopies`), and as that end does not compute its
  paths (`process.py:363-371`) its route and its neighbour's may point at each other for good.

### Observations

Met while modelling; the properties above name the condition under which they hold.

- DHCP. With two servers both lease to one client (`dhcp.py:405`, whose log line
  says the reservation is removed). The probe is given 100 ms (`dhcp.py:143`): over six switches of
  10 ms the answer is late and an address in use is taken. Holds never
  expire (`dhcp.py:296`). With three starts of a client the REQUEST of its second exchange may come
  after the lease of the first, and replaces it, by an address that may be on offer to another
  client; with more starts a hold is cleared twice and KeyError ends the run (`dhcp.py:414`). This is why
  `PoolConsistent` and `LeaseKept` speak of two starts (`FewStarts`). Under restarts two
  clients may also be configured with one address, or none.
- Ping. A handler that removes itself makes the next listener miss the event,
  possibly its own reply (`observers.py:106`). A series may take the reply of
  another one as its own before its first request, sends early on replies of others
  despite the delay of `netdevice.py:245-246`, and then sends one request too
  many. Without a route its handler stays (`netdevice.py:198`).
- Interfaces and routes. A link that fails and recovers in one instant can leave an end up
  or down for good (`interface.py:215`). An interface without an
  address raises KeyError when it goes down (`server.py:71`, `router.py:35`). A
  connected route is added twice when an address is set on an interface that is
  up (`netdevice.py:80`), deleting one that is not there raises ValueError
  (`routing.py:224`). A second BGP route for a prefix that is hidden raises no event (`routing.py:255`).
- RSVP. The comment at `rsvp/process.py:529-531` expects a bypass that comes late to be hung on
  all routes; those of bypasses are left out. Where there is no other way, the
  bypass is laid over the very link it protects (`process.py:300-321`).
- IS-IS. `spf_pending` is never set; the block at `process.py:493-501` is never
  reached; SSN marks are cleared when the SNP is sent although `process.py:201`
  says when it is heard; a route to a former neighbour that can no longer be reached stays.
- Topology. The first hello of a router over an interface that is up ends the run, and its
  hellos (`interface.py:159`). `run_until` may overshoot its tick by one event.
- The first interface of a router is made before the router replaces its event
  manager (`router.py:127`); sequence diagrams take a start time of 0 for none.

## Not modelled

- The packet path of the forwarding engine: it reads `frame.pdu`, which no frame
  has, and names (`inspectable`, `PhysicalInterface.send`) that do not exist. What it
  would look up, the forwarding table, is in `Router`.
- The ageing of MAC entries (`bridging.py:46-49`), gateways and raw sockets of hosts.
- Messages are data without behaviour; `ply` is vendored and the Junos grammar
  has no effect on a simulation; sequence diagrams and notebooks only render
  recorded events.

## Plan

Done, in this order: `Lan` with `EchoService`; `Dhcp` with `AddressService`;
`RouteTables`, `ConnectedRoutes`, `Router`; `LinkStateSpf`, `Isis`, `IsoAddress`;
`Rsvp`; `Ping`; `Topology`; and their proofs.

What could come next: MAC entries with a clock, and the loop of
`switchtest.py:67` as an instance of its own; a square of routers for `Isis`, which takes
longer than the present runs; restarts of DHCP clients in `DhcpProofs`.
