------------------------------ MODULE Topology ------------------------------
(***************************************************************************)
(* The script that builds a network and runs it: topology.py, the wiring   *)
(* of interface.py and netdevice.py, and the event queue of observers.py.  *)
(* Calls of the script are atomic; run_until is the one that lasts.  Of    *)
(* the events this module keeps the notices of links and the hello timers  *)
(* of IS-IS, whose handlers may raise.  The other timers of IS-IS send     *)
(* nothing before a hello was heard, which no hello ever is; frames of     *)
(* pings, DHCP and RSVP, and their timers, belong to other modules.        *)
(*                                                                         *)
(* A port stands for a physical interface and the one logical interface it *)
(* carries.  Loopbacks are left out: they have no link.                    *)
(***************************************************************************)
EXTENDS Naturals, Sequences, FiniteSets, Functions

CONSTANTS Routers, Servers, Switches,
          NPorts,       \* NPorts[d]: how many ports device d gets
          Order,        \* the order in which the script adds the devices
          Clusters,     \* the clusters, in the order of the dictionary
          Homes,        \* Homes[d]: the clusters device d may be added to
          Kept,         \* the routers that keep the first port Server made
          None,         \* no logical interface, no run
          Bare,         \* a logical interface without address
          Latency,      \* half the latency of a link, in ticks
          Hello,        \* the mean pause between the hellos of a router
          Jitter,       \* how far a pause may be from it
          MaxLinks,     \* bound on the links
          MaxSchedules, \* bound on the link moves the script schedules
          Ticks         \* the ticks the script runs to

Devices == Routers \cup Servers \cup Switches

ASSUME DevicesAssumption ==
  /\ Routers \cap Servers = {} /\ Routers \cap Switches = {}
  /\ Servers \cap Switches = {}
  /\ Order \in Seq(Devices) /\ IsInjective(Order) /\ Range(Order) = Devices
  /\ NPorts \in [Devices -> Nat \ {0}]
  /\ Homes \in [Devices -> SUBSET Range(Clusters)]
  /\ Kept \subseteq Routers

(* What a port may carry can be told apart: nothing, an interface without  *)
(* address, an address.                                                    *)
ASSUME ValuesAssumption ==
  /\ None # Bare
  /\ \A n \in 0 .. 2 * MaxLinks : \A i \in {1, 2} \cup Devices :
       [net |-> n, host |-> i] \notin {None, Bare}

ASSUME BoundsAssumption ==
  /\ Latency \in Nat /\ Ticks \subseteq Nat
  /\ Hello \in Nat /\ Jitter \in Nat /\ Jitter < Hello
  /\ MaxLinks \in Nat /\ MaxSchedules \in Nat

Ports(d) == 1 .. NPorts[d]
Port     == UNION {{d} \X Ports(d) : d \in Devices}

VARIABLES
  systems,   \* the devices, in the order in which they were added
  cluster,   \* cluster[d]: the cluster device d was added to
  logical,   \* logical[e]: None, Bare or the address of the logical interface
  links,     \* the links, each with its two ends and how it was made
  phyUp,     \* phyUp[e]: the state of the port
  logUp,     \* the ports with an address whose logical interface is up
  nets,      \* how many point-to-point networks were taken
  enabled,   \* the ports on whose logical interface IS-IS is enabled
  joined,    \* the routers that IS-IS is enabled on, if only on the loopback
  started,   \* the routers that IS-IS was started on
  clock,     \* the tick of the simulation
  queue,     \* the events in the queue
  target,    \* the tick run_until runs to, or None
  schedules  \* how many link moves were scheduled

isis    == <<enabled, joined, started>>
ports   == <<logical, phyUp, logUp>>
wiring  == <<systems, cluster, ports, links, nets, isis>>
running == <<clock, queue, target, schedules>>
vars    == <<wiring, running>>

(* Addresses: the two of a network of link_router_pair, or a server's own. *)
PairAddress(n, i) == [net |-> n, host |-> i]
OwnAddress(d)     == [net |-> 0, host |-> d]
HasAddress(e)     == logical[e] \notin {None, Bare}

LinkIds == 1 .. Len(links)
Ends(k) == {links[k].e1, links[k].e2}
Linked(e) == \E k \in LinkIds : e \in Ends(k)
Free(d)   == {p \in Ports(d) : ~ Linked(<<d, p>>)}

(* An event: a notice to an end of a link, a scheduled move of a link, or  *)
(* the hello timer of a router.                                            *)
Notice(t, w, e) == [time |-> t, what |-> w, of |-> e]

Idle == target = None

-----------------------------------------------------------------------------
(* What a logical interface without address does to the RouteTableUpdater  *)
(* that listens to its port when its state becomes s: that of a server     *)
(* raises KeyError when it goes down, that of a router in both directions. *)
(* A router's first port, which Server made, has that of a server until    *)
(* the script makes one of the same name; a switch has none.               *)
ServersUpdater(e) == e[1] \in Servers \/ (e[1] \in Kept /\ e[2] = 1)

Raises(e, l, s) ==
  /\ l = Bare
  /\ e[1] \notin Switches
  /\ ServersUpdater(e) => s = "down"

(* A switch has an interface without address on every port; a server may   *)
(* be given an address.                                                    *)
SwitchPorts(d)  == [e \in Port |-> IF e[1] = d THEN Bare ELSE logical[e]]
ServerPort(d, a) == [logical EXCEPT ![<<d, 1>>] = a]

(* add_server, add_switch, add_router.                                     *)
AddDevice(d, c) ==
  /\ Idle
  /\ Len(systems) < Len(Order) /\ d = Order[Len(systems) + 1]
  /\ systems' = Append(systems, d)
  /\ cluster' = [cluster EXCEPT ![d] = c]
  /\ \/ d \in Switches /\ logical' = SwitchPorts(d)
     \/ d \in Servers  /\ logical' \in {logical, ServerPort(d, OwnAddress(d))}
     \/ d \in Routers  /\ UNCHANGED logical
  /\ UNCHANGED <<links, phyUp, logUp, nets, isis, running>>

(* connect: the link is up at once, its ends hear of it later.             *)
Connected(e, f, how) ==
  /\ Len(links) < MaxLinks
  /\ links' = Append(links, [e1 |-> e, e2 |-> f, how |-> how])
  /\ queue' = queue \cup {Notice(clock + Latency, "up", g) : g \in {e, f}}

(* Two free ports wired by hand, as the samples do where one is not a      *)
(* router's.  Nothing tells the ends apart: let that one be the first.     *)
Connect(e, f) ==
  /\ Idle
  /\ e[1] # f[1] /\ {e[1], f[1]} \subseteq Range(systems)
  /\ e[1] \notin Routers
  /\ ~ Linked(e) /\ ~ Linked(f)
  /\ Connected(e, f, "hand")
  /\ UNCHANGED <<systems, cluster, ports, nets, isis, clock, target, schedules>>

(* Fault: both ends get the same address.                                  *)
PairedSame(e, f) ==
  [logical EXCEPT ![e] = PairAddress(nets + 1, 1), ![f] = PairAddress(nets + 1, 1)]

Paired(e, f) ==
  [logical EXCEPT ![e] = PairAddress(nets + 1, 1), ![f] = PairAddress(nets + 1, 2)]

(* link_router_pair: the first free port of each router.                   *)
FirstFree(d) == {<<d, p>> : p \in {q \in Free(d) : \A x \in Free(d) : q <= x}}

(* A port gets a new logical interface, which is down and unknown to IS-IS; *)
(* IS-IS may keep the old one, which never comes up again.                  *)
Renew(E) ==
  /\ logUp' = logUp \ E
  /\ enabled' = enabled \ E
  /\ UNCHANGED <<phyUp, joined, started>>

LinkRouterPair(r, s) ==
  /\ Idle
  /\ r # s /\ {r, s} \subseteq Range(systems)
  /\ \E e \in FirstFree(r), f \in FirstFree(s) :
       /\ Connected(e, f, "pair")
       /\ logical' = Paired(e, f)
       /\ Renew({e, f})
  /\ nets' = nets + 1
  /\ UNCHANGED <<systems, cluster, clock, target, schedules>>

(* Without a free port the call raises; when it is the second router that  *)
(* has none, the first has its interface and address already.              *)
LinkRouterPairFails(r, s) ==
  /\ Idle
  /\ r # s /\ {r, s} \subseteq Range(systems)
  /\ nets < MaxLinks
  /\ nets' = nets + 1
  /\ \/ Free(r) = {} /\ UNCHANGED <<ports, isis>>
     \/ /\ Free(s) = {}
        /\ \E e \in FirstFree(r) :
             /\ logical' = [logical EXCEPT ![e] = PairAddress(nets + 1, 1)]
             /\ Renew({e})
  /\ UNCHANGED <<systems, cluster, links, running>>

-----------------------------------------------------------------------------
(* The ports of the systems of a cluster.  The code walks over ports by     *)
(* cluster, by system and by number, and ends where one in bad raises.      *)
Walk(c) == {e \in Port : e[1] \in Range(systems) /\ cluster[e[1]] = c}

Place(x, s) == CHOOSE i \in DOMAIN s : s[i] = x

Before(e, f) ==
  LET C(g) == Place(cluster[g[1]], Clusters)
      S(g) == Place(g[1], systems)
  IN  \/ cluster[e[1]] # cluster[f[1]] /\ C(e) < C(f)
      \/ cluster[e[1]] = cluster[f[1]] /\ S(e) < S(f)
      \/ e[1] = f[1] /\ e[2] < f[2]

Reached(W, bad) == {e \in W : \A f \in bad : ~ Before(f, e)}

(* get_topology asks every port for its logical interface, which makes one *)
(* without address where there is none; on a router's port that is up this *)
(* raises LINK_STATE, and KeyError: the call ends there.                   *)
ReadRaises(e) ==
  logical[e] = None /\ Linked(e) /\ phyUp[e] /\ Raises(e, Bare, "up")

GetTopology ==
  LET all  == UNION {Walk(c) : c \in Range(Clusters)}
      made == Reached(all, {e \in Port : ReadRaises(e)})
  IN  /\ Idle
      /\ logical' = [e \in Port |-> IF e \in made /\ logical[e] = None
                                    THEN Bare ELSE logical[e]]
      /\ UNCHANGED <<systems, cluster, links, phyUp, logUp, nets, isis, running>>

-----------------------------------------------------------------------------
(* Fault: the first end of a link is asked for its cluster, the second not. *)
InsideFirst(c, e) ==
  \A k \in LinkIds : e \in Ends(k) => cluster[links[k].e1[1]] = c

(* isis_enable_all: a port with an address, unless its link leaves the     *)
(* cluster.  A server cannot do it, AttributeError ends the call; a router *)
(* does it for its loopback before its ports.                              *)
Inside(c, e) ==
  \A k \in LinkIds : e \in Ends(k) => \A f \in Ends(k) : cluster[f[1]] = c

IsCluster(c) == c = Clusters[1] \/ \E d \in Range(systems) : cluster[d] = c

IsisEnableAll(c) ==
  LET asked == {e \in Walk(c) : HasAddress(e) /\ Inside(c, e)}
      bad   == {e \in asked : e[1] \in Servers}
  IN  /\ Idle /\ IsCluster(c)
      /\ enabled' = enabled \cup (Reached(asked, bad) \ bad)
      /\ joined' = joined \cup {e[1] : e \in {f \in Reached(Walk(c), bad) : f[1] \in Routers}}
      /\ UNCHANGED <<systems, cluster, ports, links, nets, started, running>>

(* Fault: the timer of one that runs IS-IS is started again.               *)
StartableAgain(c) == {e[1] : e \in {f \in Walk(c) : f[1] \in joined}}

(* isis_start_all: a device that is no router, or that IS-IS is not enabled *)
(* on, ends the call; one that runs it goes on as it did.                   *)
Startable(c) ==
  LET bad == {e \in Walk(c) : e[1] \notin joined}
  IN  {e[1] : e \in Reached(Walk(c), bad) \ bad} \ started

Pauses == Hello - Jitter .. Hello + Jitter

IsisStartAll(c) ==
  /\ Idle /\ IsCluster(c)
  /\ \E pause \in [Startable(c) -> Pauses] :
       queue' = queue \cup {Notice(clock + pause[d], "hello", d) : d \in Startable(c)}
  /\ started' = started \cup Startable(c)
  /\ UNCHANGED <<systems, cluster, ports, links, nets, enabled, joined, clock, target, schedules>>

-----------------------------------------------------------------------------
(* schedule: a link goes down or up after a delay.                         *)
Schedule(k, w, delay) ==
  /\ Idle
  /\ schedules < MaxSchedules
  /\ schedules' = schedules + 1
  /\ queue' = queue \cup {Notice(clock + delay, w, k)}
  /\ UNCHANGED <<wiring, clock, target>>

RunUntil(tick) ==
  /\ Idle
  /\ target' = tick
  /\ UNCHANGED <<wiring, clock, queue, schedules>>

(* The queue runs the events that are due, the earliest first, those of    *)
(* one instant in any order.                                               *)
IsDue(e) == e.time <= clock /\ \A f \in queue : e.time <= f.time

(* PhysicalLink.up and .down: the ends hear of it half a latency later.    *)
MoveLink(e) ==
  /\ e.what \in {"linkUp", "linkDown"}
  /\ queue' = (queue \ {e}) \cup
                {Notice(clock + Latency, IF e.what = "linkUp" THEN "up" ELSE "down", f) :
                   f \in Ends(e.of)}
  /\ UNCHANGED <<wiring, clock, target, schedules>>

(* PhysicalInterface.up and .down: the port changes its state before its   *)
(* logical interface does, which its listeners are told next.              *)
MovePort(e) ==
  /\ e.what \in {"up", "down"}
  /\ phyUp' = [phyUp EXCEPT ![e.of] = (e.what = "up")]
  /\ logUp' = IF e.what = "up" /\ HasAddress(e.of)
              THEN logUp \cup {e.of} ELSE logUp \ {e.of}
  /\ target' = IF Raises(e.of, logical[e.of], e.what) THEN None ELSE target
  /\ queue' = queue \ {e}
  /\ UNCHANGED <<systems, cluster, logical, links, nets, isis, clock, schedules>>

(* The hello timer: a router with an interface up calls send_clns, whose   *)
(* Frame is no name: NameError, and the timer is not set again.  The timer *)
(* of a router without one is.                                             *)
Speaks(d) == \E e \in enabled \cap logUp : e[1] = d

SendHello(e) ==
  /\ e.what = "hello"
  /\ \/ /\ Speaks(e.of)
        /\ queue' = queue \ {e}
        /\ target' = None
     \/ /\ ~ Speaks(e.of)
        /\ \E pause \in Pauses :
             queue' = (queue \ {e}) \cup {Notice(clock + pause, "hello", e.of)}
        /\ UNCHANGED target
  /\ UNCHANGED <<wiring, clock, schedules>>

(* An exception ends the run; the events behind it stay in the queue.      *)
Execute(e) == ~ Idle /\ IsDue(e) /\ (MoveLink(e) \/ MovePort(e) \/ SendHello(e))

(* Fault: the delay is that of the last event.                             *)
NextTicksLast ==
  IF queue = {} THEN {clock + 1}
  ELSE {e.time : e \in {f \in queue : \A g \in queue : f.time >= g.time}}

(* Fault: an empty queue gives no delay.                                   *)
NextTicksNoDelay ==
  IF queue = {} THEN {clock}
  ELSE {e.time : e \in {f \in queue : \A g \in queue : f.time <= g.time}}

(* Nothing is due: the clock goes on to the next event, or by one tick.    *)
NextTicks ==
  IF queue = {} THEN {clock + 1}
  ELSE {e.time : e \in {f \in queue : \A g \in queue : f.time <= g.time}}

Advance ==
  /\ ~ Idle
  /\ clock < target
  /\ \A e \in queue : e.time > clock
  /\ clock' \in NextTicks
  /\ UNCHANGED <<wiring, queue, target, schedules>>

(* The tick is reached, and the queue was run after the last delay.        *)
Done == clock >= target /\ \A e \in queue : e.time > clock

Finish ==
  /\ ~ Idle
  /\ Done
  /\ target' = None
  /\ UNCHANGED <<wiring, clock, queue, schedules>>

-----------------------------------------------------------------------------
Init ==
  /\ systems = << >>
  /\ logical = [e \in Port |-> None]
  /\ links = << >>
  /\ cluster = [d \in Devices |-> None]
  /\ phyUp = [e \in Port |-> TRUE]
  /\ nets = 0
  /\ logUp = {} /\ enabled = {} /\ joined = {} /\ started = {}
  /\ clock = 0
  /\ queue = {}
  /\ target = None
  /\ schedules = 0

Script ==
  \/ \E d \in Devices : \E c \in Homes[d] : AddDevice(d, c)
  \/ \E e, f \in Port : Connect(e, f)
  \/ \E r, s \in Routers : LinkRouterPair(r, s) \/ LinkRouterPairFails(r, s)
  \/ GetTopology
  \/ \E c \in Range(Clusters) : IsisEnableAll(c) \/ IsisStartAll(c)
  \/ \E k \in LinkIds, w \in {"linkUp", "linkDown"} : Schedule(k, w, 0)
  \/ \E tick \in Ticks : RunUntil(tick)

Loop == (\E e \in queue : Execute(e)) \/ Advance \/ Finish

Next == Script \/ Loop

Spec == Init /\ [][Next]_vars

(* run_until is a loop: nothing but its own steps can hold it up.          *)
FairSpec == Spec /\ WF_vars(Loop)

-----------------------------------------------------------------------------
(* No event is ever late: the clock never passes one, not even when the    *)
(* run that should have executed it was cut short (topology.py:330-336).   *)
NeverLate == \A e \in queue : e.time >= clock

(* Every run comes to its end.                                             *)
RunEnds == ~ Idle ~> Idle

(* The ends of a link of link_router_pair have the two addresses of a      *)
(* network that no other port has, also after calls that failed halfway    *)
(* (topology.py:243).                                                      *)
AddressesPaired ==
  /\ \A e, f \in Port : (HasAddress(e) /\ e # f) => logical[e] # logical[f]
  /\ \A k \in LinkIds : links[k].how = "pair" =>
       {e \in Port : HasAddress(e) /\ logical[e].net = logical[links[k].e1].net} = Ends(k)

(* What costs a run, and how often.  A run that is cut short lost an event  *)
(* for good: the notice to an interface without address that was wired by   *)
(* hand and is not a switch's (router.py:35, server.py:71), or the hello    *)
(* timer of a router, which from then on is silent (isis/process.py:165).   *)
(* Notices of links of link_router_pair cost none, however the network is   *)
(* read and whichever calls failed; the hellos of a router cost one at      *)
(* most, however often IS-IS is enabled and started again.                  *)
CutShort == ~ Idle /\ Idle' /\ ~ Done

Silent(d) == d \in started /\ \A x \in queue : x.what = "hello" => x.of # d

BareByHand(e) ==
  /\ logical[e] = Bare /\ e[1] \notin Switches
  /\ \E k \in LinkIds : links[k].how = "hand" /\ e \in Ends(k)

RunsLost ==
  [][/\ CutShort => \E x \in queue \ queue' :
                      \/ x.what \in {"up", "down"} /\ BareByHand(x.of)
                      \/ x.what = "hello" /\ Silent(x.of)'
     /\ \A d \in Routers : Silent(d) => Silent(d)']_vars

(* IS-IS is enabled at both ends of a link of link_router_pair or at none,  *)
(* with one exception: a server with an address that was added between the  *)
(* two routers ends isis_enable_all, and the router before it has IS-IS     *)
(* (topology.py:254-273).                                                   *)
ServerBetween(e, f) ==
  \E i, j, k \in DOMAIN systems :
    /\ systems[i] = e[1] /\ systems[k] = f[1] /\ i < j /\ j < k
    /\ systems[j] \in Servers /\ HasAddress(<<systems[j], 1>>)
    /\ cluster[systems[j]] = cluster[e[1]]

PeersRunIsis ==
  \A l \in LinkIds : links[l].how = "pair" =>
    \A e, f \in Ends(l) :
      (e \in enabled /\ f \notin enabled) => ServerBetween(e, f)
=============================================================================
