-------------------------------- MODULE Lan --------------------------------
(***************************************************************************)
(* The local area network of router-sim: end hosts (server.py, arp.py and  *)
(* the echo handling of netdevice.py) attached to learning switches        *)
(* (switching/bridging.py, switching/switch.py) by point-to-point links    *)
(* (interface.py).  Every host owns one interface with one static address, *)
(* so a host stands for its MAC and for its IPv4 address alike.            *)
(*                                                                         *)
(* The event queue of observers.py runs the events of one instant in a     *)
(* random order, and links may have any latency, so the frames in flight   *)
(* are a bag and any of them may be the next one received.  MAC entries    *)
(* age after 300 simulated seconds of silence (bridging.py:9); this module *)
(* covers the life of the network between two such silences.               *)
(***************************************************************************)
EXTENDS Naturals, FiniteSets, Bags

CONSTANTS Hosts,      \* the end hosts
          Switches,   \* the learning switches
          Nbr,        \* Nbr[s]: the devices at the far end of the links of s
          Attach,     \* Attach[h]: the switch the link of host h leads to
          Toward,     \* Toward[s][h]: the neighbour of s on the path to h
          None,       \* no entry, no ping
          Pings,      \* the identities of the echo exchanges (pingid)
          Trunks,     \* the links {s, t} between switches that may fail
          MaxFlaps    \* bound on the number of link failures

Nodes == Hosts \cup Switches

(* The cabling is a tree: Toward is its routing function.  The simulator   *)
(* has no spanning tree protocol; switchtest.py:67 closes a loop on        *)
(* purpose, and a frame that is flooded there never dies.  What the        *)
(* switches promise they promise for the loop-free networks.               *)
ASSUME NamesAssumption ==
  /\ Hosts \cap Switches = {}
  /\ None \notin Nodes \cup Pings \cup (Hosts \X Hosts)
  /\ MaxFlaps \in Nat

ASSUME TreeAssumption ==
  /\ Attach \in [Hosts -> Switches]
  /\ Nbr \in [Switches -> SUBSET Nodes]
  /\ Toward \in [Switches -> [Hosts -> Nodes]]
  /\ \A s \in Switches, h \in Hosts :
       /\ Toward[s][h] \in Nbr[s]
       /\ h \in Nbr[s] <=> Attach[h] = s
       /\ Attach[h] = s => Toward[s][h] = h
       /\ Toward[s][h] \in Hosts => Toward[s][h] = h
       /\ \A t \in Nbr[s] \cap Switches :
            IF t = Toward[s][h] THEN Toward[t][h] # s ELSE Toward[t][h] = s

ASSUME TrunkAssumption == Trunks \subseteq SUBSET Switches

VARIABLES
  table,     \* table[s][h]: the neighbour behind the port learned for h
  cache,     \* cache[h]: the hosts whose address h has resolved
  send_q,    \* send_q[h][g]: the packets of h that wait for the MAC of g
  wire,      \* bag of the frames in flight, each on one link
  down,      \* the trunks that are down
  flaps,     \* how many times a trunk went down
  flow,      \* flow[p]: <<source, destination>> of echo exchange p
  served,    \* served[p]: how many times the destination took the request
  answered   \* answered[p]: how many times the source took the reply

vars == <<table, cache, send_q, wire, down, flaps, flow, served, answered>>

(***************************************************************************)
(* Frames.  An ARP request is broadcast; the others carry the MAC of       *)
(* target as their destination.  The ARP payload names src as its sender,  *)
(* the IP header names src and target.                                     *)
(***************************************************************************)
ArpFrame == [type : {"ArpRequest", "ArpReply"}, src : Hosts,
             target : Hosts, ping : {None}]
IpFrame  == [type : {"EchoRequest", "EchoReply"}, src : Hosts,
             target : Hosts, ping : Pings]
Frame    == ArpFrame \cup IpFrame
Copy     == [from : Nodes, to : Nodes, frame : Frame]

(* A bag of frames on links.                                               *)
IsWire(W) == IsABag(W) /\ BagToSet(W) \subseteq Copy

Arp(t, h, g)     == [type |-> t, src |-> h, target |-> g, ping |-> None]
Echo(t, h, g, p) == [type |-> t, src |-> h, target |-> g, ping |-> p]

IsBroadcast(f) == f.type = "ArpRequest"

(* Putting frames on the links from n to its neighbours in M: one copy per *)
(* link, and nothing on a link that is down.                               *)
Sent(n, M, F) ==
  SetToBag({c \in [from : {n}, to : M, frame : F] : {n, c.to} \notin down})

(* The frames in flight once copy c has been received.                     *)
Taken(c) == wire (-) SetToBag({c})

-----------------------------------------------------------------------------
(* The port a host was last heard from, or None; entries do not age.       *)
LookupMac(s, h) == table[s][h]

(***************************************************************************)
(* A switch processes a frame: the destination is looked up before the     *)
(* source is learned; a broadcast or an unknown destination is flooded to  *)
(* every port but the one it came from.                                    *)
(***************************************************************************)
OutPorts(s, c) ==
  IF IsBroadcast(c.frame) \/ LookupMac(s, c.frame.target) = None
  THEN Nbr[s] \ {c.from}
  ELSE {LookupMac(s, c.frame.target)}

(* Faults: the target is learned for the source, or only unicast sources.  *)
LearnedTarget(s, c)  == [table EXCEPT ![s][c.frame.target] = c.from]
LearnedUnicast(s, c) ==
  IF IsBroadcast(c.frame) THEN table ELSE [table EXCEPT ![s][c.frame.src] = c.from]

Learned(s, c) == [table EXCEPT ![s][c.frame.src] = c.from]

SwitchReceive(c) ==
  /\ BagIn(c, wire)
  /\ c.to \in Switches
  /\ table' = Learned(c.to, c)
  /\ wire' = Taken(c) (+) Sent(c.to, OutPorts(c.to, c), {c.frame})
  /\ UNCHANGED <<cache, send_q, down, flaps, flow, served, answered>>

(* The ARP queue.  Faults: the ARP request is queued for the packet, and   *)
(* the packets that were sent stay in the queue.                           *)
EnqueuedRequest(h, f) ==
  [send_q EXCEPT ![h][f.target] = @ \cup {Arp("ArpRequest", h, f.target)}]
FlushedNone(h, g) == send_q

Enqueued(h, f) == [send_q EXCEPT ![h][f.target] = @ \cup {f}]
Flushed(h, g)  == [send_q EXCEPT ![h][g] = {}]

(***************************************************************************)
(* A host sends an IP packet to a host of its own network: at once when    *)
(* the MAC is cached, else it queues the packet and broadcasts a request.  *)
(* w is the bag of frames in flight the frames sent are added to.          *)
(***************************************************************************)
SendIp(h, f, w) ==
  \/ /\ f.target \in cache[h]
     /\ wire' = w (+) Sent(h, {Attach[h]}, {f})
     /\ UNCHANGED send_q
  \/ /\ f.target \notin cache[h]
     /\ send_q' = Enqueued(h, f)
     /\ wire' = w (+) Sent(h, {Attach[h]}, {Arp("ArpRequest", h, f.target)})

Ping(a, b, p) ==
  /\ a # b
  /\ flow[p] = None
  /\ flow' = [flow EXCEPT ![p] = <<a, b>>]
  /\ SendIp(a, Echo("EchoRequest", a, b, p), wire)
  /\ UNCHANGED <<table, cache, down, flaps, served, answered>>

(* A frame for another MAC is ignored.                                     *)
Accepts(h, f) == IsBroadcast(f) \/ f.target = h

HostIgnore(c) ==
  /\ BagIn(c, wire)
  /\ c.to \in Hosts
  /\ ~ Accepts(c.to, c.frame)
  /\ wire' = Taken(c)
  /\ UNCHANGED <<table, cache, send_q, down, flaps, flow, served, answered>>

(* ArpCache: the sender of any ARP packet enters it, and stays.            *)
Cached(h, f) == [cache EXCEPT ![h] = @ \cup {f.src}]

(* ARP: the sender is always cached, a request for the own address is      *)
(* answered, and the packets that waited for the sender leave.             *)
(* Fault: only a sender that is not cached yet is answered.                *)
ArpAnswerOnce(h, f) ==
  IF f.type = "ArpRequest" /\ f.target = h /\ f.src \notin cache[h]
  THEN {Arp("ArpReply", h, f.src)} ELSE {}

ArpAnswer(h, f) ==
  IF f.type = "ArpRequest" /\ f.target = h THEN {Arp("ArpReply", h, f.src)} ELSE {}

HostReceiveArp(c) ==
  LET h == c.to
      f == c.frame
  IN  /\ BagIn(c, wire)
      /\ h \in Hosts
      /\ Accepts(h, f)
      /\ f.type \in {"ArpRequest", "ArpReply"}
      /\ cache' = Cached(h, f)
      /\ wire' = Taken(c) (+) Sent(h, {Attach[h]}, ArpAnswer(h, f) \cup send_q[h][f.src])
      /\ send_q' = Flushed(h, f.src)
      /\ UNCHANGED <<table, down, flaps, flow, served, answered>>

HostReceiveEchoRequest(c) ==
  LET h == c.to
      f == c.frame
  IN  /\ BagIn(c, wire)
      /\ h \in Hosts
      /\ Accepts(h, f)
      /\ f.type = "EchoRequest"
      /\ served' = [served EXCEPT ![f.ping] = @ + 1]
      /\ SendIp(h, Echo("EchoReply", h, f.src, f.ping), Taken(c))
      /\ UNCHANGED <<table, cache, down, flaps, flow, answered>>

HostReceiveEchoReply(c) ==
  /\ BagIn(c, wire)
  /\ c.to \in Hosts
  /\ Accepts(c.to, c.frame)
  /\ c.frame.type = "EchoReply"
  /\ answered' = [answered EXCEPT ![c.frame.ping] = @ + 1]
  /\ wire' = Taken(c)
  /\ UNCHANGED <<table, cache, send_q, down, flaps, flow, served>>

(***************************************************************************)
(* A trunk goes down: nothing is sent on it any more, and a frame in       *)
(* flight on it is lost when its end of the link is down on arrival.  A    *)
(* switch keeps what it learned: it has no listener for LINK_STATE.        *)
(***************************************************************************)
LinkDown(l) ==
  /\ l \in Trunks \ down
  /\ flaps < MaxFlaps
  /\ down' = down \cup {l}
  /\ flaps' = flaps + 1
  /\ UNCHANGED <<table, cache, send_q, wire, flow, served, answered>>

LinkUp(l) ==
  /\ l \in down
  /\ down' = down \ {l}
  /\ UNCHANGED <<table, cache, send_q, wire, flaps, flow, served, answered>>

Lose(c) ==
  /\ BagIn(c, wire)
  /\ {c.from, c.to} \in down
  /\ wire' = Taken(c)
  /\ UNCHANGED <<table, cache, send_q, down, flaps, flow, served, answered>>

-----------------------------------------------------------------------------
Init ==
  /\ table = [s \in Switches |-> [h \in Hosts |-> None]]
  /\ cache = [h \in Hosts |-> {}]
  /\ send_q = [h \in Hosts |-> [g \in Hosts |-> {}]]
  /\ wire = EmptyBag
  /\ down = {}
  /\ flaps = 0
  /\ flow = [p \in Pings |-> None]
  /\ served = [p \in Pings |-> 0]
  /\ answered = [p \in Pings |-> 0]

Receive(c) ==
  \/ SwitchReceive(c)
  \/ HostIgnore(c)
  \/ HostReceiveArp(c)
  \/ HostReceiveEchoRequest(c)
  \/ HostReceiveEchoReply(c)

Deliver == \E c \in BagToSet(wire) : Receive(c)

Environment ==
  \/ \E a, b \in Hosts, p \in Pings : Ping(a, b, p)
  \/ \E l \in Trunks : LinkDown(l) \/ LinkUp(l)
  \/ \E c \in BagToSet(wire) : Lose(c)

Next == Deliver \/ Environment

Spec == Init /\ [][Next]_vars

(* The event loop runs every event that was scheduled (topology.py:321).   *)
FairSpec == Spec /\ WF_vars(Deliver)

-----------------------------------------------------------------------------
TypeOK ==
  /\ table \in [Switches -> [Hosts -> Nodes \cup {None}]]
  /\ cache \in [Hosts -> SUBSET Hosts]
  /\ send_q \in [Hosts -> [Hosts -> SUBSET IpFrame]]
  /\ IsWire(wire)
  /\ down \subseteq Trunks
  /\ flaps \in 0 .. MaxFlaps
  /\ flow \in [Pings -> (Hosts \X Hosts) \cup {None}]
  /\ served \in [Pings -> Nat]
  /\ answered \in [Pings -> Nat]

(* Whatever the order of the frames, a switch never learns a host on a     *)
(* port that leads away from it (bridging.py:55), and the next switch on   *)
(* the learned path knows the host too: following the tables from any      *)
(* switch that knows a host ends at that host.                             *)
PathsLeadHome ==
  \A s \in Switches, h \in Hosts :
    table[s][h] # None =>
      /\ table[s][h] = Toward[s][h]
      /\ table[s][h] \in Switches => table[table[s][h]][h] # None

(* A unicast frame that reaches a switch finds its destination in the      *)
(* table, on another port than the one it came from: it is neither flooded *)
(* to hosts it is not for nor sent back (bridging.py:117-132).             *)
UnicastKnown ==
  \A c \in BagToSet(wire) :
    c.to \in Switches /\ ~ IsBroadcast(c.frame) =>
      table[c.to][c.frame.target] \notin {None, c.from}

(* The echo packet of an exchange is in one place at a time: one copy in   *)
(* flight or in one ARP queue (arp.py:96-109), request or reply, and in    *)
(* none before the ping or after the reply was taken.                      *)
Flying(p) == {c \in BagToSet(wire) : c.frame.ping = p}
Queued(p) == {f \in UNION {send_q[h][g] : h, g \in Hosts} : f.ping = p}

OnePlace ==
  \A p \in Pings :
    /\ \A c, d \in Flying(p) : c = d /\ wire[c] = 1
    /\ \A e, f \in Queued(p) : e = f
    /\ Flying(p) = {} \/ Queued(p) = {}
    /\ flow[p] = None \/ answered[p] > 0 => Flying(p) = {} /\ Queued(p) = {}

(***************************************************************************)
(* What makes the invariants above inductive.  A frame travels away from   *)
(* its source, over switches that have learned the source (CopyOK); an     *)
(* address is in an ARP cache only when the switch of the host knows the   *)
(* way to it (CacheOK); a queued packet is under its source and target     *)
(* (QueueOK); a request in any place was not served yet, a reply was       *)
(* served once (StageOK).                                                  *)
(***************************************************************************)
CopyOK ==
  \A c \in BagToSet(wire) :
    /\ c.from \in Switches => table[c.from][c.frame.src] # None
    /\ c.from \in Hosts => c.from = c.frame.src
    /\ c.to \in Switches => c.from = Toward[c.to][c.frame.src]
    /\ c.to \in Hosts => c.from = Attach[c.to] /\ c.to # c.frame.src

CacheOK ==
  \A h \in Hosts : \A g \in cache[h] : g # h /\ table[Attach[h]][g] # None

QueueOK ==
  \A h, g \in Hosts : \A f \in send_q[h][g] : f.src = h /\ f.target = g /\ g # h

StageOK ==
  \A p \in Pings :
    /\ \A c \in Flying(p) : served[p] = IF c.frame.type = "EchoReply" THEN 1 ELSE 0
    /\ \A f \in Queued(p) : served[p] = IF f.type = "EchoReply" THEN 1 ELSE 0
    /\ flow[p] = None => served[p] = 0 /\ answered[p] = 0

NetInv  == TypeOK /\ PathsLeadHome /\ UnicastKnown /\ CopyOK /\ CacheOK /\ QueueOK
EchoInv == OnePlace /\ StageOK
IInv    == NetInv /\ EchoInv

(* With no link failure, a host that keeps packets for an address has an   *)
(* ARP exchange for it under way: a request still on its way to that host, *)
(* or the reply.  The code never repeats a request (server.py:205-207), so *)
(* packets without one would wait for ever.                                *)
QueueIsAwaited ==
  \A h, g \in Hosts :
    send_q[h][g] # {} =>
      \E c \in BagToSet(wire) :
        \/ /\ c.frame = Arp("ArpRequest", h, g)
           /\ c.to \in Switches => Toward[c.to][g] # c.from
           /\ c.to \in Hosts => c.to = g
        \/ c.frame = Arp("ArpReply", g, h)

(* The network as its users see it: an exchange is served at most once and *)
(* answered at most once, and only after it was served (EchoService).      *)
Service == INSTANCE EchoService
EchoServiceSpec == Service!Spec

(* With no link failure every ping is answered, through address resolution *)
(* in both directions and whatever order the frames take.                  *)
EveryPingAnswered ==
  \A p \in Pings : (flow[p] # None) ~> (answered[p] = 1)
=============================================================================
