-------------------------------- MODULE Dhcp --------------------------------
(***************************************************************************)
(* Address assignment on one LAN (dhcp.py, with the ARP handler and the    *)
(* UDP dispatch of server.py): clients DISCOVER, servers OFFER an address  *)
(* and hold it, the client probes it with ARP, waits 100 ms and REQUESTs   *)
(* it, the server leases it and ACKs, the client configures it.            *)
(*                                                                         *)
(* The LAN (module Lan) delivers a broadcast once to every other host and  *)
(* in any order; a broadcast is one event per host that acts on it.  The   *)
(* bag holds the events of the global queue (observers.py): the messages   *)
(* in flight and the pending 100 ms checks.                                *)
(***************************************************************************)
EXTENDS Naturals, FiniteSets, Bags

CONSTANTS Clients,    \* the hosts that start a DHCP client
          Servers,    \* the hosts that run a DHCP server
          Fixed,      \* the hosts with an address configured by hand
          Static,     \* Static[h]: the address of h \in Fixed
          Addrs,      \* the addresses of the network, in order
          Pool,       \* Pool[s]: the lease range of server s
          None,       \* no address (0.0.0.0), no client, no server
          Prompt,     \* whether an ARP round trip takes less than 100 ms
          MaxStarts,  \* MaxStarts[c]: bound on the starts of client c
          MaxLosses   \* bound on the messages lost to link failures

Hosts == Clients \cup Fixed

ASSUME HostsAssumption ==
  /\ Clients \cap Fixed = {}
  /\ Servers \subseteq Fixed
  /\ None \notin Hosts \cup Addrs

ASSUME AddressAssumption ==
  /\ Addrs \subseteq Nat
  /\ Static \in [Fixed -> Addrs]
  /\ \A g, h \in Fixed : Static[g] = Static[h] => g = h
  /\ Pool \in [Servers -> SUBSET Addrs]

ASSUME BoundsAssumption ==
  /\ Prompt \in BOOLEAN
  /\ MaxStarts \in [Clients -> Nat]
  /\ MaxLosses \in Nat

VARIABLES
  events,  \* bag of the events in the queue
  starts,  \* starts[c]: how many times c started its client
  addr,    \* addr[h]: the address h is configured with
  cache,   \* cache[h]: the addresses in the ARP cache of h
  held,    \* held[s][a]: the client server s holds address a for
  hold,    \* hold[s][c]: the address server s last offered to c
  leases,  \* leases[s][c]: the address server s leased to c
  leased,  \* leased[s]: the addresses server s ever leased
  losses   \* how many messages were lost

vars == <<events, starts, addr, cache, held, hold, leases, leased, losses>>

(***************************************************************************)
(* Events.  client is the client whose exchange it is, to the host that    *)
(* handles the event, server the siaddr field, addr the address the        *)
(* message is about and psrc the sender address of an ARP packet.          *)
(***************************************************************************)
EventTypes == {"discover", "offer", "check", "request", "ack", "probe", "reply"}

Event == [type : EventTypes, client : Clients, to : Hosts,
          server : Servers \cup {None}, addr : Addrs \cup {None},
          psrc : Addrs \cup {None}]

Msg(t, c, h, s, a, p) ==
  [type |-> t, client |-> c, to |-> h, server |-> s, addr |-> a, psrc |-> p]

IsQueue(B) == IsABag(B) /\ BagToSet(B) \subseteq Event

Left(e) == events (-) SetToBag({e})

-----------------------------------------------------------------------------
(* dhcp_client_start: the client broadcasts a DISCOVER.                    *)
Discovers(c) == {Msg("discover", c, s, None, None, None) : s \in Servers}

Start(c) ==
  /\ starts[c] < MaxStarts[c]
  /\ starts' = [starts EXCEPT ![c] = @ + 1]
  /\ events' = events (+) SetToBag(Discovers(c))
  /\ UNCHANGED <<addr, cache, held, hold, leases, leased, losses>>

(* Fault: a range that forgets its holds.                                  *)
FreeUnleased(s) == {a \in Pool[s] : a \notin leased[s]}

(* The address for an offer: the one the client already leased, else the   *)
(* first of the range that is neither held nor leased.                     *)
Free(s) == {a \in Pool[s] : held[s][a] = None /\ a \notin leased[s]}

(* Fault: the lease the client already has is not looked up.               *)
ForOfferFresh(s, c, a) == a \in Free(s) /\ \A b \in Free(s) : a <= b

ForOffer(s, c, a) ==
  \/ leases[s][c] # None /\ a = leases[s][c]
  \/ leases[s][c] = None /\ a \in Free(s) /\ \A b \in Free(s) : a <= b

(* Fault: the address is held for itself.                                  *)
HoldSwapped(s, c, a) ==
  /\ held' = [held EXCEPT ![s][a] = a]
  /\ hold' = [hold EXCEPT ![s][c] = a]

(* A hold is kept by address and by client; the client's holds its offer.  *)
Hold(s, c, a) ==
  /\ held' = [held EXCEPT ![s][a] = c]
  /\ hold' = [hold EXCEPT ![s][c] = a]

Offer(e, a) ==
  LET s == e.to
      c == e.client
  IN  /\ e.type = "discover"
      /\ ForOffer(s, c, a)
      /\ Hold(s, c, a)
      /\ events' = Left(e) (+) SetToBag({Msg("offer", c, c, s, a, None)})
      /\ UNCHANGED <<starts, addr, cache, leases, leased, losses>>

NoOffer(e) ==
  /\ e.type = "discover"
  /\ \A a \in Addrs : ~ ForOffer(e.to, e.client, a)
  /\ events' = Left(e)
  /\ UNCHANGED <<starts, addr, cache, held, hold, leases, leased, losses>>

(* The client probes the address and schedules the check.                  *)
Probes(c, a) == {Msg("probe", c, h, None, a, addr[c]) : h \in Hosts \ {c}}

ReceiveOffer(e) ==
  LET c == e.client
  IN  /\ e.type = "offer"
      /\ events' = Left(e) (+)
           SetToBag(Probes(c, e.addr) \cup {Msg("check", c, c, e.server, e.addr, None)})
      /\ UNCHANGED <<starts, addr, cache, held, hold, leases, leased, losses>>

(* ARP: the sender is cached (even 0.0.0.0, None here: the guard of        *)
(* arp.py:71 compares a string with an address), the owner answers.        *)
Answer(e) ==
  IF e.type = "probe" /\ addr[e.to] = e.addr
  THEN {Msg("reply", e.client, e.client, None, e.addr, e.addr)} ELSE {}

ReceiveArp(e) ==
  /\ e.type \in {"probe", "reply"}
  /\ cache' = [cache EXCEPT ![e.to] = @ \cup {e.psrc}]
  /\ events' = Left(e) (+) SetToBag(Answer(e))
  /\ UNCHANGED <<starts, addr, held, hold, leases, leased, losses>>

(* After 100 ms: REQUEST the address, unless somebody answered the probe.  *)
Settled(e) ==
  Prompt => \A d \in BagToSet(events) :
              ~ (d.type \in {"probe", "reply"} /\ d.client = e.client /\ d.addr = e.addr)

Requests(e) == {Msg("request", e.client, s, e.server, e.addr, None) : s \in Servers}

(* Faults: the cache is not looked up, or any entry counts.                *)
NeverInUse(e) == FALSE

AnythingInUse(e) == cache[e.to] # {}

InUse(e) == e.addr \in cache[e.to]

Check(e) ==
  /\ e.type = "check"
  /\ Settled(e)
  /\ events' = IF InUse(e) THEN Left(e)
               ELSE Left(e) (+) SetToBag(Requests(e))
  /\ UNCHANGED <<starts, addr, cache, held, hold, leases, leased, losses>>

Release(s, c) ==
  /\ held' = [held EXCEPT ![s][hold[s][c]] = None]
  /\ hold' = [hold EXCEPT ![s][c] = None]

(* Fault: the lease is recorded by address only.                           *)
LeaseHalf(s, c, a) ==
  /\ leased' = [leased EXCEPT ![s] = @ \cup {a}]
  /\ UNCHANGED leases

Lease(s, c, a) ==
  /\ leases' = [leases EXCEPT ![s][c] = a]
  /\ leased' = [leased EXCEPT ![s] = @ \cup {a}]

(* bind_and_ack: the hold of the client is cleared, the address it         *)
(* REQUESTed is leased, the address it was offered last is ACKed.          *)
Ack(e) == Msg("ack", e.client, e.client, e.to, hold[e.to][e.client], None)

BindAndAck(e) ==
  LET s == e.to
      c == e.client
  IN  /\ e.type = "request"
      /\ hold[s][c] # None
      /\ held[s][hold[s][c]] # None
      /\ Release(s, c)
      /\ Lease(s, c, e.addr)
      /\ events' = Left(e) (+) SetToBag({Ack(e)})
      /\ UNCHANGED <<starts, addr, cache, losses>>

(* The second deletion of dhcp.py:413-414 raises KeyError: the request is  *)
(* lost with the hold of the client, and run_until (topology.py:335) ends; *)
(* the events that are left run when it is called again.                   *)
DeletionFails(e) ==
  /\ e.type = "request"
  /\ hold[e.to][e.client] # None
  /\ held[e.to][hold[e.to][e.client]] = None

HoldMissing(e) ==
  /\ DeletionFails(e)
  /\ hold' = [hold EXCEPT ![e.to][e.client] = None]
  /\ events' = Left(e)
  /\ UNCHANGED <<starts, addr, cache, held, leases, leased, losses>>

NoHold(e) ==
  /\ e.type = "request"
  /\ hold[e.to][e.client] = None
  /\ events' = Left(e)
  /\ UNCHANGED <<starts, addr, cache, held, hold, leases, leased, losses>>

ApplyConfig(e) ==
  /\ e.type = "ack"
  /\ addr' = [addr EXCEPT ![e.client] = e.addr]
  /\ events' = Left(e)
  /\ UNCHANGED <<starts, cache, held, hold, leases, leased, losses>>

(* A message is lost on a link that went down.                             *)
Lose(e) ==
  /\ e.type # "check"
  /\ losses < MaxLosses
  /\ losses' = losses + 1
  /\ events' = Left(e)
  /\ UNCHANGED <<starts, addr, cache, held, hold, leases, leased>>

-----------------------------------------------------------------------------
Init ==
  /\ events = EmptyBag
  /\ starts = [c \in Clients |-> 0]
  /\ addr = [h \in Hosts |-> IF h \in Fixed THEN Static[h] ELSE None]
  /\ cache = [h \in Hosts |-> {}]
  /\ held = [s \in Servers |-> [a \in Addrs |-> None]]
  /\ hold = [s \in Servers |-> [c \in Clients |-> None]]
  /\ leases = [s \in Servers |-> [c \in Clients |-> None]]
  /\ leased = [s \in Servers |-> {}]
  /\ losses = 0

Handle(e) ==
  \/ \E a \in Addrs : Offer(e, a)
  \/ NoOffer(e)
  \/ ReceiveOffer(e)
  \/ ReceiveArp(e)
  \/ Check(e)
  \/ BindAndAck(e)
  \/ HoldMissing(e)
  \/ NoHold(e)
  \/ ApplyConfig(e)

Run == \E e \in BagToSet(events) : Handle(e)

Next ==
  \/ Run
  \/ \E c \in Clients : Start(c)
  \/ \E e \in BagToSet(events) : Lose(e)

Spec == Init /\ [][Next]_vars

(* The event loop runs every event that was scheduled (topology.py:321).   *)
FairSpec == Spec /\ WF_vars(Run)

-----------------------------------------------------------------------------
TypeOK ==
  /\ IsQueue(events)
  /\ starts \in [Clients -> Nat]
  /\ \A c \in Clients : starts[c] <= MaxStarts[c]
  /\ addr \in [Hosts -> Addrs \cup {None}]
  /\ cache \in [Hosts -> SUBSET (Addrs \cup {None})]
  /\ held \in [Servers -> [Addrs -> Clients \cup {None}]]
  /\ hold \in [Servers -> [Clients -> Addrs \cup {None}]]
  /\ leases \in [Servers -> [Clients -> Addrs \cup {None}]]
  /\ leased \in [Servers -> SUBSET Addrs]
  /\ losses \in 0 .. MaxLosses

(* The condition of PoolConsistent and LeaseKept: when a client starts a   *)
(* third time, REQUESTs of its first two exchanges may still be under way, *)
(* and its new hold lets each of them through.                             *)
FewStarts(c) == starts[c] <= 2

(* The two views of the holds and the two of the leases agree (dhcp.py:    *)
(* 211-216): the address in the hold of a client is held for that client   *)
(* (so the deletion in dhcp.py:414 cannot fail and no address is on offer  *)
(* to two clients), no address is leased to two clients, and an address is *)
(* held for a client and leased to another at no time.                     *)
ViewsAgree ==
  \A s \in Servers, c \in Clients :
    /\ hold[s][c] # None => held[s][hold[s][c]] = c
    /\ leases[s][c] # None => leases[s][c] \in leased[s]
    /\ \A d \in Clients \ {c} :
         leases[s][c] # None =>
           leases[s][d] # leases[s][c] /\ held[s][leases[s][c]] # d

(* While no client has started more than twice, holds and leases agree, in *)
(* whatever order the messages of both exchanges come.  After a third      *)
(* start the late REQUEST of the second leases an address whose hold was   *)
(* cleared (dhcp.py:409-414), and which may be on offer to another client. *)
PoolConsistent == (\A c \in Clients : FewStarts(c)) => ViewsAgree

(* No two hosts are configured with one address, whether it was leased or  *)
(* set by hand (dhcp.py:130-140 probes for the latter).                    *)
NoSharedAddress ==
  \A g, h \in Hosts : addr[g] # None /\ addr[g] = addr[h] => g = h

(* A client is configured with the address that was leased to it           *)
(* (dhcp.py:398, "Assign the address lease and send out the actual host    *)
(* parameters").                                                           *)
AppliedIsLeased ==
  \A c \in Clients : addr[c] # None => \E s \in Servers : leases[s][c] = addr[c]

(***************************************************************************)
(* What makes the three invariants above inductive when there is one       *)
(* server and each client starts once.  The exchange of a client is one    *)
(* event at a time (OneEvent), whose kind says what the server holds and   *)
(* leased for it (StageOK); a held address is in the lease range, for a    *)
(* client with no lease, and is not leased (HoldOK); an address set by     *)
(* hand that a client checks is being probed or is cached (ProbeOK), and   *)
(* is never requested (StaticOK).                                          *)
(***************************************************************************)
Own(e) == e.type \notin {"probe", "reply"}

OneEvent ==
  \A d, e \in BagToSet(events) :
    Own(d) /\ Own(e) /\ d.client = e.client => d = e /\ events[d] = 1

ShapeOK ==
  \A e \in BagToSet(events) :
    /\ e.to \in (IF e.type \in {"discover", "request"} THEN Servers
                 ELSE IF e.type = "probe" THEN Hosts ELSE {e.client})
    /\ e.type # "discover" => e.addr \in Addrs
    /\ e.type = "reply" => e.psrc = e.addr

StageOK ==
  \A e \in BagToSet(events), s \in Servers :
    Own(e) =>
      /\ starts[e.client] > 0
      /\ addr[e.client] = None
      /\ hold[s][e.client] = IF e.type \in {"offer", "check", "request"} THEN e.addr ELSE None
      /\ leases[s][e.client] = IF e.type = "ack" THEN e.addr ELSE None

HoldOK ==
  \A s \in Servers, c \in Clients :
    /\ starts[c] = 0 => hold[s][c] = None /\ leases[s][c] = None
    /\ hold[s][c] # None => hold[s][c] \in Pool[s] /\ leases[s][c] = None
    /\ \A a \in Addrs : held[s][a] = c => hold[s][c] = a /\ a \notin leased[s]

AddrOK ==
  /\ \A h \in Fixed : addr[h] = Static[h]
  /\ \A c \in Clients : addr[c] # None => \A s \in Servers : leases[s][c] = addr[c]

(* What the proofs assume: clients start once, and either no address set   *)
(* by hand is in a lease range, or probes are answered in time and never   *)
(* lost.                                                                   *)
StartOnce  == \A c \in Clients : MaxStarts[c] = 1
PoolsFree  == \A s \in Servers, h \in Fixed : Static[h] \notin Pool[s]
ProbesWork == Prompt /\ MaxLosses = 0

Probed(e, h) ==
  \/ e.addr \in cache[e.client]
  \/ \E d \in BagToSet(events) :
       /\ d.type \in {"probe", "reply"}
       /\ d.client = e.client
       /\ d.addr = e.addr
       /\ d.type = "probe" => d.to = h

ProbeOK ==
  ProbesWork =>
    \A e \in BagToSet(events), h \in Fixed :
      e.type = "check" /\ e.addr = Static[h] => Probed(e, h)

StaticOK ==
  \A h \in Fixed :
    /\ \A e \in BagToSet(events) : e.type \in {"request", "ack"} => e.addr # Static[h]
    /\ \A s \in Servers, c \in Clients : leases[s][c] # Static[h]

IInv ==
  /\ TypeOK /\ ViewsAgree
  /\ OneEvent /\ ShapeOK /\ StageOK /\ HoldOK /\ AddrOK /\ ProbeOK /\ StaticOK

(* A REQUEST clears the holds of its client (dhcp.py:409, "we clear any     *)
(* holds regardless"): no deletion of dhcp.py:413-414 fails.               *)
HoldsCleared == \A e \in BagToSet(events) : ~ DeletionFails(e)

(* A client that starts a second time, at any moment of its first          *)
(* exchange, keeps the address it was leased: dhcp.py:239 offers it again, *)
(* and a REQUEST for another address finds no hold (dhcp.py:405-420).  A   *)
(* third start makes a hold again, and such a late REQUEST replaces the    *)
(* lease.                                                                  *)
LeaseKept ==
  [][\A s \in Servers, c \in Clients :
       leases[s][c] \notin {None, leases'[s][c]} => ~ FewStarts(c)]_vars

(* Assignment as the LAN sees it: unique leases, configuration by lease.   *)
Leased(c) == {leases[s][c] : s \in Servers} \ {None}

Service == INSTANCE AddressService
             WITH Used  <- {Static[h] : h \in Fixed},
                  lease <- [c \in Clients |-> Leased(c)],
                  addr  <- [c \in Clients |-> addr[c]]
AddressServiceSpec == Service!Spec

(* With enough addresses and no loss, every client that starts is          *)
(* configured, whatever order its messages and its check run in, unless    *)
(* the address it was offered belongs to another host (dhcp.py:140).       *)
EveryClientConfigured ==
  \A c \in Clients : (starts[c] > 0) ~>
    \/ addr[c] # None
    \/ \E s \in Servers, f \in Fixed : hold[s][c] = Static[f]
=============================================================================
