--------------------------- MODULE TopologyProofs ---------------------------
(***************************************************************************)
(* For every network and every order of the script's calls: addresses stay *)
(* paired, no event is late, a run is lost only to a bare interface wired  *)
(* by hand or to the first hello of a router that speaks, and IS-IS runs   *)
(* at both ends of a link unless a server stands between them.             *)
(***************************************************************************)
EXTENDS Topology, SequenceTheorems, TLAPS

(* The links: ends are ports of two devices, each in one link; no call     *)
(* takes more networks than the bounds allow.                              *)
LinksOK ==
  /\ links \in Seq([e1 : Port, e2 : Port, how : {"hand", "pair"}])
  /\ \A k \in LinkIds : links[k].e1 # links[k].e2
  /\ \A j, k \in LinkIds : j # k => Ends(j) \cap Ends(k) = {}
  /\ Len(links) <= MaxLinks
  /\ nets \in Nat /\ nets <= MaxLinks + Len(links)

(* Where an address comes from: a server's own on its first port, or one   *)
(* of a network that was taken, on a router.                               *)
Given(e) ==
  \/ e[1] \in Servers /\ e = <<e[1], 1>> /\ logical[e] = OwnAddress(e[1])
  \/ e[1] \in Routers /\ \E n \in 1 .. nets, i \in {1, 2} : logical[e] = PairAddress(n, i)

AddressesOK ==
  /\ DOMAIN logical = Port
  /\ \A e \in Port : HasAddress(e) => Given(e)
  /\ \A e, f \in Port : HasAddress(e) /\ e # f => logical[e] # logical[f]

(* A paired link has a network to itself.                                  *)
Owns(k, n) ==
  /\ logical[links[k].e1] = PairAddress(n, 1) /\ logical[links[k].e2] = PairAddress(n, 2)
  /\ links[k].e1[1] \in Routers /\ links[k].e2[1] \in Routers
  /\ \A e \in Port : HasAddress(e) /\ logical[e].net = n => e \in Ends(k)

PairsOK == \A k \in LinkIds : links[k].how = "pair" => \E n \in 1 .. nets : Owns(k, n)

(* Notices are for ends of links, scheduled moves for links; none is late. *)
NoticesOK ==
  /\ clock \in Nat
  /\ \A x \in queue :
       /\ x.time \in Nat /\ x.time >= clock
       /\ x.what \in {"linkUp", "linkDown"} => x.of \in LinkIds
       /\ x.what \in {"up", "down"} => \E k \in LinkIds : x.of \in Ends(k)

WiringInv == LinksOK /\ AddressesOK /\ PairsOK /\ NoticesOK

-----------------------------------------------------------------------------
LEMMA NewAddress ==
  ASSUME NEW n \in Nat, n <= 2 * MaxLinks, NEW i \in {1, 2} \cup Devices
  PROVE  [net |-> n, host |-> i] \notin {None, Bare}
<1>1. n \in 0 .. 2 * MaxLinks
  BY BoundsAssumption
<1> QED
  BY <1>1, ValuesAssumption

(* What the ends of a link are.                                            *)
LEMMA LinkFields ==
  ASSUME LinksOK, NEW k \in LinkIds
  PROVE  /\ links[k].e1 \in Port /\ links[k].e2 \in Port
         /\ links[k].how \in {"hand", "pair"}
         /\ Ends(k) \subseteq Port
<1> DEFINE S == [e1 : Port, e2 : Port, how : {"hand", "pair"}]
<1> HIDE DEF S
<1>1. links \in Seq(S)
  BY DEF LinksOK, S
<1>2. links[k] \in S
  BY <1>1, ElementOfSeq DEF LinkIds
<1> QED
  BY <1>2 DEF S, Ends

(* A link is added to those there are.                                     *)
LEMMA Appended ==
  ASSUME LinksOK, NEW e \in Port, NEW f \in Port, NEW how \in {"hand", "pair"},
         links' = Append(links, [e1 |-> e, e2 |-> f, how |-> how]),
         Len(links) < MaxLinks
  PROVE  /\ LinkIds' = LinkIds \cup {Len(links) + 1}
         /\ Len(links) + 1 \notin LinkIds
         /\ \A k \in LinkIds : links'[k] = links[k]
         /\ links'[Len(links) + 1] = [e1 |-> e, e2 |-> f, how |-> how]
         /\ links' \in Seq([e1 : Port, e2 : Port, how : {"hand", "pair"}])
         /\ Len(links) \in Nat /\ Len(links') = Len(links) + 1
         /\ Len(links') <= MaxLinks
<1> DEFINE z == Len(links) + 1
           x == [e1 |-> e, e2 |-> f, how |-> how]
           S == [e1 : Port, e2 : Port, how : {"hand", "pair"}]
<1>1. links \in Seq(S) /\ x \in S
  BY DEF LinksOK
<1>3. /\ Len(links) \in Nat /\ Append(links, x) \in Seq(S)
      /\ Len(Append(links, x)) = Len(links) + 1
      /\ \A k \in 1 .. Len(links) : Append(links, x)[k] = links[k]
      /\ Append(links, x)[Len(links) + 1] = x
  BY <1>1, AppendProperties
<1> HIDE DEF S
<1>4. /\ LinkIds' = LinkIds \cup {z} /\ z \notin LinkIds
      /\ \A k \in LinkIds : links'[k] = links[k]
      /\ links'[z] = x
  BY <1>3 DEF LinkIds
<1>7. links' \in Seq(S) /\ Len(links') = z /\ z <= MaxLinks
  BY <1>3, BoundsAssumption
<1> QED
  BY <1>3, <1>4, <1>7 DEF S

LEMMA LinksGrow ==
  ASSUME LinksOK, NEW e \in Port, NEW f \in Port, NEW how \in {"hand", "pair"},
         links' = Append(links, [e1 |-> e, e2 |-> f, how |-> how]),
         Len(links) < MaxLinks, e # f, ~ Linked(e), ~ Linked(f),
         nets' \in Nat, nets' <= nets + 1
  PROVE  LinksOK'
<1> DEFINE z == Len(links) + 1
           S == [e1 : Port, e2 : Port, how : {"hand", "pair"}]
<1> HIDE DEF S
<1>2. /\ LinkIds' = LinkIds \cup {z} /\ z \notin LinkIds
      /\ \A k \in LinkIds : links'[k] = links[k]
      /\ links'[z] = [e1 |-> e, e2 |-> f, how |-> how]
      /\ links' \in Seq(S)
      /\ Len(links) \in Nat /\ Len(links') = z /\ z <= MaxLinks
  BY Appended DEF S
<1> HIDE DEF z
<1>3. \A k \in LinkIds : e \notin Ends(k) /\ f \notin Ends(k)
  BY DEF Linked
<1>4. \A k \in LinkIds' : links'[k].e1 # links'[k].e2
  <2>1. \A k \in LinkIds : links[k].e1 # links[k].e2
    BY DEF LinksOK
  <2>2. links'[z].e1 = e /\ links'[z].e2 = f
    BY <1>2
  <2> QED
    BY <1>2, <2>1, <2>2
<1>5. \A j, k \in LinkIds' : j # k =>
        {links'[j].e1, links'[j].e2} \cap {links'[k].e1, links'[k].e2} = {}
  <2>1. \A j, k \in LinkIds : j # k =>
          {links'[j].e1, links'[j].e2} \cap {links'[k].e1, links'[k].e2} = {}
    BY <1>2 DEF LinksOK, Ends
  <2>2. \A k \in LinkIds : {links'[k].e1, links'[k].e2} \cap {e, f} = {}
    BY <1>2, <1>3 DEF Ends
  <2>3. {links'[z].e1, links'[z].e2} = {e, f}
    BY <1>2
  <2> QED
    BY <1>2, <2>1, <2>2, <2>3
<1>6. nets' <= MaxLinks + Len(links')
  BY <1>2, BoundsAssumption DEF LinksOK, z
<1>7. Len(links') <= MaxLinks
  BY <1>2
<1>8. links' \in Seq([e1 : Port, e2 : Port, how : {"hand", "pair"}])
  BY <1>2 DEF S
<1> QED
  BY <1>8, <1>7, <1>4, <1>5, <1>6 DEF LinksOK, Ends

-----------------------------------------------------------------------------
(* An end of a link of link_router_pair has an address.                    *)
LEMMA PairEnds ==
  ASSUME WiringInv, NEW k \in LinkIds, links[k].how = "pair", NEW e \in Ends(k)
  PROVE  HasAddress(e)
<1>1. PICK n \in 1 .. nets : Owns(k, n)
  BY DEF WiringInv, PairsOK
<1>2. n \in Nat /\ n <= 2 * MaxLinks
  <2>1. nets \in Nat /\ nets <= MaxLinks + Len(links) /\ Len(links) <= MaxLinks
    BY DEF WiringInv, LinksOK
  <2>2. Len(links) \in Nat
    BY LenProperties DEF WiringInv, LinksOK
  <2> QED
    BY <2>1, <2>2, BoundsAssumption
<1>3. \E i \in {1, 2} : logical[e] = [net |-> n, host |-> i]
  BY <1>1 DEF Owns, Ends, PairAddress
<1> QED
  BY <1>2, <1>3, NewAddress DEF HasAddress

(* Ports that had no address get none.                                     *)
LEMMA NoNewAddress ==
  ASSUME WiringInv, UNCHANGED <<links, nets>>, DOMAIN logical' = Port,
         \A e \in Port : logical'[e] = logical[e] \/ (~ HasAddress(e) /\ logical'[e] = Bare)
  PROVE  AddressesOK' /\ PairsOK'
<1>1. \A e \in Port : logical'[e] \notin {None, Bare} => HasAddress(e) /\ logical'[e] = logical[e]
  BY DEF HasAddress
<1>2. AddressesOK'
  <2>1. \A e \in Port : logical'[e] \notin {None, Bare} => Given(e)'
    BY <1>1 DEF WiringInv, AddressesOK, Given
  <2>2. \A e, f \in Port : logical'[e] \notin {None, Bare} /\ e # f => logical'[e] # logical'[f]
    BY <1>1 DEF WiringInv, AddressesOK, HasAddress
  <2> QED
    BY <2>1, <2>2 DEF AddressesOK, HasAddress
<1>3. PairsOK'
  <2> SUFFICES ASSUME NEW k \in LinkIds, links[k].how = "pair"
               PROVE  \E n \in 1 .. nets : Owns(k, n)'
    BY DEF PairsOK, LinkIds
  <2>1. PICK n \in 1 .. nets : Owns(k, n)
    BY DEF WiringInv, PairsOK
  <2>2. HasAddress(links[k].e1) /\ HasAddress(links[k].e2)
    BY PairEnds DEF Ends
  <2>3. links[k].e1 \in Port /\ links[k].e2 \in Port
    BY LinkFields DEF WiringInv
  <2>4. logical'[links[k].e1] = logical[links[k].e1] /\ logical'[links[k].e2] = logical[links[k].e2]
    BY <2>2, <2>3
  <2>5. \A e \in Port : logical'[e] \notin {None, Bare} /\ logical'[e].net = n => e \in Ends(k)
    BY <1>1, <2>1 DEF Owns
  <2>6. Owns(k, n)'
    BY <2>1, <2>4, <2>5 DEF Owns, HasAddress, Ends
  <2> QED
    BY <2>6
<1> QED
  BY <1>2, <1>3

(* Ports outside links of link_router_pair get addresses nobody has.       *)
LEMMA NewAddresses ==
  ASSUME WiringInv, NEW C \in SUBSET Port,
         nets' \in Nat, nets <= nets',
         DOMAIN logical' = Port,
         \A e \in Port \ C : logical'[e] = logical[e],
         \A e \in C : logical'[e] \notin {None, Bare},
         \A e \in C :
           \/ e[1] \in Servers /\ e = <<e[1], 1>> /\ logical'[e] = OwnAddress(e[1])
           \/ e[1] \in Routers /\ \E n \in 1 .. nets', i \in {1, 2} : logical'[e] = PairAddress(n, i),
         \A e \in C : logical'[e].net \notin 1 .. nets,
         \A e \in C : \A f \in Port : e # f => logical'[e] # logical'[f],
         \A e \in C : \A k \in LinkIds : links[k].how = "pair" => e \notin Ends(k)
  PROVE  /\ AddressesOK'
         /\ \A k \in LinkIds : links[k].how = "pair" => 
              \E n \in 1 .. nets :
                /\ logical'[links[k].e1] = PairAddress(n, 1)
                /\ logical'[links[k].e2] = PairAddress(n, 2)
                /\ links[k].e1[1] \in Routers /\ links[k].e2[1] \in Routers
                /\ \A e \in Port : logical'[e] \notin {None, Bare} /\ logical'[e].net = n => e \in Ends(k)
<1>1. AddressesOK'
  <2>1. nets \in Nat
    BY DEF WiringInv, LinksOK
  <2>2. \A e \in Port : logical'[e] \notin {None, Bare} => Given(e)'
    <3>0. \A e \in C : Given(e)'
      BY DEF Given
    <3> SUFFICES ASSUME NEW e \in Port \ C, logical'[e] \notin {None, Bare}
                 PROVE  Given(e)'
      BY <3>0
    <3>1. Given(e) /\ logical'[e] = logical[e]
      BY DEF WiringInv, AddressesOK, HasAddress
    <3>2. \A n \in 1 .. nets : n \in 1 .. nets'
      BY <2>1
    <3> QED
      BY <3>1, <3>2 DEF Given, OwnAddress, PairAddress
  <2>3. \A e, f \in Port : logical'[e] \notin {None, Bare} /\ e # f => logical'[e] # logical'[f]
    BY DEF WiringInv, AddressesOK, HasAddress
  <2> QED
    BY <2>2, <2>3 DEF AddressesOK, HasAddress
<1>2. ASSUME NEW k \in LinkIds, links[k].how = "pair", NEW n \in 1 .. nets, Owns(k, n)
      PROVE  /\ logical'[links[k].e1] = PairAddress(n, 1)
             /\ logical'[links[k].e2] = PairAddress(n, 2)
             /\ links[k].e1[1] \in Routers /\ links[k].e2[1] \in Routers
             /\ \A e \in Port : logical'[e] \notin {None, Bare} /\ logical'[e].net = n => e \in Ends(k)
  <2>1. links[k].e1 \in Port \ C /\ links[k].e2 \in Port \ C
    BY <1>2, LinkFields DEF WiringInv, Ends
  <2>2. \A e \in Port : logical'[e] \notin {None, Bare} /\ logical'[e].net = n => e \in Ends(k)
    BY <1>2 DEF Owns, HasAddress
  <2> QED
    BY <1>2, <2>1, <2>2 DEF Owns
<1> QED
  BY <1>1, <1>2 DEF WiringInv, PairsOK

-----------------------------------------------------------------------------
(* The script's calls and the run keep the wiring in order.                *)
LEMMA InitInv == Init => WiringInv
<1> SUFFICES ASSUME Init PROVE WiringInv
  OBVIOUS
<1>1. LinkIds = {} /\ Len(links) = 0
  BY DEF Init, LinkIds
<1>2. \A e \in Port : ~ HasAddress(e)
  BY DEF Init, HasAddress
<1>3. LinksOK
  BY <1>1, BoundsAssumption DEF Init, LinksOK
<1>4. AddressesOK
  BY <1>2 DEF Init, AddressesOK
<1>5. PairsOK /\ NoticesOK
  BY <1>1 DEF Init, PairsOK, NoticesOK
<1> QED
  BY <1>3, <1>4, <1>5 DEF WiringInv

(* The links, networks and addresses stay as they are.                     *)
LEMMA SameWiring ==
  ASSUME WiringInv, UNCHANGED <<links, logical, nets>>
  PROVE  LinksOK' /\ AddressesOK' /\ PairsOK'
BY DEF WiringInv, LinksOK, AddressesOK, PairsOK, LinkIds, Ends, Owns, HasAddress, Given

(* The clock, the queue and the links stay as they are.                    *)
LEMMA SameNotices ==
  ASSUME NoticesOK, UNCHANGED <<links, clock, queue>>
  PROVE  NoticesOK'
BY DEF NoticesOK, LinkIds, Ends

LEMMA AddDeviceInv ==
  ASSUME WiringInv, NEW d \in Devices, NEW c, AddDevice(d, c)
  PROVE  WiringInv'
<1>1. UNCHANGED <<links, nets, clock, queue>>
  BY DEF AddDevice, running
<1>2. LinksOK' /\ NoticesOK'
  BY <1>1, SameNotices DEF WiringInv, LinksOK, LinkIds, Ends
<1>3. DOMAIN logical = Port
  BY DEF WiringInv, AddressesOK
<1>4. CASE d \in Switches /\ logical' = SwitchPorts(d)
  <2>1. DOMAIN logical' = Port
    BY <1>4 DEF SwitchPorts
  <2>2. \A e \in Port : logical'[e] = logical[e] \/ (~ HasAddress(e) /\ logical'[e] = Bare)
    <3> SUFFICES ASSUME NEW e \in Port, e[1] = d PROVE ~ HasAddress(e)
      BY <1>4 DEF SwitchPorts
    <3> QED
      BY <1>4, DevicesAssumption DEF WiringInv, AddressesOK, Given
  <2> QED
    BY <1>1, <1>2, <2>1, <2>2, NoNewAddress DEF WiringInv
<1>5. CASE d \in Servers /\ logical' = ServerPort(d, OwnAddress(d))
  <2> DEFINE x == <<d, 1>>
  <2>1. x \in Port /\ x[1] = d
    BY DevicesAssumption DEF Port, Ports
  <2>2. /\ DOMAIN logical' = Port /\ logical'[x] = OwnAddress(d)
        /\ \A e \in Port \ {x} : logical'[e] = logical[e]
    BY <1>3, <1>5, <2>1 DEF ServerPort
  <2>3. logical'[x] \notin {None, Bare}
    <3>1. 0 \in Nat /\ 0 <= 2 * MaxLinks
      BY BoundsAssumption
    <3> QED
      BY <2>2, <3>1, NewAddress DEF OwnAddress
  <2>4. x[1] \in Servers /\ x = <<x[1], 1>> /\ logical'[x] = OwnAddress(x[1])
    BY <1>5, <2>1, <2>2
  <2>5. logical'[x].net \notin 1 .. nets
    BY <2>2 DEF OwnAddress, WiringInv, LinksOK
  <2>6. \A f \in Port : x # f => logical'[x] # logical'[f]
    <3> SUFFICES ASSUME NEW f \in Port, f # x, logical[f] = OwnAddress(d) PROVE FALSE
      BY <2>2
    <3>1. HasAddress(f)
      BY <2>2, <2>3 DEF HasAddress
    <3>2. CASE f[1] \in Servers /\ f = <<f[1], 1>> /\ logical[f] = OwnAddress(f[1])
      <4>1. f[1] = d
        BY <3>2 DEF OwnAddress
      <4> QED
        BY <3>2, <4>1
    <3>3. CASE \E n \in 1 .. nets, i \in {1, 2} : logical[f] = PairAddress(n, i)
      BY <3>3 DEF OwnAddress, PairAddress
    <3> QED
      BY <3>1, <3>2, <3>3 DEF WiringInv, AddressesOK, Given
  <2>7. \A k \in LinkIds : links[k].how = "pair" => x \notin Ends(k)
    BY <1>5, <2>1, DevicesAssumption DEF WiringInv, PairsOK, Owns, Ends
  <2>8. nets' \in Nat /\ nets <= nets'
    BY <1>1 DEF WiringInv, LinksOK
  <2>9. /\ AddressesOK'
        /\ \A k \in LinkIds : links[k].how = "pair" => 
              \E n \in 1 .. nets :
                /\ logical'[links[k].e1] = PairAddress(n, 1)
                /\ logical'[links[k].e2] = PairAddress(n, 2)
                /\ links[k].e1[1] \in Routers /\ links[k].e2[1] \in Routers
                /\ \A e \in Port : logical'[e] \notin {None, Bare} /\ logical'[e].net = n => e \in Ends(k)
    <3> HIDE DEF x
    <3> DEFINE C == {x}
    <3>1. C \in SUBSET Port /\ \A e \in C : e = x
      BY <2>1
    <3>2. \A e \in Port \ C : logical'[e] = logical[e]
      BY <2>2
    <3> HIDE DEF C
    <3>3. \A e \in C : logical'[e] \notin {None, Bare} /\ logical'[e].net \notin 1 .. nets
      BY <2>3, <2>5, <3>1
    <3>4. \A e \in C : e[1] \in Servers /\ e = <<e[1], 1>> /\ logical'[e] = OwnAddress(e[1])
      BY <2>4, <3>1
    <3>5. \A e \in C : \A f \in Port : e # f => logical'[e] # logical'[f]
      BY <2>6, <3>1
    <3>6. \A e \in C : \A k \in LinkIds : links[k].how = "pair" => e \notin Ends(k)
      BY <2>7, <3>1
    <3> QED
      BY <2>2, <2>8, <3>1, <3>2, <3>3, <3>4, <3>5, <3>6, NewAddresses
  <2>10. PairsOK'
    BY <1>1, <2>9 DEF PairsOK, LinkIds, Owns, Ends, HasAddress
  <2> QED
    BY <1>2, <2>9, <2>10 DEF WiringInv
<1>6. CASE UNCHANGED logical
  BY <1>1, <1>2, <1>6, SameWiring DEF WiringInv
<1> QED
  BY <1>4, <1>5, <1>6 DEF AddDevice

LEMMA GetTopologyInv ==
  ASSUME WiringInv, GetTopology
  PROVE  WiringInv'
<1>1. UNCHANGED <<links, nets, clock, queue>>
  BY DEF GetTopology, running
<1>2. LinksOK' /\ NoticesOK'
  BY <1>1, SameNotices DEF WiringInv, LinksOK, LinkIds, Ends
<1>3. PICK M : logical' = [e \in Port |-> IF e \in M /\ logical[e] = None THEN Bare ELSE logical[e]]
  BY DEF GetTopology
<1>4. \A e \in Port : logical'[e] = logical[e] \/ (~ HasAddress(e) /\ logical'[e] = Bare)
  BY <1>3 DEF HasAddress
<1>5. DOMAIN logical' = Port
  BY <1>3
<1> QED
  BY <1>1, <1>2, <1>4, <1>5, NoNewAddress DEF WiringInv

(* The first free port of a router is in no link.                          *)
LEMMA FirstFreeFree ==
  ASSUME NEW d \in Routers, NEW e \in FirstFree(d)
  PROVE  e \in Port /\ e[1] = d /\ ~ Linked(e)
<1>1. d \in Devices
  BY DEF Devices
<1>2. PICK p \in Free(d) : e = <<d, p>>
  BY DEF FirstFree
<1> QED
  BY <1>1, <1>2 DEF Free, Port, Ports

(* A link brings a notice for each of its ends.                            *)
LEMMA ConnectedNotices ==
  ASSUME WiringInv, NEW e \in Port, NEW f \in Port, NEW how \in {"hand", "pair"},
         Connected(e, f, how), UNCHANGED clock
  PROVE  NoticesOK'
<1> DEFINE z == Len(links) + 1
<1>1. /\ LinkIds' = LinkIds \cup {z} /\ z \notin LinkIds
      /\ \A k \in LinkIds : links'[k] = links[k]
      /\ links'[z] = [e1 |-> e, e2 |-> f, how |-> how]
  BY Appended DEF Connected, WiringInv
<1> HIDE DEF z
<1>2. \A k \in LinkIds : {links'[k].e1, links'[k].e2} = Ends(k)
  BY <1>1 DEF Ends
<1>3. {links'[z].e1, links'[z].e2} = {e, f}
  BY <1>1
<1>4. clock \in Nat /\ clock' = clock
  BY DEF WiringInv, NoticesOK
<1>5. ASSUME NEW x \in queue
      PROVE  /\ x.time \in Nat /\ x.time >= clock
             /\ x.what \in {"linkUp", "linkDown"} => x.of \in LinkIds'
             /\ x.what \in {"up", "down"} =>
                  \E k \in LinkIds' : x.of \in {links'[k].e1, links'[k].e2}
  BY <1>1, <1>2, <1>5 DEF WiringInv, NoticesOK
<1>6. ASSUME NEW g \in {e, f}, NEW x, x = Notice(clock + Latency, "up", g)
      PROVE  /\ x.time \in Nat /\ x.time >= clock
             /\ x.what \in {"linkUp", "linkDown"} => x.of \in LinkIds'
             /\ x.what \in {"up", "down"} =>
                  \E k \in LinkIds' : x.of \in {links'[k].e1, links'[k].e2}
  <2>1. x.time = clock + Latency /\ x.what = "up" /\ x.of = g
    BY <1>6 DEF Notice
  <2>2. z \in LinkIds' /\ g \in {links'[z].e1, links'[z].e2}
    BY <1>1, <1>3
  <2> QED
    BY <1>4, <2>1, <2>2, BoundsAssumption
<1>7. queue' = queue \cup {Notice(clock + Latency, "up", g) : g \in {e, f}}
  BY DEF Connected
<1> QED
  BY <1>4, <1>5, <1>6, <1>7 DEF NoticesOK, Ends

LEMMA ConnectInv ==
  ASSUME WiringInv, NEW e \in Port, NEW f \in Port, Connect(e, f)
  PROVE  WiringInv'
<1> DEFINE z == Len(links) + 1
<1>1. /\ Connected(e, f, "hand") /\ UNCHANGED <<logical, nets, clock>>
      /\ e # f /\ ~ Linked(e) /\ ~ Linked(f)
  BY DEF Connect, ports
<1>2. NoticesOK'
  BY <1>1, ConnectedNotices
<1>3. LinksOK'
  <2>1. nets' \in Nat /\ nets' <= nets + 1
    BY <1>1 DEF WiringInv, LinksOK
  <2> QED
    BY <1>1, <2>1, LinksGrow DEF WiringInv, Connected
<1>4. AddressesOK'
  BY <1>1 DEF WiringInv, AddressesOK, HasAddress, Given
<1>5. /\ LinkIds' = LinkIds \cup {z}
      /\ \A k \in LinkIds : links'[k] = links[k]
      /\ links'[z] = [e1 |-> e, e2 |-> f, how |-> "hand"]
  BY <1>1, Appended DEF Connected, WiringInv
<1> HIDE DEF z
<1>6. PairsOK'
  <2> SUFFICES ASSUME NEW k \in LinkIds, links[k].how = "pair", NEW n \in 1 .. nets, Owns(k, n)
               PROVE  \E m \in 1 .. nets : Owns(k, m)'
    BY <1>1, <1>5 DEF PairsOK, WiringInv
  <2>1. Owns(k, n)'
    BY <1>1, <1>5 DEF Owns, Ends, HasAddress
  <2> QED
    BY <2>1
<1> QED
  BY <1>2, <1>3, <1>4, <1>6 DEF WiringInv

LEMMA NextNet ==
  ASSUME WiringInv, nets < MaxLinks \/ Len(links) < MaxLinks
  PROVE  /\ nets \in Nat /\ nets + 1 \in Nat /\ nets <= nets + 1
         /\ nets + 1 \notin 1 .. nets /\ nets + 1 \in 1 .. (nets + 1)
         /\ \A i \in {1, 2} : PairAddress(nets + 1, i) \notin {None, Bare}
<1>1. nets \in Nat /\ nets <= MaxLinks + Len(links) /\ Len(links) <= MaxLinks
  BY DEF WiringInv, LinksOK
<1>2. Len(links) \in Nat
  BY LenProperties DEF WiringInv, LinksOK
<1>3. /\ nets + 1 \in Nat /\ nets <= nets + 1
      /\ nets + 1 \notin 1 .. nets /\ nets + 1 \in 1 .. (nets + 1)
      /\ nets + 1 <= 2 * MaxLinks
  BY <1>1, <1>2, BoundsAssumption
<1>4. \A i \in {1, 2} : PairAddress(nets + 1, i) \notin {None, Bare}
  BY <1>3, NewAddress DEF PairAddress
<1> QED
  BY <1>1, <1>3, <1>4

(* The addresses of the next network are nobody's.                         *)
LEMMA NextIsNew ==
  ASSUME WiringInv, nets < MaxLinks \/ Len(links) < MaxLinks,
         NEW f \in Port, NEW i \in {1, 2}
  PROVE  logical[f] # PairAddress(nets + 1, i)
<1> SUFFICES ASSUME logical[f] = PairAddress(nets + 1, i) PROVE FALSE
  OBVIOUS
<1>1. Given(f)
  BY NextNet DEF WiringInv, AddressesOK, HasAddress
<1>2. CASE logical[f] = OwnAddress(f[1])
  BY <1>2, NextNet DEF OwnAddress, PairAddress
<1>3. CASE \E n \in 1 .. nets, j \in {1, 2} : logical[f] = PairAddress(n, j)
  BY <1>3, NextNet DEF PairAddress
<1> QED
  BY <1>1, <1>2, <1>3 DEF Given

LEMMA LinkRouterPairFailsInv ==
  ASSUME WiringInv, NEW r \in Routers, NEW s \in Routers, LinkRouterPairFails(r, s)
  PROVE  WiringInv'
<1>1. nets < MaxLinks /\ nets' = nets + 1 /\ UNCHANGED <<links, clock, queue>>
  BY DEF LinkRouterPairFails, running
<1>2. NoticesOK'
  BY <1>1, SameNotices DEF WiringInv
<1>3. LinksOK'
  <2>1. Len(links) \in Nat
    BY LenProperties DEF WiringInv, LinksOK
  <2>2. nets' \in Nat /\ nets' <= MaxLinks + Len(links)
    BY <1>1, <2>1, NextNet, BoundsAssumption
  <2> QED
    BY <1>1, <2>2 DEF WiringInv, LinksOK, LinkIds, Ends
<1>4. PICK C \in SUBSET Port :
        /\ DOMAIN logical' = Port
        /\ \A e \in Port \ C : logical'[e] = logical[e]
        /\ \A e \in C : e[1] \in Routers /\ ~ Linked(e) /\ logical'[e] = PairAddress(nets + 1, 1)
        /\ \A e, f \in C : e = f
  <2>1. DOMAIN logical = Port
    BY DEF WiringInv, AddressesOK
  <2>2. CASE UNCHANGED ports
    <3>1. UNCHANGED logical
      BY <2>2 DEF ports
    <3> WITNESS {} \in SUBSET Port
    <3> QED
      BY <2>1, <3>1
  <2>3. ASSUME NEW e \in FirstFree(r), logical' = [logical EXCEPT ![e] = PairAddress(nets + 1, 1)]
        PROVE  \E C \in SUBSET Port :
                 /\ DOMAIN logical' = Port
                 /\ \A g \in Port \ C : logical'[g] = logical[g]
                 /\ \A g \in C : g[1] \in Routers /\ ~ Linked(g) /\ logical'[g] = PairAddress(nets + 1, 1)
                 /\ \A g, f \in C : g = f
    <3>1. e \in Port /\ e[1] = r /\ ~ Linked(e)
      BY FirstFreeFree
    <3>2. {e} \in SUBSET Port
      BY <3>1
    <3> WITNESS {e} \in SUBSET Port
    <3> QED
      BY <2>1, <2>3, <3>1
  <2> QED
    BY <2>2, <2>3 DEF LinkRouterPairFails
<1>5. \A e \in C : logical'[e] \notin {None, Bare} /\ logical'[e].net \notin 1 .. nets
  BY <1>1, <1>4, NextNet DEF PairAddress
<1>6. \A e \in C : e[1] \in Routers /\ \E n \in 1 .. nets', i \in {1, 2} : logical'[e] = PairAddress(n, i)
  BY <1>1, <1>4, NextNet
<1>7. \A e \in C : \A f \in Port : e # f => logical'[e] # logical'[f]
  BY <1>1, <1>4, NextIsNew
<1>8. \A e \in C : \A k \in LinkIds : links[k].how = "pair" => e \notin Ends(k)
  BY <1>4 DEF Linked
<1>9. nets' \in Nat /\ nets <= nets'
  BY <1>1, NextNet
<1>10. /\ AddressesOK'
       /\ \A k \in LinkIds : links[k].how = "pair" =>
             \E n \in 1 .. nets :
               /\ logical'[links[k].e1] = PairAddress(n, 1)
               /\ logical'[links[k].e2] = PairAddress(n, 2)
               /\ links[k].e1[1] \in Routers /\ links[k].e2[1] \in Routers
               /\ \A e \in Port : logical'[e] \notin {None, Bare} /\ logical'[e].net = n => e \in Ends(k)
  BY <1>4, <1>5, <1>6, <1>7, <1>8, <1>9, NewAddresses
<1>11. \A n \in 1 .. nets : n \in 1 .. nets'
  BY <1>1, NextNet
<1>12. PairsOK'
  BY <1>1, <1>10, <1>11 DEF PairsOK, LinkIds, Owns, Ends, HasAddress
<1> QED
  BY <1>2, <1>3, <1>10, <1>12 DEF WiringInv

LEMMA LinkRouterPairInv ==
  ASSUME WiringInv, NEW r \in Routers, NEW s \in Routers, LinkRouterPair(r, s)
  PROVE  WiringInv'
<1>1. PICK e \in FirstFree(r), f \in FirstFree(s) :
        Connected(e, f, "pair") /\ logical' = Paired(e, f)
  BY DEF LinkRouterPair
<1>2. /\ e \in Port /\ e[1] = r /\ ~ Linked(e)
      /\ f \in Port /\ f[1] = s /\ ~ Linked(f) /\ e # f
  BY FirstFreeFree DEF LinkRouterPair
<1>3. nets' = nets + 1 /\ UNCHANGED clock /\ Len(links) < MaxLinks
  BY <1>1 DEF LinkRouterPair, Connected
<1>4. NoticesOK'
  BY <1>1, <1>2, <1>3, ConnectedNotices
<1>5. nets' \in Nat /\ nets <= nets' /\ nets' <= nets + 1
  BY <1>3, NextNet
<1>6. LinksOK'
  BY <1>1, <1>2, <1>3, <1>5, LinksGrow DEF WiringInv, Connected
<1> DEFINE C == {e, f}
<1>7. C \in SUBSET Port /\ \A g \in C : g = e \/ g = f
  BY <1>2
<1>25. C \in SUBSET Port
  BY <1>7
<1>24. nets' \in Nat /\ nets <= nets'
  BY <1>5
<1>8. DOMAIN logical' = Port /\ \A g \in Port \ C : logical'[g] = logical[g]
  BY <1>1 DEF Paired, WiringInv, AddressesOK
<1>9. logical'[e] = PairAddress(nets + 1, 1) /\ logical'[f] = PairAddress(nets + 1, 2)
  BY <1>1, <1>2 DEF Paired, WiringInv, AddressesOK
<1> HIDE DEF C
<1>10. \A g \in C : /\ g[1] \in Routers /\ ~ Linked(g)
                     /\ \E i \in {1, 2} : logical'[g] = PairAddress(nets + 1, i)
  BY <1>2, <1>7, <1>9
<1>11. \A g \in C : logical'[g] \notin {None, Bare} /\ logical'[g].net \notin 1 .. nets
  BY <1>3, <1>10, NextNet DEF PairAddress
<1>12. \A g \in C : g[1] \in Routers /\ \E n \in 1 .. nets', i \in {1, 2} : logical'[g] = PairAddress(n, i)
  BY <1>3, <1>10, NextNet
<1>13. \A g \in C : \A h \in Port : g # h => logical'[g] # logical'[h]
  <2> SUFFICES ASSUME NEW g \in C, NEW h \in Port, g # h PROVE logical'[g] # logical'[h]
    OBVIOUS
  <2>1. CASE h \in C
    BY <1>7, <1>9, <2>1 DEF PairAddress
  <2>2. CASE h \notin C
    BY <1>3, <1>8, <1>10, <2>2, NextIsNew
  <2> QED
    BY <2>1, <2>2
<1>14. \A g \in C : \A k \in LinkIds : links[k].how = "pair" => g \notin Ends(k)
  BY <1>10 DEF Linked
<1>15. /\ AddressesOK'
       /\ \A k \in LinkIds : links[k].how = "pair" =>
             \E n \in 1 .. nets :
               /\ logical'[links[k].e1] = PairAddress(n, 1)
               /\ logical'[links[k].e2] = PairAddress(n, 2)
               /\ links[k].e1[1] \in Routers /\ links[k].e2[1] \in Routers
               /\ \A g \in Port : logical'[g] \notin {None, Bare} /\ logical'[g].net = n => g \in Ends(k)
  BY <1>8, <1>11, <1>12, <1>13, <1>14, <1>25, <1>24, NewAddresses
<1>16. \A n \in 1 .. nets : n \in 1 .. nets'
  BY <1>3, NextNet
<1> DEFINE z == Len(links) + 1
<1>17. /\ LinkIds' = LinkIds \cup {z}
       /\ \A k \in LinkIds : links'[k] = links[k]
       /\ links'[z] = [e1 |-> e, e2 |-> f, how |-> "pair"]
  BY <1>1, <1>2, Appended DEF Connected, WiringInv
<1> HIDE DEF z
<1>18. \A k \in LinkIds : links'[k].how = "pair" => \E n \in 1 .. nets' : Owns(k, n)'
  BY <1>15, <1>16, <1>17 DEF Owns, Ends, HasAddress
<1>19. nets + 1 \in 1 .. nets'
  BY <1>3, NextNet
<1>20. \A g \in Port : logical'[g] \notin {None, Bare} /\ logical'[g].net = nets + 1 => g \in {e, f}
  <2> SUFFICES ASSUME NEW g \in Port \ C, logical'[g] \notin {None, Bare}, logical'[g].net = nets + 1
               PROVE  FALSE
    BY DEF C
  <2>1. logical[g] = logical'[g] /\ Given(g)
    BY <1>8 DEF WiringInv, AddressesOK, HasAddress
  <2>2. nets \in Nat /\ nets + 1 \notin 1 .. nets /\ nets + 1 # 0
    BY <1>3, NextNet
  <2>3. CASE logical[g] = OwnAddress(g[1])
    BY <2>1, <2>2, <2>3 DEF OwnAddress
  <2>4. CASE \E n \in 1 .. nets, i \in {1, 2} : logical[g] = PairAddress(n, i)
    BY <2>1, <2>2, <2>4 DEF PairAddress
  <2> QED
    BY <2>1, <2>3, <2>4 DEF Given
<1>21. \E n \in 1 .. nets' :
         /\ logical'[links'[z].e1] = PairAddress(n, 1)
         /\ logical'[links'[z].e2] = PairAddress(n, 2)
         /\ links'[z].e1[1] \in Routers /\ links'[z].e2[1] \in Routers
         /\ \A g \in Port : logical'[g] \notin {None, Bare} /\ logical'[g].net = n
              => g \in {links'[z].e1, links'[z].e2}
  <2>1. links'[z].e1 = e /\ links'[z].e2 = f
    BY <1>17
  <2> QED
    BY <1>2, <1>9, <1>19, <1>20, <2>1
<1>22. PairsOK'
  BY <1>17, <1>18, <1>21 DEF PairsOK, Owns, Ends, HasAddress
<1> QED
  BY <1>4, <1>6, <1>15, <1>22 DEF WiringInv

-----------------------------------------------------------------------------
(* The run: notices are executed or scheduled, the clock goes on.          *)
LEMMA ScheduleInv ==
  ASSUME WiringInv, NEW k \in LinkIds, NEW w \in {"linkUp", "linkDown"}, Schedule(k, w, 0)
  PROVE  WiringInv'
<1>1. /\ UNCHANGED <<links, logical, nets, clock>>
      /\ queue' = queue \cup {Notice(clock + 0, w, k)}
  BY DEF Schedule, wiring, ports
<1>2. NoticesOK'
  BY <1>1 DEF WiringInv, NoticesOK, Notice, LinkIds, Ends
<1> QED
  BY <1>1, <1>2, SameWiring DEF WiringInv

(* The hello timer of a router is set for a moment that is still to come.  *)
LEMMA HelloNotice ==
  ASSUME NoticesOK, NEW pause \in Pauses, NEW d
  PROVE  LET x == Notice(clock + pause, "hello", d)
         IN  x.time \in Nat /\ x.time >= clock /\ x.what = "hello" /\ x.of = d
<1>1. pause \in Nat /\ clock \in Nat
  BY BoundsAssumption DEF Pauses, NoticesOK
<1> QED
  BY <1>1 DEF Notice

LEMMA IsisStartAllInv ==
  ASSUME WiringInv, NEW c, IsisStartAll(c)
  PROVE  WiringInv'
<1>1. /\ UNCHANGED <<links, logical, nets, clock>>
      /\ \A x \in queue' : \/ x \in queue
                          \/ \E d \in Startable(c), pause \in Pauses :
                               x = Notice(clock + pause, "hello", d)
  BY DEF IsisStartAll, ports
<1>2. NoticesOK'
  <2> SUFFICES ASSUME NEW x \in queue'
               PROVE  /\ x.time \in Nat /\ x.time >= clock
                      /\ x.what \in {"linkUp", "linkDown"} => x.of \in LinkIds
                      /\ x.what \in {"up", "down"} => \E k \in LinkIds : x.of \in Ends(k)
    BY <1>1 DEF WiringInv, NoticesOK, LinkIds, Ends
  <2>1. CASE x \in queue
    BY <2>1 DEF WiringInv, NoticesOK
  <2>2. ASSUME NEW d \in Startable(c), NEW pause \in Pauses, x = Notice(clock + pause, "hello", d)
        PROVE  x.time \in Nat /\ x.time >= clock /\ x.what = "hello"
    BY <2>2, HelloNotice DEF WiringInv
  <2> QED
    BY <1>1, <2>1, <2>2
<1> QED
  BY <1>1, <1>2, SameWiring DEF WiringInv

LEMMA ExecuteInv ==
  ASSUME WiringInv, NEW x \in queue, Execute(x)
  PROVE  WiringInv'
<1>1. CASE MoveLink(x)
  <2>1. /\ UNCHANGED <<links, logical, nets, clock>>
        /\ x.of \in LinkIds
        /\ \A y \in queue' : \/ y \in queue
                            \/ \E g \in Ends(x.of), w \in {"up", "down"} :
                                 y = Notice(clock + Latency, w, g)
    BY <1>1 DEF MoveLink, wiring, ports, WiringInv, NoticesOK
  <2>2. NoticesOK'
    <3>1. clock \in Nat /\ clock + Latency \in Nat /\ clock + Latency >= clock
      BY BoundsAssumption DEF WiringInv, NoticesOK
    <3> SUFFICES ASSUME NEW y \in queue'
                 PROVE  /\ y.time \in Nat /\ y.time >= clock
                        /\ y.what \in {"linkUp", "linkDown"} => y.of \in LinkIds
                        /\ y.what \in {"up", "down"} => \E k \in LinkIds : y.of \in Ends(k)
      BY <2>1, <3>1 DEF NoticesOK, LinkIds, Ends
    <3>2. CASE y \in queue
      BY <3>2 DEF WiringInv, NoticesOK
    <3>3. CASE \E g \in Ends(x.of), w \in {"up", "down"} : y = Notice(clock + Latency, w, g)
      BY <2>1, <3>1, <3>3 DEF Notice
    <3> QED
      BY <2>1, <3>2, <3>3
  <2> QED
    BY <2>1, <2>2, SameWiring DEF WiringInv
<1>2. CASE MovePort(x)
  <2>1. UNCHANGED <<links, logical, nets, clock>> /\ queue' \subseteq queue
    BY <1>2 DEF MovePort
  <2>2. NoticesOK'
    BY <2>1 DEF WiringInv, NoticesOK, LinkIds, Ends
  <2> QED
    BY <2>1, <2>2, SameWiring DEF WiringInv
<1>3. CASE SendHello(x)
  <2>1. /\ UNCHANGED <<links, logical, nets, clock>>
        /\ \A y \in queue' : \/ y \in queue
                            \/ \E pause \in Pauses : y = Notice(clock + pause, "hello", x.of)
    BY <1>3 DEF SendHello, wiring, ports
  <2>2. NoticesOK'
    <3> SUFFICES ASSUME NEW y \in queue'
                 PROVE  /\ y.time \in Nat /\ y.time >= clock
                        /\ y.what \in {"linkUp", "linkDown"} => y.of \in LinkIds
                        /\ y.what \in {"up", "down"} => \E k \in LinkIds : y.of \in Ends(k)
      BY <2>1 DEF WiringInv, NoticesOK, LinkIds, Ends
    <3>1. CASE y \in queue
      BY <3>1 DEF WiringInv, NoticesOK
    <3>2. ASSUME NEW pause \in Pauses, y = Notice(clock + pause, "hello", x.of)
          PROVE  y.time \in Nat /\ y.time >= clock /\ y.what = "hello"
      BY <3>2, HelloNotice DEF WiringInv
    <3> QED
      BY <2>1, <3>1, <3>2
  <2> QED
    BY <2>1, <2>2, SameWiring DEF WiringInv
<1> QED
  BY <1>1, <1>2, <1>3 DEF Execute

LEMMA AdvanceInv ==
  ASSUME WiringInv, Advance
  PROVE  WiringInv'
<1>1. UNCHANGED <<links, logical, nets, queue>>
  BY DEF Advance, wiring, ports
<1>2. clock \in Nat /\ \A x \in queue : x.time \in Nat
  BY DEF WiringInv, NoticesOK
<1>3. clock' \in Nat /\ \A x \in queue : clock' <= x.time
  BY <1>2 DEF Advance, NextTicks
<1>4. NoticesOK'
  BY <1>1, <1>2, <1>3 DEF WiringInv, NoticesOK, LinkIds, Ends
<1> QED
  BY <1>1, <1>4, SameWiring DEF WiringInv

LEMMA NextInv == WiringInv /\ [Next]_vars => WiringInv'
<1> SUFFICES ASSUME WiringInv, [Next]_vars PROVE WiringInv'
  OBVIOUS
<1>1. ASSUME UNCHANGED <<links, logical, nets, clock, queue>> PROVE WiringInv'
  BY <1>1, SameWiring, SameNotices DEF WiringInv
<1>2. ASSUME NEW d \in Devices, NEW c \in Homes[d], AddDevice(d, c) PROVE WiringInv'
  BY <1>2, AddDeviceInv
<1>3. ASSUME NEW e \in Port, NEW f \in Port, Connect(e, f) PROVE WiringInv'
  BY <1>3, ConnectInv
<1>4. ASSUME NEW r \in Routers, NEW s \in Routers,
             LinkRouterPair(r, s) \/ LinkRouterPairFails(r, s)
      PROVE  WiringInv'
  BY <1>4, LinkRouterPairInv, LinkRouterPairFailsInv
<1>5. CASE GetTopology
  BY <1>5, GetTopologyInv
<1>6. ASSUME NEW c, IsisEnableAll(c) PROVE WiringInv'
  BY <1>1, <1>6 DEF IsisEnableAll, ports, running
<1>7. ASSUME NEW k \in LinkIds, NEW w \in {"linkUp", "linkDown"}, Schedule(k, w, 0)
      PROVE  WiringInv'
  BY <1>7, ScheduleInv
<1>8. ASSUME NEW tick \in Ticks, RunUntil(tick) PROVE WiringInv'
  BY <1>1, <1>8 DEF RunUntil, wiring, ports
<1>9. ASSUME NEW x \in queue, Execute(x) PROVE WiringInv'
  BY <1>9, ExecuteInv
<1>10. CASE Advance
  BY <1>10, AdvanceInv
<1>11. CASE Finish
  BY <1>1, <1>11 DEF Finish, wiring, ports
<1>12. CASE UNCHANGED vars
  BY <1>1, <1>12 DEF vars, wiring, ports, running
<1>13. ASSUME NEW c, IsisStartAll(c) PROVE WiringInv'
  BY <1>13, IsisStartAllInv
<1> QED
  BY <1>2, <1>3, <1>4, <1>5, <1>6, <1>7, <1>8, <1>9, <1>10, <1>11, <1>12, <1>13 DEF Next, Script, Loop

LEMMA Wired == Spec => []WiringInv
BY InitInv, NextInv, PTL DEF Spec

-----------------------------------------------------------------------------
(* The two addresses of a link of link_router_pair are those of a network  *)
(* no other port has (topology.py:243-266), whatever the script calls and  *)
(* whichever of its calls fail halfway.                                    *)
THEOREM AddressesStayPaired == Spec => []AddressesPaired
<1>1. WiringInv => AddressesPaired
  <2> SUFFICES ASSUME WiringInv PROVE AddressesPaired
    OBVIOUS
  <2>1. ASSUME NEW k \in LinkIds, links[k].how = "pair"
        PROVE  {e \in Port : HasAddress(e) /\ logical[e].net = logical[links[k].e1].net} = Ends(k)
    <3>1. PICK n \in 1 .. nets : Owns(k, n)
      BY <2>1 DEF WiringInv, PairsOK
    <3>2. \A e \in Ends(k) : e \in Port /\ HasAddress(e) /\ logical[e].net = n
      BY <2>1, <3>1, PairEnds, LinkFields DEF WiringInv, Owns, Ends, PairAddress
    <3>3. logical[links[k].e1].net = n
      BY <3>2 DEF Ends
    <3> QED
      BY <3>1, <3>2, <3>3 DEF Owns
  <2> QED
    BY <2>1 DEF AddressesPaired, WiringInv, AddressesOK
<1> QED
  BY <1>1, Wired, PTL

(* The clock never passes an event, also when the run that should have     *)
(* executed it ended in an exception (observers.py:15-42).                 *)
THEOREM NothingIsLate == Spec => []NeverLate
<1>1. WiringInv => NeverLate
  BY DEF WiringInv, NoticesOK, NeverLate
<1> QED
  BY <1>1, Wired, PTL

-----------------------------------------------------------------------------
(* IS-IS is started on routers it is enabled on; a router that it was      *)
(* started on has one hello timer at most.                                 *)
HellosOK ==
  /\ joined \subseteq Routers /\ started \subseteq joined
  /\ \A x \in queue : x.what = "hello" => x.of \in started
  /\ \A x, y \in queue : x.what = "hello" /\ y.what = "hello" /\ x.of = y.of => x = y

(* Nothing but notices is added to the queue.                              *)
LEMMA SameHellos ==
  ASSUME HellosOK, UNCHANGED started, joined \subseteq joined', joined' \subseteq Routers,
         \A x \in queue' : x \in queue \/ x.what # "hello"
  PROVE  HellosOK'
BY DEF HellosOK

LEMMA IsisStartAllHellos ==
  ASSUME HellosOK, NEW c, IsisStartAll(c)
  PROVE  /\ HellosOK'
         /\ started \subseteq started'
         /\ \A x \in queue' : x \in queue \/ (x.what = "hello" /\ x.of \notin started)
<1> DEFINE S == Startable(c)
<1>1. PICK pause \in [S -> Pauses] :
        queue' = queue \cup {Notice(clock + pause[d], "hello", d) : d \in S}
  BY DEF IsisStartAll
<1>2. started' = started \cup S /\ joined' = joined
  BY DEF IsisStartAll
<1>3. S \cap started = {} /\ S \subseteq joined
  BY DEF Startable, Reached
<1> HIDE DEF S
<1>4. \A x \in queue' : x \in queue \/ \E d \in S : x = Notice(clock + pause[d], "hello", d)
  BY <1>1
<1>5. ASSUME NEW d \in S, NEW x, x = Notice(clock + pause[d], "hello", d)
      PROVE  x.what = "hello" /\ x.of = d
  BY <1>5 DEF Notice
<1>6. \A x, y \in queue' : x.what = "hello" /\ y.what = "hello" /\ x.of = y.of => x = y
  <2> SUFFICES ASSUME NEW x \in queue', NEW y \in queue',
                      x.what = "hello", y.what = "hello", x.of = y.of
               PROVE  x = y
    OBVIOUS
  <2>1. CASE x \in queue /\ y \in queue
    BY <2>1 DEF HellosOK
  <2>2. ASSUME NEW d \in S, x = Notice(clock + pause[d], "hello", d) PROVE x = y
    <3>1. x.of = d /\ y \notin queue
      BY <1>3, <1>5, <2>2 DEF HellosOK
    <3>2. PICK g \in S : y = Notice(clock + pause[g], "hello", g)
      BY <1>4, <3>1
    <3> QED
      BY <1>5, <2>2, <3>1, <3>2
  <2>3. ASSUME NEW d \in S, y = Notice(clock + pause[d], "hello", d) PROVE x = y
    <3>1. y.of = d /\ x \notin queue
      BY <1>3, <1>5, <2>3 DEF HellosOK
    <3>2. PICK g \in S : x = Notice(clock + pause[g], "hello", g)
      BY <1>4, <3>1
    <3> QED
      BY <1>5, <2>3, <3>1, <3>2
  <2> QED
    BY <1>4, <2>1, <2>2, <2>3
<1>7. \A x \in queue' : x.what = "hello" => x.of \in started'
  BY <1>2, <1>4, <1>5 DEF HellosOK
<1> QED
  BY <1>2, <1>3, <1>4, <1>5, <1>6, <1>7 DEF HellosOK

LEMMA SendHelloHellos ==
  ASSUME HellosOK, NEW x \in queue, SendHello(x)
  PROVE  /\ HellosOK' /\ UNCHANGED started /\ x.of \in started
         /\ \A y \in queue' : y \in queue \/ (y.what = "hello" /\ y.of = x.of)
         /\ \A y \in queue : y.what = "hello" /\ y.of = x.of => y = x
<1>1. x.what = "hello" /\ UNCHANGED <<started, joined>>
  BY DEF SendHello, wiring, isis
<1>2. x.of \in started /\ \A y \in queue : y.what = "hello" /\ y.of = x.of => y = x
  BY <1>1 DEF HellosOK
<1>3. CASE queue' = queue \ {x}
  BY <1>1, <1>2, <1>3 DEF HellosOK
<1>4. ASSUME NEW pause \in Pauses,
             queue' = (queue \ {x}) \cup {Notice(clock + pause, "hello", x.of)}
      PROVE  /\ HellosOK'
             /\ \A y \in queue' : y \in queue \/ (y.what = "hello" /\ y.of = x.of)
  <2> DEFINE z == Notice(clock + pause, "hello", x.of)
  <2>1. z.what = "hello" /\ z.of = x.of
    BY DEF Notice
  <2>2. queue' = (queue \ {x}) \cup {z}
    BY <1>4
  <2> HIDE DEF z
  <2> QED
    BY <1>1, <1>2, <2>1, <2>2 DEF HellosOK
<1> QED
  BY <1>1, <1>2, <1>3, <1>4 DEF SendHello

LEMMA HellosInit == Init => HellosOK
BY DEF Init, HellosOK

(* Steps other than those of hello timers leave them alone.                *)
LEMMA HellosStep ==
  ASSUME [Next]_vars
  PROVE  \/ \E c : IsisStartAll(c)
         \/ \E x \in queue : Execute(x) /\ SendHello(x)
         \/ /\ UNCHANGED started /\ joined \subseteq joined'
            /\ joined \subseteq Routers => joined' \subseteq Routers
            /\ \A x \in queue' : x \in queue \/ x.what # "hello"
            /\ \A x \in queue : x.what = "hello" => x \in queue'
<1> DEFINE Same == /\ UNCHANGED started /\ joined \subseteq joined'
                   /\ joined \subseteq Routers => joined' \subseteq Routers
                   /\ \A x \in queue' : x \in queue \/ x.what # "hello"
                   /\ \A x \in queue : x.what = "hello" => x \in queue'
<1>1. ASSUME UNCHANGED <<isis, queue>> PROVE Same
  BY <1>1 DEF isis
<1>2. ASSUME NEW d \in Devices, NEW c \in Homes[d], AddDevice(d, c) PROVE Same
  BY <1>1, <1>2 DEF AddDevice, running
<1>3. ASSUME NEW e, NEW f, NEW how, Connected(e, f, how), UNCHANGED <<joined, started>> PROVE Same
  BY <1>3 DEF Connected, Notice
<1>4. ASSUME NEW e \in Port, NEW f \in Port, Connect(e, f) PROVE Same
  BY <1>3, <1>4 DEF Connect, isis
<1>5. ASSUME NEW r \in Routers, NEW s \in Routers, LinkRouterPair(r, s) PROVE Same
  BY <1>3, <1>5 DEF LinkRouterPair, Renew
<1>6. ASSUME NEW r \in Routers, NEW s \in Routers, LinkRouterPairFails(r, s) PROVE Same
  BY <1>6 DEF LinkRouterPairFails, Renew, isis, running
<1>7. ASSUME GetTopology PROVE Same
  BY <1>1, <1>7 DEF GetTopology, running
<1>8. ASSUME NEW c, IsisEnableAll(c) PROVE Same
  BY <1>8 DEF IsisEnableAll, running
<1>9. ASSUME NEW k \in LinkIds, NEW w \in {"linkUp", "linkDown"}, Schedule(k, w, 0) PROVE Same
  BY <1>9 DEF Schedule, Notice, wiring, isis
<1>10. ASSUME NEW tick \in Ticks, RunUntil(tick) PROVE Same
  BY <1>1, <1>10 DEF RunUntil, wiring
<1>11. ASSUME NEW x \in queue, MoveLink(x) PROVE Same
  BY <1>11 DEF MoveLink, Notice, wiring, isis
<1>12. ASSUME NEW x \in queue, MovePort(x) PROVE Same
  BY <1>12 DEF MovePort, isis
<1>13. ASSUME Advance \/ Finish PROVE Same
  BY <1>1, <1>13 DEF Advance, Finish, wiring
<1>14. ASSUME UNCHANGED vars PROVE Same
  BY <1>1, <1>14 DEF vars, wiring, running
<1> HIDE DEF Same
<1>15. \/ \E c : IsisStartAll(c)
       \/ \E x \in queue : Execute(x) /\ SendHello(x)
       \/ Same
  <2>1. ASSUME NEW x \in queue, Execute(x)
        PROVE  Same \/ \E y \in queue : Execute(y) /\ SendHello(y)
    <3>1. MoveLink(x) \/ MovePort(x) \/ (Execute(x) /\ SendHello(x))
      BY <2>1 DEF Execute
    <3> QED
      BY <1>11, <1>12, <3>1
  <2>2. ASSUME NEW c \in Range(Clusters), IsisEnableAll(c) \/ IsisStartAll(c)
        PROVE  Same \/ \E y : IsisStartAll(y)
    BY <1>8, <2>2
  <2>3. CASE Script
    BY <1>2, <1>4, <1>5, <1>6, <1>7, <1>9, <1>10, <2>2, <2>3, Zenon DEF Script
  <2>4. CASE Loop
    BY <1>13, <2>1, <2>4, Zenon DEF Loop
  <2> QED
    BY <1>14, <2>3, <2>4, Zenon DEF Next
<1> QED
  BY <1>15 DEF Same

LEMMA HellosNext == HellosOK /\ [Next]_vars => HellosOK'
<1> SUFFICES ASSUME HellosOK, [Next]_vars PROVE HellosOK'
  OBVIOUS
<1>1. joined \subseteq Routers
  BY DEF HellosOK
<1> QED
  BY <1>1, HellosStep, SameHellos, IsisStartAllHellos, SendHelloHellos

LEMMA Timed == Spec => [](WiringInv /\ HellosOK)
BY Wired, HellosInit, HellosNext, PTL DEF Spec

(* Of the events modelled only the notice to a bare interface wired by     *)
(* hand and the first hello that a router sends cost a run, and a router   *)
(* whose timer was lost is silent for good: notices of links of            *)
(* link_router_pair cost no run, hellos one for each router                *)
(* (topology.py:330-336, isis/process.py:165-172).                         *)
THEOREM RunsLostToFew == Spec => RunsLost
<1> DEFINE Cause == \E x \in queue \ queue' :
                      \/ x.what \in {"up", "down"} /\ BareByHand(x.of)
                      \/ x.what = "hello" /\ Silent(x.of)'
           Stay  == \A d \in Routers : Silent(d) => Silent(d)'
<1>1. ASSUME WiringInv, HellosOK, [Next]_vars, CutShort PROVE Cause
  <2>1. \/ \E x \in queue : MovePort(x) /\ Raises(x.of, logical[x.of], x.what)
        \/ \E x \in queue : SendHello(x) /\ queue' = queue \ {x}
    BY <1>1 DEF CutShort, Idle, Next, Script, Loop, Execute, AddDevice, Connect, LinkRouterPair,
           LinkRouterPairFails, GetTopology, IsisEnableAll, IsisStartAll, Schedule, RunUntil,
           MoveLink, MovePort, SendHello, Advance, Finish, vars, running
  <2>2. ASSUME NEW x \in queue, MovePort(x), Raises(x.of, logical[x.of], x.what) PROVE Cause
    <3>1. x.what \in {"up", "down"} /\ x \in queue \ queue'
      BY <2>2 DEF MovePort
    <3>2. PICK k \in LinkIds : x.of \in Ends(k)
      BY <1>1, <3>1 DEF WiringInv, NoticesOK
    <3>3. logical[x.of] = Bare /\ x.of[1] \notin Switches
      BY <2>2 DEF Raises
    <3>4. links[k].how # "pair"
      BY <1>1, <3>2, <3>3, PairEnds DEF HasAddress
    <3>5. links[k].how \in {"hand", "pair"}
      BY <1>1, LinkFields DEF WiringInv
    <3>6. BareByHand(x.of)
      BY <3>2, <3>3, <3>4, <3>5 DEF BareByHand
    <3> QED
      BY <3>1, <3>6
  <2>3. ASSUME NEW x \in queue, SendHello(x), queue' = queue \ {x} PROVE Cause
    <3>1. x.what = "hello" /\ x \in queue \ queue'
      BY <2>3 DEF SendHello
    <3>2. /\ x.of \in started' 
          /\ \A y \in queue : y.what = "hello" /\ y.of = x.of => y = x
      BY <1>1, <2>3, SendHelloHellos
    <3>3. Silent(x.of)'
      BY <2>3, <3>2 DEF Silent
    <3> QED
      BY <3>1, <3>3
  <2> QED
    BY <2>1, <2>2, <2>3
<1>2. ASSUME HellosOK, [Next]_vars PROVE Stay
  <2>1. ASSUME NEW c, IsisStartAll(c) PROVE Stay
    BY <1>2, <2>1, IsisStartAllHellos DEF Silent
  <2>2. ASSUME NEW x \in queue, SendHello(x) PROVE Stay
    <3>1. x.what = "hello"
      BY <2>2 DEF SendHello
    <3> QED
      BY <1>2, <2>2, <3>1, SendHelloHellos DEF Silent
  <2>3. CASE /\ UNCHANGED started
             /\ \A x \in queue' : x \in queue \/ x.what # "hello"
    BY <2>3 DEF Silent
  <2> QED
    BY <1>2, <2>1, <2>2, <2>3, HellosStep
<1>3. WiringInv /\ HellosOK /\ [Next]_vars => [(CutShort => Cause) /\ Stay]_vars
  BY <1>1, <1>2
<1> QED
  BY <1>3, Timed, PTL DEF Spec, RunsLost

-----------------------------------------------------------------------------
(* The devices were added in their order, those at the ends of links among *)
(* them, each to its cluster.                                              *)
PeersInv ==
  /\ systems \in Seq(Devices) /\ Len(systems) <= Len(Order)
  /\ \A i \in DOMAIN systems : systems[i] = Order[i]
  /\ DOMAIN cluster = Devices
  /\ \A k \in LinkIds : \A e \in Ends(k) : e[1] \in Range(systems)
  /\ PeersRunIsis

(* Addresses stay, devices are added behind those there are.               *)
Grown ==
  /\ \A i \in DOMAIN systems : i \in DOMAIN systems' /\ systems'[i] = systems[i]
  /\ \A d \in Range(systems) : cluster'[d] = cluster[d]
  /\ \A e \in Port : HasAddress(e) => HasAddress(e)'

LEMMA BetweenStays ==
  ASSUME PeersInv, Grown, NEW e, NEW f, ServerBetween(e, f)
  PROVE  ServerBetween(e, f)'
<1>1. PICK i, j, k \in DOMAIN systems :
        /\ systems[i] = e[1] /\ systems[k] = f[1] /\ i < j /\ j < k
        /\ systems[j] \in Servers /\ HasAddress(<<systems[j], 1>>)
        /\ cluster[systems[j]] = cluster[e[1]]
  BY DEF ServerBetween
<1>2. <<systems[j], 1>> \in Port
  BY <1>1, DevicesAssumption DEF Port, Ports, Devices
<1>3. /\ systems'[i] = e[1] /\ systems'[k] = f[1] /\ systems'[j] = systems[j]
      /\ i \in DOMAIN systems' /\ j \in DOMAIN systems' /\ k \in DOMAIN systems'
      /\ HasAddress(<<systems[j], 1>>)'
  BY <1>1, <1>2 DEF Grown
<1>4. cluster'[systems[j]] = cluster[systems[j]] /\ cluster'[e[1]] = cluster[e[1]]
  <2>1. systems[j] \in Range(systems) /\ systems[i] \in Range(systems)
    BY DEF Range
  <2> QED
    BY <1>1, <2>1 DEF Grown
<1>5. cluster'[systems'[j]] = cluster'[e[1]]
  BY <1>1, <1>3, <1>4
<1>6. systems'[j] \in Servers /\ logical'[<<systems'[j], 1>>] \notin {None, Bare}
  BY <1>1, <1>3 DEF HasAddress
<1> QED
  BY <1>1, <1>3, <1>5, <1>6 DEF ServerBetween, HasAddress

(* IS-IS is enabled at no other end of a link of link_router_pair than     *)
(* before.                                                                 *)
LEMMA SamePeers ==
  ASSUME PeersInv, Grown,
         \A k \in LinkIds' : links'[k].how = "pair" =>
           \/ /\ k \in LinkIds /\ links'[k] = links[k]
              /\ \A e \in Ends(k) : e \in enabled' <=> e \in enabled
           \/ links'[k].e1 \notin enabled' /\ links'[k].e2 \notin enabled'
  PROVE  PeersRunIsis'
<1> SUFFICES ASSUME NEW k \in LinkIds', links'[k].how = "pair",
                    NEW e \in {links'[k].e1, links'[k].e2},
                    NEW f \in {links'[k].e1, links'[k].e2},
                    e \in enabled', f \notin enabled'
             PROVE  ServerBetween(e, f)'
  BY DEF PeersRunIsis, Ends
<1>1. /\ k \in LinkIds /\ links'[k] = links[k]
      /\ \A g \in Ends(k) : g \in enabled' <=> g \in enabled
  OBVIOUS
<1>2. e \in Ends(k) /\ f \in Ends(k) /\ links[k].how = "pair"
  BY <1>1 DEF Ends
<1>3. ServerBetween(e, f)
  BY <1>1, <1>2 DEF PeersInv, PeersRunIsis
<1> QED
  BY <1>3, BetweenStays

LEMMA AddDevicePeers ==
  ASSUME WiringInv, PeersInv, NEW d \in Devices, NEW c, AddDevice(d, c)
  PROVE  PeersInv'
<1>1. /\ systems' = Append(systems, d) /\ UNCHANGED <<links, enabled>>
      /\ cluster' = [cluster EXCEPT ![d] = c]
      /\ Len(systems) < Len(Order) /\ d = Order[Len(systems) + 1]
      /\ DOMAIN logical = Port
  BY DEF AddDevice, WiringInv, AddressesOK, isis
<1>2. /\ systems' \in Seq(Devices) /\ Len(systems) \in Nat /\ Len(systems') = Len(systems) + 1
      /\ DOMAIN systems = 1 .. Len(systems) /\ DOMAIN systems' = 1 .. Len(systems')
      /\ \A i \in DOMAIN systems : i \in DOMAIN systems' /\ systems'[i] = systems[i]
      /\ systems'[Len(systems) + 1] = d
  BY <1>1, AppendProperties, LenProperties DEF PeersInv
<1>3. Len(Order) \in Nat /\ DOMAIN Order = 1 .. Len(Order)
  BY DevicesAssumption, LenProperties
<1>4. Len(systems') <= Len(Order) /\ \A i \in DOMAIN systems' : systems'[i] = Order[i]
  BY <1>1, <1>2, <1>3 DEF PeersInv
<1>5. d \notin Range(systems) /\ Range(systems) \subseteq Range(systems')
  <2>1. ASSUME NEW i \in DOMAIN systems PROVE systems[i] # d
    <3>1. i \in DOMAIN Order /\ Len(systems) + 1 \in DOMAIN Order /\ i # Len(systems) + 1
      BY <1>1, <1>2, <1>3
    <3> QED
      BY <1>1, <3>1, DevicesAssumption DEF PeersInv, IsInjective
  <2> QED
    BY <1>2, <2>1 DEF Range
<1>6. \A e \in Port : HasAddress(e) => HasAddress(e)'
  <2>1. CASE d \in Switches /\ logical' = SwitchPorts(d)
    <3>1. \A e \in Port : HasAddress(e) => e[1] # d
      BY <2>1, DevicesAssumption DEF WiringInv, AddressesOK, Given
    <3> QED
      BY <2>1, <3>1 DEF SwitchPorts, HasAddress
  <2>2. CASE logical' = ServerPort(d, OwnAddress(d))
    <3>1. OwnAddress(d) \notin {None, Bare}
      <4>1. 0 \in Nat /\ 0 <= 2 * MaxLinks
        BY BoundsAssumption
      <4> QED
        BY <4>1, NewAddress DEF OwnAddress
    <3> QED
      BY <1>1, <2>2, <3>1 DEF ServerPort, HasAddress
  <2>3. CASE UNCHANGED logical
    BY <2>3 DEF HasAddress
  <2> QED
    BY <2>1, <2>2, <2>3 DEF AddDevice
<1>7. Grown
  BY <1>1, <1>2, <1>5, <1>6 DEF Grown
<1>8. PeersRunIsis'
  BY <1>1, <1>7, SamePeers DEF LinkIds
<1>9. \A k \in LinkIds' : \A e \in Ends(k)' : e[1] \in Range(systems')
  BY <1>1, <1>5 DEF PeersInv, LinkIds, Ends
<1>10. DOMAIN cluster' = Devices
  BY <1>1 DEF PeersInv
<1> QED
  BY <1>2, <1>4, <1>8, <1>9, <1>10 DEF PeersInv

(* A link is added between ports of devices that were added.               *)
LEMMA LinkPeers ==
  ASSUME WiringInv, PeersInv, NEW e \in Port, NEW f \in Port, NEW how \in {"hand", "pair"},
         Connected(e, f, how), {e[1], f[1]} \subseteq Range(systems), UNCHANGED <<systems, cluster>>
  PROVE  /\ \A k \in LinkIds' : \A g \in Ends(k)' : g[1] \in Range(systems')
         /\ \A k \in LinkIds' : \/ k \in LinkIds /\ links'[k] = links[k]
                                \/ links'[k] = [e1 |-> e, e2 |-> f, how |-> how]
<1> DEFINE z == Len(links) + 1
<1>1. /\ LinkIds' = LinkIds \cup {z}
      /\ \A k \in LinkIds : links'[k] = links[k]
      /\ links'[z] = [e1 |-> e, e2 |-> f, how |-> how]
  BY Appended DEF WiringInv, Connected
<1> HIDE DEF z
<1>2. \A k \in LinkIds : \A g \in {links'[k].e1, links'[k].e2} : g[1] \in Range(systems')
  BY <1>1 DEF PeersInv, Ends
<1>3. \A g \in {links'[z].e1, links'[z].e2} : g[1] \in Range(systems')
  BY <1>1
<1> QED
  BY <1>1, <1>2, <1>3 DEF Ends

LEMMA ConnectPeers ==
  ASSUME WiringInv, PeersInv, NEW e \in Port, NEW f \in Port, Connect(e, f)
  PROVE  PeersInv'
<1>1. /\ Connected(e, f, "hand") /\ UNCHANGED <<systems, cluster, logical, enabled>>
      /\ {e[1], f[1]} \subseteq Range(systems)
  BY DEF Connect, ports, isis
<1>2. /\ \A k \in LinkIds' : \A g \in Ends(k)' : g[1] \in Range(systems')
      /\ \A k \in LinkIds' : \/ k \in LinkIds /\ links'[k] = links[k]
                             \/ links'[k] = [e1 |-> e, e2 |-> f, how |-> "hand"]
  BY <1>1, LinkPeers
<1>3. Grown
  BY <1>1 DEF Grown, HasAddress
<1>4. PeersRunIsis'
  BY <1>1, <1>2, <1>3, SamePeers
<1> QED
  BY <1>1, <1>2, <1>4 DEF PeersInv

(* A port that gets a new address is in no link yet.                       *)
LEMMA RenewPeers ==
  ASSUME WiringInv, PeersInv, NEW E, Renew(E), \A e \in E : ~ Linked(e),
         NEW k \in LinkIds, NEW g \in Ends(k)
  PROVE  g \in enabled' <=> g \in enabled
BY DEF Renew, Linked

LEMMA LinkRouterPairPeers ==
  ASSUME WiringInv, PeersInv, NEW r \in Routers, NEW s \in Routers, LinkRouterPair(r, s)
  PROVE  PeersInv'
<1>1. PICK e \in FirstFree(r), f \in FirstFree(s) :
        Connected(e, f, "pair") /\ logical' = Paired(e, f) /\ Renew({e, f})
  BY DEF LinkRouterPair
<1>2. /\ e \in Port /\ e[1] = r /\ ~ Linked(e)
      /\ f \in Port /\ f[1] = s /\ ~ Linked(f)
      /\ {e[1], f[1]} \subseteq Range(systems)
      /\ UNCHANGED <<systems, cluster>>
      /\ DOMAIN logical = Port
  BY FirstFreeFree DEF LinkRouterPair, WiringInv, AddressesOK
<1>3. /\ \A k \in LinkIds' : \A g \in Ends(k)' : g[1] \in Range(systems')
      /\ \A k \in LinkIds' : \/ k \in LinkIds /\ links'[k] = links[k]
                             \/ links'[k] = [e1 |-> e, e2 |-> f, how |-> "pair"]
  BY <1>1, <1>2, LinkPeers
<1>4. Grown
  <2>1. \A i \in {1, 2} : PairAddress(nets + 1, i) \notin {None, Bare}
    BY <1>1, NextNet DEF Connected
  <2>2. \A g \in Port : HasAddress(g) => HasAddress(g)'
    BY <1>1, <1>2, <2>1 DEF Paired, HasAddress
  <2> QED
    BY <1>2, <2>2 DEF Grown
<1>5. \A g \in {e, f} : ~ Linked(g)
  BY <1>2
<1>6. \A k \in LinkIds : \A g \in Ends(k) : g \in enabled' <=> g \in enabled
  BY <1>1, <1>5, RenewPeers
<1>7. e \notin enabled' /\ f \notin enabled'
  BY <1>1 DEF Renew
<1>8. PeersRunIsis'
  BY <1>3, <1>4, <1>6, <1>7, SamePeers
<1> QED
  BY <1>2, <1>3, <1>8 DEF PeersInv

LEMMA LinkRouterPairFailsPeers ==
  ASSUME WiringInv, PeersInv, NEW r \in Routers, NEW s \in Routers, LinkRouterPairFails(r, s)
  PROVE  PeersInv'
<1>1. /\ UNCHANGED <<systems, cluster, links>> /\ nets < MaxLinks /\ DOMAIN logical = Port
  BY DEF LinkRouterPairFails, WiringInv, AddressesOK
<1>2. /\ \A g \in Port : HasAddress(g) => HasAddress(g)'
      /\ \A k \in LinkIds : \A g \in Ends(k) : g \in enabled' <=> g \in enabled
  <2>1. CASE UNCHANGED <<ports, isis>>
    BY <2>1 DEF ports, isis, HasAddress
  <2>2. ASSUME NEW e \in FirstFree(r), Renew({e}),
               logical' = [logical EXCEPT ![e] = PairAddress(nets + 1, 1)]
        PROVE  /\ \A g \in Port : HasAddress(g) => HasAddress(g)'
               /\ \A k \in LinkIds : \A g \in Ends(k) : g \in enabled' <=> g \in enabled
    <3>1. PairAddress(nets + 1, 1) \notin {None, Bare}
      BY <1>1, NextNet
    <3>2. \A g \in {e} : ~ Linked(g)
      BY FirstFreeFree
    <3>3. \A k \in LinkIds : \A g \in Ends(k) : g \in enabled' <=> g \in enabled
      BY <2>2, <3>2, RenewPeers
    <3>4. \A g \in Port : HasAddress(g) => HasAddress(g)'
      BY <1>1, <2>2, <3>1 DEF HasAddress
    <3> QED
      BY <3>3, <3>4
  <2> QED
    BY <2>1, <2>2 DEF LinkRouterPairFails
<1>3. Grown
  BY <1>1, <1>2 DEF Grown
<1>4. PeersRunIsis'
  BY <1>1, <1>2, <1>3, SamePeers DEF LinkIds
<1> QED
  BY <1>1, <1>4 DEF PeersInv, LinkIds, Ends

(* Steps that leave the links and IS-IS alone and take no address away.    *)
LEMMA RestPeers ==
  ASSUME PeersInv, UNCHANGED <<systems, cluster, links, enabled>>,
         \A e \in Port : HasAddress(e) => HasAddress(e)'
  PROVE  PeersInv'
<1>1. Grown
  BY DEF Grown
<1>2. PeersRunIsis'
  BY <1>1, SamePeers DEF LinkIds
<1> QED
  BY <1>2 DEF PeersInv, LinkIds, Ends

(* isis_enable_all takes both ends of a link that is inside the cluster,   *)
(* or its first router only, when a server that comes before the second    *)
(* one raises.                                                             *)
LEMMA IsisEnableAllPeers ==
  ASSUME WiringInv, PeersInv, NEW c, IsisEnableAll(c)
  PROVE  PeersInv'
<1> DEFINE asked == {e \in Walk(c) : HasAddress(e) /\ Inside(c, e)}
           bad   == {e \in asked : e[1] \in Servers}
           S(e)  == Place(e[1], systems)
<1>1. /\ UNCHANGED <<systems, cluster, logical, links>>
      /\ enabled' = enabled \cup (Reached(asked, bad) \ bad)
  BY DEF IsisEnableAll, ports
<1>2. ASSUME NEW e \in Walk(c)
      PROVE  /\ S(e) \in DOMAIN systems /\ S(e) \in Nat /\ systems[S(e)] = e[1]
             /\ cluster[e[1]] = c /\ e \in Port
  <2>1. e[1] \in Range(systems) /\ cluster[e[1]] = c /\ e \in Port
    BY DEF Walk
  <2>2. \E i \in DOMAIN systems : systems[i] = e[1]
    BY <2>1 DEF Range
  <2>3. DOMAIN systems \subseteq Nat
    BY LenProperties DEF PeersInv
  <2> QED
    BY <2>1, <2>2, <2>3 DEF Place
<1>3. ASSUME NEW e \in Walk(c), NEW f \in Walk(c), e[1] # f[1]
      PROVE  Before(e, f) <=> S(e) < S(f)
  BY <1>2, <1>3 DEF Before
<1> HIDE DEF S
<1>4. ASSUME NEW e \in Walk(c), NEW f \in Walk(c), NEW b \in bad,
             e[1] \in Routers, f[1] \in Routers, Before(b, f), ~ Before(b, e)
      PROVE  ServerBetween(e, f)
  <2>1. b \in Walk(c) /\ HasAddress(b) /\ b[1] \in Servers
    OBVIOUS
  <2>2. b[1] # e[1] /\ b[1] # f[1]
    BY <1>4, <2>1, DevicesAssumption
  <2>3. S(b) < S(f) /\ ~ (S(b) < S(e))
    BY <1>3, <1>4, <2>1, <2>2
  <2>4. S(e) # S(b)
    BY <1>2, <2>1, <2>2
  <2>5. S(e) < S(b)
    BY <1>2, <2>1, <2>3, <2>4
  <2>6. b = <<b[1], 1>>
    BY <1>2, <2>1, DevicesAssumption DEF WiringInv, AddressesOK, Given
  <2>7. /\ systems[S(e)] = e[1] /\ systems[S(f)] = f[1] /\ systems[S(b)] = b[1]
        /\ S(e) \in DOMAIN systems /\ S(f) \in DOMAIN systems /\ S(b) \in DOMAIN systems
        /\ cluster[systems[S(b)]] = cluster[e[1]]
    BY <1>2, <2>1
  <2>8. HasAddress(<<systems[S(b)], 1>>) /\ systems[S(b)] \in Servers
    BY <2>1, <2>6, <2>7
  <2> QED
    BY <2>3, <2>5, <2>7, <2>8 DEF ServerBetween
<1>5. ASSUME NEW k \in LinkIds, links[k].how = "pair",
             NEW e \in Ends(k), NEW f \in Ends(k), e \in enabled', f \notin enabled'
      PROVE  ServerBetween(e, f)
  <2>1. CASE e \in enabled
    BY <1>1, <1>5, <2>1 DEF PeersInv, PeersRunIsis
  <2>2. CASE e \notin enabled
    <3>1. e \in Reached(asked, bad) /\ f \notin Reached(asked, bad) \ bad
      BY <1>1, <1>5, <2>2
    <3>2. e \in asked
      BY <3>1 DEF Reached
    <3>3. \A j \in LinkIds : f \in Ends(j) => j = k
      BY DEF WiringInv, LinksOK
    <3>4. \A g \in Ends(k) : cluster[g[1]] = c
      BY <3>2 DEF Inside
    <3>5. Inside(c, f)
      BY <3>3, <3>4 DEF Inside
    <3>6. f \in Walk(c) /\ HasAddress(f)
      BY <1>5, <3>4, LinkFields, PairEnds DEF WiringInv, PeersInv, Walk
    <3>7. f \in asked /\ e \in Walk(c)
      BY <3>2, <3>5, <3>6
    <3>8. e[1] \in Routers /\ f[1] \in Routers
      BY <1>5 DEF WiringInv, PairsOK, Owns, Ends
    <3>9. f \notin bad
      BY <3>8, DevicesAssumption
    <3>10. PICK b \in bad : Before(b, f)
      BY <3>1, <3>7, <3>9 DEF Reached
    <3>11. ~ Before(b, e)
      BY <3>1 DEF Reached
    <3> QED
      BY <1>4, <3>6, <3>7, <3>8, <3>10, <3>11
  <2> QED
    BY <2>1, <2>2
<1>6. \A e, f : ServerBetween(e, f) <=> ServerBetween(e, f)'
  BY <1>1 DEF ServerBetween, HasAddress
<1>7. PeersRunIsis'
  BY <1>1, <1>5, <1>6 DEF PeersRunIsis, LinkIds, Ends
<1> QED
  BY <1>1, <1>7 DEF PeersInv, LinkIds, Ends

LEMMA PeersInit == Init => PeersInv
<1> SUFFICES ASSUME Init PROVE PeersInv
  OBVIOUS
<1>1. /\ systems \in Seq(Devices) /\ LinkIds = {} /\ Len(systems) = 0 /\ DOMAIN systems = {}
      /\ DOMAIN cluster = Devices
  BY DEF Init, LinkIds
<1>2. Len(Order) \in Nat
  BY DevicesAssumption, LenProperties
<1> QED
  BY <1>1, <1>2 DEF PeersInv, PeersRunIsis

LEMMA PeersNext == WiringInv /\ PeersInv /\ [Next]_vars => PeersInv'
<1> SUFFICES ASSUME WiringInv, PeersInv, [Next]_vars PROVE PeersInv'
  OBVIOUS
<1>1. ASSUME UNCHANGED <<systems, cluster, logical, links, enabled>> PROVE PeersInv'
  BY <1>1, RestPeers DEF HasAddress
<1>2. ASSUME NEW d \in Devices, NEW c \in Homes[d], AddDevice(d, c) PROVE PeersInv'
  BY <1>2, AddDevicePeers
<1>3. ASSUME NEW e \in Port, NEW f \in Port, Connect(e, f) PROVE PeersInv'
  BY <1>3, ConnectPeers
<1>4. ASSUME NEW r \in Routers, NEW s \in Routers,
             LinkRouterPair(r, s) \/ LinkRouterPairFails(r, s)
      PROVE  PeersInv'
  BY <1>4, LinkRouterPairPeers, LinkRouterPairFailsPeers
<1>5. CASE GetTopology
  <2>1. UNCHANGED <<systems, cluster, links, enabled>>
    BY <1>5 DEF GetTopology, isis
  <2>2. \A e \in Port : HasAddress(e) => HasAddress(e)'
    BY <1>5 DEF GetTopology, HasAddress
  <2> QED
    BY <2>1, <2>2, RestPeers
<1>6. ASSUME NEW c, IsisEnableAll(c) PROVE PeersInv'
  BY <1>6, IsisEnableAllPeers
<1>7. ASSUME NEW c, IsisStartAll(c) PROVE PeersInv'
  BY <1>1, <1>7 DEF IsisStartAll, ports
<1>8. ASSUME NEW k, NEW w, Schedule(k, w, 0) PROVE PeersInv'
  BY <1>1, <1>8 DEF Schedule, wiring, ports, isis
<1>9. ASSUME NEW tick, RunUntil(tick) PROVE PeersInv'
  BY <1>1, <1>9 DEF RunUntil, wiring, ports, isis
<1>10. ASSUME NEW x \in queue, Execute(x) PROVE PeersInv'
  BY <1>1, <1>10 DEF Execute, MoveLink, MovePort, SendHello, wiring, ports, isis
<1>11. CASE Advance \/ Finish \/ UNCHANGED vars
  BY <1>1, <1>11 DEF Advance, Finish, vars, wiring, ports, isis
<1> QED
  BY <1>2, <1>3, <1>4, <1>5, <1>6, <1>7, <1>8, <1>9, <1>10, <1>11 DEF Next, Script, Loop

LEMMA Peered == Spec => [](WiringInv /\ PeersInv)
BY Wired, PeersInit, PeersNext, PTL DEF Spec

(* IS-IS runs at both ends of a link of link_router_pair or at none, in    *)
(* whatever order devices, links and isis_enable_all come and whichever    *)
(* calls fail, but for a server with an address that was added between the *)
(* two routers (topology.py:254-273).                                      *)
THEOREM PeersAlwaysRunIsis == Spec => []PeersRunIsis
<1>1. PeersInv => PeersRunIsis
  BY DEF PeersInv
<1> QED
  BY <1>1, Peered, PTL
=============================================================================
