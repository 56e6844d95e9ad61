----------------------------- MODULE DhcpProofs -----------------------------
(***************************************************************************)
(* Proofs about Dhcp with one server and one start per client, for every   *)
(* set of clients, of hosts configured by hand and of addresses.           *)
(***************************************************************************)
EXTENDS Dhcp, TLAPS

(* Sending adds one copy of each message and leaves the others alone.      *)
LEMMA BagAdd ==
  ASSUME NEW B, NEW S, IsABag(B),
         NEW A, A = B (+) SetToBag(S)
  PROVE  /\ \A e : e \in DOMAIN A <=> e \in DOMAIN B \/ e \in S
         /\ IsABag(A)
         /\ \A e \in DOMAIN A :
              /\ e \notin S => A[e] = B[e]
              /\ e \notin DOMAIN B => A[e] = 1
  BY DEF (+), SetToBag, IsABag

(* Receiving takes one copy of the message received and no other.          *)
LEMMA BagTake ==
  ASSUME NEW B, NEW x, x \in DOMAIN B, IsABag(B),
         NEW A, A = B (-) SetToBag({x})
  PROVE  /\ DOMAIN A \subseteq DOMAIN B
         /\ IsABag(A)
         /\ \A e \in DOMAIN A : e # x => A[e] = B[e]
         /\ B[x] = 1 => x \notin DOMAIN A
         /\ \A e \in DOMAIN B : e # x => e \in DOMAIN A
  BY DEF (-), SetToBag, IsABag

(***************************************************************************)
(* What handling event e and scheduling the events of S does to the queue, *)
(* and what adding S alone does.                                           *)
(***************************************************************************)
EventSet(S) == S \subseteq Event

Adds(S) ==
  /\ IsQueue(events')
  /\ \A d \in BagToSet(events') : d \in BagToSet(events) \/ d \in S
  /\ \A d \in BagToSet(events) : d \in BagToSet(events')
  /\ \A d \in S : d \notin BagToSet(events) => events'[d] = 1
  /\ \A d \in BagToSet(events) : d \notin S => events'[d] = events[d]

Becomes(e, S) ==
  /\ IsQueue(events')
  /\ \A d \in BagToSet(events') : d \in BagToSet(events) \/ d \in S
  /\ \A d \in BagToSet(events') : d \notin S /\ d # e => events'[d] = events[d]
  /\ \A d \in BagToSet(events) : d # e => d \in BagToSet(events')
  /\ \A d \in S : d \in BagToSet(events')
  /\ events[e] = 1 /\ e \notin S => e \notin BagToSet(events')
  /\ \A d \in S : d \notin BagToSet(events) \/ (d = e /\ events[e] = 1) => events'[d] = 1

(* Scheduling events.                                                      *)
LEMMA Adding ==
  ASSUME TypeOK, NEW S, EventSet(S), events' = events (+) SetToBag(S)
  PROVE  Adds(S)
<1>1. IsABag(events) /\ BagToSet(events) \subseteq Event
  BY DEF TypeOK, IsQueue
<1>2. /\ \A e : e \in DOMAIN events' <=> e \in DOMAIN events \/ e \in S
      /\ IsABag(events')
      /\ \A e \in DOMAIN events' :
           /\ e \notin S => events'[e] = events[e]
           /\ e \notin DOMAIN events => events'[e] = 1
  BY <1>1, BagAdd
<1> QED
  BY <1>1, <1>2 DEF Adds, IsQueue, BagToSet, EventSet

(* Handling an event that schedules nothing.                               *)
LEMMA Taking ==
  ASSUME TypeOK, NEW e \in BagToSet(events)
  PROVE  /\ e \in Event
         /\ IsABag(Left(e)) /\ BagToSet(Left(e)) \subseteq Event
         /\ \A d \in BagToSet(Left(e)) : d \in BagToSet(events)
         /\ \A d \in BagToSet(Left(e)) : d # e => Left(e)[d] = events[d]
         /\ \A d \in BagToSet(events) : d # e => d \in BagToSet(Left(e))
         /\ events[e] = 1 => e \notin BagToSet(Left(e))
         /\ events' = Left(e) => Becomes(e, {})
<1>1. IsABag(events) /\ BagToSet(events) \subseteq Event
  BY DEF TypeOK, IsQueue
<1>2. /\ DOMAIN Left(e) \subseteq DOMAIN events
      /\ IsABag(Left(e))
      /\ \A d \in DOMAIN Left(e) : d # e => Left(e)[d] = events[d]
      /\ events[e] = 1 => e \notin DOMAIN Left(e)
      /\ \A d \in DOMAIN events : d # e => d \in DOMAIN Left(e)
  BY <1>1, BagTake DEF Left, BagToSet
<1> QED
  BY <1>1, <1>2 DEF Becomes, IsQueue, BagToSet

(* Handling an event that schedules the events of S.                       *)
LEMMA Replacing ==
  ASSUME TypeOK, NEW e \in BagToSet(events), NEW S, EventSet(S),
         events' = Left(e) (+) SetToBag(S)
  PROVE  Becomes(e, S)
<1> DEFINE L == Left(e)
<1>1. /\ IsABag(L) /\ BagToSet(L) \subseteq Event
      /\ \A d \in BagToSet(L) : d \in BagToSet(events)
      /\ \A d \in BagToSet(L) : d # e => L[d] = events[d]
      /\ \A d \in BagToSet(events) : d # e => d \in BagToSet(L)
      /\ events[e] = 1 => e \notin BagToSet(L)
  BY Taking
<1>2. events' = L (+) SetToBag(S)
  OBVIOUS
<1> HIDE DEF L
<1>3. /\ \A d : d \in DOMAIN events' <=> d \in DOMAIN L \/ d \in S
      /\ IsABag(events')
      /\ \A d \in DOMAIN events' :
           /\ d \notin S => events'[d] = L[d]
           /\ d \notin DOMAIN L => events'[d] = 1
  BY <1>1, <1>2, BagAdd
<1>4. /\ \A d : d \in BagToSet(events') <=> d \in BagToSet(L) \/ d \in S
      /\ \A d \in BagToSet(events') :
           /\ d \notin S => events'[d] = L[d]
           /\ d \notin BagToSet(L) => events'[d] = 1
  BY <1>3 DEF BagToSet
<1>5. IsQueue(events')
  BY <1>1, <1>3, <1>4 DEF IsQueue, EventSet
<1> QED
  BY <1>1, <1>4, <1>5 DEF Becomes

-----------------------------------------------------------------------------
(* The messages and checks the actions schedule are events.                *)
LEMMA MsgType ==
  ASSUME NEW t \in EventTypes, NEW c \in Clients, NEW h \in Hosts,
         NEW s \in Servers \cup {None}, NEW a \in Addrs \cup {None},
         NEW p \in Addrs \cup {None}
  PROVE  LET m == Msg(t, c, h, s, a, p)
         IN  /\ m \in Event
             /\ m.type = t /\ m.client = c /\ m.to = h
             /\ m.server = s /\ m.addr = a /\ m.psrc = p
  BY DEF Msg, Event

LEMMA EventFields ==
  ASSUME NEW e \in Event
  PROVE  /\ e.type \in EventTypes /\ e.client \in Clients /\ e.to \in Hosts
         /\ e.server \in Servers \cup {None}
         /\ e.addr \in Addrs \cup {None} /\ e.psrc \in Addrs \cup {None}
         /\ e.client \in Hosts
  BY DEF Event, Hosts

(* A step keeps every variable in its type.                                *)
LEMMA TypeStep == TypeOK /\ ShapeOK /\ [Next]_vars => TypeOK'
<1> SUFFICES ASSUME TypeOK, ShapeOK, [Next]_vars
             PROVE  TypeOK'
  OBVIOUS
<1>0. \A e \in BagToSet(events) :
        /\ e \in Event
        /\ e.type \in {"discover", "request"} => e.to \in Servers
        /\ e.type # "discover" => e.addr \in Addrs
  BY Taking DEF ShapeOK
<1>t. \A t \in {"discover", "offer", "check", "request", "ack", "probe", "reply"} :
        t \in EventTypes
  BY DEF EventTypes
<1>1. ASSUME NEW e \in BagToSet(events), NEW a \in Addrs, Offer(e, a)
      PROVE  TypeOK'
  <2>1. e.to \in Servers /\ e.client \in Clients /\ e.client \in Hosts
    BY <1>0, <1>1, EventFields DEF Offer
  <2>2. EventSet({Msg("offer", e.client, e.client, e.to, a, None)})
    BY <1>t, <2>1, MsgType DEF EventSet
  <2>3. IsQueue(events')
    BY <1>1, <2>2, Replacing DEF Offer, Becomes
  <2> QED
    BY <1>1, <2>1, <2>3 DEF Offer, Hold, TypeOK
<1>2. ASSUME NEW e \in BagToSet(events), NoOffer(e) \/ NoHold(e)
      PROVE  TypeOK'
  BY <1>2, Taking DEF NoOffer, NoHold, TypeOK, Becomes
<1>3. ASSUME NEW e \in BagToSet(events), ReceiveOffer(e)
      PROVE  TypeOK'
  <2> DEFINE S == Probes(e.client, e.addr) \cup
                  {Msg("check", e.client, e.client, e.server, e.addr, None)}
  <2>1. /\ e.client \in Clients /\ e.client \in Hosts /\ e.addr \in Addrs
        /\ e.server \in Servers \cup {None}
        /\ addr[e.client] \in Addrs \cup {None}
    BY <1>0, <1>3, EventFields DEF TypeOK, ReceiveOffer
  <2>2. EventSet(S)
    <3>1. \A h \in Hosts : Msg("probe", e.client, h, None, e.addr, addr[e.client]) \in Event
      BY <1>t, <2>1 DEF Msg, Event
    <3>2. Msg("check", e.client, e.client, e.server, e.addr, None) \in Event
      BY <1>t, <2>1, MsgType
    <3> QED
      BY <3>1, <3>2 DEF EventSet, Probes
  <2>3. events' = Left(e) (+) SetToBag(S)
    BY <1>3 DEF ReceiveOffer
  <2> HIDE DEF S
  <2>4. IsQueue(events')
    BY <2>2, <2>3, Replacing DEF Becomes
  <2> QED
    BY <1>3, <2>4 DEF ReceiveOffer, TypeOK
<1>4. ASSUME NEW e \in BagToSet(events), ReceiveArp(e)
      PROVE  TypeOK'
  <2>1. /\ e.client \in Clients /\ e.client \in Hosts /\ e.addr \in Addrs \cup {None}
        /\ e.to \in Hosts /\ e.psrc \in Addrs \cup {None}
    BY <1>0, EventFields
  <2>2. EventSet(Answer(e))
    <3>1. Msg("reply", e.client, e.client, None, e.addr, e.addr) \in Event
      BY <1>t, <2>1, MsgType
    <3> QED
      BY <3>1 DEF EventSet, Answer
  <2>3. IsQueue(events')
    BY <1>4, <2>2, Replacing DEF ReceiveArp, Becomes
  <2> QED
    BY <1>4, <2>1, <2>3 DEF ReceiveArp, TypeOK
<1>5. ASSUME NEW e \in BagToSet(events), Check(e)
      PROVE  TypeOK'
  <2>1. /\ e.client \in Clients /\ e.addr \in Addrs /\ e.server \in Servers \cup {None}
        /\ Servers \subseteq Hosts
    BY <1>0, <1>5, EventFields, HostsAssumption DEF Check, Hosts
  <2>2. EventSet(Requests(e))
    BY <1>t, <2>1, MsgType DEF EventSet, Requests
  <2>3. IsQueue(events')
    BY <1>5, <2>2, Replacing, Taking DEF Check, Becomes
  <2> QED
    BY <1>5, <2>3 DEF Check, TypeOK
<1>6. ASSUME NEW e \in BagToSet(events), BindAndAck(e)
      PROVE  TypeOK'
  <2>1. /\ e.client \in Clients /\ e.client \in Hosts
        /\ e.to \in Servers /\ e.addr \in Addrs
        /\ hold[e.to][e.client] \in Addrs
    BY <1>0, <1>6, EventFields DEF BindAndAck, TypeOK
  <2>2. EventSet({Ack(e)})
    BY <1>t, <2>1, MsgType DEF EventSet, Ack
  <2>3. IsQueue(events')
    BY <1>6, <2>2, Replacing DEF BindAndAck, Becomes
  <2> QED
    BY <1>6, <2>1, <2>3 DEF BindAndAck, Release, Lease, TypeOK
<1>7. ASSUME NEW e \in BagToSet(events), ApplyConfig(e)
      PROVE  TypeOK'
  <2>1. e.client \in Hosts /\ e.addr \in Addrs \cup {None}
    BY <1>0, EventFields
  <2> QED
    BY <1>7, <2>1, Taking DEF ApplyConfig, TypeOK, Becomes
<1>8. ASSUME NEW c \in Clients, Start(c)
      PROVE  TypeOK'
  <2>1. EventSet(Discovers(c))
    BY <1>t, MsgType, HostsAssumption DEF EventSet, Discovers, Hosts
  <2>2. IsQueue(events')
    BY <1>8, <2>1, Adding DEF Start, Adds
  <2>3. starts' \in [Clients -> Nat] /\ \A x \in Clients : starts'[x] <= MaxStarts[x]
    <3>1. starts \in [Clients -> Nat] /\ starts' = [starts EXCEPT ![c] = @ + 1]
      BY <1>8 DEF Start, TypeOK
    <3>2. starts[c] < MaxStarts[c] /\ MaxStarts[c] \in Nat
      BY <1>8, BoundsAssumption DEF Start
    <3>3. starts' \in [Clients -> Nat]
      BY <3>1
    <3>4. \A x \in Clients : starts'[x] = IF x = c THEN starts[c] + 1 ELSE starts[x]
      BY <3>1
    <3>5. starts[c] + 1 <= MaxStarts[c]
      BY <3>1, <3>2
    <3> QED
      BY <1>8, <3>3, <3>4, <3>5 DEF TypeOK
  <2> QED
    BY <1>8, <2>2, <2>3 DEF Start, TypeOK
<1>9. ASSUME NEW e \in BagToSet(events), Lose(e)
      PROVE  TypeOK'
  BY <1>9, Taking, BoundsAssumption DEF Lose, TypeOK, Becomes
<1>11. ASSUME NEW e \in BagToSet(events), HoldMissing(e)
       PROVE  TypeOK'
  BY <1>0, <1>11, Taking, EventFields DEF HoldMissing, DeletionFails, TypeOK, Becomes
<1>10. CASE UNCHANGED vars
  BY <1>10 DEF vars, TypeOK
<1> QED
  BY <1>1, <1>2, <1>3, <1>4, <1>5, <1>6, <1>7, <1>8, <1>9, <1>10, <1>11
     DEF Next, Run, Handle

(* Every message a step sends is for a host that handles it, and names an  *)
(* address unless it is a DISCOVER.                                        *)
Shaped(e) ==
  /\ e.to \in (IF e.type \in {"discover", "request"} THEN Servers
               ELSE IF e.type = "probe" THEN Hosts ELSE {e.client})
  /\ e.type # "discover" => e.addr \in Addrs
  /\ e.type = "reply" => e.psrc = e.addr

LEMMA ShapeStep == TypeOK /\ ShapeOK /\ [Next]_vars => ShapeOK'
<1> SUFFICES ASSUME TypeOK, ShapeOK, [Next]_vars
             PROVE  \A d \in BagToSet(events') : Shaped(d)
  BY DEF ShapeOK, Shaped
<1>0. \A e \in BagToSet(events) : e \in Event /\ Shaped(e)
  BY Taking DEF ShapeOK, Shaped
<1>a. ASSUME NEW e \in BagToSet(events), NEW S, EventSet(S), \A d \in S : Shaped(d),
             events' = Left(e) (+) SetToBag(S)
      PROVE  \A d \in BagToSet(events') : Shaped(d)
  BY <1>0, <1>a, Replacing DEF Becomes
<1>b. ASSUME NEW e \in BagToSet(events), events' = Left(e)
      PROVE  \A d \in BagToSet(events') : Shaped(d)
  BY <1>0, <1>b, Taking DEF Becomes
<1>t. \A t \in {"discover", "offer", "check", "request", "ack", "probe", "reply"} :
        t \in EventTypes
  BY DEF EventTypes
<1>1. ASSUME NEW e \in BagToSet(events), NEW a \in Addrs, Offer(e, a)
      PROVE  \A d \in BagToSet(events') : Shaped(d)
  <2> DEFINE m == Msg("offer", e.client, e.client, e.to, a, None)
  <2>1. e.to \in Servers /\ e.client \in Clients /\ e.client \in Hosts
    BY <1>0, <1>1, EventFields DEF Offer, Shaped
  <2>2. m \in Event /\ Shaped(m)
    BY <1>t, <2>1 DEF Msg, Event, Shaped
  <2>3. EventSet({m}) /\ events' = Left(e) (+) SetToBag({m})
    BY <1>1, <2>2 DEF Offer, EventSet
  <2> HIDE DEF m
  <2> QED
    BY <1>a, <2>2, <2>3
<1>2. ASSUME NEW e \in BagToSet(events),
             NoOffer(e) \/ NoHold(e) \/ HoldMissing(e) \/ ApplyConfig(e) \/ Lose(e)
      PROVE  \A d \in BagToSet(events') : Shaped(d)
  BY <1>b, <1>2 DEF NoOffer, NoHold, HoldMissing, ApplyConfig, Lose
<1>3. ASSUME NEW e \in BagToSet(events), ReceiveOffer(e)
      PROVE  \A d \in BagToSet(events') : Shaped(d)
  <2> DEFINE S == Probes(e.client, e.addr) \cup
                  {Msg("check", e.client, e.client, e.server, e.addr, None)}
  <2>1. /\ e.client \in Clients /\ e.client \in Hosts /\ e.addr \in Addrs
        /\ e.server \in Servers \cup {None}
        /\ addr[e.client] \in Addrs \cup {None}
    BY <1>0, <1>3, EventFields DEF TypeOK, ReceiveOffer, Shaped
  <2>2. \A h \in Hosts : Msg("probe", e.client, h, None, e.addr, addr[e.client]) \in Event
                          /\ Shaped(Msg("probe", e.client, h, None, e.addr, addr[e.client]))
    BY <1>t, <2>1 DEF Msg, Event, Shaped
  <2>3. /\ Msg("check", e.client, e.client, e.server, e.addr, None) \in Event
        /\ Shaped(Msg("check", e.client, e.client, e.server, e.addr, None))
    BY <1>t, <2>1 DEF Msg, Event, Shaped
  <2>4. EventSet(S) /\ \A d \in S : Shaped(d)
    BY <2>2, <2>3 DEF EventSet, Probes
  <2>5. events' = Left(e) (+) SetToBag(S)
    BY <1>3 DEF ReceiveOffer
  <2> HIDE DEF S
  <2> QED
    BY <1>a, <2>4, <2>5
<1>4. ASSUME NEW e \in BagToSet(events), ReceiveArp(e)
      PROVE  \A d \in BagToSet(events') : Shaped(d)
  <2> DEFINE m == Msg("reply", e.client, e.client, None, e.addr, e.addr)
  <2>1. /\ e.client \in Clients /\ e.client \in Hosts /\ e.addr \in Addrs
    BY <1>0, <1>4, EventFields DEF ReceiveArp, Shaped
  <2>2. m \in Event /\ Shaped(m)
    BY <1>t, <2>1 DEF Msg, Event, Shaped
  <2>3. EventSet(Answer(e)) /\ \A d \in Answer(e) : Shaped(d)
    BY <2>2 DEF EventSet, Answer
  <2> QED
    BY <1>a, <1>4, <2>3 DEF ReceiveArp
<1>5. ASSUME NEW e \in BagToSet(events), Check(e)
      PROVE  \A d \in BagToSet(events') : Shaped(d)
  <2>1. /\ e.client \in Clients /\ e.addr \in Addrs /\ e.server \in Servers \cup {None}
        /\ Servers \subseteq Hosts
    BY <1>0, <1>5, EventFields, HostsAssumption DEF Check, Hosts, Shaped
  <2>2. \A s \in Servers : /\ Msg("request", e.client, s, e.server, e.addr, None) \in Event
                           /\ Shaped(Msg("request", e.client, s, e.server, e.addr, None))
    BY <1>t, <2>1 DEF Msg, Event, Shaped
  <2>3. EventSet(Requests(e)) /\ \A d \in Requests(e) : Shaped(d)
    BY <2>2 DEF EventSet, Requests
  <2> QED
    BY <1>a, <1>b, <1>5, <2>3 DEF Check
<1>6. ASSUME NEW e \in BagToSet(events), BindAndAck(e)
      PROVE  \A d \in BagToSet(events') : Shaped(d)
  <2>1. /\ e.client \in Clients /\ e.client \in Hosts /\ e.to \in Servers
        /\ hold[e.to][e.client] \in Addrs
    <3>1. e.type = "request" /\ hold[e.to][e.client] # None
      BY <1>6 DEF BindAndAck
    <3>2. e.client \in Clients /\ e.client \in Hosts /\ e.to \in Servers
      BY <1>0, <3>1, EventFields DEF Shaped
    <3> QED
      BY <3>1, <3>2 DEF TypeOK
  <2>2. Ack(e) \in Event /\ Shaped(Ack(e))
    BY <1>t, <2>1 DEF Ack, Msg, Event, Shaped
  <2>3. EventSet({Ack(e)}) /\ \A d \in {Ack(e)} : Shaped(d)
    BY <2>2 DEF EventSet
  <2> QED
    BY <1>a, <1>6, <2>3 DEF BindAndAck
<1>7. ASSUME NEW c \in Clients, Start(c)
      PROVE  \A d \in BagToSet(events') : Shaped(d)
  <2>1. \A s \in Servers : /\ Msg("discover", c, s, None, None, None) \in Event
                           /\ Shaped(Msg("discover", c, s, None, None, None))
    BY <1>t, HostsAssumption DEF Msg, Event, Hosts, Shaped
  <2>2. EventSet(Discovers(c)) /\ \A d \in Discovers(c) : Shaped(d)
    BY <2>1 DEF EventSet, Discovers
  <2> QED
    BY <1>0, <1>7, <2>2, Adding DEF Start, Adds
<1>8. CASE UNCHANGED vars
  BY <1>0, <1>8 DEF vars
<1> QED
  BY <1>1, <1>2, <1>3, <1>4, <1>5, <1>6, <1>7, <1>8 DEF Next, Run, Handle

LEMMA TypeInit == Init => TypeOK /\ ShapeOK
<1> SUFFICES ASSUME Init PROVE TypeOK /\ ShapeOK
  OBVIOUS
<1>1. IsABag(EmptyBag) /\ BagToSet(EmptyBag) = {}
  BY DEF EmptyBag, SetToBag, IsABag, BagToSet
<1>2. IsQueue(events) /\ BagToSet(events) = {}
  BY <1>1 DEF Init, IsQueue
<1>3. starts \in [Clients -> Nat] /\ \A c \in Clients : starts[c] <= MaxStarts[c]
  BY BoundsAssumption DEF Init
<1>4. addr \in [Hosts -> Addrs \cup {None}]
  BY AddressAssumption DEF Init
<1>5. losses \in 0 .. MaxLosses
  BY BoundsAssumption DEF Init
<1> QED
  BY <1>2, <1>3, <1>4, <1>5 DEF Init, TypeOK, ShapeOK

(* With any number of servers, starts and losses, and whichever requests   *)
(* fail halfway: every message is for a host that handles it and names an  *)
(* address where the handlers read one (dhcp.py:80-160, 278-440), and the  *)
(* dictionaries of the servers hold clients and addresses.                 *)
THEOREM WellTyped == Spec => [](TypeOK /\ ShapeOK)
BY TypeInit, TypeStep, ShapeStep, PTL DEF Spec

-----------------------------------------------------------------------------
(***************************************************************************)
(* What the invariant says of one event, and of all of them.               *)
(***************************************************************************)
EventOK(e) ==
  /\ e.to \in (IF e.type \in {"discover", "request"} THEN Servers
               ELSE IF e.type = "probe" THEN Hosts ELSE {e.client})
  /\ e.type # "discover" => e.addr \in Addrs
  /\ e.type = "reply" => e.psrc = e.addr
  /\ \A s \in Servers :
       Own(e) =>
         /\ starts[e.client] > 0
         /\ addr[e.client] = None
         /\ hold[s][e.client] = IF e.type \in {"offer", "check", "request"} THEN e.addr ELSE None
         /\ leases[s][e.client] = IF e.type = "ack" THEN e.addr ELSE None
  /\ \A h \in Fixed : e.type \in {"request", "ack"} => e.addr # Static[h]

AllOK == \A e \in BagToSet(events) : EventOK(e)

LeaseStatic ==
  \A h \in Fixed, s \in Servers, c \in Clients : leases[s][c] # Static[h]

LEMMA AllEvents == ShapeOK /\ StageOK /\ StaticOK <=> AllOK /\ LeaseStatic
  BY DEF ShapeOK, StageOK, StaticOK, AllOK, EventOK, LeaseStatic

(* A step changes nothing of the clients other than c.                     *)
Others(c) ==
  \A x \in Clients : x # c =>
    /\ starts'[x] = starts[x]
    /\ addr'[x] = addr[x]
    /\ \A s \in Servers : hold'[s][x] = hold[s][x] /\ leases'[s][x] = leases[s][x]

LEMMA OthersKeep ==
  ASSUME NEW d \in Event, EventOK(d), NEW c, Others(c), Own(d) => d.client # c
  PROVE  EventOK(d)'
<1>1. d.client \in Clients
  BY EventFields
<1> QED
  BY <1>1 DEF Others, EventOK, Own

(* Handling the event of an exchange moves it on: the event it schedules,  *)
(* if any, takes its place.                                                *)
LEMMA OwnStep ==
  ASSUME TypeOK, OneEvent, AllOK,
         NEW e \in BagToSet(events), Own(e),
         NEW S, Becomes(e, S),
         \A x, y \in S : Own(x) /\ Own(y) => x = y,
         \A x \in S : Own(x) => x.client = e.client,
         \A x \in S : EventOK(x)',
         Others(e.client)
  PROVE  OneEvent' /\ AllOK'
<1>1. events[e] = 1
  BY DEF OneEvent
<1>2. ASSUME NEW d \in BagToSet(events'), d \notin S
      PROVE  /\ d \in BagToSet(events) /\ d # e /\ events'[d] = events[d]
             /\ Own(d) => d.client # e.client
  BY <1>1, <1>2 DEF Becomes, OneEvent
<1>3. ASSUME NEW d \in S, Own(d)
      PROVE  events'[d] = 1
  BY <1>1, <1>3 DEF Becomes, OneEvent
<1>4. OneEvent'
  BY <1>2, <1>3 DEF OneEvent
<1>5. ASSUME NEW d \in BagToSet(events')
      PROVE  EventOK(d)'
  BY <1>2, OthersKeep, Taking DEF AllOK
<1> QED
  BY <1>4, <1>5 DEF AllOK

(* Handling an ARP packet touches no exchange.                             *)
LEMMA ArpStep ==
  ASSUME TypeOK, OneEvent, AllOK,
         NEW e \in BagToSet(events), ~ Own(e),
         NEW S, Becomes(e, S),
         \A x \in S : ~ Own(x) /\ EventOK(x)',
         Others(None)
  PROVE  OneEvent' /\ AllOK'
<1>1. ASSUME NEW d \in BagToSet(events'), Own(d)
      PROVE  d \in BagToSet(events) /\ events'[d] = events[d]
  BY <1>1 DEF Becomes
<1>2. OneEvent'
  BY <1>1 DEF OneEvent
<1>3. ASSUME NEW d \in BagToSet(events')
      PROVE  EventOK(d)'
  <2>1. CASE d \in S
    BY <2>1
  <2>2. CASE d \in BagToSet(events)
    <3>1. d \in Event /\ EventOK(d) /\ d.client # None
      BY <2>2, Taking, EventFields, HostsAssumption DEF AllOK, Hosts
    <3> QED
      BY <3>1, OthersKeep
  <2> QED
    BY <2>1, <2>2 DEF Becomes
<1> QED
  BY <1>2, <1>3 DEF AllOK

(* Starting a client that has no exchange begins one.                      *)
LEMMA StartStep ==
  ASSUME TypeOK, OneEvent, AllOK, NEW c \in Clients,
         NEW S, Adds(S),
         \A d \in BagToSet(events) : Own(d) => d.client # c,
         \A x, y \in S : x = y,
         \A x \in S : x.client = c /\ Own(x) /\ EventOK(x)',
         Others(c)
  PROVE  OneEvent' /\ AllOK'
<1>1. ASSUME NEW d \in S
      PROVE  events'[d] = 1
  BY <1>1 DEF Adds
<1>2. ASSUME NEW d \in BagToSet(events'), d \notin S
      PROVE  d \in BagToSet(events) /\ events'[d] = events[d]
  BY <1>2 DEF Adds
<1>3. OneEvent'
  BY <1>1, <1>2 DEF OneEvent
<1>4. ASSUME NEW d \in BagToSet(events')
      PROVE  EventOK(d)'
  BY <1>2, OthersKeep, Taking DEF AllOK
<1> QED
  BY <1>3, <1>4 DEF AllOK

-----------------------------------------------------------------------------
(***************************************************************************)
(* The invariant, regrouped.                                               *)
(***************************************************************************)
PoolInv == ViewsAgree /\ HoldOK /\ AddrOK /\ LeaseStatic

LEMMA Regroup == IInv <=> TypeOK /\ PoolInv /\ OneEvent /\ AllOK /\ ProbeOK
  BY AllEvents DEF IInv, PoolInv

LEMMA Ungroup == (TypeOK /\ PoolInv /\ OneEvent /\ AllOK /\ ProbeOK)' => IInv'
  BY DEF IInv, PoolInv, ShapeOK, StageOK, StaticOK, AllOK, EventOK, LeaseStatic

(* A step that touches neither the server nor the addresses.               *)
LEMMA PoolSame ==
  ASSUME PoolInv, UNCHANGED <<addr, held, hold, leases, leased>>,
         \A c \in Clients : starts'[c] = 0 => starts[c] = 0
  PROVE  PoolInv'
  BY DEF PoolInv, ViewsAgree, HoldOK, AddrOK, LeaseStatic

(* A step that handles no ARP packet and schedules no check.               *)
LEMMA ProbeSame ==
  ASSUME ProbeOK, NEW e \in BagToSet(events), NEW S, Becomes(e, S),
         Own(e), \A x \in S : x.type # "check", cache' = cache
  PROVE  ProbeOK'
<1> SUFFICES ASSUME ProbesWork, NEW d \in BagToSet(events'), NEW h \in Fixed,
                    d.type = "check", d.addr = Static[h]
             PROVE  Probed(d, h)'
  BY DEF ProbeOK, ProbesWork
<1>1. d \in BagToSet(events)
  BY DEF Becomes
<1>2. Probed(d, h)
  BY <1>1 DEF ProbeOK
<1> QED
  BY <1>2 DEF Probed, Becomes, Own

(* What the invariant says when the event of an exchange is handled.       *)
LEMMA Handling ==
  ASSUME IInv, NEW e \in BagToSet(events)
  PROVE  /\ e \in Event /\ e.client \in Clients /\ e.client \in Hosts /\ e.to \in Hosts
         /\ EventOK(e)
         /\ TypeOK /\ PoolInv /\ OneEvent /\ AllOK /\ ProbeOK
  BY Regroup, Taking, EventFields DEF AllOK

(* _find_addres_for_offer finds a free address for a client with no lease, *)
(* and offer holds it.                                                     *)
LEMMA OfferStep ==
  ASSUME IInv, NEW s, Servers = {s},
         NEW e \in BagToSet(events), NEW a \in Addrs, Offer(e, a)
  PROVE  IInv'
<1> DEFINE c == e.client
           m == Msg("offer", c, c, s, a, None)
<1>1. /\ e \in Event /\ c \in Clients /\ c \in Hosts /\ EventOK(e)
      /\ TypeOK /\ PoolInv /\ OneEvent /\ AllOK /\ ProbeOK
      /\ e.to = s /\ Own(e)
      /\ starts[c] > 0 /\ addr[c] = None /\ hold[s][c] = None /\ leases[s][c] = None
  BY Handling DEF Offer, EventOK, Own
<1>2. /\ a \in Pool[s] /\ held[s][a] = None /\ a \notin leased[s]
      /\ held' = [held EXCEPT ![s][a] = c]
      /\ hold' = [hold EXCEPT ![s][c] = a]
      /\ events' = Left(e) (+) SetToBag({m})
      /\ UNCHANGED <<starts, addr, cache, leases, leased, losses>>
  BY <1>1 DEF Offer, Hold, ForOffer, Free
<1>3. /\ m \in Event /\ m.type = "offer" /\ m.client = c /\ m.to = c /\ m.addr = a
  BY <1>1 DEF Msg, Event, EventTypes
<1> HIDE DEF m, c
<1>4. Becomes(e, {m})
  BY <1>1, <1>2, <1>3, Replacing DEF EventSet
<1>5. TypeOK'
  BY <1>1, TypeStep, AllEvents DEF Next, Run, Handle, PoolInv
<1>6. hold'[s][c] = a /\ \A x \in Clients : x # c => hold'[s][x] = hold[s][x]
  BY <1>1, <1>2 DEF TypeOK
<1>7. held'[s][a] = c /\ \A b \in Addrs : b # a => held'[s][b] = held[s][b]
  BY <1>1, <1>2 DEF TypeOK
<1>8. Others(c)
  BY <1>2, <1>6 DEF Others
<1>9. EventOK(m)'
  BY <1>1, <1>2, <1>3, <1>6 DEF EventOK, Own
<1>10. OneEvent' /\ AllOK'
  BY <1>1, <1>3, <1>4, <1>8, <1>9, OwnStep DEF c
<1>11. PoolInv'
  <2> USE <1>1, <1>2, <1>6, <1>7
  <2>0. c # None /\ a # None /\ None \notin Clients
    BY HostsAssumption DEF Hosts
  <2>1. ViewsAgree'
    <3>1. ASSUME NEW x \in Clients
          PROVE  /\ hold'[s][x] # None => held'[s][hold'[s][x]] = x
                 /\ leases[s][x] # None => leases[s][x] \in leased[s]
      <4>1. CASE x = c
        BY <4>1 DEF PoolInv, ViewsAgree
      <4>2. CASE x # c
        <5>1. hold'[s][x] = hold[s][x] /\ hold[s][x] \in Addrs \cup {None}
          BY <3>1, <4>2 DEF TypeOK
        <5>2. hold[s][x] # None => held[s][hold[s][x]] = x
          BY <3>1 DEF PoolInv, ViewsAgree
        <5>3. leases[s][x] # None => leases[s][x] \in leased[s]
          BY <3>1 DEF PoolInv, ViewsAgree
        <5> QED
          BY <2>0, <3>1, <5>1, <5>2, <5>3
      <4> QED
        BY <4>1, <4>2
    <3>2. ASSUME NEW x \in Clients, NEW d \in Clients \ {x}, leases[s][x] # None
          PROVE  leases[s][d] # leases[s][x] /\ held'[s][leases[s][x]] # d
      BY <3>2 DEF PoolInv, ViewsAgree, TypeOK
    <3> QED
      BY <3>1, <3>2 DEF ViewsAgree
  <2>2. HoldOK'
    <3>1. ASSUME NEW x \in Clients
          PROVE  /\ starts[x] = 0 => hold'[s][x] = None /\ leases[s][x] = None
                 /\ hold'[s][x] # None => hold'[s][x] \in Pool[s] /\ leases[s][x] = None
      BY <3>1 DEF PoolInv, HoldOK
    <3>2. ASSUME NEW x \in Clients, NEW b \in Addrs, held'[s][b] = x
          PROVE  hold'[s][x] = b /\ b \notin leased[s]
      <4>1. CASE b = a
        BY <3>2, <4>1
      <4>2. CASE b # a
        <5>1. hold[s][x] = b /\ b \notin leased[s]
          BY <3>2, <4>2 DEF PoolInv, HoldOK
        <5> QED
          BY <3>2, <5>1, HostsAssumption
      <4> QED
        BY <4>1, <4>2
    <3> QED
      BY <3>1, <3>2 DEF HoldOK
  <2>3. AddrOK' /\ LeaseStatic'
    BY DEF PoolInv, AddrOK, LeaseStatic
  <2> QED
    BY <2>1, <2>2, <2>3 DEF PoolInv
<1>12. ProbeOK'
  BY <1>1, <1>2, <1>3, <1>4, ProbeSame
<1> QED
  BY <1>5, <1>10, <1>11, <1>12, Ungroup

(* No address to offer, no hold for the request, or the message is lost.   *)
LEMMA QuietStep ==
  ASSUME IInv, NEW e \in BagToSet(events),
         NoOffer(e) \/ NoHold(e) \/ Lose(e)
  PROVE  IInv'
<1>1. /\ EventOK(e)
      /\ TypeOK /\ PoolInv /\ OneEvent /\ AllOK /\ ProbeOK
  BY Handling
<1>2. /\ events' = Left(e)
      /\ UNCHANGED <<starts, addr, cache, held, hold, leases, leased>>
  BY DEF NoOffer, NoHold, Lose
<1>3. Becomes(e, {})
  BY <1>1, <1>2, Taking
<1>4. TypeOK'
  BY <1>1, TypeStep, AllEvents DEF Next, Run, Handle, PoolInv
<1>5. Others(e.client) /\ Others(None)
  BY <1>2 DEF Others
<1>6. OneEvent' /\ AllOK'
  BY <1>1, <1>3, <1>5, OwnStep, ArpStep
<1>7. PoolInv'
  BY <1>1, <1>2, PoolSame
<1>8. ProbeOK'
  <2>1. CASE Own(e)
    BY <1>1, <1>2, <1>3, <2>1, ProbeSame
  <2>2. CASE ~ Own(e)
    <3>1. losses < MaxLosses /\ losses \in 0 .. MaxLosses
      BY <1>1, <2>2 DEF NoOffer, NoHold, Lose, Own, TypeOK
    <3>2. ~ ProbesWork
      BY <3>1, BoundsAssumption DEF ProbesWork
    <3> QED
      BY <3>2 DEF ProbeOK, ProbesWork
  <2> QED
    BY <2>1, <2>2
<1> QED
  BY <1>4, <1>6, <1>7, <1>8, Ungroup

(* The client probes the address it was offered and schedules its check.   *)
LEMMA ReceiveOfferStep ==
  ASSUME IInv, NEW e \in BagToSet(events), ReceiveOffer(e)
  PROVE  IInv'
<1> DEFINE c == e.client
           m == Msg("check", c, c, e.server, e.addr, None)
           S == Probes(c, e.addr) \cup {m}
<1>1. /\ e \in Event /\ c \in Clients /\ c \in Hosts /\ EventOK(e)
      /\ TypeOK /\ PoolInv /\ OneEvent /\ AllOK /\ ProbeOK
      /\ e.type = "offer" /\ e.addr \in Addrs /\ Own(e)
      /\ e.server \in Servers \cup {None}
      /\ addr[c] \in Addrs \cup {None}
  BY Handling, EventFields DEF ReceiveOffer, EventOK, Own, TypeOK
<1>2. /\ events' = Left(e) (+) SetToBag(S)
      /\ UNCHANGED <<starts, addr, cache, held, hold, leases, leased, losses>>
  BY DEF ReceiveOffer
<1>3. /\ m \in Event /\ m.type = "check" /\ m.client = c /\ m.to = c /\ m.addr = e.addr
  BY <1>1 DEF Msg, Event, EventTypes
<1>4. ASSUME NEW x \in Probes(c, e.addr)
      PROVE  /\ x \in Event /\ x.type = "probe" /\ x.client = c /\ x.addr = e.addr
             /\ x.to \in Hosts
  BY <1>1 DEF Probes, Msg, Event, EventTypes
<1>5. ASSUME NEW h \in Fixed
      PROVE  \E x \in Probes(c, e.addr) : x.to = h
  <2>1. h \in Hosts \ {c}
    BY <1>1, HostsAssumption DEF Hosts
  <2> DEFINE x == Msg("probe", c, h, None, e.addr, addr[c])
  <2>2. x \in Probes(c, e.addr)
    BY <2>1 DEF Probes
  <2>3. x.to = h
    BY DEF Msg
  <2> QED
    BY <2>2, <2>3
<1>6. EventSet(S)
  BY <1>3, <1>4 DEF EventSet
<1>7. Becomes(e, S)
  BY <1>1, <1>2, <1>6, Replacing
<1>8. TypeOK'
  BY <1>1, TypeStep, AllEvents DEF Next, Run, Handle, PoolInv
<1>9. Others(c)
  BY <1>2 DEF Others
<1>10. \A x \in S : EventOK(x)'
  BY <1>1, <1>2, <1>3, <1>4 DEF EventOK, Own
<1>11. \A x \in S : Own(x) => x = m /\ x.client = c
  BY <1>3, <1>4 DEF Own
<1>12. OneEvent' /\ AllOK'
  <2> HIDE DEF S, m
  <2> QED
    BY <1>1, <1>7, <1>9, <1>10, <1>11, OwnStep DEF c
<1>13. PoolInv'
  BY <1>1, <1>2, PoolSame
<1>14. ProbeOK'
  <2> SUFFICES ASSUME ProbesWork, NEW d \in BagToSet(events'), NEW h \in Fixed,
                      d.type = "check", d.addr = Static[h]
               PROVE  Probed(d, h)'
    BY DEF ProbeOK, ProbesWork
  <2>1. CASE d \in BagToSet(events)
    <3>1. Probed(d, h)
      BY <1>1, <2>1 DEF ProbeOK
    <3> QED
      BY <1>1, <1>2, <1>7, <3>1 DEF Probed, Becomes
  <2>2. CASE d \in S
    <3>1. d.client = c /\ d.addr = e.addr
      BY <1>3, <1>4, <2>2
    <3>2. PICK x \in Probes(c, e.addr) : x.to = h
      BY <1>5
    <3>3. x \in BagToSet(events')
      BY <1>7, <3>2 DEF Becomes
    <3> QED
      BY <1>4, <3>1, <3>2, <3>3 DEF Probed
  <2> QED
    BY <1>7, <2>1, <2>2 DEF Becomes
<1> QED
  BY <1>8, <1>12, <1>13, <1>14, Ungroup

(* A host that owns the probed address answers, and the client caches it.  *)
LEMMA ReceiveArpStep ==
  ASSUME IInv, NEW e \in BagToSet(events), ReceiveArp(e)
  PROVE  IInv'
<1> DEFINE r == Msg("reply", e.client, e.client, None, e.addr, e.addr)
<1>1. /\ e \in Event /\ e.client \in Clients /\ e.client \in Hosts /\ EventOK(e)
      /\ e.to \in Hosts /\ e.psrc \in Addrs \cup {None}
      /\ TypeOK /\ PoolInv /\ OneEvent /\ AllOK /\ ProbeOK
      /\ e.type \in {"probe", "reply"} /\ e.addr \in Addrs /\ ~ Own(e)
      /\ e.type = "reply" => e.psrc = e.addr /\ e.to = e.client
  BY Handling, EventFields DEF ReceiveArp, EventOK, Own
<1>2. /\ events' = Left(e) (+) SetToBag(Answer(e))
      /\ cache' = [cache EXCEPT ![e.to] = @ \cup {e.psrc}]
      /\ UNCHANGED <<starts, addr, held, hold, leases, leased, losses>>
  BY DEF ReceiveArp
<1>3. /\ r \in Event /\ r.type = "reply" /\ r.client = e.client /\ r.to = e.client
      /\ r.addr = e.addr /\ r.psrc = e.addr
  BY <1>1 DEF Msg, Event, EventTypes
<1>4. /\ Answer(e) \subseteq {r}
      /\ e.type = "probe" /\ addr[e.to] = e.addr => r \in Answer(e)
  BY DEF Answer
<1> HIDE DEF r
<1>5. Becomes(e, Answer(e))
  BY <1>1, <1>2, <1>3, <1>4, Replacing DEF EventSet
<1>6. TypeOK'
  BY <1>1, TypeStep, AllEvents DEF Next, Run, Handle, PoolInv
<1>7. \A x \in Answer(e) : ~ Own(x) /\ EventOK(x)'
  BY <1>1, <1>3, <1>4 DEF EventOK, Own
<1>8. Others(None)
  BY <1>2 DEF Others
<1>9. OneEvent' /\ AllOK'
  BY <1>1, <1>5, <1>7, <1>8, ArpStep
<1>10. PoolInv'
  BY <1>1, <1>2, PoolSame
<1>11. \A x \in Hosts : cache[x] \subseteq cache'[x]
  BY <1>1, <1>2 DEF TypeOK
<1>12. ProbeOK'
  <2> SUFFICES ASSUME ProbesWork, NEW d \in BagToSet(events'), NEW h \in Fixed,
                      d.type = "check", d.addr = Static[h]
               PROVE  Probed(d, h)'
    BY DEF ProbeOK, ProbesWork
  <2>1. d \in BagToSet(events) /\ d.client \in Hosts
    BY <1>1, <1>3, <1>4, <1>5, Taking, EventFields DEF Becomes
  <2>2. Probed(d, h)
    BY <1>1, <2>1 DEF ProbeOK
  <2>3. CASE d.addr \in cache[d.client]
    BY <1>11, <2>1, <2>3 DEF Probed
  <2>4. ASSUME NEW x \in BagToSet(events), x.type \in {"probe", "reply"},
               x.client = d.client, x.addr = d.addr, x.type = "probe" => x.to = h
        PROVE  Probed(d, h)'
    <3>1. CASE x # e
      BY <1>5, <2>4, <3>1 DEF Becomes, Probed
    <3>2. CASE x = e /\ e.type = "probe"
      <4>1. addr[e.to] = e.addr
        BY <1>1, <2>4, <3>2 DEF PoolInv, AddrOK
      <4>2. r \in BagToSet(events')
        BY <1>4, <1>5, <3>2, <4>1 DEF Becomes
      <4> QED
        BY <1>3, <2>4, <3>2, <4>2 DEF Probed
    <3>3. CASE x = e /\ e.type = "reply"
      <4>1. d.addr \in cache'[d.client]
        BY <1>1, <1>2, <2>4, <3>3, HostsAssumption DEF TypeOK
      <4> QED
        BY <4>1 DEF Probed
    <3> QED
      BY <2>4, <3>1, <3>2, <3>3
  <2> QED
    BY <2>2, <2>3, <2>4 DEF Probed
<1> QED
  BY <1>6, <1>9, <1>10, <1>12, Ungroup

(* An address set by hand is never requested: it is in no lease range, or  *)
(* its owner answered before the check.                                    *)
LEMMA CheckStep ==
  ASSUME IInv, PoolsFree \/ ProbesWork, NEW s, Servers = {s},
         NEW e \in BagToSet(events), Check(e)
  PROVE  IInv'
<1> DEFINE c == e.client
           m == Msg("request", c, s, e.server, e.addr, None)
<1>1. /\ e \in Event /\ c \in Clients /\ EventOK(e)
      /\ TypeOK /\ PoolInv /\ OneEvent /\ AllOK /\ ProbeOK
      /\ e.type = "check" /\ e.to = c /\ e.addr \in Addrs /\ Own(e) /\ Settled(e)
      /\ e.server \in Servers \cup {None}
      /\ starts[c] > 0 /\ addr[c] = None /\ hold[s][c] = e.addr /\ leases[s][c] = None
  BY Handling, EventFields DEF Check, EventOK, Own
<1>2. /\ events' = IF e.addr \in cache[c] THEN Left(e) ELSE Left(e) (+) SetToBag({m})
      /\ UNCHANGED <<starts, addr, cache, held, hold, leases, leased, losses>>
  BY <1>1 DEF Check, InUse, Requests
<1>3. /\ m \in Event /\ m.type = "request" /\ m.client = c /\ m.to = s /\ m.addr = e.addr
  BY <1>1, HostsAssumption DEF Msg, Event, EventTypes, Hosts
<1>4. ASSUME e.addr \notin cache[c], NEW h \in Fixed
      PROVE  e.addr # Static[h]
  <2>1. CASE PoolsFree
    <3>1. e.addr \in Pool[s]
      BY <1>1, HostsAssumption DEF PoolInv, HoldOK
    <3> QED
      BY <2>1, <3>1 DEF PoolsFree
  <2>2. CASE ProbesWork
    BY <1>1, <1>4, <2>2 DEF ProbeOK, Probed, Settled, ProbesWork
  <2> QED
    BY <2>1, <2>2
<1>5. TypeOK'
  BY <1>1, TypeStep, AllEvents DEF Next, Run, Handle, PoolInv
<1>6. Others(c)
  BY <1>2 DEF Others
<1>7. PoolInv'
  BY <1>1, <1>2, PoolSame
<1>8. OneEvent' /\ AllOK' /\ ProbeOK'
  <2>1. CASE e.addr \in cache[c]
    <3>1. Becomes(e, {})
      BY <1>1, <1>2, <2>1, Taking
    <3> QED
      BY <1>1, <1>2, <1>6, <3>1, OwnStep, ProbeSame
  <2>2. CASE e.addr \notin cache[c]
    <3>1. EventOK(m)'
      BY <1>1, <1>2, <1>3, <1>4, <2>2 DEF EventOK, Own
    <3> HIDE DEF m, c
    <3>2. Becomes(e, {m})
      BY <1>1, <1>2, <1>3, <2>2, Replacing DEF EventSet
    <3>3. OneEvent' /\ AllOK'
      BY <1>1, <1>3, <1>6, <3>1, <3>2, OwnStep DEF c
    <3>4. ProbeOK'
      BY <1>1, <1>2, <1>3, <3>2, ProbeSame
    <3> QED
      BY <3>3, <3>4
  <2> QED
    BY <2>1, <2>2
<1> QED
  BY <1>5, <1>7, <1>8, Ungroup

(* bind_and_ack leases the address it held for the client.                 *)
LEMMA BindStep ==
  ASSUME IInv, NEW s, Servers = {s},
         NEW e \in BagToSet(events), BindAndAck(e)
  PROVE  IInv'
<1> DEFINE c == e.client
           a == e.addr
           m == Msg("ack", c, c, s, a, None)
<1>1. /\ e \in Event /\ c \in Clients /\ c \in Hosts /\ EventOK(e)
      /\ TypeOK /\ PoolInv /\ OneEvent /\ AllOK /\ ProbeOK
      /\ e.type = "request" /\ e.to = s /\ a \in Addrs /\ Own(e)
      /\ \A h \in Fixed : a # Static[h]
      /\ starts[c] > 0 /\ addr[c] = None /\ hold[s][c] = a /\ leases[s][c] = None
  BY Handling DEF BindAndAck, EventOK, Own
<1>2. /\ held' = [held EXCEPT ![s][a] = None]
      /\ hold' = [hold EXCEPT ![s][c] = None]
      /\ leases' = [leases EXCEPT ![s][c] = a]
      /\ leased' = [leased EXCEPT ![s] = @ \cup {a}]
      /\ events' = Left(e) (+) SetToBag({m})
      /\ UNCHANGED <<starts, addr, cache, losses>>
  BY <1>1 DEF BindAndAck, Release, Lease, Ack
<1>3. /\ m \in Event /\ m.type = "ack" /\ m.client = c /\ m.to = c /\ m.addr = a
  BY <1>1, HostsAssumption DEF Msg, Event, EventTypes
<1> HIDE DEF m, c, a
<1>4. Becomes(e, {m})
  BY <1>1, <1>2, <1>3, Replacing DEF EventSet
<1>5. TypeOK'
  BY <1>1, TypeStep, AllEvents DEF Next, Run, Handle, PoolInv
<1>6. /\ hold'[s][c] = None /\ leases'[s][c] = a
      /\ \A x \in Clients : x # c => hold'[s][x] = hold[s][x] /\ leases'[s][x] = leases[s][x]
  BY <1>1, <1>2 DEF TypeOK
<1>7. held'[s][a] = None /\ \A b \in Addrs : b # a => held'[s][b] = held[s][b]
  BY <1>1, <1>2 DEF TypeOK
<1>8. leased'[s] = leased[s] \cup {a}
  BY <1>1, <1>2 DEF TypeOK
<1>9. Others(c)
  BY <1>1, <1>2, <1>6 DEF Others
<1>10. EventOK(m)'
  <2>1. /\ starts'[c] > 0 /\ addr'[c] = None
        /\ hold'[s][c] = None /\ leases'[s][c] = a
        /\ a \in Addrs /\ \A h \in Fixed : a # Static[h]
    BY <1>1, <1>2, <1>6
  <2> QED
    BY <1>3, <2>1 DEF EventOK, Own
<1>11. OneEvent' /\ AllOK'
  <2>1. /\ TypeOK /\ OneEvent /\ AllOK /\ Own(e) /\ Others(e.client)
        /\ \A x, y \in {m} : Own(x) /\ Own(y) => x = y
        /\ \A x \in {m} : x.client = e.client /\ EventOK(x)'
    BY <1>1, <1>3, <1>9, <1>10 DEF c
  <2> QED
    BY <1>4, <2>1, OwnStep
<1>12. None \notin Addrs /\ None \notin Clients
  BY HostsAssumption DEF Hosts
<1>13. /\ held[s][a] = c /\ a \notin leased[s]
  BY <1>1, <1>12 DEF PoolInv, ViewsAgree, HoldOK
<1>14. PoolInv'
  <2>1. ViewsAgree'
    <3>1. ASSUME NEW x \in Clients, hold'[s][x] # None
          PROVE  held'[s][hold'[s][x]] = x
      <4>1. x # c /\ hold[s][x] = hold'[s][x] /\ hold[s][x] \in Addrs
        BY <1>1, <1>6, <3>1 DEF TypeOK
      <4>2. held[s][hold[s][x]] = x
        BY <1>1, <3>1, <4>1 DEF PoolInv, ViewsAgree
      <4> QED
        BY <1>7, <1>13, <4>1, <4>2
    <3>2. ASSUME NEW x \in Clients, leases'[s][x] # None
          PROVE  leases'[s][x] \in leased'[s]
      BY <1>1, <1>6, <1>8, <3>2 DEF PoolInv, ViewsAgree
    <3>3. \A x \in Clients : leases[s][x] # None => leases[s][x] \in leased[s]
      BY <1>1 DEF PoolInv, ViewsAgree
    <3>4. ASSUME NEW x \in Clients, NEW d \in Clients \ {x}, leases'[s][x] # None
          PROVE  leases'[s][d] # leases'[s][x] /\ held'[s][leases'[s][x]] # d
      <4>1. CASE x = c
        BY <1>1, <1>6, <1>7, <1>12, <1>13, <3>3, <3>4, <4>1
      <4>2. CASE x # c
        <5>1. leases'[s][x] = leases[s][x] /\ leases[s][x] \in Addrs /\ leases[s][x] # a
          BY <1>1, <1>6, <1>13, <3>3, <3>4, <4>2 DEF TypeOK
        <5>2. leases[s][d] # leases[s][x] /\ held[s][leases[s][x]] # d
          BY <1>1, <3>4, <5>1 DEF PoolInv, ViewsAgree
        <5> QED
          BY <1>6, <1>7, <5>1, <5>2
      <4> QED
        BY <4>1, <4>2
    <3> QED
      BY <1>1, <3>1, <3>2, <3>4 DEF ViewsAgree
  <2>2. HoldOK'
    <3>1. ASSUME NEW x \in Clients
          PROVE  /\ starts[x] = 0 => hold'[s][x] = None /\ leases'[s][x] = None
                 /\ hold'[s][x] # None => hold'[s][x] \in Pool[s] /\ leases'[s][x] = None
      BY <1>1, <1>6, <3>1 DEF PoolInv, HoldOK
    <3>2. ASSUME NEW x \in Clients, NEW b \in Addrs, held'[s][b] = x
          PROVE  hold'[s][x] = b /\ b \notin leased'[s]
      <4>1. b # a /\ held[s][b] = x
        BY <1>7, <1>12, <3>2
      <4>2. hold[s][x] = b /\ b \notin leased[s]
        BY <1>1, <4>1 DEF PoolInv, HoldOK
      <4> QED
        BY <1>1, <1>6, <1>8, <4>1, <4>2
    <3> QED
      BY <1>1, <1>2, <3>1, <3>2 DEF HoldOK
  <2>3. AddrOK' /\ LeaseStatic'
    BY <1>1, <1>2, <1>6 DEF PoolInv, AddrOK, LeaseStatic
  <2> QED
    BY <2>1, <2>2, <2>3 DEF PoolInv
<1>15. ProbeOK'
  BY <1>1, <1>2, <1>3, <1>4, ProbeSame
<1> QED
  BY <1>5, <1>11, <1>14, <1>15, Ungroup

(* The client configures the address of its lease.                         *)
LEMMA ApplyStep ==
  ASSUME IInv, NEW s, Servers = {s},
         NEW e \in BagToSet(events), ApplyConfig(e)
  PROVE  IInv'
<1> DEFINE c == e.client
<1>1. /\ e \in Event /\ c \in Clients /\ c \in Hosts /\ EventOK(e)
      /\ TypeOK /\ PoolInv /\ OneEvent /\ AllOK /\ ProbeOK
      /\ e.type = "ack" /\ e.addr \in Addrs /\ Own(e)
      /\ addr[c] = None /\ leases[s][c] = e.addr
  BY Handling DEF ApplyConfig, EventOK, Own
<1>2. /\ addr' = [addr EXCEPT ![c] = e.addr]
      /\ events' = Left(e)
      /\ UNCHANGED <<starts, cache, held, hold, leases, leased, losses>>
  BY DEF ApplyConfig
<1>3. Becomes(e, {})
  BY <1>1, <1>2, Taking
<1>4. TypeOK'
  BY <1>1, TypeStep, AllEvents DEF Next, Run, Handle, PoolInv
<1>5. addr'[c] = e.addr /\ \A h \in Hosts : h # c => addr'[h] = addr[h]
  BY <1>1, <1>2 DEF TypeOK
<1>6. Others(c)
  BY <1>2, <1>5 DEF Others, Hosts
<1>7. OneEvent' /\ AllOK'
  BY <1>1, <1>3, <1>6, OwnStep
<1>8. AddrOK'
  BY <1>1, <1>2, <1>5, HostsAssumption DEF PoolInv, AddrOK, Hosts
<1>9. PoolInv'
  BY <1>1, <1>2, <1>8 DEF PoolInv, ViewsAgree, HoldOK, LeaseStatic
<1>10. ProbeOK'
  BY <1>1, <1>2, <1>3, ProbeSame
<1> QED
  BY <1>4, <1>7, <1>9, <1>10, Ungroup

(* A client that starts for the first time has no exchange under way.      *)
LEMMA FirstStart ==
  ASSUME IInv, NEW s, Servers = {s}, StartOnce,
         NEW c \in Clients, Start(c)
  PROVE  IInv'
<1> DEFINE m == Msg("discover", c, s, None, None, None)
<1>1. /\ TypeOK /\ PoolInv /\ OneEvent /\ AllOK /\ ProbeOK /\ c \in Hosts
  BY Regroup DEF Hosts
<1>2. /\ events' = events (+) SetToBag({m})
      /\ starts' = [starts EXCEPT ![c] = @ + 1]
      /\ UNCHANGED <<addr, cache, held, hold, leases, leased, losses>>
  BY DEF Start, Discovers
<1>3. /\ m \in Event /\ m.type = "discover" /\ m.client = c /\ m.to = s
  BY HostsAssumption DEF Msg, Event, EventTypes, Hosts
<1> HIDE DEF m
<1>4. starts[c] = 0
  BY <1>1 DEF Start, TypeOK, StartOnce
<1>5. /\ hold[s][c] = None /\ leases[s][c] = None /\ addr[c] = None
  BY <1>1, <1>4 DEF PoolInv, HoldOK, AddrOK
<1>6. Adds({m})
  BY <1>1, <1>2, <1>3, Adding DEF EventSet
<1>7. \A d \in BagToSet(events) : Own(d) => d.client # c
  <2> SUFFICES ASSUME NEW d \in BagToSet(events), Own(d)
               PROVE  d.client # c
    OBVIOUS
  <2>1. EventOK(d)
    BY <1>1 DEF AllOK
  <2>2. starts[d.client] > 0
    BY <2>1 DEF EventOK
  <2> QED
    BY <1>4, <2>2
<1>8. starts'[c] = 1 /\ \A x \in Clients : x # c => starts'[x] = starts[x]
  BY <1>1, <1>2, <1>4 DEF TypeOK
<1>9. EventOK(m)'
  BY <1>2, <1>3, <1>5, <1>8 DEF EventOK, Own
<1>10. Others(c)
  BY <1>2, <1>8 DEF Others
<1>11. OneEvent' /\ AllOK'
  BY <1>1, <1>3, <1>6, <1>7, <1>9, <1>10, StartStep DEF Own
<1>12. TypeOK'
  BY <1>1, TypeStep, AllEvents DEF Next, PoolInv
<1>13. PoolInv'
  BY <1>1, <1>2, <1>8, PoolSame
<1>14. ProbeOK'
  <2> SUFFICES ASSUME ProbesWork, NEW d \in BagToSet(events'), NEW h \in Fixed,
                      d.type = "check", d.addr = Static[h]
               PROVE  Probed(d, h)'
    BY DEF ProbeOK, ProbesWork
  <2>1. d \in BagToSet(events)
    BY <1>3, <1>6 DEF Adds
  <2>2. Probed(d, h)
    BY <1>1, <2>1 DEF ProbeOK
  <2> QED
    BY <1>2, <1>6, <2>2 DEF Probed, Adds
<1> QED
  BY <1>11, <1>12, <1>13, <1>14, Ungroup

(* A hold by client has its hold by address.                               *)
LEMMA NeverMissing ==
  ASSUME IInv, NEW e \in BagToSet(events)
  PROVE  ~ DeletionFails(e)
<1> SUFFICES ASSUME DeletionFails(e)
             PROVE  FALSE
  OBVIOUS
<1>1. e.type = "request" /\ hold[e.to][e.client] # None
  BY DEF DeletionFails
<1>2. e.to \in Servers /\ e.client \in Clients
  BY <1>1, Handling, EventFields DEF IInv, ShapeOK
<1>3. held[e.to][hold[e.to][e.client]] = e.client
  BY <1>1, <1>2 DEF IInv, ViewsAgree
<1>4. e.client # None
  BY <1>2, HostsAssumption DEF Hosts
<1> QED
  BY <1>3, <1>4 DEF DeletionFails

-----------------------------------------------------------------------------
LEMMA InitInv == Init => IInv
<1> SUFFICES ASSUME Init
             PROVE  IInv
  OBVIOUS
<1>1. IsABag(EmptyBag) /\ BagToSet(EmptyBag) = {}
  BY DEF EmptyBag, SetToBag, IsABag, BagToSet
<1>2. IsQueue(events) /\ BagToSet(events) = {}
  BY <1>1 DEF Init, IsQueue
<1>3. addr = [h \in Hosts |-> IF h \in Fixed THEN Static[h] ELSE None]
  BY DEF Init
<1>4. addr \in [Hosts -> Addrs \cup {None}]
  BY <1>3, AddressAssumption
<1>5. TypeOK
  BY <1>2, <1>4, BoundsAssumption DEF Init, TypeOK
<1>6. AddrOK
  BY <1>3, HostsAssumption DEF AddrOK, Hosts
<1>7. None \notin Clients /\ None \notin Addrs
  BY HostsAssumption DEF Hosts
<1>8. ViewsAgree /\ HoldOK
  BY <1>7 DEF Init, ViewsAgree, HoldOK
<1>9. OneEvent /\ ShapeOK /\ StageOK /\ ProbeOK
  BY <1>2 DEF OneEvent, ShapeOK, StageOK, ProbeOK
<1>10. StaticOK
  BY <1>2, <1>7, AddressAssumption DEF Init, StaticOK
<1> QED
  BY <1>5, <1>6, <1>8, <1>9, <1>10 DEF IInv

LEMMA Step ==
  ASSUME NEW s, Servers = {s}, StartOnce, PoolsFree \/ ProbesWork,
         IInv, [Next]_vars
  PROVE  IInv'
<1>1. CASE UNCHANGED vars
  <2> USE <1>1 DEF vars
  <2>1. TypeOK'
    BY TypeStep DEF IInv
  <2>2. (ViewsAgree /\ HoldOK /\ AddrOK)'
    BY DEF IInv, ViewsAgree, HoldOK, AddrOK
  <2>3. OneEvent' /\ ShapeOK' /\ StageOK'
    BY DEF IInv, OneEvent, ShapeOK, StageOK
  <2>4. ProbeOK'
    BY DEF IInv, ProbeOK, Probed, ProbesWork
  <2>5. StaticOK'
    BY DEF IInv, StaticOK
  <2> QED
    BY <2>1, <2>2, <2>3, <2>4, <2>5 DEF IInv
<1> QED
  BY <1>1, OfferStep, QuietStep, ReceiveOfferStep, ReceiveArpStep, CheckStep,
     BindStep, ApplyStep, FirstStart, NeverMissing DEF Next, Run, Handle, HoldMissing

(* The inductive invariant.                                                *)
LEMMA Invariance ==
  ASSUME NEW s, Servers = {s}, StartOnce, PoolsFree \/ ProbesWork
  PROVE  Spec => []IInv
<1>1. Init => IInv
  BY InitInv
<1>2. IInv /\ [Next]_vars => IInv'
  BY Step
<1> QED
  BY <1>1, <1>2, PTL DEF Spec

(* The invariant gives every host an address of its own.                   *)
LEMMA Unshared ==
  ASSUME IInv, NEW s, Servers = {s}
  PROVE  NoSharedAddress /\ AppliedIsLeased
<1>1. \A c \in Clients : addr[c] # None => leases[s][c] = addr[c]
  BY DEF IInv, AddrOK
<1>2. \A c, d \in Clients :
        d # c /\ leases[s][c] # None => leases[s][d] # leases[s][c]
  BY DEF IInv, ViewsAgree
<1>3. \A c \in Clients, h \in Fixed : leases[s][c] # addr[h]
  BY DEF IInv, AddrOK, StaticOK
<1>4. \A g, h \in Fixed : addr[g] = addr[h] => g = h
  BY AddressAssumption DEF IInv, AddrOK
<1>5. NoSharedAddress
  BY <1>1, <1>2, <1>3, <1>4 DEF NoSharedAddress, Hosts
<1> QED
  BY <1>1, <1>5 DEF AppliedIsLeased

(* One server never leads two hosts to one address, and never configures   *)
(* a client with an address it did not lease to it (dhcp.py:278-440), for  *)
(* clients that start once, whatever messages are lost or reordered, when  *)
(* its lease range holds no address set by hand; and when it does, if ARP  *)
(* probes are answered in time and never lost.                             *)
THEOREM AddressesUnique ==
  ASSUME NEW s, Servers = {s}, StartOnce, PoolsFree \/ ProbesWork
  PROVE  Spec => [](NoSharedAddress /\ AppliedIsLeased)
<1>1. IInv => NoSharedAddress /\ AppliedIsLeased
  BY Unshared
<1>2. Spec => []IInv
  BY Invariance
<1> QED
  BY <1>1, <1>2, PTL

(* The dictionaries of the server agree: no two clients are offered or     *)
(* leased one address, and clearing a hold cannot fail (dhcp.py:412-414).  *)
THEOREM ServerConsistent ==
  ASSUME NEW s, Servers = {s}, StartOnce, PoolsFree \/ ProbesWork
  PROVE  Spec => [](TypeOK /\ PoolConsistent /\ HoldsCleared)
<1>1. IInv => TypeOK /\ PoolConsistent /\ HoldsCleared
  BY NeverMissing DEF IInv, HoldsCleared, PoolConsistent
<1>2. Spec => []IInv
  BY Invariance
<1> QED
  BY <1>1, <1>2, PTL

-----------------------------------------------------------------------------
(***************************************************************************)
(* Dhcp implements AddressService: a REQUEST that is bound grants the      *)
(* address, an ACK that is applied configures it, and every other step     *)
(* leaves leases and addresses alone.                                      *)
(***************************************************************************)
LeaseBar == [c \in Clients |-> Leased(c)]
AddrBar  == [c \in Clients |-> addr[c]]

LEMMA ServiceStep ==
  ASSUME IInv, NEW s, Servers = {s}, [Next]_vars
  PROVE  [Service!Next]_<<LeaseBar, AddrBar>>
<1>1. ASSUME UNCHANGED <<leases, addr>>
      PROVE  [Service!Next]_<<LeaseBar, AddrBar>>
  BY <1>1 DEF LeaseBar, AddrBar, Leased
<1>2. ASSUME NEW e \in BagToSet(events), BindAndAck(e)
      PROVE  [Service!Next]_<<LeaseBar, AddrBar>>
  <2> DEFINE c == e.client
             a == e.addr
  <2>1. /\ c \in Clients /\ a \in Addrs /\ e.to = s /\ Own(e)
        /\ \A h \in Fixed : a # Static[h]
        /\ hold[s][c] = a /\ leases[s][c] = None
        /\ TypeOK /\ PoolInv
    BY <1>2, Handling DEF BindAndAck, EventOK, Own
  <2>2. leases' = [leases EXCEPT ![s][c] = a] /\ addr' = addr
    BY <1>2, <2>1 DEF BindAndAck, Lease
  <2>3. a # None
    BY <2>1, HostsAssumption
  <2> HIDE DEF c, a
  <2>4. a \notin leased[s]
    BY <2>1, <2>3 DEF PoolInv, ViewsAgree, HoldOK
  <2>5. \A d \in Clients : leases[s][d] # a
    BY <2>1, <2>3, <2>4 DEF PoolInv, ViewsAgree
  <2>6. \A d \in Clients : Leased(d) = {leases[s][d]} \ {None}
    BY DEF Leased
  <2>7. \A d \in Clients : Leased(d)' = {leases'[s][d]} \ {None}
    BY DEF Leased
  <2>8. /\ leases'[s][c] = a
        /\ \A d \in Clients : d # c => leases'[s][d] = leases[s][d]
    BY <2>1, <2>2 DEF TypeOK
  <2>9. /\ LeaseBar[c] = {}
        /\ a \notin {Static[h] : h \in Fixed}
        /\ \A d \in Clients : a \notin LeaseBar[d]
    BY <2>1, <2>5, <2>6 DEF LeaseBar
  <2>10. LeaseBar' = [LeaseBar EXCEPT ![c] = {a}]
    <3>1. \A d \in Clients : Leased(d)' = IF d = c THEN {a} ELSE Leased(d)
      BY <2>3, <2>6, <2>7, <2>8
    <3> QED
      BY <2>1, <3>1 DEF LeaseBar
  <2>11. AddrBar' = AddrBar
    BY <2>2 DEF AddrBar
  <2>12. Service!Grant(c, a)
    BY <2>9, <2>10, <2>11 DEF Service!Grant, LeaseBar, AddrBar
  <2> QED
    BY <2>1, <2>12 DEF Service!Next
<1>3. ASSUME NEW e \in BagToSet(events), ApplyConfig(e)
      PROVE  [Service!Next]_<<LeaseBar, AddrBar>>
  <2> DEFINE c == e.client
             a == e.addr
  <2>1. /\ c \in Clients /\ c \in Hosts /\ a \in Addrs /\ Own(e)
        /\ addr[c] = None /\ leases[s][c] = a
        /\ TypeOK
    BY <1>3, Handling DEF ApplyConfig, EventOK, Own
  <2>2. leases' = leases /\ addr' = [addr EXCEPT ![c] = a]
    BY <1>3 DEF ApplyConfig
  <2>3. a # None
    BY <2>1, HostsAssumption
  <2> HIDE DEF c, a
  <2>4. AddrBar[c] = None /\ a \in LeaseBar[c]
    BY <2>1, <2>3 DEF AddrBar, LeaseBar, Leased
  <2>5. \A d \in Clients : addr'[d] = IF d = c THEN a ELSE addr[d]
    BY <2>1, <2>2 DEF TypeOK, Hosts
  <2>6. AddrBar' = [AddrBar EXCEPT ![c] = a] /\ LeaseBar' = LeaseBar
    BY <2>1, <2>2, <2>5 DEF AddrBar, LeaseBar, Leased
  <2>7. Service!Configure(c, a)
    BY <2>4, <2>6 DEF Service!Configure, LeaseBar, AddrBar
  <2> QED
    BY <2>1, <2>7 DEF Service!Next
<1> QED
  BY <1>1, <1>2, <1>3
     DEF Next, Run, Handle, Offer, NoOffer, ReceiveOffer, ReceiveArp, Check,
         HoldMissing, NoHold, Lose, Start, vars

(* One server implements the abstract address service.                     *)
THEOREM ImplementsAddressService ==
  ASSUME NEW s, Servers = {s}, StartOnce, PoolsFree \/ ProbesWork
  PROVE  Spec => AddressServiceSpec
<1>1. Init => Service!Init
  BY HostsAssumption DEF Init, Service!Init, Leased, Hosts
<1>2. IInv /\ [Next]_vars => [Service!Next]_(Service!avars)
  BY ServiceStep DEF Service!avars, LeaseBar, AddrBar
<1>3. Spec => []IInv
  BY Invariance
<1> QED
  BY <1>1, <1>2, <1>3, PTL DEF Spec, AddressServiceSpec, Service!Spec
=============================================================================
