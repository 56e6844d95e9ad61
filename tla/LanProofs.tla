----------------------------- MODULE LanProofs -----------------------------
(***************************************************************************)
(* Proofs about Lan, for every set of hosts, every tree of switches, any   *)
(* number of exchanges and of link failures.                               *)
(***************************************************************************)
EXTENDS Lan, TLAPS

(* Sending adds one copy of each message and leaves the others alone.      *)
LEMMA BagAdd ==
  ASSUME NEW B, NEW S, IsABag(B),
         NEW A, A = B (+) SetToBag(S)
  PROVE  /\ \A e : e \in DOMAIN A <=> e \in DOMAIN B \/ e \in S
         /\ IsABag(A)
         /\ \A e \in DOMAIN A :
              /\ e \notin S => A[e] = B[e]
              /\ e \notin DOMAIN B => A[e] = 1
  BY DEF (+), SetToBag, IsABag

(* Receiving takes one copy of the message received and no other.          *)
LEMMA BagTake ==
  ASSUME NEW B, NEW x, x \in DOMAIN B, IsABag(B),
         NEW A, A = B (-) SetToBag({x})
  PROVE  /\ DOMAIN A \subseteq DOMAIN B
         /\ IsABag(A)
         /\ \A e \in DOMAIN A : e # x => A[e] = B[e]
         /\ B[x] = 1 => x \notin DOMAIN A
         /\ \A e \in DOMAIN B : e # x => e \in DOMAIN A
  BY DEF (-), SetToBag, IsABag

(* The fields of a frame.                                                  *)
LEMMA FrameFields ==
  ASSUME NEW f \in Frame
  PROVE  /\ f.type \in {"ArpRequest", "ArpReply", "EchoRequest", "EchoReply"}
         /\ f.src \in Hosts /\ f.target \in Hosts
         /\ f.type \in {"ArpRequest", "ArpReply"} => f \in ArpFrame /\ f.ping = None
         /\ f.type \in {"EchoRequest", "EchoReply"} => f \in IpFrame /\ f.ping \in Pings
  BY DEF Frame, ArpFrame, IpFrame

(***************************************************************************)
(* Sending frames adds their copies to the frames in flight, and no others *)
(* (the names keep the facts about sets opaque where the lemma is used).   *)
(***************************************************************************)
NodeSet(M)  == M \subseteq Nodes
FrameSet(F) == F \subseteq Frame

IsSent(d, n, M, F) == d.from = n /\ d.to \in M /\ d.frame \in F

LEMMA Sending ==
  ASSUME NEW W, IsWire(W), NEW n \in Nodes,
         NEW M, NodeSet(M), NEW F, FrameSet(F),
         NEW A, A = W (+) Sent(n, M, F)
  PROVE  /\ IsWire(A)
         /\ \A d : d \in BagToSet(W) => d \in BagToSet(A)
         /\ \A d : d \in BagToSet(A) => d \in BagToSet(W) \/ IsSent(d, n, M, F)
<1> DEFINE S == {c \in [from : {n}, to : M, frame : F] : {n, c.to} \notin down}
<1>1. A = W (+) SetToBag(S)
  BY DEF Sent
<1>2. \A d \in S : d \in Copy /\ IsSent(d, n, M, F)
  BY DEF Copy, NodeSet, FrameSet, IsSent
<1> HIDE DEF S
<1>3. /\ \A e : e \in DOMAIN A <=> e \in DOMAIN W \/ e \in S
      /\ IsABag(A)
  BY <1>1, BagAdd DEF IsWire
<1> QED
  BY <1>2, <1>3 DEF IsWire, BagToSet

(* How many copies there are of each frame after sending.                  *)
LEMMA SendingCount ==
  ASSUME NEW W, IsWire(W), NEW n \in Nodes,
         NEW M, NodeSet(M), NEW F, FrameSet(F),
         NEW A, A = W (+) Sent(n, M, F),
         NEW d \in BagToSet(A)
  PROVE  /\ d \notin BagToSet(W) => A[d] = 1
         /\ ~ IsSent(d, n, M, F) => A[d] = W[d]
<1> DEFINE S == {c \in [from : {n}, to : M, frame : F] : {n, c.to} \notin down}
<1>1. A = W (+) SetToBag(S)
  BY DEF Sent
<1>2. \A e \in S : IsSent(e, n, M, F)
  BY DEF IsSent
<1> HIDE DEF S
<1>3. /\ d \notin S => A[d] = W[d]
      /\ d \notin DOMAIN W => A[d] = 1
  BY <1>1, BagAdd DEF IsWire, BagToSet
<1> QED
  BY <1>2, <1>3 DEF BagToSet

(* Taking a frame off the wire.                                            *)
LEMMA Taking ==
  ASSUME TypeOK, NEW c \in BagToSet(wire)
  PROVE  /\ IsWire(Taken(c))
         /\ \A d : d \in BagToSet(Taken(c)) => d \in BagToSet(wire)
         /\ c.frame \in Frame /\ c.from \in Nodes /\ c.to \in Nodes
         /\ wire[c] = 1 => c \notin BagToSet(Taken(c))
         /\ \A d \in BagToSet(Taken(c)) : d # c => Taken(c)[d] = wire[d]
<1>1. IsABag(wire) /\ BagToSet(wire) \subseteq Copy
  BY DEF TypeOK, IsWire
<1>2. c.frame \in Frame /\ c.from \in Nodes /\ c.to \in Nodes
  BY <1>1 DEF Copy
<1>3. /\ DOMAIN Taken(c) \subseteq DOMAIN wire
      /\ IsABag(Taken(c))
      /\ \A e \in DOMAIN Taken(c) : e # c => Taken(c)[e] = wire[e]
      /\ wire[c] = 1 => c \notin DOMAIN Taken(c)
  BY <1>1, BagTake DEF Taken, BagToSet
<1> QED
  BY <1>1, <1>2, <1>3 DEF IsWire, BagToSet

(* send_ip: the packet or a request for its MAC leaves, and only a packet  *)
(* for an unknown MAC is queued.                                           *)
LEMMA SendIpType ==
  ASSUME TypeOK, NEW W, IsWire(W),
         NEW h \in Hosts, NEW f \in IpFrame, SendIp(h, f, W)
  PROVE  IsWire(wire') /\ send_q' \in [Hosts -> [Hosts -> SUBSET IpFrame]]
<1>1. h \in Nodes /\ NodeSet({Attach[h]}) /\ f.target \in Hosts
  BY TreeAssumption DEF Nodes, NodeSet, IpFrame
<1>2. FrameSet({f}) /\ FrameSet({Arp("ArpRequest", h, f.target)})
  BY <1>1 DEF FrameSet, Frame, ArpFrame, Arp
<1>3. CASE f.target \in cache[h]
  <2>1. wire' = W (+) Sent(h, {Attach[h]}, {f}) /\ send_q' = send_q
    BY <1>3 DEF SendIp, Enqueued
  <2> QED
    BY <1>1, <1>2, <2>1, Sending DEF TypeOK
<1>4. CASE f.target \notin cache[h]
  <2>1. wire' = W (+) Sent(h, {Attach[h]}, {Arp("ArpRequest", h, f.target)})
    BY <1>4 DEF SendIp, Enqueued
  <2>2. send_q' = [send_q EXCEPT ![h][f.target] = @ \cup {f}]
    BY <1>4 DEF SendIp, Enqueued
  <2>3. send_q' \in [Hosts -> [Hosts -> SUBSET IpFrame]]
    BY <1>1, <2>2 DEF TypeOK
  <2> QED
    BY <1>1, <1>2, <2>1, <2>3, Sending
<1> QED
  BY <1>3, <1>4

(* A step of the network keeps every variable in its type.                 *)
LEMMA TypeStep == TypeOK /\ [Next]_vars => TypeOK'
<1> SUFFICES ASSUME TypeOK, [Next]_vars
             PROVE  TypeOK'
  OBVIOUS
<1>1. ASSUME NEW c \in BagToSet(wire), SwitchReceive(c)
      PROVE  TypeOK'
  <2>1. /\ c.to \in Nodes /\ c.to \in Switches /\ c.from \in Nodes /\ c.frame \in Frame
        /\ c.frame.src \in Hosts /\ c.frame.target \in Hosts
    BY <1>1, Taking, FrameFields DEF SwitchReceive
  <2>2. NodeSet(OutPorts(c.to, c)) /\ FrameSet({c.frame})
    BY <2>1, TreeAssumption DEF OutPorts, LookupMac, TypeOK, NodeSet, FrameSet
  <2>3. IsWire(wire')
    BY <1>1, <2>1, <2>2, Taking, Sending DEF SwitchReceive
  <2>4. table' \in [Switches -> [Hosts -> Nodes \cup {None}]]
    BY <1>1, <2>1 DEF SwitchReceive, Learned, TypeOK
  <2> QED
    BY <1>1, <2>3, <2>4 DEF SwitchReceive, TypeOK
<1>2. ASSUME NEW c \in BagToSet(wire), HostIgnore(c) \/ Lose(c)
      PROVE  TypeOK'
  BY <1>2, Taking DEF HostIgnore, Lose, TypeOK
<1>3. ASSUME NEW c \in BagToSet(wire), HostReceiveArp(c)
      PROVE  TypeOK'
  <2> DEFINE h == c.to
             f == c.frame
             F == ArpAnswer(h, f) \cup send_q[h][f.src]
  <2>1. h \in Nodes /\ h \in Hosts /\ f \in Frame /\ f.src \in Hosts
    BY <1>3, Taking, FrameFields DEF HostReceiveArp, Cached
  <2>2. FrameSet(F) /\ NodeSet({Attach[h]})
    BY <2>1, TreeAssumption
       DEF ArpAnswer, Arp, Frame, ArpFrame, TypeOK, Nodes, FrameSet, NodeSet
  <2>3. /\ wire' = Taken(c) (+) Sent(h, {Attach[h]}, F)
        /\ send_q' = [send_q EXCEPT ![h][f.src] = {}]
        /\ cache' = [cache EXCEPT ![h] = @ \cup {f.src}]
        /\ UNCHANGED <<table, down, flaps, flow, served, answered>>
    BY <1>3 DEF HostReceiveArp, Cached, Flushed
  <2> HIDE DEF h, f, F
  <2>4. IsWire(wire')
    BY <2>1, <2>2, <2>3, Taking, Sending
  <2> QED
    BY <2>1, <2>3, <2>4 DEF TypeOK
<1>4. ASSUME NEW c \in BagToSet(wire), HostReceiveEchoRequest(c)
      PROVE  TypeOK'
  <2>1. /\ c.to \in Hosts /\ c.frame.src \in Hosts /\ c.frame.ping \in Pings
    BY <1>4, Taking, FrameFields DEF HostReceiveEchoRequest
  <2>2. Echo("EchoReply", c.to, c.frame.src, c.frame.ping) \in IpFrame
    BY <2>1 DEF Echo, IpFrame
  <2>3. IsWire(wire') /\ send_q' \in [Hosts -> [Hosts -> SUBSET IpFrame]]
    BY <1>4, <2>1, <2>2, Taking, SendIpType DEF HostReceiveEchoRequest
  <2> QED
    BY <1>4, <2>1, <2>3 DEF HostReceiveEchoRequest, TypeOK
<1>5. ASSUME NEW c \in BagToSet(wire), HostReceiveEchoReply(c)
      PROVE  TypeOK'
  BY <1>5, Taking, FrameFields DEF HostReceiveEchoReply, TypeOK
<1>6. ASSUME NEW a \in Hosts, NEW b \in Hosts, NEW p \in Pings, Ping(a, b, p)
      PROVE  TypeOK'
  <2>1. Echo("EchoRequest", a, b, p) \in IpFrame
    BY DEF Echo, IpFrame
  <2>2. IsWire(wire') /\ send_q' \in [Hosts -> [Hosts -> SUBSET IpFrame]]
    BY <1>6, <2>1, SendIpType DEF Ping, TypeOK
  <2> QED
    BY <1>6, <2>2 DEF Ping, TypeOK
<1>7. ASSUME NEW l \in Trunks, LinkDown(l) \/ LinkUp(l)
      PROVE  TypeOK'
  BY <1>7, NamesAssumption DEF LinkDown, LinkUp, TypeOK
<1>8. CASE UNCHANGED vars
  BY <1>8 DEF vars, TypeOK
<1> QED
  BY <1>1, <1>2, <1>3, <1>4, <1>5, <1>6, <1>7, <1>8
     DEF Next, Deliver, Environment, Receive

-----------------------------------------------------------------------------
(***************************************************************************)
(* The network invariant.  GoodCopy says of one frame in flight what       *)
(* CopyOK and UnicastKnown say of all.                                     *)
(***************************************************************************)
GoodCopy(c) ==
  /\ c.from \in Switches => table[c.from][c.frame.src] # None
  /\ c.from \in Hosts => c.from = c.frame.src
  /\ c.to \in Switches => c.from = Toward[c.to][c.frame.src]
  /\ c.to \in Hosts => c.from = Attach[c.to] /\ c.to # c.frame.src
  /\ c.to \in Switches /\ ~ IsBroadcast(c.frame) =>
       table[c.to][c.frame.target] \notin {None, c.from}

AllGood(W) == \A c \in BagToSet(W) : GoodCopy(c)

LEMMA GoodCopies == AllGood(wire) <=> CopyOK /\ UnicastKnown
  BY DEF AllGood, GoodCopy, CopyOK, UnicastKnown

(* The tables only grow.                                                   *)
Grows ==
  \A s \in Switches, h \in Hosts : table[s][h] # None => table'[s][h] = table[s][h]

LEMMA GoodStays ==
  ASSUME Grows, NEW c \in Copy, GoodCopy(c)
  PROVE  GoodCopy(c)'
<1>1. c.frame.src \in Hosts /\ c.frame.target \in Hosts
  BY FrameFields DEF Copy
<1> QED
  BY <1>1 DEF Grows, GoodCopy

(* A switch that learns the source of a frame learns the way to it.        *)
LEMMA Learning ==
  ASSUME TypeOK, PathsLeadHome, NEW c \in Copy, GoodCopy(c), c.to \in Switches,
         table' = Learned(c.to, c)
  PROVE  /\ Grows
         /\ PathsLeadHome'
         /\ table'[c.to][c.frame.src] = c.from
         /\ c.from # None
<1> DEFINE s == c.to
           h == c.frame.src
<1>1. /\ h \in Hosts /\ s \in Switches /\ c.from \in Nodes
      /\ c.from # None
      /\ c.from = Toward[s][h]
      /\ c.from \in Switches => table[c.from][h] # None
  BY FrameFields, NamesAssumption DEF Copy, GoodCopy, Nodes
<1>2. table' = [table EXCEPT ![s][h] = c.from]
  BY DEF Learned
<1>3. table \in [Switches -> [Hosts -> Nodes \cup {None}]]
  BY DEF TypeOK
<1> HIDE DEF s, h
<1>4. Grows
  BY <1>1, <1>2, <1>3 DEF Grows, PathsLeadHome
<1>5. table'[s][h] = c.from
  BY <1>1, <1>2, <1>3
<1>6. ASSUME NEW t \in Switches, NEW g \in Hosts, table'[t][g] # None
      PROVE  /\ table'[t][g] = Toward[t][g]
             /\ table'[t][g] \in Switches => table'[table'[t][g]][g] # None
  <2>1. CASE t = s /\ g = h
    BY <1>1, <1>4, <1>5, <2>1 DEF Grows
  <2>2. CASE ~ (t = s /\ g = h)
    <3>1. table'[t][g] = table[t][g]
      BY <1>1, <1>2, <1>3, <2>2
    <3> QED
      BY <1>4, <1>6, <3>1 DEF Grows, PathsLeadHome
  <2> QED
    BY <2>1, <2>2
<1>7. PathsLeadHome'
  BY <1>6 DEF PathsLeadHome
<1> QED
  BY <1>1, <1>4, <1>5, <1>7 DEF s, h

(* What a switch forwards moves away from its source, and a unicast frame  *)
(* reaches only switches that know its destination.                        *)
LEMMA Forwarding ==
  ASSUME TypeOK, PathsLeadHome, NEW c \in Copy, GoodCopy(c), c.to \in Switches,
         table' = Learned(c.to, c),
         NEW d, IsSent(d, c.to, OutPorts(c.to, c), {c.frame})
  PROVE  GoodCopy(d)'
<1> DEFINE s == c.to
           f == c.frame
           m == d.to
<1>1. /\ Grows
      /\ PathsLeadHome'
      /\ table'[s][f.src] # None
  BY Learning
<1>2. /\ s \in Switches /\ f.src \in Hosts /\ f.target \in Hosts
      /\ c.from = Toward[s][f.src]
      /\ ~ IsBroadcast(f) => table[s][f.target] \notin {None, c.from}
  BY FrameFields DEF Copy, GoodCopy
<1>3. d.from = s /\ d.frame = f /\ m \in OutPorts(s, c)
  BY DEF IsSent
<1> HIDE DEF s, f, m
<1>4. CASE IsBroadcast(f)
  <2>1. m \in Nbr[s] /\ m # c.from
    BY <1>3, <1>4 DEF OutPorts, LookupMac, f
  <2>2. m \in Switches => Toward[m][f.src] = s
    BY <1>2, <2>1, TreeAssumption
  <2>3. m \in Hosts => Attach[m] = s /\ m # f.src
    BY <1>2, <2>1, TreeAssumption
  <2> QED
    BY <1>1, <1>2, <1>3, <1>4, <2>2, <2>3, NamesAssumption DEF GoodCopy, m
<1>5. CASE ~ IsBroadcast(f)
  <2>1. m = table[s][f.target] /\ m = Toward[s][f.target] /\ m # c.from
    BY <1>2, <1>3, <1>5 DEF OutPorts, LookupMac, PathsLeadHome, f
  <2>2. m \in Nbr[s]
    BY <1>2, <2>1, TreeAssumption
  <2>3. m \in Switches => Toward[m][f.src] = s /\ Toward[m][f.target] # s
    BY <1>2, <2>1, <2>2, TreeAssumption
  <2>4. m \in Hosts => Attach[m] = s /\ m # f.src
    BY <1>2, <2>1, <2>2, TreeAssumption
  <2>5. m \in Switches => table[m][f.target] # None
    <3>1. table[s][f.target] \in Switches => table[table[s][f.target]][f.target] # None
      BY <1>2, <1>5 DEF PathsLeadHome
    <3> QED
      BY <2>1, <3>1
  <2>6. m \in Switches => table'[m][f.target] \notin {None, s}
    BY <1>1, <1>2, <2>3, <2>5 DEF Grows, PathsLeadHome
  <2> QED
    BY <1>1, <1>2, <1>3, <1>5, <2>3, <2>4, <2>6, NamesAssumption DEF GoodCopy, m
<1> QED
  BY <1>4, <1>5

(* What a host sends starts well: a request, or a unicast frame to another *)
(* host its switch knows the way to.                                       *)
Sendable(h, f) ==
  /\ f \in Frame
  /\ f.src = h
  /\ ~ IsBroadcast(f) => f.target # h /\ table[Attach[h]][f.target] # None

LEMMA HostSending ==
  ASSUME TypeOK, PathsLeadHome, NEW h \in Hosts,
         NEW F, \A f \in F : Sendable(h, f),
         NEW d, IsSent(d, h, {Attach[h]}, F)
  PROVE  GoodCopy(d)
<1> DEFINE f == d.frame
           s == Attach[h]
<1>1. /\ d.from = h /\ d.to = s /\ f.src = h
      /\ f.src \in Hosts /\ f.target \in Hosts
      /\ ~ IsBroadcast(f) => f.target # h /\ table[s][f.target] # None
  BY FrameFields DEF IsSent, Sendable
<1>2. s \in Switches /\ Toward[s][h] = h
  BY TreeAssumption
<1> HIDE DEF f, s
<1>3. ~ IsBroadcast(f) => table[s][f.target] # h
  BY <1>1, <1>2, TreeAssumption DEF PathsLeadHome
<1> QED
  BY <1>1, <1>2, <1>3, NamesAssumption DEF GoodCopy, f

LEMMA SendIpNet ==
  ASSUME NetInv, NEW W, IsWire(W), AllGood(W),
         NEW h \in Hosts, NEW f \in IpFrame, f.src = h, f.target # h,
         SendIp(h, f, W)
  PROVE  AllGood(wire') /\ QueueOK'
<1>1. /\ h \in Nodes /\ NodeSet({Attach[h]}) /\ f.target \in Hosts
      /\ TypeOK /\ PathsLeadHome /\ CacheOK /\ QueueOK
  BY TreeAssumption DEF Nodes, NodeSet, IpFrame, NetInv
<1>2. CASE f.target \in cache[h]
  <2>1. wire' = W (+) Sent(h, {Attach[h]}, {f}) /\ send_q' = send_q
    BY <1>2 DEF SendIp, Enqueued
  <2>2. \A e \in {f} : Sendable(h, e)
    BY <1>1, <1>2 DEF Sendable, CacheOK, Frame
  <2>3. FrameSet({f})
    BY DEF FrameSet, Frame
  <2>4. \A d : d \in BagToSet(wire') => d \in BagToSet(W) \/ IsSent(d, h, {Attach[h]}, {f})
    BY <1>1, <2>1, <2>3, Sending
  <2>5. AllGood(wire')
    BY <1>1, <2>2, <2>4, HostSending DEF AllGood
  <2> QED
    BY <1>1, <2>1, <2>5 DEF QueueOK
<1>3. CASE f.target \notin cache[h]
  <2> DEFINE r == Arp("ArpRequest", h, f.target)
  <2>1. /\ wire' = W (+) Sent(h, {Attach[h]}, {r})
        /\ send_q' = [send_q EXCEPT ![h][f.target] = @ \cup {f}]
    BY <1>3 DEF SendIp, Enqueued
  <2>2. r \in Frame /\ r.src = h /\ IsBroadcast(r)
    BY <1>1 DEF Frame, ArpFrame, Arp, IsBroadcast
  <2> HIDE DEF r
  <2>3. \A e \in {r} : Sendable(h, e)
    BY <2>2 DEF Sendable
  <2>4. FrameSet({r})
    BY <2>2 DEF FrameSet
  <2>5. \A d : d \in BagToSet(wire') => d \in BagToSet(W) \/ IsSent(d, h, {Attach[h]}, {r})
    BY <1>1, <2>1, <2>4, Sending
  <2>6. AllGood(wire')
    BY <1>1, <2>3, <2>5, HostSending DEF AllGood
  <2>7. QueueOK'
    BY <1>1, <2>1 DEF QueueOK, TypeOK
  <2> QED
    BY <2>6, <2>7
<1> QED
  BY <1>2, <1>3

(* The frames left on the wire when one is taken are good, and so is it.   *)
LEMMA TakenGood ==
  ASSUME NetInv, NEW c \in BagToSet(wire)
  PROVE  /\ GoodCopy(c) /\ c \in Copy
         /\ IsWire(Taken(c))
         /\ AllGood(wire) /\ AllGood(Taken(c))
<1>1. TypeOK /\ AllGood(wire)
  BY GoodCopies DEF NetInv
<1>2. c \in Copy
  BY <1>1 DEF TypeOK, IsWire
<1> QED
  BY <1>1, <1>2, Taking DEF AllGood

(* With the tables unchanged, good frames and known addresses stay so.     *)
LEMMA SameTable ==
  ASSUME table' = table
  PROVE  /\ PathsLeadHome => PathsLeadHome'
         /\ CacheOK /\ cache' = cache => CacheOK'
         /\ AllGood(wire') => (CopyOK /\ UnicastKnown)'
  BY DEF PathsLeadHome, CacheOK, AllGood, GoodCopy, CopyOK, UnicastKnown

LEMMA NetStep == NetInv /\ [Next]_vars => NetInv'
<1> SUFFICES ASSUME NetInv, [Next]_vars
             PROVE  (PathsLeadHome /\ UnicastKnown /\ CopyOK /\ CacheOK /\ QueueOK)'
  BY TypeStep DEF NetInv
<1> USE DEF NetInv
<1>1. ASSUME NEW c \in BagToSet(wire), SwitchReceive(c)
      PROVE  (PathsLeadHome /\ UnicastKnown /\ CopyOK /\ CacheOK /\ QueueOK)'
  <2>1. /\ GoodCopy(c) /\ c \in Copy /\ c.to \in Switches
        /\ table' = Learned(c.to, c)
        /\ wire' = Taken(c) (+) Sent(c.to, OutPorts(c.to, c), {c.frame})
        /\ cache' = cache /\ send_q' = send_q
        /\ IsWire(Taken(c)) /\ AllGood(Taken(c))
    BY <1>1, TakenGood DEF SwitchReceive
  <2>2. Grows /\ PathsLeadHome'
    BY <2>1, Learning
  <2>3. c.to \in Nodes /\ FrameSet({c.frame}) /\ c.frame.target \in Hosts
    BY <2>1, FrameFields DEF Nodes, FrameSet, Copy
  <2>4. NodeSet(OutPorts(c.to, c))
    BY <2>1, <2>3, TreeAssumption DEF OutPorts, LookupMac, TypeOK, NodeSet
  <2>5. \A d : d \in BagToSet(wire') =>
               d \in BagToSet(Taken(c)) \/ IsSent(d, c.to, OutPorts(c.to, c), {c.frame})
    BY <2>1, <2>3, <2>4, Sending
  <2>6. ASSUME NEW d \in BagToSet(wire')
        PROVE  GoodCopy(d)'
    <3>1. CASE d \in BagToSet(Taken(c))
      BY <2>1, <2>2, <3>1, GoodStays DEF IsWire, AllGood
    <3>2. CASE IsSent(d, c.to, OutPorts(c.to, c), {c.frame})
      BY <2>1, <3>2, Forwarding
    <3> QED
      BY <2>5, <3>1, <3>2
  <2>7. (CopyOK /\ UnicastKnown)'
    BY <2>6 DEF GoodCopy, CopyOK, UnicastKnown
  <2>8. CacheOK'
    BY <2>1, <2>2, TreeAssumption DEF CacheOK, Grows, TypeOK
  <2>9. QueueOK'
    BY <2>1 DEF QueueOK
  <2> QED
    BY <2>2, <2>7, <2>8, <2>9
<1>2. ASSUME NEW c \in BagToSet(wire),
             HostIgnore(c) \/ HostReceiveEchoReply(c) \/ Lose(c)
      PROVE  (PathsLeadHome /\ UnicastKnown /\ CopyOK /\ CacheOK /\ QueueOK)'
  <2>1. /\ table' = table /\ cache' = cache /\ send_q' = send_q
        /\ wire' = Taken(c)
    BY <1>2 DEF HostIgnore, HostReceiveEchoReply, Lose
  <2>2. QueueOK'
    BY <2>1 DEF QueueOK
  <2> QED
    BY <2>1, <2>2, TakenGood, SameTable
<1>3. ASSUME NEW c \in BagToSet(wire), HostReceiveArp(c)
      PROVE  (PathsLeadHome /\ UnicastKnown /\ CopyOK /\ CacheOK /\ QueueOK)'
  <2> DEFINE h == c.to
             f == c.frame
             F == ArpAnswer(h, f) \cup send_q[h][f.src]
  <2>1. /\ h \in Hosts /\ f \in Frame /\ f.src \in Hosts /\ f.target \in Hosts
        /\ GoodCopy(c)
        /\ IsWire(Taken(c)) /\ AllGood(Taken(c))
    BY <1>3, TakenGood, FrameFields DEF HostReceiveArp, Cached, Copy
  <2>2. /\ wire' = Taken(c) (+) Sent(h, {Attach[h]}, F)
        /\ send_q' = [send_q EXCEPT ![h][f.src] = {}]
        /\ cache' = [cache EXCEPT ![h] = @ \cup {f.src}]
        /\ table' = table
    BY <1>3 DEF HostReceiveArp, Cached, Flushed
  <2>3. h # f.src /\ table[Attach[h]][f.src] # None
    BY <2>1, TreeAssumption DEF GoodCopy
  <2>4. ASSUME NEW e \in ArpAnswer(h, f)
        PROVE  Sendable(h, e)
    BY <2>1, <2>3 DEF ArpAnswer, Arp, Sendable, Frame, ArpFrame
  <2>5. ASSUME NEW e \in send_q[h][f.src]
        PROVE  Sendable(h, e)
    BY <2>1, <2>3 DEF Sendable, QueueOK, TypeOK, Frame
  <2>6. \A e \in F : Sendable(h, e)
    BY <2>4, <2>5
  <2>7. FrameSet(F)
    BY <2>6 DEF FrameSet, Sendable
  <2>8. h \in Nodes /\ NodeSet({Attach[h]})
    BY <2>1, TreeAssumption DEF Nodes, NodeSet
  <2> HIDE DEF h, f, F
  <2>9. \A d : d \in BagToSet(wire') =>
               d \in BagToSet(Taken(c)) \/ IsSent(d, h, {Attach[h]}, F)
    BY <2>1, <2>2, <2>7, <2>8, Sending
  <2>10. AllGood(wire')
    BY <2>1, <2>6, <2>9, HostSending DEF AllGood
  <2>11. CacheOK'
    BY <2>1, <2>2, <2>3 DEF CacheOK, TypeOK
  <2>12. QueueOK'
    BY <2>1, <2>2 DEF QueueOK, TypeOK
  <2> QED
    BY <2>2, <2>10, <2>11, <2>12, SameTable
<1>4. ASSUME NEW c \in BagToSet(wire), HostReceiveEchoRequest(c)
      PROVE  (PathsLeadHome /\ UnicastKnown /\ CopyOK /\ CacheOK /\ QueueOK)'
  <2> DEFINE r == Echo("EchoReply", c.to, c.frame.src, c.frame.ping)
  <2>1. /\ c.to \in Hosts /\ c.frame.src \in Hosts /\ c.frame.ping \in Pings
        /\ c.to # c.frame.src
        /\ IsWire(Taken(c)) /\ AllGood(Taken(c))
        /\ table' = table /\ cache' = cache
        /\ SendIp(c.to, r, Taken(c))
    BY <1>4, TakenGood, FrameFields DEF HostReceiveEchoRequest, Copy, GoodCopy
  <2>2. r \in IpFrame /\ r.src = c.to /\ r.target # c.to
    BY <2>1 DEF Echo, IpFrame
  <2> HIDE DEF r
  <2>3. AllGood(wire') /\ QueueOK'
    BY <2>1, <2>2, SendIpNet
  <2> QED
    BY <2>1, <2>3, SameTable
<1>5. ASSUME NEW a \in Hosts, NEW b \in Hosts, NEW p \in Pings, Ping(a, b, p)
      PROVE  (PathsLeadHome /\ UnicastKnown /\ CopyOK /\ CacheOK /\ QueueOK)'
  <2> DEFINE r == Echo("EchoRequest", a, b, p)
  <2>1. /\ SendIp(a, r, wire) /\ IsWire(wire) /\ AllGood(wire)
        /\ table' = table /\ cache' = cache
    BY <1>5, GoodCopies DEF Ping, TypeOK
  <2>2. r \in IpFrame /\ r.src = a /\ r.target # a
    BY <1>5 DEF Echo, IpFrame, Ping
  <2> HIDE DEF r
  <2>3. AllGood(wire') /\ QueueOK'
    BY <2>1, <2>2, SendIpNet
  <2> QED
    BY <2>1, <2>3, SameTable
<1>6. ASSUME UNCHANGED <<table, cache, send_q, wire>>
      PROVE  (PathsLeadHome /\ UnicastKnown /\ CopyOK /\ CacheOK /\ QueueOK)'
  BY <1>6 DEF PathsLeadHome, UnicastKnown, CopyOK, CacheOK, QueueOK
<1>7. ASSUME NEW l \in Trunks, LinkDown(l) \/ LinkUp(l)
      PROVE  (PathsLeadHome /\ UnicastKnown /\ CopyOK /\ CacheOK /\ QueueOK)'
  BY <1>6, <1>7 DEF LinkDown, LinkUp
<1>8. CASE UNCHANGED vars
  BY <1>6, <1>8 DEF vars
<1> QED
  BY <1>1, <1>2, <1>3, <1>4, <1>5, <1>7, <1>8 DEF Next, Deliver, Environment, Receive

LEMMA NetInit == Init => NetInv
<1> SUFFICES ASSUME Init
             PROVE  NetInv
  OBVIOUS
<1>1. IsABag(EmptyBag) /\ BagToSet(EmptyBag) = {}
  BY DEF EmptyBag, SetToBag, IsABag, BagToSet
<1>2. IsWire(wire) /\ BagToSet(wire) = {}
  BY <1>1 DEF Init, IsWire
<1>3. TypeOK
  BY <1>2, NamesAssumption DEF Init, TypeOK
<1> QED
  BY <1>2, <1>3 DEF Init, NetInv, PathsLeadHome, UnicastKnown, CopyOK, CacheOK, QueueOK

(* In every tree and for every order of the frames, a switch learns only   *)
(* ways that lead to the host, and no unicast frame is flooded or sent     *)
(* back (bridging.py:101-132), whatever trunks fail.                       *)
THEOREM NetworkSafe == Spec => [](TypeOK /\ PathsLeadHome /\ UnicastKnown)
<1>1. NetInv => TypeOK /\ PathsLeadHome /\ UnicastKnown
  BY DEF NetInv
<1> QED
  BY <1>1, NetInit, NetStep, PTL DEF Spec

-----------------------------------------------------------------------------
(***************************************************************************)
(* The echo invariant, for one exchange p.  At most one copy flies or one  *)
(* packet is queued, so what a step does to p is told by the sets Flying   *)
(* and Queued before and after it.                                         *)
(***************************************************************************)
StageOf(f) == IF f.type = "EchoReply" THEN 1 ELSE 0

EchoAt(p) ==
  /\ \A c, d \in Flying(p) : c = d /\ wire[c] = 1
  /\ \A e, f \in Queued(p) : e = f
  /\ Flying(p) = {} \/ Queued(p) = {}
  /\ flow[p] = None \/ answered[p] > 0 => Flying(p) = {} /\ Queued(p) = {}
  /\ \A c \in Flying(p) : served[p] = StageOf(c.frame)
  /\ \A f \in Queued(p) : served[p] = StageOf(f)
  /\ flow[p] = None => served[p] = 0 /\ answered[p] = 0

LEMMA EchoAll == EchoInv <=> \A p \in Pings : EchoAt(p)
  BY DEF EchoInv, OnePlace, StageOK, EchoAt, StageOf

(* The copies of p in W are copies of p in V, as many of each.             *)
SubOf(W, V, p) ==
  \A d \in BagToSet(W) : d.frame.ping = p => d \in BagToSet(V) /\ W[d] = V[d]

NoneIn(W, p) == \A d \in BagToSet(W) : d.frame.ping # p

(* A step that adds nothing of p keeps its invariant.                      *)
LEMMA Untouched ==
  ASSUME NEW p \in Pings, EchoAt(p),
         SubOf(wire', wire, p),
         \A f : f \in Queued(p)' => f \in Queued(p),
         flow'[p] = flow[p], served'[p] = served[p], answered'[p] = answered[p]
  PROVE  EchoAt(p)'
<1>1. \A c : c \in Flying(p)' => c \in Flying(p) /\ wire'[c] = wire[c]
  BY DEF SubOf, Flying
<1>2. Flying(p) = {} => Flying(p)' = {}
  BY <1>1
<1>3. Queued(p) = {} => Queued(p)' = {}
  OBVIOUS
<1> QED
  BY <1>1, <1>2, <1>3 DEF EchoAt

LEMMA TakingOne ==
  ASSUME TypeOK, NEW p \in Pings, EchoAt(p), NEW c \in BagToSet(wire)
  PROVE  /\ SubOf(Taken(c), wire, p)
         /\ c.frame.ping = p => NoneIn(Taken(c), p) /\ Queued(p) = {}
<1>1. c.frame.ping = p => c \in Flying(p) /\ wire[c] = 1
  BY DEF EchoAt, Flying
<1>2. \A d \in BagToSet(Taken(c)) :
         /\ d \in BagToSet(wire)
         /\ d # c => Taken(c)[d] = wire[d]
         /\ c.frame.ping = p => d # c
  BY <1>1, Taking
<1>3. SubOf(Taken(c), wire, p)
  BY <1>2 DEF SubOf
<1>4. c.frame.ping = p => NoneIn(Taken(c), p)
  BY <1>1, <1>2 DEF NoneIn, EchoAt, Flying
<1> QED
  BY <1>1, <1>3, <1>4 DEF EchoAt

(* Sending frames of other exchanges adds nothing of p.                    *)
LEMMA SendingOthers ==
  ASSUME NEW p \in Pings, NEW W, IsWire(W), NEW n \in Nodes,
         NEW M, NodeSet(M), NEW F, FrameSet(F),
         \A f \in F : f.ping # p,
         NEW A, A = W (+) Sent(n, M, F)
  PROVE  SubOf(A, W, p)
<1> SUFFICES ASSUME NEW d \in BagToSet(A), d.frame.ping = p
             PROVE  d \in BagToSet(W) /\ A[d] = W[d]
  BY DEF SubOf
<1>1. ~ IsSent(d, n, M, F)
  BY DEF IsSent
<1> QED
  BY <1>1, Sending, SendingCount

(* Sending one frame of p on one link, when none of p is in flight.        *)
LEMMA SendingOne ==
  ASSUME NEW p \in Pings, NEW W, IsWire(W), NoneIn(W, p),
         NEW n \in Nodes, NEW m \in Nodes,
         NEW F, FrameSet(F), \A e, f \in F : e.ping = p /\ f.ping = p => e = f,
         wire' = W (+) Sent(n, {m}, F)
  PROVE  \A c, d \in Flying(p)' : c = d /\ wire'[c] = 1 /\ c.frame \in F
<1> SUFFICES ASSUME NEW c \in Flying(p)', NEW d \in Flying(p)'
             PROVE  c = d /\ wire'[c] = 1 /\ c.frame \in F
  OBVIOUS
<1>1. NodeSet({m})
  BY DEF NodeSet
<1>2. /\ c \in BagToSet(wire') /\ c.frame.ping = p
      /\ d \in BagToSet(wire') /\ d.frame.ping = p
  BY DEF Flying
<1>3. IsWire(wire') /\ c \notin BagToSet(W) /\ d \notin BagToSet(W)
  BY <1>1, <1>2, Sending DEF NoneIn
<1>4. IsSent(c, n, {m}, F) /\ IsSent(d, n, {m}, F)
  BY <1>1, <1>2, <1>3, Sending
<1>5. c \in Copy /\ d \in Copy
  BY <1>2, <1>3 DEF IsWire
<1>6. c = d
  BY <1>2, <1>4, <1>5 DEF IsSent, Copy
<1>7. wire'[c] = 1
  BY <1>1, <1>2, <1>3, SendingCount
<1> QED
  BY <1>4, <1>6, <1>7 DEF IsSent

(* send_ip puts its packet in one place and touches no other exchange.     *)
LEMMA SendIpOthers ==
  ASSUME TypeOK, NEW W, IsWire(W), NEW h \in Hosts, NEW f \in IpFrame,
         SendIp(h, f, W), NEW p \in Pings, f.ping # p
  PROVE  SubOf(wire', W, p) /\ \A e : e \in Queued(p)' => e \in Queued(p)
<1> DEFINE r == Arp("ArpRequest", h, f.target)
<1>1. h \in Nodes /\ NodeSet({Attach[h]}) /\ f.target \in Hosts
  BY TreeAssumption DEF Nodes, NodeSet, IpFrame
<1>2. /\ FrameSet({f}) /\ FrameSet({r})
      /\ \A e \in {f} : e.ping # p
      /\ \A e \in {r} : e.ping # p
  BY <1>1, NamesAssumption DEF FrameSet, Frame, ArpFrame, Arp
<1>3. \/ wire' = W (+) Sent(h, {Attach[h]}, {f}) /\ send_q' = send_q
      \/ /\ wire' = W (+) Sent(h, {Attach[h]}, {r})
         /\ send_q' = [send_q EXCEPT ![h][f.target] = @ \cup {f}]
  BY DEF SendIp, Enqueued
<1> HIDE DEF r
<1>4. SubOf(wire', W, p)
  BY <1>1, <1>2, <1>3, SendingOthers
<1>5. \A x, y \in Hosts : \A e : e \in send_q'[x][y] => e \in send_q[x][y] \/ e = f
  BY <1>1, <1>3 DEF TypeOK
<1>6. \A e : e \in Queued(p)' => e \in Queued(p)
  BY <1>5 DEF Queued
<1> QED
  BY <1>4, <1>6

LEMMA SendIpOne ==
  ASSUME TypeOK, NEW W, IsWire(W), NEW h \in Hosts, NEW f \in IpFrame,
         SendIp(h, f, W), NEW p \in Pings, f.ping = p,
         NoneIn(W, p), Queued(p) = {}
  PROVE  /\ \A c, d \in Flying(p)' : c = d /\ wire'[c] = 1 /\ c.frame = f
         /\ \A e \in Queued(p)' : e = f
         /\ Flying(p)' = {} \/ Queued(p)' = {}
<1> DEFINE r == Arp("ArpRequest", h, f.target)
<1>1. /\ h \in Nodes /\ NodeSet({Attach[h]}) /\ f.target \in Hosts
      /\ Attach[h] \in Nodes
  BY TreeAssumption DEF Nodes, NodeSet, IpFrame
<1>2. /\ FrameSet({f}) /\ FrameSet({r})
      /\ \A d, e \in {f} : d.ping = p /\ e.ping = p => d = e
      /\ \A e \in {r} : e.ping # p
  BY <1>1, NamesAssumption DEF FrameSet, Frame, ArpFrame, Arp
<1>3. CASE f.target \in cache[h]
  <2>1. wire' = W (+) Sent(h, {Attach[h]}, {f}) /\ send_q' = send_q
    BY <1>3 DEF SendIp, Enqueued
  <2>2. \A c, d \in Flying(p)' : c = d /\ wire'[c] = 1 /\ c.frame \in {f}
    BY <1>1, <1>2, <2>1, SendingOne
  <2>3. Queued(p)' = {}
    BY <2>1 DEF Queued
  <2> QED
    BY <2>2, <2>3
<1>4. CASE f.target \notin cache[h]
  <2>1. /\ wire' = W (+) Sent(h, {Attach[h]}, {r})
        /\ send_q' = [send_q EXCEPT ![h][f.target] = @ \cup {f}]
    BY <1>4 DEF SendIp, Enqueued
  <2> HIDE DEF r
  <2>2. SubOf(wire', W, p)
    BY <1>1, <1>2, <2>1, SendingOthers
  <2>3. Flying(p)' = {}
    BY <2>2 DEF SubOf, NoneIn, Flying
  <2>4. \A e \in Queued(p)' : e = f
    BY <1>1, <2>1 DEF Queued, TypeOK
  <2> QED
    BY <2>3, <2>4
<1> QED
  BY <1>3, <1>4

LEMMA EchoStep == NetInv /\ EchoInv /\ [Next]_vars => EchoInv'
<1> SUFFICES ASSUME NetInv, \A q \in Pings : EchoAt(q), [Next]_vars,
                    NEW p \in Pings
             PROVE  EchoAt(p)'
  BY EchoAll DEF EchoInv, OnePlace, StageOK, EchoAt, StageOf
<1>0. TypeOK /\ UnicastKnown /\ QueueOK /\ EchoAt(p)
  BY DEF NetInv
<1>1. ASSUME NEW c \in BagToSet(wire), SwitchReceive(c)
      PROVE  EchoAt(p)'
  <2> DEFINE s == c.to
             f == c.frame
             M == OutPorts(s, c)
             W == Taken(c)
  <2>1. /\ s \in Switches /\ s \in Nodes /\ f \in Frame /\ FrameSet({f})
        /\ f.target \in Hosts
        /\ wire' = W (+) Sent(s, M, {f})
        /\ send_q' = send_q
        /\ flow' = flow /\ served' = served /\ answered' = answered
        /\ IsWire(W)
    BY <1>0, <1>1, Taking, FrameFields DEF SwitchReceive, FrameSet
  <2>2. NodeSet(M)
    BY <1>0, <2>1, TreeAssumption DEF OutPorts, LookupMac, TypeOK, NodeSet
  <2>3. \A e : e \in Queued(p)' <=> e \in Queued(p)
    BY <2>1 DEF Queued
  <2>4. SubOf(W, wire, p)
    BY <1>0, TakingOne
  <2>5. CASE f.ping = p
    <3>1. f.type \in {"EchoRequest", "EchoReply"}
      BY <2>1, <2>5, FrameFields, NamesAssumption
    <3>2. M = {table[s][f.target]} /\ table[s][f.target] \in Nodes
      BY <1>0, <2>1, <3>1 DEF UnicastKnown, OutPorts, LookupMac, IsBroadcast, TypeOK
    <3>3. NoneIn(W, p) /\ Queued(p) = {}
      BY <1>0, <2>5, TakingOne
    <3>4. \A d, e \in {f} : d.ping = p /\ e.ping = p => d = e
      OBVIOUS
    <3> DEFINE m == table[s][f.target]
               F == {f}
    <3>5. /\ wire' = W (+) Sent(s, {m}, F) /\ m \in Nodes
          /\ FrameSet(F) /\ \A d, e \in F : d.ping = p /\ e.ping = p => d = e
          /\ IsWire(W) /\ NoneIn(W, p) /\ s \in Nodes
      BY <2>1, <3>2, <3>3, <3>4
    <3> HIDE DEF s, f, M, W, m, F
    <3>7. \A d, e \in Flying(p)' : d = e /\ wire'[d] = 1 /\ d.frame \in F
      BY <3>5, SendingOne
    <3>6. flow[p] # None /\ ~ (answered[p] > 0) /\ served[p] = StageOf(f)
      BY <1>0, <2>5 DEF EchoAt, Flying, f
    <3> QED
      BY <2>1, <2>3, <3>3, <3>6, <3>7 DEF EchoAt, F
  <2>6. CASE f.ping # p
    <3> HIDE DEF s, f, M, W
    <3>1. \A e \in {f} : e.ping # p
      BY <2>6
    <3>2. SubOf(wire', W, p)
      BY <2>1, <2>2, <3>1, SendingOthers
    <3>3. SubOf(wire', wire, p)
      BY <2>4, <3>2 DEF SubOf
    <3> QED
      BY <1>0, <2>1, <2>3, <3>3, Untouched
  <2> QED
    BY <2>5, <2>6
<1>2. ASSUME NEW c \in BagToSet(wire), HostIgnore(c) \/ Lose(c)
      PROVE  EchoAt(p)'
  <2>1. /\ wire' = Taken(c) /\ send_q' = send_q
        /\ flow' = flow /\ served' = served /\ answered' = answered
    BY <1>2 DEF HostIgnore, Lose
  <2>2. \A e : e \in Queued(p)' => e \in Queued(p)
    BY <2>1 DEF Queued
  <2>3. SubOf(wire', wire, p)
    BY <1>0, <2>1, TakingOne
  <2> QED
    BY <1>0, <2>1, <2>2, <2>3, Untouched
<1>3. ASSUME NEW c \in BagToSet(wire), HostReceiveArp(c)
      PROVE  EchoAt(p)'
  <2> DEFINE h == c.to
             a == c.frame.src
             Q == send_q[h][a]
             F == ArpAnswer(h, c.frame) \cup Q
             W == Taken(c)
  <2>1. /\ h \in Hosts /\ h \in Nodes /\ a \in Hosts /\ Attach[h] \in Nodes
        /\ c.frame.ping = None /\ c.frame.target \in Hosts
        /\ wire' = W (+) Sent(h, {Attach[h]}, F)
        /\ send_q' = [send_q EXCEPT ![h][a] = {}]
        /\ flow' = flow /\ served' = served /\ answered' = answered
        /\ IsWire(W) /\ SubOf(W, wire, p)
    BY <1>0, <1>3, Taking, TakingOne, FrameFields, TreeAssumption
       DEF HostReceiveArp, Cached, Flushed, Nodes
  <2>2. \A e \in Q : e \in IpFrame /\ e.src = h /\ e.target = a
    BY <1>0, <2>1 DEF TypeOK, QueueOK
  <2>3. \A e \in ArpAnswer(h, c.frame) : e \in Frame /\ e.ping # p
    BY <2>1, NamesAssumption DEF ArpAnswer, Arp, Frame, ArpFrame
  <2>4. FrameSet(F)
    BY <2>2, <2>3 DEF FrameSet, Frame
  <2>5. \A e \in F : e.ping = p => e \in Queued(p) /\ e \in Q
    BY <2>1, <2>2, <2>3 DEF Queued
  <2>6. NodeSet({Attach[h]})
    BY <2>1 DEF NodeSet
  <2>7. \A e : e \in Queued(p)' => e \in Queued(p) /\ e \notin Q
    <3> SUFFICES ASSUME NEW e \in Queued(p)'
                 PROVE  e \in Queued(p) /\ e \notin Q
      OBVIOUS
    <3>1. PICK x \in Hosts, y \in Hosts : e \in send_q'[x][y]
      BY DEF Queued
    <3>2. e \in send_q[x][y] /\ ~ (x = h /\ y = a)
      BY <1>0, <2>1, <3>1 DEF TypeOK
    <3>3. e.src = x /\ e.target = y
      BY <1>0, <3>2 DEF QueueOK
    <3> QED
      BY <2>2, <3>2, <3>3 DEF Queued
  <2> HIDE DEF h, a, Q, F, W
  <2>8. CASE \A e \in F : e.ping # p
    <3>1. SubOf(wire', W, p)
      BY <2>1, <2>4, <2>6, <2>8, SendingOthers
    <3>2. SubOf(wire', wire, p)
      BY <2>1, <3>1 DEF SubOf
    <3> QED
      BY <1>0, <2>1, <2>7, <3>2, Untouched
  <2>9. ASSUME NEW g \in F, g.ping = p
        PROVE  EchoAt(p)'
    <3>1. /\ g \in Queued(p) /\ g \in Q
          /\ \A e \in Queued(p) : e = g
          /\ Flying(p) = {} /\ flow[p] # None /\ ~ (answered[p] > 0)
          /\ served[p] = StageOf(g)
      BY <1>0, <2>5, <2>9 DEF EchoAt
    <3>2. \A d, e \in F : d.ping = p /\ e.ping = p => d = e
      BY <2>5, <3>1
    <3>3. NoneIn(W, p)
      BY <2>1, <3>1 DEF NoneIn, SubOf, Flying
    <3>4. \A d, e \in Flying(p)' : d = e /\ wire'[d] = 1 /\ d.frame \in F
      BY <2>1, <2>4, <3>2, <3>3, SendingOne
    <3>5. \A d \in Flying(p)' : d.frame = g
      BY <2>9, <3>2, <3>4 DEF Flying
    <3>6. Queued(p)' = {}
      BY <2>7, <3>1
    <3> QED
      BY <2>1, <3>1, <3>4, <3>5, <3>6 DEF EchoAt
  <2> QED
    BY <2>8, <2>9
<1>4. ASSUME NEW c \in BagToSet(wire), HostReceiveEchoRequest(c)
      PROVE  EchoAt(p)'
  <2> DEFINE q == c.frame.ping
             r == Echo("EchoReply", c.to, c.frame.src, q)
  <2>1. /\ c.to \in Hosts /\ c.frame.src \in Hosts /\ q \in Pings
        /\ c.frame.type = "EchoRequest"
        /\ IsWire(Taken(c))
        /\ SubOf(Taken(c), wire, p)
        /\ SendIp(c.to, r, Taken(c))
        /\ served' = [served EXCEPT ![q] = @ + 1]
        /\ flow' = flow /\ answered' = answered
    BY <1>0, <1>4, Taking, TakingOne, FrameFields DEF HostReceiveEchoRequest
  <2>2. r \in IpFrame /\ r.ping = q /\ StageOf(r) = 1
    BY <2>1 DEF Echo, IpFrame, StageOf
  <2>3. CASE q = p
    <3>1. NoneIn(Taken(c), p) /\ Queued(p) = {}
      BY <1>0, <2>3, TakingOne
    <3>2. flow[p] # None /\ ~ (answered[p] > 0) /\ served[p] = 0
      BY <1>0, <2>1, <2>3 DEF EchoAt, Flying, StageOf
    <3>3. served'[p] = 1
      BY <1>0, <2>1, <2>3, <3>2 DEF TypeOK
    <3> HIDE DEF r
    <3>4. /\ \A d, e \in Flying(p)' : d = e /\ wire'[d] = 1 /\ d.frame = r
          /\ \A e \in Queued(p)' : e = r
          /\ Flying(p)' = {} \/ Queued(p)' = {}
      <4>1. TypeOK /\ IsWire(Taken(c)) /\ SendIp(c.to, r, Taken(c)) /\ c.to \in Hosts
        BY <1>0, <2>1
      <4>2. r \in IpFrame /\ r.ping = p
        BY <2>2, <2>3
      <4> QED
        BY <4>1, <4>2, <3>1, SendIpOne
    <3> QED
      BY <2>1, <2>2, <3>2, <3>3, <3>4 DEF EchoAt
  <2>4. CASE q # p
    <3> HIDE DEF r, q
    <3>1. SubOf(wire', Taken(c), p) /\ \A e : e \in Queued(p)' => e \in Queued(p)
      BY <1>0, <2>1, <2>2, <2>4, SendIpOthers
    <3>2. SubOf(wire', wire, p)
      BY <2>1, <3>1 DEF SubOf
    <3>3. served'[p] = served[p]
      BY <1>0, <2>1, <2>4 DEF TypeOK
    <3> QED
      BY <1>0, <2>1, <3>1, <3>2, <3>3, Untouched
  <2> QED
    BY <2>3, <2>4
<1>5. ASSUME NEW c \in BagToSet(wire), HostReceiveEchoReply(c)
      PROVE  EchoAt(p)'
  <2> DEFINE q == c.frame.ping
  <2>1. /\ q \in Pings
        /\ wire' = Taken(c) /\ SubOf(wire', wire, p)
        /\ answered' = [answered EXCEPT ![q] = @ + 1]
        /\ flow' = flow /\ served' = served /\ send_q' = send_q
    BY <1>0, <1>5, Taking, TakingOne, FrameFields DEF HostReceiveEchoReply
  <2>2. \A e : e \in Queued(p)' => e \in Queued(p)
    BY <2>1 DEF Queued
  <2>3. CASE q = p
    <3>1. NoneIn(wire', p) /\ Queued(p)' = {}
      BY <1>0, <2>1, <2>2, <2>3, TakingOne
    <3>2. Flying(p)' = {}
      BY <3>1 DEF NoneIn, Flying
    <3>3. flow'[p] # None
      BY <1>0, <2>1, <2>3 DEF EchoAt, Flying
    <3> QED
      BY <3>1, <3>2, <3>3 DEF EchoAt
  <2>4. CASE q # p
    <3>1. answered'[p] = answered[p]
      BY <1>0, <2>1, <2>4 DEF TypeOK
    <3> QED
      BY <1>0, <2>1, <2>2, <3>1, Untouched
  <2> QED
    BY <2>3, <2>4
<1>6. ASSUME NEW a \in Hosts, NEW b \in Hosts, NEW q \in Pings, Ping(a, b, q)
      PROVE  EchoAt(p)'
  <2> DEFINE r == Echo("EchoRequest", a, b, q)
  <2>1. /\ flow[q] = None /\ flow' = [flow EXCEPT ![q] = <<a, b>>]
        /\ SendIp(a, r, wire) /\ IsWire(wire)
        /\ served' = served /\ answered' = answered
    BY <1>0, <1>6 DEF Ping, TypeOK
  <2>2. r \in IpFrame /\ r.ping = q /\ StageOf(r) = 0
    BY DEF Echo, IpFrame, StageOf
  <2>3. CASE q = p
    <3>1. NoneIn(wire, p) /\ Queued(p) = {}
      BY <1>0, <2>1, <2>3 DEF EchoAt, NoneIn, Flying
    <3>2. flow'[p] # None
      BY <1>0, <2>1, <2>3, NamesAssumption DEF TypeOK
    <3> HIDE DEF r
    <3>3. /\ \A d, e \in Flying(p)' : d = e /\ wire'[d] = 1 /\ d.frame = r
          /\ \A e \in Queued(p)' : e = r
          /\ Flying(p)' = {} \/ Queued(p)' = {}
      BY <1>0, <2>1, <2>2, <2>3, <3>1, SendIpOne
    <3>4. ~ (answered'[p] > 0) /\ served'[p] = 0
      BY <1>0, <2>1, <2>3 DEF EchoAt
    <3> QED
      BY <2>2, <3>2, <3>3, <3>4 DEF EchoAt
  <2>4. CASE q # p
    <3> HIDE DEF r
    <3>1. SubOf(wire', wire, p) /\ \A e : e \in Queued(p)' => e \in Queued(p)
      BY <1>0, <2>1, <2>2, <2>4, SendIpOthers
    <3>2. flow'[p] = flow[p]
      BY <1>0, <2>1, <2>4 DEF TypeOK
    <3> QED
      BY <1>0, <2>1, <3>1, <3>2, Untouched
  <2> QED
    BY <2>3, <2>4
<1>7. ASSUME UNCHANGED <<send_q, wire, flow, served, answered>>
      PROVE  EchoAt(p)'
  <2>1. SubOf(wire', wire, p) /\ \A e : e \in Queued(p)' => e \in Queued(p)
    BY <1>7 DEF SubOf, Queued
  <2> QED
    BY <1>0, <1>7, <2>1, Untouched
<1>8. ASSUME NEW l \in Trunks, LinkDown(l) \/ LinkUp(l)
      PROVE  EchoAt(p)'
  BY <1>7, <1>8 DEF LinkDown, LinkUp
<1>9. CASE UNCHANGED vars
  BY <1>7, <1>9 DEF vars
<1> QED
  BY <1>1, <1>2, <1>3, <1>4, <1>5, <1>6, <1>8, <1>9
     DEF Next, Deliver, Environment, Receive

LEMMA EchoInit == Init => EchoInv
<1> SUFFICES ASSUME Init
             PROVE  EchoInv
  OBVIOUS
<1>1. BagToSet(wire) = {}
  BY DEF Init, EmptyBag, SetToBag, BagToSet
<1>2. \A p \in Pings : Flying(p) = {} /\ Queued(p) = {}
  BY <1>1 DEF Init, Flying, Queued
<1> QED
  BY <1>2 DEF Init, EchoInv, OnePlace, StageOK

(* The inductive invariant.                                                *)
LEMMA Invariance == Spec => []IInv
  BY NetInit, NetStep, EchoInit, EchoStep, PTL DEF Spec, IInv

(* An echo packet is never in two places: neither flooding nor the flush   *)
(* of an ARP queue (arp.py:96-101) ever duplicates it.                     *)
THEOREM NeverDuplicated == Spec => []OnePlace
<1>1. IInv => OnePlace
  BY DEF IInv, EchoInv
<1> QED
  BY <1>1, Invariance, PTL

-----------------------------------------------------------------------------
(***************************************************************************)
(* The network implements EchoService, on the variables they share: a host *)
(* that takes a request serves it for the first time, and a reply is taken *)
(* once and only after that.                                               *)
(***************************************************************************)
LEMMA ServiceStep == IInv /\ [Next]_vars => [Service!Next]_<<flow, served, answered>>
<1> SUFFICES ASSUME IInv, [Next]_vars
             PROVE  Service!Next \/ UNCHANGED <<flow, served, answered>>
  OBVIOUS
<1>0. TypeOK /\ \A p \in Pings : EchoAt(p)
  BY EchoAll DEF IInv, NetInv
<1>1. ASSUME NEW a \in Hosts, NEW b \in Hosts, NEW p \in Pings, Ping(a, b, p)
      PROVE  Service!Next
  BY <1>1 DEF Ping, Service!Next, Service!Start
<1>2. ASSUME NEW c \in BagToSet(wire), HostReceiveEchoRequest(c)
      PROVE  Service!Next
  <2> DEFINE p == c.frame.ping
  <2>1. /\ p \in Pings /\ c \in Flying(p) /\ c.frame.type = "EchoRequest"
        /\ served' = [served EXCEPT ![p] = @ + 1]
        /\ flow' = flow /\ answered' = answered
    BY <1>0, <1>2, Taking, FrameFields DEF HostReceiveEchoRequest, Flying
  <2> HIDE DEF p
  <2>2. flow[p] # None /\ served[p] = 0
    BY <1>0, <2>1 DEF EchoAt, StageOf
  <2>3. Service!Serve(p)
    BY <2>1, <2>2 DEF Service!Serve
  <2> QED
    BY <2>1, <2>3 DEF Service!Next
<1>3. ASSUME NEW c \in BagToSet(wire), HostReceiveEchoReply(c)
      PROVE  Service!Next
  <2> DEFINE p == c.frame.ping
  <2>1. /\ p \in Pings /\ c \in Flying(p) /\ c.frame.type = "EchoReply"
        /\ answered' = [answered EXCEPT ![p] = @ + 1]
        /\ flow' = flow /\ served' = served
    BY <1>0, <1>3, Taking, FrameFields DEF HostReceiveEchoReply, Flying
  <2> HIDE DEF p
  <2>2. served[p] = 1 /\ ~ (answered[p] > 0) /\ answered[p] \in Nat
    BY <1>0, <2>1 DEF EchoAt, StageOf, TypeOK
  <2>3. answered[p] = 0 /\ answered[p] + 1 = 1
    BY <2>2
  <2>4. Service!Answer(p)
    BY <2>1, <2>2, <2>3 DEF Service!Answer
  <2> QED
    BY <2>1, <2>4 DEF Service!Next
<1>4. ASSUME NEW c \in BagToSet(wire),
             SwitchReceive(c) \/ HostIgnore(c) \/ HostReceiveArp(c) \/ Lose(c)
      PROVE  UNCHANGED <<flow, served, answered>>
  BY <1>4 DEF SwitchReceive, HostIgnore, HostReceiveArp, Cached, Lose
<1>5. ASSUME NEW l \in Trunks, LinkDown(l) \/ LinkUp(l)
      PROVE  UNCHANGED <<flow, served, answered>>
  BY <1>5 DEF LinkDown, LinkUp
<1>6. CASE UNCHANGED vars
  BY <1>6 DEF vars
<1> QED
  BY <1>1, <1>2, <1>3, <1>4, <1>5, <1>6 DEF Next, Deliver, Environment, Receive

(* Whatever the tree, the order of the frames and the trunks that fail, an *)
(* echo exchange is served at most once and answered at most once, after   *)
(* it was served (netdevice.py:105-150).                                   *)
THEOREM ImplementsEchoService == Spec => EchoServiceSpec
<1>1. Init => Service!Init
  BY DEF Init, Service!Init
<1> QED
  BY <1>1, Invariance, ServiceStep, PTL
     DEF Spec, EchoServiceSpec, Service!Spec, Service!svars

-----------------------------------------------------------------------------
(***************************************************************************)
(* No packet waits in vain: while no link has failed, every packet in an   *)
(* ARP queue has an exchange under way that will send it.  A unicast frame *)
(* comes to no host but its target, so the reply cannot be ignored.        *)
(***************************************************************************)
AtTarget ==
  \A c \in BagToSet(wire) : c.to \in Hosts /\ ~ IsBroadcast(c.frame) => c.frame.target = c.to

Brings(c, h, g) ==
  \/ /\ c.frame = Arp("ArpRequest", h, g)
     /\ c.to \in Switches => Toward[c.to][g] # c.from
     /\ c.to \in Hosts => c.to = g
  \/ c.frame = Arp("ArpReply", g, h)

AwaitInv == NetInv /\ down = {} /\ AtTarget /\ QueueIsAwaited

(* With no link down every copy is sent, and taking one leaves the others. *)
LEMMA SendingAll ==
  ASSUME down = {}, NEW W, IsWire(W), NEW n \in Nodes, NEW M, NEW F,
         NEW A, A = W (+) Sent(n, M, F), NEW m \in M, NEW f \in F
  PROVE  [from |-> n, to |-> m, frame |-> f] \in BagToSet(A)
<1> DEFINE S == {c \in [from : {n}, to : M, frame : F] : {n, c.to} \notin down}
           d == [from |-> n, to |-> m, frame |-> f]
<1>1. A = W (+) SetToBag(S)
  BY DEF Sent
<1>2. d \in S
  OBVIOUS
<1> HIDE DEF S, d
<1>3. d \in DOMAIN A
  BY <1>1, <1>2, BagAdd DEF IsWire
<1> QED
  BY <1>3 DEF BagToSet, d

LEMMA TakingOthers ==
  ASSUME TypeOK, NEW c \in BagToSet(wire), NEW d \in BagToSet(wire), d # c
  PROVE  d \in BagToSet(Taken(c))
<1>1. IsABag(wire)
  BY DEF TypeOK, IsWire
<1> QED
  BY <1>1, BagTake DEF Taken, BagToSet

(* A request of host h for g starts on a way to g.                         *)
LEMMA RequestBrings ==
  ASSUME NEW h \in Hosts, NEW g \in Hosts, h # g, NEW d,
         d = [from |-> h, to |-> Attach[h], frame |-> Arp("ArpRequest", h, g)]
  PROVE  Brings(d, h, g)
<1>1. Attach[h] \in Switches /\ Attach[h] \notin Hosts
  BY TreeAssumption, NamesAssumption
<1>2. Toward[Attach[h]][g] # h
  BY <1>1, TreeAssumption
<1>3. d.from = h /\ d.to = Attach[h] /\ d.frame = Arp("ArpRequest", h, g)
  OBVIOUS
<1> QED
  BY <1>1, <1>2, <1>3 DEF Brings

(* Sending an IP packet: what is queued anew is asked for.                 *)
LEMMA SendIpAwaits ==
  ASSUME TypeOK, down = {}, NEW W, IsWire(W),
         NEW h \in Hosts, NEW f \in IpFrame, f.target # h, SendIp(h, f, W)
  PROVE  /\ \A d \in BagToSet(W) : d \in BagToSet(wire')
         /\ \A d \in BagToSet(wire') : d \in BagToSet(W) \/ d.to \notin Hosts
         /\ \A k, g \in Hosts : send_q'[k][g] # {} =>
              send_q[k][g] # {} \/ \E d \in BagToSet(wire') : Brings(d, k, g)
<1>1. /\ h \in Nodes /\ NodeSet({Attach[h]}) /\ f.target \in Hosts
      /\ Attach[h] \notin Hosts
  BY TreeAssumption, NamesAssumption DEF Nodes, NodeSet, IpFrame
<1>2. CASE f.target \in cache[h]
  <2>1. wire' = W (+) Sent(h, {Attach[h]}, {f}) /\ send_q' = send_q
    BY <1>2 DEF SendIp
  <2>2. FrameSet({f})
    BY DEF FrameSet, Frame
  <2>3. /\ \A d : d \in BagToSet(W) => d \in BagToSet(wire')
        /\ \A d : d \in BagToSet(wire') => d \in BagToSet(W) \/ IsSent(d, h, {Attach[h]}, {f})
    <3>1. \A d : d \in BagToSet(W) => d \in BagToSet(wire')
      BY <1>1, <2>1, <2>2, Sending
    <3>2. \A d : d \in BagToSet(wire') => d \in BagToSet(W) \/ IsSent(d, h, {Attach[h]}, {f})
      BY <1>1, <2>1, <2>2, Sending
    <3> QED
      BY <3>1, <3>2
  <2> QED
    BY <1>1, <2>1, <2>3 DEF IsSent
<1>3. CASE f.target \notin cache[h]
  <2> DEFINE r == Arp("ArpRequest", h, f.target)
             x == [from |-> h, to |-> Attach[h], frame |-> r]
  <2>1. /\ wire' = W (+) Sent(h, {Attach[h]}, {r})
        /\ send_q' = [send_q EXCEPT ![h][f.target] = @ \cup {f}]
    BY <1>3 DEF SendIp, Enqueued
  <2>2. FrameSet({r})
    BY <1>1 DEF FrameSet, Frame, ArpFrame, Arp
  <2>3. Brings(x, h, f.target)
    BY <1>1, RequestBrings
  <2> HIDE DEF r
  <2>4. /\ \A d : d \in BagToSet(W) => d \in BagToSet(wire')
        /\ \A d : d \in BagToSet(wire') => d \in BagToSet(W) \/ IsSent(d, h, {Attach[h]}, {r})
    <3>1. \A d : d \in BagToSet(W) => d \in BagToSet(wire')
      BY <1>1, <2>1, <2>2, Sending
    <3>2. \A d : d \in BagToSet(wire') => d \in BagToSet(W) \/ IsSent(d, h, {Attach[h]}, {r})
      BY <1>1, <2>1, <2>2, Sending
    <3> QED
      BY <3>1, <3>2
  <2>5. x \in BagToSet(wire')
    BY <1>1, <2>1, SendingAll
  <2> HIDE DEF x
  <2>6. \A k, g \in Hosts : send_q'[k][g] # {} => send_q[k][g] # {} \/ (k = h /\ g = f.target)
    BY <1>1, <2>1 DEF TypeOK
  <2> QED
    BY <1>1, <2>3, <2>4, <2>5, <2>6 DEF IsSent
<1> QED
  BY <1>2, <1>3

LEMMA AwaitStep ==
  ASSUME MaxFlaps = 0
  PROVE  AwaitInv /\ [Next]_vars => (down = {} /\ AtTarget /\ QueueIsAwaited)'
<1> SUFFICES ASSUME AwaitInv, [Next]_vars
             PROVE  (down = {} /\ AtTarget /\ QueueIsAwaited)'
  OBVIOUS
<1>0. /\ NetInv /\ TypeOK /\ PathsLeadHome /\ QueueOK /\ down = {}
      /\ \A c \in BagToSet(wire) : c.to \in Hosts /\ ~ IsBroadcast(c.frame) => c.frame.target = c.to
      /\ \A h, g \in Hosts : send_q[h][g] # {} => \E c \in BagToSet(wire) : Brings(c, h, g)
  BY DEF AwaitInv, NetInv, AtTarget, QueueIsAwaited, Brings
<1>g. ASSUME down' = {},
             \A d \in BagToSet(wire') : d.to \in Hosts /\ ~ IsBroadcast(d.frame) => d.frame.target = d.to,
             \A h, g \in Hosts : send_q'[h][g] # {} => \E d \in BagToSet(wire') : Brings(d, h, g)
      PROVE  (down = {} /\ AtTarget /\ QueueIsAwaited)'
  BY <1>g DEF AtTarget, QueueIsAwaited, Brings
<1>b. \A h, g \in Hosts : /\ IsBroadcast(Arp("ArpRequest", h, g))
                         /\ ~ IsBroadcast(Arp("ArpReply", h, g))
  BY DEF IsBroadcast, Arp
<1>1. ASSUME NEW c \in BagToSet(wire), SwitchReceive(c)
      PROVE  (down = {} /\ AtTarget /\ QueueIsAwaited)'
  <2> DEFINE s == c.to
             M == OutPorts(c.to, c)
             f == c.frame
  <2>1. /\ GoodCopy(c) /\ c \in Copy /\ s \in Switches /\ s \in Nodes /\ s \notin Hosts
        /\ f \in Frame /\ f.target \in Hosts /\ IsWire(Taken(c))
        /\ wire' = Taken(c) (+) Sent(s, M, {f})
        /\ send_q' = send_q /\ down' = {}
    BY <1>0, <1>1, TakenGood, FrameFields, NamesAssumption DEF SwitchReceive, Copy, Nodes
  <2>2. NodeSet(M) /\ FrameSet({f})
    BY <1>0, <2>1, TreeAssumption DEF OutPorts, LookupMac, TypeOK, NodeSet, FrameSet
  <2>3. ~ IsBroadcast(f) =>
          /\ table[s][f.target] = Toward[s][f.target] /\ M = {Toward[s][f.target]}
          /\ Toward[s][f.target] \in Hosts => Toward[s][f.target] = f.target
    BY <1>0, <2>1, TreeAssumption DEF GoodCopy, PathsLeadHome, OutPorts, LookupMac
  <2>4. IsBroadcast(f) => M = Nbr[s] \ {c.from}
    BY DEF OutPorts
  <2>5. /\ \A m \in M : [from |-> s, to |-> m, frame |-> f] \in BagToSet(wire')
        /\ \A d : d \in BagToSet(Taken(c)) => d \in BagToSet(wire')
        /\ \A d : d \in BagToSet(wire') => d \in BagToSet(Taken(c)) \/ IsSent(d, s, M, {f})
    <3> HIDE DEF s, M, f
    <3>1. \A m \in M : [from |-> s, to |-> m, frame |-> f] \in BagToSet(wire')
      BY <1>0, <2>1, SendingAll
    <3>2. \A d : d \in BagToSet(Taken(c)) => d \in BagToSet(wire')
      BY <2>1, <2>2, Sending
    <3>3. \A d : d \in BagToSet(wire') => d \in BagToSet(Taken(c)) \/ IsSent(d, s, M, {f})
      BY <2>1, <2>2, Sending
    <3> QED
      BY <3>1, <3>2, <3>3
  <2>6. \A d \in BagToSet(wire') : d.to \in Hosts /\ ~ IsBroadcast(d.frame) => d.frame.target = d.to
    <3> SUFFICES ASSUME NEW d \in BagToSet(wire'), d.to \in Hosts, ~ IsBroadcast(d.frame)
                 PROVE  d.frame.target = d.to
      OBVIOUS
    <3>1. CASE d \in BagToSet(Taken(c))
      BY <1>0, <3>1, Taking
    <3>2. CASE IsSent(d, s, M, {f})
      <4>1. d.to \in M /\ d.frame = f
        BY <3>2 DEF IsSent
      <4> QED
        BY <2>3, <4>1
    <3> QED
      BY <2>5, <3>1, <3>2
  <2>7. \A h, g \in Hosts : Brings(c, h, g) => \E d \in BagToSet(wire') : Brings(d, h, g)
    <3> SUFFICES ASSUME NEW h \in Hosts, NEW g \in Hosts, Brings(c, h, g)
                 PROVE  \E m \in M : Brings([from |-> s, to |-> m, frame |-> f], h, g)
      BY <2>5
    <3>1. CASE f = Arp("ArpReply", h, g) \/ f = Arp("ArpReply", g, h)
      <4>1. Toward[s][f.target] \in M
        BY <1>b, <2>3, <3>1
      <4>2. f = Arp("ArpReply", g, h)
        BY <3>1 DEF Brings, Arp
      <4>3. Brings([from |-> s, to |-> Toward[s][f.target], frame |-> f], h, g)
        BY <4>2 DEF Brings
      <4> QED
        BY <4>1, <4>3
    <3>2. CASE f = Arp("ArpRequest", h, g)
      <4> DEFINE m == Toward[s][g]
                 x == [from |-> s, to |-> m, frame |-> f]
      <4>1. m # c.from
        BY <2>1, <3>2 DEF Brings, Arp
      <4>2. m \in M
        BY <1>b, <2>1, <2>4, <3>2, <4>1, TreeAssumption
      <4>3. (m \in Switches => Toward[m][g] # s) /\ (m \in Hosts => m = g)
        BY <2>1, TreeAssumption
      <4>4. x.from = s /\ x.to = m /\ x.frame = f
        OBVIOUS
      <4> HIDE DEF x
      <4>5. Brings(x, h, g)
        BY <3>2, <4>3, <4>4 DEF Brings
      <4> QED
        BY <4>2, <4>5 DEF x
    <3> QED
      BY <3>1, <3>2 DEF Brings
  <2>8. \A h, g \in Hosts : send_q'[h][g] # {} => \E d \in BagToSet(wire') : Brings(d, h, g)
    BY <1>0, <2>1, <2>5, <2>7, TakingOthers
  <2> QED
    BY <1>g, <2>1, <2>6, <2>8
<1>2. ASSUME NEW c \in BagToSet(wire), HostIgnore(c) \/ HostReceiveEchoReply(c)
      PROVE  (down = {} /\ AtTarget /\ QueueIsAwaited)'
  <2>1. wire' = Taken(c) /\ send_q' = send_q /\ down' = {} /\ c.to \in Hosts /\ c.to \notin Switches
    BY <1>0, <1>2, NamesAssumption DEF HostIgnore, HostReceiveEchoReply
  <2>2. \A h, g \in Hosts : ~ Brings(c, h, g)
    BY <1>0, <1>2, <1>b, <2>1 DEF HostIgnore, HostReceiveEchoReply, Accepts, Brings, Arp
  <2>3. \A h, g \in Hosts : send_q'[h][g] # {} => \E d \in BagToSet(wire') : Brings(d, h, g)
    BY <1>0, <2>1, <2>2, TakingOthers
  <2>4. \A d \in BagToSet(wire') : d.to \in Hosts /\ ~ IsBroadcast(d.frame) => d.frame.target = d.to
    BY <1>0, <2>1, Taking
  <2> QED
    BY <1>g, <2>1, <2>3, <2>4
<1>8. ASSUME UNCHANGED <<wire, send_q, down>>
      PROVE  (down = {} /\ AtTarget /\ QueueIsAwaited)'
  BY <1>0, <1>8, <1>g
<1>7. ASSUME NEW l \in Trunks, LinkDown(l) \/ LinkUp(l)
      PROVE  FALSE
  BY <1>0, <1>7 DEF LinkDown, LinkUp, TypeOK
<1>9. ASSUME NEW c \in BagToSet(wire), Lose(c) PROVE FALSE
  BY <1>0, <1>9 DEF Lose
<1>3. ASSUME NEW c \in BagToSet(wire), HostReceiveArp(c)
      PROVE  (down = {} /\ AtTarget /\ QueueIsAwaited)'
  <2> DEFINE k == c.to
             f == c.frame
             F == ArpAnswer(k, f) \cup send_q[k][f.src]
  <2>1. /\ k \in Hosts /\ k \notin Switches /\ f \in Frame /\ f.src \in Hosts /\ f.target \in Hosts
        /\ IsWire(Taken(c)) /\ k \in Nodes /\ NodeSet({Attach[k]}) /\ Attach[k] \notin Hosts
    BY <1>0, <1>3, TakenGood, FrameFields, TreeAssumption, NamesAssumption
       DEF HostReceiveArp, Copy, Nodes, NodeSet
  <2>2. /\ wire' = Taken(c) (+) Sent(k, {Attach[k]}, F)
        /\ send_q' = [send_q EXCEPT ![k][f.src] = {}]
        /\ down' = {}
    BY <1>0, <1>3 DEF HostReceiveArp, Flushed
  <2>3. FrameSet(F)
    BY <1>0, <2>1 DEF FrameSet, ArpAnswer, Arp, Frame, ArpFrame, TypeOK
  <2>4. \A h, g \in Hosts :
          send_q'[h][g] # {} => send_q[h][g] # {} /\ ~ (h = k /\ g = f.src)
    BY <1>0, <2>1, <2>2 DEF TypeOK
  <2>5. /\ \A d : d \in BagToSet(Taken(c)) => d \in BagToSet(wire')
        /\ \A d : d \in BagToSet(wire') => d \in BagToSet(Taken(c)) \/ IsSent(d, k, {Attach[k]}, F)
        /\ \A e \in F : [from |-> k, to |-> Attach[k], frame |-> e] \in BagToSet(wire')
    <3> HIDE DEF k, f, F
    <3>1. \A d : d \in BagToSet(Taken(c)) => d \in BagToSet(wire')
      BY <2>1, <2>2, <2>3, Sending
    <3>2. \A d : d \in BagToSet(wire') => d \in BagToSet(Taken(c)) \/ IsSent(d, k, {Attach[k]}, F)
      BY <2>1, <2>2, <2>3, Sending
    <3> DEFINE M == {Attach[k]}
    <3>3. Attach[k] \in M /\ wire' = Taken(c) (+) Sent(k, M, F)
      BY <2>2
    <3> HIDE DEF M
    <3>4. \A e \in F : [from |-> k, to |-> Attach[k], frame |-> e] \in BagToSet(wire')
      BY <1>0, <2>1, <3>3, SendingAll
    <3> QED
      BY <3>1, <3>2, <3>4
  <2>6. \A d \in BagToSet(wire') : d.to \in Hosts /\ ~ IsBroadcast(d.frame) => d.frame.target = d.to
    BY <1>0, <2>1, <2>5, Taking DEF IsSent
  <2>7. ASSUME NEW h \in Hosts, NEW g \in Hosts, send_q'[h][g] # {}, Brings(c, h, g)
        PROVE  \E d \in BagToSet(wire') : Brings(d, h, g)
    <3>1. CASE f = Arp("ArpRequest", h, g)
      <4>1. k = g
        BY <2>1, <2>7, <3>1, <1>b DEF Brings, Arp
      <4>2. Arp("ArpReply", g, h) \in F
        BY <3>1, <4>1 DEF ArpAnswer, Arp
      <4>3. Brings([from |-> k, to |-> Attach[k], frame |-> Arp("ArpReply", g, h)], h, g)
        BY DEF Brings
      <4> QED
        BY <2>5, <4>2, <4>3
    <3>2. CASE f = Arp("ArpReply", g, h)
      <4>1. f.src = g /\ f.target = h /\ ~ IsBroadcast(f)
        BY <3>2 DEF Arp, IsBroadcast
      <4>2. k = h
        BY <1>0, <2>1, <4>1
      <4> QED
        BY <2>4, <2>7, <4>1, <4>2
    <3> QED
      BY <2>7, <3>1, <3>2 DEF Brings
  <2> HIDE DEF k, f, F
  <2>8. \A h, g \in Hosts : send_q'[h][g] # {} => \E d \in BagToSet(wire') : Brings(d, h, g)
    BY <1>0, <2>4, <2>5, <2>7, TakingOthers
  <2> QED
    BY <1>g, <2>2, <2>6, <2>8
<1>4. ASSUME NEW c \in BagToSet(wire), HostReceiveEchoRequest(c)
      PROVE  (down = {} /\ AtTarget /\ QueueIsAwaited)'
  <2> DEFINE r == Echo("EchoReply", c.to, c.frame.src, c.frame.ping)
  <2>1. /\ c.to \in Hosts /\ c.frame.src \in Hosts /\ c.frame.ping \in Pings
        /\ c.to # c.frame.src /\ c.frame.type = "EchoRequest"
        /\ IsWire(Taken(c)) /\ down' = {}
        /\ SendIp(c.to, r, Taken(c))
    BY <1>0, <1>4, TakenGood, FrameFields DEF HostReceiveEchoRequest, Copy, GoodCopy
  <2>2. r \in IpFrame /\ r.target # c.to
    BY <2>1 DEF Echo, IpFrame
  <2> HIDE DEF r
  <2>3. /\ \A d \in BagToSet(Taken(c)) : d \in BagToSet(wire')
        /\ \A d \in BagToSet(wire') : d \in BagToSet(Taken(c)) \/ d.to \notin Hosts
        /\ \A k, g \in Hosts : send_q'[k][g] # {} =>
              send_q[k][g] # {} \/ \E d \in BagToSet(wire') : Brings(d, k, g)
    BY <1>0, <2>1, <2>2, SendIpAwaits
  <2>4. \A h, g \in Hosts : ~ Brings(c, h, g)
    BY <2>1 DEF Brings, Arp
  <2>5. \A h, g \in Hosts : send_q'[h][g] # {} => \E d \in BagToSet(wire') : Brings(d, h, g)
    BY <1>0, <2>3, <2>4, TakingOthers
  <2>6. \A d \in BagToSet(wire') : d.to \in Hosts /\ ~ IsBroadcast(d.frame) => d.frame.target = d.to
    BY <1>0, <2>3, Taking
  <2> QED
    BY <1>g, <2>1, <2>5, <2>6
<1>5. ASSUME NEW a \in Hosts, NEW b \in Hosts, NEW p \in Pings, Ping(a, b, p)
      PROVE  (down = {} /\ AtTarget /\ QueueIsAwaited)'
  <2> DEFINE r == Echo("EchoRequest", a, b, p)
  <2>1. SendIp(a, r, wire) /\ IsWire(wire) /\ down' = {} /\ r \in IpFrame /\ r.target # a
    BY <1>0, <1>5 DEF Ping, TypeOK, Echo, IpFrame
  <2> HIDE DEF r
  <2>2. /\ \A d \in BagToSet(wire) : d \in BagToSet(wire')
        /\ \A d \in BagToSet(wire') : d \in BagToSet(wire) \/ d.to \notin Hosts
        /\ \A k, g \in Hosts : send_q'[k][g] # {} =>
              send_q[k][g] # {} \/ \E d \in BagToSet(wire') : Brings(d, k, g)
    BY <1>0, <2>1, SendIpAwaits
  <2>3. \A h, g \in Hosts : send_q'[h][g] # {} => \E d \in BagToSet(wire') : Brings(d, h, g)
    BY <1>0, <2>2
  <2> QED
    BY <1>0, <1>g, <2>1, <2>2, <2>3
<1>6. CASE UNCHANGED vars
  BY <1>6, <1>8 DEF vars
<1> QED
  BY <1>1, <1>2, <1>3, <1>4, <1>5, <1>6, <1>7, <1>9 DEF Next, Deliver, Environment, Receive

(* While no link fails, a host that keeps packets for an address has an    *)
(* ARP exchange for it under way (server.py:205-207 never repeats one), in *)
(* every tree and for every order of the frames.                           *)
THEOREM QueueAlwaysAwaited ==
  ASSUME MaxFlaps = 0
  PROVE  Spec => []QueueIsAwaited
<1>1. Init => AwaitInv
  <2> SUFFICES ASSUME Init PROVE AwaitInv
    OBVIOUS
  <2>1. BagToSet(wire) = {}
    BY DEF Init, EmptyBag, SetToBag, BagToSet
  <2>2. \A h, g \in Hosts : send_q[h][g] = {}
    BY DEF Init
  <2> QED
    BY <2>1, <2>2, NetInit DEF Init, AwaitInv, AtTarget, QueueIsAwaited
<1>2. AwaitInv /\ [Next]_vars => AwaitInv'
  BY NetStep, AwaitStep DEF AwaitInv
<1>3. AwaitInv => QueueIsAwaited
  BY DEF AwaitInv
<1> QED
  BY <1>1, <1>2, <1>3, PTL DEF Spec
=============================================================================
