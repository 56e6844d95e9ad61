----------------------------- MODULE PingProofs -----------------------------
(***************************************************************************)
(* Proofs about Ping, for any number of series and of requests, any loss,  *)
(* delay and order of the replies, and any changes of the route.           *)
(***************************************************************************)
EXTENDS Ping, FiniteSetTheorems, SequenceTheorems, TLAPS

(* The worlds of a device with the series of K.                            *)
SeriesState == [remaining : Int, lastsent : Nat, lost : {"none", "yes", "no"}, unrouted : BOOLEAN]

Events(K) == [type : {"first", "timer", "reply"}, series : K, id : Nat]

Worlds(K) ==
  [device : [pingid : Nat, listeners : Seq(K), series : [K -> SeriesState]],
   queue : SUBSET Events(K)]

(* The handlers of the listener list are of different series.              *)
Distinct(s) == \A i, j \in 1 .. Len(s) : s[i] = s[j] => i = j

(* What a world w promises beside the events of E.                         *)
Looked(w, E, k) ==
  Contains(w.device.listeners, k) =>
    \/ w.device.series[k].unrouted
    \/ \E e \in E \cup w.queue : e.series = k /\ e.type \in {"first", "timer"}

Asked(w, E, k) ==
  w.device.series[k].remaining >= (IF On("first", k, 0) \in E THEN 0 ELSE -1)

(* The id of a request was given to one series only, and a reply bears the *)
(* id of a request that was sent.                                          *)
IdsKnown(w, E) ==
  /\ \A e \in E \cup w.queue : e.type = "reply" => e.id <= w.device.pingid
  /\ \A k \in DOMAIN w.device.series :
       w.device.series[k].lost = "yes" =>
         /\ w.device.series[k].lastsent <= w.device.pingid
         /\ \A e \in E \cup w.queue :
              e.type = "reply" /\ e.id = w.device.series[k].lastsent => e.series = k

(* J are the series that are looked after, K all that were started.        *)
Good(w, E, J, K) ==
  /\ w \in Worlds(K) /\ E \subseteq Events(K)
  /\ \A e \in w.queue : e.type # "first"
  /\ Distinct(w.device.listeners)
  /\ \A k \in J : Looked(w, E, k)
  /\ \A k \in K : Asked(w, E, k)
  /\ IdsKnown(w, E)

World == [device |-> device, queue |-> {}]

IInv ==
  /\ DOMAIN device.series \subseteq Series
  /\ \A e \in events : e.type = "first" => e.id = 0
  /\ Good(World, events, DOMAIN device.series, DOMAIN device.series)

-----------------------------------------------------------------------------
LEMMA HasLeast ==
  ASSUME NEW K \in SUBSET Nat, K # {}
  PROVE  \E k \in K : \A j \in K : k <= j
<1> DEFINE R == OpToRel(<, Nat)
<1>1. R = {x \in Nat \X Nat : x[1] < x[2]}
  BY DEF OpToRel
<1>2. IsWellFoundedOn(R, Nat)
  BY NatLessThanWellFounded
<1> HIDE DEF R
<1>3. \E k \in K : \A j \in K : <<j, k>> \notin R
  BY <1>2, WFMin
<1>4. ASSUME NEW j \in Nat, NEW k \in Nat, <<j, k>> \notin R PROVE k <= j
  <2>1. ~ (j < k)
    BY <1>1, <1>4
  <2> QED
    BY <2>1
<1> QED
  BY <1>3, <1>4

(* What holds of 0 and goes from i - 1 to i holds of 0 .. n.               *)
LEMMA UpTo ==
  ASSUME NEW n \in Nat, NEW S, 0 \in S, \A i \in 1 .. n : i - 1 \in S => i \in S
  PROVE  0 .. n \subseteq S
<1> SUFFICES ASSUME NEW x \in 0 .. n, x \notin S PROVE FALSE
  OBVIOUS
<1> DEFINE B == {i \in 0 .. n : i \notin S}
<1>1. B \in SUBSET Nat /\ B # {}
  OBVIOUS
<1>2. PICK b \in B : \A c \in B : b <= c
  <2> HIDE DEF B
  <2> QED
    BY <1>1, HasLeast
<1>3. b \in 1 .. n /\ b - 1 \in 0 .. n /\ b - 1 \notin B
  BY <1>2
<1> QED
  BY <1>2, <1>3

(* The values of a loop of n rounds: step i takes a value of W to the next.*)
Loop(f, n, W, w, step) ==
  /\ f \in [0 .. n -> W]
  /\ f[0] = w /\ \A i \in 1 .. n : f[i] = step[<<f[i - 1], i>>]

LEMMA Rounds ==
  ASSUME NEW n \in Nat, NEW W, NEW w \in W, NEW step \in [W \X (1 .. n) -> W]
  PROVE  \E f : Loop(f, n, W, w, step)
<1> DEFINE Upto(m, f) == f[0] = w /\ \A i \in 1 .. m : f[i] = step[<<f[i - 1], i>>]
           S == {m \in 0 .. n : \E f \in [0 .. m -> W] : Upto(m, f)}
<1>1. 0 \in S
  <2> DEFINE g == [i \in 0 .. 0 |-> w]
  <2>1. g \in [0 .. 0 -> W] /\ g[0] = w
    OBVIOUS
  <2> HIDE DEF g
  <2>2. Upto(0, g)
    BY <2>1
  <2>3. 0 \in 0 .. n
    OBVIOUS
  <2> HIDE DEF Upto
  <2> QED
    BY <2>1, <2>2, <2>3
<1>2. ASSUME NEW m \in 1 .. n, m - 1 \in S PROVE m \in S
  <2>1. PICK f \in [0 .. (m - 1) -> W] : Upto(m - 1, f)
    BY <1>2
  <2> DEFINE g == [i \in 0 .. m |-> IF i = m THEN step[<<f[m - 1], m>>] ELSE f[i]]
  <2>2. f[m - 1] \in W
    OBVIOUS
  <2>3. g \in [0 .. m -> W]
    BY <2>2
  <2>4. g[0] = w
    BY <2>1
  <2>5. ASSUME NEW i \in 1 .. m PROVE g[i] = step[<<g[i - 1], i>>]
    <3>1. i - 1 \in 0 .. (m - 1) /\ g[i - 1] = f[i - 1]
      OBVIOUS
    <3>2. CASE i = m
      <4>1. g[i] = step[<<f[m - 1], m>>]
        BY <3>2
      <4> QED
        BY <3>1, <3>2, <4>1, Zenon
    <3>3. CASE i # m
      BY <3>1, <3>3, <2>1
    <3> QED
      BY <3>2, <3>3
  <2> HIDE DEF g
  <2>6. Upto(m, g)
    BY <2>4, <2>5
  <2> HIDE DEF Upto
  <2> QED
    BY <2>3, <2>6
<1> HIDE DEF S
<1>3. n \in S
  BY <1>1, <1>2, UpTo
<1> QED
  BY <1>3 DEF S, Loop

-----------------------------------------------------------------------------
(* stop_listening takes the handler it is asked for and no other.          *)
LEMMA Removes ==
  ASSUME NEW K, NEW s \in Seq(K), Distinct(s), NEW k
  PROVE  /\ RemoveFirst(s, k) \in Seq(K)
         /\ Distinct(RemoveFirst(s, k))
         /\ \A x : Contains(RemoveFirst(s, k), x) => Contains(s, x) /\ x # k
<1>1. Len(s) \in Nat /\ DOMAIN s = 1 .. Len(s)
  OBVIOUS
<1>2. CASE ~ \E i \in 1 .. Len(s) : s[i] = k
  BY <1>2 DEF RemoveFirst, Contains
<1>3. CASE \E i \in 1 .. Len(s) : s[i] = k
  <2> DEFINE I == {i \in 1 .. Len(s) : s[i] = k}
             m == Min(I)
             a == SubSeq(s, 1, m - 1)
             b == SubSeq(s, m + 1, Len(s))
             c == a \o b
  <2>1. SelectInSeq(s, LAMBDA v : v = k) = m
    BY <1>3 DEF SelectInSeq
  <2>2. RemoveFirst(s, k) = c
    BY <2>1, <1>3 DEF RemoveFirst, RemoveAt
  <2>3. m \in I
    <3>1. I \in SUBSET Nat /\ I # {}
      BY <1>1, <1>3
    <3> HIDE DEF I
    <3>2. \E i \in I : \A j \in I : i <= j
      BY <3>1, HasLeast
    <3> QED
      BY <3>2 DEF Min
  <2>4. m \in 1 .. Len(s) /\ s[m] = k
    BY <2>3
  <2> HIDE DEF m
  <2>5. /\ a \in Seq(K) /\ Len(a) = m - 1
        /\ \A j \in 1 .. (m - 1) : a[j] = s[j]
    BY <1>1, <2>4, SubSeqProperties
  <2>6. /\ b \in Seq(K) /\ Len(b) = Len(s) - m
        /\ \A j \in 1 .. (Len(s) - m) : b[j] = s[m + j]
    <3>1. m + 1 \in Int /\ Len(s) \in Int /\ \A i \in (m + 1) .. Len(s) : s[i] \in K
      BY <1>1, <2>4
    <3>2. /\ b \in Seq(K)
          /\ Len(b) = IF m + 1 <= Len(s) THEN Len(s) - (m + 1) + 1 ELSE 0
          /\ \A j \in 1 .. (Len(s) - (m + 1) + 1) : b[j] = s[m + 1 + j - 1]
      <4> DEFINE n == m + 1
                 l == Len(s)
      <4> HIDE DEF n, l
      <4> QED
        BY <3>1, SubSeqProperties DEF n, l
    <3>3. Len(s) - (m + 1) + 1 = Len(s) - m /\ \A j \in Nat : m + 1 + j - 1 = m + j
      BY <1>1, <2>4
    <3>4. (IF m + 1 <= Len(s) THEN Len(s) - (m + 1) + 1 ELSE 0) = Len(s) - m
      <4>1. ASSUME NEW l \in Nat, NEW n \in 1 .. l
            PROVE  (IF n + 1 <= l THEN l - (n + 1) + 1 ELSE 0) = l - n
        OBVIOUS
      <4> QED
        BY <4>1, <1>1, <2>4
    <3> HIDE DEF b
    <3> QED
      BY <3>2, <3>3, <3>4
  <2> HIDE DEF a, b
  <2>7. /\ c \in Seq(K) /\ Len(c) = Len(a) + Len(b)
        /\ \A j \in 1 .. Len(a) + Len(b) : c[j] = IF j <= Len(a) THEN a[j] ELSE b[j - Len(a)]
    BY <2>5, <2>6, ConcatProperties, Zenon
  <2> HIDE DEF c
  <2>8. Len(a) + Len(b) = Len(s) - 1
    BY <1>1, <2>4, <2>5, <2>6
  <2>9. ASSUME NEW j \in 1 .. Len(c)
        PROVE  \/ j < m /\ j \in 1 .. Len(s) /\ c[j] = s[j]
               \/ j >= m /\ j + 1 \in 1 .. Len(s) /\ c[j] = s[j + 1]
    <3>1. j \in 1 .. (Len(s) - 1)
      BY <2>7, <2>8
    <3>2. CASE j < m
      BY <3>1, <3>2, <1>1, <2>4, <2>5, <2>7, <2>8
    <3>3. CASE j >= m
      <4>1. j - (m - 1) \in 1 .. (Len(s) - m) /\ m + (j - (m - 1)) = j + 1 /\ ~ (j <= m - 1)
        BY <3>1, <3>3, <1>1, <2>4
      <4>2. c[j] = b[j - (m - 1)]
        BY <4>1, <3>1, <2>5, <2>7, <2>8
      <4> QED
        BY <4>1, <4>2, <3>1, <3>3, <2>6, <1>1
    <3> QED
      BY <3>1, <3>2, <3>3, <2>4
  <2>10. Distinct(c)
    <3> SUFFICES ASSUME NEW i \in 1 .. Len(c), NEW j \in 1 .. Len(c), c[i] = c[j] PROVE i = j
      BY DEF Distinct
    <3> QED
      BY <2>4, <2>9 DEF Distinct
  <2>11. ASSUME NEW x, Contains(c, x) PROVE Contains(s, x) /\ x # k
    <3>1. PICK j \in 1 .. Len(c) : c[j] = x
      BY <2>11 DEF Contains
    <3>2. PICK i \in 1 .. Len(s) : s[i] = x /\ i # m
      BY <3>1, <2>4, <2>9
    <3> QED
      BY <3>2, <2>4 DEF Contains, Distinct
  <2> QED
    BY <2>2, <2>7, <2>10, <2>11
<1> QED
  BY <1>2, <1>3

-----------------------------------------------------------------------------
(* A round of observe: the handler at place i, if there is one.            *)
Round(w, i, id) ==
  IF i <= Len(w.device.listeners)
  THEN PingHandler(w, w.device.listeners[i], id) ELSE w

(* What every handler keeps, the whole of observe keeps.                   *)
LEMMA Observes ==
  ASSUME NEW W, NEW d, NEW id, Len(d.listeners) \in Nat,
         [device |-> d, queue |-> {}] \in W,
         \A w \in W, i \in 1 .. Len(d.listeners) : Round(w, i, id) \in W
  PROVE  Observe(d, id) \in W
<1> DEFINE n == Len(d.listeners)
           w0 == [device |-> d, queue |-> {}]
           C(f) == f = [i \in 0 .. n |->
                          IF i = 0 THEN w0
                          ELSE IF i <= Len(f[i - 1].device.listeners)
                               THEN PingHandler(f[i - 1], f[i - 1].device.listeners[i], id)
                               ELSE f[i - 1]]
           F == CHOOSE f : C(f)
<1>1. Observe(d, id) = F[n]
  BY DEF Observe
<1>2. \E f : C(f)
  <2> DEFINE step == [x \in W \X (1 .. n) |-> Round(x[1], x[2], id)]
  <2>1. step \in [W \X (1 .. n) -> W] /\ \A w \in W, i \in 1 .. n : step[<<w, i>>] = Round(w, i, id)
    <3> HIDE DEF n
    <3> SUFFICES \A x \in W \X (1 .. n) : Round(x[1], x[2], id) \in W
      OBVIOUS
    <3> QED
      BY DEF n
  <2> HIDE DEF step, w0
  <2>2. PICK f : Loop(f, n, W, w0, step)
    <3>1. w0 \in W /\ n \in Nat
      BY DEF w0
    <3>2. step \in [W \X (1 .. n) -> W]
      BY <2>1
    <3> HIDE DEF n
    <3> QED
      BY <3>1, <3>2, Rounds
  <2> USE DEF Loop
  <2>3. \A i \in 1 .. n : f[i] = Round(f[i - 1], i, id)
    <3> SUFFICES ASSUME NEW i \in 1 .. n PROVE f[i] = Round(f[i - 1], i, id)
      OBVIOUS
    <3>1. f[i - 1] \in W
      BY <2>2
    <3> QED
      BY <3>1, <2>1, <2>2
  <2>4. \A i \in 0 .. n : f[i] = IF i = 0 THEN w0
                                 ELSE IF i <= Len(f[i - 1].device.listeners)
                                      THEN PingHandler(f[i - 1], f[i - 1].device.listeners[i], id)
                                      ELSE f[i - 1]
    BY <2>2, <2>3 DEF Round
  <2>5. C(f)
    <3> DEFINE E(i) == IF i = 0 THEN w0
                       ELSE IF i <= Len(f[i - 1].device.listeners)
                            THEN PingHandler(f[i - 1], f[i - 1].device.listeners[i], id)
                            ELSE f[i - 1]
    <3>1. f = [i \in 0 .. n |-> f[i]]
      BY <2>2
    <3>2. \A i \in 0 .. n : f[i] = E(i)
      BY <2>4
    <3> HIDE DEF E
    <3>3. f = [i \in 0 .. n |-> E(i)]
      BY <3>1, <3>2, Zenon
    <3> QED
      BY <3>3 DEF E
  <2> HIDE DEF C
  <2> QED
    BY <2>5
<1>3. C(F)
  <2> HIDE DEF C
  <2> QED
    BY <1>2
<1>4. F[0] = w0 /\ \A i \in 1 .. n : F[i] = Round(F[i - 1], i, id)
  <2> HIDE DEF F, w0, n
  <2>1. n \in Nat
    BY DEF n
  <2>2. F = [i \in 0 .. n |->
              IF i = 0 THEN w0
              ELSE IF i <= Len(F[i - 1].device.listeners)
                   THEN PingHandler(F[i - 1], F[i - 1].device.listeners[i], id)
                   ELSE F[i - 1]]
    BY <1>3
  <2> HIDE DEF C
  <2>3. F[0] = w0
    BY <2>1, <2>2
  <2>4. ASSUME NEW i \in 1 .. n PROVE F[i] = Round(F[i - 1], i, id)
    <3>1. i \in 0 .. n /\ i # 0
      BY <2>1
    <3> QED
      BY <2>2, <3>1 DEF Round
  <2> QED
    BY <2>3, <2>4
<1> DEFINE S == {i \in 0 .. n : F[i] \in W}
<1>5. 0 \in S
  BY <1>4
<1>6. ASSUME NEW i \in 1 .. n, i - 1 \in S PROVE i \in S
  <2> HIDE DEF F
  <2>1. F[i - 1] \in W
    BY <1>6
  <2> QED
    BY <2>1, <1>4
<1> HIDE DEF S
<1>7. 0 .. n \subseteq S
  BY <1>5, <1>6, UpTo
<1>8. F[n] \in W
  <2>1. n \in 0 .. n
    OBVIOUS
  <2> HIDE DEF F, n
  <2> QED
    BY <1>7, <2>1 DEF S
<1> QED
  BY <1>1, <1>8

-----------------------------------------------------------------------------
(* What send_packet makes of w.                                            *)
Sent(w, v, k, K) ==
  /\ v \in Worlds(K)
  /\ v.device.listeners = w.device.listeners
  /\ \A j \in K : j # k => v.device.series[j] = w.device.series[j]
  /\ routed =>
       /\ v.device.pingid = w.device.pingid + 1
       /\ v.device.series[k].remaining = w.device.series[k].remaining - 1
       /\ v.device.series[k].lastsent = w.device.pingid + 1
       /\ v.device.series[k].lost = "yes"
       /\ v.queue = w.queue \cup SetOff(w.device, k)
  /\ ~ routed =>
       /\ v.queue = w.queue
       /\ v.device.pingid = w.device.pingid
       /\ v.device.series[k].remaining = w.device.series[k].remaining
       /\ v.device.series[k].lastsent = w.device.series[k].lastsent
       /\ v.device.series[k].lost = w.device.series[k].lost
       /\ v.device.series[k].unrouted

LEMMA Sends ==
  ASSUME NEW K, NEW w \in Worlds(K), NEW k \in K
  PROVE  Sent(w, SendPacket(w, k), k, K)
<1> DEFINE d == w.device
           s == d.series[k]
<1>1. /\ d.pingid \in Nat /\ d.listeners \in Seq(K) /\ d.series \in [K -> SeriesState]
      /\ w.queue \subseteq Events(K)
      /\ d = [pingid |-> d.pingid, listeners |-> d.listeners, series |-> d.series]
      /\ w = [device |-> d, queue |-> w.queue]
  BY DEF Worlds
<1>2. s \in SeriesState /\ s.remaining \in Int /\ s.lastsent \in Nat /\ s.lost \in {"none", "yes", "no"}
  BY <1>1 DEF SeriesState
<1>3. CASE routed
  <2> DEFINE t == [remaining |-> s.remaining - 1, lastsent |-> NextId(d), lost |-> "yes",
                   unrouted |-> s.unrouted]
             v == [device |-> [pingid |-> NextId(d), listeners |-> d.listeners,
                               series |-> [d.series EXCEPT ![k] = t]],
                   queue |-> w.queue \cup SetOff(d, k)]
  <2>1. SendPacket(w, k) = v
    BY <1>3 DEF SendPacket
  <2>2. t \in SeriesState /\ t.remaining = s.remaining - 1 /\ t.lastsent = d.pingid + 1 /\ t.lost = "yes"
    BY <1>1, <1>2 DEF SeriesState, NextId
  <2>3. SetOff(d, k) \subseteq Events(K)
    BY <1>1 DEF SetOff, Events, On, NextId
  <2> HIDE DEF t
  <2>4. v.device.series[k] = t /\ \A j \in K : j # k => v.device.series[j] = d.series[j]
    BY <1>1
  <2>5. v \in Worlds(K)
    BY <1>1, <2>2, <2>3 DEF Worlds, NextId
  <2> QED
    BY <1>1, <1>3, <2>1, <2>2, <2>4, <2>5 DEF Sent, NextId
<1>4. CASE ~ routed
  <2> DEFINE t == [s EXCEPT !.unrouted = TRUE]
             v == [device |-> [pingid |-> d.pingid, listeners |-> d.listeners,
                               series |-> [d.series EXCEPT ![k] = t]],
                   queue |-> w.queue]
  <2>1. SendPacket(w, k) = v
    BY <1>1, <1>4 DEF SendPacket
  <2>2. /\ t \in SeriesState /\ t.remaining = s.remaining /\ t.lastsent = s.lastsent
        /\ t.lost = s.lost /\ t.unrouted
    BY <1>2 DEF SeriesState
  <2> HIDE DEF t
  <2>4. v.device.series[k] = t /\ \A j \in K : j # k => v.device.series[j] = d.series[j]
    BY <1>1
  <2>5. v \in Worlds(K)
    BY <1>1, <2>2 DEF Worlds
  <2> QED
    BY <1>1, <1>4, <2>1, <2>2, <2>4, <2>5 DEF Sent
<1> QED
  BY <1>3, <1>4

LEMMA GoodSends ==
  ASSUME NEW K, NEW w, NEW E, NEW k \in K, Good(w, E, K \ {k}, K),
         w.device.series[k].remaining >= (IF On("first", k, 0) \in E THEN 1 ELSE 0)
  PROVE  Good(SendPacket(w, k), E, K, K)
<1> DEFINE d == w.device
           v == SendPacket(w, k)
           timer == On("timer", k, d.pingid + 1)
           reply == On("reply", k, d.pingid + 1)
<1>1. w \in Worlds(K) /\ E \subseteq Events(K) /\ d.pingid \in Nat /\ w.queue \subseteq Events(K)
      /\ d.series \in [K -> SeriesState]
  BY DEF Good, Worlds
<1> HIDE DEF v
<1>0. Sent(w, v, k, K)
  BY <1>1, Sends DEF v
<1>2. /\ v \in Worlds(K)
      /\ v.device.listeners = d.listeners
      /\ \A j \in K : j # k => v.device.series[j] = d.series[j]
  BY <1>0 DEF Sent
<1>3. v.device.series \in [K -> SeriesState]
  BY <1>2 DEF Worlds
<1>4. \/ v.queue = w.queue /\ v.device.series[k].unrouted
      \/ v.queue = w.queue \cup {timer, reply}
  BY <1>0 DEF Sent, SetOff, NextId
<1>5. timer.type = "timer" /\ timer.series = k /\ reply.type = "reply" /\ reply.series = k /\ reply.id = d.pingid + 1
  BY DEF On
<1>6. \A e \in v.queue : e.type # "first"
  BY <1>4, <1>5 DEF Good
<1>7. Distinct(v.device.listeners)
  BY <1>2 DEF Good
<1>8. ASSUME NEW j \in K PROVE Looked(v, E, j)
  <2>1. CASE j = k
    BY <2>1, <1>4, <1>5 DEF Looked
  <2>2. CASE j # k
    <3>1. Looked(w, E, j)
      BY <2>2 DEF Good
    <3>2. w.queue \subseteq v.queue
      BY <1>4
    <3> QED
      BY <3>1, <3>2, <2>2, <1>2 DEF Looked
  <2> QED
    BY <2>1, <2>2
<1>9. ASSUME NEW j \in K PROVE Asked(v, E, j)
  <2>1. CASE j = k
    <3>1. \/ v.device.series[k].remaining = d.series[k].remaining - 1
          \/ v.device.series[k].remaining = d.series[k].remaining
      BY <1>0 DEF Sent
    <3>2. d.series[k].remaining \in Int
      BY <1>1 DEF SeriesState
    <3> QED
      BY <3>1, <3>2, <2>1 DEF Asked
  <2>2. CASE j # k
    BY <2>2, <1>2 DEF Good, Asked
  <2> QED
    BY <2>1, <2>2
<1>10. IdsKnown(v, E)
  <2>0. IdsKnown(w, E)
    BY DEF Good
  <2>1. DOMAIN v.device.series = K /\ DOMAIN d.series = K
    BY <1>1, <1>3
  <2>2. \A j \in K : d.series[j].lastsent \in Nat
    BY <1>1 DEF SeriesState
  <2>3. \A e \in E \cup w.queue : e.id \in Nat
    BY <1>1 DEF Events
  <2>4. CASE routed
    <3>1. /\ v.device.pingid = d.pingid + 1
          /\ v.device.series[k].lastsent = d.pingid + 1
          /\ v.queue = w.queue \cup {timer, reply}
      BY <2>4, <1>0 DEF Sent, SetOff, NextId
    <3>2. ASSUME NEW e \in E \cup v.queue, e.type = "reply"
          PROVE  \/ e \in E \cup w.queue /\ e.id <= d.pingid
                 \/ e = reply
      BY <3>1, <3>2, <1>5, <2>0 DEF IdsKnown
    <3>3. ASSUME NEW e \in E \cup v.queue, e.type = "reply" PROVE e.id <= v.device.pingid
      <4>1. CASE e = reply
        BY <4>1, <1>5, <3>1, <1>1
      <4>2. CASE e \in E \cup w.queue /\ e.id <= d.pingid
        BY <4>2, <3>1, <2>3, <1>1
      <4> QED
        BY <3>2, <3>3, <4>1, <4>2
    <3>4. ASSUME NEW j \in K, v.device.series[j].lost = "yes"
          PROVE  /\ v.device.series[j].lastsent <= v.device.pingid
                 /\ \A e \in E \cup v.queue :
                      e.type = "reply" /\ e.id = v.device.series[j].lastsent => e.series = j
      <4>1. CASE j = k
        <5>1. ASSUME NEW e \in E \cup v.queue, e.type = "reply", e.id = d.pingid + 1
              PROVE  e = reply
          BY <5>1, <3>2, <1>1
        <5> QED
          BY <4>1, <5>1, <3>1, <1>1, <1>5
      <4>2. CASE j # k
        <5>1. /\ v.device.series[j].lastsent = d.series[j].lastsent
              /\ d.series[j].lastsent <= d.pingid
              /\ \A e \in E \cup w.queue :
                   e.type = "reply" /\ e.id = d.series[j].lastsent => e.series = j
          BY <4>2, <3>4, <1>2, <2>0, <2>1 DEF IdsKnown
        <5>2. reply.id # d.series[j].lastsent
          BY <5>1, <1>5, <1>1, <2>2
        <5> QED
          BY <5>1, <5>2, <3>1, <3>2, <1>1, <2>2
      <4> QED
        BY <4>1, <4>2
    <3> QED
      BY <3>3, <3>4, <2>1 DEF IdsKnown
  <2>5. CASE ~ routed
    <3>1. /\ v.device.pingid = d.pingid
          /\ v.queue = w.queue
          /\ v.device.series[k].lastsent = d.series[k].lastsent
          /\ v.device.series[k].lost = d.series[k].lost
      BY <2>5, <1>0 DEF Sent
    <3>2. \A j \in K : /\ v.device.series[j].lastsent = d.series[j].lastsent
                       /\ v.device.series[j].lost = d.series[j].lost
      BY <3>1, <1>2
    <3> QED
      BY <3>1, <3>2, <2>0, <2>1 DEF IdsKnown
  <2> QED
    BY <2>4, <2>5
<1>11. Good(v, E, K, K)
  BY <1>1, <1>2, <1>6, <1>7, <1>8, <1>9, <1>10 DEF Good
<1> QED
  BY <1>11 DEF v

-----------------------------------------------------------------------------
Stopped(w, k) == [w EXCEPT !.device = StopListening(@, k)]

LEMMA StopsListening ==
  ASSUME NEW K, NEW w \in Worlds(K), NEW k, Distinct(w.device.listeners)
  PROVE  LET v == Stopped(w, k)
         IN  /\ v \in Worlds(K) /\ v.queue = w.queue
             /\ v.device.pingid = w.device.pingid /\ v.device.series = w.device.series
             /\ Distinct(v.device.listeners)
             /\ \A j : Contains(v.device.listeners, j) => Contains(w.device.listeners, j) /\ j # k
<1> DEFINE d == w.device
           r == RemoveFirst(d.listeners, k)
           v == Stopped(w, k)
<1>1. /\ d.pingid \in Nat /\ d.listeners \in Seq(K) /\ d.series \in [K -> SeriesState]
      /\ w.queue \subseteq Events(K)
      /\ d = [pingid |-> d.pingid, listeners |-> d.listeners, series |-> d.series]
      /\ w = [device |-> d, queue |-> w.queue]
  BY DEF Worlds
<1>2. /\ r \in Seq(K) /\ Distinct(r)
      /\ \A x : Contains(r, x) => Contains(d.listeners, x) /\ x # k
  BY <1>1, Removes
<1> HIDE DEF r
<1>3. v = [device |-> [pingid |-> d.pingid, listeners |-> r, series |-> d.series],
           queue |-> w.queue]
  BY <1>1 DEF Stopped, StopListening, r
<1> HIDE DEF v
<1>4. v \in Worlds(K)
  BY <1>1, <1>2, <1>3 DEF Worlds
<1>5. v.device.listeners = r /\ v.device.pingid = d.pingid /\ v.device.series = d.series /\ v.queue = w.queue
  BY <1>3
<1> QED
  BY <1>2, <1>4, <1>5 DEF v

(* A handler that was called leaves its series looked after.               *)
LEMMA GoodChecks ==
  ASSUME NEW K, NEW w, NEW E, NEW k \in K, Good(w, E, K \ {k}, K)
  PROVE  Good(CheckAndSend(w, k), E, K, K)
<1>1. w \in Worlds(K) /\ Distinct(w.device.listeners) /\ w.device.series[k].remaining \in Int
      /\ w.device.series \in [K -> SeriesState]
  BY DEF Good, Worlds, SeriesState
<1>2. CASE w.device.series[k].remaining > 0
  <2>1. w.device.series[k].remaining >= (IF On("first", k, 0) \in E THEN 1 ELSE 0)
    BY <1>1, <1>2
  <2> QED
    BY <2>1, <1>2, GoodSends DEF CheckAndSend
<1>3. CASE ~ (w.device.series[k].remaining > 0)
  <2> DEFINE v == Stopped(w, k)
  <2>1. CheckAndSend(w, k) = v
    BY <1>3 DEF CheckAndSend, Stopped
  <2>2. /\ v \in Worlds(K) /\ v.queue = w.queue
        /\ v.device.pingid = w.device.pingid /\ v.device.series = w.device.series
        /\ Distinct(v.device.listeners)
        /\ \A j : Contains(v.device.listeners, j) => Contains(w.device.listeners, j) /\ j # k
    BY <1>1, StopsListening
  <2> HIDE DEF v
  <2>3. \A j \in K : Looked(v, E, j)
    BY <2>2 DEF Good, Looked
  <2>4. \A j \in K : Asked(v, E, j)
    BY <2>2 DEF Good, Asked
  <2>5. IdsKnown(v, E)
    BY <2>2 DEF Good, IdsKnown
  <2>6. E \subseteq Events(K) /\ \A e \in v.queue : e.type # "first"
    BY <2>2 DEF Good
  <2>7. Good(v, E, K, K)
    BY <2>2, <2>3, <2>4, <2>5, <2>6 DEF Good
  <2> QED
    BY <2>1, <2>7
<1> QED
  BY <1>2, <1>3

(* What the handlers that a reply calls leave of the device d it found:    *)
(* requests sent meanwhile bear new ids, and only the series whose last    *)
(* request has the id of the reply counts as answered.                     *)
Trail(d, w, id) ==
  /\ w.device.pingid >= d.pingid
  /\ \A e \in w.queue : e.id > d.pingid
  /\ \A k \in DOMAIN d.series :
       LET s == d.series[k]
           t == w.device.series[k]
       IN  \/ t.lastsent = s.lastsent /\ (t.lost = s.lost \/ id = s.lastsent)
           \/ t.lastsent > d.pingid /\ t.lost = "yes"

LEMMA TrailChecks ==
  ASSUME NEW K, NEW d, NEW w \in Worlds(K), NEW id, NEW k \in K, d.pingid \in Nat, DOMAIN d.series = K,
         Distinct(w.device.listeners), Trail(d, w, id)
  PROVE  Trail(d, CheckAndSend(w, k), id)
<1>1. w.device.pingid \in Nat /\ w.device.pingid >= d.pingid
  BY DEF Worlds, Trail
<1>2. CASE w.device.series[k].remaining > 0
  <2> DEFINE v == SendPacket(w, k)
  <2>1. Sent(w, v, k, K) /\ CheckAndSend(w, k) = v
    BY <1>2, Sends DEF CheckAndSend
  <2> HIDE DEF v
  <2>2. v.device.pingid >= d.pingid
    BY <2>1, <1>1 DEF Sent
  <2>3. ASSUME NEW e \in v.queue PROVE e.id > d.pingid
    <3>1. e \in w.queue \/ e.id = w.device.pingid + 1
      BY <2>1 DEF Sent, SetOff, On, NextId
    <3> QED
      BY <3>1, <1>1 DEF Trail
  <2>4. ASSUME NEW j \in K
        PROVE  LET s == d.series[j]
                   t == v.device.series[j]
               IN  \/ t.lastsent = s.lastsent /\ (t.lost = s.lost \/ id = s.lastsent)
                   \/ t.lastsent > d.pingid /\ t.lost = "yes"
    <3>1. \/ /\ v.device.series[j].lastsent = w.device.series[j].lastsent
             /\ v.device.series[j].lost = w.device.series[j].lost
          \/ /\ v.device.series[j].lastsent = w.device.pingid + 1
             /\ v.device.series[j].lost = "yes"
      BY <2>1 DEF Sent
    <3> QED
      BY <3>1, <1>1 DEF Trail
  <2> QED
    BY <2>1, <2>2, <2>3, <2>4 DEF Trail
<1>3. CASE ~ (w.device.series[k].remaining > 0)
  <2> DEFINE v == Stopped(w, k)
  <2>1. CheckAndSend(w, k) = v
    BY <1>3 DEF CheckAndSend, Stopped
  <2> HIDE DEF v
  <2>2. /\ v.queue = w.queue
        /\ v.device.pingid = w.device.pingid /\ v.device.series = w.device.series
    BY StopsListening DEF v
  <2> QED
    BY <2>1, <2>2 DEF Trail
<1> QED
  BY <1>2, <1>3

(* What the reply with an id makes of w at the handler of k.               *)
Marked(w, v, k, id, K) ==
  /\ v \in Worlds(K) /\ v.queue = w.queue
  /\ v.device.pingid = w.device.pingid /\ v.device.listeners = w.device.listeners
  /\ \A j \in K :
       /\ v.device.series[j].lastsent = w.device.series[j].lastsent
       /\ v.device.series[j].remaining = w.device.series[j].remaining
       /\ v.device.series[j].unrouted = w.device.series[j].unrouted
       /\ \/ v.device.series[j].lost = w.device.series[j].lost
          \/ j = k /\ id = w.device.series[k].lastsent /\ v.device.series[j].lost = "no"

LEMMA Answers ==
  ASSUME NEW K, NEW w \in Worlds(K), NEW k \in K, NEW id
  PROVE  Marked(w, [w EXCEPT !.device = Answered(@, k, id)], k, id, K)
<1> DEFINE d == w.device
           s == d.series[k]
           v == [w EXCEPT !.device = Answered(@, k, id)]
<1>1. /\ d.pingid \in Nat /\ d.listeners \in Seq(K) /\ d.series \in [K -> SeriesState]
      /\ w.queue \subseteq Events(K)
      /\ d = [pingid |-> d.pingid, listeners |-> d.listeners, series |-> d.series]
      /\ w = [device |-> d, queue |-> w.queue]
  BY DEF Worlds
<1>2. CASE id = s.lastsent
  <2> DEFINE t == [s EXCEPT !.lost = "no"]
             u == [d.series EXCEPT ![k] = t]
  <2>1. v = [device |-> [pingid |-> d.pingid, listeners |-> d.listeners, series |-> u],
             queue |-> w.queue]
    <3>1. Answered(d, k, id) = [d EXCEPT !.series = u]
      BY <1>1, <1>2 DEF Answered
    <3>2. v = [w EXCEPT !.device = Answered(d, k, id)]
      OBVIOUS
    <3> HIDE DEF u, v
    <3>3. Answered(d, k, id) = [pingid |-> d.pingid, listeners |-> d.listeners, series |-> u]
      BY <1>1, <3>1
    <3> QED
      BY <1>1, <3>2, <3>3
  <2>2. /\ t \in SeriesState /\ t.remaining = s.remaining /\ t.lastsent = s.lastsent
        /\ t.lost = "no" /\ t.unrouted = s.unrouted
    BY <1>1 DEF SeriesState
  <2> HIDE DEF v, t
  <2>3. u \in [K -> SeriesState] /\ u[k] = t /\ \A j \in K : j # k => u[j] = d.series[j]
    BY <1>1, <2>2
  <2> HIDE DEF u
  <2>4. v \in Worlds(K) /\ v.queue = w.queue /\ v.device.series = u
        /\ v.device.pingid = w.device.pingid /\ v.device.listeners = w.device.listeners
    BY <1>1, <2>1, <2>3 DEF Worlds
  <2> QED
    BY <1>2, <2>2, <2>3, <2>4 DEF v, Marked
<1>3. CASE id # s.lastsent
  <2>1. v = w
    BY <1>1, <1>3 DEF Answered
  <2> QED
    BY <2>1 DEF Marked
<1> QED
  BY <1>2, <1>3

LEMMA Handles ==
  ASSUME NEW K, NEW d, NEW w, NEW E, NEW id, NEW k \in K,
         d.pingid \in Nat, DOMAIN d.series = K, id <= d.pingid, id \in Nat,
         Good(w, E, K, K), Trail(d, w, id)
  PROVE  Good(PingHandler(w, k, id), E, K, K) /\ Trail(d, PingHandler(w, k, id), id)
<1> DEFINE v == [w EXCEPT !.device = Answered(@, k, id)]
<1>1. w \in Worlds(K)
  BY DEF Good
<1>0. Marked(w, v, k, id, K)
  BY <1>1, Answers
<1>3. PingHandler(w, k, id) = CheckAndSend(v, k)
  BY DEF PingHandler
<1> HIDE DEF v
<1>2. /\ v \in Worlds(K) /\ v.queue = w.queue
      /\ v.device.pingid = w.device.pingid /\ v.device.listeners = w.device.listeners
      /\ \A j \in K :
           /\ v.device.series[j].lastsent = w.device.series[j].lastsent
           /\ v.device.series[j].remaining = w.device.series[j].remaining
           /\ v.device.series[j].unrouted = w.device.series[j].unrouted
           /\ \/ v.device.series[j].lost = w.device.series[j].lost
              \/ j = k /\ id = w.device.series[k].lastsent /\ v.device.series[j].lost = "no"
  BY <1>0 DEF Marked
<1>4. DOMAIN v.device.series = K /\ DOMAIN w.device.series = K
  BY <1>1, <1>2 DEF Worlds
<1>5. Good(v, E, K \ {k}, K)
  <2>1. \A j \in K : Looked(v, E, j)
    BY <1>2 DEF Good, Looked
  <2>2. \A j \in K : Asked(v, E, j)
    BY <1>2 DEF Good, Asked
  <2>3. IdsKnown(v, E)
    BY <1>2, <1>4 DEF Good, IdsKnown
  <2>4. E \subseteq Events(K) /\ (\A e \in v.queue : e.type # "first") /\ Distinct(v.device.listeners)
    BY <1>2 DEF Good
  <2> QED
    BY <1>2, <2>1, <2>2, <2>3, <2>4 DEF Good
<1>6. Trail(d, v, id)
  <2>1. \A j \in K : w.device.series[j].lastsent \in Nat
    BY <1>1 DEF Worlds, SeriesState
  <2>2. ASSUME NEW j \in K
        PROVE  LET s == d.series[j]
                   t == v.device.series[j]
               IN  \/ t.lastsent = s.lastsent /\ (t.lost = s.lost \/ id = s.lastsent)
                   \/ t.lastsent > d.pingid /\ t.lost = "yes"
    <3>1. \/ w.device.series[j].lastsent = d.series[j].lastsent
             /\ (w.device.series[j].lost = d.series[j].lost \/ id = d.series[j].lastsent)
          \/ w.device.series[j].lastsent > d.pingid /\ w.device.series[j].lost = "yes"
      BY DEF Trail
    <3>2. w.device.series[j].lastsent > d.pingid => id # w.device.series[j].lastsent
      BY <2>1
    <3> QED
      BY <3>1, <3>2, <1>2
  <2> QED
    BY <1>2, <2>2 DEF Trail
<1>7. Good(CheckAndSend(v, k), E, K, K)
  BY <1>5, GoodChecks
<1>8. Trail(d, CheckAndSend(v, k), id)
  <2>1. Distinct(v.device.listeners)
    BY <1>5 DEF Good
  <2> QED
    BY <1>2, <1>6, <2>1, TrailChecks
<1> QED
  BY <1>3, <1>7, <1>8

(* A reply calls handlers only, whichever of them it misses.               *)
LEMMA GoodObserves ==
  ASSUME NEW K, NEW d, NEW E, NEW id \in Nat,
         Good([device |-> d, queue |-> {}], E, K, K), id <= d.pingid
  PROVE  Good(Observe(d, id), E, K, K) /\ Trail(d, Observe(d, id), id)
<1> DEFINE w0 == [device |-> d, queue |-> {}]
           W == {w \in Worlds(K) : Good(w, E, K, K) /\ Trail(d, w, id)}
<1>1. /\ w0 \in Worlds(K) /\ d.pingid \in Nat /\ d.listeners \in Seq(K)
      /\ DOMAIN d.series = K /\ Len(d.listeners) \in Nat
  <2>1. w0 \in Worlds(K)
    BY DEF Good
  <2>2. d.pingid \in Nat /\ d.listeners \in Seq(K) /\ d.series \in [K -> SeriesState]
    BY <2>1 DEF Worlds
  <2> QED
    BY <2>1, <2>2
<1>2. w0 \in W
  BY <1>1 DEF Trail
<1>3. ASSUME NEW w \in W, NEW i \in 1 .. Len(d.listeners) PROVE Round(w, i, id) \in W
  <2>1. CASE i <= Len(w.device.listeners)
    <3>1. w.device.listeners[i] \in K
      <4>1. w.device.listeners \in Seq(K)
        BY DEF Worlds
      <4> QED
        BY <4>1, <2>1
    <3> DEFINE v == PingHandler(w, w.device.listeners[i], id)
    <3>2. Good(v, E, K, K) /\ Trail(d, v, id)
      BY <1>1, <3>1, Handles
    <3>3. Round(w, i, id) = v
      BY <2>1 DEF Round
    <3> HIDE DEF v
    <3> QED
      BY <3>2, <3>3 DEF Good
  <2>2. CASE ~ (i <= Len(w.device.listeners))
    BY <2>2 DEF Round
  <2> QED
    BY <2>1, <2>2
<1> HIDE DEF W
<1>4. Observe(d, id) \in W
  BY <1>1, <1>2, <1>3, Observes
<1> QED
  BY <1>4 DEF W

-----------------------------------------------------------------------------
(* What is in the queue of a world may as well be among the events.        *)
LEMMA Settles ==
  ASSUME NEW K, NEW w, NEW E, Good(w, E, K, K)
  PROVE  Good([device |-> w.device, queue |-> {}], E \cup w.queue, K, K)
<1> DEFINE v == [device |-> w.device, queue |-> {}]
           F == E \cup w.queue
<1>1. v.device = w.device /\ v.queue = {} /\ F \cup v.queue = E \cup w.queue
  OBVIOUS
<1>2. v \in Worlds(K) /\ F \subseteq Events(K)
  BY DEF Good, Worlds
<1>3. \A k \in K : On("first", k, 0) \in F => On("first", k, 0) \in E
  BY DEF Good, On
<1> HIDE DEF v, F
<1>4. \A k \in K : Looked(v, F, k)
  BY <1>1 DEF Good, Looked
<1>5. \A k \in K : Asked(v, F, k)
  <2> SUFFICES ASSUME NEW k \in K PROVE Asked(v, F, k)
    OBVIOUS
  <2>1. w.device.series[k].remaining \in Int
    BY DEF Good, Worlds, SeriesState
  <2>2. Asked(w, E, k)
    BY DEF Good
  <2> QED
    BY <1>1, <1>3, <2>1, <2>2 DEF Asked
<1>6. IdsKnown(v, F)
  BY <1>1 DEF Good, IdsKnown
<1>7. Good(v, F, K, K)
  BY <1>1, <1>2, <1>4, <1>5, <1>6 DEF Good
<1> QED
  BY <1>7 DEF v, F

(* An event that leaves the queue leaves one series to its handler.        *)
LEMMA GoodTakes ==
  ASSUME NEW K, NEW w, NEW E, NEW e \in E, Good(w, E, K, K)
  PROVE  /\ e.series \in K
         /\ Good(w, E \ {e}, K \ {e.series}, K)
         /\ e.type = "reply" => Good(w, E \ {e}, K, K)
<1>1. e.series \in K /\ E \ {e} \subseteq Events(K)
  BY DEF Good, Events
<1>2. \A k \in K \ {e.series} : Looked(w, E \ {e}, k)
  BY DEF Good, Looked
<1>3. e.type = "reply" => \A k \in K : Looked(w, E \ {e}, k)
  BY DEF Good, Looked
<1>4. \A k \in K : Asked(w, E \ {e}, k)
  <2> SUFFICES ASSUME NEW k \in K PROVE Asked(w, E \ {e}, k)
    OBVIOUS
  <2>1. w.device.series[k].remaining \in Int
    BY DEF Good, Worlds, SeriesState
  <2>2. Asked(w, E, k)
    BY DEF Good
  <2> QED
    BY <2>1, <2>2 DEF Asked
<1>5. IdsKnown(w, E \ {e})
  BY DEF Good, IdsKnown
<1> QED
  BY <1>1, <1>2, <1>3, <1>4, <1>5 DEF Good

LEMMA InitIInv == Init => IInv
<1> SUFFICES ASSUME Init PROVE IInv
  OBVIOUS
<1>1. device.pingid = 0 /\ device.listeners = <<>> /\ DOMAIN device.series = {} /\ events = {}
  BY DEF Init
<1>2. World \in Worlds({})
  <2>1. device.series \in [{} -> SeriesState]
    BY DEF Init
  <2> QED
    BY <1>1, <2>1 DEF Init, Worlds, World
<1>3. Distinct(device.listeners)
  BY <1>1 DEF Distinct
<1>4. IdsKnown(World, events)
  BY <1>1 DEF IdsKnown, World
<1> QED
  BY <1>1, <1>2, <1>3, <1>4 DEF IInv, Good, World

(* The handler of an event leaves the promises to the rest of the events.  *)
LEMMA BecomesIInv ==
  ASSUME IInv, NEW e \in events, NEW w, Becomes(w, e),
         Good(w, events \ {e}, DOMAIN device.series, DOMAIN device.series)
  PROVE  IInv'
<1> DEFINE K == DOMAIN device.series
<1>1. Good([device |-> w.device, queue |-> {}], (events \ {e}) \cup w.queue, K, K)
  BY Settles
<1>2. World' = [device |-> w.device, queue |-> {}] /\ events' = (events \ {e}) \cup w.queue
  BY DEF Becomes, World
<1>3. w \in Worlds(K) /\ \A x \in w.queue : x.type # "first"
  BY DEF Good
<1>4. DOMAIN device'.series = K
  BY <1>3 DEF Becomes, Worlds
<1>5. \A x \in events' : x.type = "first" => x.id = 0
  BY <1>2, <1>3 DEF IInv
<1> HIDE DEF K
<1>6. K \subseteq Series
  BY DEF IInv, K
<1> QED
  BY <1>1, <1>2, <1>4, <1>5, <1>6 DEF IInv

(* What a handler of an event makes of the device and the events.          *)
LEMMA Runs ==
  ASSUME IInv, NEW e \in events
  PROVE  LET K == DOMAIN device.series
             w == World
         IN  /\ e.type = "first" => Good(SendPacket(w, e.series), events \ {e}, K, K)
             /\ e.type = "timer" => Good(CheckAndSend(w, e.series), events \ {e}, K, K)
             /\ e.type = "reply" => /\ Good(Observe(device, e.id), events \ {e}, K, K)
                                    /\ Trail(device, Observe(device, e.id), e.id)
<1> DEFINE K == DOMAIN device.series
           E == events \ {e}
<1>1. Good(World, events, K, K)
  BY DEF IInv
<1>2. /\ e.series \in K
      /\ Good(World, E, K \ {e.series}, K)
      /\ e.type = "reply" => Good(World, E, K, K)
  BY <1>1, GoodTakes
<1>3. World.device = device /\ World \in Worlds(K) /\ e \in Events(K)
  BY <1>1 DEF World, Good
<1> HIDE DEF K, E
<1>4. ASSUME e.type = "first" PROVE Good(SendPacket(World, e.series), E, K, K)
  <2>1. e = On("first", e.series, 0)
    <3>1. e = [type |-> e.type, series |-> e.series, id |-> e.id]
      BY <1>3 DEF Events
    <3> QED
      BY <3>1, <1>4 DEF IInv, On
  <2>2. Asked(World, events, e.series)
    BY <1>1, <1>2 DEF Good
  <2>3. device.series[e.series].remaining >= 0
    BY <2>1, <2>2, <1>3 DEF Asked
  <2>4. On("first", e.series, 0) \notin E
    BY <2>1 DEF E
  <2>5. World.device.series[e.series].remaining >= (IF On("first", e.series, 0) \in E THEN 1 ELSE 0)
    BY <2>3, <2>4, <1>3
  <2> QED
    BY <2>5, <1>2, GoodSends
<1>5. ASSUME e.type = "timer" PROVE Good(CheckAndSend(World, e.series), E, K, K)
  BY <1>2, GoodChecks
<1>6. ASSUME e.type = "reply"
      PROVE  Good(Observe(device, e.id), E, K, K) /\ Trail(device, Observe(device, e.id), e.id)
  <2>1. e.id \in Nat /\ e.id <= device.pingid
    BY <1>1, <1>3, <1>6 DEF Good, IdsKnown, Events
  <2> QED
    BY <2>1, <1>2, <1>6, GoodObserves DEF World
<1> QED
  BY <1>4, <1>5, <1>6 DEF K, E

LEMMA CommandIInv ==
  ASSUME IInv, NEW k \in Series, PingCommand(k)
  PROVE  IInv'
<1> DEFINE K == DOMAIN device.series
           L == K \cup {k}
           first == On("first", k, 0)
           l == Append(device.listeners, k)
           s == [j \in L |-> IF j = k THEN Fresh(k) ELSE device.series[j]]
           d == [pingid |-> device.pingid + 1, listeners |-> l, series |-> s]
           v == [device |-> d, queue |-> {}]
           F == events \cup {first}
<1>1. Good(World, events, K, K) /\ K \subseteq Series /\ k \notin K
  BY DEF IInv, PingCommand, Started
<1>2. device.pingid \in Nat /\ device.listeners \in Seq(K) /\ device.series \in [K -> SeriesState]
  BY <1>1 DEF Good, World, Worlds
<1>3. device' = d /\ events' = F
  BY DEF PingCommand, Listen, NextId
<1>4. World' = v
  BY <1>3 DEF World
<1>5. /\ Fresh(k) \in SeriesState /\ Fresh(k).lost = "none" /\ Fresh(k).remaining >= 1
      /\ Fresh(k).remaining \in Int
  BY <1>2, CountAssumption DEF Fresh, SeriesState
<1>6. s \in [L -> SeriesState] /\ s[k] = Fresh(k) /\ \A j \in K : s[j] = device.series[j]
  <2> HIDE DEF K
  <2> QED
    BY <1>1, <1>2, <1>5
<1>7. /\ l \in Seq(L) /\ Distinct(l)
      /\ \A j \in K : Contains(l, j) => Contains(device.listeners, j)
  <2>1. Distinct(device.listeners)
    BY <1>1 DEF Good, World
  <2> DEFINE n == Len(device.listeners)
  <2>2. n \in Nat /\ Len(l) = n + 1 /\ l[n + 1] = k /\ \A i \in 1 .. n : l[i] = device.listeners[i] /\ l[i] \in K
    BY <1>2
  <2>3. l \in Seq(L)
    <3>1. device.listeners \in Seq(L)
      BY <1>2
    <3> QED
      BY <3>1
  <2> HIDE DEF l, n, K
  <2>4. Distinct(l)
    <3> SUFFICES ASSUME NEW i \in 1 .. Len(l), NEW j \in 1 .. Len(l), l[i] = l[j] PROVE i = j
      BY DEF Distinct
    <3> QED
      BY <1>1, <2>1, <2>2 DEF Distinct, n
  <2>5. \A j \in K : Contains(l, j) => Contains(device.listeners, j)
    BY <1>1, <2>2 DEF Contains, n
  <2> QED
    BY <2>3, <2>4, <2>5
<1>8. v.device = d /\ v.queue = {} /\ d.pingid = device.pingid + 1 /\ d.listeners = l /\ d.series = s
  OBVIOUS
<1>9. first.type = "first" /\ first.series = k /\ first.id = 0 /\ first \in Events(L)
  BY DEF On, Events
<1>10. v \in Worlds(L) /\ F \subseteq Events(L)
  <2>1. events \subseteq Events(L)
    BY <1>1 DEF Good, Events
  <2>2. d.pingid \in Nat
    BY <1>2
  <2> HIDE DEF l, s
  <2> QED
    BY <2>1, <2>2, <1>6, <1>7, <1>9 DEF Worlds
<1> HIDE DEF K, s, l, d, v, first
<1>11. \A j \in L : Looked(v, F, j)
  <2>1. Looked(v, F, k)
    BY <1>9 DEF Looked
  <2>2. ASSUME NEW j \in K PROVE Looked(v, F, j)
    <3>1. Looked(World, events, j)
      BY <1>1 DEF Good
    <3> QED
      BY <3>1, <1>6, <1>7, <1>8 DEF Looked, World
  <2> QED
    BY <2>1, <2>2
<1>12. \A j \in L : Asked(v, F, j)
  <2>1. Asked(v, F, k)
    BY <1>5, <1>6, <1>8 DEF Asked
  <2>2. ASSUME NEW j \in K PROVE Asked(v, F, j)
    <3>1. Asked(World, events, j)
      BY <1>1 DEF Good
    <3>2. On("first", j, 0) \in F => On("first", j, 0) \in events
      BY <1>1, <1>9 DEF On
    <3>3. device.series[j].remaining \in Int
      BY <1>2 DEF SeriesState
    <3> QED
      BY <3>1, <3>2, <3>3, <1>6, <1>8 DEF Asked, World
  <2> QED
    BY <2>1, <2>2
<1>13. IdsKnown(v, F)
  <2>1. IdsKnown(World, events) /\ DOMAIN World.device.series = K /\ DOMAIN d.series = L
    BY <1>1, <1>6, <1>8 DEF Good, World, K
  <2>2. \A e \in F \cup v.queue : e.type = "reply" => e \in events
    BY <1>8, <1>9
  <2>3. \A e \in events : e.id \in Nat
    BY <1>1 DEF Good, Events
  <2>4. \A j \in K : device.series[j].lastsent \in Nat
    BY <1>2 DEF SeriesState
  <2>5. ASSUME NEW e \in F \cup v.queue, e.type = "reply" PROVE e.id <= v.device.pingid
    BY <2>5, <2>1, <2>2, <2>3, <1>2, <1>8 DEF IdsKnown, World
  <2>6. ASSUME NEW j \in L, v.device.series[j].lost = "yes"
        PROVE  /\ v.device.series[j].lastsent <= v.device.pingid
               /\ \A e \in F \cup v.queue :
                    e.type = "reply" /\ e.id = v.device.series[j].lastsent => e.series = j
    <3>1. j \in K /\ v.device.series[j] = device.series[j]
      BY <2>6, <1>5, <1>6, <1>8
    <3> QED
      BY <3>1, <2>1, <2>2, <2>4, <2>6, <1>2, <1>8 DEF IdsKnown, World
  <2> QED
    BY <2>1, <2>5, <2>6, <1>8 DEF IdsKnown
<1>14. Distinct(v.device.listeners) /\ \A e \in v.queue : e.type # "first"
  BY <1>7, <1>8
<1>15. Good(v, F, L, L)
  BY <1>10, <1>11, <1>12, <1>13, <1>14 DEF Good
<1>16. DOMAIN device'.series = L
  BY <1>3, <1>6, <1>8
<1>17. \A e \in events' : e.type = "first" => e.id = 0
  BY <1>3, <1>9 DEF IInv
<1>18. L \subseteq Series
  BY <1>1
<1> QED
  BY <1>3, <1>4, <1>15, <1>16, <1>17, <1>18 DEF IInv

LEMMA LoseIInv ==
  ASSUME IInv, NEW e \in events, Lose(e)
  PROVE  IInv'
<1> DEFINE K == DOMAIN device.series
<1>1. Good(World, events \ {e}, K, K)
  <2>1. Good(World, events, K, K)
    BY DEF IInv
  <2> QED
    BY <2>1, GoodTakes DEF Lose
<1>2. World' = World /\ device' = device /\ events' = events \ {e}
  BY DEF Lose, World
<1> QED
  BY <1>1, <1>2 DEF IInv

LEMMA NextIInv == IInv /\ [Next]_vars => IInv'
<1> SUFFICES ASSUME IInv, [Next]_vars PROVE IInv'
  OBVIOUS
<1>1. ASSUME NEW k \in Series, PingCommand(k) PROVE IInv'
  BY <1>1, CommandIInv
<1>2. ASSUME NEW e \in events, First(e) PROVE IInv'
  BY <1>2, Runs, BecomesIInv DEF First, World
<1>3. ASSUME NEW e \in events, Timeout(e) PROVE IInv'
  BY <1>3, Runs, BecomesIInv DEF Timeout, World
<1>4. ASSUME NEW e \in events, EchoReply(e) PROVE IInv'
  BY <1>4, Runs, BecomesIInv DEF EchoReply
<1>5. ASSUME NEW e \in events, Lose(e) PROVE IInv'
  BY <1>5, LoseIInv
<1>6. CASE RouteChange \/ UNCHANGED vars
  <2>1. device' = device /\ events' = events
    BY <1>6 DEF RouteChange, vars
  <2> QED
    BY <2>1 DEF IInv, World
<1> QED
  BY <1>1, <1>2, <1>3, <1>4, <1>5, <1>6 DEF Next

LEMMA Invariance == Spec => []IInv
<1>1. Init => IInv
  BY InitIInv
<1>2. IInv /\ [Next]_vars => IInv'
  BY NextIInv
<1> QED
  BY <1>1, <1>2, PTL DEF Spec

-----------------------------------------------------------------------------
(* A series that listens for replies has an event in the queue that looks  *)
(* after it, or has reported that there is no route (netdevice.py:198,     *)
(* 210, 241): no order of replies, timeouts and losses leaves a handler    *)
(* behind that nothing will take out of the list.                          *)
THEOREM NoHandlerLeft == Spec => []HandlersLookedAfter
<1>1. IInv => HandlersLookedAfter
  <2> SUFFICES ASSUME IInv, NEW k \in Series, Listening(k)
               PROVE  \/ device.series[k].unrouted
                      \/ \E e \in events : e.series = k /\ e.type \in {"first", "timer"}
    BY DEF HandlersLookedAfter
  <2>1. k \in DOMAIN device.series
    <3>1. World \in Worlds(DOMAIN device.series)
      BY DEF IInv, Good
    <3> QED
      BY <3>1 DEF World, Worlds, Listening, Contains
  <2>2. Looked(World, events, k)
    BY <2>1 DEF IInv, Good
  <2> QED
    BY <2>2 DEF Looked, World, Listening
<1> QED
  BY <1>1, Invariance, PTL

(* A series sends the requests it was asked for and one more at most, and  *)
(* that one only when replies to other series called its handler before    *)
(* its first request was due (netdevice.py:193, 247).                      *)
THEOREM OneTooManyAtMost == Spec => []SentAsAsked
<1>1. IInv => SentAsAsked
  <2> SUFFICES ASSUME IInv, NEW k \in DOMAIN device.series
               PROVE  device.series[k].remaining >= (IF On("first", k, 0) \in events THEN 0 ELSE -1)
    BY DEF SentAsAsked
  <2>1. Asked(World, events, k)
    BY DEF IInv, Good
  <2> QED
    BY <2>1 DEF Asked, World
<1> QED
  BY <1>1, Invariance, PTL

(* The step that turns a lost request into an answered one consumes the    *)
(* reply to that very request (netdevice.py:177): ids are given once, so   *)
(* a reply to another series or a late one never does it.                  *)
THEOREM OwnReplyAnswers == Spec => AnsweredByItself
<1> DEFINE A == \A k \in DOMAIN device.series :
                  (device.series[k].lost = "yes" /\ device'.series[k].lost = "no") =>
                    On("reply", k, device.series[k].lastsent) \in events \ events'
<1>1. IInv /\ [Next]_vars => [A]_vars
  <2> SUFFICES ASSUME IInv, Next,
                      NEW k \in DOMAIN device.series,
                      device.series[k].lost = "yes", device'.series[k].lost = "no"
               PROVE  On("reply", k, device.series[k].lastsent) \in events \ events'
    OBVIOUS
  <2> DEFINE K == DOMAIN device.series
  <2>0. Good(World, events, K, K) /\ World.device = device /\ World \in Worlds(K)
    BY DEF IInv, Good, World
  <2>1. ASSUME NEW j \in Series, PingCommand(j) PROVE FALSE
    <3>1. device'.series[k] = device.series[k]
      BY <2>1 DEF PingCommand, Started
    <3> QED
      BY <3>1
  <2>2. ASSUME NEW e \in events, First(e) \/ Timeout(e) PROVE FALSE
    <3> DEFINE j == e.series
    <3>1. j \in K /\ Good(World, events \ {e}, K \ {j}, K)
      BY <2>0, GoodTakes
    <3>2. device'.series[k].lost \in {device.series[k].lost, "yes"}
      <4>1. ASSUME device' = SendPacket(World, j).device
            PROVE  device'.series[k].lost \in {device.series[k].lost, "yes"}
        <5>1. Sent(World, SendPacket(World, j), j, K)
          BY <2>0, <3>1, Sends
        <5> QED
          BY <4>1, <5>1, <2>0 DEF Sent
      <4>2. ASSUME device' = Stopped(World, j).device
            PROVE  device'.series[k].lost \in {device.series[k].lost, "yes"}
        <5> DEFINE v == Stopped(World, j)
        <5>0. World \in Worlds(K) /\ Distinct(World.device.listeners) /\ World.device = device
          BY <3>1 DEF Good, World
        <5>1. v.device.series = World.device.series
          BY <5>0, StopsListening
        <5>2. device' = v.device
          BY <4>2
        <5> HIDE DEF v
        <5>3. device'.series = device.series
          BY <5>0, <5>1, <5>2
        <5> QED
          BY <5>3
      <4>3. \/ device' = SendPacket(World, j).device
            \/ device' = Stopped(World, j).device
        BY <2>2 DEF First, Timeout, Becomes, CheckAndSend, Stopped, World
      <4> QED
        BY <4>1, <4>2, <4>3
    <3> QED
      BY <3>2
  <2>3. ASSUME NEW e \in events, EchoReply(e)
        PROVE  On("reply", k, device.series[k].lastsent) \in events \ events'
    <3> DEFINE w == Observe(device, e.id)
    <3>1. e.type = "reply" /\ device' = w.device /\ events' = (events \ {e}) \cup w.queue
      BY <2>3 DEF EchoReply, Becomes
    <3>2. Trail(device, w, e.id) /\ Good(w, events \ {e}, K, K)
      BY <3>1, Runs
    <3> HIDE DEF w
    <3>3. e.id = device.series[k].lastsent
      BY <3>1, <3>2 DEF Trail
    <3>4. e.series = k /\ e.id <= device.pingid
      BY <2>0, <3>1, <3>3 DEF Good, IdsKnown
    <3>5. e = On("reply", k, device.series[k].lastsent)
      <4>1. e = [type |-> e.type, series |-> e.series, id |-> e.id]
        BY <2>0 DEF Good, Events
      <4> QED
        BY <4>1, <3>1, <3>3, <3>4 DEF On
    <3>6. e \notin w.queue
      <4>1. e.id \in Nat /\ device.pingid \in Nat
        BY <2>0 DEF Good, Worlds, Events, World
      <4> QED
        BY <4>1, <3>2, <3>4 DEF Trail
    <3> QED
      BY <3>1, <3>5, <3>6
  <2>4. ASSUME NEW e \in events, Lose(e) PROVE FALSE
    BY <2>4 DEF Lose
  <2>5. ASSUME RouteChange PROVE FALSE
    BY <2>5 DEF RouteChange
  <2> QED
    BY <2>1, <2>2, <2>3, <2>4, <2>5 DEF Next
<1> QED
  BY <1>1, Invariance, PTL DEF Spec, AnsweredByItself

=============================================================================
