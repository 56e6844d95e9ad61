----------------------------- MODULE RsvpProofs -----------------------------
(***************************************************************************)
(* Proofs about Rsvp, for any network, metrics, paths asked for, order of  *)
(* the messages and losses.                                                *)
(***************************************************************************)
EXTENDS Rsvp, FiniteSetTheorems, SequenceTheorems, TLAPS

(* The hops of a session, the ingress being number 0, and the label that   *)
(* hop i gives to the one before it.                                       *)
Hops(s)   == Len(Ero[s])
Hop(s, i) == IF i = 0 THEN s.src ELSE Ero[s][i]

Given(s, i) == IF i = Hops(s) THEN ImplicitNull ELSE Label(Hop(s, i), s)

(* The hops before i have path state; hop i can forward.                   *)
Kept(s, i)   == \A j \in 0 .. (i - 1) : s \in DOMAIN pathOf[Hop(s, j)]
Behind(s, i) == i < Hops(s) => s \in DOMAIN routes[Hop(s, i)]

(* A message is between two hops, with what it should carry.               *)
PathAt(m, s, i) == m = PathMsg(s, Hop(s, i - 1), SubSeq(Ero[s], i, Hops(s)))
ResvAt(m, s, i) == m = ResvMsg(s, Hop(s, i), Hop(s, i - 1), Given(s, i)) /\ Behind(s, i)

MessageOK(m) ==
  \E s \in Sessions : \E i \in 1 .. Hops(s) :
    Kept(s, i) /\ (PathAt(m, s, i) \/ ResvAt(m, s, i))

(* Path state is kept at a hop, and has the hop before it.                 *)
PathOK(r, s) ==
  /\ s \in Sessions /\ s \in sessions[s.src]
  /\ \E i \in 0 .. (Hops(s) - 1) :
       r = Hop(s, i) /\ pathOf[r][s] = Hop(s, IF i = 0 THEN 0 ELSE i - 1)

(* A route leads from hop i to the next with the label that one gave.      *)
Leads(t, s, i) ==
  /\ t.next = Hop(s, i + 1)
  /\ t.ops = << IF i = 0 THEN Push(Given(s, 1))
                ELSE IF i + 1 = Hops(s) THEN Pop ELSE Swap(Given(s, i + 1)) >>

RouteOK(r, s) ==
  /\ "bypass" \in DOMAIN routes[r][s]
  /\ s \in Sessions /\ (s.src = r => s.around = NoSystem)
  /\ \E i \in 0 .. (Hops(s) - 1) :
       r = Hop(s, i) /\ Leads(routes[r][s], s, i) /\ Behind(s, i + 1)
  /\ routes[r][s].bypass \in {NoBypass, KnownBypass(r, routes[r][s].next)}
  /\ s.src # r => routes[r][s].bypass = KnownBypass(r, routes[r][s].next)

BypassOK(r, s) ==
  /\ s \in Sessions /\ s.around # NoSystem /\ s.src = r
  /\ Hops(s) > 0 /\ Leads(bypasses[r][s], s, 0) /\ Behind(s, 1)

SessionsOK ==
  /\ sessions \in [Routers -> SUBSET Sessions]
  /\ \A r \in Routers : due[r] \subseteq Nbr(r)
  /\ \A r \in Routers : \A s \in sessions[r] :
       s.src = r /\ (Ero[s] # << >> => s \in DOMAIN pathOf[r])

Typed ==
  /\ DOMAIN pathOf = Routers /\ DOMAIN routes = Routers
  /\ DOMAIN bypasses = Routers /\ DOMAIN due = Routers
  /\ losses \in Nat

WayInv ==
  /\ Typed
  /\ SessionsOK
  /\ \A m \in wire : MessageOK(m)
  /\ \A r \in Routers : \A s \in DOMAIN pathOf[r] : PathOK(r, s)
  /\ \A r \in Routers : \A s \in DOMAIN routes[r] : RouteOK(r, s)
  /\ \A r \in Routers : \A s \in DOMAIN bypasses[r] : BypassOK(r, s)

(* Nothing stops with no message lost: a path that was opened is set up or *)
(* has a message under way, and its hops open the bypasses it asks for.    *)
SetUpInv ==
  /\ \A r \in Routers : \A s \in sessions[r] :
       losses = 0 /\ Ero[s] # << >> =>
         s \in DOMAIN routes[r] \cup DOMAIN bypasses[r] \/ \E m \in wire : m.session = s
  /\ \A r \in Routers : \A s \in DOMAIN routes[r] :
       s.protect => \/ routes[r][s].next \in due[r]
                    \/ Bypass(r, routes[r][s].next) \in sessions[r]

IInv == WayInv /\ SetUpInv

-----------------------------------------------------------------------------
LEMMA HasLeast ==
  ASSUME NEW K \in SUBSET Nat, K # {}
  PROVE  \E k \in K : \A j \in K : k <= j
<1> DEFINE R == OpToRel(<, Nat)
<1>1. R = {x \in Nat \X Nat : x[1] < x[2]}
  BY DEF OpToRel
<1>2. IsWellFoundedOn(R, Nat)
  BY NatLessThanWellFounded
<1> HIDE DEF R
<1>3. \E k \in K : \A j \in K : <<j, k>> \notin R
  BY <1>2, WFMin
<1>4. ASSUME NEW j \in Nat, NEW k \in Nat, <<j, k>> \notin R PROVE k <= j
  <2>1. ~ (j < k)
    BY <1>1, <1>4
  <2> QED
    BY <2>1
<1> QED
  BY <1>3, <1>4

(* What holds of 0 and goes from i - 1 to i holds of 0 .. n.               *)
LEMMA UpTo ==
  ASSUME NEW n \in Nat, NEW S, 0 \in S, \A i \in 1 .. n : i - 1 \in S => i \in S
  PROVE  0 .. n \subseteq S
<1> SUFFICES ASSUME NEW x \in 0 .. n, x \notin S PROVE FALSE
  OBVIOUS
<1> DEFINE B == {i \in 0 .. n : i \notin S}
<1>1. B \in SUBSET Nat /\ B # {}
  OBVIOUS
<1>2. PICK b \in B : \A c \in B : b <= c
  <2> HIDE DEF B
  <2> QED
    BY <1>1, HasLeast
<1>3. b \in 1 .. n /\ b - 1 \in 0 .. n /\ b - 1 \notin B
  BY <1>2
<1> QED
  BY <1>2, <1>3

(* The values of a loop of n rounds, that of round i in V[i]: step i takes  *)
(* the value of the round before to the next.                              *)
Loop(f, n, V, w, step) ==
  /\ f = [i \in 0 .. n |-> f[i]]
  /\ f[0] = w
  /\ \A i \in 1 .. n : f[i] = step[<<f[i - 1], i>>]
  /\ \A i \in 0 .. n : f[i] \in V[i]

LEMMA Rounds ==
  ASSUME NEW n \in Nat, NEW V, NEW w \in V[0], NEW step,
         \A i \in 1 .. n : \A x \in V[i - 1] : step[<<x, i>>] \in V[i]
  PROVE  \E f : Loop(f, n, V, w, step)
<1> DEFINE S == {m \in 0 .. n : \E f : Loop(f, m, V, w, step)}
<1>1. 0 \in S
  <2> DEFINE g == [i \in 0 .. 0 |-> w]
  <2>1. g = [i \in 0 .. 0 |-> g[i]] /\ g[0] = w /\ \A i \in 0 .. 0 : g[i] \in V[i]
    OBVIOUS
  <2> HIDE DEF g
  <2>2. Loop(g, 0, V, w, step)
    BY <2>1 DEF Loop
  <2> QED
    BY <2>2
<1>2. ASSUME NEW m \in 1 .. n, m - 1 \in S PROVE m \in S
  <2>1. PICK f : Loop(f, m - 1, V, w, step)
    BY <1>2
  <2> DEFINE g == [i \in 0 .. m |-> IF i = m THEN step[<<f[m - 1], m>>] ELSE f[i]]
  <2>2. f[m - 1] \in V[m - 1] /\ step[<<f[m - 1], m>>] \in V[m]
    BY <2>1 DEF Loop
  <2>3. g = [i \in 0 .. m |-> g[i]]
    OBVIOUS
  <2>4. /\ \A i \in 0 .. (m - 1) : g[i] = f[i]
        /\ g[m] = step[<<f[m - 1], m>>]
    OBVIOUS
  <2> HIDE DEF g
  <2>5. g[0] = w /\ \A i \in 0 .. m : g[i] \in V[i]
    BY <2>1, <2>2, <2>4 DEF Loop
  <2>6. ASSUME NEW i \in 1 .. m PROVE g[i] = step[<<g[i - 1], i>>]
    <3>1. i - 1 \in 0 .. (m - 1) /\ g[i - 1] = f[i - 1]
      BY <2>4
    <3>2. CASE i = m
      BY <3>1, <3>2, <2>4, Zenon
    <3>3. CASE i # m
      <4>1. i \in 1 .. (m - 1) /\ i \in 0 .. (m - 1)
        BY <3>3
      <4>2. f[i] = step[<<f[i - 1], i>>]
        BY <4>1, <2>1 DEF Loop
      <4>3. g[i] = f[i]
        BY <4>1, <2>4
      <4> QED
        BY <3>1, <4>2, <4>3, Zenon
    <3> QED
      BY <3>2, <3>3
  <2>7. Loop(g, m, V, w, step)
    BY <2>3, <2>5, <2>6 DEF Loop
  <2> QED
    BY <2>7
<1> HIDE DEF S
<1>3. n \in S
  BY <1>1, <1>2, UpTo
<1> QED
  BY <1>3 DEF S

-----------------------------------------------------------------------------
(* The databases and the shortest paths over them.                         *)
Graph(g) ==
  /\ g.systems \subseteq Nat \ {0} /\ IsFiniteSet(g.systems)
  /\ \A a \in g.systems :
       /\ g.nbrs[a] \subseteq g.systems
       /\ \A b \in g.nbrs[a] : Metric[a][b] \in Nat \ {0}

SpfStates(g) ==
  [queue : SUBSET g.systems, dist : [g.systems -> Nat], prev : [g.systems -> g.systems \cup {NoSystem}]]

(* A tree of neighbours, each nearer to self than those behind it.         *)
Tree(g, self, w) ==
  /\ w.dist[self] = 0 /\ w.prev[self] = NoSystem
  /\ \A v \in g.systems :
       /\ w.dist[v] <= Far \/ v = self
       /\ v # self /\ w.prev[v] = NoSystem => w.dist[v] = Far
       /\ w.prev[v] # NoSystem =>
            v \in g.nbrs[w.prev[v]] /\ w.dist[w.prev[v]] < w.dist[v] /\ w.dist[v] < Far

(* What left the queue is nearest, and offered its neighbours the way.     *)
Short(g, w) ==
  \A u \in g.systems \ w.queue :
    /\ \A v \in w.queue : w.dist[u] <= w.dist[v]
    /\ \A m \in g.nbrs[u] : w.dist[m] <= w.dist[u] + Metric[u][m]

SpfOK(g, self, w) == w \in SpfStates(g) /\ Tree(g, self, w) /\ Short(g, w)

LEMMA NearestIsLeast ==
  ASSUME NEW g, Graph(g), NEW w \in SpfStates(g), w.queue # {}
  PROVE  /\ Nearest(w) \in w.queue
         /\ \A m \in w.queue : w.dist[Nearest(w)] <= w.dist[m]
<1> DEFINE D == {w.dist[v] : v \in w.queue}
           N == {n \in w.queue : \A m \in w.queue : w.dist[n] <= w.dist[m]}
<1>1. w.queue \subseteq g.systems /\ w.dist \in [g.systems -> Nat] /\ g.systems \subseteq Nat
  BY DEF SpfStates, Graph
<1>2. D \in SUBSET Nat /\ D # {}
  BY <1>1
<1>3. PICK d \in D : \A e \in D : d <= e
  <2> HIDE DEF D
  <2> QED
    BY <1>2, HasLeast
<1>4. N \in SUBSET Nat /\ N # {}
  BY <1>1, <1>3
<1>5. PICK n \in N : \A m \in N : n <= m
  <2> HIDE DEF N
  <2> QED
    BY <1>4, HasLeast
<1>6. Nearest(w) = Min(N)
  BY DEF Nearest
<1>7. Min(N) \in N
  <2> HIDE DEF N
  <2> QED
    BY <1>5 DEF Min
<1> QED
  BY <1>6, <1>7

LEMMA RelaxKeeps ==
  ASSUME NEW g, Graph(g), NEW self \in g.systems, Far \in Nat,
         NEW w, SpfOK(g, self, w),
         NEW n \in w.queue, \A m \in w.queue : w.dist[n] <= w.dist[m]
  PROVE  /\ SpfOK(g, self, Relaxed(w, n, g.nbrs[n]))
         /\ Relaxed(w, n, g.nbrs[n]).queue = w.queue \ {n}
<1> DEFINE S == g.systems
           better(m) == m \in g.nbrs[n] /\ w.dist[n] + Metric[n][m] < w.dist[m]
           dist == [m \in S |-> IF better(m) THEN w.dist[n] + Metric[n][m] ELSE w.dist[m]]
           prev == [m \in S |-> IF better(m) THEN n ELSE w.prev[m]]
           r == Relaxed(w, n, g.nbrs[n])
<1>1. /\ w.queue \subseteq S /\ w.dist \in [S -> Nat] /\ w.prev \in [S -> S \cup {NoSystem}]
      /\ n \in S /\ g.nbrs[n] \subseteq S
      /\ \A m \in g.nbrs[n] : Metric[n][m] \in Nat \ {0}
      /\ DOMAIN w.dist = S /\ DOMAIN w.prev = S
      /\ NoSystem \notin S
  BY DEF SpfOK, SpfStates, Graph, NoSystem
<1>2. r = [queue |-> w.queue \ {n}, dist |-> dist, prev |-> prev]
  BY <1>1 DEF Relaxed
<1>3. r.queue = w.queue \ {n} /\ r.dist = dist /\ r.prev = prev
  BY <1>2
<1>4. /\ dist \in [S -> Nat] /\ prev \in [S -> S \cup {NoSystem}]
      /\ \A m \in S : /\ ~ better(m) => dist[m] = w.dist[m] /\ prev[m] = w.prev[m]
                      /\ better(m) => dist[m] = w.dist[n] + Metric[n][m] /\ prev[m] = n
      /\ \A m \in S : dist[m] <= w.dist[m]
  BY <1>1
<1>5. r \in SpfStates(g)
  BY <1>1, <1>2, <1>4 DEF SpfStates
<1> HIDE DEF dist, prev, r
<1>6. ~ better(n) /\ dist[n] = w.dist[n]
  BY <1>1, <1>4
<1>7. Tree(g, self, r)
  <2>1. ~ better(self)
    BY <1>1 DEF SpfOK, Tree
  <2>2. dist[self] = 0 /\ prev[self] = NoSystem
    BY <2>1, <1>4 DEF SpfOK, Tree
  <2>3. ASSUME NEW v \in S
        PROVE  /\ dist[v] <= Far \/ v = self
               /\ v # self /\ prev[v] = NoSystem => dist[v] = Far
               /\ prev[v] # NoSystem =>
                    v \in g.nbrs[prev[v]] /\ dist[prev[v]] < dist[v] /\ dist[v] < Far
    <3>1. CASE better(v)
      <4>1. v # self
        BY <3>1, <2>1
      <4>2. w.dist[v] <= Far
        BY <4>1 DEF SpfOK, Tree
      <4>3. /\ dist[v] = w.dist[n] + Metric[n][v] /\ prev[v] = n /\ n # NoSystem
            /\ dist[v] < w.dist[v] /\ Metric[n][v] \in Nat \ {0} /\ v \in g.nbrs[n]
        BY <3>1, <1>1, <1>4
      <4>4. w.dist[n] \in Nat /\ w.dist[v] \in Nat
        BY <1>1
      <4>5. dist[v] < Far /\ w.dist[n] < dist[v] /\ dist[v] <= Far
        BY <4>2, <4>3, <4>4
      <4>6. dist[prev[v]] = w.dist[n]
        BY <4>3, <1>6
      <4> QED
        BY <4>3, <4>5, <4>6
    <3>2. CASE ~ better(v)
      <4>1. dist[v] = w.dist[v] /\ prev[v] = w.prev[v]
        BY <3>2, <1>4
      <4>2. /\ w.dist[v] <= Far \/ v = self
            /\ v # self /\ w.prev[v] = NoSystem => w.dist[v] = Far
            /\ w.prev[v] # NoSystem =>
                 v \in g.nbrs[w.prev[v]] /\ w.dist[w.prev[v]] < w.dist[v] /\ w.dist[v] < Far
        BY DEF SpfOK, Tree
      <4>3. w.prev[v] # NoSystem => w.prev[v] \in S
        BY <1>1
      <4>4. ASSUME NEW u \in S, w.dist[u] < w.dist[v] PROVE dist[u] < w.dist[v]
        <5>1. dist[u] \in Nat /\ w.dist[u] \in Nat /\ w.dist[v] \in Nat /\ dist[u] <= w.dist[u]
          BY <1>1, <1>4
        <5> QED
          BY <5>1, <4>4
      <4> QED
        BY <4>1, <4>2, <4>3, <4>4
    <3> QED
      BY <3>1, <3>2
  <2> QED
    BY <2>2, <2>3, <1>3 DEF Tree
<1>8. Short(g, r)
  <2> SUFFICES ASSUME NEW u \in S \ (w.queue \ {n})
               PROVE  /\ \A v \in w.queue \ {n} : dist[u] <= dist[v]
                      /\ \A m \in g.nbrs[u] : dist[m] <= dist[u] + Metric[u][m]
    BY <1>3 DEF Short
  <2>0. \A v \in S : w.dist[v] \in Nat /\ dist[v] \in Nat
    BY <1>1, <1>4
  <2>1. dist[u] = w.dist[u] /\ w.dist[u] <= w.dist[n]
    <3>1. CASE u = n
      BY <3>1, <1>6, <2>0
    <3>2. CASE u # n
      <4>1. w.dist[u] <= w.dist[n]
        BY <3>2 DEF SpfOK, Short
      <4>2. ~ better(u)
        BY <4>1, <2>0, <1>1
      <4> QED
        BY <4>1, <4>2, <1>4
    <3> QED
      BY <3>1, <3>2
  <2>2. ASSUME NEW v \in w.queue \ {n} PROVE dist[u] <= dist[v]
    <3>1. w.dist[n] <= w.dist[v]
      OBVIOUS
    <3>2. w.dist[n] <= dist[v]
      <4>1. CASE better(v)
        <5>1. dist[v] = w.dist[n] + Metric[n][v] /\ Metric[n][v] \in Nat
          BY <4>1, <1>1, <1>4
        <5> QED
          BY <5>1, <2>0, <1>1
      <4>2. CASE ~ better(v)
        BY <4>2, <3>1, <1>1, <1>4
      <4> QED
        BY <4>1, <4>2
    <3> QED
      BY <3>2, <2>0, <2>1, <1>1
  <2>3. ASSUME NEW m \in g.nbrs[u] PROVE dist[m] <= dist[u] + Metric[u][m]
    <3>0. m \in S /\ Metric[u][m] \in Nat
      BY DEF Graph
    <3>1. CASE u = n
      <4>1. CASE better(m)
        BY <4>1, <3>1, <3>0, <2>0, <2>1, <1>4
      <4>2. CASE ~ better(m)
        BY <4>2, <3>1, <3>0, <2>0, <2>1, <1>4
      <4> QED
        BY <4>1, <4>2
    <3>2. CASE u # n
      <4>1. w.dist[m] <= w.dist[u] + Metric[u][m]
        BY <3>2 DEF SpfOK, Short
      <4>2. dist[m] <= w.dist[m]
        BY <3>0, <1>4
      <4> QED
        BY <4>1, <4>2, <3>0, <2>0, <2>1
    <3> QED
      BY <3>1, <3>2
  <2> QED
    BY <2>2, <2>3
<1> QED
  BY <1>3, <1>5, <1>7, <1>8 DEF SpfOK, r

LEMMA DijkstraIs ==
  ASSUME NEW g, Graph(g), NEW self \in g.systems, Far \in Nat
  PROVE  SpfOK(g, self, Dijkstra(g, self)) /\ Dijkstra(g, self).queue = {}
<1> DEFINE S == g.systems
           c == Cardinality(S)
           w0 == Start(g, self)
           Step(x) == Relaxed(x, Nearest(x), g.nbrs[Nearest(x)])
           C(f) == f = [k \in 0 .. c |->
                          IF k = 0 THEN w0
                          ELSE Relaxed(f[k - 1], Nearest(f[k - 1]), g.nbrs[Nearest(f[k - 1])])]
           F == CHOOSE f : C(f)
           V == [k \in 0 .. c |-> {w \in SpfStates(g) : SpfOK(g, self, w) /\ Cardinality(w.queue) = c - k}]
           step == [x \in SpfStates(g) \X (1 .. c) |-> Step(x[1])]
<1>1. Dijkstra(g, self) = F[c]
  BY DEF Dijkstra
<1>2. c \in Nat /\ IsFiniteSet(S)
  BY FS_CardinalityType DEF Graph
<1>3. w0 \in V[0]
  <2>1. w0.queue = S /\ w0.dist = [s \in S |-> IF s = self THEN 0 ELSE Far] /\ w0.prev = [s \in S |-> NoSystem]
    BY DEF Start
  <2>2. w0 \in SpfStates(g)
    BY DEF Start, SpfStates
  <2>3. Tree(g, self, w0)
    BY <2>1 DEF Tree
  <2>4. Short(g, w0)
    BY <2>1 DEF Short
  <2> HIDE DEF w0
  <2> QED
    BY <1>2, <2>1, <2>2, <2>3, <2>4 DEF SpfOK
<1>4. ASSUME NEW k \in 1 .. c, NEW x \in V[k - 1]
      PROVE  x \in SpfStates(g) /\ Step(x) \in V[k]
  <2>1. x \in SpfStates(g) /\ SpfOK(g, self, x) /\ Cardinality(x.queue) = c - (k - 1)
    BY <1>2
  <2>2. x.queue \subseteq S
    BY <2>1 DEF SpfStates
  <2>3. IsFiniteSet(x.queue) /\ x.queue # {}
    <3>1. IsFiniteSet(x.queue)
      BY <1>2, <2>2, FS_Subset
    <3>2. Cardinality(x.queue) # 0
      BY <1>2, <2>1
    <3> QED
      BY <3>1, <3>2, FS_EmptySet
  <2>4. /\ Nearest(x) \in x.queue
        /\ \A m \in x.queue : x.dist[Nearest(x)] <= x.dist[m]
    BY <2>1, <2>3, NearestIsLeast
  <2>5. SpfOK(g, self, Step(x)) /\ Step(x).queue = x.queue \ {Nearest(x)}
    <3> DEFINE n == Nearest(x)
    <3>1. n \in x.queue /\ \A m \in x.queue : x.dist[n] <= x.dist[m]
      BY <2>4
    <3> HIDE DEF n
    <3>2. SpfOK(g, self, Relaxed(x, n, g.nbrs[n])) /\ Relaxed(x, n, g.nbrs[n]).queue = x.queue \ {n}
      BY <2>1, <3>1, RelaxKeeps
    <3> QED
      BY <3>2 DEF n
  <2>6. Cardinality(Step(x).queue) = c - k
    <3>1. Cardinality(x.queue \ {Nearest(x)}) = Cardinality(x.queue) - 1
      BY <2>3, <2>4, FS_RemoveElement
    <3> HIDE DEF Step, c
    <3> QED
      BY <3>1, <2>1, <2>5, <1>2
  <2>7. Step(x) \in SpfStates(g)
    BY <2>5 DEF SpfOK
  <2>8. V[k] = {w \in SpfStates(g) : SpfOK(g, self, w) /\ Cardinality(w.queue) = c - k}
    <3> HIDE DEF c
    <3>1. k \in 0 .. c
      BY <1>2
    <3> QED
      BY <3>1
  <2> HIDE DEF Step, V, c
  <2> QED
    BY <2>1, <2>5, <2>6, <2>7, <2>8
<1>5. \A k \in 1 .. c : \A x \in V[k - 1] : step[<<x, k>>] = Step(x)
  BY <1>4
<1> HIDE DEF V, w0, step, Step
<1>6. PICK f : Loop(f, c, V, w0, step)
  <2>1. \A k \in 1 .. c : \A x \in V[k - 1] : step[<<x, k>>] \in V[k]
    BY <1>4, <1>5
  <2> HIDE DEF c
  <2> QED
    BY <1>2, <1>3, <2>1, Rounds
<1>7. C(f)
  <2> DEFINE E(k) == IF k = 0 THEN w0
                     ELSE Relaxed(f[k - 1], Nearest(f[k - 1]), g.nbrs[Nearest(f[k - 1])])
  <2>1. f = [k \in 0 .. c |-> f[k]]
    BY <1>6 DEF Loop
  <2>2. ASSUME NEW k \in 0 .. c PROVE f[k] = E(k)
    <3>1. CASE k = 0
      BY <3>1, <1>6 DEF Loop
    <3>2. CASE k # 0
      <4>1. k \in 1 .. c /\ k - 1 \in 0 .. c
        BY <3>2, <1>2
      <4>2. f[k] = Step(f[k - 1])
        BY <4>1, <1>5, <1>6 DEF Loop
      <4> QED
        BY <3>2, <4>2 DEF Step
    <3> QED
      BY <3>1, <3>2
  <2> HIDE DEF E
  <2>3. f = [k \in 0 .. c |-> E(k)]
    BY <2>1, <2>2, Zenon
  <2> QED
    BY <2>3 DEF E
<1>8. C(F)
  <2> HIDE DEF C
  <2> QED
    BY <1>7
<1> HIDE DEF F
<1>9. F[0] = w0 /\ \A k \in 1 .. c : F[k] = Step(F[k - 1])
  <2> DEFINE E(k) == IF k = 0 THEN w0
                     ELSE Relaxed(F[k - 1], Nearest(F[k - 1]), g.nbrs[Nearest(F[k - 1])])
  <2>1. F = [k \in 0 .. c |-> E(k)]
    BY <1>8
  <2> HIDE DEF E
  <2>2. \A k \in 0 .. c : F[k] = E(k)
    BY <2>1, Zenon
  <2> HIDE DEF c
  <2>3. 0 \in 0 .. c /\ \A k \in 1 .. c : k \in 0 .. c /\ k # 0
    BY <1>2
  <2> QED
    BY <2>2, <2>3 DEF E, Step
<1>10. F[c] \in V[c]
  <2> DEFINE I == {k \in 0 .. c : F[k] \in V[k]}
  <2>1. 0 \in I
    BY <1>2, <1>3, <1>9
  <2>2. \A k \in 1 .. c : k - 1 \in I => k \in I
    BY <1>4, <1>9
  <2> HIDE DEF I, c
  <2>3. c \in I
    BY <1>2, <2>1, <2>2, UpTo
  <2> QED
    BY <2>3 DEF I
<1>11. SpfOK(g, self, F[c]) /\ Cardinality(F[c].queue) = c - c /\ F[c] \in SpfStates(g)
  BY <1>10, <1>2 DEF V
<1>12. F[c].queue = {}
  <2>1. F[c].queue \subseteq S
    BY <1>11 DEF SpfStates
  <2>2. IsFiniteSet(F[c].queue)
    BY <1>2, <2>1, FS_Subset
  <2>3. Cardinality(F[c].queue) = 0
    BY <1>2, <1>11
  <2> QED
    BY <2>2, <2>3, FS_EmptySet
<1> QED
  BY <1>1, <1>11, <1>12

LEMMA OneLess ==
  ASSUME NEW l \in Nat, NEW k \in 1 .. l, k # 1
  PROVE  k - 1 \in 1 .. (l - 1) /\ (k - 1) + 1 = k /\ k \in 1 .. l + 1
OBVIOUS

(* A walk back from d along prev.                                          *)
Trail(D, self, d, w) ==
  /\ w \in Seq(Routers) /\ Len(w) > 0 /\ w[Len(w)] = d
  /\ \A i \in 1 .. Len(w) : w[i] # self
  /\ \A i \in 1 .. (Len(w) - 1) : D.prev[w[i + 1]] = w[i]
  /\ \A i, j \in 1 .. Len(w) : i < j => D.dist[w[i]] < D.dist[w[j]]
  /\ IF D.prev[d] = NoSystem THEN Len(w) = 1 ELSE D.prev[w[1]] # NoSystem

LEMMA TrailGrows ==
  ASSUME NEW g, Graph(g), g.systems = Routers, NEW self \in Routers, Far \in Nat,
         NEW D, SpfOK(g, self, D), NEW d \in Routers, NEW w, Trail(D, self, d, w),
         D.prev[w[1]] \notin {self, NoSystem}
  PROVE  /\ Trail(D, self, d, <<D.prev[w[1]]>> \o w)
         /\ Len(<<D.prev[w[1]]>> \o w) = Len(w) + 1
<1> DEFINE x == D.prev[w[1]]
           n == Len(w)
           u == <<x>> \o w
<1>1. /\ w \in Seq(Routers) /\ n \in Nat \ {0}
      /\ \A i \in 1 .. n : w[i] \in Routers
      /\ D.dist \in [Routers -> Nat] /\ D.prev \in [Routers -> Routers \cup {NoSystem}]
  BY DEF Trail, SpfOK, SpfStates
<1>2. x \in Routers /\ x # self /\ D.dist[x] < D.dist[w[1]] /\ D.prev[x] # NoSystem
  <2>1. w[1] \in Routers /\ x \in Routers /\ x # self /\ x # NoSystem
    BY <1>1
  <2>2. D.dist[x] < D.dist[w[1]] /\ D.dist[w[1]] < Far
    BY <2>1 DEF SpfOK, Tree
  <2>3. D.dist[x] # Far
    <3>1. D.dist[x] \in Nat /\ D.dist[w[1]] \in Nat
      BY <1>1, <2>1
    <3> QED
      BY <2>2, <3>1
  <2> QED
    BY <2>1, <2>2, <2>3 DEF SpfOK, Tree
<1> HIDE DEF x
<1>3. /\ <<x>> \in Seq(Routers) /\ Len(<<x>>) = 1 /\ <<x>>[1] = x
  BY <1>2
<1>4. /\ u \in Seq(Routers) /\ Len(u) = 1 + n
      /\ \A i \in 1 .. 1 + n : u[i] = IF i <= 1 THEN <<x>>[i] ELSE w[i - 1]
  BY <1>1, <1>3, ConcatProperties
<1> HIDE DEF u, n
<1>5. Len(u) = n + 1 /\ u[1] = x /\ \A i \in 1 .. n : u[i + 1] = w[i]
  <2>1. 1 \in 1 .. 1 + n /\ \A i \in 1 .. n : i + 1 \in 1 .. 1 + n /\ ~ (i + 1 <= 1) /\ (i + 1) - 1 = i
    BY <1>1
  <2>2. ASSUME NEW i \in 1 .. n PROVE u[i + 1] = w[i]
    BY <1>4, <2>1
  <2>3. Len(u) = n + 1 /\ u[1] = x
    BY <1>1, <1>3, <1>4, <2>1
  <2> QED
    BY <2>2, <2>3
<1>6. \A i \in 1 .. n + 1 : i = 1 \/ (i - 1 \in 1 .. n /\ u[i] = w[i - 1])
  <2> TAKE i \in 1 .. n + 1
  <2>1. i = 1 \/ (i - 1 \in 1 .. n /\ (i - 1) + 1 = i)
    BY <1>1
  <2> QED
    BY <2>1, <1>5
<1>7. u[Len(u)] = d
  BY <1>1, <1>5 DEF Trail, n
<1>8. \A i \in 1 .. n + 1 : u[i] # self
  BY <1>2, <1>5, <1>6 DEF Trail, n
<1>9. \A i \in 1 .. ((n + 1) - 1) : D.prev[u[i + 1]] = u[i]
  <2> TAKE i \in 1 .. ((n + 1) - 1)
  <2>1. i \in 1 .. n /\ u[i + 1] = w[i]
    BY <1>1, <1>5
  <2>2. CASE i = 1
    BY <2>1, <2>2, <1>5 DEF x
  <2>3. CASE i # 1
    <3>1. i - 1 \in 1 .. (n - 1) /\ (i - 1) + 1 = i /\ i \in 1 .. n + 1
      BY <2>1, <2>3, <1>1, OneLess
    <3>2. D.prev[w[(i - 1) + 1]] = w[i - 1]
      BY <3>1 DEF Trail, n
    <3> QED
      BY <2>1, <2>3, <3>1, <3>2, <1>6
  <2> QED
    BY <2>2, <2>3
<1>10. \A i, j \in 1 .. n + 1 : i < j => D.dist[u[i]] < D.dist[u[j]]
  <2> SUFFICES ASSUME NEW i \in 1 .. n + 1, NEW j \in 1 .. n + 1, i < j
               PROVE  D.dist[u[i]] < D.dist[u[j]]
    OBVIOUS
  <2>1. j - 1 \in 1 .. n /\ u[j] = w[j - 1]
    <3>1. j # 1
      BY <1>1
    <3> QED
      BY <1>6, <3>1
  <2>2. \A a, b \in 1 .. n : a < b => D.dist[w[a]] < D.dist[w[b]]
    BY DEF Trail, n
  <2>3. CASE i = 1
    <3>1. D.dist[x] \in Nat /\ D.dist[w[1]] \in Nat /\ D.dist[w[j - 1]] \in Nat
      BY <1>1, <1>2, <2>1
    <3>2. j - 1 = 1 \/ D.dist[w[1]] < D.dist[w[j - 1]]
      <4>1. 1 \in 1 .. n /\ (j - 1 = 1 \/ 1 < j - 1)
        BY <1>1, <2>1
      <4> QED
        BY <2>1, <2>2, <4>1
    <3> QED
      BY <2>1, <2>3, <3>1, <3>2, <1>2, <1>5
  <2>4. CASE i # 1
    <3>1. i - 1 \in 1 .. n /\ u[i] = w[i - 1] /\ i - 1 < j - 1
      BY <2>4, <1>1, <1>6
    <3> QED
      BY <2>1, <2>2, <3>1
  <2> QED
    BY <2>3, <2>4
<1>11. D.prev[d] # NoSystem
  <2>1. D.prev[d] = NoSystem => w[1] = d
    BY DEF Trail
  <2> QED
    BY <2>1
<1>12. Trail(D, self, d, u)
  <2>1. u \in Seq(Routers) /\ Len(u) > 0
    BY <1>1, <1>4
  <2>2. /\ \A i \in 1 .. Len(u) : u[i] # self
        /\ \A i \in 1 .. (Len(u) - 1) : D.prev[u[i + 1]] = u[i]
        /\ \A i, j \in 1 .. Len(u) : i < j => D.dist[u[i]] < D.dist[u[j]]
    BY <1>5, <1>8, <1>9, <1>10, Zenon
  <2>3. IF D.prev[d] = NoSystem THEN Len(u) = 1 ELSE D.prev[u[1]] # NoSystem
    BY <1>2, <1>5, <1>11, Zenon
  <2> QED
    BY <1>7, <2>1, <2>2, <2>3, Zenon DEF Trail
<1> QED
  BY <1>5, <1>12 DEF u, x, n

(* A walk longer than there are routers would meet one twice.              *)
LEMMA TrailEnds ==
  ASSUME NEW g, g.systems = Routers, NEW self, NEW D, SpfOK(g, self, D),
         NEW d, NEW w, Trail(D, self, d, w), IsFiniteSet(Routers)
  PROVE  Len(w) <= Cardinality(Routers)
<1> DEFINE n == Len(w)
<1>1. n \in Nat /\ w \in [1 .. n -> Routers] /\ D.dist \in [Routers -> Nat]
  BY DEF Trail, SpfOK, SpfStates
<1>2. Cardinality(Routers) \in Nat
  BY FS_CardinalityType
<1> SUFFICES ASSUME Cardinality(Routers) < n PROVE FALSE
  BY <1>1, <1>2
<1>3. IsFiniteSet(1 .. n) /\ Cardinality(1 .. n) = n
  <2>1. ASSUME NEW l \in Nat PROVE IsFiniteSet(1 .. l) /\ Cardinality(1 .. l) = l
    <3>1. Cardinality(1 .. l) = (IF 1 > l THEN 0 ELSE l - 1 + 1) /\ IsFiniteSet(1 .. l)
      BY FS_Interval
    <3>2. (IF 1 > l THEN 0 ELSE l - 1 + 1) = l
      OBVIOUS
    <3> QED
      BY <3>1, <3>2
  <2> QED
    BY <2>1, <1>1
<1>4. PICK x, y \in 1 .. n : x # y /\ w[x] = w[y]
  <2> HIDE DEF n
  <2> QED
    BY <1>1, <1>3, FS_PigeonHole
<1>5. w[x] \in Routers /\ D.dist[w[x]] \in Nat /\ (x < y \/ y < x)
  BY <1>1, <1>4
<1>6. D.dist[w[x]] < D.dist[w[y]] \/ D.dist[w[y]] < D.dist[w[x]]
  BY <1>5 DEF Trail
<1> QED
  BY <1>4, <1>5, <1>6

LEMMA SessionFacts ==
  ASSUME NEW s \in Sessions
  PROVE  /\ s.src \in Routers /\ s.dest \in Routers /\ s.src # s.dest
         /\ s.around # NoSystem => s.around \in Nbr(s.src) /\ s = Bypass(s.src, s.around)
<1>1. CASE s \in Requests
  BY <1>1, RsvpAssumption DEF Session, NoSystem
<1>2. CASE s \notin Requests
  <2>1. PICK l \in Routers \X Routers : {l[1], l[2]} \in Links /\ s = Bypass(l[1], l[2])
    BY <1>2 DEF Sessions
  <2>2. l[1] # l[2]
    <3> SUFFICES ASSUME l[1] = l[2] PROVE FALSE
      OBVIOUS
    <3>1. Cardinality({l[1]}) = 1
      BY FS_Singleton
    <3>2. {l[1]} \in Links
      BY <2>1
    <3>3. Cardinality({l[1]}) = 2
      BY <3>2, RsvpAssumption
    <3> QED
      BY <3>1, <3>3
  <2> QED
    BY <2>1, <2>2 DEF Bypass, Session, Nbr
<1> QED
  BY <1>1, <1>2

LEMMA BypassFacts ==
  ASSUME NEW r \in Routers, NEW n \in Nbr(r)
  PROVE  /\ n \in Routers /\ n # NoSystem
         /\ Bypass(r, n) \in Sessions
         /\ Bypass(r, n).src = r /\ Bypass(r, n).dest = n /\ Bypass(r, n).around = n
<1>1. n \in Routers /\ n # NoSystem
  BY RsvpAssumption DEF Nbr, NoSystem
<1>2. <<r, n>> \in {x \in Routers \X Routers : {x[1], x[2]} \in Links}
  BY <1>1 DEF Nbr
<1>3. Bypass(r, n) \in Sessions
  <2> DEFINE L == {x \in Routers \X Routers : {x[1], x[2]} \in Links}
             l == <<r, n>>
  <2>1. l \in L /\ l[1] = r /\ l[2] = n
    BY <1>2
  <2> HIDE DEF l, L
  <2>2. Bypass(r, n) = Bypass(l[1], l[2])
    BY <2>1
  <2>3. Bypass(r, n) \in {Bypass(x[1], x[2]) : x \in L}
    BY <2>1, <2>2
  <2> QED
    BY <2>3 DEF Sessions, L
<1> QED
  BY <1>1, <1>3 DEF Bypass, Session


LEMMA TedIsGraph ==
  ASSUME NEW r, NEW n
  PROVE  Graph(Ted(r, n)) /\ Ted(r, n).systems = Routers
<1>1. /\ Ted(r, n).systems = Routers
      /\ \A x \in Routers : Ted(r, n).nbrs[x] = {y \in Nbr(x) : {x, y} # {r, n}}
  BY DEF Ted
<1>2. \A x \in Routers : Nbr(x) \subseteq Routers
  BY DEF Nbr
<1>3. \A x \in Routers : Ted(r, n).nbrs[x] \subseteq Nbr(x)
  BY <1>1
<1>4. \A x \in Routers : \A y \in Nbr(x) : Metric[x][y] \in Nat \ {0}
  BY RsvpAssumption
<1>5. Routers \subseteq Nat \ {0} /\ IsFiniteSet(Routers)
  BY RsvpAssumption
<1> HIDE DEF Ted
<1> QED
  BY <1>1, <1>2, <1>3, <1>4, <1>5 DEF Graph

LEMMA ShortestPathIs ==
  ASSUME NEW s \in Sessions, NEW D, D = Dijkstra(Ted(s.src, s.around), s.src)
  PROVE  /\ SpfOK(Ted(s.src, s.around), s.src, D) /\ D.queue = {}
         /\ Trail(D, s.src, s.dest, ShortestPath(s))
         /\ D.prev[s.dest] # NoSystem => D.prev[ShortestPath(s)[1]] = s.src
<1> DEFINE g == Ted(s.src, s.around)
           c == Cardinality(Routers)
           d == s.dest
           prev == D.prev
           w0 == <<d>>
           Step(w) == IF prev[w[1]] \in {s.src, NoSystem} THEN w ELSE <<prev[w[1]]>> \o w
           C(f) == f = [k \in 0 .. c |->
                          IF k = 0 THEN w0
                          ELSE IF prev[f[k - 1][1]] \in {s.src, NoSystem} THEN f[k - 1]
                               ELSE <<prev[f[k - 1][1]]>> \o f[k - 1]]
           F == CHOOSE f : C(f)
           V == [k \in 0 .. c |->
                   {w \in Seq(Routers) : /\ Trail(D, s.src, d, w)
                                         /\ prev[w[1]] \in {s.src, NoSystem} \/ Len(w) = k + 1}]
           step == [x \in Seq(Routers) \X (1 .. c) |-> Step(x[1])]
<1>1. ShortestPath(s) = F[c]
  BY DEF ShortestPath
<1>2. /\ c \in Nat /\ IsFiniteSet(Routers) /\ Far \in Nat
      /\ Graph(g) /\ g.systems = Routers
      /\ s.src \in Routers /\ d \in Routers /\ s.src # d
  BY FS_CardinalityType, TedIsGraph, SessionFacts, RsvpAssumption
<1>3. SpfOK(g, s.src, D) /\ D.queue = {}
  BY <1>2, DijkstraIs
<1> HIDE DEF g, d
<1>4. w0 \in V[0]
  <2>1. w0 \in Seq(Routers) /\ Len(w0) = 1 /\ w0[1] = d
    BY <1>2
  <2>2. Trail(D, s.src, d, w0)
    BY <1>2, <2>1 DEF Trail
  <2> HIDE DEF w0
  <2>3. V[0] = {w \in Seq(Routers) : /\ Trail(D, s.src, d, w)
                                     /\ prev[w[1]] \in {s.src, NoSystem} \/ Len(w) = 0 + 1}
    BY <1>2
  <2> HIDE DEF V
  <2> QED
    BY <2>1, <2>2, <2>3
<1>5. ASSUME NEW k \in 1 .. c, NEW w \in V[k - 1]
      PROVE  w \in Seq(Routers) /\ Step(w) \in V[k]
  <2>0. k - 1 \in 0 .. c /\ k \in 0 .. c /\ (k - 1) + 1 = k
    BY <1>2
  <2>1. /\ w \in Seq(Routers) /\ Trail(D, s.src, d, w)
        /\ prev[w[1]] \in {s.src, NoSystem} \/ Len(w) = k
    BY <2>0
  <2>2. V[k] = {u \in Seq(Routers) : /\ Trail(D, s.src, d, u)
                                     /\ prev[u[1]] \in {s.src, NoSystem} \/ Len(u) = k + 1}
    BY <2>0
  <2> HIDE DEF V
  <2>3. CASE prev[w[1]] \in {s.src, NoSystem}
    BY <2>1, <2>2, <2>3
  <2>4. CASE prev[w[1]] \notin {s.src, NoSystem}
    <3> DEFINE u == <<prev[w[1]]>> \o w
    <3>1. Trail(D, s.src, d, u) /\ Len(u) = Len(w) + 1
      BY <1>2, <1>3, <2>1, <2>4, TrailGrows
    <3>2. Step(w) = u
      BY <2>4
    <3> HIDE DEF Step, u
    <3>3. u \in Seq(Routers)
      BY <3>1 DEF Trail
    <3> QED
      BY <2>1, <2>2, <2>4, <3>1, <3>2, <3>3
  <2> QED
    BY <2>3, <2>4
<1>6. \A k \in 1 .. c : \A w \in V[k - 1] : step[<<w, k>>] = Step(w)
  BY <1>5
<1> HIDE DEF V, w0, step, Step
<1>7. PICK f : Loop(f, c, V, w0, step)
  <2>1. \A k \in 1 .. c : \A w \in V[k - 1] : step[<<w, k>>] \in V[k]
    BY <1>5, <1>6
  <2> HIDE DEF c
  <2> QED
    BY <1>2, <1>4, <2>1, Rounds
<1>8. C(f)
  <2> DEFINE E(k) == IF k = 0 THEN w0
                     ELSE IF prev[f[k - 1][1]] \in {s.src, NoSystem} THEN f[k - 1]
                          ELSE <<prev[f[k - 1][1]]>> \o f[k - 1]
  <2>1. f = [k \in 0 .. c |-> f[k]]
    BY <1>7 DEF Loop
  <2>2. ASSUME NEW k \in 0 .. c PROVE f[k] = E(k)
    <3>1. CASE k = 0
      BY <3>1, <1>7 DEF Loop
    <3>2. CASE k # 0
      <4>1. k \in 1 .. c /\ k - 1 \in 0 .. c
        BY <3>2, <1>2
      <4>2. f[k] = Step(f[k - 1])
        BY <4>1, <1>6, <1>7 DEF Loop
      <4> QED
        BY <3>2, <4>2 DEF Step
    <3> QED
      BY <3>1, <3>2
  <2> HIDE DEF E
  <2>3. f = [k \in 0 .. c |-> E(k)]
    BY <2>1, <2>2, Zenon
  <2> QED
    BY <2>3 DEF E
<1>9. C(F)
  <2> HIDE DEF C
  <2> QED
    BY <1>8
<1> HIDE DEF F
<1>10. F[0] = w0 /\ \A k \in 1 .. c : F[k] = Step(F[k - 1])
  <2> DEFINE E(k) == IF k = 0 THEN w0
                     ELSE IF prev[F[k - 1][1]] \in {s.src, NoSystem} THEN F[k - 1]
                          ELSE <<prev[F[k - 1][1]]>> \o F[k - 1]
  <2>1. F = [k \in 0 .. c |-> E(k)]
    BY <1>9
  <2> HIDE DEF E
  <2>2. \A k \in 0 .. c : F[k] = E(k)
    BY <2>1, Zenon
  <2> HIDE DEF c
  <2>3. 0 \in 0 .. c /\ \A k \in 1 .. c : k \in 0 .. c /\ k # 0
    BY <1>2
  <2> QED
    BY <2>2, <2>3 DEF E, Step
<1>11. F[c] \in V[c]
  <2> DEFINE I == {k \in 0 .. c : F[k] \in V[k]}
  <2>1. 0 \in I
    BY <1>2, <1>4, <1>10
  <2>2. \A k \in 1 .. c : k - 1 \in I => k \in I
    BY <1>5, <1>10
  <2> HIDE DEF I, c
  <2>3. c \in I
    BY <1>2, <2>1, <2>2, UpTo
  <2> QED
    BY <2>3 DEF I
<1>12. Trail(D, s.src, d, F[c]) /\ (prev[F[c][1]] \in {s.src, NoSystem} \/ Len(F[c]) = c + 1)
  BY <1>11, <1>2 DEF V
<1>13. prev[F[c][1]] \in {s.src, NoSystem}
  <2>1. Len(F[c]) <= c
    BY <1>2, <1>3, <1>12, TrailEnds
  <2> HIDE DEF c
  <2>2. Len(F[c]) # c + 1
    BY <1>2, <2>1
  <2> QED
    BY <1>12, <2>2
<1> QED
  BY <1>1, <1>3, <1>12, <1>13 DEF Trail, d, g

-----------------------------------------------------------------------------
(* What the explicit routes are: hops of the network, each once.           *)
WayOf(s) ==
  /\ Hops(s) \in Nat \ {0}
  /\ \A i \in 0 .. Hops(s) : Hop(s, i) \in Routers
  /\ \A i, j \in 0 .. Hops(s) : Hop(s, i) = Hop(s, j) => i = j
  /\ Hop(s, Hops(s)) = s.dest
  /\ \A i \in 0 .. (Hops(s) - 1) : Hop(s, i + 1) \in Nbr(Hop(s, i))

LEMMA TedNbrs ==
  ASSUME NEW r, NEW n, NEW x \in Routers
  PROVE  Ted(r, n).nbrs[x] = {y \in Nbr(x) : {x, y} # {r, n}}
BY DEF Ted

LEMMA TrailIsWay ==
  ASSUME NEW s \in Sessions, NEW D, SpfOK(Ted(s.src, s.around), s.src, D),
         Trail(D, s.src, s.dest, Ero[s]), Ero[s][1] \in Nbr(s.src)
  PROVE  WayOf(s)
<1> DEFINE w == Ero[s]
           n == Len(w)
           g == Ted(s.src, s.around)
<1>1. /\ w \in Seq(Routers) /\ n \in Nat \ {0} /\ w[n] = s.dest
      /\ \A i \in 1 .. n : w[i] \in Routers /\ w[i] # s.src
      /\ s.src \in Routers /\ g.systems = Routers
  BY SessionFacts, TedIsGraph DEF Trail
<1>2. D.dist \in [Routers -> Nat]
  BY <1>1 DEF SpfOK, SpfStates
<1>3. \A i, j \in 1 .. n : w[i] = w[j] => i = j
  <2> SUFFICES ASSUME NEW i \in 1 .. n, NEW j \in 1 .. n, w[i] = w[j], i # j PROVE FALSE
    OBVIOUS
  <2>1. D.dist[w[i]] \in Nat /\ (i < j \/ j < i)
    BY <1>1, <1>2
  <2>2. D.dist[w[i]] < D.dist[w[j]] \/ D.dist[w[j]] < D.dist[w[i]]
    BY <2>1 DEF Trail
  <2> QED
    BY <2>1, <2>2
<1>4. ASSUME NEW i \in 1 .. (n - 1) PROVE w[i + 1] \in Nbr(w[i])
  <2>1. i \in 1 .. n /\ i + 1 \in 1 .. n
    BY <1>1
  <2>2. w[i] \in Routers /\ w[i + 1] \in Routers /\ w[i] # NoSystem
    BY <1>1, <2>1, RsvpAssumption DEF NoSystem
  <2>3. D.prev[w[i + 1]] = w[i]
    BY DEF Trail
  <2>4. w[i + 1] \in g.nbrs[w[i]]
    BY <1>1, <2>2, <2>3 DEF SpfOK, Tree
  <2> QED
    BY <2>2, <2>4, TedNbrs
<1>5. Hops(s) = n /\ \A i \in 0 .. n : Hop(s, i) = IF i = 0 THEN s.src ELSE w[i]
  BY DEF Hops, Hop
<1> HIDE DEF n, w
<1>6. \A i \in 0 .. n : i = 0 \/ i \in 1 .. n
  BY <1>1
<1>7. \A i \in 0 .. (n - 1) : i + 1 \in 1 .. n /\ i + 1 \in 0 .. n /\ i \in 0 .. n /\ (i = 0 \/ i \in 1 .. (n - 1))
  BY <1>1
<1>8. \A i \in 0 .. Hops(s) : Hop(s, i) \in Routers
  BY <1>1, <1>5, <1>6
<1>9. \A i, j \in 0 .. Hops(s) : Hop(s, i) = Hop(s, j) => i = j
  BY <1>1, <1>3, <1>5, <1>6
<1>10. Hop(s, Hops(s)) = s.dest
  BY <1>1, <1>5
<1>11. \A i \in 0 .. (Hops(s) - 1) : Hop(s, i + 1) \in Nbr(Hop(s, i))
  <2> SUFFICES ASSUME NEW i \in 0 .. (n - 1) PROVE Hop(s, i + 1) \in Nbr(Hop(s, i))
    BY <1>5
  <2>1. Hop(s, i + 1) = w[i + 1]
    BY <1>5, <1>7
  <2>2. CASE i = 0
    BY <2>1, <2>2, <1>5, <1>7 DEF w
  <2>3. CASE i # 0
    BY <2>1, <2>3, <1>4, <1>5, <1>7
  <2> QED
    BY <2>2, <2>3
<1> QED
  BY <1>1, <1>5, <1>8, <1>9, <1>10, <1>11 DEF WayOf

LEMMA EroIs ==
  ASSUME NEW s \in Sessions
  PROVE  Ero[s] = IF ShortestPath(s)[1] \in Nbr(s.src) THEN ShortestPath(s) ELSE << >>
BY DEF Ero

LEMMA Ways ==
  \A s \in Sessions :
    /\ Ero[s] \in Seq(Routers)
    /\ Ero[s] # << >> => WayOf(s)
<1> TAKE s \in Sessions
<1> DEFINE D == Dijkstra(Ted(s.src, s.around), s.src)
           w == ShortestPath(s)
<1>1. SpfOK(Ted(s.src, s.around), s.src, D) /\ Trail(D, s.src, s.dest, w)
  BY ShortestPathIs
<1> HIDE DEF w, D
<1>2. Ero[s] = IF w[1] \in Nbr(s.src) THEN w ELSE << >>
  BY EroIs DEF w
<1>3. w \in Seq(Routers) /\ << >> \in Seq(Routers) /\ w # << >>
  BY <1>1 DEF Trail
<1>4. Ero[s] # << >> => Ero[s] = w /\ w[1] \in Nbr(s.src)
  BY <1>2
<1>5. Ero[s] # << >> => WayOf(s)
  BY <1>1, <1>4, TrailIsWay
<1> QED
  BY <1>2, <1>3, <1>5

LEMMA BypassWays == \A r \in Routers : \A n \in Nbr(r) : Ero[Bypass(r, n)] # << >>
<1> TAKE r \in Routers
<1> TAKE n \in Nbr(r)
<1> DEFINE s == Bypass(r, n)
           D == Dijkstra(Ted(s.src, s.around), s.src)
           w == ShortestPath(s)
<1>0. s \in Sessions /\ s.src = r /\ s.dest = n /\ s.around = n /\ n \in Routers
  BY BypassFacts
<1> HIDE DEF s
<1>1. /\ SpfOK(Ted(r, n), r, D) /\ Trail(D, r, n, w)
      /\ D.prev[n] # NoSystem => D.prev[w[1]] = r
  BY <1>0, ShortestPathIs
<1> HIDE DEF w, D
<1>2. Ero[s] = IF w[1] \in Nbr(r) THEN w ELSE << >>
  BY <1>0, EroIs DEF w
<1>3. w \in Seq(Routers) /\ w # << >> /\ w[1] \in Routers /\ w[Len(w)] = n
  BY <1>1 DEF Trail
<1>4. CASE D.prev[n] = NoSystem
  <2>1. Len(w) = 1
    BY <1>1, <1>4 DEF Trail
  <2>2. w[1] = n
    BY <1>3, <2>1
  <2> QED
    BY <1>2, <1>3, <2>2 DEF s
<1>5. CASE D.prev[n] # NoSystem
  <2>1. r # NoSystem /\ Ted(r, n).systems = Routers
    BY TedIsGraph, RsvpAssumption DEF NoSystem
  <2>2. w[1] \in Ted(r, n).nbrs[r]
    BY <1>1, <1>3, <1>5, <2>1 DEF SpfOK, Tree
  <2>3. w[1] \in Nbr(r)
    BY <2>2, TedNbrs
  <2> QED
    BY <1>2, <1>3, <2>3 DEF s
<1> QED
  BY <1>4, <1>5

-----------------------------------------------------------------------------
(* Path state, routes and sessions are never taken away.                   *)
Grows ==
  \A x \in Routers :
    /\ DOMAIN pathOf[x] \subseteq DOMAIN pathOf'[x]
    /\ DOMAIN routes[x] \subseteq DOMAIN routes'[x]
    /\ sessions[x] \subseteq sessions'[x]

LEMMA HopsAreRouters ==
  ASSUME NEW s \in Sessions
  PROVE  /\ Hops(s) \in Nat
         /\ \A i \in 0 .. Hops(s) : Hop(s, i) \in Routers
<1>1. Ero[s] \in Seq(Routers)
  BY Ways
<1>2. s.src \in Routers
  BY SessionFacts
<1> QED
  BY <1>1, <1>2 DEF Hops, Hop

LEMMA GrowthKeeps ==
  ASSUME Grows, NEW s \in Sessions, NEW i \in 0 .. Hops(s)
  PROVE  /\ Kept(s, i) => Kept(s, i)'
         /\ Behind(s, i) => Behind(s, i)'
         /\ \A m : PathAt(m, s, i) => PathAt(m, s, i)'
         /\ \A m : ResvAt(m, s, i) => ResvAt(m, s, i)'
<1>1. Hops(s) \in Nat /\ \A j \in 0 .. Hops(s) : Hop(s, j) \in Routers
  BY HopsAreRouters
<1>2. \A j \in 0 .. (i - 1) : j \in 0 .. Hops(s)
  BY <1>1
<1>3. Kept(s, i) => Kept(s, i)'
  BY <1>1, <1>2 DEF Kept, Grows
<1>4. Behind(s, i) => Behind(s, i)'
  BY <1>1 DEF Behind, Grows
<1> QED
  BY <1>3, <1>4 DEF PathAt, ResvAt

LEMMA MessagesKeep ==
  ASSUME Grows
  PROVE  \A m : MessageOK(m) => MessageOK(m)'
<1> SUFFICES ASSUME NEW m, MessageOK(m) PROVE MessageOK(m)'
  OBVIOUS
<1>0. PICK s \in Sessions :
        \E i \in 1 .. Hops(s) : Kept(s, i) /\ (PathAt(m, s, i) \/ ResvAt(m, s, i))
  BY DEF MessageOK
<1>1. PICK i \in 1 .. Hops(s) :
        Kept(s, i) /\ (PathAt(m, s, i) \/ ResvAt(m, s, i))
  BY <1>0
<1>2. i \in 0 .. Hops(s)
  OBVIOUS
<1>3. Kept(s, i)' /\ (PathAt(m, s, i) \/ ResvAt(m, s, i))'
  BY <1>1, <1>2, GrowthKeeps
<1> QED
  BY <1>3 DEF MessageOK

-----------------------------------------------------------------------------
(* What routes and bypasses need of the state, growth does not disturb.    *)
LEMMA RoutesKeep ==
  ASSUME Grows, NEW s \in Sessions
  PROVE  /\ \A i \in 0 .. (Hops(s) - 1) : Behind(s, i + 1) => Behind(s, i + 1)'
         /\ Hops(s) > 0 /\ Behind(s, 1) => Behind(s, 1)'
<1>1. Hops(s) \in Nat
  BY HopsAreRouters
<1>2. ASSUME NEW i \in 0 .. (Hops(s) - 1) PROVE Behind(s, i + 1) => Behind(s, i + 1)'
  <2>1. i + 1 \in 0 .. Hops(s)
    BY <1>1
  <2> QED
    BY <2>1, GrowthKeeps
<1>3. Hops(s) > 0 => 1 \in 0 .. Hops(s)
  BY <1>1
<1> QED
  BY <1>2, <1>3, GrowthKeeps

LEMMA RouteKeeps ==
  ASSUME IInv, Grows, UNCHANGED bypasses,
         NEW y \in Routers, NEW x \in DOMAIN routes[y], routes'[y][x] = routes[y][x]
  PROVE  RouteOK(y, x)'
<1>1. RouteOK(y, x)
  BY DEF IInv, WayInv
<1>2. PICK i \in 0 .. (Hops(x) - 1) :
        y = Hop(x, i) /\ Leads(routes[y][x], x, i) /\ Behind(x, i + 1)
  BY <1>1 DEF RouteOK
<1>3. Behind(x, i + 1)'
  BY <1>1, <1>2, RoutesKeep DEF RouteOK
<1> QED
  BY <1>1, <1>2, <1>3 DEF RouteOK, KnownBypass

LEMMA BypassKeeps ==
  ASSUME IInv, Grows,
         NEW y \in Routers, NEW x \in DOMAIN bypasses[y], bypasses'[y][x] = bypasses[y][x]
  PROVE  BypassOK(y, x)'
<1>1. BypassOK(y, x)
  BY DEF IInv, WayInv
<1>2. Behind(x, 1)'
  BY <1>1, RoutesKeep DEF BypassOK
<1> QED
  BY <1>1, <1>2 DEF BypassOK

LEMMA OtherRoutesKeep ==
  ASSUME IInv, Grows, UNCHANGED <<routes, bypasses>>
  PROVE  /\ \A y \in Routers : \A x \in DOMAIN routes'[y] : RouteOK(y, x)'
         /\ \A y \in Routers : \A x \in DOMAIN bypasses'[y] : BypassOK(y, x)'
BY RouteKeeps, BypassKeeps

LEMMA OpeningKeeps ==
  ASSUME IInv, NEW r \in Routers, NEW s \in Sessions, s.src = r,
         Open(r, s), wire' = wire \cup Sent(r, s), UNCHANGED <<routes, bypasses, losses>>,
         DOMAIN due' = Routers, \A x \in Routers : due'[x] \subseteq Nbr(x),
         \A x \in Routers : \A n \in due[x] : n \in due'[x] \/ Bypass(x, n) \in sessions'[x]
  PROVE  IInv'
<1> USE DEF IInv, WayInv
<1> DEFINE O == IF s \in sessions[r] THEN {} ELSE Opening(r, s)
<1>1. /\ sessions' \in [Routers -> SUBSET Sessions]
      /\ sessions'[r] = sessions[r] \cup {s}
      /\ \A x \in Routers \ {r} : sessions'[x] = sessions[x]
  BY DEF SessionsOK, Open
<1>2. /\ DOMAIN pathOf' = Routers
      /\ DOMAIN pathOf'[r] = DOMAIN pathOf[r] \cup O
      /\ \A x \in DOMAIN pathOf[r] : pathOf'[r][x] = IF x \in O THEN r ELSE pathOf[r][x]
      /\ \A x \in O : pathOf'[r][x] = r
      /\ \A x \in Routers \ {r} : pathOf'[x] = pathOf[x]
  <2>1. CASE s \in sessions[r]
    BY <2>1 DEF Open, Typed
  <2>2. CASE s \notin sessions[r]
    <3> DEFINE f == With(pathOf[r], O, r)
    <3>1. pathOf' = [pathOf EXCEPT ![r] = f]
      BY <2>2 DEF Open
    <3> HIDE DEF O
    <3>2. /\ DOMAIN f = DOMAIN pathOf[r] \cup O
          /\ \A x \in DOMAIN pathOf[r] : f[x] = IF x \in O THEN r ELSE pathOf[r][x]
          /\ \A x \in O : f[x] = r
      BY DEF With
    <3> HIDE DEF f
    <3> QED
      BY <3>1, <3>2 DEF Typed
  <2> QED
    BY <2>1, <2>2
<1>3. \A x \in O : x \in sessions'[r] /\ x \in Sessions /\ x.src = r /\ x \notin DOMAIN pathOf[r] /\ Ero[x] # << >>
  BY <1>1 DEF Opening, SessionsOK
<1>4. \A x \in sessions'[r] : Ero[x] # << >> => x \in DOMAIN pathOf'[r]
  BY <1>1, <1>2 DEF Opening, SessionsOK
<1>5. wire' = wire \cup {PathMsg(x, r, Ero[x]) : x \in O}
  BY DEF Sent
<1>6. s \in sessions[r] \/ Ero[s] = << >> \/ s \in O
  <2>1. s \in DOMAIN pathOf[r] => s \in sessions[r]
    BY DEF PathOK
  <2> QED
    BY <2>1 DEF Opening
<1> HIDE DEF O
<1>7. Grows
  BY <1>1, <1>2 DEF Grows
<1>8. Typed'
  BY <1>2 DEF Typed
<1>9. SessionsOK'
  BY <1>1, <1>2, <1>4 DEF SessionsOK
<1>10. \A m \in wire' : MessageOK(m)'
  <2>1. \A m \in wire : MessageOK(m)'
    BY <1>7, MessagesKeep
  <2>2. ASSUME NEW x \in O PROVE MessageOK(PathMsg(x, r, Ero[x]))'
    <3>1. Hops(x) \in Nat \ {0} /\ Ero[x] \in Seq(Routers)
      BY <1>3, Ways DEF WayOf
    <3>2. Hop(x, 1 - 1) = r
      BY <1>3 DEF Hop
    <3>3. Kept(x, 1)'
      BY <1>2, <3>2 DEF Kept
    <3>4. SubSeq(Ero[x], 1, Hops(x)) = Ero[x]
      BY <3>1, SubSeqFull DEF Hops
    <3>5. PathAt(PathMsg(x, r, Ero[x]), x, 1)'
      BY <3>2, <3>4 DEF PathAt
    <3> QED
      BY <3>1, <3>3, <3>5, <1>3 DEF MessageOK
  <2> QED
    BY <1>5, <2>1, <2>2
<1>11. \A y \in Routers : \A x \in DOMAIN pathOf'[y] : PathOK(y, x)'
  <2> TAKE y \in Routers
  <2> TAKE x \in DOMAIN pathOf'[y]
  <2>1. CASE y = r /\ x \in O
    <3>1. 0 \in 0 .. (Hops(x) - 1) /\ Hop(x, 0) = r
      BY <2>1, <1>3, Ways DEF WayOf, Hop
    <3>2. y = Hop(x, 0) /\ pathOf'[y][x] = Hop(x, 0)
      BY <2>1, <1>2, <3>1
    <3>3. x \in Sessions /\ x \in sessions'[x.src]
      BY <2>1, <1>3
    <3> QED
      BY <3>1, <3>2, <3>3 DEF PathOK
  <2>2. CASE ~ (y = r /\ x \in O)
    <3>1. x \in DOMAIN pathOf[y] /\ pathOf'[y][x] = pathOf[y][x]
      BY <2>2, <1>2
    <3>2. PathOK(y, x)
      BY <3>1
    <3>3. x.src \in Routers
      BY <3>2, SessionFacts DEF PathOK
    <3> QED
      BY <3>1, <3>2, <3>3, <1>7 DEF PathOK, Grows
  <2> QED
    BY <2>1, <2>2
<1>12. SetUpInv'
  <2>1. ASSUME NEW y \in Routers, NEW x \in sessions'[y], losses = 0, Ero[x] # << >>
        PROVE  x \in DOMAIN routes[y] \cup DOMAIN bypasses[y] \/ \E m \in wire' : m.session = x
    <3>1. CASE x \in sessions[y]
      <4>1. x \in DOMAIN routes[y] \cup DOMAIN bypasses[y] \/ \E m \in wire : m.session = x
        BY <3>1, <2>1 DEF SetUpInv
      <4> QED
        BY <4>1, <1>5
    <3>2. CASE x \notin sessions[y]
      <4>1. x \in O
        BY <3>2, <2>1, <1>1, <1>6
      <4>2. PathMsg(x, r, Ero[x]).session = x
        BY DEF PathMsg
      <4> QED
        BY <4>1, <4>2, <1>5
    <3> QED
      BY <3>1, <3>2
  <2>2. ASSUME NEW y \in Routers, NEW x \in DOMAIN routes[y], x.protect
        PROVE  \/ routes[y][x].next \in due'[y]
               \/ Bypass(y, routes[y][x].next) \in sessions'[y]
    <3>1. routes[y][x].next \in due[y] \/ Bypass(y, routes[y][x].next) \in sessions[y]
      BY <2>2 DEF SetUpInv
    <3> QED
      BY <3>1, <1>7 DEF Grows
  <2> QED
    BY <2>1, <2>2 DEF SetUpInv
<1> QED
  BY <1>7, <1>8, <1>9, <1>10, <1>11, <1>12, OtherRoutesKeep

(* Where a message is.                                                     *)
LEMMA PathPlace ==
  ASSUME IInv, NEW m \in wire, m.kind = "path"
  PROVE  \E s \in Sessions : \E i \in 1 .. Hops(s) :
           /\ WayOf(s) /\ Kept(s, i)
           /\ m.session = s /\ m.from = Hop(s, i - 1) /\ m.to = Hop(s, i)
           /\ m.ero = SubSeq(Ero[s], i, Hops(s))
<1>1. MessageOK(m)
  BY DEF IInv, WayInv
<1>2. PICK s \in Sessions :
        \E i \in 1 .. Hops(s) : Kept(s, i) /\ (PathAt(m, s, i) \/ ResvAt(m, s, i))
  BY <1>1 DEF MessageOK
<1>3. PICK i \in 1 .. Hops(s) : Kept(s, i) /\ (PathAt(m, s, i) \/ ResvAt(m, s, i))
  BY <1>2
<1>4. PathAt(m, s, i)
  <2>1. ~ ResvAt(m, s, i)
    BY DEF ResvAt, ResvMsg
  <2> QED
    BY <1>3, <2>1
<1>5. Ero[s] \in Seq(Routers) /\ Ero[s] # << >> /\ WayOf(s)
  <2>1. Ero[s] \in Seq(Routers) /\ Len(Ero[s]) > 0
    BY Ways DEF Hops
  <2>2. Ero[s] # << >>
    BY <2>1, EmptySeq
  <2> QED
    BY <2>1, <2>2, Ways
<1>6. SubSeq(Ero[s], i, Hops(s))[1] = Hop(s, i)
  <2> DEFINE e == Ero[s]
  <2>1. e \in Seq(Routers) /\ Len(e) \in Nat /\ i \in 1 .. Len(e)
    BY <1>5 DEF Hops
  <2>2. \A j \in i .. Len(e) : e[j] \in Routers
    BY <2>1
  <2>3. \A j \in 1 .. Len(e) - i + 1 : SubSeq(e, i, Len(e))[j] = e[i + j - 1]
    BY <2>1, <2>2, SubSeqProperties
  <2>4. SubSeq(e, i, Len(e))[1] = e[i]
    <3> HIDE DEF e
    <3>1. 1 \in 1 .. Len(e) - i + 1 /\ i + 1 - 1 = i
      BY <2>1
    <3> QED
      BY <3>1, <2>3
  <2> QED
    BY <2>4 DEF Hop, Hops
<1>7. /\ m.session = s /\ m.from = Hop(s, i - 1) /\ m.to = Hop(s, i)
      /\ m.ero = SubSeq(Ero[s], i, Hops(s))
  BY <1>4, <1>6 DEF PathAt, PathMsg
<1> QED
  BY <1>3, <1>5, <1>7

LEMMA ResvPlace ==
  ASSUME IInv, NEW m \in wire, m.kind = "resv"
  PROVE  \E s \in Sessions : \E i \in 1 .. Hops(s) :
           /\ WayOf(s) /\ Kept(s, i) /\ Behind(s, i)
           /\ m.session = s /\ m.from = Hop(s, i) /\ m.to = Hop(s, i - 1)
           /\ m.label = Given(s, i)
<1>1. MessageOK(m)
  BY DEF IInv, WayInv
<1>2. PICK s \in Sessions :
        \E i \in 1 .. Hops(s) : Kept(s, i) /\ (PathAt(m, s, i) \/ ResvAt(m, s, i))
  BY <1>1 DEF MessageOK
<1>3. PICK i \in 1 .. Hops(s) : Kept(s, i) /\ (PathAt(m, s, i) \/ ResvAt(m, s, i))
  BY <1>2
<1>4. ResvAt(m, s, i)
  <2>1. ~ PathAt(m, s, i)
    BY DEF PathAt, PathMsg
  <2> QED
    BY <1>3, <2>1
<1>5. WayOf(s)
  <2>1. Ero[s] \in Seq(Routers) /\ Len(Ero[s]) > 0
    BY Ways DEF Hops
  <2>2. Ero[s] # << >>
    BY <2>1, EmptySeq
  <2> QED
    BY <2>1, <2>2, Ways
<1>6. /\ m.session = s /\ m.from = Hop(s, i) /\ m.to = Hop(s, i - 1)
      /\ m.label = Given(s, i) /\ Behind(s, i)
  BY <1>4 DEF ResvAt, ResvMsg
<1> QED
  BY <1>3, <1>5, <1>6

LEMMA PathKeeps ==
  ASSUME IInv, NEW m \in wire, m.kind = "path", ProcessPath(m.to, m),
         UNCHANGED <<routes, bypasses, due, sessions, losses>>
  PROVE  IInv'
<1> USE DEF IInv, WayInv
<1>1. PICK s \in Sessions : \E i \in 1 .. Hops(s) :
        /\ WayOf(s) /\ Kept(s, i)
        /\ m.session = s /\ m.from = Hop(s, i - 1) /\ m.to = Hop(s, i)
        /\ m.ero = SubSeq(Ero[s], i, Hops(s))
  BY PathPlace
<1>2. PICK i \in 1 .. Hops(s) :
        /\ WayOf(s) /\ Kept(s, i)
        /\ m.session = s /\ m.from = Hop(s, i - 1) /\ m.to = Hop(s, i)
        /\ m.ero = SubSeq(Ero[s], i, Hops(s))
  BY <1>1
<1> DEFINE r == Hop(s, i)
<1>3. /\ Hops(s) \in Nat /\ r \in Routers
      /\ s.dest = r <=> i = Hops(s)
      /\ Hop(s, 0) = s.src /\ s.src \in Routers
  BY <1>2, SessionFacts DEF WayOf, Hop
<1>4. s \in sessions[s.src]
  <2>1. s \in DOMAIN pathOf[Hop(s, 0)]
    BY <1>2 DEF Kept
  <2> QED
    BY <1>3, <2>1 DEF PathOK
<1> DEFINE new == IF i = Hops(s) THEN ResvMsg(s, r, Hop(s, i - 1), ImplicitNull)
                  ELSE PathMsg(s, r, Tail(m.ero))
<1>5. /\ wire' = (wire \ {m}) \cup {new}
      /\ new.session = s
  BY <1>2, <1>3 DEF ProcessPath, ResvMsg, PathMsg
<1>6. /\ DOMAIN pathOf' = Routers
      /\ \A y \in Routers : DOMAIN pathOf[y] \subseteq DOMAIN pathOf'[y]
      /\ \A y \in Routers : \A x \in DOMAIN pathOf'[y] :
           \/ x \in DOMAIN pathOf[y] /\ pathOf'[y][x] = pathOf[y][x]
           \/ y = r /\ x = s /\ i # Hops(s) /\ pathOf'[y][x] = Hop(s, i - 1)
      /\ i # Hops(s) => s \in DOMAIN pathOf'[r]
  <2>1. CASE i = Hops(s)
    BY <2>1, <1>2, <1>3 DEF ProcessPath, Typed
  <2>2. CASE i # Hops(s)
    <3> DEFINE f == With(pathOf[r], {s}, Hop(s, i - 1))
    <3>1. pathOf' = [pathOf EXCEPT ![r] = f]
      BY <2>2, <1>2, <1>3 DEF ProcessPath
    <3>2. /\ DOMAIN f = DOMAIN pathOf[r] \cup {s}
          /\ \A x \in DOMAIN f : x # s => f[x] = pathOf[r][x]
          /\ f[s] = Hop(s, i - 1)
      BY DEF With
    <3> HIDE DEF f, r
    <3> QED
      BY <3>1, <3>2, <1>3, <2>2 DEF Typed
  <2> QED
    BY <2>1, <2>2
<1> HIDE DEF r
<1>7. Grows
  BY <1>6 DEF Grows
<1>8. Typed' /\ SessionsOK'
  BY <1>6 DEF Typed, SessionsOK
<1>9. \A n \in wire' : MessageOK(n)'
  <2>1. \A n \in wire : MessageOK(n)'
    BY <1>7, MessagesKeep
  <2>2. Kept(s, i)'
    BY <1>2, <1>3, <1>7, GrowthKeeps
  <2>3. MessageOK(new)'
    <3>1. CASE i = Hops(s)
      <4>1. ResvAt(new, s, i)'
        BY <3>1 DEF ResvAt, Given, Behind, r
      <4> QED
        BY <2>2, <4>1 DEF MessageOK
    <3>2. CASE i # Hops(s)
      <4>1. Tail(m.ero) = SubSeq(Ero[s], i + 1, Hops(s))
        <5> DEFINE e == Ero[s]
        <5>1. e \in Seq(Routers) /\ i \in 1 .. Len(e) /\ Len(e) \in i .. Len(e)
          BY Ways DEF Hops
        <5>2. Tail(SubSeq(e, i, Len(e))) = SubSeq(e, i + 1, Len(e))
          <6> HIDE DEF e
          <6> QED
            BY <5>1, HeadTailOfSubSeq
        <5> QED
          BY <5>2, <1>2 DEF Hops
      <4>2. i + 1 \in 1 .. Hops(s) /\ (i + 1) - 1 = i
        BY <3>2, <1>3
      <4>3. PathAt(new, s, i + 1)'
        BY <3>2, <4>1, <4>2 DEF PathAt, r
      <4>4. Kept(s, i + 1)'
        <5>1. ASSUME NEW j \in 0 .. ((i + 1) - 1) PROVE s \in DOMAIN pathOf'[Hop(s, j)]
          <6>1. j = i \/ j \in 0 .. (i - 1)
            OBVIOUS
          <6> QED
            BY <6>1, <2>2, <1>6, <3>2 DEF Kept, r
        <5> QED
          BY <5>1 DEF Kept
      <4> HIDE DEF new
      <4> QED
        BY <4>2, <4>3, <4>4 DEF MessageOK
    <3> QED
      BY <3>1, <3>2
  <2> QED
    BY <1>5, <2>1, <2>3
<1>10. \A y \in Routers : \A x \in DOMAIN pathOf'[y] : PathOK(y, x)'
  <2> TAKE y \in Routers
  <2> TAKE x \in DOMAIN pathOf'[y]
  <2>1. CASE x \in DOMAIN pathOf[y] /\ pathOf'[y][x] = pathOf[y][x]
    BY <2>1 DEF PathOK
  <2>2. CASE y = r /\ x = s /\ i # Hops(s) /\ pathOf'[y][x] = Hop(s, i - 1)
    <3>1. i \in 0 .. (Hops(s) - 1) /\ i # 0
      BY <2>2, <1>3
    <3>2. \E k \in 0 .. (Hops(s) - 1) :
            y = Hop(s, k) /\ pathOf'[y][x] = Hop(s, IF k = 0 THEN 0 ELSE k - 1)
      BY <3>1, <2>2 DEF r
    <3> QED
      BY <3>2, <2>2, <1>4 DEF PathOK
  <2> QED
    BY <2>1, <2>2, <1>6
<1>11. SetUpInv'
  <2>1. ASSUME NEW x, \E n \in wire : n.session = x PROVE \E n \in wire' : n.session = x
    BY <2>1, <1>2, <1>5
  <2> HIDE DEF new
  <2> QED
    BY <2>1 DEF SetUpInv
<1> QED
  BY <1>7, <1>8, <1>9, <1>10, <1>11, OtherRoutesKeep

(* What a Resv does to the tables: routes of this router only grow or get  *)
(* another bypass, and the path goes on or is there.                       *)
Installed(r, s, n) ==
  /\ DOMAIN routes' = Routers /\ DOMAIN bypasses' = Routers
  /\ \A y \in Routers : DOMAIN routes[y] \subseteq DOMAIN routes'[y]
  /\ \A y \in Routers : \A x \in DOMAIN routes'[y] :
       \/ x \in DOMAIN routes[y] /\ routes'[y][x].next = routes[y][x].next
       \/ y = r /\ x = s /\ routes'[y][x].next = n
  /\ \A y \in Routers : DOMAIN bypasses[y] \subseteq DOMAIN bypasses'[y]

LEMMA IngressInstalls ==
  ASSUME IInv, NEW m, NEW s \in Sessions, NEW r \in Routers, WayOf(s),
         m.session = s, s.src = r, s.around = NoSystem,
         m.from = Hop(s, 1), m.label = Given(s, 1), Behind(s, 1),
         IngressRoute(r, m), UNCHANGED <<sessions, pathOf>>
  PROVE  /\ Installed(r, s, m.from) /\ Grows
         /\ s \in DOMAIN routes'[r]
         /\ \A y \in Routers : \A x \in DOMAIN routes'[y] : RouteOK(y, x)'
         /\ \A y \in Routers : \A x \in DOMAIN bypasses'[y] : BypassOK(y, x)'
<1> USE DEF IInv, WayInv
<1> DEFINE t == RsvpRoute(Hop(s, 1), <<Push(Given(s, 1))>>, NoBypass)
           f == With(routes[r], {s}, t)
<1>1. routes' = [routes EXCEPT ![r] = f] /\ UNCHANGED bypasses
  BY DEF IngressRoute
<1>2. /\ DOMAIN f = DOMAIN routes[r] \cup {s}
      /\ \A x \in DOMAIN f : x # s => f[x] = routes[r][x]
      /\ f[s] = t
  BY DEF With
<1>3. /\ t.next = Hop(s, 1) /\ t.ops = <<Push(Given(s, 1))>>
      /\ t.bypass = NoBypass /\ "bypass" \in DOMAIN t
  BY DEF RsvpRoute
<1> HIDE DEF f, t
<1>4. /\ DOMAIN routes' = Routers /\ DOMAIN bypasses' = Routers
      /\ DOMAIN routes'[r] = DOMAIN routes[r] \cup {s} /\ routes'[r][s] = t
      /\ \A y \in Routers : \A x \in DOMAIN routes'[y] :
           (y = r /\ x = s) \/ (x \in DOMAIN routes[y] /\ routes'[y][x] = routes[y][x])
      /\ \A y \in Routers : DOMAIN routes[y] \subseteq DOMAIN routes'[y]
  BY <1>1, <1>2 DEF Typed
<1>5. Installed(r, s, m.from)
  BY <1>1, <1>3, <1>4 DEF Installed
<1>6. Grows
  BY <1>4 DEF Grows
<1>7. ASSUME NEW y \in Routers, NEW x \in DOMAIN routes'[y] PROVE RouteOK(y, x)'
  <2>1. CASE y = r /\ x = s
    <3>1. 0 \in 0 .. (Hops(s) - 1) /\ Hop(s, 0) = r
      BY DEF WayOf, Hop
    <3>2. 1 \in 0 .. Hops(s)
      BY DEF WayOf
    <3>3. Behind(s, 1)'
      BY <1>6, <3>2, GrowthKeeps
    <3>4. Leads(t, s, 0) /\ 0 + 1 = 1
      BY <1>3 DEF Leads
    <3>5. y = Hop(s, 0) /\ Leads(routes'[y][x], s, 0) /\ Behind(s, 0 + 1)'
      BY <3>1, <3>3, <3>4, <2>1, <1>4
    <3>6. "bypass" \in DOMAIN routes'[y][x] /\ routes'[y][x].bypass = NoBypass
      BY <2>1, <1>4, <1>3
    <3> QED
      BY <3>1, <3>5, <3>6, <2>1 DEF RouteOK
  <2>2. CASE x \in DOMAIN routes[y] /\ routes'[y][x] = routes[y][x]
    BY <2>2, <1>1, <1>6, RouteKeeps
  <2> QED
    BY <2>1, <2>2, <1>4
<1>8. ASSUME NEW y \in Routers, NEW x \in DOMAIN bypasses[y] PROVE BypassOK(y, x)'
  BY <1>1, <1>6, BypassKeeps
<1> QED
  BY <1>1, <1>4, <1>5, <1>6, <1>7, <1>8

LEMMA BypassInstalls ==
  ASSUME IInv, NEW m, NEW s \in Sessions, NEW r \in Routers, WayOf(s),
         m.session = s, s.src = r, s.around # NoSystem,
         m.from = Hop(s, 1), m.label = Given(s, 1), Behind(s, 1),
         InstallBypass(r, m), UNCHANGED <<sessions, pathOf>>
  PROVE  /\ Installed(r, s, m.from) /\ Grows
         /\ s \in DOMAIN bypasses'[r]
         /\ \A y \in Routers : \A x \in DOMAIN routes'[y] : RouteOK(y, x)'
         /\ \A y \in Routers : \A x \in DOMAIN bypasses'[y] : BypassOK(y, x)'
<1> USE DEF IInv, WayInv
<1> DEFINE t == RsvpRoute(Hop(s, 1), <<Push(Given(s, 1))>>,
                  IF m.from = s.around THEN <<s>> ELSE KnownBypass(r, m.from))
           f == With(bypasses[r], {s}, t)
           h == Hung(s, r)
<1>1. bypasses' = [bypasses EXCEPT ![r] = f] /\ routes' = [routes EXCEPT ![r] = h]
  BY DEF InstallBypass
<1>2. /\ DOMAIN f = DOMAIN bypasses[r] \cup {s}
      /\ \A x \in DOMAIN f : x # s => f[x] = bypasses[r][x]
      /\ f[s] = t
  BY DEF With
<1>3. t.next = Hop(s, 1) /\ t.ops = <<Push(Given(s, 1))>>
  BY DEF RsvpRoute
<1>4. /\ DOMAIN h = DOMAIN routes[r]
      /\ \A x \in DOMAIN routes[r] :
           /\ routes[r][x].next = s.around => h[x] = [routes[r][x] EXCEPT !.bypass = <<s>>]
           /\ routes[r][x].next # s.around => h[x] = routes[r][x]
  BY DEF Hung
<1>5. s = Bypass(r, s.around)
  BY SessionFacts
<1> HIDE DEF f, t, h
<1>6. /\ DOMAIN routes' = Routers /\ DOMAIN bypasses' = Routers
      /\ \A y \in Routers : DOMAIN routes'[y] = DOMAIN routes[y]
      /\ DOMAIN bypasses'[r] = DOMAIN bypasses[r] \cup {s} /\ bypasses'[r][s] = t
      /\ \A y \in Routers : \A x \in DOMAIN bypasses'[y] :
           (y = r /\ x = s) \/ (x \in DOMAIN bypasses[y] /\ bypasses'[y][x] = bypasses[y][x])
      /\ \A y \in Routers \ {r} : routes'[y] = routes[y] /\ bypasses'[y] = bypasses[y]
      /\ routes'[r] = h
  BY <1>1, <1>2, <1>4 DEF Typed
<1>7. Grows
  BY <1>6 DEF Grows
<1>8. ASSUME NEW y \in Routers, NEW x \in DOMAIN routes[y]
      PROVE  /\ routes'[y][x].next = routes[y][x].next /\ routes'[y][x].ops = routes[y][x].ops
             /\ \/ y = r /\ routes[y][x].next = s.around /\ routes'[y][x].bypass = <<s>>
                \/ ~ (y = r /\ routes[y][x].next = s.around) /\ routes'[y][x] = routes[y][x]
  <2>0. RouteOK(y, x)
    OBVIOUS
  <2>1. CASE y = r /\ routes[y][x].next = s.around
    <3>1. routes'[y][x] = [routes[y][x] EXCEPT !.bypass = <<s>>]
      BY <2>1, <1>4, <1>6
    <3>2. "bypass" \in DOMAIN routes[y][x]
      BY <2>0 DEF RouteOK
    <3> QED
      BY <3>1, <3>2, <2>1
  <2>2. CASE ~ (y = r /\ routes[y][x].next = s.around)
    <3>1. routes'[y][x] = routes[y][x]
      <4>1. CASE y = r
        BY <4>1, <2>2, <1>4, <1>6
      <4>2. CASE y # r
        BY <4>2, <1>6
      <4> QED
        BY <4>1, <4>2
    <3> QED
      BY <3>1, <2>2
  <2> QED
    BY <2>1, <2>2
<1>9. Installed(r, s, m.from)
  <2>1. \A y \in Routers : DOMAIN bypasses[y] \subseteq DOMAIN bypasses'[y]
    BY <1>6
  <2>2. \A y \in Routers : \A x \in DOMAIN routes'[y] :
           x \in DOMAIN routes[y] /\ routes'[y][x].next = routes[y][x].next
    BY <1>6, <1>8
  <2> QED
    BY <1>6, <2>1, <2>2 DEF Installed
<1> DEFINE K(y, n) == IF Bypass(y, n) \in DOMAIN bypasses'[y] THEN <<Bypass(y, n)>> ELSE NoBypass
<1>10. ASSUME NEW y \in Routers, NEW n
       PROVE  K(y, n) = IF y = r /\ n = s.around THEN <<s>> ELSE KnownBypass(y, n)
  <2>1. CASE y = r /\ n = s.around
    <3>1. Bypass(y, n) \in DOMAIN bypasses'[y] /\ Bypass(y, n) = s
      BY <2>1, <1>5, <1>6
    <3> QED
      BY <3>1, <2>1
  <2>2. CASE ~ (y = r /\ n = s.around)
    <3>1. y = r => Bypass(y, n) # s
      BY <2>2 DEF Bypass, Session
    <3>2. Bypass(y, n) \in DOMAIN bypasses'[y] <=> Bypass(y, n) \in DOMAIN bypasses[y]
      BY <3>1, <1>6
    <3> QED
      BY <3>2, <2>2 DEF KnownBypass
  <2> QED
    BY <2>1, <2>2
<1>11. ASSUME NEW y \in Routers, NEW x \in DOMAIN routes[y] PROVE RouteOK(y, x)'
  <2>1. RouteOK(y, x)
    OBVIOUS
  <2>3. \E i \in 0 .. (Hops(x) - 1) :
          y = Hop(x, i) /\ Leads(routes'[y][x], x, i) /\ Behind(x, i + 1)'
    <3>1. PICK i \in 0 .. (Hops(x) - 1) :
            y = Hop(x, i) /\ Leads(routes[y][x], x, i) /\ Behind(x, i + 1)
      BY <2>1 DEF RouteOK
    <3>2. Behind(x, i + 1)'
      BY <3>1, <2>1, <1>7, RoutesKeep DEF RouteOK
    <3>3. Leads(routes'[y][x], x, i)
      BY <3>1, <1>8 DEF Leads
    <3> QED
      BY <3>1, <3>2, <3>3
  <2>4. "bypass" \in DOMAIN routes'[y][x]
    <3>1. "bypass" \in DOMAIN routes[y][x]
      BY <2>1 DEF RouteOK
    <3>2. routes[y][x].next = s.around /\ y = r => routes'[y][x] = [routes[y][x] EXCEPT !.bypass = <<s>>]
      BY <1>4, <1>6
    <3> QED
      BY <3>1, <3>2, <1>8
  <2>5. /\ routes'[y][x].bypass \in {NoBypass, K(y, routes'[y][x].next)}
        /\ x.src # y => routes'[y][x].bypass = K(y, routes'[y][x].next)
    <3>1. K(y, routes[y][x].next) =
            IF y = r /\ routes[y][x].next = s.around THEN <<s>> ELSE KnownBypass(y, routes[y][x].next)
      BY <1>10
    <3>2. /\ routes[y][x].bypass \in {NoBypass, KnownBypass(y, routes[y][x].next)}
          /\ x.src # y => routes[y][x].bypass = KnownBypass(y, routes[y][x].next)
      BY <2>1 DEF RouteOK
    <3>3. routes'[y][x].next = routes[y][x].next
      BY <1>8
    <3> HIDE DEF K
    <3> QED
      BY <3>1, <3>2, <3>3, <1>8
  <2> QED
    BY <2>1, <2>3, <2>4, <2>5 DEF RouteOK, KnownBypass
<1>12. ASSUME NEW y \in Routers, NEW x \in DOMAIN bypasses'[y] PROVE BypassOK(y, x)'
  <2>1. CASE y = r /\ x = s
    <3>1. 1 \in 0 .. Hops(s) /\ Hops(s) > 0
      BY DEF WayOf
    <3>2. Behind(s, 1)'
      BY <1>7, <3>1, GrowthKeeps
    <3>3. Leads(bypasses'[y][x], s, 0)
      BY <2>1, <1>3, <1>6 DEF Leads
    <3> QED
      BY <2>1, <3>1, <3>2, <3>3 DEF BypassOK
  <2>2. CASE x \in DOMAIN bypasses[y] /\ bypasses'[y][x] = bypasses[y][x]
    BY <2>2, <1>7, BypassKeeps
  <2> QED
    BY <2>1, <2>2, <1>6
<1> QED
  BY <1>6, <1>7, <1>9, <1>11, <1>12

LEMMA LabelReserved ==
  ASSUME IInv, NEW m, NEW s \in Sessions, NEW i \in 1 .. Hops(s), NEW r \in Routers, WayOf(s),
         m.session = s, s.src # r, r = Hop(s, i - 1), s \in DOMAIN pathOf[r],
         m.from = Hop(s, i), m.label = Given(s, i), Behind(s, i), Kept(s, i),
         ReserveLabel(r, m), UNCHANGED <<sessions, pathOf>>
  PROVE  /\ Installed(r, s, m.from) /\ Grows
         /\ \E n : /\ wire' = (wire \ {m}) \cup {n}
                   /\ n.session = s /\ MessageOK(n)'
         /\ \A y \in Routers : \A x \in DOMAIN routes'[y] : RouteOK(y, x)'
         /\ \A y \in Routers : \A x \in DOMAIN bypasses'[y] : BypassOK(y, x)'
<1> USE DEF IInv, WayInv
<1> DEFINE o == IF m.label = ImplicitNull THEN Pop ELSE Swap(m.label)
           t == RsvpRoute(Hop(s, i), <<o>>, KnownBypass(r, Hop(s, i)))
           f == With(routes[r], {s}, t)
<1>1. routes' = [routes EXCEPT ![r] = f] /\ UNCHANGED bypasses
  BY DEF ReserveLabel, Protection
<1>2. /\ DOMAIN f = DOMAIN routes[r] \cup {s}
      /\ \A x \in DOMAIN f : x # s => f[x] = routes[r][x]
      /\ f[s] = t
  BY DEF With
<1>3. /\ t.next = Hop(s, i) /\ t.ops = <<o>>
      /\ t.bypass = KnownBypass(r, Hop(s, i)) /\ "bypass" \in DOMAIN t
  BY DEF RsvpRoute
<1>4. /\ Hops(s) \in Nat /\ i - 1 \in 1 .. (Hops(s) - 1) /\ (i - 1) + 1 = i
      /\ i \in 0 .. Hops(s)
  <2>1. i # 1
    BY DEF Hop
  <2> QED
    BY <2>1 DEF WayOf
<1>5. o = IF i = Hops(s) THEN Pop ELSE Swap(Given(s, i))
  <2>1. Given(s, i) = ImplicitNull <=> i = Hops(s)
    <3>1. Hop(s, i) # NoSystem
      BY <1>4, RsvpAssumption DEF WayOf, NoSystem
    <3> QED
      BY <3>1 DEF Given, Label, ImplicitNull
  <2> QED
    BY <2>1
<1> HIDE DEF f, t, o
<1>6. /\ DOMAIN routes' = Routers /\ DOMAIN bypasses' = Routers
      /\ DOMAIN routes'[r] = DOMAIN routes[r] \cup {s} /\ routes'[r][s] = t
      /\ \A y \in Routers : \A x \in DOMAIN routes'[y] :
           (y = r /\ x = s) \/ (x \in DOMAIN routes[y] /\ routes'[y][x] = routes[y][x])
      /\ \A y \in Routers : DOMAIN routes[y] \subseteq DOMAIN routes'[y]
  BY <1>1, <1>2 DEF Typed
<1>7. Installed(r, s, m.from)
  BY <1>1, <1>3, <1>6 DEF Installed
<1>8. Grows
  BY <1>6 DEF Grows
<1>9. ASSUME NEW y \in Routers, NEW x \in DOMAIN routes'[y] PROVE RouteOK(y, x)'
  <2>1. CASE y = r /\ x = s
    <3>1. Behind(s, i)'
      BY <1>4, <1>8, GrowthKeeps
    <3>2. Leads(t, s, i - 1)
      BY <1>3, <1>4, <1>5 DEF Leads
    <3>3. \E k \in 0 .. (Hops(s) - 1) :
            y = Hop(s, k) /\ Leads(routes'[y][x], s, k) /\ Behind(s, k + 1)'
      <4>1. i - 1 \in 0 .. (Hops(s) - 1)
        BY <1>4
      <4> QED
        BY <4>1, <3>1, <3>2, <2>1, <1>4, <1>6
    <3>4. /\ "bypass" \in DOMAIN routes'[y][x]
          /\ routes'[y][x].bypass = KnownBypass(y, routes'[y][x].next)
      BY <2>1, <1>3, <1>6
    <3>5. routes'[y][x].bypass =
            IF Bypass(y, routes'[y][x].next) \in DOMAIN bypasses'[y]
            THEN <<Bypass(y, routes'[y][x].next)>> ELSE NoBypass
      BY <3>4, <1>1 DEF KnownBypass
    <3> HIDE DEF IInv, WayInv
    <3> QED
      BY <3>3, <3>4, <3>5, <2>1 DEF RouteOK, KnownBypass
  <2>2. CASE x \in DOMAIN routes[y] /\ routes'[y][x] = routes[y][x]
    BY <2>2, <1>1, <1>8, RouteKeeps
  <2> QED
    BY <2>1, <2>2, <1>6
<1>10. ASSUME NEW y \in Routers, NEW x \in DOMAIN bypasses[y] PROVE BypassOK(y, x)'
  BY <1>1, <1>8, BypassKeeps
<1>14. PICK hop : hop = pathOf[r][s]
  OBVIOUS
<1> DEFINE n == ResvMsg(s, r, hop, Label(r, s))
<1>11. wire' = (wire \ {m}) \cup {n}
  BY <1>14 DEF ReserveLabel, Carried
<1>12. n.session = s
  BY DEF ResvMsg
<1>13. MessageOK(n)'
  <2>1. hop = Hop(s, (i - 1) - 1)
    <3>1. PathOK(r, s)
      OBVIOUS
    <3>2. PICK k \in 0 .. (Hops(s) - 1) :
            r = Hop(s, k) /\ pathOf[r][s] = Hop(s, IF k = 0 THEN 0 ELSE k - 1)
      BY <3>1 DEF PathOK
    <3>3. k = i - 1
      <4>1. k \in 0 .. Hops(s) /\ i - 1 \in 0 .. Hops(s)
        BY <1>4
      <4> QED
        BY <4>1, <3>2 DEF WayOf
    <3> QED
      BY <3>2, <3>3, <1>4, <1>14
  <2>2. Behind(s, i - 1)'
    BY <1>6 DEF Behind
  <2>3. Given(s, i - 1) = Label(r, s)
    BY <1>4 DEF Given
  <2>4. ResvAt(n, s, i - 1)'
    BY <2>1, <2>2, <2>3 DEF ResvAt
  <2>5. Kept(s, i - 1)'
    <3>1. \A j \in 0 .. (i - 1 - 1) : j \in 0 .. (i - 1)
      BY <1>4
    <3> QED
      BY <3>1 DEF Kept
  <2>6. i - 1 \in 1 .. Hops(s)
    BY <1>4
  <2> HIDE DEF n
  <2> QED
    BY <2>4, <2>5, <2>6 DEF MessageOK
<1> HIDE DEF n
<1> QED
  BY <1>1, <1>7, <1>8, <1>9, <1>10, <1>11, <1>12, <1>13

LEMMA ResvKeeps ==
  ASSUME IInv, NEW m \in wire, m.kind = "resv", ProcessResv(m.to, m),
         UNCHANGED <<pathOf, sessions, losses>>
  PROVE  IInv'
<1> USE DEF IInv, WayInv
<1>1. PICK s \in Sessions : \E i \in 1 .. Hops(s) :
        /\ WayOf(s) /\ Kept(s, i) /\ Behind(s, i)
        /\ m.session = s /\ m.from = Hop(s, i) /\ m.to = Hop(s, i - 1)
        /\ m.label = Given(s, i)
  BY ResvPlace
<1>2. PICK i \in 1 .. Hops(s) :
        /\ WayOf(s) /\ Kept(s, i) /\ Behind(s, i)
        /\ m.session = s /\ m.from = Hop(s, i) /\ m.to = Hop(s, i - 1)
        /\ m.label = Given(s, i)
  BY <1>1
<1> DEFINE r == m.to
<1>3. /\ i - 1 \in 0 .. Hops(s) /\ i - 1 \in 0 .. (i - 1) /\ i - 1 \in 0 .. (Hops(s) - 1)
      /\ (i - 1) + 1 = i /\ r = Hop(s, i - 1) /\ r \in Routers
      /\ s \in DOMAIN pathOf[r]
  <2>1. i - 1 \in 0 .. Hops(s) /\ i - 1 \in 0 .. (i - 1) /\ i - 1 \in 0 .. (Hops(s) - 1) /\ (i - 1) + 1 = i
    BY <1>2 DEF WayOf
  <2> QED
    BY <2>1, <1>2 DEF WayOf, Kept
<1>4. s.src = r => i = 1
  <2>1. Hop(s, 0) = s.src /\ 0 \in 0 .. Hops(s)
    BY <1>2 DEF Hop, WayOf
  <2> QED
    BY <2>1, <1>2, <1>3 DEF WayOf
<1> HIDE DEF r
<1>5. /\ \/ s.src = r /\ s.around = NoSystem /\ IngressRoute(r, m)
         \/ s.src = r /\ s.around # NoSystem /\ InstallBypass(r, m)
         \/ s.src # r /\ ReserveLabel(r, m)
      /\ due' = IF Protects(r, s) THEN [due EXCEPT ![r] = @ \cup {m.from}] ELSE due
  BY <1>2, <1>3 DEF ProcessResv, r
<1>6. /\ Installed(r, s, m.from) /\ Grows
      /\ wire \ {m} \subseteq wire'
      /\ \A n \in wire' \ wire : MessageOK(n)'
      /\ IF s.src = r THEN s \in DOMAIN routes'[r] \cup DOMAIN bypasses'[r]
         ELSE \E n \in wire' : n.session = s
      /\ \A y \in Routers : \A x \in DOMAIN routes'[y] : RouteOK(y, x)'
      /\ \A y \in Routers : \A x \in DOMAIN bypasses'[y] : BypassOK(y, x)'
  <2>1. CASE s.src = r /\ s.around = NoSystem /\ IngressRoute(r, m)
    <3>1. wire' = wire \ {m}
      BY <2>1 DEF IngressRoute
    <3> QED
      BY <3>1, <2>1, <1>2, <1>3, <1>4, IngressInstalls
  <2>2. CASE s.src = r /\ s.around # NoSystem /\ InstallBypass(r, m)
    <3>1. wire' = wire \ {m}
      BY <2>2 DEF InstallBypass
    <3> QED
      BY <3>1, <2>2, <1>2, <1>3, <1>4, BypassInstalls
  <2>3. CASE s.src # r /\ ReserveLabel(r, m)
    <3>1. /\ Installed(r, s, m.from) /\ Grows
          /\ \E n : wire' = (wire \ {m}) \cup {n} /\ n.session = s /\ MessageOK(n)'
          /\ \A y \in Routers : \A x \in DOMAIN routes'[y] : RouteOK(y, x)'
          /\ \A y \in Routers : \A x \in DOMAIN bypasses'[y] : BypassOK(y, x)'
      BY <2>3, <1>2, <1>3, LabelReserved
    <3>2. PICK n : wire' = (wire \ {m}) \cup {n} /\ n.session = s /\ MessageOK(n)'
      BY <3>1
    <3> QED
      BY <3>1, <3>2, <2>3
  <2> QED
    BY <2>1, <2>2, <2>3, <1>5
<1>7. DOMAIN due' = Routers /\ \A y \in Routers : due[y] \subseteq due'[y] /\ due'[y] \subseteq Nbr(y)
  <2>1. m.from \in Nbr(r)
    BY <1>2, <1>3 DEF WayOf
  <2> QED
    BY <2>1, <1>5 DEF Typed, SessionsOK
<1>8. s.protect => m.from \in due'[r]
  BY <1>3, <1>5 DEF Protects, Typed
<1>9. Typed' /\ SessionsOK'
  BY <1>6, <1>7 DEF Typed, SessionsOK, Installed
<1>10. \A n \in wire' : MessageOK(n)'
  BY <1>6, MessagesKeep
<1>11. \A y \in Routers : \A x \in DOMAIN pathOf'[y] : PathOK(y, x)'
  BY DEF PathOK
<1>12. SetUpInv'
  <2>1. ASSUME NEW y \in Routers, NEW x \in sessions[y], losses = 0, Ero[x] # << >>
        PROVE  x \in DOMAIN routes'[y] \cup DOMAIN bypasses'[y] \/ \E n \in wire' : n.session = x
    <3>1. x \in DOMAIN routes[y] \cup DOMAIN bypasses[y] \/ \E n \in wire : n.session = x
      BY <2>1 DEF SetUpInv
    <3>2. CASE x \in DOMAIN routes[y] \cup DOMAIN bypasses[y]
      BY <3>2, <1>6 DEF Installed
    <3>3. CASE \E n \in wire : n.session = x /\ n # m
      BY <3>3, <1>6
    <3>4. CASE x = s
      <4>1. s.src = y
        BY <3>4 DEF SessionsOK
      <4> QED
        BY <4>1, <3>4, <1>6
    <3> QED
      BY <3>1, <3>2, <3>3, <3>4, <1>2
  <2>2. ASSUME NEW y \in Routers, NEW x \in DOMAIN routes'[y], x.protect
        PROVE  \/ routes'[y][x].next \in due'[y]
               \/ Bypass(y, routes'[y][x].next) \in sessions[y]
    <3>1. CASE x \in DOMAIN routes[y] /\ routes'[y][x].next = routes[y][x].next
      BY <3>1, <2>2, <1>7 DEF SetUpInv
    <3>2. CASE y = r /\ x = s /\ routes'[y][x].next = m.from
      BY <3>2, <2>2, <1>8
    <3> QED
      BY <3>1, <3>2, <1>6 DEF Installed
  <2> QED
    BY <2>1, <2>2 DEF SetUpInv
<1> QED
  BY <1>6, <1>9, <1>10, <1>11, <1>12

LEMMA LosingKeeps ==
  ASSUME IInv, NEW m \in wire, Lose(m)
  PROVE  IInv'
<1> USE DEF IInv, WayInv
<1>1. /\ UNCHANGED <<sessions, pathOf, routes, bypasses, due>>
      /\ wire' \subseteq wire /\ losses' # 0 /\ losses' \in Nat
  BY DEF Lose, Typed
<1>2. Grows
  BY <1>1 DEF Grows
<1>3. Typed' /\ SessionsOK'
  BY <1>1 DEF Typed, SessionsOK
<1>4. \A n \in wire' : MessageOK(n)'
  BY <1>1, <1>2, MessagesKeep
<1>5. \A y \in Routers : \A x \in DOMAIN pathOf'[y] : PathOK(y, x)'
  BY <1>1 DEF PathOK
<1>6. SetUpInv'
  BY <1>1 DEF SetUpInv
<1> QED
  BY <1>1, <1>2, <1>3, <1>4, <1>5, <1>6, OtherRoutesKeep

LEMMA WayInit == Init => IInv
<1> SUFFICES ASSUME Init PROVE IInv
  OBVIOUS
<1>1. DOMAIN << >> = {}
  OBVIOUS
<1>2. Typed /\ SessionsOK /\ SetUpInv
  BY <1>1 DEF Init, Typed, SessionsOK, SetUpInv
<1>3. \A r \in Routers : DOMAIN pathOf[r] = {} /\ DOMAIN routes[r] = {} /\ DOMAIN bypasses[r] = {}
  BY <1>1 DEF Init
<1>4. wire = {}
  BY DEF Init
<1> QED
  BY <1>2, <1>3, <1>4 DEF IInv, WayInv

LEMMA WayNext == IInv /\ [Next]_vars => IInv'
<1> SUFFICES ASSUME IInv, [Next]_vars PROVE IInv'
  OBVIOUS
<1>1. ASSUME NEW s \in Requests, CreateSession(s) PROVE IInv'
  <2>1. s \in Sessions /\ s.src \in Routers
    BY SessionFacts DEF Sessions
  <2>2. UNCHANGED <<routes, bypasses, due, losses>>
    BY <1>1 DEF CreateSession
  <2>3. DOMAIN due' = Routers /\ \A x \in Routers : due'[x] \subseteq Nbr(x)
    BY <2>2 DEF IInv, WayInv, Typed, SessionsOK
  <2> QED
    BY <1>1, <2>1, <2>2, <2>3, OpeningKeeps DEF CreateSession
<1>2. ASSUME NEW r \in Routers, NEW n \in due[r], CreateBypassLsp(r, n)
      PROVE  IInv'
  <2>1. n \in Nbr(r)
    BY DEF IInv, WayInv, SessionsOK
  <2> DEFINE s == Bypass(r, n)
  <2>2. s \in Sessions /\ s.src = r
    BY <2>1, BypassFacts
  <2>3. DOMAIN due' = Routers /\ \A x \in Routers : due'[x] \subseteq Nbr(x)
    BY <1>2 DEF CreateBypassLsp, IInv, WayInv, Typed, SessionsOK
  <2>4. s \in sessions'[r]
    BY <1>2 DEF CreateBypassLsp, Open, IInv, WayInv, SessionsOK
  <2>5. \A x \in Routers : \A k \in due[x] : k \in due'[x] \/ Bypass(x, k) \in sessions'[x]
    BY <2>4, <1>2 DEF CreateBypassLsp, IInv, WayInv, Typed
  <2>6. /\ Open(r, s) /\ wire' = wire \cup Sent(r, s)
        /\ UNCHANGED <<routes, bypasses, losses>>
    BY <1>2 DEF CreateBypassLsp
  <2> HIDE DEF s
  <2> QED
    BY <2>2, <2>3, <2>5, <2>6, OpeningKeeps
<1>3. ASSUME NEW m \in wire, Receive(m) PROVE IInv'
  <2>1. CASE m.kind = "path" /\ ProcessPath(m.to, m) /\ UNCHANGED <<routes, bypasses, due>>
    BY <2>1, <1>3, PathKeeps DEF Receive
  <2>2. CASE m.kind = "resv" /\ ProcessResv(m.to, m) /\ UNCHANGED pathOf
    BY <2>2, <1>3, ResvKeeps DEF Receive
  <2> QED
    BY <2>1, <2>2, <1>3 DEF Receive
<1>4. ASSUME NEW m \in wire, Lose(m) PROVE IInv'
  BY <1>4, LosingKeeps DEF Lose
<1>5. CASE UNCHANGED vars
  <2>1. UNCHANGED <<sessions, pathOf, routes, bypasses, due, wire, losses>>
    BY <1>5 DEF vars
  <2>2. Grows
    BY <2>1 DEF Grows
  <2>3. Typed' /\ SessionsOK' /\ SetUpInv'
    BY <2>1 DEF IInv, WayInv, Typed, SessionsOK, SetUpInv
  <2>4. \A n \in wire' : MessageOK(n)'
    BY <2>1, <2>2, MessagesKeep DEF IInv, WayInv
  <2>5. \A y \in Routers : \A x \in DOMAIN pathOf'[y] : PathOK(y, x)'
    BY <2>1 DEF PathOK, IInv, WayInv
  <2> QED
    BY <2>1, <2>2, <2>3, <2>4, <2>5, OtherRoutesKeep DEF IInv, WayInv
<1> QED
  BY <1>1, <1>2, <1>3, <1>4, <1>5 DEF Next, Works

THEOREM WaysStay == Spec => []IInv
BY WayInit, WayNext, PTL DEF Spec

(* A label is protected from the moment its route and the bypass around    *)
(* its link are both there, whichever came first                           *)
(* (rsvp/process.py:459-476, 500-502).                                     *)
THEOREM LabelsAlwaysProtected == Spec => []LabelsProtected
<1>1. IInv => LabelsProtected
  BY DEF IInv, WayInv, RouteOK, LabelsProtected
<1> QED
  BY <1>1, WaysStay, PTL

(* When all is done and no message was lost, every path that has a way is  *)
(* set up, and so are the bypasses of a protected one                      *)
(* (rsvp/process.py:78-138, 335-577).                                      *)
THEOREM AllGetSetUp == Spec => []AllSetUp
<1>1. ASSUME IInv PROVE AllSetUp
  <2> SUFFICES ASSUME Done, losses = 0,
                      NEW r \in Routers, NEW s \in sessions[r], Ero[s] # << >>
               PROVE  /\ s \in DOMAIN routes[r] \cup DOMAIN bypasses[r]
                      /\ s.protect =>
                           \A x \in Routers : s \in DOMAIN routes[x] =>
                             KnownBypass(x, routes[x][s].next) # NoBypass
    BY DEF AllSetUp
  <2>1. \A x \in Routers : \A y \in sessions[x] :
          Ero[y] # << >> => y \in DOMAIN routes[x] \cup DOMAIN bypasses[x]
    BY <1>1 DEF IInv, SetUpInv, Done
  <2>2. ASSUME s.protect, NEW x \in Routers, s \in DOMAIN routes[x]
        PROVE  KnownBypass(x, routes[x][s].next) # NoBypass
    <3> DEFINE n == routes[x][s].next
               b == Bypass(x, n)
    <3>1. b \in sessions[x]
      BY <1>1, <2>2 DEF IInv, SetUpInv, Done
    <3>2. n \in Nbr(x)
      <4>1. RouteOK(x, s)
        BY <1>1, <2>2 DEF IInv, WayInv
      <4>2. PICK i \in 0 .. (Hops(s) - 1) : x = Hop(s, i) /\ Leads(routes[x][s], s, i)
        BY <4>1 DEF RouteOK
      <4>3. WayOf(s)
        <5>1. Ero[s] \in Seq(Routers) /\ Len(Ero[s]) > 0
          BY <4>1, <4>2, Ways DEF Hops, RouteOK
        <5> QED
          BY <4>1, Ways DEF RouteOK
      <4> QED
        BY <4>2, <4>3 DEF WayOf, Leads
    <3>3. b.around # NoSystem /\ b.src = x /\ Ero[b] # << >>
      BY <3>2, BypassFacts, BypassWays
    <3>4. b \in DOMAIN routes[x] \cup DOMAIN bypasses[x]
      BY <2>1, <3>1, <3>3
    <3>5. b \notin DOMAIN routes[x]
      BY <1>1, <3>3 DEF IInv, WayInv, RouteOK
    <3>6. <<b>> # NoBypass
      BY DEF NoBypass
    <3> QED
      BY <3>4, <3>5, <3>6 DEF KnownBypass
  <2> QED
    BY <2>1, <2>2
<1> QED
  BY <1>1, WaysStay, PTL

-----------------------------------------------------------------------------
(* A packet of the path of s at hop i, its label on top of the others.     *)
Packet(s, i, rest) == [at |-> Hop(s, i), stack |-> Append(rest, Given(s, i))]

At(r, rest) == [at |-> r, stack |-> rest]

Labels == {Given(s, i) : s \in Sessions, i \in Nat}

(* What the next hop gets: the hop before the egress takes the label off.  *)
Onward(s, i, rest) ==
  IF i + 1 < Hops(s) THEN Packet(s, i + 1, rest) ELSE At(s.dest, rest)

LEMMA OneOp ==
  ASSUME NEW op, NEW st
  PROVE  ApplyAll(<<op>>, st) = Apply(op, st)
<1> DEFINE ops == <<op>>
           C(f) == f = [k \in 0 .. Len(ops) |-> IF k = 0 THEN st ELSE Apply(ops[k], f[k - 1])]
           F == CHOOSE f : C(f)
           h == [k \in 0 .. 1 |-> IF k = 0 THEN st ELSE Apply(op, st)]
<1>1. ApplyAll(ops, st) = F[Len(ops)]
  BY DEF ApplyAll
<1>2. Len(ops) = 1 /\ ops[1] = op
  OBVIOUS
<1> HIDE DEF ops
<1>3. C(h)
  <2> DEFINE E(k) == IF k = 0 THEN st ELSE Apply(ops[k], h[k - 1])
  <2>1. h = [k \in 0 .. 1 |-> h[k]] /\ h[0] = st /\ h[1] = Apply(op, st)
    OBVIOUS
  <2> HIDE DEF h
  <2>2. ASSUME NEW k \in 0 .. 1 PROVE h[k] = E(k)
    <3>1. k = 0 \/ (k = 1 /\ k - 1 = 0)
      OBVIOUS
    <3> QED
      BY <3>1, <2>1, <1>2
  <2> HIDE DEF E
  <2>3. h = [k \in 0 .. 1 |-> E(k)]
    BY <2>1, <2>2, Zenon
  <2> QED
    BY <2>3, <1>2 DEF E
<1>4. C(F)
  <2> HIDE DEF C
  <2> QED
    BY <1>3
<1> HIDE DEF F
<1>5. F[1] = Apply(op, st)
  <2> DEFINE E(k) == IF k = 0 THEN st ELSE Apply(ops[k], F[k - 1])
  <2>1. F = [k \in 0 .. 1 |-> E(k)]
    BY <1>2, <1>4
  <2> HIDE DEF E
  <2>2. F[0] = E(0) /\ F[1] = E(1)
    BY <2>1
  <2> QED
    BY <2>2, <1>2 DEF E
<1> QED
  BY <1>1, <1>2, <1>5 DEF ops

(* The top of a stack, and what is under it.                               *)
LEMMA TopIs ==
  ASSUME NEW L, NEW rest \in Seq(L), NEW x \in L
  PROVE  /\ Append(rest, x) # << >>
         /\ Append(rest, x)[Len(Append(rest, x))] = x
         /\ SubSeq(Append(rest, x), 1, Len(Append(rest, x)) - 1) = rest
<1>1. /\ Append(rest, x) # << >> /\ Len(Append(rest, x)) = Len(rest) + 1
      /\ Append(rest, x)[Len(rest) + 1] = x
  BY AppendProperties
<1>2. Append(rest, x) = rest \o <<x>> /\ <<x>> \in Seq(L) /\ Len(rest) \in Nat
  BY AppendIsConcat
<1>3. SubSeq(rest \o <<x>>, 1, Len(rest)) = rest
  <2>1. CASE rest = << >>
    <3>1. Len(rest) = 0
      BY <2>1
    <3>2. SubSeq(rest \o <<x>>, 1, 0) = << >>
      BY SubSeqEmpty
    <3> QED
      BY <2>1, <3>1, <3>2
  <2>2. CASE rest # << >>
    <3>1. 1 \in 1 .. Len(rest) /\ Len(rest) \in 1 .. Len(rest)
      BY <2>2
    <3>2. SubSeq(rest \o <<x>>, 1, Len(rest)) = SubSeq(rest, 1, Len(rest))
      BY <1>2, <3>1, SubSeqOfConcat1
    <3> QED
      BY <3>2, SubSeqFull
  <2> QED
    BY <2>1, <2>2
<1>4. (Len(rest) + 1) - 1 = Len(rest)
  BY <1>2
<1> QED
  BY <1>1, <1>2, <1>3, <1>4

(* What the operations of a route do to a stack.                           *)
LEMMA OpsDo ==
  ASSUME NEW rest \in Seq(Labels), NEW x \in Labels, NEW y
  PROVE  /\ ApplyAll(<<Push(y)>>, rest) = Append(rest, y)
         /\ ApplyAll(<<Pop>>, Append(rest, x)) = rest
         /\ ApplyAll(<<Swap(y)>>, Append(rest, x)) = Append(rest, y)
<1>1. /\ Apply(Push(y), rest) = Append(rest, y)
      /\ Apply(Pop, Append(rest, x)) = SubSeq(Append(rest, x), 1, Len(Append(rest, x)) - 1)
      /\ Apply(Swap(y), Append(rest, x))
           = Append(SubSeq(Append(rest, x), 1, Len(Append(rest, x)) - 1), y)
  BY DEF Apply, Push, Pop, Swap
<1> QED
  BY <1>1, OneOp, TopIs

LEMMA GivenIs ==
  ASSUME NEW s \in Sessions, WayOf(s), NEW i \in 1 .. Hops(s)
  PROVE  /\ Given(s, i) \in Labels
         /\ i = Hops(s) => Given(s, i) = ImplicitNull
         /\ i < Hops(s) => Given(s, i) = Label(Hop(s, i), s) /\ Given(s, i) # ImplicitNull
<1>1. Given(s, i) \in Labels
  BY DEF Labels
<1>2. i \in 0 .. Hops(s) /\ Hop(s, i) \in Routers /\ Hop(s, i) # NoSystem
  BY RsvpAssumption DEF WayOf, NoSystem
<1>3. Label(Hop(s, i), s) # ImplicitNull
  BY <1>2 DEF ImplicitNull, Label
<1> QED
  BY <1>1, <1>2, <1>3 DEF Given, WayOf

LEMMA RouteAt ==
  ASSUME WayInv, NEW s \in Sessions, WayOf(s), NEW i \in 0 .. (Hops(s) - 1),
         s \in DOMAIN routes[Hop(s, i)]
  PROVE  Leads(routes[Hop(s, i)][s], s, i) /\ Behind(s, i + 1)
<1> DEFINE r == Hop(s, i)
<1>1. i \in 0 .. Hops(s) /\ r \in Routers
  BY DEF WayOf
<1>2. RouteOK(r, s)
  BY <1>1 DEF WayInv
<1>3. PICK j \in 0 .. (Hops(s) - 1) : r = Hop(s, j) /\ Leads(routes[r][s], s, j) /\ Behind(s, j + 1)
  BY <1>2 DEF RouteOK
<1>4. j \in 0 .. Hops(s)
  BY <1>3 DEF WayOf
<1>5. j = i
  BY <1>1, <1>3, <1>4 DEF WayOf
<1> QED
  BY <1>3, <1>5

(* The route behind a label is that of its path, and of no other.          *)
LEMMA LabelFound ==
  ASSUME NEW r, NEW s \in DOMAIN routes[r]
  PROVE  LookupLabel(r, Label(r, s)) = {s}
<1>1. \A x : Label(r, s) = Label(r, x) => x = s
  BY DEF Label
<1> QED
  BY <1>1 DEF LookupLabel

LEMMA StepFound ==
  ASSUME NEW r, NEW s \in DOMAIN routes[r], Label(r, s) # ImplicitNull,
         NEW rest \in Seq(Labels), Label(r, s) \in Labels, NEW down
  PROVE  StepOf(At(r, Append(rest, Label(r, s))), down)
           = Over(routes[r][s], r, down, Append(rest, Label(r, s)))
<1> DEFINE p == At(r, Append(rest, Label(r, s)))
<1>1. p.at = r /\ p.stack = Append(rest, Label(r, s))
  BY DEF At
<1> HIDE DEF p
<1>2. p.stack # << >> /\ p.stack[Len(p.stack)] = Label(r, s)
  BY <1>1, TopIs
<1>3. StepOf(p, down) = UNION {Over(routes[p.at][x], p.at, down, p.stack) : x \in LookupLabel(p.at, Label(r, s))}
  BY <1>2 DEF StepOf
<1>4. StepOf(p, down) = UNION {Over(routes[r][x], r, down, p.stack) : x \in {s}}
  BY <1>1, <1>3, LabelFound
<1> QED
  BY <1>1, <1>4 DEF p

LEMMA StepAlong ==
  ASSUME WayInv, NEW s \in Sessions, WayOf(s), NEW i \in 1 .. Hops(s), Behind(s, i),
         NEW rest \in Seq(Labels), NEW down,
         i < Hops(s) => {Hop(s, i), Hop(s, i + 1)} \notin down
  PROVE  /\ StepOf(Packet(s, i, rest), down) = {Onward(s, i, rest)}
         /\ i + 1 < Hops(s) => Behind(s, i + 1)
<1> DEFINE r == Hop(s, i)
           x == Given(s, i)
           p == Packet(s, i, rest)
<1>1. r \in Routers /\ x \in Labels /\ p.at = r /\ p.stack = Append(rest, x) /\ p = At(r, Append(rest, x))
  BY GivenIs DEF WayOf, Packet, At
<1>2. Append(rest, x) # << >> /\ Append(rest, x)[Len(Append(rest, x))] = x
  BY <1>1, TopIs
<1>3. CASE i = Hops(s)
  <2>1. x = ImplicitNull /\ r = s.dest /\ ~ (i + 1 < Hops(s))
    BY <1>3, GivenIs DEF WayOf
  <2>2. StepOf(p, down) = {[p EXCEPT !.stack = ApplyAll(<<Pop>>, @)]}
    <3> HIDE DEF p
    <3> QED
      BY <1>1, <1>2, <2>1 DEF StepOf
  <2>3. [p EXCEPT !.stack = ApplyAll(<<Pop>>, @)] = At(r, ApplyAll(<<Pop>>, Append(rest, x)))
    BY DEF Packet, At
  <2>4. ApplyAll(<<Pop>>, Append(rest, x)) = rest
    BY <1>1, OpsDo
  <2> QED
    BY <2>1, <2>2, <2>3, <2>4 DEF Onward
<1>4. CASE i < Hops(s)
  <2> DEFINE t == routes[r][s]
             n == Hop(s, i + 1)
             op == IF i + 1 = Hops(s) THEN Pop ELSE Swap(Given(s, i + 1))
  <2>1. i \in 0 .. (Hops(s) - 1) /\ i # 0 /\ i + 1 \in 1 .. Hops(s)
    BY <1>4 DEF WayOf
  <2>2. s \in DOMAIN routes[r]
    BY <1>4 DEF Behind
  <2>3. Leads(t, s, i) /\ Behind(s, i + 1)
    BY <2>1, <2>2, RouteAt
  <2>4. t.next = n /\ t.ops = <<op>>
    BY <2>1, <2>3 DEF Leads
  <2>5. x = Label(r, s) /\ x # ImplicitNull
    BY <1>4, GivenIs
  <2>6. StepOf(p, down) = Over(t, r, down, Append(rest, x))
    <3> HIDE DEF p, t
    <3> QED
      BY <1>1, <2>2, <2>5, StepFound DEF t
  <2>7. Over(t, r, down, Append(rest, x)) = {At(n, ApplyAll(<<op>>, Append(rest, x)))}
    <3> HIDE DEF t, n, op, r
    <3>1. {r, t.next} \notin down
      BY <1>4, <2>4 DEF r, n
    <3> QED
      BY <2>4, <3>1 DEF Over, At
  <2>8. At(n, ApplyAll(<<op>>, Append(rest, x))) = Onward(s, i, rest)
    <3>1. CASE i + 1 = Hops(s)
      <4>1. n = s.dest /\ ~ (i + 1 < Hops(s)) /\ op = Pop
        BY <3>1 DEF WayOf
      <4> QED
        BY <4>1, <1>1, OpsDo DEF Onward
    <3>2. CASE i + 1 # Hops(s)
      <4> DEFINE y == Given(s, i + 1)
      <4>1. i + 1 < Hops(s) /\ op = Swap(y)
        BY <2>1, <3>2 DEF WayOf
      <4>2. ApplyAll(<<op>>, Append(rest, x)) = Append(rest, y)
        <5>1. x \in Labels
          BY <1>1
        <5> HIDE DEF op, y, x
        <5> QED
          BY <4>1, <5>1, OpsDo
      <4> QED
        BY <4>1, <4>2 DEF Onward, Packet, At
    <3> QED
      BY <3>1, <3>2
  <2> QED
    BY <2>3, <2>6, <2>7, <2>8
<1> QED
  BY <1>3, <1>4 DEF WayOf

(* A walk of packets one after the other, that of the last rounds in V[j]  *)
(* with j to go, ends with the packets of V[0].                            *)
Rundown(V, n, down, d) ==
  /\ V[0] \subseteq {At(d, << >>)}
  /\ \A j \in 1 .. n : \A q \in V[j] : \E u \in V[j - 1] : StepOf(q, down) = {u}

(* As many as Walk takes.                                                  *)
Steps == 4 * Cardinality(Routers)

LEMMA WalkEnds ==
  ASSUME NEW down, NEW V, NEW N \in Nat, N = Steps,
         NEW d, Rundown(V, N, down, d), NEW p \in V[N]
  PROVE  Walk({p}, down) = {d}
<1> DEFINE Step(P) == UNION {StepOf(q, down) : q \in P}
           C(f) == f = [k \in 0 .. N |-> IF k = 0 THEN {p} ELSE UNION {StepOf(q, down) : q \in f[k - 1]}]
           F == CHOOSE f : C(f)
           W == [k \in 0 .. N |-> {{q} : q \in V[N - k]}]
           step == [x \in (UNION {W[k] : k \in 0 .. N}) \X (1 .. N) |-> Step(x[1])]
<1>1. Walk({p}, down) = {q.at : q \in {u \in F[N] : u.stack = << >>}}
  BY DEF Walk, Steps
<1>2. {p} \in W[0]
  BY DEF W
<1>3. ASSUME NEW k \in 1 .. N, NEW P \in W[k - 1]
      PROVE  step[<<P, k>>] = Step(P) /\ Step(P) \in W[k]
  <2>1. k - 1 \in 0 .. N /\ N - (k - 1) \in 1 .. N /\ N - k = (N - (k - 1)) - 1 /\ k \in 0 .. N
    OBVIOUS
  <2>2. PICK q \in V[N - (k - 1)] : P = {q}
    BY <2>1
  <2>3. PICK u \in V[N - k] : StepOf(q, down) = {u}
    BY <2>1, <2>2 DEF Rundown
  <2>4. Step(P) = {u}
    BY <2>2, <2>3
  <2>5. P \in UNION {W[j] : j \in 0 .. N}
    <3> HIDE DEF W
    <3> QED
      BY <2>1, <1>3
  <2>6. W[k] = {{x} : x \in V[N - k]}
    BY <2>1
  <2> HIDE DEF W, Step
  <2> QED
    BY <2>3, <2>4, <2>5, <2>6
<1> HIDE DEF W, step, Step
<1>4. PICK f : Loop(f, N, W, {p}, step)
  BY <1>2, <1>3, Rounds
<1>5. C(f)
  <2> DEFINE E(k) == IF k = 0 THEN {p} ELSE Step(f[k - 1])
  <2>1. f = [k \in 0 .. N |-> f[k]]
    BY <1>4 DEF Loop
  <2>2. ASSUME NEW k \in 0 .. N PROVE f[k] = E(k)
    <3>1. CASE k = 0
      BY <3>1, <1>4 DEF Loop
    <3>2. CASE k # 0
      <4>1. k \in 1 .. N /\ k - 1 \in 0 .. N
        BY <3>2
      <4>2. f[k] = step[<<f[k - 1], k>>] /\ f[k - 1] \in W[k - 1]
        BY <4>1, <1>4 DEF Loop
      <4> QED
        BY <3>2, <4>1, <4>2, <1>3
    <3> QED
      BY <3>1, <3>2
  <2> HIDE DEF E
  <2>3. f = [k \in 0 .. N |-> E(k)]
    BY <2>1, <2>2, Zenon
  <2> QED
    BY <2>3 DEF E, Step
<1>6. C(F)
  <2> HIDE DEF C
  <2> QED
    BY <1>5
<1> HIDE DEF F
<1>7. F[0] = {p} /\ \A k \in 1 .. N : F[k] = Step(F[k - 1])
  <2> DEFINE E(k) == IF k = 0 THEN {p} ELSE Step(F[k - 1])
  <2>1. F = [k \in 0 .. N |-> E(k)]
    BY <1>6 DEF Step
  <2> HIDE DEF E
  <2>2. \A k \in 0 .. N : F[k] = E(k)
    BY <2>1, Zenon
  <2>3. 0 \in 0 .. N /\ \A k \in 1 .. N : k \in 0 .. N /\ k # 0
    OBVIOUS
  <2> QED
    BY <2>2, <2>3 DEF E
<1>8. F[N] \in W[N]
  <2> DEFINE I == {k \in 0 .. N : F[k] \in W[k]}
  <2>0. \A k : k \in I <=> k \in 0 .. N /\ F[k] \in W[k]
    OBVIOUS
  <2> HIDE DEF I
  <2>1. 0 \in I
    <3>1. 0 \in 0 .. N
      OBVIOUS
    <3> QED
      BY <1>2, <1>7, <2>0, <3>1
  <2>2. ASSUME NEW k \in 1 .. N, k - 1 \in I PROVE k \in I
    <3>1. k \in 0 .. N
      OBVIOUS
    <3>2. F[k - 1] \in W[k - 1] /\ F[k] = Step(F[k - 1])
      BY <1>7, <2>0, <2>2
    <3>3. Step(F[k - 1]) \in W[k]
      BY <1>3, <3>2
    <3> QED
      BY <2>0, <3>1, <3>2, <3>3
  <2>3. \A k \in 1 .. N : k - 1 \in I => k \in I
    BY <2>2
  <2>4. 0 .. N \subseteq I
    BY <2>1, <2>3, UpTo, Zenon
  <2>5. N \in 0 .. N
    OBVIOUS
  <2> QED
    BY <2>0, <2>4, <2>5
<1>9. PICK q \in V[0] : F[N] = {q}
  <2>1. N \in 0 .. N /\ N - N = 0
    OBVIOUS
  <2> QED
    BY <1>8, <2>1 DEF W
<1>10. F[N] = {At(d, << >>)}
  BY <1>9 DEF Rundown
<1>11. At(d, << >>).stack = << >> /\ At(d, << >>).at = d
  BY DEF At
<1>12. {u \in F[N] : u.stack = << >>} = {At(d, << >>)}
  BY <1>10, <1>11
<1> QED
  BY <1>1, <1>11, <1>12

LEMMA StaysThere ==
  ASSUME NEW d, NEW down
  PROVE  StepOf(At(d, << >>), down) = {At(d, << >>)}
<1> DEFINE p == At(d, << >>)
<1>1. p.stack = << >>
  BY DEF At
<1> HIDE DEF p
<1>2. StepOf(p, down) = {p}
  BY <1>1 DEF StepOf
<1> QED
  BY <1>2 DEF p

(* The hops of a way are as many as there are routers at most, less one.   *)
LEMMA WayIsShort ==
  ASSUME NEW s \in Sessions, WayOf(s)
  PROVE  Cardinality(Routers) \in Nat /\ Hops(s) + 1 <= Cardinality(Routers)
<1> DEFINE n == Hops(s)
           h == [i \in 0 .. n |-> Hop(s, i)]
<1>1. n \in Nat /\ IsFiniteSet(Routers) /\ Cardinality(Routers) \in Nat
  BY FS_CardinalityType, RsvpAssumption DEF WayOf
<1>2. h \in [0 .. n -> Routers]
  BY DEF WayOf
<1>3. \A i, j \in 0 .. n : h[i] = h[j] => i = j
  BY DEF WayOf
<1>4. IsFiniteSet(0 .. n) /\ Cardinality(0 .. n) = n + 1
  <2>1. ASSUME NEW l \in Nat PROVE IsFiniteSet(0 .. l) /\ Cardinality(0 .. l) = l + 1
    <3>1. Cardinality(0 .. l) = (IF 0 > l THEN 0 ELSE l - 0 + 1) /\ IsFiniteSet(0 .. l)
      BY FS_Interval
    <3>2. (IF 0 > l THEN 0 ELSE l - 0 + 1) = l + 1
      OBVIOUS
    <3> QED
      BY <3>1, <3>2
  <2> QED
    BY <1>1, <2>1
<1> HIDE DEF h, n
<1>5. ~ (Cardinality(0 .. n) > Cardinality(Routers))
  BY <1>1, <1>2, <1>3, <1>4, FS_PigeonHole
<1> QED
  BY <1>1, <1>4, <1>5 DEF n

(* The packets of the path of s at a hop from a on, at most j steps from   *)
(* the last of them with m to go after it, over links that are up.         *)
Along(s, rest, a, m, j) ==
  {Packet(s, i, rest) : i \in {x \in a .. Hops(s) : Behind(s, x) /\ Hops(s) - x + 1 + m <= j}}

Up(s, a, down) == \A i \in a .. (Hops(s) - 1) : {Hop(s, i), Hop(s, i + 1)} \notin down

GoesOn(s, rest, a, down, m) ==
  \A j \in Nat : \A q \in Along(s, rest, a, m, j) :
    /\ m + 1 <= j
    /\ \E u \in Along(s, rest, a, m, j - 1) \cup {At(s.dest, rest)} : StepOf(q, down) = {u}

LEMMA AlongGoesOn ==
  ASSUME WayInv, NEW s \in Sessions, WayOf(s), NEW a \in 1 .. Hops(s),
         NEW rest \in Seq(Labels), NEW down, Up(s, a, down), NEW m \in Nat
  PROVE  GoesOn(s, rest, a, down, m)
<1> SUFFICES ASSUME NEW j \in Nat, NEW q \in Along(s, rest, a, m, j)
             PROVE  /\ m + 1 <= j
                    /\ \E u \in Along(s, rest, a, m, j - 1) \cup {At(s.dest, rest)} : StepOf(q, down) = {u}
  BY DEF GoesOn
<1>1. PICK i \in a .. Hops(s) :
             q = Packet(s, i, rest) /\ Behind(s, i) /\ Hops(s) - i + 1 + m <= j
  BY DEF Along
<1>2. Hops(s) \in Nat /\ i \in 1 .. Hops(s) /\ m + 1 <= j
  <2>1. Hops(s) \in Nat
    BY DEF WayOf
  <2> QED
    BY <2>1, <1>1
<1>3. i < Hops(s) => {Hop(s, i), Hop(s, i + 1)} \notin down
  <2>1. i < Hops(s) => i \in a .. (Hops(s) - 1)
    BY <1>1, <1>2
  <2> QED
    BY <2>1 DEF Up
<1>4. /\ StepOf(q, down) = {Onward(s, i, rest)}
      /\ i + 1 < Hops(s) => Behind(s, i + 1)
  BY <1>1, <1>2, <1>3, StepAlong
<1>5. CASE i + 1 < Hops(s)
  <2>1. i + 1 \in a .. Hops(s) /\ Hops(s) - (i + 1) + 1 + m <= j - 1
    BY <1>1, <1>2, <1>5
  <2>2. Packet(s, i + 1, rest) \in Along(s, rest, a, m, j - 1)
    BY <2>1, <1>4, <1>5 DEF Along
  <2> QED
    BY <2>2, <1>2, <1>4, <1>5 DEF Onward
<1>6. CASE ~ (i + 1 < Hops(s))
  BY <1>2, <1>4, <1>6 DEF Onward
<1> QED
  BY <1>5, <1>6

(* A packet that gets to d, with no label left, in n steps.                *)
Ends(p, n, down, d) == \E V : Rundown(V, n, down, d) /\ p \in V[n]

LEMMA EndsWalk ==
  ASSUME NEW p, NEW n \in Nat, n = Steps, NEW down, NEW d, Ends(p, n, down, d)
  PROVE  Walk({p}, down) = {d}
<1>1. PICK V : Rundown(V, n, down, d) /\ p \in V[n]
  BY DEF Ends
<1>2. \A q \in V[n] : Walk({q}, down) = {d}
  BY <1>1, WalkEnds
<1> QED
  BY <1>1, <1>2

LEMMA OneBefore ==
  ASSUME NEW q, NEW n \in Nat, NEW down, NEW d, Ends(q, n, down, d),
         NEW p, StepOf(p, down) = {q}
  PROVE  Ends(p, n + 1, down, d)
<1>1. PICK V : Rundown(V, n, down, d) /\ q \in V[n]
  BY DEF Ends
<1> DEFINE W == [j \in 0 .. n + 1 |-> IF j <= n THEN V[j] ELSE {p}]
<1>2. /\ \A j \in 0 .. n : W[j] = V[j]
      /\ W[n + 1] = {p}
  <2>1. \A j \in 0 .. n : j \in 0 .. n + 1 /\ j <= n
    OBVIOUS
  <2>2. n + 1 \in 0 .. n + 1 /\ ~ (n + 1 <= n)
    OBVIOUS
  <2> QED
    BY <2>1, <2>2
<1> HIDE DEF W
<1>3. W[0] \subseteq {At(d, << >>)}
  <2>1. 0 \in 0 .. n
    OBVIOUS
  <2> QED
    BY <1>1, <1>2, <2>1 DEF Rundown
<1>4. ASSUME NEW j \in 1 .. n + 1, NEW x \in W[j]
      PROVE  \E u \in W[j - 1] : StepOf(x, down) = {u}
  <2>1. CASE j = n + 1
    <3>1. j - 1 = n /\ n \in 0 .. n
      BY <2>1
    <3>2. x = p
      BY <1>2, <1>4, <2>1
    <3> QED
      BY <3>1, <3>2, <1>1, <1>2
  <2>2. CASE j # n + 1
    <3>1. j \in 1 .. n /\ j \in 0 .. n /\ j - 1 \in 0 .. n
      BY <2>2
    <3>2. x \in V[j]
      BY <3>1, <1>2, <1>4
    <3>3. PICK u \in V[j - 1] : StepOf(x, down) = {u}
      BY <3>1, <3>2, <1>1 DEF Rundown
    <3> QED
      BY <3>1, <3>3, <1>2
  <2> QED
    BY <2>1, <2>2
<1>5. Rundown(W, n + 1, down, d)
  BY <1>3, <1>4 DEF Rundown
<1> QED
  BY <1>2, <1>5 DEF Ends

(* Routers enough for the walks along two ways.                            *)
LEMMA StepsEnough ==
  ASSUME NEW s \in Sessions, WayOf(s), NEW b \in Sessions, WayOf(b)
  PROVE  /\ Hops(s) \in Nat /\ Hops(b) \in Nat
         /\ Steps \in Nat
         /\ Hops(s) <= Steps
         /\ Hops(b) + Hops(s) + 2 <= Steps
BY WayIsShort DEF WayOf, Steps

LEMMA EndsAlong ==
  ASSUME WayInv, NEW s \in Sessions, WayOf(s), NEW a \in 1 .. Hops(s), Behind(s, a),
         NEW down, Up(s, a, down), NEW n \in Nat, Hops(s) <= n
  PROVE  Ends(Packet(s, a, << >>), n, down, s.dest)
<1> DEFINE V == [j \in 0 .. n |-> Along(s, << >>, a, 0, j) \cup {At(s.dest, << >>)}]
<1>1. Hops(s) \in Nat /\ Hops(s) <= n /\ << >> \in Seq(Labels)
  BY DEF WayOf
<1>3. \A j \in 0 .. n : V[j] = Along(s, << >>, a, 0, j) \cup {At(s.dest, << >>)}
  OBVIOUS
<1> HIDE DEF V
<1>4. Packet(s, a, << >>) \in V[n]
  <2>1. a \in a .. Hops(s) /\ Hops(s) - a + 1 + 0 <= n
    BY <1>1
  <2>2. Packet(s, a, << >>) \in Along(s, << >>, a, 0, n)
    BY <2>1 DEF Along
  <2> QED
    BY <2>2, <1>3
<1>a. GoesOn(s, << >>, a, down, 0)
  BY <1>1, AlongGoesOn
<1>5. V[0] \subseteq {At(s.dest, << >>)}
  <2>1. ASSUME NEW q \in Along(s, << >>, a, 0, 0) PROVE FALSE
    BY <1>a DEF GoesOn
  <2>2. 0 \in 0 .. n
    OBVIOUS
  <2> QED
    BY <2>1, <2>2, <1>3
<1>6. ASSUME NEW j \in 1 .. n, NEW q \in V[j]
      PROVE  \E u \in V[j - 1] : StepOf(q, down) = {u}
  <2>1. j \in Nat /\ j \in 0 .. n /\ j - 1 \in 0 .. n
    OBVIOUS
  <2>2. CASE q \in Along(s, << >>, a, 0, j)
    <3>1. \E u \in Along(s, << >>, a, 0, j - 1) \cup {At(s.dest, << >>)} : StepOf(q, down) = {u}
      BY <1>a, <2>1, <2>2 DEF GoesOn
    <3> QED
      BY <3>1, <2>1, <1>3
  <2>3. CASE q = At(s.dest, << >>)
    <3>1. StepOf(q, down) = {q}
      BY <2>3, StaysThere
    <3> QED
      BY <3>1, <2>1, <2>3, <1>3
  <2> QED
    BY <2>1, <2>2, <2>3, <1>3
<1>7. Rundown(V, n, down, s.dest)
  BY <1>5, <1>6 DEF Rundown
<1> QED
  BY <1>4, <1>7 DEF Ends

(* Around over b and on along the path of s from hop a.                    *)
LEMMA EndsAround ==
  ASSUME WayInv, NEW s \in Sessions, WayOf(s), NEW a \in 1 .. Hops(s), Behind(s, a),
         NEW b \in Sessions, WayOf(b), Behind(b, 1), b.dest = Hop(s, a),
         NEW down, Up(s, a, down), Up(b, 1, down),
         NEW n \in Nat, Hops(b) + Hops(s) + 1 <= n
  PROVE  Ends(Packet(b, 1, <<Given(s, a)>>), n, down, s.dest)
<1> DEFINE rest == <<Given(s, a)>>
           m == Hops(s) + 1
           V == [j \in 0 .. n |-> Along(b, rest, 1, m, j) \cup Along(s, << >>, a, 0, j)
                                    \cup {At(s.dest, << >>)}]
<1>1. /\ Hops(s) \in Nat /\ Hops(b) \in Nat /\ Hops(b) # 0
      /\ Hops(b) + m <= n /\ << >> \in Seq(Labels)
  BY DEF WayOf
<1>3. PICK k \in Nat : k = m
  BY <1>1
<1>4. rest \in Seq(Labels) /\ At(b.dest, rest) = Packet(s, a, << >>)
  <2>1. Given(s, a) \in Labels
    BY GivenIs
  <2> QED
    BY <2>1 DEF Packet, At
<1> HIDE DEF m, rest
<1>5. \A j \in 0 .. n : V[j] = Along(b, rest, 1, k, j) \cup Along(s, << >>, a, 0, j)
                                 \cup {At(s.dest, << >>)}
  BY <1>3
<1> HIDE DEF V
<1>6. Packet(b, 1, rest) \in V[n]
  <2>1. 1 \in 1 .. Hops(b) /\ Hops(b) - 1 + 1 + k <= n
    BY <1>1, <1>3 DEF m
  <2>2. Packet(b, 1, rest) \in Along(b, rest, 1, k, n)
    BY <2>1 DEF Along
  <2> QED
    BY <2>2, <1>5
<1>a. GoesOn(s, << >>, a, down, 0)
  BY <1>1, AlongGoesOn
<1>b. GoesOn(b, rest, 1, down, k)
  <2>1. 1 \in 1 .. Hops(b)
    BY <1>1
  <2> QED
    BY <2>1, <1>4, AlongGoesOn
<1>7. V[0] \subseteq {At(s.dest, << >>)}
  <2>1. ASSUME NEW q \in Along(s, << >>, a, 0, 0) PROVE FALSE
    BY <1>a DEF GoesOn
  <2>2. ASSUME NEW q \in Along(b, rest, 1, k, 0) PROVE FALSE
    BY <1>b DEF GoesOn
  <2>3. 0 \in 0 .. n
    OBVIOUS
  <2> QED
    BY <2>1, <2>2, <2>3, <1>5
<1>8. ASSUME NEW j \in 1 .. n, NEW q \in V[j]
      PROVE  \E u \in V[j - 1] : StepOf(q, down) = {u}
  <2>1. j \in Nat /\ j \in 0 .. n /\ j - 1 \in 0 .. n
    OBVIOUS
  <2>2. CASE q \in Along(b, rest, 1, k, j)
    <3>2. /\ k + 1 <= j
          /\ \E u \in Along(b, rest, 1, k, j - 1) \cup {At(b.dest, rest)} : StepOf(q, down) = {u}
      BY <1>b, <2>1, <2>2 DEF GoesOn
    <3>3. Packet(s, a, << >>) \in Along(s, << >>, a, 0, j - 1)
      <4>1. a \in a .. Hops(s) /\ Hops(s) - a + 1 + 0 <= j - 1
        BY <1>1, <1>3, <2>1, <3>2 DEF m
      <4> QED
        BY <4>1 DEF Along
    <3> QED
      BY <3>2, <3>3, <1>4, <2>1, <1>5
  <2>3. CASE q \in Along(s, << >>, a, 0, j)
    <3>1. \E u \in Along(s, << >>, a, 0, j - 1) \cup {At(s.dest, << >>)} : StepOf(q, down) = {u}
      BY <1>a, <2>1, <2>3 DEF GoesOn
    <3> QED
      BY <3>1, <2>1, <1>5
  <2>4. CASE q = At(s.dest, << >>)
    <3>1. StepOf(q, down) = {q}
      BY <2>4, StaysThere
    <3> QED
      BY <3>1, <2>1, <2>4, <1>5
  <2> QED
    BY <2>1, <2>2, <2>3, <2>4, <1>5
<1>9. Rundown(V, n, down, s.dest)
  BY <1>7, <1>8 DEF Rundown
<1>10. Ends(Packet(b, 1, rest), n, down, s.dest)
  BY <1>6, <1>9 DEF Ends
<1> QED
  BY <1>10 DEF rest

LEMMA WalkLeads ==
  ASSUME WayInv, NEW s \in Sessions, WayOf(s), NEW a \in 1 .. Hops(s), Behind(s, a),
         NEW down, Up(s, a, down)
  PROVE  Walk({Packet(s, a, << >>)}, down) = {s.dest}
<1>1. Steps \in Nat /\ Hops(s) <= Steps
  BY StepsEnough
<1>2. Ends(Packet(s, a, << >>), Steps, down, s.dest)
  BY <1>1, EndsAlong
<1> QED
  BY <1>1, <1>2, EndsWalk

-----------------------------------------------------------------------------
LEMMA WayOfRoute ==
  ASSUME WayInv, NEW r \in Routers, NEW s \in DOMAIN routes[r]
  PROVE  /\ s \in Sessions /\ WayOf(s)
         /\ \E i \in 0 .. (Hops(s) - 1) :
              /\ r = Hop(s, i) /\ (i = 0 <=> s.src = r)
              /\ Leads(routes[r][s], s, i) /\ Behind(s, i) /\ Behind(s, i + 1)
<1>1. RouteOK(r, s)
  BY DEF WayInv
<1>2. PICK i \in 0 .. (Hops(s) - 1) :
             r = Hop(s, i) /\ Leads(routes[r][s], s, i) /\ Behind(s, i + 1)
  BY <1>1 DEF RouteOK
<1>3. s \in Sessions /\ WayOf(s)
  <2>1. s \in Sessions /\ Ero[s] \in Seq(Routers) /\ Len(Ero[s]) > 0
    BY <1>1, <1>2, Ways DEF Hops, RouteOK
  <2> QED
    BY <2>1, Ways
<1>4. i = 0 <=> s.src = r
  <2>1. i \in 0 .. Hops(s) /\ 0 \in 0 .. Hops(s) /\ Hop(s, 0) = s.src
    BY <1>2, <1>3 DEF WayOf, Hop
  <2> QED
    BY <1>2, <1>3, <2>1 DEF WayOf
<1>5. Behind(s, i)
  BY <1>2 DEF Behind
<1> QED
  BY <1>2, <1>3, <1>4, <1>5

LEMMA WayOfBypass ==
  ASSUME WayInv, NEW r \in Routers, NEW b \in DOMAIN bypasses[r]
  PROVE  /\ b \in Sessions /\ WayOf(b) /\ b.src = r
         /\ Leads(bypasses[r][b], b, 0) /\ Behind(b, 1)
<1>1. BypassOK(r, b)
  BY DEF WayInv
<1>2. b \in Sessions /\ Ero[b] \in Seq(Routers) /\ Len(Ero[b]) > 0
  BY <1>1, Ways DEF Hops, BypassOK
<1> QED
  BY <1>1, <1>2, Ways DEF BypassOK

(* The ingress puts the label of the first hop on what there is.           *)
LEMMA IngressPushes ==
  ASSUME NEW s \in Sessions, WayOf(s), NEW t, Leads(t, s, 0), NEW rest \in Seq(Labels)
  PROVE  [at |-> t.next, stack |-> ApplyAll(t.ops, rest)] = Packet(s, 1, rest)
<1>1. t.next = Hop(s, 1) /\ t.ops = <<Push(Given(s, 1))>>
  BY DEF Leads
<1>2. 1 \in 1 .. Hops(s)
  BY DEF WayOf
<1>3. Given(s, 1) \in Labels
  BY <1>2, GivenIs
<1>4. ApplyAll(<<Push(Given(s, 1))>>, rest) = Append(rest, Given(s, 1))
  BY <1>3, OpsDo
<1> QED
  BY <1>1, <1>4 DEF Packet

LEMMA EmptyStack == << >> \in Seq(Labels)
OBVIOUS

LEMMA LabelledPacket ==
  ASSUME NEW s \in Sessions, WayOf(s), NEW i \in 1 .. Hops(s), i < Hops(s)
  PROVE  [at |-> Hop(s, i), stack |-> <<Label(Hop(s, i), s)>>] = Packet(s, i, << >>)
<1>1. Given(s, i) = Label(Hop(s, i), s)
  BY GivenIs
<1>2. Append(<< >>, Given(s, i)) = <<Given(s, i)>>
  OBVIOUS
<1> QED
  BY <1>1, <1>2 DEF Packet

(* As soon as a route of a path is there, at its ingress or behind a       *)
(* label, its packets get to the egress with no label left: every label    *)
(* behind it is in place, swapped for the one the next hop gave            *)
(* (rsvp/process.py:335-526, mpls.py).                                     *)
THEOREM RoutesAlwaysLead == Spec => []LspsLead
<1>1. ASSUME WayInv PROVE LspsLead
  <2>1. \A s : \A a : Up(s, a, {})
    BY DEF Up
  <2>2. ASSUME NEW r \in Routers, NEW s \in DOMAIN routes[r]
        PROVE  Enters(r, s, {}) = {s.dest}
    <3>1. s \in Sessions /\ WayOf(s)
      BY <1>1, WayOfRoute
    <3>2. PICK i \in 0 .. (Hops(s) - 1) :
                 /\ r = Hop(s, i) /\ (i = 0 <=> s.src = r)
                 /\ Leads(routes[r][s], s, i) /\ Behind(s, i) /\ Behind(s, i + 1)
      BY <1>1, WayOfRoute
    <3>3. CASE i = 0
      <4>1. Over(routes[r][s], r, {}, << >>) = {Packet(s, 1, << >>)}
        BY <3>1, <3>2, <3>3, IngressPushes, EmptyStack DEF Over
      <4>2. 1 \in 1 .. Hops(s) /\ Behind(s, 1)
        BY <3>1, <3>2, <3>3 DEF WayOf
      <4>3. Walk({Packet(s, 1, << >>)}, {}) = {s.dest}
        BY <1>1, <2>1, <3>1, <4>2, WalkLeads
      <4> QED
        BY <3>2, <3>3, <4>1, <4>3 DEF Enters
    <3>4. CASE i # 0
      <4>1. i \in 1 .. Hops(s) /\ i < Hops(s)
        BY <3>1, <3>2, <3>4 DEF WayOf
      <4>2. Walk({Packet(s, i, << >>)}, {}) = {s.dest}
        BY <1>1, <2>1, <3>1, <3>2, <4>1, WalkLeads
      <4>3. [at |-> r, stack |-> <<Label(r, s)>>] = Packet(s, i, << >>)
        BY <3>1, <3>2, <4>1, LabelledPacket
      <4> QED
        BY <3>2, <3>4, <4>2, <4>3 DEF Enters
    <3> QED
      BY <3>3, <3>4
  <2>3. ASSUME NEW r \in Routers, NEW b \in DOMAIN bypasses[r]
        PROVE  Walk(Over(bypasses[r][b], r, {}, << >>), {}) = {b.dest}
    <3>1. b \in Sessions /\ WayOf(b) /\ Leads(bypasses[r][b], b, 0) /\ Behind(b, 1)
      BY <1>1, WayOfBypass
    <3>2. Over(bypasses[r][b], r, {}, << >>) = {Packet(b, 1, << >>)}
      BY <3>1, IngressPushes, EmptyStack DEF Over
    <3>3. 1 \in 1 .. Hops(b)
      BY <3>1 DEF WayOf
    <3>4. Walk({Packet(b, 1, << >>)}, {}) = {b.dest}
      BY <1>1, <2>1, <3>1, <3>3, WalkLeads
    <3> QED
      BY <3>2, <3>4
  <2> QED
    BY <2>2, <2>3 DEF LspsLead
<1>2. IInv => LspsLead
  BY <1>1 DEF IInv
<1> QED
  BY <1>2, WaysStay, PTL

-----------------------------------------------------------------------------
(* The distances of the reference are none below those of Dijkstra.        *)
LEMMA MinIs ==
  ASSUME NEW X \in SUBSET Nat, X # {}
  PROVE  Min(X) \in X
<1>1. PICK x \in X : \A y \in X : x <= y
  BY HasLeast
<1> QED
  BY <1>1 DEF Min

(* What the reference takes the least of.                                  *)
Offers(g, f, v) ==
  {f[v]} \cup {f[n] + Metric[n][v] : n \in {m \in g.systems : v \in g.nbrs[m] /\ f[m] < Far}}

LEMMA OffersNoLess ==
  ASSUME NEW g, Graph(g), NEW self, NEW D, SpfOK(g, self, D), D.queue = {},
         NEW f \in [g.systems -> Nat], \A v \in g.systems : D.dist[v] <= f[v],
         NEW v \in g.systems
  PROVE  Min(Offers(g, f, v)) \in Nat /\ D.dist[v] <= Min(Offers(g, f, v))
<1>1. D.dist \in [g.systems -> Nat]
  BY DEF SpfOK, SpfStates
<1>2. ASSUME NEW e \in Offers(g, f, v) PROVE e \in Nat /\ D.dist[v] <= e
  <2>1. CASE e = f[v]
    BY <2>1
  <2>2. CASE e # f[v]
    <3>1. PICK n \in g.systems : v \in g.nbrs[n] /\ e = f[n] + Metric[n][v]
      BY <1>2, <2>2 DEF Offers
    <3>2. Metric[n][v] \in Nat
      BY <3>1 DEF Graph
    <3>3. D.dist[v] <= D.dist[n] + Metric[n][v]
      BY <3>1 DEF SpfOK, Short
    <3>4. D.dist[n] <= f[n] /\ D.dist[n] \in Nat /\ D.dist[v] \in Nat /\ f[n] \in Nat
      BY <1>1
    <3> QED
      BY <3>1, <3>2, <3>3, <3>4
  <2> QED
    BY <2>1, <2>2
<1>3. Offers(g, f, v) \in SUBSET Nat /\ Offers(g, f, v) # {}
  <2>1. f[v] \in Offers(g, f, v)
    BY DEF Offers
  <2> QED
    BY <1>2, <2>1
<1>4. Min(Offers(g, f, v)) \in Offers(g, f, v)
  BY <1>3, MinIs
<1> QED
  BY <1>2, <1>4

LEMMA DistanceNoLess ==
  ASSUME NEW g, Graph(g), NEW self \in g.systems, Far \in Nat,
         NEW D, SpfOK(g, self, D), D.queue = {}, NEW v \in g.systems
  PROVE  Distance(g, self)[v] \in Nat /\ D.dist[v] <= Distance(g, self)[v]
<1> DEFINE S == g.systems
           c == Cardinality(S)
           w0 == [x \in S |-> IF x = self THEN 0 ELSE Far]
           Step(f) == [x \in S |-> Min(Offers(g, f, x))]
           C(f) == f = [k \in 0 .. c |->
                          IF k = 0 THEN w0
                          ELSE [x \in S |->
                                  Min({f[k - 1][x]}
                                        \cup {f[k - 1][n] + Metric[n][x] :
                                                n \in {m \in S : x \in g.nbrs[m] /\ f[k - 1][m] < Far}})]]
           F == CHOOSE f : C(f)
           U == {f \in [S -> Nat] : \A x \in S : D.dist[x] <= f[x]}
           V == [k \in 0 .. c |-> U]
           step == [x \in U \X (1 .. c) |-> Step(x[1])]
<1>1. Distance(g, self) = F[c]
  BY DEF Distance
<1>2. c \in Nat
  BY FS_CardinalityType DEF Graph
<1>3. w0 \in U
  <2>1. D.dist[self] = 0 /\ D.dist \in [S -> Nat]
    BY DEF SpfOK, SpfStates, Tree
  <2>2. \A x \in S : x # self => D.dist[x] <= Far
    BY DEF SpfOK, Tree
  <2> QED
    BY <2>1, <2>2
<1>4. ASSUME NEW f \in U PROVE Step(f) \in U
  <2>1. \A x \in S : Min(Offers(g, f, x)) \in Nat /\ D.dist[x] <= Min(Offers(g, f, x))
    BY OffersNoLess
  <2> QED
    BY <2>1
<1>5. \A k \in 1 .. c : \A f \in U : step[<<f, k>>] = Step(f)
  OBVIOUS
<1>6. \A k \in 0 .. c : V[k] = U
  OBVIOUS
<1> HIDE DEF V, w0, step, Step, U
<1>7. PICK f : Loop(f, c, V, w0, step)
  <2>1. \A k \in 1 .. c : k - 1 \in 0 .. c /\ k \in 0 .. c
    BY <1>2
  <2>2. \A k \in 1 .. c : \A x \in V[k - 1] : step[<<x, k>>] \in V[k]
    BY <1>4, <1>5, <1>6, <2>1
  <2>3. w0 \in V[0]
    BY <1>2, <1>3, <1>6
  <2> HIDE DEF c
  <2> QED
    BY <1>2, <2>2, <2>3, Rounds
<1>8. C(f)
  <2> DEFINE E(k) == IF k = 0 THEN w0 ELSE Step(f[k - 1])
  <2>1. f = [k \in 0 .. c |-> f[k]]
    BY <1>7 DEF Loop
  <2>2. ASSUME NEW k \in 0 .. c PROVE f[k] = E(k)
    <3>1. CASE k = 0
      BY <3>1, <1>7 DEF Loop
    <3>2. CASE k # 0
      <4>1. k \in 1 .. c /\ k - 1 \in 0 .. c
        BY <3>2, <1>2
      <4>2. f[k] = step[<<f[k - 1], k>>] /\ f[k - 1] \in U
        BY <4>1, <1>6, <1>7 DEF Loop
      <4> QED
        BY <3>2, <4>1, <4>2, <1>5
    <3> QED
      BY <3>1, <3>2
  <2> HIDE DEF E
  <2>3. f = [k \in 0 .. c |-> E(k)]
    BY <2>1, <2>2, Zenon
  <2> QED
    BY <2>3 DEF E, Step, Offers
<1>9. C(F)
  <2> HIDE DEF C
  <2> QED
    BY <1>8
<1> HIDE DEF F
<1>10. F[0] = w0 /\ \A k \in 1 .. c : F[k] = Step(F[k - 1])
  <2> DEFINE E(k) == IF k = 0 THEN w0 ELSE Step(F[k - 1])
  <2>1. F = [k \in 0 .. c |-> E(k)]
    BY <1>9 DEF Step, Offers
  <2> HIDE DEF E
  <2>2. \A k \in 0 .. c : F[k] = E(k)
    BY <2>1, Zenon
  <2> HIDE DEF c
  <2>3. 0 \in 0 .. c /\ \A k \in 1 .. c : k \in 0 .. c /\ k # 0
    BY <1>2
  <2> QED
    BY <2>2, <2>3 DEF E
<1>11. F[c] \in U
  <2> DEFINE I == {k \in 0 .. c : F[k] \in U}
  <2>1. 0 \in I
    BY <1>2, <1>3, <1>10
  <2>2. \A k \in 1 .. c : k - 1 \in I => k \in I
    BY <1>4, <1>10
  <2> HIDE DEF I, c
  <2>3. c \in I
    BY <1>2, <2>1, <2>2, UpTo
  <2> QED
    BY <2>3 DEF I
<1> QED
  BY <1>1, <1>11 DEF U

(* A bypass leaves by another link where there is another way.             *)
LEMMA BypassLeaves ==
  ASSUME NEW r \in Routers, NEW n \in Nbr(r), {r, n} \in OtherWay
  PROVE  Hop(Bypass(r, n), 1) # n
<1> DEFINE s == Bypass(r, n)
           g == Ted(r, n)
           D == Dijkstra(Ted(s.src, s.around), s.src)
           w == ShortestPath(s)
<1>0. s \in Sessions /\ s.src = r /\ s.dest = n /\ s.around = n /\ n \in Routers /\ r # n
  BY BypassFacts, SessionFacts
<1>1. Graph(g) /\ g.systems = Routers
  BY TedIsGraph
<1> HIDE DEF s
<1>2. /\ SpfOK(g, r, D) /\ D.queue = {} /\ Trail(D, r, n, w)
      /\ D.prev[n] # NoSystem => D.prev[w[1]] = r
  BY <1>0, ShortestPathIs
<1> HIDE DEF w, D
<1>3. Distance(g, r)[n] < Far
  <2>1. \A x, y \in {r, n} :
          x # y => Distance([systems |-> Routers, nbrs |-> [z \in Routers |-> {u \in Nbr(z) : {z, u} # {r, n}}]], x)[y] < Far
    BY DEF OtherWay
  <2>2. r \in {r, n} /\ n \in {r, n}
    OBVIOUS
  <2>3. g = [systems |-> Routers, nbrs |-> [z \in Routers |-> {u \in Nbr(z) : {z, u} # {r, n}}]]
    BY DEF Ted
  <2> HIDE DEF g
  <2> QED
    BY <1>0, <2>1, <2>2, <2>3
<1> HIDE DEF g
<1>4. D.prev[n] # NoSystem
  <2>1. Distance(g, r)[n] \in Nat /\ D.dist[n] <= Distance(g, r)[n]
    BY <1>0, <1>1, <1>2, DistanceNoLess, RsvpAssumption
  <2>2. D.prev[n] = NoSystem => D.dist[n] = Far
    BY <1>0, <1>1, <1>2 DEF SpfOK, Tree
  <2>3. D.prev[n] = NoSystem => FALSE
    <3> SUFFICES ASSUME D.prev[n] = NoSystem PROVE FALSE
      OBVIOUS
    <3>1. Far <= Distance(g, r)[n]
      BY <2>1, <2>2
    <3> QED
      BY <1>3, <2>1, <3>1, RsvpAssumption
  <2> QED
    BY <2>3
<1>5. w[1] # n
  <2>1. w[1] \in Routers /\ r # NoSystem
    BY <1>2, RsvpAssumption DEF Trail, NoSystem
  <2>2. w[1] \in g.nbrs[r]
    BY <1>1, <1>2, <1>4, <2>1 DEF SpfOK, Tree
  <2> QED
    BY <2>2, TedNbrs DEF g
<1>6. Ero[s] = w
  <2>1. Ero[s] # << >>
    BY BypassWays DEF s
  <2> QED
    BY <1>0, <2>1, EroIs DEF w
<1> QED
  BY <1>5, <1>6 DEF Hop, s

-----------------------------------------------------------------------------
(* Behind a route, the links of its path never come back to where it is;   *)
(* nor do those of a bypass, after the first.                              *)
LEMMA NeverBack ==
  ASSUME NEW s \in Sessions, WayOf(s), NEW i \in 0 .. (Hops(s) - 1),
         NEW a, a = i + 1, NEW r, r = Hop(s, i), NEW n
  PROVE  Up(s, a, {{r, n}})
<1> SUFFICES ASSUME NEW k \in a .. (Hops(s) - 1) PROVE {Hop(s, k), Hop(s, k + 1)} # {r, n}
  BY DEF Up
<1>1. /\ k \in 0 .. Hops(s) /\ k + 1 \in 0 .. Hops(s) /\ i \in 0 .. Hops(s)
      /\ k # i /\ k + 1 # i
  BY DEF WayOf
<1>2. Hop(s, k) # r /\ Hop(s, k + 1) # r
  BY <1>1 DEF WayOf
<1> QED
  BY <1>2

(* With its link down a route hands its packets to its bypass.             *)
LEMMA OverBypass ==
  ASSUME NEW r, NEW t, NEW b \in DOMAIN bypasses[r], t.bypass = <<b>>,
         NEW bt, bt = bypasses[r][b], NEW down, {r, t.next} \in down, {r, bt.next} \notin down
  PROVE  \A stack : Over(t, r, down, stack)
                       = {[at |-> bt.next, stack |-> ApplyAll(bt.ops, ApplyAll(t.ops, stack))]}
<1> TAKE stack
<1>1. {y \in DOMAIN bypasses[r] : t.bypass = <<y>>} = {b}
  OBVIOUS
<1>2. {x \in {bypasses[r][s] : s \in {y \in DOMAIN bypasses[r] : t.bypass = <<y>>}} :
         {r, x.next} \notin down} = {bt}
  BY <1>1
<1>3. Over(t, r, down, stack)
        = {[at |-> x.next, stack |-> ApplyAll(x.ops, ApplyAll(t.ops, stack))] : x \in {bt}}
  BY <1>2 DEF Over
<1> QED
  BY <1>3

(* The first hop around, for each kind of route: the label of the path     *)
(* goes under that of the bypass, or is gone where the path ends.          *)
LEMMA AroundFrom ==
  ASSUME WayInv, NEW r \in Routers, NEW s \in Sessions, WayOf(s), NEW i \in 0 .. (Hops(s) - 1),
         r = Hop(s, i), NEW t, Leads(t, s, i), Behind(s, i + 1), NEW n, n = Hop(s, i + 1),
         NEW b \in Sessions, WayOf(b), b.src = r, b.dest = n, Behind(b, 1),
         NEW bt, Leads(bt, b, 0), NEW stack,
         stack = IF i = 0 THEN << >> ELSE <<Given(s, i)>>
  PROVE  LET p == [at |-> bt.next, stack |-> ApplyAll(bt.ops, ApplyAll(t.ops, stack))]
         IN  \A k \in Nat : Hops(b) + Hops(s) + 1 <= k => Ends(p, k, {{r, n}}, s.dest)
<1> DEFINE down == {{r, n}}
           rest == IF i + 1 = Hops(s) /\ i # 0 THEN << >> ELSE <<Given(s, i + 1)>>
           p == [at |-> bt.next, stack |-> ApplyAll(bt.ops, ApplyAll(t.ops, stack))]
<1>1. /\ Hops(s) \in Nat /\ Hops(b) \in Nat /\ i + 1 \in 1 .. Hops(s) /\ 1 \in 1 .. Hops(b)
      /\ Hop(b, 0) = r /\ 0 \in 0 .. (Hops(b) - 1)
  BY DEF WayOf, Hop
<1>2. Up(s, i + 1, down) /\ Up(b, 1, down)
  <2>1. Up(s, i + 1, down)
    BY NeverBack
  <2>2. Up(b, 1, down)
    <3>1. 1 = 0 + 1
      OBVIOUS
    <3> QED
      BY <1>1, <3>1, NeverBack
  <2> QED
    BY <2>1, <2>2
<1> HIDE DEF down
<1>3. Given(s, i + 1) \in Labels /\ rest \in Seq(Labels)
  <2>1. Given(s, i + 1) \in Labels
    BY <1>1, GivenIs
  <2> QED
    BY <2>1
<1>4. ApplyAll(t.ops, stack) = rest
  <2>1. CASE i = 0
    <3>1. t.ops = <<Push(Given(s, i + 1))>> /\ stack = << >> /\ rest = <<Given(s, i + 1)>>
      BY <2>1 DEF Leads
    <3>2. Append(<< >>, Given(s, i + 1)) = <<Given(s, i + 1)>>
      OBVIOUS
    <3>3. ApplyAll(<<Push(Given(s, i + 1))>>, << >>) = Append(<< >>, Given(s, i + 1))
      BY <1>3, EmptyStack, OpsDo
    <3> HIDE DEF rest
    <3> QED
      BY <3>1, <3>2, <3>3
  <2>2. CASE i # 0
    <3> DEFINE x == Given(s, i)
               y == Given(s, i + 1)
    <3>1. i \in 1 .. Hops(s) /\ x \in Labels
      <4>1. i \in 1 .. Hops(s)
        BY <1>1, <2>2
      <4> QED
        BY <4>1, GivenIs
    <3>2. /\ t.ops = <<IF i + 1 = Hops(s) THEN Pop ELSE Swap(y)>>
          /\ stack = <<x>> /\ rest = IF i + 1 = Hops(s) THEN << >> ELSE <<y>>
      BY <2>2 DEF Leads
    <3> HIDE DEF rest, x, y
    <3>3. Append(<< >>, x) = <<x>> /\ Append(<< >>, y) = <<y>>
      OBVIOUS
    <3>4. /\ ApplyAll(<<Pop>>, Append(<< >>, x)) = << >>
          /\ ApplyAll(<<Swap(y)>>, Append(<< >>, x)) = Append(<< >>, y)
      BY <3>1, EmptyStack, OpsDo
    <3> QED
      BY <3>2, <3>3, <3>4
  <2> QED
    BY <2>1, <2>2
<1>5. p = Packet(b, 1, rest)
  <2>1. [at |-> bt.next, stack |-> ApplyAll(bt.ops, rest)] = Packet(b, 1, rest)
    <3> HIDE DEF rest
    <3> QED
      BY <1>3, IngressPushes
  <2> HIDE DEF rest
  <2> QED
    BY <1>4, <2>1
<1> HIDE DEF p
<1>6. ASSUME NEW k \in Nat, Hops(b) + Hops(s) + 1 <= k
      PROVE  Ends(p, k, down, s.dest)
  <2>1. CASE i + 1 = Hops(s) /\ i # 0
    <3>1. rest = << >> /\ b.dest = s.dest /\ Hops(b) <= k
      BY <2>1, <1>1, <1>6 DEF WayOf
    <3>2. Ends(Packet(b, 1, << >>), k, down, b.dest)
      BY <3>1, <1>1, <1>2, EndsAlong
    <3> QED
      BY <3>1, <3>2, <1>5
  <2>2. CASE ~ (i + 1 = Hops(s) /\ i # 0)
    <3> DEFINE a == i + 1
    <3>1. rest = <<Given(s, a)>>
      BY <2>2
    <3>2. a \in 1 .. Hops(s) /\ Behind(s, a) /\ b.dest = Hop(s, a) /\ Up(s, a, down)
      BY <1>1, <1>2
    <3> HIDE DEF a, rest
    <3>3. Ends(Packet(b, 1, <<Given(s, a)>>), k, down, s.dest)
      BY <3>2, <1>2, <1>6, EndsAround
    <3> QED
      BY <3>1, <3>3, <1>5
  <2> QED
    BY <2>1, <2>2
<1> QED
  BY <1>6 DEF down, p

(* When the link behind a route fails and there is another way, the route's *)
(* bypass takes its packets around the link and the path goes on behind it: *)
(* they get to the egress all the same                                      *)
(* (rsvp/process.py:200-323, 434-507, 552-577).                             *)
THEOREM RepairsAlwaysLead == Spec => []RepairLeads
<1>1. ASSUME WayInv, NEW r \in Routers, NEW s \in DOMAIN routes[r],
             routes[r][s].bypass # NoBypass, {r, routes[r][s].next} \in OtherWay
      PROVE  Enters(r, s, {{r, routes[r][s].next}}) = {s.dest}
  <2> DEFINE t == routes[r][s]
             n == t.next
             b == Bypass(r, n)
             bt == bypasses[r][b]
             down == {{r, n}}
  <2>1. s \in Sessions /\ WayOf(s)
    BY <1>1, WayOfRoute
  <2>2. PICK i \in 0 .. (Hops(s) - 1) :
               /\ r = Hop(s, i) /\ (i = 0 <=> s.src = r)
               /\ Leads(t, s, i) /\ Behind(s, i) /\ Behind(s, i + 1)
    BY <1>1, WayOfRoute
  <2>3. n = Hop(s, i + 1) /\ n \in Nbr(r)
    BY <2>1, <2>2 DEF WayOf, Leads
  <2>4. b \in DOMAIN bypasses[r] /\ t.bypass = <<b>>
    <3>1. t.bypass \in {NoBypass, KnownBypass(r, n)}
      BY <1>1 DEF WayInv, RouteOK
    <3> QED
      BY <3>1, <1>1 DEF KnownBypass
  <2>5. b \in Sessions /\ WayOf(b) /\ b.src = r /\ b.dest = n /\ Leads(bt, b, 0) /\ Behind(b, 1)
    BY <1>1, <2>3, <2>4, WayOfBypass, BypassFacts
  <2>6. {r, bt.next} # {r, n}
    <3>1. Hop(b, 1) # n
      BY <1>1, <2>3, BypassLeaves
    <3>2. bt.next = Hop(b, 1)
      BY <2>5 DEF Leads
    <3> QED
      BY <3>1, <3>2
  <2> HIDE DEF t, n, b, bt
  <2>7. \A stack : Over(t, r, down, stack)
                     = {[at |-> bt.next, stack |-> ApplyAll(bt.ops, ApplyAll(t.ops, stack))]}
    <3>1. bt = bypasses[r][b] /\ {r, t.next} \in down /\ {r, bt.next} \notin down
      BY <2>6 DEF bt, n
    <3> HIDE DEF down
    <3> QED
      BY <2>4, <3>1, OverBypass
  <2>8. /\ Steps \in Nat /\ Steps - 1 \in Nat /\ (Steps - 1) + 1 = Steps
        /\ Hops(b) + Hops(s) + 1 <= Steps /\ Hops(b) + Hops(s) + 1 <= Steps - 1
    BY <2>1, <2>5, StepsEnough
  <2>9. CASE i = 0
    <3> DEFINE p == [at |-> bt.next, stack |-> ApplyAll(bt.ops, ApplyAll(t.ops, << >>))]
    <3>1. \A k \in Nat : Hops(b) + Hops(s) + 1 <= k => Ends(p, k, down, s.dest)
      BY <1>1, <2>1, <2>2, <2>3, <2>5, <2>9, AroundFrom
    <3>2. Over(t, r, down, << >>) = {p}
      BY <2>7
    <3> HIDE DEF p, down
    <3>3. Walk({p}, down) = {s.dest}
      BY <3>1, <2>8, EndsWalk
    <3>4. Enters(r, s, down) = Walk(Over(t, r, down, << >>), down)
      BY <2>2, <2>9 DEF Enters, t
    <3> QED
      BY <3>2, <3>3, <3>4 DEF down, n, t
  <2>10. CASE i # 0
    <3> DEFINE x == Given(s, i)
               p == [at |-> bt.next, stack |-> ApplyAll(bt.ops, ApplyAll(t.ops, <<x>>))]
               q == At(r, <<x>>)
    <3>1. i \in 1 .. Hops(s) /\ i < Hops(s)
      BY <2>1, <2>2, <2>10 DEF WayOf
    <3>2. x = Label(r, s) /\ x # ImplicitNull /\ x \in Labels
      BY <2>1, <2>2, <3>1, GivenIs
    <3>3. \A k \in Nat : Hops(b) + Hops(s) + 1 <= k => Ends(p, k, down, s.dest)
      BY <1>1, <2>1, <2>2, <2>3, <2>5, <2>10, AroundFrom
    <3>4. Over(t, r, down, <<x>>) = {p}
      BY <2>7
    <3> HIDE DEF p, down
    <3>5. StepOf(q, down) = {p}
      <4>1. Append(<< >>, x) = <<x>>
        OBVIOUS
      <4> HIDE DEF x
      <4>2. StepOf(At(r, Append(<< >>, x)), down) = Over(routes[r][s], r, down, Append(<< >>, x))
        BY <1>1, <3>2, EmptyStack, StepFound
      <4> QED
        BY <4>1, <4>2, <3>4 DEF t
    <3> HIDE DEF q
    <3>6. Ends(q, (Steps - 1) + 1, down, s.dest)
      BY <2>8, <3>3, <3>5, OneBefore
    <3>7. Walk({q}, down) = {s.dest}
      BY <3>6, <2>8, EndsWalk
    <3>8. Enters(r, s, down) = Walk({q}, down)
      BY <2>2, <2>10, <3>2 DEF Enters, q, At
    <3> QED
      BY <3>7, <3>8 DEF down, n, t
  <2> QED
    BY <2>9, <2>10
<1>2. IInv => RepairLeads
  BY <1>1 DEF IInv, RepairLeads
<1> QED
  BY <1>2, WaysStay, PTL

=============================================================================
