---------------------------- MODULE LinkStateSpf ----------------------------
(***************************************************************************)
(* run_full_dijkstra and update_routing_table of IS-IS (isis/process.py:   *)
(* 552-707) as operators.  A graph is what a router's database says: the   *)
(* systems it has an LSP of, and for each of them the systems that LSP     *)
(* lists as neighbours.  Systems are numbers: the code visits the systems  *)
(* of one distance in the order of their ids.                              *)
(***************************************************************************)
EXTENDS Integers, FiniteSets, FiniteSetsExt

CONSTANT Metric,  \* Metric[a][b]: the metric of the interface of a to b
         Far      \* sys.maxsize, more than any path

(* A graph: g.systems, and g.nbrs[s] for each of them.                     *)
Complete(g) == \A s \in g.systems : g.nbrs[s] \subseteq g.systems

NoSystem == 0  \* no system: ids are positive

(* One round: the nearest system that is left, the lowest id of several,   *)
(* offers its neighbours a way through it; only a shorter one is taken.    *)
(* Fault: a longer one too.                                                *)
Nearest(s) ==
  Min({n \in s.queue : \A m \in s.queue : s.dist[n] <= s.dist[m]})

RelaxedAlways(s, n, nbrs) ==
  LET better(m) == m \in nbrs
  IN  [queue |-> s.queue \ {n},
       dist  |-> [m \in DOMAIN s.dist |->
                    IF better(m) THEN s.dist[n] + Metric[n][m] ELSE s.dist[m]],
       prev  |-> [m \in DOMAIN s.prev |-> IF better(m) THEN n ELSE s.prev[m]]]

Relaxed(s, n, nbrs) ==
  LET better(m) == m \in nbrs /\ s.dist[n] + Metric[n][m] < s.dist[m]
  IN  [queue |-> s.queue \ {n},
       dist  |-> [m \in DOMAIN s.dist |->
                    IF better(m) THEN s.dist[n] + Metric[n][m] ELSE s.dist[m]],
       prev  |-> [m \in DOMAIN s.prev |-> IF better(m) THEN n ELSE s.prev[m]]]

Start(g, self) ==
  [queue |-> g.systems,
   dist  |-> [s \in g.systems |-> IF s = self THEN 0 ELSE Far],
   prev  |-> [s \in g.systems |-> NoSystem]]

Dijkstra(g, self) ==
  LET round[k \in 0..Cardinality(g.systems)] ==
        IF k = 0 THEN Start(g, self)
        ELSE LET s == round[k - 1]
                 n == Nearest(s)
             IN  Relaxed(s, n, g.nbrs[n])
  IN  round[Cardinality(g.systems)]

(* resolve_path: back from d to the system behind self; of a system that   *)
(* was not reached the path is the system alone.                           *)
FirstHop(prev, self, d) ==
  LET back[k \in 0..Cardinality(DOMAIN prev)] ==
        IF k = 0 THEN d
        ELSE LET x == back[k - 1]
             IN  IF prev[x] \in {self, NoSystem} THEN x ELSE prev[x]
  IN  back[Cardinality(DOMAIN prev)]

(* update_routing_table: a route to every system that lists a prefix and   *)
(* whose first hop is a neighbour of the process; others are only logged.  *)
NextHops(g, self, neighbors, listed) ==
  LET prev == Dijkstra(g, self).prev
  IN  [d \in listed |->
         IF FirstHop(prev, self, d) \in neighbors THEN FirstHop(prev, self, d) ELSE NoSystem]

-----------------------------------------------------------------------------
(* The reference: distances by relaxing every edge as often as there are   *)
(* systems (Bellman and Ford).                                             *)
Distance(g, from) ==
  LET near[k \in 0..Cardinality(g.systems)] ==
        IF k = 0 THEN [s \in g.systems |-> IF s = from THEN 0 ELSE Far]
        ELSE [s \in g.systems |->
                Min({near[k - 1][s]}
                      \cup {near[k - 1][n] + Metric[n][s] :
                              n \in {m \in g.systems :
                                       s \in g.nbrs[m] /\ near[k - 1][m] < Far}})]
  IN  near[Cardinality(g.systems)]

=============================================================================
