---------------------------- MODULE RouterProofs ----------------------------
(***************************************************************************)
(* Proofs about Router, for any interfaces, prefixes, labels, routes, LSPs *)
(* and bypasses, and any number of failures.                               *)
(***************************************************************************)
EXTENDS Router, FiniteSetTheorems, SequenceTheorems, TLAPS

Directs == {ConnectedRoute(i) : i \in Interfaces} \cup {LocalRoute(i) : i \in Interfaces}

Table(P, S) == [P -> Seq(S)]

(* Every table holds the routes of its source and no others; a label has   *)
(* one route, and one of an LSP of its own.                                *)
TablesTyped(t) ==
  /\ t.direct \in Table(Prefixes, Directs)
  /\ t.static \in Table(Prefixes, StaticRoutes)
  /\ t.isis \in Table(Prefixes, UNION IsisTables)
  /\ t.bgp \in Table(Prefixes, BgpRoutes)
  /\ t.rsvp \in Table(Prefixes, LspRoutes)
  /\ t.mpls \in Table(Labels, LabelRoutes)

Single(t) ==
  /\ \A l \in Labels : Len(t.mpls[l]) <= 1
  /\ \A l, m \in Labels :
       t.mpls[l] # << >> /\ t.mpls[m] # << >> /\ t.mpls[l][1].lsp = t.mpls[m][1].lsp => l = m
  /\ Orderly => \A p \in Prefixes : Len(t.bgp[p]) <= 1

BypassTyped(by) == by \in [Lsps -> Bypasses \cup {None}]

StateInv ==
  /\ up \subseteq Interfaces /\ Loopback \in up
  /\ moves \in 0 .. MaxMoves
  /\ BypassTyped(bypass)
  /\ made \subseteq Bypasses

(* The prefixes, labels and entries of the forwarding table.               *)
FibTyped(f) ==
  /\ DOMAIN f.ip \subseteq Prefixes /\ DOMAIN f.mpls \subseteq Labels
  /\ \A p \in DOMAIN f.ip : f.ip[p] \in EntrySet
  /\ \A l \in DOMAIN f.mpls : f.mpls[l] \in EntrySet

IInv == TablesTyped(Now) /\ Single(Now) /\ StateInv /\ FibTyped(fib) /\ FibCurrent

-----------------------------------------------------------------------------
LEMMA HasLeast ==
  ASSUME NEW K \in SUBSET Nat, K # {}
  PROVE  \E k \in K : \A j \in K : k <= j
<1> DEFINE R == OpToRel(<, Nat)
<1>1. R = {x \in Nat \X Nat : x[1] < x[2]}
  BY DEF OpToRel
<1>2. IsWellFoundedOn(R, Nat)
  BY NatLessThanWellFounded
<1> HIDE DEF R
<1>3. \E k \in K : \A j \in K : <<j, k>> \notin R
  BY <1>2, WFMin
<1>4. ASSUME NEW j \in Nat, NEW k \in Nat, <<j, k>> \notin R PROVE k <= j
  <2>1. ~ (j < k)
    BY <1>1, <1>4
  <2> QED
    BY <2>1
<1> QED
  BY <1>3, <1>4

LEMMA LeastOf ==
  ASSUME NEW n \in Nat, NEW K \in SUBSET (1 .. n), K # {}
  PROVE  FX!Min(K) \in K /\ \A j \in K : FX!Min(K) <= j
<1>1. \E k \in K : \A j \in K : k <= j
  BY HasLeast
<1> QED
  BY <1>1 DEF FX!Min

LEMMA GreatestOf ==
  ASSUME NEW n \in Nat, NEW K \in SUBSET (1 .. n), K # {}
  PROVE  FX!Max(K) \in K
<1> DEFINE D == {n - k : k \in K}
<1>1. D \in SUBSET Nat /\ D # {}
  <2>1. \A k \in K : n - k \in Nat
    OBVIOUS
  <2> QED
    BY <2>1
<1>2. PICK d \in D : \A e \in D : d <= e
  <2> HIDE DEF D
  <2> QED
    BY <1>1, HasLeast
<1>3. PICK k \in K : d = n - k
  BY <1>2
<1>4. ASSUME NEW j \in K PROVE k >= j
  <2>1. n - k <= n - j
    BY <1>2, <1>3
  <2> QED
    BY <2>1
<1> QED
  BY <1>4 DEF FX!Max

(* Adding a route to a prefix keeps the table typed and leaves the other   *)
(* prefixes alone; the first route stays in front of one of no smaller     *)
(* metric.                                                                 *)
LEMMA AddedRoute ==
  ASSUME NEW P, NEW S, NEW t \in Table(P, S), NEW r \in S, r.prefix \in P
  PROVE  /\ Added(t, r) \in Table(P, S)
         /\ \A q \in P \ {r.prefix} : Added(t, r)[q] = t[q]
         /\ Len(Added(t, r)[r.prefix]) = Len(t[r.prefix]) + 1
         /\ t[r.prefix] # << >> /\ t[r.prefix][1].metric <= r.metric =>
              Added(t, r)[r.prefix][1] = t[r.prefix][1]
         /\ t[r.prefix] = << >> => Added(t, r)[r.prefix] = <<r>>
<1> DEFINE p == r.prefix
           s == t[p]
           K == {k \in DOMAIN s : s[k].metric <= r.metric}
           k == Place(s, r)
           new == SE!InsertAt(s, k, r)
<1>1. s \in Seq(S)
  BY DEF Table
<1> HIDE DEF s
<1>2. Len(s) \in Nat /\ DOMAIN s = 1 .. Len(s)
  BY <1>1
<1>3. K \in SUBSET (1 .. Len(s)) /\ IsFiniteSet(1 .. Len(s)) /\ Cardinality(1 .. Len(s)) = Len(s)
  <2>1. IsFiniteSet(1 .. Len(s)) /\ Cardinality(1 .. Len(s)) = Len(s)
    <3> DEFINE n == Len(s)
    <3>1. n \in Nat
      BY <1>2
    <3> HIDE DEF n
    <3>2. /\ IsFiniteSet(1 .. n)
          /\ Cardinality(1 .. n) = IF 1 > n THEN 0 ELSE n - 1 + 1
      BY <3>1, FS_Interval
    <3>3. (IF 1 > n THEN 0 ELSE n - 1 + 1) = n
      BY <3>1
    <3> QED
      BY <3>2, <3>3 DEF n
  <2>2. K \in SUBSET (1 .. Len(s))
    BY <1>2
  <2> QED
    BY <2>1, <2>2
<1>4. IsFiniteSet(K) /\ Cardinality(K) <= Len(s) /\ Cardinality(K) \in Nat
  BY <1>2, <1>3, FS_Subset, FS_CardinalityType
<1>5. k = 1 + Cardinality(K)
  BY DEF Place
<1>6. s # << >> /\ s[1].metric <= r.metric => Cardinality(K) # 0
  <2> SUFFICES ASSUME s # << >>, s[1].metric <= r.metric PROVE Cardinality(K) # 0
    OBVIOUS
  <2>1. 1 \in K
    BY <1>1, <1>2
  <2> HIDE DEF K
  <2> QED
    BY <2>1, <1>4, FS_EmptySet
<1> HIDE DEF K
<1>7. k \in 1 .. (Len(s) + 1) /\ (s # << >> /\ s[1].metric <= r.metric => k > 1)
  BY <1>2, <1>4, <1>5, <1>6
<1> HIDE DEF k
<1>8. /\ new \in Seq(S) /\ Len(new) = Len(s) + 1
      /\ k > 1 => new[1] = s[1]
      /\ new[k] = r
  <2> DEFINE a == SubSeq(s, 1, k - 1)
             b == SubSeq(s, k, Len(s))
             e == a \o <<r>>
  <2>1. a \in Seq(S) /\ Len(a) = k - 1 /\ \A j \in 1 .. (k - 1) : a[j] = s[j]
    BY <1>1, <1>2, <1>7, SubSeqProperties
  <2>2. b \in Seq(S) /\ Len(b) = Len(s) + 1 - k
    BY <1>1, <1>2, <1>7, SubSeqProperties
  <2>3. <<r>> \in Seq(S) /\ Len(<<r>>) = 1 /\ <<r>>[1] = r
    OBVIOUS
  <2> HIDE DEF a, b
  <2>4. /\ e \in Seq(S) /\ Len(e) = k
        /\ \A j \in 1 .. (k - 1) : e[j] = a[j]
        /\ e[k] = r
    BY <1>7, <2>1, <2>3, ConcatProperties
  <2> HIDE DEF e
  <2>5. /\ e \o b \in Seq(S) /\ Len(e \o b) = Len(s) + 1
        /\ \A j \in 1 .. k : (e \o b)[j] = e[j]
    BY <1>2, <1>7, <2>2, <2>4, ConcatProperties
  <2>6. new = e \o b
    BY DEF SE!InsertAt, a, b, e
  <2> HIDE DEF new
  <2>7. k \in 1 .. k /\ (k > 1 => 1 \in 1 .. k /\ 1 \in 1 .. (k - 1))
    BY <1>2, <1>7
  <2>8. new[k] = r
    BY <2>4, <2>5, <2>6, <2>7
  <2>9. k > 1 => new[1] = s[1]
    BY <2>1, <2>4, <2>5, <2>6, <2>7
  <2> QED
    BY <2>5, <2>6, <2>8, <2>9
<1>9. s = << >> => new = <<r>>
  <2> SUFFICES ASSUME s = << >> PROVE new = <<r>>
    OBVIOUS
  <2>1. k = 1 /\ Len(new) = 1 /\ new[1] = r
    BY <1>7, <1>8
  <2> HIDE DEF new
  <2> QED
    BY <2>1, <1>8
<1>10. Added(t, r) = [t EXCEPT ![p] = new]
  BY DEF Added, s, k
<1> HIDE DEF new
<1>11. /\ Added(t, r) \in Table(P, S)
       /\ Added(t, r)[p] = new
       /\ \A q \in P \ {p} : Added(t, r)[q] = t[q]
  BY <1>8, <1>10 DEF Table
<1> QED
  BY <1>7, <1>8, <1>9, <1>11 DEF s

LEMMA DeletedRoute ==
  ASSUME NEW P, NEW S, NEW t \in Table(P, S), NEW r, r.prefix \in P
  PROVE  Deleted(t, r) \in Table(P, S)
<1>1. CASE ~ HoldsRoute(t, r)
  BY <1>1 DEF Deleted
<1>2. CASE HoldsRoute(t, r)
  <2> DEFINE s == t[r.prefix]
             K == {k \in DOMAIN s : SameRoute(s[k], r)}
             f == FirstSame(s, r)
             First(k) == SameRoute(s[k], r) /\ \A j \in 1 .. (k - 1) : ~ SameRoute(s[j], r)
  <2>1. s \in Seq(S)
    BY DEF Table
  <2>2. \E k \in DOMAIN s : SameRoute(s[k], r)
    BY <1>2 DEF HoldsRoute
  <2> HIDE DEF s
  <2>3. DOMAIN s = 1 .. Len(s) /\ Len(s) \in Nat
    BY <2>1
  <2>4. PICK k \in K : \A j \in K : k <= j
    <3>1. K \in SUBSET Nat /\ K # {}
      BY <2>2, <2>3
    <3> HIDE DEF K
    <3> QED
      BY <3>1, HasLeast
  <2>5. k \in DOMAIN s /\ First(k)
    <3>1. ASSUME NEW j \in 1 .. (k - 1), SameRoute(s[j], r) PROVE FALSE
      BY <3>1, <2>3, <2>4
    <3> QED
      BY <3>1, <2>4
  <2>6. f \in 1 .. Len(s)
    <3>1. f = CHOOSE i \in DOMAIN s : First(i)
      BY DEF FirstSame
    <3> QED
      BY <2>3, <2>5, <3>1
  <2> HIDE DEF f
  <2>7. SE!RemoveAt(s, f) \in Seq(S)
    <3>1. SubSeq(s, 1, f - 1) \in Seq(S) /\ SubSeq(s, f + 1, Len(s)) \in Seq(S)
      BY <2>1, <2>3, <2>6, SubSeqProperties
    <3>2. SE!RemoveAt(s, f) = SubSeq(s, 1, f - 1) \o SubSeq(s, f + 1, Len(s))
      BY DEF SE!RemoveAt
    <3> QED
      BY <3>1, <3>2, ConcatProperties
  <2>8. Deleted(t, r) = [t EXCEPT ![r.prefix] = SE!RemoveAt(s, f)]
    BY <1>2 DEF Deleted, s, f
  <2> QED
    BY <2>7, <2>8 DEF Table
<1> QED
  BY <1>1, <1>2

-----------------------------------------------------------------------------
(* A chain of n tables, as ChainMap takes them.                            *)
Chain(n, S) == [1 .. n -> Table(Prefixes, S)]

(* ChainGet finds the first table that has the prefix.                     *)
FirstTable(chain, n, p, k) ==
  /\ k \in 1 .. n /\ HasPrefix(chain[k], p)
  /\ \A j \in 1 .. (k - 1) : ~ HasPrefix(chain[j], p)

LEMMA ChainGetIs ==
  ASSUME NEW n \in Nat, NEW S, NEW chain \in Chain(n, S), NEW p, NEW k, FirstTable(chain, n, p, k)
  PROVE  ChainGet(chain, p) = chain[k][p]
<1> DEFINE C(i) == HasPrefix(chain[i], p) /\ \A j \in 1 .. (i - 1) : ~ HasPrefix(chain[j], p)
<1>1. DOMAIN chain = 1 .. n
  BY DEF Chain
<1>2. k \in DOMAIN chain /\ C(k)
  BY <1>1 DEF FirstTable
<1>3. ASSUME NEW i \in DOMAIN chain, C(i) PROVE i = k
  <2>1. k \in 1 .. n /\ i \in 1 .. n /\ ~ (i \in 1 .. (k - 1)) /\ ~ (k \in 1 .. (i - 1))
    BY <1>1, <1>3 DEF FirstTable
  <2> QED
    BY <2>1
<1>4. (CHOOSE i \in DOMAIN chain : C(i)) = k
  <2> HIDE DEF C
  <2> QED
    BY <1>2, <1>3
<1> QED
  BY <1>4 DEF ChainGet

LEMMA ChainHas ==
  ASSUME NEW n \in Nat, NEW S, NEW chain \in Chain(n, S), NEW p
  PROVE  p \in ChainPrefixes(chain) <=> p \in Prefixes /\ \E k \in 1 .. n : FirstTable(chain, n, p, k)
<1>1. DOMAIN chain = 1 .. n /\ \A k \in 1 .. n : DOMAIN chain[k] = Prefixes
  BY DEF Chain, Table
<1>2. p \in ChainPrefixes(chain) <=> p \in Prefixes /\ \E k \in 1 .. n : HasPrefix(chain[k], p)
  BY <1>1 DEF ChainPrefixes
<1>3. ASSUME NEW k \in 1 .. n, HasPrefix(chain[k], p)
      PROVE  \E j \in 1 .. n : FirstTable(chain, n, p, j)
  <2> DEFINE K == {i \in 1 .. n : HasPrefix(chain[i], p)}
  <2>1. K \in SUBSET Nat /\ K # {}
    BY <1>3
  <2>2. PICK i \in K : \A j \in K : i <= j
    <3> HIDE DEF K
    <3> QED
      BY <2>1, HasLeast
  <2>3. ASSUME NEW j \in 1 .. (i - 1) PROVE ~ HasPrefix(chain[j], p)
    <3>1. j \in 1 .. n /\ ~ (i <= j)
      BY <2>2
    <3> QED
      BY <3>1, <2>2
  <2> QED
    BY <2>2, <2>3 DEF FirstTable
<1> QED
  BY <1>2, <1>3 DEF FirstTable

(* Of the prefixes that hold an address there is one that comes first: the *)
(* greatest network address, and of these the smallest block.              *)
LEMMA FirstMatchIs ==
  ASSUME NEW x \in Nat, NEW P \in SUBSET Prefixes, P # {}, \A p \in P : Covers(p, x)
  PROVE  FirstMatch(P) \in P /\ \A q \in P : FirstMatch(P) = q \/ Before(FirstMatch(P), q)
<1> DEFINE A == {x - p.net : p \in P}
<1>1. \A p \in P : p.net \in Nat /\ p.size \in Nat /\ x - p.net \in Nat
  BY PrefixesAssumption DEF Covers
<1>2. A \in SUBSET Nat /\ A # {}
  BY <1>1
<1>3. PICK a \in A : \A b \in A : a <= b
  <2> HIDE DEF A
  <2> QED
    BY <1>2, HasLeast
<1>4. PICK p \in P : a = x - p.net
  BY <1>3
<1>5. ASSUME NEW q \in P PROVE q.net <= p.net
  <2>1. x - p.net <= x - q.net
    BY <1>3, <1>4
  <2> QED
    BY <2>1, <1>1
<1> DEFINE B == {q.size : q \in {q \in P : q.net = p.net}}
<1>6. B \in SUBSET Nat /\ B # {}
  BY <1>1
<1>7. PICK b \in B : \A c \in B : b <= c
  <2> HIDE DEF B
  <2> QED
    BY <1>6, HasLeast
<1>8. PICK r \in P : r.net = p.net /\ b = r.size
  BY <1>7
<1>9. ASSUME NEW q \in P PROVE r = q \/ Before(r, q)
  <2>1. CASE q.net < p.net
    BY <2>1, <1>8, <1>1 DEF Before
  <2>2. CASE q.net = p.net
    <3>1. r.size <= q.size
      BY <2>2, <1>7, <1>8
    <3>2. r = [net |-> r.net, size |-> r.size] /\ q = [net |-> q.net, size |-> q.size]
      BY PrefixesAssumption
    <3> QED
      BY <3>1, <3>2, <2>2, <1>8, <1>1 DEF Before
  <2> QED
    BY <2>1, <2>2, <1>5, <1>1
<1> QED
  BY <1>9 DEF FirstMatch

(* A lookup finds the first route of a table of the chain.                 *)
LEMMA LookupFinds ==
  ASSUME NEW n \in Nat, NEW S, NEW chain \in Chain(n, S), NEW x \in Nat, Matches(chain, x) # {}
  PROVE  \E k \in 1 .. n, p \in Prefixes :
           /\ HasPrefix(chain[k], p)
           /\ LookupIp(chain, x) = chain[k][p][1] /\ chain[k][p][1] \in S
<1> DEFINE p == FirstMatch(Matches(chain, x))
<1>1. \A q \in Matches(chain, x) : Covers(q, x) /\ q \in ChainPrefixes(chain)
  BY DEF Matches
<1>2. Matches(chain, x) \subseteq Prefixes
  BY <1>1, ChainHas
<1>3. p \in Matches(chain, x)
  BY <1>1, <1>2, FirstMatchIs
<1>4. PICK k \in 1 .. n : FirstTable(chain, n, p, k)
  BY <1>1, <1>3, ChainHas
<1>5. p \in Prefixes /\ HasPrefix(chain[k], p)
  BY <1>2, <1>3, <1>4 DEF FirstTable
<1>6. LookupIp(chain, x) = chain[k][p][1]
  BY <1>4, ChainGetIs DEF LookupIp
<1>7. chain[k][p] \in Seq(S) /\ chain[k][p] # << >>
  BY <1>5 DEF Chain, Table, HasPrefix
<1>8. chain[k][p][1] \in S
  BY <1>7
<1> QED
  BY <1>5, <1>6, <1>8

-----------------------------------------------------------------------------
IgpRoutes == Directs \cup StaticRoutes \cup UNION IsisTables
Hops      == IgpRoutes \cup LspRoutes

LEMMA RouteFields ==
  /\ \A r \in Hops \cup BgpRoutes :
       /\ r.interface \in Interfaces \cup {None} /\ r.next \in Nat \cup {None}
       /\ r.lsp \in Lsps \cup {None} /\ r.metric \in Nat /\ r.prefix \in Prefixes
       /\ r.lsp # None => r \in LspRoutes
  /\ \A r \in IgpRoutes : r.type # "BGP" /\ r.lsp = None
  /\ \A r \in BgpRoutes : r.type = "BGP" /\ r.next \in Nat
  /\ \A r \in LabelRoutes :
       r.interface \in Interfaces \cup {None} /\ r.lsp \in Lsps /\ r.prefix \in Labels
<1>1. ASSUME NEW r \in Directs
      PROVE  /\ r.interface \in Interfaces /\ r.next = None /\ r.lsp = None /\ r.metric = 1
             /\ r.prefix \in Prefixes /\ r.type # "BGP"
  BY RouterAssumption DEF Directs, ConnectedRoute, LocalRoute, RouteOf
<1>2. ASSUME NEW r \in StaticRoutes \cup BgpRoutes \cup UNION IsisTables
      PROVE  /\ r.interface \in Interfaces \cup {None} /\ r.next \in Nat \cup {None} /\ r.lsp = None
             /\ r.metric \in Nat /\ r.prefix \in Prefixes
             /\ r \in BgpRoutes => r.type = "BGP" /\ r.next \in Nat
             /\ r \in StaticRoutes \cup UNION IsisTables => r.type # "BGP"
  <2>1. CASE r \in StaticRoutes
    <3>1. r \in RoutesWith(Prefixes, "STATIC", Nat \cup {None}, {None})
      BY <2>1, RoutesAssumption
    <3>2. r.type = "STATIC"
      BY <3>1 DEF RoutesWith
    <3>3. r \notin BgpRoutes
      BY <3>2, RoutesAssumption DEF RoutesWith
    <3> QED
      BY <3>1, <3>2, <3>3 DEF RoutesWith
  <2>2. CASE r \in BgpRoutes
    <3>1. r \in RoutesWith(Prefixes, "BGP", Nat, {None})
      BY <2>2, RoutesAssumption
    <3>2. r.type = "BGP"
      BY <3>1 DEF RoutesWith
    <3>3. r \notin StaticRoutes \cup UNION IsisTables
      BY <3>2, RoutesAssumption DEF RoutesWith
    <3> QED
      BY <3>1, <3>2, <3>3 DEF RoutesWith
  <2>3. CASE r \in UNION IsisTables
    <3>1. r \in RoutesWith(Prefixes, "ISIS", Nat \cup {None}, {None})
      BY <2>3, RoutesAssumption
    <3>2. r.type = "ISIS"
      BY <3>1 DEF RoutesWith
    <3>3. r \notin BgpRoutes
      BY <3>2, RoutesAssumption DEF RoutesWith
    <3> QED
      BY <3>1, <3>2, <3>3 DEF RoutesWith
  <2> QED
    BY <2>1, <2>2, <2>3
<1>3. ASSUME NEW r \in LspRoutes
      PROVE  /\ r.interface \in Interfaces \cup {None} /\ r.next \in Nat \cup {None} /\ r.lsp \in Lsps
             /\ r.metric \in Nat /\ r.prefix \in Prefixes
  BY RoutesAssumption DEF RoutesWith
<1>4. ASSUME NEW r \in LabelRoutes
      PROVE  r.interface \in Interfaces \cup {None} /\ r.lsp \in Lsps /\ r.prefix \in Labels
  BY RoutesAssumption DEF RoutesWith
<1> QED
  BY <1>1, <1>2, <1>3, <1>4 DEF Hops, IgpRoutes

LEMMA ChainsTyped ==
  ASSUME NEW t, TablesTyped(t)
  PROVE  /\ Inet(t) \in Chain(4, IgpRoutes \cup BgpRoutes)
         /\ Recursive(t) \in Chain(4, Hops)
<1> DEFINE S == IgpRoutes \cup BgpRoutes
<1>1. ASSUME NEW A, NEW B, A \subseteq B PROVE Table(Prefixes, A) \subseteq Table(Prefixes, B)
  <2>1. Seq(A) \subseteq Seq(B)
    BY <1>1, SeqMonotonic
  <2> QED
    BY <2>1 DEF Table
<1>2. /\ Directs \subseteq S /\ StaticRoutes \subseteq S /\ UNION IsisTables \subseteq S /\ BgpRoutes \subseteq S
      /\ Directs \subseteq Hops /\ StaticRoutes \subseteq Hops /\ UNION IsisTables \subseteq Hops /\ LspRoutes \subseteq Hops
  BY DEF IgpRoutes, Hops
<1> HIDE DEF S
<1>3. /\ t.direct \in Table(Prefixes, S) /\ t.static \in Table(Prefixes, S)
      /\ t.isis \in Table(Prefixes, S) /\ t.bgp \in Table(Prefixes, S)
      /\ t.direct \in Table(Prefixes, Hops) /\ t.static \in Table(Prefixes, Hops)
      /\ t.isis \in Table(Prefixes, Hops) /\ t.rsvp \in Table(Prefixes, Hops)
  <2> HIDE DEF Hops
  <2>1. /\ t.direct \in Table(Prefixes, Directs) /\ t.static \in Table(Prefixes, StaticRoutes)
        /\ t.isis \in Table(Prefixes, UNION IsisTables) /\ t.bgp \in Table(Prefixes, BgpRoutes)
        /\ t.rsvp \in Table(Prefixes, LspRoutes)
    BY DEF TablesTyped
  <2> QED
    BY <2>1, <1>1, <1>2
<1> HIDE DEF Hops, Table
<1>4. Inet(t) \in Chain(4, S)
  BY <1>3 DEF Inet, Chain
<1>5. Recursive(t) \in Chain(4, Hops)
  BY <1>3 DEF Recursive, Chain
<1> QED
  BY <1>4, <1>5 DEF S

(* The route to a protocol next hop, if there is one.                      *)
LEMMA ResolvedIs ==
  ASSUME NEW t, TablesTyped(t), NEW r, r.next \in Nat, Resolves(t, r)
  PROVE  /\ Resolved(t, r) \in Hops
         /\ \E T \in {t.rsvp, t.direct, t.static, t.isis}, p \in Prefixes :
              HasPrefix(T, p) /\ Resolved(t, r) = T[p][1]
<1>1. Recursive(t) \in Chain(4, Hops)
  BY ChainsTyped
<1>2. PICK k \in 1 .. 4, p \in Prefixes :
        /\ HasPrefix(Recursive(t)[k], p)
        /\ LookupIp(Recursive(t), r.next) = Recursive(t)[k][p][1] /\ Recursive(t)[k][p][1] \in Hops
  <2>1. 4 \in Nat /\ Matches(Recursive(t), r.next) # {}
    BY DEF Resolves
  <2> QED
    BY <1>1, <2>1, LookupFinds
<1>3. Recursive(t)[k] \in {t.rsvp, t.direct, t.static, t.isis}
  BY DEF Recursive
<1> QED
  BY <1>2, <1>3 DEF Resolved

-----------------------------------------------------------------------------
(* The routes a prefix is shown with come from the first table of the      *)
(* chain that has it.                                                      *)
LEMMA ShownRoutes ==
  ASSUME NEW t, TablesTyped(t), NEW p \in ChainPrefixes(Inet(t))
  PROVE  /\ p \in Prefixes
         /\ ChainGet(Inet(t), p) # << >>
         /\ \/ ChainGet(Inet(t), p) \in Seq(IgpRoutes)
            \/ ChainGet(Inet(t), p) = t.bgp[p] /\ t.bgp[p] \in Seq(BgpRoutes)
<1> DEFINE s == ChainGet(Inet(t), p)
<1>1. Inet(t) \in Chain(4, IgpRoutes \cup BgpRoutes)
  BY ChainsTyped
<1>2. p \in Prefixes /\ \E k \in 1 .. 4 : FirstTable(Inet(t), 4, p, k)
  BY <1>1, ChainHas, 4 \in Nat
<1>3. PICK k \in 1 .. 4 : FirstTable(Inet(t), 4, p, k)
  BY <1>2
<1>4. s = Inet(t)[k][p]
  BY <1>1, <1>3, ChainGetIs, 4 \in Nat
<1>5. s # << >>
  BY <1>3, <1>4 DEF FirstTable, HasPrefix
<1> HIDE DEF s
<1>6. /\ Seq(Directs) \subseteq Seq(IgpRoutes) /\ Seq(StaticRoutes) \subseteq Seq(IgpRoutes)
      /\ Seq(UNION IsisTables) \subseteq Seq(IgpRoutes)
  BY SeqMonotonic DEF IgpRoutes
<1>7. /\ t.direct[p] \in Seq(Directs) /\ t.static[p] \in Seq(StaticRoutes)
      /\ t.isis[p] \in Seq(UNION IsisTables) /\ t.bgp[p] \in Seq(BgpRoutes)
  BY <1>2 DEF TablesTyped, Table
<1>8. s \in {t.direct[p], t.static[p], t.isis[p]} \/ s = t.bgp[p]
  BY <1>4 DEF Inet
<1>9. \/ s \in Seq(IgpRoutes)
      \/ s = t.bgp[p] /\ t.bgp[p] \in Seq(BgpRoutes)
  BY <1>6, <1>7, <1>8
<1> QED
  BY <1>2, <1>5, <1>9 DEF s

(* A route that is not of BGP applies whatever the interfaces are.         *)
LEMMA IgpShown ==
  ASSUME NEW t, NEW u, NEW by, NEW p, ChainGet(Inet(t), p) \in Seq(IgpRoutes),
         ChainGet(Inet(t), p) # << >>
  PROVE  /\ Shown(u, t, by, p)
         /\ EntryFor(u, t, by, p) = AppliedEntry(t, ChainGet(Inet(t), p)[1])
         /\ ChainGet(Inet(t), p)[1] \in IgpRoutes
<1> DEFINE s == ChainGet(Inet(t), p)
           K == {k \in DOMAIN s : Applies(u, t, s[k])}
<1>1. 1 \in DOMAIN s /\ s[1] \in IgpRoutes /\ DOMAIN s = 1 .. Len(s) /\ Len(s) \in Nat
  OBVIOUS
<1>2. Applies(u, t, s[1])
  BY <1>1, RouteFields DEF Applies
<1> HIDE DEF s
<1>3. 1 \in K /\ K \in SUBSET (1 .. Len(s))
  BY <1>1, <1>2
<1>4. FX!Min(K) = 1
  <2> HIDE DEF K
  <2>1. FX!Min(K) \in K /\ FX!Min(K) <= 1
    BY <1>1, <1>3, LeastOf
  <2>2. FX!Min(K) \in 1 .. Len(s)
    BY <1>3, <2>1
  <2> QED
    BY <2>1, <2>2
<1>5. EntryFor(u, t, by, p) = AppliedEntry(t, s[FX!Min(K)])
  BY <1>3 DEF EntryFor, s
<1>6. Shown(u, t, by, p)
  BY <1>1, <1>2 DEF Shown, s
<1> QED
  BY <1>1, <1>4, <1>5, <1>6 DEF s

(* Otherwise the entry is of a route that applies or of one that diverts.  *)
LEMMA EntryIs ==
  ASSUME NEW t, TablesTyped(t), NEW u, NEW by, NEW p \in ChainPrefixes(Inet(t)), Shown(u, t, by, p)
  PROVE  \E k \in DOMAIN ChainGet(Inet(t), p) :
           LET r == ChainGet(Inet(t), p)[k]
           IN  \/ Applies(u, t, r) /\ EntryFor(u, t, by, p) = AppliedEntry(t, r)
               \/ Diverts(u, t, by, r) /\ EntryFor(u, t, by, p) = DivertedEntry(t, by, r)
<1> DEFINE s == ChainGet(Inet(t), p)
           A == {k \in DOMAIN s : Applies(u, t, s[k])}
           D == {k \in DOMAIN s : Diverts(u, t, by, s[k])}
<1>1. DOMAIN s = 1 .. Len(s) /\ Len(s) \in Nat
  BY ShownRoutes
<1>2. EntryFor(u, t, by, p) =
        IF A # {} THEN AppliedEntry(t, s[FX!Min(A)]) ELSE DivertedEntry(t, by, s[FX!Max(D)])
  BY DEF EntryFor
<1>3. A # {} \/ D # {}
  BY DEF Shown
<1> HIDE DEF s
<1>4. A \in SUBSET (1 .. Len(s)) /\ D \in SUBSET (1 .. Len(s))
  BY <1>1
<1>5. CASE A # {}
  <2>1. FX!Min(A) \in A
    <3> HIDE DEF A
    <3> QED
      BY <1>1, <1>4, <1>5, LeastOf
  <2> QED
    BY <2>1, <1>2, <1>5 DEF s
<1>6. CASE A = {}
  <2>1. FX!Max(D) \in D
    <3> HIDE DEF D
    <3> QED
      BY <1>1, <1>3, <1>4, <1>6, GreatestOf
  <2> QED
    BY <2>1, <1>2, <1>6 DEF s
<1> QED
  BY <1>5, <1>6

LEMMA ForwardingTableTyped ==
  ASSUME NEW t, TablesTyped(t), NEW u, NEW by, BypassTyped(by)
  PROVE  FibTyped(ForwardingTable(u, t, by))
<1> DEFINE Names == {b.name : b \in Bypasses}
           Tags == Lsps \cup Names
<1>1. ASSUME NEW n, n \in Lsps \cup {None} PROVE Push(n) \in Seq(Tags)
  <2>1. n # None => n \in Tags
    BY <1>1
  <2> HIDE DEF Tags
  <2> QED
    BY <2>1 DEF Push
<1>2. ASSUME NEW i \in Interfaces \cup {None}, NEW a \in {"CONTROL", "FORWARD", "REJECT"},
             NEW q \in Seq(Tags), NEW nh \in Nat \cup {None}
      PROVE  Entry(i, a, q, nh) \in EntrySet
  BY DEF Entry, EntrySet
<1>3. << >> \in Seq(Tags)
  OBVIOUS
<1>4. ASSUME NEW r, r.lsp # None, r.lsp \in Lsps, BypassOf(by, r) # None
      PROVE  /\ by[r.lsp].interface \in Interfaces /\ by[r.lsp].interface \in Interfaces \cup {None}
             /\ <<r.lsp, by[r.lsp].name>> \in Seq(Tags)
  <2>1. by[r.lsp] \in Bypasses
    BY <1>4 DEF BypassOf, BypassTyped
  <2>2. by[r.lsp].interface \in Interfaces
    BY <2>1, RoutesAssumption
  <2>3. r.lsp \in Tags /\ by[r.lsp].name \in Tags
    BY <2>1, <1>4
  <2> HIDE DEF Tags
  <2> QED
    BY <2>2, <2>3
<1> HIDE DEF Tags
<1>5. ASSUME NEW p \in ChainPrefixes(Inet(t)), Shown(u, t, by, p)
      PROVE  EntryFor(u, t, by, p) \in EntrySet
  <2> DEFINE s == ChainGet(Inet(t), p)
  <2>1. PICK k \in DOMAIN s :
          \/ Applies(u, t, s[k]) /\ EntryFor(u, t, by, p) = AppliedEntry(t, s[k])
          \/ Diverts(u, t, by, s[k]) /\ EntryFor(u, t, by, p) = DivertedEntry(t, by, s[k])
    BY <1>5, EntryIs
  <2> DEFINE r == s[k]
  <2>2. r \in IgpRoutes \cup BgpRoutes
    BY ShownRoutes
  <2> HIDE DEF r, s
  <2>3. /\ r.interface \in Interfaces \cup {None} /\ r.next \in Nat \cup {None}
        /\ r.type = "BGP" => r.next \in Nat
    BY <2>2, RouteFields DEF Hops
  <2>4. ASSUME r.type = "BGP", Resolves(t, r)
        PROVE  LET q == Resolved(t, r)
               IN  /\ q.interface \in Interfaces \cup {None} /\ q.next \in Nat \cup {None}
                   /\ q.lsp \in Lsps \cup {None}
    BY <2>3, <2>4, ResolvedIs, RouteFields
  <2>5. CASE Applies(u, t, r) /\ EntryFor(u, t, by, p) = AppliedEntry(t, r)
    <3>1. CASE r.type = "LOCAL"
      BY <2>3, <2>5, <3>1, <1>2, <1>3 DEF AppliedEntry
    <3>2. CASE r.type = "BGP"
      <4>1. Resolves(t, r)
        BY <2>5, <3>2 DEF Applies
      <4>2. AppliedEntry(t, r) = Entry(Resolved(t, r).interface, "FORWARD", Push(Resolved(t, r).lsp), Resolved(t, r).next)
        BY <3>2 DEF AppliedEntry
      <4> QED
        BY <4>1, <4>2, <2>4, <2>5, <3>2, <1>1, <1>2
    <3>3. CASE r.type \notin {"LOCAL", "BGP"}
      BY <2>3, <2>5, <3>3, <1>2, <1>3 DEF AppliedEntry
    <3> QED
      BY <3>1, <3>2, <3>3
  <2>6. CASE Diverts(u, t, by, r) /\ EntryFor(u, t, by, p) = DivertedEntry(t, by, r)
    <3> DEFINE q == Resolved(t, r)
    <3>1. q.lsp # None /\ q.lsp \in Lsps /\ BypassOf(by, q) # None
      BY <2>4, <2>6 DEF Diverts, BypassOf
    <3> HIDE DEF q
    <3>2. EntryFor(u, t, by, p) = Entry(by[q.lsp].interface, "FORWARD", <<q.lsp, by[q.lsp].name>>, None)
      BY <2>6 DEF DivertedEntry, q
    <3> QED
      BY <3>1, <3>2, <1>2, <1>4
  <2> QED
    BY <2>1, <2>5, <2>6 DEF r
<1>6. ASSUME NEW l \in Labels, t.mpls[l] # << >>
      PROVE  LabelEntry(u, by, t.mpls[l][1]) \in EntrySet
  <2> DEFINE r == t.mpls[l][1]
  <2>1. t.mpls[l] \in Seq(LabelRoutes)
    BY DEF TablesTyped, Table
  <2>2. r \in LabelRoutes
    BY <1>6, <2>1
  <2> HIDE DEF r
  <2>3. r.interface \in Interfaces \cup {None} /\ r.lsp \in Lsps
    BY <2>2, RouteFields
  <2>4. CASE r.interface \notin u /\ BypassOf(by, r) # None
    <3>1. r.lsp # None
      BY <2>4 DEF BypassOf
    <3>2. LabelEntry(u, by, r) = Entry(by[r.lsp].interface, "FORWARD", <<r.lsp, by[r.lsp].name>>, None)
      BY <2>4 DEF LabelEntry
    <3> QED
      BY <3>1, <3>2, <2>3, <2>4, <1>2, <1>4 DEF r
  <2>5. CASE ~ (r.interface \notin u /\ BypassOf(by, r) # None)
    <3>1. LabelEntry(u, by, r) = Entry(r.interface, "FORWARD", Push(r.lsp), None)
      BY <2>5 DEF LabelEntry
    <3> QED
      BY <3>1, <2>3, <1>1, <1>2 DEF r
  <2> QED
    BY <2>4, <2>5
<1>7. Reject \in EntrySet
  BY <1>2, <1>3 DEF Reject
<1>8. \A p \in ChainPrefixes(Inet(t)) : p \in Prefixes
  BY ShownRoutes
<1> QED
  BY <1>5, <1>6, <1>7, <1>8, RouterAssumption DEF FibTyped, ForwardingTable, IpFib, LabelFib

-----------------------------------------------------------------------------
(* Two lists of routes with the same first route.                          *)
Alike(s, z) == (s = << >> <=> z = << >>) /\ (s # << >> => s[1] = z[1])

AlikeTables(t, v) == \A p \in Prefixes : Alike(t[p], v[p])

LEMMA AlikeLookups ==
  ASSUME NEW n \in Nat, NEW S, NEW chain \in Chain(n, S), NEW other \in Chain(n, S),
         \A k \in 1 .. n : AlikeTables(chain[k], other[k])
  PROVE  /\ \A p \in Prefixes : \A k : FirstTable(chain, n, p, k) <=> FirstTable(other, n, p, k)
         /\ ChainPrefixes(chain) = ChainPrefixes(other)
         /\ \A x \in Nat : /\ Matches(chain, x) = Matches(other, x)
                           /\ Matches(chain, x) # {} => LookupIp(chain, x) = LookupIp(other, x)
<1>1. ASSUME NEW p \in Prefixes, NEW k PROVE FirstTable(chain, n, p, k) <=> FirstTable(other, n, p, k)
  BY DEF FirstTable, HasPrefix, AlikeTables, Alike
<1>2. ChainPrefixes(chain) = ChainPrefixes(other)
  <2>1. \A p : p \in ChainPrefixes(chain) <=> p \in ChainPrefixes(other)
    BY <1>1, ChainHas
  <2>2. /\ \A p \in ChainPrefixes(chain) : p \in Prefixes
        /\ \A p \in ChainPrefixes(other) : p \in Prefixes
    BY ChainHas
  <2> QED
    BY <2>1, <2>2
<1>3. ASSUME NEW x \in Nat
      PROVE  /\ Matches(chain, x) = Matches(other, x)
             /\ Matches(chain, x) # {} => LookupIp(chain, x) = LookupIp(other, x)
  <2>1. Matches(chain, x) = Matches(other, x)
    BY <1>2 DEF Matches
  <2>2. ASSUME Matches(chain, x) # {} PROVE LookupIp(chain, x) = LookupIp(other, x)
    <3> DEFINE p == FirstMatch(Matches(chain, x))
    <3>1. Matches(chain, x) \subseteq Prefixes /\ \A q \in Matches(chain, x) : Covers(q, x)
      BY ChainHas DEF Matches
    <3>2. p \in Matches(chain, x)
      BY <2>2, <3>1, FirstMatchIs
    <3>3. p \in Prefixes /\ p \in ChainPrefixes(chain)
      BY <3>1, <3>2 DEF Matches
    <3>4. LookupIp(chain, x) = ChainGet(chain, p)[1] /\ LookupIp(other, x) = ChainGet(other, p)[1]
      BY <2>1 DEF LookupIp
    <3> HIDE DEF p
    <3>5. PICK k \in 1 .. n : FirstTable(chain, n, p, k)
      BY <3>3, ChainHas
    <3>6. FirstTable(other, n, p, k)
      BY <1>1, <3>3, <3>5
    <3>7. ChainGet(chain, p) = chain[k][p] /\ ChainGet(other, p) = other[k][p]
      BY <3>5, <3>6, ChainGetIs
    <3>8. Alike(chain[k][p], other[k][p]) /\ chain[k][p] # << >>
      BY <3>3, <3>5 DEF FirstTable, HasPrefix, AlikeTables
    <3> QED
      BY <3>4, <3>7, <3>8 DEF Alike
  <2> QED
    BY <2>1, <2>2
<1> QED
  BY <1>1, <1>2, <1>3

(* The forwarding table does not show a route behind the first of its      *)
(* prefix, except among those of BGP.                                      *)
LEMMA SameForwarding ==
  ASSUME NEW t, TablesTyped(t), NEW v, TablesTyped(v), NEW u, NEW by,
         AlikeTables(t.direct, v.direct), AlikeTables(t.static, v.static),
         AlikeTables(t.isis, v.isis), AlikeTables(t.rsvp, v.rsvp),
         t.bgp = v.bgp, t.mpls = v.mpls
  PROVE  ForwardingTable(u, t, by) = ForwardingTable(u, v, by)
<1>1. /\ Inet(t) \in Chain(4, IgpRoutes \cup BgpRoutes) /\ Recursive(t) \in Chain(4, Hops)
      /\ Inet(v) \in Chain(4, IgpRoutes \cup BgpRoutes) /\ Recursive(v) \in Chain(4, Hops)
  BY ChainsTyped
<1>2. /\ \A k \in 1 .. 4 : AlikeTables(Inet(t)[k], Inet(v)[k])
      /\ \A k \in 1 .. 4 : AlikeTables(Recursive(t)[k], Recursive(v)[k])
  <2>1. AlikeTables(t.bgp, v.bgp)
    BY DEF AlikeTables, Alike
  <2> QED
    BY <2>1 DEF Inet, Recursive
<1>3. /\ ChainPrefixes(Inet(t)) = ChainPrefixes(Inet(v))
      /\ \A p \in Prefixes : \A k : FirstTable(Inet(t), 4, p, k) <=> FirstTable(Inet(v), 4, p, k)
  BY <1>1, <1>2, AlikeLookups, 4 \in Nat
<1>4. ASSUME NEW r, r.next \in Nat
      PROVE  /\ Resolves(t, r) <=> Resolves(v, r)
             /\ Resolves(t, r) => Resolved(t, r) = Resolved(v, r)
  <2>1. /\ Matches(Recursive(t), r.next) = Matches(Recursive(v), r.next)
        /\ Matches(Recursive(t), r.next) # {} =>
             LookupIp(Recursive(t), r.next) = LookupIp(Recursive(v), r.next)
    BY <1>1, <1>2, <1>4, AlikeLookups, 4 \in Nat
  <2> QED
    BY <2>1 DEF Resolves, Resolved
<1>5. ASSUME NEW r \in BgpRoutes
      PROVE  /\ Applies(u, t, r) <=> Applies(u, v, r)
             /\ Diverts(u, t, by, r) <=> Diverts(u, v, by, r)
             /\ Applies(u, t, r) => AppliedEntry(t, r) = AppliedEntry(v, r)
             /\ Diverts(u, t, by, r) => DivertedEntry(t, by, r) = DivertedEntry(v, by, r)
  <2>1. r.next \in Nat /\ r.type = "BGP"
    BY RouteFields
  <2>2. /\ Resolves(t, r) <=> Resolves(v, r)
        /\ Resolves(t, r) => Resolved(t, r) = Resolved(v, r)
    BY <1>4, <2>1
  <2>3. /\ Applies(u, t, r) <=> Applies(u, v, r)
        /\ Applies(u, t, r) => Resolves(t, r)
    BY <2>1, <2>2 DEF Applies
  <2>4. /\ Diverts(u, t, by, r) <=> Diverts(u, v, by, r)
        /\ Diverts(u, t, by, r) => Resolves(t, r)
    BY <2>2 DEF Diverts
  <2>5. Resolves(t, r) => AppliedEntry(t, r) = AppliedEntry(v, r)
    BY <2>1, <2>2 DEF AppliedEntry
  <2>6. Resolves(t, r) => DivertedEntry(t, by, r) = DivertedEntry(v, by, r)
    BY <2>2 DEF DivertedEntry
  <2> QED
    BY <2>3, <2>4, <2>5, <2>6
<1>6. ASSUME NEW p \in ChainPrefixes(Inet(t))
      PROVE  /\ Shown(u, t, by, p) <=> Shown(u, v, by, p)
             /\ Shown(u, t, by, p) => EntryFor(u, t, by, p) = EntryFor(u, v, by, p)
  <2> DEFINE s == ChainGet(Inet(t), p)
             z == ChainGet(Inet(v), p)
  <2>1. p \in Prefixes /\ \E k \in 1 .. 4 : FirstTable(Inet(t), 4, p, k)
    BY <1>1, ChainHas, 4 \in Nat
  <2>2. PICK k \in 1 .. 4 : FirstTable(Inet(t), 4, p, k) /\ FirstTable(Inet(v), 4, p, k)
    BY <2>1, <1>3
  <2>3. s = Inet(t)[k][p] /\ z = Inet(v)[k][p]
    BY <2>2, <1>1, ChainGetIs, 4 \in Nat
  <2>4. s # << >> /\ z # << >> /\ s[1] = z[1]
    BY <2>1, <2>2, <2>3, <1>2 DEF FirstTable, HasPrefix, AlikeTables, Alike
  <2>5. CASE k = 4
    <3>1. s = t.bgp[p] /\ z = s
      BY <2>3, <2>5 DEF Inet
    <3>2. s \in Seq(BgpRoutes)
      BY <2>1, <3>1 DEF TablesTyped, Table
    <3>3. \A j \in DOMAIN s : s[j] \in BgpRoutes
      BY <3>2
    <3>4. Shown(u, t, by, p) <=> Shown(u, v, by, p)
      BY <3>1, <3>3, <1>5 DEF Shown
    <3> DEFINE A == {j \in DOMAIN s : Applies(u, t, s[j])}
               D == {j \in DOMAIN s : Diverts(u, t, by, s[j])}
    <3>5. A = {j \in DOMAIN s : Applies(u, v, s[j])} /\ D = {j \in DOMAIN s : Diverts(u, v, by, s[j])}
      BY <3>3, <1>5
    <3>6. /\ EntryFor(u, t, by, p) =
               IF A # {} THEN AppliedEntry(t, s[FX!Min(A)]) ELSE DivertedEntry(t, by, s[FX!Max(D)])
          /\ EntryFor(u, v, by, p) =
               IF A # {} THEN AppliedEntry(v, s[FX!Min(A)]) ELSE DivertedEntry(v, by, s[FX!Max(D)])
      BY <3>1, <3>5 DEF EntryFor
    <3>7. Shown(u, t, by, p) => A # {} \/ D # {}
      BY DEF Shown
    <3>8. DOMAIN s = 1 .. Len(s) /\ Len(s) \in Nat
      BY <3>2
    <3> HIDE DEF s
    <3>9. A \in SUBSET (1 .. Len(s)) /\ D \in SUBSET (1 .. Len(s))
      BY <3>8
    <3>10. A # {} => AppliedEntry(t, s[FX!Min(A)]) = AppliedEntry(v, s[FX!Min(A)])
      <4>1. A # {} => FX!Min(A) \in A
        <5> HIDE DEF A
        <5> QED
          BY <3>8, <3>9, LeastOf
      <4> QED
        BY <4>1, <3>3, <1>5
    <3>11. D # {} => DivertedEntry(t, by, s[FX!Max(D)]) = DivertedEntry(v, by, s[FX!Max(D)])
      <4>1. D # {} => FX!Max(D) \in D
        <5> HIDE DEF D
        <5> QED
          BY <3>8, <3>9, GreatestOf
      <4> QED
        BY <4>1, <3>3, <1>5
    <3> HIDE DEF A, D
    <3> QED
      BY <3>4, <3>6, <3>7, <3>10, <3>11
  <2>6. CASE k # 4
    <3>1. s \in Seq(IgpRoutes) /\ z \in Seq(IgpRoutes)
      <4>1. /\ Seq(Directs) \subseteq Seq(IgpRoutes) /\ Seq(StaticRoutes) \subseteq Seq(IgpRoutes)
            /\ Seq(UNION IsisTables) \subseteq Seq(IgpRoutes)
        BY SeqMonotonic DEF IgpRoutes
      <4>2. ASSUME NEW w, TablesTyped(w) PROVE Inet(w)[k][p] \in Seq(IgpRoutes)
        <5>1. /\ w.direct[p] \in Seq(Directs) /\ w.static[p] \in Seq(StaticRoutes)
              /\ w.isis[p] \in Seq(UNION IsisTables)
          BY <2>1, <4>2 DEF TablesTyped, Table
        <5>2. Inet(w)[k][p] \in {w.direct[p], w.static[p], w.isis[p]}
          BY <2>6 DEF Inet
        <5> QED
          BY <5>1, <5>2, <4>1
      <4> QED
        BY <4>2, <2>3
    <3> HIDE DEF s, z
    <3>2. /\ Shown(u, t, by, p) /\ EntryFor(u, t, by, p) = AppliedEntry(t, s[1]) /\ s[1] \in IgpRoutes
          /\ Shown(u, v, by, p) /\ EntryFor(u, v, by, p) = AppliedEntry(v, z[1])
      BY <3>1, <2>4, IgpShown DEF s, z
    <3>3. AppliedEntry(t, s[1]) = AppliedEntry(v, s[1])
      BY <3>2, RouteFields DEF AppliedEntry
    <3> QED
      BY <2>4, <3>2, <3>3
  <2> QED
    BY <2>5, <2>6
<1>7. IpFib(u, t, by) = IpFib(u, v, by)
  <2> DEFINE K == ChainPrefixes(Inet(t))
             S == {p \in K : Shown(u, t, by, p)}
  <2>1. S = {p \in K : Shown(u, v, by, p)}
    BY <1>6
  <2>2. /\ IpFib(u, t, by) =
             [p \in S \cup ({Default} \ K) |-> IF p \in K THEN EntryFor(u, t, by, p) ELSE Reject]
        /\ IpFib(u, v, by) =
             [p \in S \cup ({Default} \ K) |-> IF p \in K THEN EntryFor(u, v, by, p) ELSE Reject]
    BY <1>3, <2>1 DEF IpFib
  <2>3. \A p \in S \cup ({Default} \ K) : p \in K => EntryFor(u, t, by, p) = EntryFor(u, v, by, p)
    BY <1>6
  <2> HIDE DEF S, K
  <2> QED
    BY <2>2, <2>3
<1>8. LabelFib(u, t, by) = LabelFib(u, v, by)
  BY DEF LabelFib
<1> QED
  BY <1>7, <1>8 DEF ForwardingTable

-----------------------------------------------------------------------------
(* A bypass hung on routes whose interfaces are up changes no entry: they  *)
(* are used as they are.                                                   *)
LEMMA BypassUnused ==
  ASSUME TablesTyped(Now), Single(Now), BypassTyped(bypass), NEW b \in Bypasses,
         \A r \in ProtectedRoutes(b) : r.interface \in up,
         NEW by, by = [n \in Lsps |-> IF \E r \in ProtectedRoutes(b) : r.lsp = n THEN b ELSE bypass[n]]
  PROVE  ForwardingTable(up, Now, bypass) = ForwardingTable(up, Now, by)
<1>1. rsvp \in Table(Prefixes, LspRoutes) /\ mpls \in Table(Labels, LabelRoutes)
  BY DEF TablesTyped, Now, Tables
<1>2. RoutesOf(rsvp) \subseteq LspRoutes /\ RoutesOf(mpls) \subseteq LabelRoutes
  BY <1>1 DEF Table, RoutesOf
<1>3. ASSUME NEW r \in RoutesOf(mpls), NEW q \in RoutesOf(mpls), r.lsp = q.lsp PROVE r = q
  <2>1. ASSUME NEW x \in RoutesOf(mpls) PROVE \E l \in Labels : mpls[l] # << >> /\ x = mpls[l][1]
    <3>1. PICK l \in Labels : \E k \in DOMAIN mpls[l] : x = mpls[l][k]
      BY <1>1 DEF Table, RoutesOf
    <3>2. PICK k \in DOMAIN mpls[l] : x = mpls[l][k]
      BY <3>1
    <3>3. mpls[l] \in Seq(LabelRoutes) /\ Len(mpls[l]) <= 1
      BY <1>1 DEF Table, Single, Now, Tables
    <3> QED
      BY <3>2, <3>3
  <2>2. \A l, m \in Labels :
          mpls[l] # << >> /\ mpls[m] # << >> /\ mpls[l][1].lsp = mpls[m][1].lsp => l = m
    BY DEF Single, Now, Tables
  <2> QED
    BY <2>1, <2>2, <1>3
<1>4. ASSUME NEW r \in RoutesOf(rsvp) \cup RoutesOf(mpls), r.interface \notin up
      PROVE  BypassOf(by, r) = BypassOf(bypass, r) /\ (r.lsp # None => by[r.lsp] = bypass[r.lsp])
  <2>1. r.lsp \in Lsps
    BY <1>2 DEF Lsps
  <2>2. ~ \E q \in ProtectedRoutes(b) : q.lsp = r.lsp
    <3> SUFFICES ASSUME NEW q \in ProtectedRoutes(b), q.lsp = r.lsp PROVE q = r
      BY <1>4
    <3>1. q \in RoutesOf(rsvp) \cup RoutesOf(mpls)
      BY DEF ProtectedRoutes
    <3> QED
      BY <3>1, <1>2, <1>3, RoutesAssumption
  <2>3. by[r.lsp] = bypass[r.lsp]
    BY <2>1, <2>2
  <2> QED
    BY <2>3 DEF BypassOf
<1>5. ASSUME NEW r \in IgpRoutes \cup BgpRoutes, ~ Applies(up, Now, r)
      PROVE  /\ Diverts(up, Now, bypass, r) <=> Diverts(up, Now, by, r)
             /\ Diverts(up, Now, bypass, r) => DivertedEntry(Now, bypass, r) = DivertedEntry(Now, by, r)
  <2>1. r.type = "BGP"
    BY <1>5 DEF Applies
  <2>2. r.next \in Nat
    BY <2>1, RouteFields
  <2> SUFFICES ASSUME Resolves(Now, r)
               PROVE  LET q == Resolved(Now, r)
                      IN  BypassOf(by, q) = BypassOf(bypass, q) /\ (q.lsp # None => by[q.lsp] = bypass[q.lsp])
    BY DEF Diverts, DivertedEntry, BypassOf
  <2> DEFINE q == Resolved(Now, r)
  <2>3. q.interface \notin up
    BY <1>5, <2>1 DEF Applies
  <2>4. PICK T \in {rsvp, direct, static, isis}, p \in Prefixes : HasPrefix(T, p) /\ q = T[p][1]
    BY <2>2, ResolvedIs DEF Now, Tables
  <2> HIDE DEF q
  <2>5. CASE T = rsvp
    <3>1. rsvp[p] \in Seq(LspRoutes) /\ rsvp[p] # << >> /\ DOMAIN rsvp = Prefixes
      BY <1>1, <2>4, <2>5 DEF Table, HasPrefix
    <3>2. 1 \in DOMAIN rsvp[p]
      BY <3>1
    <3>3. q \in RoutesOf(rsvp)
      BY <2>4, <2>5, <3>1, <3>2 DEF RoutesOf
    <3> QED
      BY <3>3, <2>3, <1>4 DEF q
  <2>6. CASE T \in {direct, static, isis}
    <3>1. T[p] \in Seq(Directs) \/ T[p] \in Seq(StaticRoutes) \/ T[p] \in Seq(UNION IsisTables)
      BY <2>6 DEF TablesTyped, Table, Now, Tables
    <3>2. T[p] # << >>
      BY <2>4 DEF HasPrefix
    <3>3. q \in IgpRoutes
      BY <2>4, <3>1, <3>2 DEF IgpRoutes
    <3> QED
      BY <3>3, RouteFields DEF BypassOf, q
  <2> QED
    BY <2>4, <2>5, <2>6
<1>6. ASSUME NEW p \in ChainPrefixes(Inet(Now))
      PROVE  /\ Shown(up, Now, bypass, p) <=> Shown(up, Now, by, p)
             /\ Shown(up, Now, bypass, p) => EntryFor(up, Now, bypass, p) = EntryFor(up, Now, by, p)
  <2> DEFINE s == ChainGet(Inet(Now), p)
             A == {k \in DOMAIN s : Applies(up, Now, s[k])}
             D == {k \in DOMAIN s : Diverts(up, Now, bypass, s[k])}
             E == {k \in DOMAIN s : Diverts(up, Now, by, s[k])}
  <2>1. \A k \in DOMAIN s : s[k] \in IgpRoutes \cup BgpRoutes
    BY ShownRoutes
  <2>2. DOMAIN s = 1 .. Len(s) /\ Len(s) \in Nat
    BY ShownRoutes
  <2>3. /\ EntryFor(up, Now, bypass, p) =
             IF A # {} THEN AppliedEntry(Now, s[FX!Min(A)]) ELSE DivertedEntry(Now, bypass, s[FX!Max(D)])
        /\ EntryFor(up, Now, by, p) =
             IF A # {} THEN AppliedEntry(Now, s[FX!Min(A)]) ELSE DivertedEntry(Now, by, s[FX!Max(E)])
        /\ Shown(up, Now, bypass, p) <=> A # {} \/ D # {}
        /\ Shown(up, Now, by, p) <=> A # {} \/ E # {}
    BY DEF EntryFor, Shown
  <2> HIDE DEF s
  <2>4. CASE A # {}
    BY <2>3, <2>4
  <2>5. CASE A = {}
    <3>1. \A k \in DOMAIN s : ~ Applies(up, Now, s[k])
      BY <2>5
    <3>2. D = E
      BY <3>1, <2>1, <1>5
    <3>3. D # {} => DivertedEntry(Now, bypass, s[FX!Max(D)]) = DivertedEntry(Now, by, s[FX!Max(D)])
      <4>1. D \in SUBSET (1 .. Len(s))
        BY <2>2
      <4>2. D # {} => FX!Max(D) \in D
        <5> HIDE DEF D
        <5> QED
          BY <4>1, <2>2, GreatestOf
      <4> QED
        BY <4>2, <3>1, <2>1, <1>5
    <3> HIDE DEF A, D, E
    <3> QED
      BY <2>3, <2>5, <3>2, <3>3
  <2> QED
    BY <2>4, <2>5
<1>7. IpFib(up, Now, bypass) = IpFib(up, Now, by)
  <2> DEFINE K == ChainPrefixes(Inet(Now))
             S == {p \in K : Shown(up, Now, bypass, p)}
  <2>1. S = {p \in K : Shown(up, Now, by, p)}
    BY <1>6
  <2>2. /\ IpFib(up, Now, bypass) =
             [p \in S \cup ({Default} \ K) |-> IF p \in K THEN EntryFor(up, Now, bypass, p) ELSE Reject]
        /\ IpFib(up, Now, by) =
             [p \in S \cup ({Default} \ K) |-> IF p \in K THEN EntryFor(up, Now, by, p) ELSE Reject]
    BY <2>1 DEF IpFib
  <2>3. \A p \in S \cup ({Default} \ K) :
          p \in K => EntryFor(up, Now, bypass, p) = EntryFor(up, Now, by, p)
    BY <1>6
  <2> HIDE DEF S, K
  <2> QED
    BY <2>2, <2>3
<1>8. LabelFib(up, Now, bypass) = LabelFib(up, Now, by)
  <2>1. ASSUME NEW l \in Labels, mpls[l] # << >>
        PROVE  LabelEntry(up, bypass, mpls[l][1]) = LabelEntry(up, by, mpls[l][1])
    <3>1. mpls[l] \in Seq(LabelRoutes) /\ DOMAIN mpls = Labels
      BY <1>1 DEF Table
    <3>2. 1 \in DOMAIN mpls[l]
      BY <3>1, <2>1
    <3>3. mpls[l][1] \in RoutesOf(mpls)
      BY <3>1, <3>2 DEF RoutesOf
    <3> QED
      BY <3>3, <1>4 DEF LabelEntry, BypassOf
  <2>2. Now.mpls = mpls
    BY DEF Now, Tables
  <2> QED
    BY <2>1, <2>2 DEF LabelFib
<1> QED
  BY <1>7, <1>8 DEF ForwardingTable

-----------------------------------------------------------------------------
LEMMA RouterInit == Init => IInv
<1> SUFFICES ASSUME Init PROVE IInv
  OBVIOUS
<1>1. \A S : NoRoutes \in Table(Prefixes, S)
  BY DEF NoRoutes, Table
<1>2. direct \in Table(Prefixes, Directs)
  <2>1. LocalRoute(Loopback) \in Directs /\ LocalRoute(Loopback).prefix \in Prefixes
    BY RouterAssumption DEF Directs, LocalRoute, RouteOf
  <2> QED
    BY <1>1, <2>1, AddedRoute DEF Init
<1>3. mpls \in Table(Labels, LabelRoutes)
  BY DEF Init, Table
<1>4. TablesTyped(Now)
  BY <1>1, <1>2, <1>3 DEF Init, TablesTyped, Now, Tables
<1>5. Single(Now)
  BY DEF Init, Single, Now, Tables, NoRoutes
<1>6. StateInv
  BY RouterAssumption DEF Init, StateInv, BypassTyped
<1>7. fib = ForwardingTable(up, Now, bypass)
  BY DEF Init
<1> QED
  BY <1>4, <1>5, <1>6, <1>7, ForwardingTableTyped DEF IInv, FibCurrent, StateInv

(* The forwarding table was made of the tables as they are now.            *)
LEMMA Fresh ==
  ASSUME TablesTyped(Now'), Single(Now'), StateInv', fib' = ForwardingTable(up', Now', bypass')
  PROVE  IInv'
<1>1. FibTyped(fib')
  BY ForwardingTableTyped DEF StateInv
<1> QED
  BY <1>1 DEF IInv, FibCurrent

(* The forwarding table stayed as it was, and is still right.              *)
LEMMA Kept ==
  ASSUME IInv, TablesTyped(Now'), Single(Now'), StateInv', fib' = fib,
         Orderly => ForwardingTable(up', Now', bypass') = ForwardingTable(up, Now, bypass)
  PROVE  IInv'
BY DEF IInv, FibCurrent

LEMMA InterfaceUpStep ==
  ASSUME IInv, NEW i \in Interfaces, InterfaceUp(i)
  PROVE  IInv'
<1>1. TablesTyped(Now) /\ Single(Now) /\ StateInv
  BY DEF IInv
<1>2. /\ ConnectedRoute(i) \in Directs /\ ConnectedRoute(i).prefix \in Prefixes
      /\ LocalRoute(i) \in Directs /\ LocalRoute(i).prefix \in Prefixes
  BY RouterAssumption DEF Directs, ConnectedRoute, LocalRoute, RouteOf
<1>3. direct \in Table(Prefixes, Directs)
  BY <1>1 DEF TablesTyped, Now, Tables
<1>4. direct' \in Table(Prefixes, Directs)
  BY <1>2, <1>3, AddedRoute DEF InterfaceUp
<1>5. TablesTyped(Now') /\ Single(Now')
  BY <1>1, <1>4 DEF InterfaceUp, TablesTyped, Single, Now, Tables
<1>6. StateInv'
  BY <1>1 DEF StateInv, InterfaceUp
<1> QED
  BY <1>5, <1>6, Fresh DEF InterfaceUp

LEMMA InterfaceDownStep ==
  ASSUME IInv, NEW i \in Interfaces, InterfaceDown(i)
  PROVE  IInv'
<1>1. TablesTyped(Now) /\ Single(Now) /\ StateInv
  BY DEF IInv
<1>2. ConnectedRoute(i).prefix \in Prefixes /\ LocalRoute(i).prefix \in Prefixes
  BY RouterAssumption DEF ConnectedRoute, LocalRoute, RouteOf
<1>3. direct \in Table(Prefixes, Directs)
  BY <1>1 DEF TablesTyped, Now, Tables
<1>4. direct' \in Table(Prefixes, Directs)
  BY <1>2, <1>3, DeletedRoute DEF InterfaceDown
<1>5. TablesTyped(Now') /\ Single(Now')
  BY <1>1, <1>4 DEF InterfaceDown, TablesTyped, Single, Now, Tables
<1>6. StateInv'
  BY <1>1, RouterAssumption DEF StateInv, InterfaceDown
<1> QED
  BY <1>5, <1>6, Fresh DEF InterfaceDown

(* A second static route has the metric of the first and goes behind it.   *)
LEMMA StaticRouteStep ==
  ASSUME IInv, NEW r \in StaticRoutes, StaticRoute(r)
  PROVE  IInv'
<1>1. TablesTyped(Now) /\ Single(Now) /\ StateInv
  BY DEF IInv
<1>2. static \in Table(Prefixes, StaticRoutes)
  BY <1>1 DEF TablesTyped, Now, Tables
<1>3. r.prefix \in Prefixes /\ r.metric \in Nat
  BY RouteFields DEF Hops, IgpRoutes
<1>4. /\ static' \in Table(Prefixes, StaticRoutes)
      /\ \A q \in Prefixes \ {r.prefix} : static'[q] = static[q]
      /\ Len(static'[r.prefix]) = Len(static[r.prefix]) + 1
      /\ static[r.prefix] # << >> /\ static[r.prefix][1].metric <= r.metric =>
           static'[r.prefix][1] = static[r.prefix][1]
  BY <1>2, <1>3, AddedRoute DEF StaticRoute
<1>5. TablesTyped(Now') /\ Single(Now')
  BY <1>1, <1>4 DEF StaticRoute, TablesTyped, Single, Now, Tables
<1>6. StateInv'
  BY <1>1 DEF StateInv, StaticRoute
<1>7. CASE ~ HasPrefix(static, r.prefix)
  BY <1>5, <1>6, <1>7, Fresh DEF StaticRoute, Remade
<1>8. CASE HasPrefix(static, r.prefix)
  <2>1. static[r.prefix] \in Seq(StaticRoutes) /\ static[r.prefix] # << >>
    BY <1>2, <1>3, <1>8 DEF Table, HasPrefix
  <2>2. static[r.prefix][1] \in StaticRoutes
    BY <2>1
  <2>3. static[r.prefix][1].metric <= r.metric
    BY <2>2, <1>3, RoutesAssumption
  <2>4. static'[r.prefix] # << >>
    BY <2>1, <1>3, <1>4 DEF Table
  <2>5. AlikeTables(static', static)
    BY <2>1, <2>3, <2>4, <1>4 DEF AlikeTables, Alike
  <2>6. \A T : AlikeTables(T, T)
    BY DEF AlikeTables, Alike
  <2>7. ForwardingTable(up, Now', bypass) = ForwardingTable(up, Now, bypass)
    <3>1. /\ Now'.static = static' /\ Now.static = static
          /\ Now'.direct = Now.direct /\ Now'.isis = Now.isis /\ Now'.rsvp = Now.rsvp
          /\ Now'.bgp = Now.bgp /\ Now'.mpls = Now.mpls
      BY DEF StaticRoute, Now, Tables
    <3> QED
      BY <3>1, <2>5, <2>6, <1>1, <1>5, SameForwarding
  <2>8. fib' = fib /\ up' = up /\ bypass' = bypass
    BY <1>8 DEF StaticRoute, Remade
  <2> QED
    BY <2>7, <2>8, <1>5, <1>6, Kept
<1> QED
  BY <1>7, <1>8

LEMMA AddBgpRouteStep ==
  ASSUME IInv, NEW r \in BgpRoutes, AddBgpRoute(r)
  PROVE  IInv'
<1>1. TablesTyped(Now) /\ Single(Now) /\ StateInv
  BY DEF IInv
<1>2. bgp \in Table(Prefixes, BgpRoutes)
  BY <1>1 DEF TablesTyped, Now, Tables
<1>3. r.prefix \in Prefixes
  BY RouteFields
<1>4. /\ bgp' \in Table(Prefixes, BgpRoutes)
      /\ \A q \in Prefixes \ {r.prefix} : bgp'[q] = bgp[q]
      /\ bgp[r.prefix] = << >> => bgp'[r.prefix] = <<r>>
  BY <1>2, <1>3, AddedRoute DEF AddBgpRoute
<1>5. Orderly => bgp[r.prefix] = << >>
  BY DEF AddBgpRoute, HasPrefix
<1>6. TablesTyped(Now')
  BY <1>1, <1>4 DEF AddBgpRoute, TablesTyped, Now, Tables
<1>7. Single(Now')
  <2>1. Orderly => \A p \in Prefixes : Len(bgp'[p]) <= 1
    <3>1. Len(<<r>>) <= 1
      OBVIOUS
    <3>2. Orderly => \A p \in Prefixes : Len(bgp[p]) <= 1
      BY <1>1 DEF Single, Now, Tables
    <3> QED
      BY <3>1, <3>2, <1>4, <1>5
  <2> QED
    BY <2>1, <1>1 DEF AddBgpRoute, Single, Now, Tables
<1>8. StateInv'
  BY <1>1 DEF StateInv, AddBgpRoute
<1>9. CASE ~ HasPrefix(bgp, r.prefix)
  BY <1>6, <1>7, <1>8, <1>9, Fresh DEF AddBgpRoute, Remade
<1>10. CASE HasPrefix(bgp, r.prefix)
  BY <1>5, <1>6, <1>7, <1>8, <1>10, Kept DEF AddBgpRoute, Remade, HasPrefix
<1> QED
  BY <1>9, <1>10

LEMMA SetRoutesStep ==
  ASSUME IInv, NEW R \in IsisTables, SetRoutes(R)
  PROVE  IInv'
<1>1. TablesTyped(Now) /\ Single(Now) /\ StateInv
  BY DEF IInv
<1>2. isis' \in Table(Prefixes, UNION IsisTables)
  <2>1. ASSUME NEW p \in Prefixes, \E r \in R : r.prefix = p
        PROVE  <<CHOOSE r \in R : r.prefix = p>> \in Seq(UNION IsisTables)
    <3>1. (CHOOSE r \in R : r.prefix = p) \in UNION IsisTables
      BY <2>1
    <3> QED
      BY <3>1
  <2>2. << >> \in Seq(UNION IsisTables)
    OBVIOUS
  <2> QED
    BY <2>1, <2>2 DEF SetRoutes, Table
<1>3. TablesTyped(Now') /\ Single(Now')
  BY <1>1, <1>2 DEF SetRoutes, TablesTyped, Single, Now, Tables
<1>4. StateInv'
  BY <1>1 DEF StateInv, SetRoutes
<1>5. fib' = ForwardingTable(up', Now', bypass')
  BY RouterAssumption DEF SetRoutes
<1> QED
  BY <1>3, <1>4, <1>5, Fresh

LEMMA AddLspStep ==
  ASSUME IInv, NEW r \in LspRoutes, AddLsp(r)
  PROVE  IInv'
<1>1. TablesTyped(Now) /\ Single(Now) /\ StateInv
  BY DEF IInv
<1>2. rsvp \in Table(Prefixes, LspRoutes)
  BY <1>1 DEF TablesTyped, Now, Tables
<1>3. r.prefix \in Prefixes /\ r.metric \in Nat
  BY RouteFields DEF Hops
<1>4. /\ rsvp' \in Table(Prefixes, LspRoutes)
      /\ \A q \in Prefixes \ {r.prefix} : rsvp'[q] = rsvp[q]
      /\ Len(rsvp'[r.prefix]) = Len(rsvp[r.prefix]) + 1
      /\ rsvp[r.prefix] # << >> /\ rsvp[r.prefix][1].metric <= r.metric =>
           rsvp'[r.prefix][1] = rsvp[r.prefix][1]
  BY <1>2, <1>3, AddedRoute DEF AddLsp
<1>5. TablesTyped(Now') /\ Single(Now')
  BY <1>1, <1>4 DEF AddLsp, TablesTyped, Single, Now, Tables
<1>6. StateInv'
  BY <1>1 DEF StateInv, AddLsp
<1>7. CASE ~ HasPrefix(rsvp, r.prefix)
  BY <1>5, <1>6, <1>7, Fresh DEF AddLsp, Remade
<1>8. CASE HasPrefix(rsvp, r.prefix)
  <2>1. rsvp[r.prefix] \in Seq(LspRoutes) /\ rsvp[r.prefix] # << >>
    BY <1>2, <1>3, <1>8 DEF Table, HasPrefix
  <2>2. rsvp[r.prefix][1] \in LspRoutes
    BY <2>1
  <2>3. rsvp[r.prefix][1].metric <= r.metric
    BY <2>2, <1>3, RoutesAssumption
  <2>4. rsvp'[r.prefix] # << >>
    BY <2>1, <1>3, <1>4 DEF Table
  <2>5. AlikeTables(rsvp', rsvp)
    BY <2>1, <2>3, <2>4, <1>4 DEF AlikeTables, Alike
  <2>6. \A T : AlikeTables(T, T)
    BY DEF AlikeTables, Alike
  <2>7. ForwardingTable(up, Now', bypass) = ForwardingTable(up, Now, bypass)
    <3>1. /\ Now'.rsvp = rsvp' /\ Now.rsvp = rsvp
          /\ Now'.direct = Now.direct /\ Now'.isis = Now.isis /\ Now'.static = Now.static
          /\ Now'.bgp = Now.bgp /\ Now'.mpls = Now.mpls
      BY DEF AddLsp, Now, Tables
    <3> QED
      BY <3>1, <2>5, <2>6, <1>1, <1>5, SameForwarding
  <2>8. fib' = fib /\ up' = up /\ bypass' = bypass
    BY <1>8 DEF AddLsp, Remade
  <2> QED
    BY <2>7, <2>8, <1>5, <1>6, Kept
<1> QED
  BY <1>7, <1>8

LEMMA AddLabelStep ==
  ASSUME IInv, NEW r \in LabelRoutes, AddLabel(r)
  PROVE  IInv'
<1>1. TablesTyped(Now) /\ Single(Now) /\ StateInv
  BY DEF IInv
<1>2. mpls \in Table(Labels, LabelRoutes)
  BY <1>1 DEF TablesTyped, Now, Tables
<1>3. r.prefix \in Labels /\ mpls[r.prefix] = << >>
  BY RouteFields DEF AddLabel
<1>4. /\ mpls' \in Table(Labels, LabelRoutes)
      /\ \A l \in Labels \ {r.prefix} : mpls'[l] = mpls[l]
      /\ mpls'[r.prefix] = <<r>>
  BY <1>2, <1>3, AddedRoute DEF AddLabel
<1>5. TablesTyped(Now')
  BY <1>1, <1>4 DEF AddLabel, TablesTyped, Now, Tables
<1>6. ASSUME NEW l \in Labels, mpls[l] # << >> PROVE mpls[l][1].lsp # r.lsp
  <2>1. mpls[l] \in Seq(LabelRoutes)
    BY <1>2 DEF Table
  <2>2. 1 \in DOMAIN mpls[l]
    BY <2>1, <1>6
  <2> QED
    BY <2>2 DEF AddLabel
<1>7. Single(Now')
  <2>1. Len(<<r>>) = 1 /\ <<r>>[1] = r
    OBVIOUS
  <2>2. /\ \A l \in Labels : Len(mpls[l]) <= 1
        /\ \A l, m \in Labels :
             mpls[l] # << >> /\ mpls[m] # << >> /\ mpls[l][1].lsp = mpls[m][1].lsp => l = m
    BY <1>1 DEF Single, Now, Tables
  <2>3. ASSUME NEW l \in Labels PROVE Len(mpls'[l]) <= 1
    <3>1. CASE l = r.prefix
      <4>1. Len(<<r>>) <= 1
        OBVIOUS
      <4> QED
        BY <3>1, <4>1, <1>4
    <3>2. CASE l # r.prefix
      BY <3>2, <1>4, <2>2
    <3> QED
      BY <3>1, <3>2
  <2>4. \A l, m \in Labels :
          mpls'[l] # << >> /\ mpls'[m] # << >> /\ mpls'[l][1].lsp = mpls'[m][1].lsp => l = m
    BY <1>4, <1>6, <2>1, <2>2
  <2>5. Orderly => \A p \in Prefixes : Len(bgp[p]) <= 1
    BY <1>1 DEF Single, Now, Tables
  <2>6. Now'.mpls = mpls' /\ Now'.bgp = bgp
    BY DEF AddLabel, Now, Tables
  <2> QED
    BY <2>3, <2>4, <2>5, <2>6 DEF Single
<1>8. StateInv'
  <2>1. bypass' \in [Lsps -> Bypasses \cup {None}]
    <3>1. ASSUME \E b \in made : b.protects = r.next
          PROVE  (CHOOSE b \in made : b.protects = r.next) \in Bypasses
      BY <3>1, <1>1 DEF StateInv
    <3>2. bypass \in [Lsps -> Bypasses \cup {None}]
      BY <1>1 DEF StateInv, BypassTyped
    <3> QED
      BY <3>1, <3>2 DEF AddLabel
  <2> QED
    BY <2>1, <1>1 DEF StateInv, AddLabel, BypassTyped
<1>9. fib' = ForwardingTable(up', Now', bypass')
  BY <1>3 DEF AddLabel, Remade, HasPrefix
<1> QED
  BY <1>5, <1>7, <1>8, <1>9, Fresh

LEMMA InstallBypassStep ==
  ASSUME IInv, NEW b \in Bypasses, InstallBypass(b)
  PROVE  IInv'
<1>1. TablesTyped(Now) /\ Single(Now) /\ StateInv
  BY DEF IInv
<1>2. Now' = Now
  BY DEF InstallBypass, tables, Now
<1>3. StateInv'
  BY <1>1 DEF InstallBypass, StateInv, BypassTyped, tables
<1>4. Orderly => ForwardingTable(up, Now, bypass) = ForwardingTable(up, Now, bypass')
  BY <1>1, BypassUnused DEF InstallBypass, StateInv
<1>5. fib' = fib /\ up' = up
  BY DEF InstallBypass, tables
<1> QED
  BY <1>1, <1>2, <1>3, <1>4, <1>5, Kept

LEMMA RouterStep == IInv /\ [Next]_vars => IInv'
<1> SUFFICES ASSUME IInv, [Next]_vars PROVE IInv'
  OBVIOUS
<1>1. CASE UNCHANGED vars
  <2>1. up' = up /\ moves' = moves /\ bypass' = bypass /\ made' = made /\ fib' = fib /\ Now' = Now
    BY <1>1 DEF vars, tables, Now
  <2> QED
    BY <2>1 DEF IInv, StateInv, FibCurrent
<1>2. CASE Next
  BY <1>2, InterfaceUpStep, InterfaceDownStep, StaticRouteStep, AddBgpRouteStep, SetRoutesStep,
     AddLspStep, AddLabelStep, InstallBypassStep DEF Next
<1> QED
  BY <1>1, <1>2

LEMMA RouterInvariance == Spec => []IInv
BY RouterInit, RouterStep, PTL DEF Spec

-----------------------------------------------------------------------------
(* The entry of a prefix that only BGP has is made of its one route.       *)
LEMMA OneBgpRoute ==
  ASSUME IInv, Orderly, NEW p \in Prefixes, OnlyBgp(p)
  PROVE  /\ bgp[p] = <<bgp[p][1]>> /\ bgp[p][1].type = "BGP" /\ bgp[p][1].next \in Nat
         /\ p \in DOMAIN fib.ip <=> Applies(up, Now, bgp[p][1]) \/ Diverts(up, Now, bypass, bgp[p][1])
         /\ Applies(up, Now, bgp[p][1]) => fib.ip[p] = AppliedEntry(Now, bgp[p][1])
         /\ ~ Applies(up, Now, bgp[p][1]) /\ Diverts(up, Now, bypass, bgp[p][1]) =>
              fib.ip[p] = DivertedEntry(Now, bypass, bgp[p][1])
<1> DEFINE r == bgp[p][1]
           K == ChainPrefixes(Inet(Now))
<1>1. TablesTyped(Now) /\ Single(Now)
  BY DEF IInv
<1>2. bgp[p] \in Seq(BgpRoutes) /\ Len(bgp[p]) <= 1 /\ bgp[p] # << >>
  BY <1>1 DEF TablesTyped, Single, Table, Now, Tables, OnlyBgp, HasPrefix
<1>3. r \in BgpRoutes /\ bgp[p] = <<r>>
  BY <1>2
<1>4. r.type = "BGP" /\ r.next \in Nat
  BY <1>3, RouteFields
<1>5. FirstTable(Inet(Now), 4, p, 4)
  BY DEF FirstTable, Inet, Now, Tables, OnlyBgp, HasPrefix
<1>6. Inet(Now) \in Chain(4, IgpRoutes \cup BgpRoutes)
  BY <1>1, ChainsTyped
<1>7. p \in K
  BY <1>5, <1>6, ChainHas, 4 \in Nat
<1>8. ChainGet(Inet(Now), p) = <<r>>
  <2>1. ChainGet(Inet(Now), p) = Inet(Now)[4][p]
    BY <1>5, <1>6, ChainGetIs, 4 \in Nat
  <2>2. Inet(Now)[4] = bgp
    BY DEF Inet, Now, Tables
  <2> QED
    BY <2>1, <2>2, <1>3
<1> HIDE DEF r
<1>9. Shown(up, Now, bypass, p) <=> Applies(up, Now, r) \/ Diverts(up, Now, bypass, r)
  <2>1. DOMAIN <<r>> = {1} /\ <<r>>[1] = r
    OBVIOUS
  <2> QED
    BY <2>1, <1>8 DEF Shown
<1>10. fib.ip = IpFib(up, Now, bypass)
  BY DEF IInv, FibCurrent, ForwardingTable
<1>11. p \in DOMAIN fib.ip <=> Shown(up, Now, bypass, p)
  BY <1>7, <1>10 DEF IpFib
<1>12. p \in DOMAIN fib.ip => fib.ip[p] = EntryFor(up, Now, bypass, p)
  BY <1>7, <1>10 DEF IpFib
<1>13. /\ Applies(up, Now, r) => EntryFor(up, Now, bypass, p) = AppliedEntry(Now, r)
       /\ ~ Applies(up, Now, r) /\ Diverts(up, Now, bypass, r) =>
            EntryFor(up, Now, bypass, p) = DivertedEntry(Now, bypass, r)
  <2> DEFINE s == <<r>>
             A == {k \in DOMAIN s : Applies(up, Now, s[k])}
             D == {k \in DOMAIN s : Diverts(up, Now, bypass, s[k])}
  <2>1. DOMAIN s = {1} /\ s[1] = r
    OBVIOUS
  <2>2. EntryFor(up, Now, bypass, p) =
          IF A # {} THEN AppliedEntry(Now, s[FX!Min(A)]) ELSE DivertedEntry(Now, bypass, s[FX!Max(D)])
    BY <1>8 DEF EntryFor
  <2> HIDE DEF s
  <2>3. A \in SUBSET {1} /\ D \in SUBSET {1} /\ 1 .. 1 = {1}
    BY <2>1
  <2>4. A # {} => FX!Min(A) = 1
    <3> HIDE DEF A
    <3>1. A # {} => FX!Min(A) \in A
      BY <2>3, LeastOf, 1 \in Nat
    <3> QED
      BY <3>1, <2>3
  <2>5. D # {} => FX!Max(D) = 1
    <3> HIDE DEF D
    <3>1. D # {} => FX!Max(D) \in D
      BY <2>3, GreatestOf, 1 \in Nat
    <3> QED
      BY <3>1, <2>3
  <2>6. (A # {} <=> Applies(up, Now, r)) /\ (D # {} <=> Diverts(up, Now, bypass, r))
    BY <2>1
  <2> HIDE DEF A, D
  <2> QED
    BY <2>1, <2>2, <2>4, <2>5, <2>6
<1> QED
  BY <1>3, <1>4, <1>9, <1>11, <1>12, <1>13 DEF r

-----------------------------------------------------------------------------
(* Every table holds only the routes of its source, and the forwarding     *)
(* table only entries with a known interface, action and labels, in any    *)
(* order of failures, routes and LSPs (routing.py:371-457).                *)
THEOREM WellTyped == Spec => []TypeOK
<1>1. IInv => TypeOK
  <2> SUFFICES ASSUME IInv PROVE TypeOK
    OBVIOUS
  <2>1. /\ direct \in Table(Prefixes, Directs) /\ static \in Table(Prefixes, StaticRoutes)
        /\ isis \in Table(Prefixes, UNION IsisTables) /\ bgp \in Table(Prefixes, BgpRoutes)
        /\ rsvp \in Table(Prefixes, LspRoutes) /\ mpls \in Table(Labels, LabelRoutes)
    BY DEF IInv, TablesTyped, Now, Tables
  <2>2. ASSUME NEW S, NEW t \in Table(Prefixes, S), S \subseteq Hops \cup BgpRoutes
        PROVE  /\ DOMAIN t = Prefixes
               /\ \A r \in RoutesOf(t) : r.interface \in Interfaces \cup {None}
    <3>1. RoutesOf(t) \subseteq S
      BY DEF RoutesOf, Table
    <3> QED
      BY <3>1, <2>2, RouteFields DEF Table
  <2>3. /\ Directs \subseteq Hops /\ StaticRoutes \subseteq Hops /\ UNION IsisTables \subseteq Hops
        /\ LspRoutes \subseteq Hops
    BY DEF Hops, IgpRoutes
  <2>4. \A t \in {direct, static, isis, bgp, rsvp} :
          /\ DOMAIN t = Prefixes
          /\ \A r \in RoutesOf(t) : r.interface \in Interfaces \cup {None}
    <3> HIDE DEF Hops
    <3>1. \A S \in {Directs, StaticRoutes, UNION IsisTables, BgpRoutes, LspRoutes} :
            S \subseteq Hops \cup BgpRoutes
      BY <2>3
    <3> QED
      BY <3>1, <2>1, <2>2
  <2>5. DOMAIN mpls = Labels
    BY <2>1 DEF Table
  <2> QED
    BY <2>4, <2>5 DEF IInv, StateInv, BypassTyped, FibTyped, TypeOK
<1> QED
  BY <1>1, RouterInvariance, PTL

(* With one BGP route for a prefix, and bypasses made while the link they  *)
(* protect is up (Orderly): whatever fails, the forwarding table is the    *)
(* one the state makes, although a second route to a prefix and a bypass   *)
(* raise no event (routing.py:255, rsvp/process.py:467).                   *)
THEOREM ForwardingFollows == Spec => []FibCurrent
<1>1. IInv => FibCurrent
  BY DEF IInv
<1> QED
  BY <1>1, RouterInvariance, PTL

(* The sort of forwarding_table (routing.py:389-397) puts the smallest     *)
(* block that holds an address first, for any prefixes.                    *)
THEOREM LongestAlwaysWins == Spec => []LongestPrefixWins
<1>1. IInv => LongestPrefixWins
  <2> SUFFICES ASSUME IInv,
                      NEW x \in Default.net .. (Default.net + Default.size - 1),
                      NEW p \in Holding(x)
               PROVE  Found(x).size <= p.size
    BY DEF LongestPrefixWins
  <2> DEFINE f == Found(x)
  <2>1. \A q \in Prefixes : q.net \in Nat /\ q.size \in Nat
    BY PrefixesAssumption
  <2>2. x \in Nat
    BY <2>1, RouterAssumption
  <2>3. Holding(x) \in SUBSET Prefixes /\ \A q \in Holding(x) : Covers(q, x)
    BY DEF Holding, IInv, FibTyped
  <2>4. f \in Holding(x) /\ (f = p \/ Before(f, p))
    <3> HIDE DEF f, Found, Holding
    <3> QED
      BY <2>2, <2>3, FirstMatchIs DEF f, Found
  <2> HIDE DEF f
  <2>5. f \in Prefixes /\ p \in Prefixes /\ Covers(f, x) /\ Covers(p, x)
    BY <2>3, <2>4
  <2>6. f.net \in Nat /\ f.size \in Nat /\ p.net \in Nat /\ p.size \in Nat
    BY <2>1, <2>5
  <2>7. CASE f = p
    BY <2>6, <2>7 DEF f
  <2>8. CASE Before(f, p)
    <3>1. Apart(f, p) \/ Inside(f, p) \/ Inside(p, f)
      BY <2>5, PrefixesAssumption
    <3>2. f.size <= p.size
      BY <3>1, <2>2, <2>5, <2>6, <2>8 DEF Apart, Inside, Covers, Before
    <3> QED
      BY <3>2 DEF f
  <2> QED
    BY <2>4, <2>7, <2>8
<1> QED
  BY <1>1, RouterInvariance, PTL

(* Under the same condition what only BGP knows goes over an interface     *)
(* that is up, after any failures (routing.py:417-428).                    *)
THEOREM LearnedAlwaysLive == Spec => []LearnedOverLiveLinks
<1>1. IInv => LearnedOverLiveLinks
  <2> SUFFICES ASSUME IInv, Orderly, NEW p \in DOMAIN fib.ip, OnlyBgp(p)
               PROVE  fib.ip[p].interface \in up
    BY DEF LearnedOverLiveLinks
  <2>1. p \in Prefixes
    BY DEF IInv, FibTyped
  <2> DEFINE r == bgp[p][1]
  <2>2. CASE Applies(up, Now, r)
    <3>1. fib.ip[p] = AppliedEntry(Now, r) /\ r.type = "BGP"
      BY <2>1, <2>2, OneBgpRoute
    <3> QED
      BY <3>1, <2>2 DEF Applies, AppliedEntry, Entry
  <2>3. CASE ~ Applies(up, Now, r)
    <3>1. Diverts(up, Now, bypass, r) /\ fib.ip[p] = DivertedEntry(Now, bypass, r)
      BY <2>1, <2>3, OneBgpRoute
    <3> QED
      BY <3>1 DEF Diverts, DivertedEntry, Entry, BypassOf
  <2> QED
    BY <2>2, <2>3
<1> QED
  BY <1>1, RouterInvariance, PTL

(* With one BGP route for a prefix, and bypasses made while the link they  *)
(* protect is up (Orderly): after any failures and recoveries the traffic  *)
(* of an LSP is on its own link if that is up, and on its bypass if only   *)
(* that is (routing.py:417-428).                                           *)
THEOREM BypassAlwaysTakesOver == Spec => []BypassTakesOver
<1>1. IInv => BypassTakesOver
  <2> SUFFICES ASSUME IInv, Orderly, NEW p \in Prefixes, OnlyBgp(p), Resolves(Now, bgp[p][1]),
                      Resolved(Now, bgp[p][1]).lsp # None
               PROVE  LET q == Resolved(Now, bgp[p][1])
                      IN  IF q.interface \in up
                          THEN fib.ip[p].interface = q.interface /\ fib.ip[p].push = <<q.lsp>>
                          ELSE bypass[q.lsp] # None /\ bypass[q.lsp].interface \in up =>
                                 /\ fib.ip[p].interface = bypass[q.lsp].interface
                                 /\ fib.ip[p].push = <<q.lsp, bypass[q.lsp].name>>
    BY DEF BypassTakesOver
  <2> DEFINE r == bgp[p][1]
             q == Resolved(Now, r)
  <2>1. r.type = "BGP"
    BY OneBgpRoute
  <2>2. CASE q.interface \in up
    <3>1. Applies(up, Now, r)
      BY <2>2 DEF Applies
    <3>2. fib.ip[p] = AppliedEntry(Now, r)
      BY <3>1, OneBgpRoute
    <3> QED
      BY <3>2, <2>1, <2>2 DEF AppliedEntry, Entry, Push
  <2>3. CASE q.interface \notin up /\ bypass[q.lsp] # None /\ bypass[q.lsp].interface \in up
    <3>1. ~ Applies(up, Now, r) /\ Diverts(up, Now, bypass, r)
      BY <2>1, <2>3 DEF Applies, Diverts, BypassOf
    <3>2. fib.ip[p] = DivertedEntry(Now, bypass, r)
      BY <3>1, OneBgpRoute
    <3> QED
      BY <3>2, <2>3 DEF DivertedEntry, Entry
  <2> QED
    BY <2>2, <2>3
<1> QED
  BY <1>1, RouterInvariance, PTL

=============================================================================
