------------------------ MODULE ConnectedRoutesProofs ------------------------
(***************************************************************************)
(* For any devices, links and addresses: an interface of a host that is up *)
(* has the routes of its address.  Where links are moved with care their   *)
(* ends follow them and a table holds no other routes, and none twice.     *)
(***************************************************************************)
EXTENDS ConnectedRoutes, FiniteSetTheorems, SequenceTheorems, TLAPS

Route ==
  [prefix : Prefixes, type : {"CONNECTED", "LOCAL"}, interface : Interfaces, metric : {1}]

Table == [Prefixes -> Seq(Route)]

Shaped ==
  /\ careful \in BOOLEAN
  /\ linkUp \in [DOMAIN Links -> BOOLEAN]
  /\ commands \in [DOMAIN Links -> Nat]
  /\ DOMAIN agenda = DOMAIN Links
  /\ phyUp \in [Interfaces -> BOOLEAN]
  /\ logical \in [Interfaces -> {"absent", "bare", "known"}]
  /\ logUp \in [Interfaces -> BOOLEAN]
  /\ addr \in [Interfaces -> Addresses \cup {None}]
  /\ direct \in [Devices -> Table]

(* An address comes with a logical interface.                              *)
AddressedKnown == \A i \in Interfaces : logical[i] = "absent" => addr[i] = None

RoutesInv == Shaped /\ AddressedKnown /\ UpMeansRouted

(* A careful operator leaves one instant of notices at most, which tell    *)
(* the state of the link to those ends that do not have it yet.            *)
Tells(l, i) == agenda[l] # << >> /\ \E n \in Head(agenda[l]).notices : n.end = i

OneInstant(l) ==
  agenda[l] = << >> \/
  \E I : /\ agenda[l] = <<I>>
         /\ \A n \in I.notices : n.end \in Links[l] /\ n.up = linkUp[l]

Follows(l) ==
  commands[l] > 0 => \A i \in Links[l] : phyUp[i] = linkUp[l] \/ Tells(l, i)

EndsInv == careful => \A l \in DOMAIN Links : OneInstant(l) /\ Follows(l)

(* The routes of the interfaces of d that are up, and a table t that holds *)
(* the routes of R, each once and under its prefix.                        *)
UpRoutes(d) == UNION {Expected(i) : i \in {j \in Interfaces : Owner[j] = d /\ logUp[j]}}

Values(s) == {s[j] : j \in DOMAIN s}

Once(s) == \A j, k \in DOMAIN s : s[j] = s[k] => j = k

Exact(t, R) ==
  \A p \in Prefixes :
    Once(t[p]) /\ Values(t[p]) = {x \in R : x.prefix = p}

(* With a careful operator a link tells each end once, an end that was not *)
(* told yet is in the other state, and an interface is up on a link only.  *)
ToldOnce(l) ==
  /\ agenda[l] # << >> =>
       \A m, n \in Head(agenda[l]).notices : m.end = n.end => m = n
  /\ commands[l] = 0 => ~ linkUp[l] /\ agenda[l] = << >>

UpAsTold(l) ==
  \A i \in Links[l] : logical[i] = "known" =>
    (logUp[i] <=> IF Tells(l, i) THEN ~ linkUp[l] ELSE linkUp[l])

UpOnLinks(i) ==
  /\ logical[i] # "bare"
  /\ logical[i] = "known" => addr[i] \in Addresses
  /\ logUp[i] => logical[i] = "known" /\ Connected(i)

ExactInv ==
  careful =>
    /\ \A l \in DOMAIN Links : ToldOnce(l) /\ UpAsTold(l)
    /\ \A i \in Interfaces : UpOnLinks(i)
    /\ \A d \in Devices : Exact(direct[d], UpRoutes(d))
    /\ raised = {}

-----------------------------------------------------------------------------
(* What adding a route to a table and deleting one from it do to the       *)
(* routes of the table, whatever is in it.                                 *)
LEMMA HasLeast ==
  ASSUME NEW K \in SUBSET Nat, K # {}
  PROVE  \E k \in K : \A j \in K : k <= j
<1> DEFINE R == OpToRel(<, Nat)
<1>1. R = {x \in Nat \X Nat : x[1] < x[2]}
  BY DEF OpToRel
<1>2. IsWellFoundedOn(R, Nat)
  BY NatLessThanWellFounded
<1> HIDE DEF R
<1>3. \E k \in K : \A j \in K : <<j, k>> \notin R
  BY <1>2, WFMin
<1>4. ASSUME NEW j \in Nat, NEW k \in Nat, <<j, k>> \notin R PROVE k <= j
  <2>1. ~ (j < k)
    BY <1>1, <1>4
  <2> QED
    BY <2>1
<1> QED
  BY <1>3, <1>4

LEMMA PlaceInside ==
  ASSUME NEW S, NEW s \in Seq(S), NEW r
  PROVE  Place(s, r) \in 1 .. (Len(s) + 1)
<1> DEFINE K == {k \in DOMAIN s : s[k].metric <= r.metric}
<1>1. Len(s) \in Nat /\ DOMAIN s = 1 .. Len(s)
  OBVIOUS
<1>2. IsFiniteSet(1 .. Len(s)) /\ Cardinality(1 .. Len(s)) = Len(s)
  BY <1>1, FS_Interval
<1>3. K \in SUBSET (1 .. Len(s))
  BY <1>1
<1>4. IsFiniteSet(K) /\ Cardinality(K) <= Len(s)
  BY <1>2, <1>3, FS_Subset
<1>5. Cardinality(K) \in Nat
  BY <1>4, FS_CardinalityType
<1>6. Place(s, r) = 1 + Cardinality(K)
  BY DEF Place
<1> HIDE DEF K
<1> QED
  BY <1>1, <1>4, <1>5, <1>6

LEMMA Inserted ==
  ASSUME NEW S, NEW s \in Seq(S), NEW r \in S, NEW k \in 1 .. (Len(s) + 1)
  PROVE  LET c == SE!InsertAt(s, k, r)
         IN  /\ c \in Seq(S)
             /\ Values(c) = Values(s) \cup {r}
             /\ Once(s) /\ r \notin Values(s) => Once(c)
<1> DEFINE a == SubSeq(s, 1, k - 1)
           b == SubSeq(s, k, Len(s))
           e == a \o <<r>>
           c == e \o b
<1>1. /\ a \in Seq(S) /\ Len(a) = k - 1
      /\ \A j \in 1 .. (k - 1) : a[j] = s[j]
  BY SubSeqProperties
<1>2. /\ b \in Seq(S) /\ Len(b) = Len(s) + 1 - k
      /\ \A j \in 1 .. (Len(s) + 1 - k) : b[j] = s[k + j - 1]
  BY SubSeqProperties
<1>3. <<r>> \in Seq(S) /\ Len(<<r>>) = 1 /\ <<r>>[1] = r
  OBVIOUS
<1> HIDE DEF a, b
<1>4. /\ e \in Seq(S) /\ Len(e) = k
      /\ \A j \in 1 .. (k - 1) : e[j] = a[j]
      /\ e[k] = r
  BY <1>1, <1>3, ConcatProperties
<1> HIDE DEF e
<1>5. /\ c \in Seq(S) /\ Len(c) = Len(s) + 1
      /\ \A j \in 1 .. k : c[j] = e[j]
      /\ \A j \in 1 .. (Len(s) + 1 - k) : c[k + j] = b[j]
  <2>1. /\ c \in Seq(S) /\ Len(c) = Len(e) + Len(b)
        /\ \A j \in 1 .. Len(e) + Len(b) :
             c[j] = IF j <= Len(e) THEN e[j] ELSE b[j - Len(e)]
    BY <1>2, <1>4, ConcatProperties, Zenon
  <2> HIDE DEF c
  <2> QED
    BY <2>1, <1>2, <1>4
<1>6. SE!InsertAt(s, k, r) = c
  BY DEF SE!InsertAt, a, b, c, e
<1> HIDE DEF c
<1>7. DOMAIN c = 1 .. (Len(s) + 1)
  BY <1>5
<1>8. c[k] = r
  BY <1>4, <1>5
<1>9. ASSUME NEW i \in 1 .. (Len(s) + 1)
      PROVE  c[i] = IF i < k THEN s[i] ELSE IF i = k THEN r ELSE s[i - 1]
  <2>1. CASE i < k
    <3>1. i \in 1 .. (k - 1) /\ i \in 1 .. k
      BY <2>1
    <3> QED
      BY <2>1, <3>1, <1>1, <1>4, <1>5
  <2>2. CASE i > k
    <3>1. i - k \in 1 .. (Len(s) + 1 - k) /\ k + (i - k) = i /\ k + (i - k) - 1 = i - 1
      BY <2>2
    <3>2. c[k + (i - k)] = b[i - k] /\ b[i - k] = s[k + (i - k) - 1]
      BY <3>1, <1>2, <1>5
    <3> QED
      BY <2>2, <3>1, <3>2
  <2>3. CASE i = k
    BY <2>3, <1>8
  <2> QED
    BY <2>1, <2>2, <2>3
<1>10. Len(s) \in Nat /\ DOMAIN s = 1 .. Len(s)
  OBVIOUS
<1>11. ASSUME NEW i \in DOMAIN c
      PROVE  \/ i = k /\ c[i] = r
             \/ i < k /\ i \in DOMAIN s /\ c[i] = s[i]
             \/ i > k /\ i - 1 \in DOMAIN s /\ c[i] = s[i - 1]
  BY <1>10, <1>7, <1>9
<1>12. ASSUME NEW j \in DOMAIN s PROVE \E i \in DOMAIN c : c[i] = s[j]
  <2>1. CASE j < k
    BY <2>1, <1>10, <1>7, <1>9
  <2>2. CASE ~ (j < k)
    <3>1. j + 1 \in 1 .. (Len(s) + 1) /\ ~ (j + 1 < k) /\ j + 1 # k /\ (j + 1) - 1 = j
      BY <2>2, <1>10
    <3> QED
      BY <3>1, <1>7, <1>9
  <2> QED
    BY <2>1, <2>2
<1>13. \E i \in DOMAIN c : c[i] = r
  BY <1>10, <1>7, <1>9
<1>14. Values(c) = Values(s) \cup {r}
  BY <1>11, <1>12, <1>13 DEF Values
<1>15. ASSUME Once(s), r \notin Values(s) PROVE Once(c)
  <2> SUFFICES ASSUME NEW i \in DOMAIN c, NEW j \in DOMAIN c, c[i] = c[j] PROVE i = j
    BY DEF Once
  <2>1. i \in Int /\ j \in Int
    BY <1>10, <1>7, <1>9
  <2> QED
    BY <2>1, <1>10, <1>11, <1>15 DEF Once, Values
<1> QED
  BY <1>5, <1>6, <1>14, <1>15

LEMMA RemovedAt ==
  ASSUME NEW S, NEW s \in Seq(S), NEW k \in 1 .. Len(s)
  PROVE  /\ SE!RemoveAt(s, k) \in Seq(S)
         /\ DOMAIN SE!RemoveAt(s, k) = 1 .. (Len(s) - 1)
         /\ \A i \in 1 .. (Len(s) - 1) :
              SE!RemoveAt(s, k)[i] = IF i < k THEN s[i] ELSE s[i + 1]
<1> DEFINE a == SubSeq(s, 1, k - 1)
           b == SubSeq(s, k + 1, Len(s))
           c == a \o b
<1>1. /\ a \in Seq(S) /\ Len(a) = k - 1
      /\ \A j \in 1 .. (k - 1) : a[j] = s[j]
  BY SubSeqProperties
<1>2. /\ b \in Seq(S) /\ Len(b) = Len(s) - k
      /\ \A j \in 1 .. (Len(s) - k) : b[j] = s[k + j]
  BY SubSeqProperties
<1> HIDE DEF a, b
<1>3. /\ c \in Seq(S) /\ Len(c) = Len(s) - 1
      /\ \A j \in 1 .. (k - 1) : c[j] = s[j]
      /\ \A j \in 1 .. (Len(s) - k) : c[k - 1 + j] = s[k + j]
  <2>1. /\ c \in Seq(S) /\ Len(c) = Len(a) + Len(b)
        /\ \A j \in 1 .. Len(a) + Len(b) :
             c[j] = IF j <= Len(a) THEN a[j] ELSE b[j - Len(a)]
    BY <1>1, <1>2, ConcatProperties, Zenon
  <2> HIDE DEF c
  <2>2. Len(s) \in Nat /\ Len(a) + Len(b) = Len(s) - 1
    BY <1>1, <1>2
  <2>3. ASSUME NEW j \in 1 .. (k - 1) PROVE c[j] = s[j]
    BY <2>1, <2>2, <1>1
  <2>4. ASSUME NEW j \in 1 .. (Len(s) - k) PROVE c[k - 1 + j] = s[k + j]
    <3>1. k - 1 + j \in 1 .. (Len(s) - 1) /\ ~ (k - 1 + j <= k - 1) /\ (k - 1 + j) - (k - 1) = j
      BY <2>2
    <3>2. c[k - 1 + j] = b[j]
      BY <3>1, <2>1, <2>2, <1>1
    <3> QED
      BY <3>2, <1>2
  <2> QED
    BY <2>1, <2>2, <2>3, <2>4
<1>4. SE!RemoveAt(s, k) = c
  BY DEF SE!RemoveAt, a, b
<1> HIDE DEF c
<1>5. DOMAIN c = 1 .. (Len(s) - 1)
  BY <1>3
<1>6. ASSUME NEW i \in 1 .. (Len(s) - 1) PROVE c[i] = IF i < k THEN s[i] ELSE s[i + 1]
  <2>1. CASE i < k
    BY <2>1, <1>3
  <2>2. CASE ~ (i < k)
    <3>1. i + 1 - k \in 1 .. (Len(s) - k) /\ k - 1 + (i + 1 - k) = i /\ k + (i + 1 - k) = i + 1
      BY <2>2
    <3>2. c[i] = s[i + 1]
      BY <3>1, <1>3
    <3> QED
      BY <2>2, <3>2
  <2> QED
    BY <2>1, <2>2
<1> QED
  BY <1>3, <1>4, <1>5, <1>6

LEMMA Removed ==
  ASSUME NEW S, NEW s \in Seq(S), NEW k \in 1 .. Len(s)
  PROVE  LET c == SE!RemoveAt(s, k)
         IN  /\ c \in Seq(S)
             /\ Values(c) = {s[j] : j \in DOMAIN s \ {k}}
             /\ Once(s) => Once(c)
<1> DEFINE c == SE!RemoveAt(s, k)
<1>1. Len(s) \in Nat /\ DOMAIN s = 1 .. Len(s)
  OBVIOUS
<1>2. /\ c \in Seq(S) /\ DOMAIN c = 1 .. (Len(s) - 1)
      /\ \A i \in 1 .. (Len(s) - 1) : c[i] = IF i < k THEN s[i] ELSE s[i + 1]
  BY RemovedAt
<1> HIDE DEF c
<1>3. ASSUME NEW i \in DOMAIN c
      PROVE  \/ i < k /\ i \in DOMAIN s \ {k} /\ c[i] = s[i]
             \/ i >= k /\ i + 1 \in DOMAIN s \ {k} /\ c[i] = s[i + 1]
  BY <1>1, <1>2
<1>4. ASSUME NEW j \in DOMAIN s \ {k} PROVE \E i \in DOMAIN c : c[i] = s[j]
  <2>1. CASE j < k
    BY <2>1, <1>1, <1>2
  <2>2. CASE ~ (j < k)
    <3>1. j - 1 \in 1 .. (Len(s) - 1) /\ ~ (j - 1 < k) /\ (j - 1) + 1 = j
      BY <2>2, <1>1
    <3> QED
      BY <3>1, <1>2
  <2> QED
    BY <2>1, <2>2
<1>5. Values(c) = {s[j] : j \in DOMAIN s \ {k}}
  BY <1>3, <1>4 DEF Values
<1>6. ASSUME Once(s) PROVE Once(c)
  <2> SUFFICES ASSUME NEW i \in DOMAIN c, NEW j \in DOMAIN c, c[i] = c[j] PROVE i = j
    BY DEF Once
  <2>1. i \in Int /\ j \in Int
    BY <1>1, <1>2
  <2> QED
    BY <2>1, <1>1, <1>3, <1>6 DEF Once
<1> QED
  BY <1>2, <1>5, <1>6 DEF c

LEMMA RoutesAre ==
  ASSUME NEW P, NEW S, NEW t \in [P -> Seq(S)], NEW x
  PROVE  x \in RoutesOf(t) <=> \E p \in P : x \in Values(t[p])
BY DEF RoutesOf, Values

(* What a list s becomes when r comes to it, and when r is taken from it.  *)
GrownBy(s, u, r) == Values(u) = Values(s) \cup {r} /\ (Once(s) /\ r \notin Values(s) => Once(u))

ShrunkBy(s, u, r) ==
  \E x \in Values(s) :
    SameRoute(x, r) /\ Values(s) \ {x} \subseteq Values(u)
                    /\ (Once(s) => Once(u) /\ Values(u) = Values(s) \ {x})

(* Adding changes the list of one prefix.                                  *)
LEMMA AddedAt ==
  ASSUME NEW P, NEW S, NEW t \in [P -> Seq(S)], NEW r \in S, r.prefix \in P
  PROVE  /\ Added(t, r) \in [P -> Seq(S)]
         /\ GrownBy(t[r.prefix], Added(t, r)[r.prefix], r)
         /\ \A q \in P \ {r.prefix} : Added(t, r)[q] = t[q]
<1> DEFINE p == r.prefix
           s == t[p]
           k == Place(s, r)
           new == SE!InsertAt(s, k, r)
           u == Added(t, r)
<1>1. s \in Seq(S)
  OBVIOUS
<1>2. u = [t EXCEPT ![p] = new]
  BY DEF Added
<1>3. k \in 1 .. (Len(s) + 1)
  <2> HIDE DEF s
  <2> QED
    BY <1>1, PlaceInside
<1>4. new \in Seq(S) /\ GrownBy(s, new, r)
  <2> HIDE DEF s, k
  <2> QED
    BY <1>1, <1>3, Inserted DEF GrownBy
<1> HIDE DEF new, u, k
<1>5. u \in [P -> Seq(S)] /\ u[p] = new /\ \A q \in P \ {p} : u[q] = t[q]
  BY <1>2, <1>4
<1> QED
  BY <1>4, <1>5 DEF u

(* Deleting changes the list of one prefix, or nothing.                    *)
LEMMA DeletedAt ==
  ASSUME NEW P, NEW S, NEW t \in [P -> Seq(S)], NEW r \in S, r.prefix \in P, HoldsRoute(t, r)
  PROVE  /\ Deleted(t, r) \in [P -> Seq(S)]
         /\ ShrunkBy(t[r.prefix], Deleted(t, r)[r.prefix], r)
         /\ \A q \in P \ {r.prefix} : Deleted(t, r)[q] = t[q]
<1> DEFINE p == r.prefix
           s == t[p]
           f == FirstSame(s, r)
           new == SE!RemoveAt(s, f)
           u == Deleted(t, r)
           K == {k \in DOMAIN s : SameRoute(s[k], r)}
           First(k) == SameRoute(s[k], r) /\ \A j \in 1 .. (k - 1) : ~ SameRoute(s[j], r)
<1>1. s \in Seq(S) /\ DOMAIN s = 1 .. Len(s) /\ Len(s) \in Nat
  OBVIOUS
<1>2. u = [t EXCEPT ![p] = new]
  BY DEF Deleted
<1>3. \E k \in DOMAIN s : SameRoute(s[k], r)
  BY DEF HoldsRoute
<1> HIDE DEF s
<1>4. PICK k \in K : \A j \in K : k <= j
  <2>1. K \in SUBSET Nat /\ K # {}
    BY <1>1, <1>3
  <2> HIDE DEF K
  <2> QED
    BY <2>1, HasLeast
<1>5. k \in DOMAIN s /\ First(k)
  <2>1. ASSUME NEW j \in 1 .. (k - 1), SameRoute(s[j], r) PROVE FALSE
    BY <2>1, <1>1, <1>4
  <2> QED
    BY <2>1, <1>4
<1>6. f \in DOMAIN s /\ SameRoute(s[f], r)
  <2>1. f = CHOOSE i \in DOMAIN s : First(i)
    BY DEF FirstSame
  <2> QED
    BY <1>5, <2>1
<1>7. /\ new \in Seq(S)
      /\ Values(new) = {s[j] : j \in DOMAIN s \ {f}}
      /\ Once(s) => Once(new)
  <2> HIDE DEF f
  <2>1. f \in 1 .. Len(s)
    BY <1>1, <1>6
  <2> QED
    BY <1>1, <2>1, Removed
<1>8. ShrunkBy(s, new, r)
  <2> HIDE DEF new, f
  <2>1. s[f] \in Values(s) /\ Values(s) \ {s[f]} \subseteq Values(new)
    BY <1>6, <1>7 DEF Values
  <2>2. ASSUME Once(s) PROVE Values(new) = Values(s) \ {s[f]}
    BY <1>6, <1>7, <2>2 DEF Values, Once
  <2> QED
    BY <1>6, <1>7, <2>1, <2>2 DEF ShrunkBy
<1> HIDE DEF new, f, u
<1>9. u \in [P -> Seq(S)] /\ u[p] = new /\ \A q \in P \ {p} : u[q] = t[q]
  BY <1>2, <1>7
<1> QED
  BY <1>8, <1>9 DEF u, s

(* Adding keeps the routes there are.                                      *)
LEMMA AddedRoutes ==
  ASSUME NEW P, NEW S, NEW t \in [P -> Seq(S)], NEW r \in S, r.prefix \in P
  PROVE  /\ Added(t, r) \in [P -> Seq(S)]
         /\ RoutesOf(t) \cup {r} \subseteq RoutesOf(Added(t, r))
<1> DEFINE u == Added(t, r)
<1> HIDE DEF u
<1>1. /\ u \in [P -> Seq(S)]
      /\ GrownBy(t[r.prefix], u[r.prefix], r)
      /\ \A q \in P \ {r.prefix} : u[q] = t[q]
  BY AddedAt, SMTT(20) DEF u
<1>2. \A q \in P : Values(t[q]) \subseteq Values(u[q])
  BY <1>1 DEF GrownBy
<1>3. r \in Values(u[r.prefix])
  BY <1>1 DEF GrownBy
<1>4. ASSUME NEW x \in RoutesOf(t) \cup {r} PROVE x \in RoutesOf(u)
  <2>1. PICK p \in P : x \in Values(u[p])
    BY <1>2, <1>3, <1>4, RoutesAre
  <2>2. u \in [P -> Seq(S)]
    BY <1>1
  <2> QED
    BY <2>1, <2>2, RoutesAre
<1> QED
  BY <1>1, <1>4 DEF u

(* Deleting takes nothing but routes equal to r.                           *)
LEMMA DeletedRoutes ==
  ASSUME NEW P, NEW S, NEW t \in [P -> Seq(S)], NEW r \in S, r.prefix \in P
  PROVE  /\ Deleted(t, r) \in [P -> Seq(S)]
         /\ \A x \in RoutesOf(t) : ~ SameRoute(x, r) => x \in RoutesOf(Deleted(t, r))
<1>1. CASE ~ HoldsRoute(t, r)
  BY <1>1 DEF Deleted
<1>2. CASE HoldsRoute(t, r)
  <2> DEFINE u == Deleted(t, r)
  <2>1. /\ u \in [P -> Seq(S)]
        /\ ShrunkBy(t[r.prefix], u[r.prefix], r)
        /\ \A q \in P \ {r.prefix} : u[q] = t[q]
    BY <1>2, DeletedAt, SMTT(20)
  <2> HIDE DEF u
  <2>2. ASSUME NEW q \in P, NEW x \in Values(t[q]), ~ SameRoute(x, r) PROVE x \in Values(u[q])
    BY <2>1, <2>2 DEF ShrunkBy
  <2>3. ASSUME NEW x \in RoutesOf(t), ~ SameRoute(x, r) PROVE x \in RoutesOf(u)
    <3>1. PICK q \in P : x \in Values(t[q])
      BY <2>3, RoutesAre
    <3>2. x \in Values(u[q])
      BY <2>2, <2>3, <3>1
    <3>3. u \in [P -> Seq(S)]
      BY <2>1
    <3> QED
      BY <3>2, <3>3, RoutesAre
  <2> QED
    BY <2>1, <2>3 DEF u
<1> QED
  BY <1>1, <1>2

-----------------------------------------------------------------------------
LEMMA RouteTypes ==
  ASSUME NEW i \in Interfaces, NEW a \in Addresses
  PROVE  /\ Connection(i, a) \in Route /\ Local(i, a) \in Route
         /\ \A x : x.interface # i =>
              ~ SameRoute(x, Connection(i, a)) /\ ~ SameRoute(x, Local(i, a))
BY AddressesAssumption DEF Route, Connection, Local, SameRoute

LEMMA RoutesCome ==
  ASSUME NEW t \in Table, NEW i \in Interfaces, NEW a \in Addresses
  PROVE  /\ WithRoutes(t, i, a) \in Table
         /\ RoutesOf(t) \cup {Connection(i, a), Local(i, a)} \subseteq RoutesOf(WithRoutes(t, i, a))
<1> DEFINE u == Added(t, Connection(i, a))
<1>1. Connection(i, a) \in Route /\ Local(i, a) \in Route
  BY RouteTypes
<1>2. Connection(i, a).prefix \in Prefixes /\ Local(i, a).prefix \in Prefixes
  BY <1>1 DEF Route
<1>3. u \in Table /\ RoutesOf(t) \cup {Connection(i, a)} \subseteq RoutesOf(u)
  BY <1>1, <1>2, AddedRoutes DEF Table
<1> HIDE DEF u
<1>4. Added(u, Local(i, a)) \in Table /\ RoutesOf(u) \cup {Local(i, a)} \subseteq RoutesOf(Added(u, Local(i, a)))
  BY <1>1, <1>2, <1>3, AddedRoutes DEF Table
<1> QED
  BY <1>3, <1>4 DEF WithRoutes, u

LEMMA OthersStay ==
  ASSUME NEW t \in Table, NEW i \in Interfaces, NEW a \in Addresses
  PROVE  /\ WithoutRoutes(t, i, a) \in Table
         /\ \A x \in RoutesOf(t) : x.interface # i => x \in RoutesOf(WithoutRoutes(t, i, a))
<1> DEFINE u == Deleted(t, Connection(i, a))
<1>1. Connection(i, a) \in Route /\ Local(i, a) \in Route
  BY RouteTypes
<1>2. Connection(i, a).prefix \in Prefixes /\ Local(i, a).prefix \in Prefixes
  BY <1>1 DEF Route
<1>3. u \in Table /\ \A x \in RoutesOf(t) : ~ SameRoute(x, Connection(i, a)) => x \in RoutesOf(u)
  BY <1>1, <1>2, DeletedRoutes DEF Table
<1> HIDE DEF u
<1>4. /\ Deleted(u, Local(i, a)) \in Table
      /\ \A x \in RoutesOf(u) : ~ SameRoute(x, Local(i, a)) => x \in RoutesOf(Deleted(u, Local(i, a)))
  BY <1>1, <1>2, <1>3, DeletedRoutes DEF Table
<1> QED
  BY <1>3, <1>4, RouteTypes DEF WithoutRoutes, u

(* A step that changes one interface, and of the table of its device only  *)
(* routes of that interface.                                               *)
LEMMA OneChanges ==
  ASSUME Shaped, UpMeansRouted, NEW i \in Interfaces, NEW u \in Table,
         direct' = [direct EXCEPT ![Owner[i]] = u],
         \A x \in RoutesOf(direct[Owner[i]]) : x.interface # i => x \in RoutesOf(u),
         \A j \in Interfaces \ {i} : logUp'[j] = logUp[j] /\ addr'[j] = addr[j],
         logUp'[i] /\ addr'[i] # None =>
           {Connection(i, addr'[i]), Local(i, addr'[i])} \subseteq RoutesOf(u)
  PROVE  UpMeansRouted' /\ direct' \in [Devices -> Table]
<1>1. \A j \in Interfaces : Owner[j] \in Devices
  BY DevicesAssumption
<1>2. /\ direct' \in [Devices -> Table] /\ direct'[Owner[i]] = u
      /\ \A d \in Devices \ {Owner[i]} : direct'[d] = direct[d]
  BY <1>1 DEF Shaped
<1>3. ASSUME NEW j \in Interfaces, Owner[j] \in Hosts, logUp'[j], addr'[j] # None
      PROVE  Expected(j)' \subseteq RoutesOf(direct'[Owner[j]])
  <2>1. CASE j = i
    BY <2>1, <1>2, <1>3 DEF Expected
  <2>2. CASE j # i
    <3>1. Expected(j)' = Expected(j) /\ Expected(j) \subseteq RoutesOf(direct[Owner[j]])
      BY <2>2, <1>3 DEF Expected, UpMeansRouted
    <3>2. \A x \in Expected(j) : x.interface = j
      BY DEF Expected, Connection, Local
    <3>3. CASE Owner[j] = Owner[i]
      BY <2>2, <3>1, <3>2, <3>3, <1>2
    <3>4. CASE Owner[j] # Owner[i]
      BY <3>1, <3>4, <1>1, <1>2
    <3> QED
      BY <3>3, <3>4
  <2> QED
    BY <2>1, <2>2
<1> QED
  BY <1>2, <1>3 DEF UpMeansRouted

-----------------------------------------------------------------------------
LEMMA RoutesInit == Init => RoutesInv
<1> SUFFICES ASSUME Init PROVE RoutesInv
  OBVIOUS
<1>1. [p \in Prefixes |-> << >>] \in Table
  BY DEF Table
<1> QED
  BY <1>1 DEF Init, RoutesInv, Shaped, AddressedKnown, UpMeansRouted

(* A notice: the logical interface comes up with its routes, or goes down. *)
LEMMA EndMovesRoutes ==
  ASSUME RoutesInv, NEW l \in DOMAIN Links, NEW n \in Notice, EndMoves(l, n)
  PROVE  RoutesInv'
<1> DEFINE i == n.end
           t == direct[Owner[i]]
<1>1. i \in Interfaces /\ n.up \in BOOLEAN /\ Owner[i] \in Devices
  BY DevicesAssumption DEF Notice
<1>2. Shaped /\ UpMeansRouted /\ AddressedKnown
  BY DEF RoutesInv
<1>3. t \in Table
  BY <1>1, <1>2 DEF Shaped
<1>4. DOMAIN agenda' = DOMAIN Links /\ phyUp' \in [Interfaces -> BOOLEAN]
  BY <1>1, <1>2 DEF EndMoves, Shaped
<1>5. UNCHANGED <<careful, linkUp, commands, logical, addr>>
  BY DEF EndMoves
<1>6. CASE logical[i] = "absent"
  <2>1. UNCHANGED <<logUp, direct>>
    BY <1>6 DEF EndMoves
  <2> QED
    BY <2>1, <1>2, <1>4, <1>5
       DEF RoutesInv, Shaped, AddressedKnown, UpMeansRouted, Expected
<1>7. CASE logical[i] # "absent"
  <2>1. LogicalMoves(i, n.up)
    BY <1>7 DEF EndMoves
  <2>2. /\ logUp' \in [Interfaces -> BOOLEAN] /\ logUp'[i] = n.up
        /\ \A j \in Interfaces \ {i} : logUp'[j] = logUp[j]
    BY <2>1, <1>1, <1>2 DEF LogicalMoves, Shaped
  <2>3. addr[i] \in Addresses \cup {None}
    BY <1>1, <1>2 DEF Shaped
  <2>4. \E u \in Table :
          /\ direct' = [direct EXCEPT ![Owner[i]] = u]
          /\ \A x \in RoutesOf(t) : x.interface # i => x \in RoutesOf(u)
          /\ n.up /\ addr[i] # None => {Connection(i, addr[i]), Local(i, addr[i])} \subseteq RoutesOf(u)
    <3>1. CASE addr[i] = None
      <4>1. direct' = direct
        BY <3>1, <2>1 DEF LogicalMoves, LogicalUp, LogicalDown
      <4>2. direct' = [direct EXCEPT ![Owner[i]] = t]
        BY <4>1, <1>1, <1>2 DEF Shaped
      <4> QED
        BY <4>2, <3>1, <1>3
    <3>2. CASE addr[i] # None /\ n.up
      <4> DEFINE u == WithRoutes(t, i, addr[i])
      <4>1. direct' = [direct EXCEPT ![Owner[i]] = u]
        BY <3>2, <2>1 DEF LogicalMoves, LogicalUp
      <4>2. u \in Table /\ RoutesOf(t) \cup {Connection(i, addr[i]), Local(i, addr[i])} \subseteq RoutesOf(u)
        BY <3>2, <2>3, <1>1, <1>3, RoutesCome
      <4> HIDE DEF u
      <4> QED
        BY <4>1, <4>2
    <3>3. CASE addr[i] # None /\ ~ n.up
      <4> DEFINE u == WithoutRoutes(t, i, addr[i])
      <4>1. direct' = [direct EXCEPT ![Owner[i]] = u]
        BY <3>3, <2>1 DEF LogicalMoves, LogicalDown
      <4>2. u \in Table /\ \A x \in RoutesOf(t) : x.interface # i => x \in RoutesOf(u)
        BY <3>3, <2>3, <1>1, <1>3, OthersStay
      <4> HIDE DEF u
      <4> QED
        BY <4>1, <4>2, <3>3
    <3> QED
      BY <3>1, <3>2, <3>3
  <2>5. PICK u \in Table :
          /\ direct' = [direct EXCEPT ![Owner[i]] = u]
          /\ \A x \in RoutesOf(t) : x.interface # i => x \in RoutesOf(u)
          /\ n.up /\ addr[i] # None => {Connection(i, addr[i]), Local(i, addr[i])} \subseteq RoutesOf(u)
    BY <2>4
  <2>6. UpMeansRouted' /\ direct' \in [Devices -> Table]
    <3> HIDE DEF i
    <3> QED
      BY <2>5, <2>2, <1>1, <1>2, <1>5, OneChanges DEF i
  <2> QED
    BY <2>2, <2>6, <1>2, <1>4, <1>5 DEF RoutesInv, Shaped, AddressedKnown
<1> QED
  BY <1>6, <1>7

LEMMA FirstFrameRoutes ==
  ASSUME RoutesInv, NEW i \in Interfaces, FirstFrame(i)
  PROVE  RoutesInv'
<1>1. Shaped /\ UpMeansRouted /\ AddressedKnown
  BY DEF RoutesInv
<1>2. PhyIsUp(i) \in BOOLEAN
  BY <1>1 DEF Shaped, PhyIsUp
<1>3. addr[i] = None
  BY <1>1 DEF FirstFrame, AddressedKnown
<1>4. /\ logUp' \in [Interfaces -> BOOLEAN] /\ logical' \in [Interfaces -> {"absent", "bare", "known"}]
      /\ \A j \in Interfaces \ {i} : logUp'[j] = logUp[j] /\ logical'[j] = logical[j]
      /\ logical'[i] = "bare"
      /\ UNCHANGED <<careful, linkUp, commands, agenda, phyUp, addr, direct>>
  BY <1>1, <1>2 DEF FirstFrame, Shaped
<1> QED
  BY <1>1, <1>3, <1>4 DEF RoutesInv, Shaped, AddressedKnown, UpMeansRouted, Expected

LEMMA AddLogicalInterfaceRoutes ==
  ASSUME RoutesInv, NEW i \in Interfaces, NEW a \in Addresses, AddLogicalInterface(i, a)
  PROVE  RoutesInv'
<1> DEFINE t == direct[Owner[i]]
           u == IF PhyIsUp(i) THEN WithRoutes(t, i, a) ELSE t
<1>1. Shaped /\ UpMeansRouted /\ AddressedKnown
  BY DEF RoutesInv
<1>2. PhyIsUp(i) \in BOOLEAN
  BY <1>1 DEF Shaped, PhyIsUp
<1>3. Owner[i] \in Devices /\ t \in Table
  BY <1>1, DevicesAssumption DEF Shaped
<1>4. /\ logUp' \in [Interfaces -> BOOLEAN] /\ logUp'[i] = PhyIsUp(i)
      /\ logical' \in [Interfaces -> {"absent", "bare", "known"}]
      /\ addr' \in [Interfaces -> Addresses \cup {None}] /\ addr'[i] = a
      /\ logical'[i] = "known"
      /\ \A j \in Interfaces \ {i} : /\ logUp'[j] = logUp[j] /\ addr'[j] = addr[j]
                                     /\ logical'[j] = logical[j]
      /\ UNCHANGED <<careful, linkUp, commands, agenda, phyUp>>
  BY <1>1, <1>2 DEF AddLogicalInterface, Shaped
<1>5. direct' = [direct EXCEPT ![Owner[i]] = u]
  BY <1>1, <1>3 DEF AddLogicalInterface, Shaped
<1>6. /\ u \in Table /\ RoutesOf(t) \subseteq RoutesOf(u)
      /\ PhyIsUp(i) => {Connection(i, a), Local(i, a)} \subseteq RoutesOf(u)
  BY <1>3, RoutesCome
<1> HIDE DEF u
<1>7. UpMeansRouted' /\ direct' \in [Devices -> Table]
  BY <1>1, <1>4, <1>5, <1>6, OneChanges
<1> QED
  BY <1>1, <1>4, <1>7 DEF RoutesInv, Shaped, AddressedKnown

LEMMA AddIpAddressRoutes ==
  ASSUME RoutesInv, NEW i \in Interfaces, NEW a \in Addresses, AddIpAddress(i, a)
  PROVE  RoutesInv'
<1> DEFINE known == logical[i] = "known"
           isUp  == IF known THEN logUp[i] ELSE PhyIsUp(i)
           t     == direct[Owner[i]]
           t1    == IF isUp /\ ~ known THEN WithRoutes(t, i, a) ELSE t
           u     == IF isUp THEN WithRoutes(t1, i, a) ELSE WithoutRoutes(t1, i, a)
<1>1. Shaped /\ UpMeansRouted /\ AddressedKnown
  BY DEF RoutesInv
<1>2. isUp \in BOOLEAN
  BY <1>1 DEF Shaped, PhyIsUp
<1>3. Owner[i] \in Devices /\ t \in Table
  BY <1>1, DevicesAssumption DEF Shaped
<1>4. /\ logUp' = [logUp EXCEPT ![i] = isUp] /\ addr' = [addr EXCEPT ![i] = a]
      /\ logical' = [logical EXCEPT ![i] = "known"]
      /\ direct' = [direct EXCEPT ![Owner[i]] = u]
      /\ UNCHANGED <<careful, linkUp, commands, agenda, phyUp>>
  BY DEF AddIpAddress
<1> HIDE DEF isUp, t
<1>5. t1 \in Table /\ RoutesOf(t) \subseteq RoutesOf(t1)
  BY <1>3, RoutesCome
<1> HIDE DEF t1
<1>6. /\ u \in Table
      /\ \A x \in RoutesOf(t1) : x.interface # i => x \in RoutesOf(u)
      /\ isUp => {Connection(i, a), Local(i, a)} \subseteq RoutesOf(u)
  BY <1>5, RoutesCome, OthersStay
<1> HIDE DEF u
<1>7. /\ logUp' \in [Interfaces -> BOOLEAN] /\ logUp'[i] = isUp
      /\ logical' \in [Interfaces -> {"absent", "bare", "known"}]
      /\ addr' \in [Interfaces -> Addresses \cup {None}] /\ addr'[i] = a
      /\ logical'[i] = "known"
      /\ \A j \in Interfaces \ {i} : /\ logUp'[j] = logUp[j] /\ addr'[j] = addr[j]
                                     /\ logical'[j] = logical[j]
  BY <1>1, <1>2, <1>4 DEF Shaped
<1>8. UpMeansRouted' /\ direct' \in [Devices -> Table]
  <2>1. \A x \in RoutesOf(direct[Owner[i]]) : x.interface # i => x \in RoutesOf(u)
    BY <1>5, <1>6 DEF t
  <2> QED
    BY <2>1, <1>1, <1>4, <1>6, <1>7, OneChanges
<1> QED
  BY <1>1, <1>4, <1>7, <1>8 DEF RoutesInv, Shaped, AddressedKnown

LEMMA RouterAddIpAddressRoutes ==
  ASSUME RoutesInv, NEW i \in Interfaces, NEW a \in Addresses, RouterAddIpAddress(i, a)
  PROVE  RoutesInv'
<1>1. Shaped /\ UpMeansRouted /\ AddressedKnown
  BY DEF RoutesInv
<1>2. Owner[i] \notin Hosts
  BY DevicesAssumption DEF RouterAddIpAddress
<1>3. /\ addr' \in [Interfaces -> Addresses \cup {None}]
      /\ \A j \in Interfaces \ {i} : addr'[j] = addr[j]
      /\ logical[i] = "known"
      /\ UNCHANGED <<careful, linkUp, commands, agenda, phyUp, logical, logUp, direct>>
  BY <1>1 DEF RouterAddIpAddress, Shaped
<1> QED
  BY <1>1, <1>2, <1>3 DEF RoutesInv, Shaped, AddressedKnown, UpMeansRouted, Expected

LEMMA RoutesNext == RoutesInv /\ [Next]_vars => RoutesInv'
<1> SUFFICES ASSUME RoutesInv, [Next]_vars PROVE RoutesInv'
  OBVIOUS
<1>1. CASE UNCHANGED vars
  BY <1>1 DEF vars, RoutesInv, Shaped, AddressedKnown, UpMeansRouted, Expected
<1>2. ASSUME NEW l \in DOMAIN Links, NEW n \in Notice, EndMoves(l, n) PROVE RoutesInv'
  BY <1>2, EndMovesRoutes
<1>3. ASSUME NEW l \in DOMAIN Links, NEW s \in BOOLEAN, LinkMove(l, s) PROVE RoutesInv'
  <2>1. UNCHANGED <<careful, phyUp, logical, logUp, addr, direct>>
    BY <1>3 DEF LinkMove
  <2>2. /\ linkUp' \in [DOMAIN Links -> BOOLEAN] /\ commands' \in [DOMAIN Links -> Nat]
        /\ DOMAIN agenda' = DOMAIN Links
    BY <1>3 DEF LinkMove, RoutesInv, Shaped
  <2> QED
    BY <2>1, <2>2 DEF RoutesInv, Shaped, AddressedKnown, UpMeansRouted, Expected
<1>4. ASSUME NEW i \in Interfaces, FirstFrame(i) PROVE RoutesInv'
  BY <1>4, FirstFrameRoutes
<1>5. ASSUME NEW i \in Interfaces, NEW a \in Addresses, AddLogicalInterface(i, a) PROVE RoutesInv'
  BY <1>5, AddLogicalInterfaceRoutes
<1>6. ASSUME NEW i \in Interfaces, NEW a \in Addresses, AddIpAddress(i, a) PROVE RoutesInv'
  BY <1>6, AddIpAddressRoutes
<1>7. ASSUME NEW i \in Interfaces, NEW a \in Addresses, RouterAddIpAddress(i, a) PROVE RoutesInv'
  BY <1>7, RouterAddIpAddressRoutes
<1> QED
  BY <1>1, <1>2, <1>3, <1>4, <1>5, <1>6, <1>7 DEF Next, Run, Setting

(* An interface of a host that is up has its routes, for any devices,      *)
(* links and addresses and whatever order events come in (server.py:59-91, *)
(* routing.py:223).                                                        *)
THEOREM UpAlwaysRouted == Spec => []UpMeansRouted
<1>1. RoutesInv => UpMeansRouted
  BY DEF RoutesInv
<1> QED
  BY <1>1, RoutesInit, RoutesNext, PTL DEF Spec

-----------------------------------------------------------------------------
LEMMA EndsInit == Init => EndsInv
BY DEF Init, EndsInv, OneInstant, Follows

(* Of the notices of its one instant one has run.                          *)
LEMMA OneLess ==
  ASSUME NEW l, NEW I, agenda[l] = <<I>>, NEW n \in I.notices
  PROVE  \/ Heard(l, n) = << >> /\ I.notices \ {n} = {}
         \/ \E J : /\ Heard(l, n) = <<J>> /\ J.notices = I.notices \ {n}
                  /\ J.notices # {}
<1>1. Head(agenda[l]) = I /\ Tail(agenda[l]) = << >>
  OBVIOUS
<1> DEFINE J == [fresh |-> FALSE, notices |-> I.notices \ {n}]
<1>2. <<J>> \o << >> = <<J>>
  OBVIOUS
<1> QED
  BY <1>1, <1>2 DEF Heard

LEMMA LinkMoveEnds ==
  ASSUME Shaped, EndsInv, careful, NEW l \in DOMAIN Links, NEW s \in BOOLEAN, LinkMove(l, s)
  PROVE  EndsInv'
<1> DEFINE I == [fresh |-> TRUE, notices |-> Notices(l, s)]
<1>1. agenda[l] = << >>
  BY DEF LinkMove
<1>2. agenda' = [agenda EXCEPT ![l] = Later(l, s)] /\ Later(l, s) = <<I>>
  <2>1. Append(<< >>, I) = <<I>>
    OBVIOUS
  <2>2. agenda' = [agenda EXCEPT ![l] = Later(l, s)]
    BY <1>1 DEF LinkMove
  <2> QED
    BY <1>1, <2>1, <2>2 DEF Later
<1>3. /\ agenda'[l] = <<I>> /\ linkUp'[l] = s
      /\ \A m \in DOMAIN Links \ {l} : /\ agenda'[m] = agenda[m] /\ linkUp'[m] = linkUp[m]
                                     /\ commands'[m] = commands[m]
      /\ UNCHANGED <<careful, phyUp>>
  BY <1>2 DEF LinkMove, Shaped
<1>4. /\ \A n \in I.notices : n.end \in Links[l] /\ n.up = s
      /\ \A i \in Links[l] : \E n \in I.notices : n.end = i
  <2>1. I.notices = {[end |-> i, up |-> s, number |-> commands[l]] : i \in Links[l]}
    BY DEF Notices
  <2> HIDE DEF I
  <2>2. ASSUME NEW i \in Links[l] PROVE \E n \in I.notices : n.end = i
    <3>1. [end |-> i, up |-> s, number |-> commands[l]] \in I.notices
      BY <2>1
    <3> QED
      BY <3>1
  <2> QED
    BY <2>1, <2>2
<1> HIDE DEF I
<1>5. OneInstant(l)' /\ Follows(l)'
  <2>1. OneInstant(l)'
    BY <1>3, <1>4 DEF OneInstant
  <2>2. \A i \in Links[l] : Tells(l, i)'
    BY <1>3, <1>4 DEF Tells
  <2> QED
    BY <2>1, <2>2 DEF Follows
<1>6. \A m \in DOMAIN Links \ {l} : OneInstant(m)' /\ Follows(m)'
  BY <1>3 DEF EndsInv, OneInstant, Follows, Tells
<1> QED
  BY <1>5, <1>6 DEF EndsInv

LEMMA EndMovesEnds ==
  ASSUME Shaped, EndsInv, careful, NEW l \in DOMAIN Links, NEW n \in Notice, EndMoves(l, n)
  PROVE  EndsInv'
<1>1. agenda[l] # << >> /\ n \in Head(agenda[l]).notices
  BY DEF EndMoves
<1>2. PICK I : /\ agenda[l] = <<I>>
               /\ \A x \in I.notices : x.end \in Links[l] /\ x.up = linkUp[l]
  BY <1>1 DEF EndsInv, OneInstant
<1>3. Head(agenda[l]) = I /\ n \in I.notices /\ n.end \in Links[l] /\ n.up = linkUp[l]
  BY <1>1, <1>2
<1>4. /\ agenda'[l] = Heard(l, n)
      /\ \A m \in DOMAIN Links \ {l} : agenda'[m] = agenda[m]
      /\ UNCHANGED <<careful, linkUp, commands>>
  BY DEF EndMoves, Shaped
<1>5. n.end \in Interfaces
  BY DEF Notice
<1>6. phyUp'[n.end] = linkUp[l] /\ \A i \in Interfaces \ {n.end} : phyUp'[i] = phyUp[i]
  BY <1>3, <1>5 DEF EndMoves, Shaped
<1>7. \A m \in DOMAIN Links : Links[m] \subseteq Interfaces /\ (m # l => n.end \notin Links[m])
  BY <1>3, DevicesAssumption
<1>8. OneInstant(l)' /\ Follows(l)'
  <2>1. CASE Heard(l, n) = << >> /\ I.notices \ {n} = {}
    <3>1. ASSUME commands[l] > 0, NEW i \in Links[l] PROVE phyUp'[i] = linkUp[l]
      <4>1. CASE i = n.end
        BY <4>1, <1>6
      <4>2. CASE i # n.end
        <5>1. ~ \E x \in I.notices : x.end = i
          BY <2>1, <4>2
        <5>2. phyUp[i] = linkUp[l]
          BY <5>1, <1>3, <3>1 DEF EndsInv, Follows, Tells
        <5> QED
          BY <5>2, <4>2, <1>6, <1>7
      <4> QED
        BY <4>1, <4>2
    <3> QED
      BY <3>1, <2>1, <1>4 DEF OneInstant, Follows
  <2>2. CASE \E J : /\ Heard(l, n) = <<J>> /\ J.notices = I.notices \ {n}
                  /\ J.notices # {}
    <3>1. PICK J : Heard(l, n) = <<J>> /\ J.notices = I.notices \ {n}
      BY <2>2
    <3>2. OneInstant(l)'
      BY <3>1, <1>2, <1>4 DEF OneInstant
    <3>3. ASSUME commands[l] > 0, NEW i \in Links[l] PROVE phyUp'[i] = linkUp[l] \/ Tells(l, i)'
      <4>1. CASE i = n.end
        BY <4>1, <1>6
      <4>2. CASE i # n.end /\ phyUp[i] = linkUp[l]
        BY <4>2, <1>6, <1>7
      <4>3. CASE i # n.end /\ phyUp[i] # linkUp[l]
        <5>1. PICK x \in I.notices : x.end = i
          BY <4>3, <1>3, <3>3 DEF EndsInv, Follows, Tells
        <5>2. x \in J.notices
          BY <5>1, <4>3, <3>1
        <5>3. agenda'[l] = <<J>> /\ Head(<<J>>) = J /\ <<J>> # << >>
          BY <3>1, <1>4
        <5> QED
          BY <5>1, <5>2, <5>3 DEF Tells
      <4> QED
        BY <4>1, <4>2, <4>3
    <3> QED
      BY <3>2, <3>3, <1>4 DEF Follows
  <2> QED
    BY <2>1, <2>2, <1>2, <1>3, OneLess
<1>9. ASSUME NEW m \in DOMAIN Links \ {l} PROVE OneInstant(m)' /\ Follows(m)'
  <2>1. OneInstant(m) /\ Follows(m)
    BY DEF EndsInv
  <2>2. \A i \in Links[m] : phyUp'[i] = phyUp[i]
    BY <1>6, <1>7
  <2> QED
    BY <2>1, <2>2, <1>4 DEF OneInstant, Follows, Tells
<1> QED
  BY <1>8, <1>9 DEF EndsInv

LEMMA EndsNext == Shaped /\ EndsInv /\ [Next]_vars => EndsInv'
<1> SUFFICES ASSUME Shaped, EndsInv, [Next]_vars, careful' PROVE EndsInv'
  BY DEF EndsInv
<1>1. careful
  BY DEF Next, vars, Run, Setting, EndMoves, LinkMove, FirstFrame, AddLogicalInterface,
         AddIpAddress, RouterAddIpAddress
<1>2. ASSUME NEW l \in DOMAIN Links, NEW n \in Notice, EndMoves(l, n) PROVE EndsInv'
  BY <1>1, <1>2, EndMovesEnds
<1>3. ASSUME NEW l \in DOMAIN Links, NEW s \in BOOLEAN, LinkMove(l, s) PROVE EndsInv'
  BY <1>1, <1>3, LinkMoveEnds
<1>4. CASE UNCHANGED <<linkUp, commands, agenda, phyUp>>
  BY <1>1, <1>4 DEF EndsInv, OneInstant, Follows, Tells
<1>5. CASE UNCHANGED vars
  BY <1>4, <1>5 DEF vars
<1>6. ASSUME NEW i \in Interfaces, FirstFrame(i) PROVE EndsInv'
  BY <1>4, <1>6 DEF FirstFrame
<1>7. CASE Setting
  <2>1. UNCHANGED <<linkUp, commands, agenda, phyUp>>
    BY <1>7 DEF Setting, AddLogicalInterface, AddIpAddress, RouterAddIpAddress
  <2> QED
    BY <1>4, <2>1
<1> QED
  BY <1>2, <1>3, <1>5, <1>6, <1>7 DEF Next, Run

(* The ends of a link that is moved with care are in its state once both   *)
(* have heard, for any number of links (interface.py:202-222).             *)
THEOREM EndsAlwaysFollow == Spec => []EndsFollow
<1>1. RoutesInv => Shaped
  BY DEF RoutesInv
<1>2. EndsInv => EndsFollow
  BY DEF EndsInv, EndsFollow, HasHeard, Follows, Tells
<1> QED
  BY <1>1, <1>2, RoutesInit, RoutesNext, EndsInit, EndsNext, PTL DEF Spec

-----------------------------------------------------------------------------
LEMMA SameMeansEqual == \A x, r \in Route : SameRoute(x, r) <=> x = r
<1> SUFFICES ASSUME NEW x \in Route, NEW r \in Route, SameRoute(x, r) PROVE x = r
  BY DEF SameRoute
<1>1. /\ x = [prefix |-> x.prefix, type |-> x.type, interface |-> x.interface, metric |-> x.metric]
      /\ r = [prefix |-> r.prefix, type |-> r.type, interface |-> r.interface, metric |-> r.metric]
  BY DEF Route
<1> QED
  BY <1>1 DEF SameRoute

LEMMA ExactIs ==
  ASSUME NEW t \in Table, NEW R \in SUBSET Route, Exact(t, R)
  PROVE  RoutesOf(t) = R
<1>1. \A x : x \in RoutesOf(t) <=> \E p \in Prefixes : x \in Values(t[p])
  BY RoutesAre DEF Table
<1>2. \A x \in R : x.prefix \in Prefixes
  BY DEF Route
<1>3. \A p \in Prefixes : Values(t[p]) = {x \in R : x.prefix = p}
  BY DEF Exact
<1>4. ASSUME NEW x PROVE x \in RoutesOf(t) <=> x \in R
  <2>1. ASSUME x \in RoutesOf(t) PROVE x \in R
    BY <2>1, <1>1, <1>3
  <2>2. ASSUME x \in R PROVE x \in RoutesOf(t)
    BY <2>2, <1>1, <1>2, <1>3
  <2> QED
    BY <2>1, <2>2
<1> QED
  BY <1>4

LEMMA AddedExact ==
  ASSUME NEW t \in Table, NEW R \in SUBSET Route, Exact(t, R), NEW r \in Route, r \notin R
  PROVE  Added(t, r) \in Table /\ Exact(Added(t, r), R \cup {r})
<1> DEFINE u == Added(t, r)
<1>1. r.prefix \in Prefixes /\ t \in [Prefixes -> Seq(Route)]
  BY DEF Route, Table
<1>2. /\ u \in Table
      /\ GrownBy(t[r.prefix], u[r.prefix], r)
      /\ \A q \in Prefixes \ {r.prefix} : u[q] = t[q]
  BY <1>1, AddedAt DEF Table
<1> HIDE DEF u
<1>3. ASSUME NEW p \in Prefixes
      PROVE  Once(u[p]) /\ Values(u[p]) = {x \in R \cup {r} : x.prefix = p}
  <2>1. Once(t[p]) /\ Values(t[p]) = {x \in R : x.prefix = p}
    BY DEF Exact
  <2>2. CASE p = r.prefix
    <3>1. r \notin Values(t[p])
      BY <2>1
    <3>2. Once(u[p]) /\ Values(u[p]) = Values(t[p]) \cup {r}
      BY <2>1, <2>2, <3>1, <1>2 DEF GrownBy
    <3> QED
      BY <2>1, <2>2, <3>2
  <2>3. CASE p # r.prefix
    BY <2>1, <2>3, <1>2
  <2> QED
    BY <2>2, <2>3
<1> QED
  BY <1>2, <1>3 DEF Exact, u

LEMMA DeletedExact ==
  ASSUME NEW t \in Table, NEW R \in SUBSET Route, Exact(t, R), NEW r \in R
  PROVE  /\ Deleted(t, r) \in Table /\ Exact(Deleted(t, r), R \ {r})
         /\ ~ DeleteRaises(t, r)
<1> DEFINE u == Deleted(t, r)
<1>1. r \in Route /\ r.prefix \in Prefixes /\ t \in [Prefixes -> Seq(Route)]
  BY DEF Route, Table
<1>2. HoldsRoute(t, r)
  <2>1. r \in Values(t[r.prefix])
    BY <1>1 DEF Exact
  <2>2. SameRoute(r, r)
    BY DEF SameRoute
  <2> QED
    BY <2>1, <2>2 DEF HoldsRoute, Values
<1>3. /\ u \in Table
      /\ ShrunkBy(t[r.prefix], u[r.prefix], r)
      /\ \A q \in Prefixes \ {r.prefix} : u[q] = t[q]
  BY <1>1, <1>2, DeletedAt DEF Table
<1> HIDE DEF u
<1>4. ASSUME NEW p \in Prefixes
      PROVE  Once(u[p]) /\ Values(u[p]) = {x \in R \ {r} : x.prefix = p}
  <2>1. Once(t[p]) /\ Values(t[p]) = {x \in R : x.prefix = p}
    BY DEF Exact
  <2>2. CASE p = r.prefix
    <3>1. PICK x \in Values(t[p]) :
            SameRoute(x, r) /\ Once(u[p]) /\ Values(u[p]) = Values(t[p]) \ {x}
      BY <2>1, <2>2, <1>3 DEF ShrunkBy
    <3>2. x = r
      BY <3>1, <2>1, <1>1, SameMeansEqual
    <3> QED
      BY <2>1, <3>1, <3>2
  <2>3. CASE p # r.prefix
    BY <2>1, <2>3, <1>3
  <2> QED
    BY <2>2, <2>3
<1> QED
  BY <1>2, <1>3, <1>4 DEF Exact, DeleteRaises, u

LEMMA WithExact ==
  ASSUME NEW t \in Table, NEW R \in SUBSET Route, Exact(t, R),
         NEW i \in Interfaces, NEW a \in Addresses, \A x \in R : x.interface # i
  PROVE  /\ WithRoutes(t, i, a) \in Table
         /\ Exact(WithRoutes(t, i, a), R \cup {Connection(i, a), Local(i, a)})
<1> DEFINE c == Connection(i, a)
           l == Local(i, a)
           u == Added(t, c)
<1>1. c \in Route /\ l \in Route
  BY RouteTypes
<1>2. c # l /\ c \notin R /\ l \notin R
  <2>1. c.interface = i /\ l.interface = i /\ c.type = "CONNECTED" /\ l.type = "LOCAL"
    BY DEF Connection, Local
  <2> QED
    BY <2>1
<1>3. WithRoutes(t, i, a) = Added(u, l)
  BY DEF WithRoutes
<1> HIDE DEF c, l
<1>4. u \in Table /\ Exact(u, R \cup {c})
  BY <1>1, <1>2, AddedExact
<1> HIDE DEF u
<1>5. Added(u, l) \in Table /\ Exact(Added(u, l), (R \cup {c}) \cup {l})
  BY <1>1, <1>2, <1>4, AddedExact
<1>6. (R \cup {c}) \cup {l} = R \cup {c, l}
  OBVIOUS
<1> QED
  BY <1>3, <1>5, <1>6 DEF c, l

LEMMA WithoutExact ==
  ASSUME NEW t \in Table, NEW R \in SUBSET Route, Exact(t, R),
         NEW i \in Interfaces, NEW a \in Addresses, {Connection(i, a), Local(i, a)} \subseteq R
  PROVE  /\ WithoutRoutes(t, i, a) \in Table
         /\ Exact(WithoutRoutes(t, i, a), R \ {Connection(i, a), Local(i, a)})
         /\ RaisedByRemoval(i, t, a) = {}
<1> DEFINE c == Connection(i, a)
           l == Local(i, a)
           u == Deleted(t, c)
<1>1. c # l
  BY DEF Connection, Local
<1>2. u \in Table /\ Exact(u, R \ {c}) /\ ~ DeleteRaises(t, c)
  <2> HIDE DEF c
  <2>1. c \in R
    BY DEF c
  <2> QED
    BY <2>1, DeletedExact
<1>3. Deleted(u, l) \in Table /\ Exact(Deleted(u, l), (R \ {c}) \ {l}) /\ ~ DeleteRaises(u, l)
  <2> HIDE DEF c, l, u
  <2>1. l \in R \ {c} /\ R \ {c} \in SUBSET Route
    BY <1>1 DEF l
  <2> QED
    BY <2>1, <1>2, DeletedExact
<1>4. (R \ {c}) \ {l} = R \ {c, l}
  OBVIOUS
<1>5. WithoutRoutes(t, i, a) = Deleted(u, l)
  BY <1>2 DEF WithoutRoutes
<1>6. RaisedByRemoval(i, t, a) = {}
  BY <1>2, <1>3 DEF RaisedByRemoval
<1> HIDE DEF c, l, u
<1> QED
  BY <1>3, <1>4, <1>5, <1>6 DEF c, l

(* Deleting from an empty table changes and raises nothing.                *)
LEMMA WithoutNone ==
  ASSUME NEW t \in Table, Exact(t, {}), NEW i \in Interfaces, NEW a \in Addresses
  PROVE  WithoutRoutes(t, i, a) = t /\ RaisedByRemoval(i, t, a) = {}
<1>1. ASSUME NEW r \in Route PROVE ~ DeleteRaises(t, r) /\ Deleted(t, r) = t
  <2>1. r.prefix \in Prefixes
    BY DEF Route
  <2>2. t[r.prefix] \in Seq(Route) /\ Values(t[r.prefix]) = {}
    BY <2>1 DEF Exact, Table
  <2>3. t[r.prefix] = << >> /\ DOMAIN t[r.prefix] = {}
    <3> DEFINE s == t[r.prefix]
    <3>1. DOMAIN s = {}
      BY <2>2 DEF Values
    <3> HIDE DEF s
    <3>2. s \in Seq(Route)
      BY <2>2 DEF s
    <3>3. Len(s) = 0
      BY <3>1, <3>2
    <3> QED
      BY <3>1, <3>2, <3>3 DEF s
  <2> QED
    BY <2>3 DEF DeleteRaises, HasPrefix, Deleted, HoldsRoute
<1>2. Connection(i, a) \in Route /\ Local(i, a) \in Route
  BY RouteTypes
<1> QED
  BY <1>1, <1>2 DEF WithoutRoutes, RaisedByRemoval

-----------------------------------------------------------------------------
Careful == RoutesInv /\ EndsInv /\ ExactInv /\ careful

(* What the routes of the interfaces that are up are made of.              *)
LEMMA UpRoutesHold ==
  ASSUME Careful, NEW d \in Devices
  PROVE  /\ UpRoutes(d) \in SUBSET Route
         /\ \A x \in UpRoutes(d) :
              x.interface \in Interfaces /\ Owner[x.interface] = d /\ logUp[x.interface]
         /\ \A i \in Interfaces : Owner[i] = d /\ logUp[i] => Expected(i) \subseteq UpRoutes(d)
<1>1. \A x : x \in UpRoutes(d) <=>
             \E i \in Interfaces : Owner[i] = d /\ logUp[i] /\ x \in Expected(i)
  BY DEF UpRoutes
<1>2. ASSUME NEW i \in Interfaces, logUp[i], NEW x \in Expected(i)
      PROVE  x \in Route /\ x.interface = i
  <2>1. addr[i] \in Addresses
    BY <1>2 DEF Careful, ExactInv, UpOnLinks
  <2>2. x = Connection(i, addr[i]) \/ x = Local(i, addr[i])
    BY DEF Expected
  <2>3. Connection(i, addr[i]) \in Route /\ Local(i, addr[i]) \in Route
    BY <2>1, RouteTypes
  <2> QED
    BY <2>2, <2>3 DEF Connection, Local
<1> QED
  BY <1>1, <1>2

LEMMA ExactInit == Init => ExactInv
<1> SUFFICES ASSUME Init PROVE ExactInv
  OBVIOUS
<1>1. ASSUME NEW d \in Devices PROVE Exact(direct[d], UpRoutes(d))
  <2>1. UpRoutes(d) = {}
    BY DEF Init, UpRoutes
  <2>2. ASSUME NEW p \in Prefixes PROVE Once(direct[d][p]) /\ Values(direct[d][p]) = {}
    <3>1. direct[d][p] = << >>
      BY DEF Init
    <3> QED
      BY <3>1 DEF Once, Values
  <2> QED
    BY <2>1, <2>2 DEF Exact
<1>2. \A l \in DOMAIN Links : ToldOnce(l) /\ UpAsTold(l)
  <2> SUFFICES ASSUME NEW l \in DOMAIN Links PROVE ToldOnce(l) /\ UpAsTold(l)
    OBVIOUS
  <2>1. agenda[l] = << >> /\ ~ linkUp[l]
    BY DEF Init
  <2>2. \A i \in Links[l] : logical[i] # "known"
    BY DevicesAssumption DEF Init
  <2> QED
    BY <2>1, <2>2 DEF ToldOnce, UpAsTold
<1>3. \A i \in Interfaces : UpOnLinks(i)
  BY DEF Init, UpOnLinks
<1> QED
  BY <1>1, <1>2, <1>3 DEF ExactInv, Init

(* A step that touches the routes and the state of no interface.           *)
LEMMA UpRoutesStay ==
  ASSUME \A i \in Interfaces : logUp'[i] = logUp[i] /\ (logUp[i] => addr'[i] = addr[i]),
         NEW d
  PROVE  UpRoutes(d)' = UpRoutes(d)
<1>1. \A x : x \in UpRoutes(d) <=>
             \E i \in Interfaces : Owner[i] = d /\ logUp[i] /\ x \in {Connection(i, addr[i]), Local(i, addr[i])}
  BY DEF UpRoutes, Expected
<1>2. \A x : x \in UpRoutes(d)' <=>
             \E i \in Interfaces : Owner[i] = d /\ logUp'[i] /\ x \in {Connection(i, addr'[i]), Local(i, addr'[i])}
  BY DEF UpRoutes, Expected, Connection, Local
<1>3. \A x : x \in UpRoutes(d)' <=> x \in UpRoutes(d)
  BY <1>1, <1>2
<1> QED
  BY <1>3

LEMMA LinkMoveExact ==
  ASSUME Careful, NEW l \in DOMAIN Links, NEW s \in BOOLEAN, LinkMove(l, s)
  PROVE  ExactInv'
<1> DEFINE I == [fresh |-> TRUE, notices |-> Notices(l, s)]
<1>0. Shaped
  BY DEF Careful, RoutesInv
<1>1. agenda[l] = << >> /\ linkUp[l] # s
  BY DEF LinkMove, Careful
<1>2. agenda' = [agenda EXCEPT ![l] = Later(l, s)] /\ Later(l, s) = <<I>>
  <2>1. Append(<< >>, I) = <<I>>
    OBVIOUS
  <2>2. agenda' = [agenda EXCEPT ![l] = Later(l, s)]
    BY <1>1 DEF LinkMove
  <2> QED
    BY <1>1, <2>1, <2>2 DEF Later
<1>3. /\ agenda'[l] = <<I>> /\ linkUp'[l] = s /\ linkUp[l] \in BOOLEAN
      /\ commands'[l] = commands[l] + 1 /\ commands[l] \in Nat
      /\ \A m \in DOMAIN Links \ {l} : /\ agenda'[m] = agenda[m] /\ linkUp'[m] = linkUp[m]
                                     /\ commands'[m] = commands[m]
      /\ UNCHANGED <<careful, logical, logUp, addr, direct, raised>>
  BY <1>0, <1>2 DEF LinkMove, Shaped
<1>4. /\ \A m, n \in I.notices : m.end = n.end => m = n
      /\ \A i \in Links[l] : \E n \in I.notices : n.end = i
  <2>1. I.notices = {[end |-> i, up |-> s, number |-> commands[l]] : i \in Links[l]}
    BY DEF Notices
  <2> HIDE DEF I
  <2>2. ASSUME NEW i \in Links[l] PROVE \E n \in I.notices : n.end = i
    <3>1. [end |-> i, up |-> s, number |-> commands[l]] \in I.notices
      BY <2>1
    <3> QED
      BY <3>1
  <2> QED
    BY <2>1, <2>2
<1>5. Head(<<I>>) = I /\ <<I>> # << >>
  OBVIOUS
<1> HIDE DEF I
<1>6. ToldOnce(l)'
  BY <1>3, <1>4, <1>5 DEF ToldOnce
<1>7. UpAsTold(l)'
  <2>1. \A i \in Links[l] : Tells(l, i)' /\ ~ Tells(l, i)
    BY <1>1, <1>3, <1>4, <1>5 DEF Tells
  <2> QED
    BY <2>1, <1>1, <1>3 DEF Careful, ExactInv, UpAsTold
<1>8. ASSUME NEW m \in DOMAIN Links \ {l} PROVE ToldOnce(m)' /\ UpAsTold(m)'
  BY <1>3 DEF Careful, ExactInv, ToldOnce, UpAsTold, Tells
<1>9. ASSUME NEW i \in Interfaces PROVE UpOnLinks(i)'
  <2>1. Connected(i) => Connected(i)'
    <3> SUFFICES ASSUME NEW m \in DOMAIN Links, i \in Links[m], commands[m] > 0
                 PROVE  commands'[m] > 0
      BY DEF Connected
    <3> QED
      BY <1>3
  <2> QED
    BY <2>1, <1>3 DEF Careful, ExactInv, UpOnLinks
<1>10. ASSUME NEW d \in Devices PROVE Exact(direct[d], UpRoutes(d))'
  <2>1. UpRoutes(d)' = UpRoutes(d)
    BY <1>3, UpRoutesStay
  <2> QED
    BY <2>1, <1>3 DEF Careful, ExactInv, Exact
<1>11. raised' = {}
  BY <1>3 DEF Careful, ExactInv
<1> QED
  BY <1>6, <1>7, <1>8, <1>9, <1>10, <1>11 DEF ExactInv

(* The notice that end i of link l is told takes it to the other state and *)
(* its routes with it.                                                     *)
LEMMA EndMovesExact ==
  ASSUME Careful, NEW l \in DOMAIN Links, NEW n \in Notice, EndMoves(l, n)
  PROVE  ExactInv'
<1> DEFINE i == n.end
           o == Owner[i]
           a == addr[i]
           t == direct[o]
           R == UpRoutes(o)
<1>0. Shaped /\ ExactInv /\ careful
  BY DEF Careful, RoutesInv
<1>1. agenda[l] # << >> /\ n \in Head(agenda[l]).notices
  BY DEF EndMoves
<1>2. PICK I : /\ agenda[l] = <<I>>
               /\ \A x \in I.notices : x.end \in Links[l] /\ x.up = linkUp[l]
  BY <1>1 DEF Careful, EndsInv, OneInstant
<1>3. /\ Head(agenda[l]) = I /\ n \in I.notices /\ i \in Links[l] /\ n.up = linkUp[l]
      /\ linkUp[l] \in BOOLEAN /\ Tells(l, i)
  BY <1>0, <1>1, <1>2 DEF Tells, Shaped
<1>4. /\ agenda'[l] = Heard(l, n)
      /\ \A m \in DOMAIN Links \ {l} : agenda'[m] = agenda[m]
      /\ UNCHANGED <<careful, linkUp, commands, logical, addr>>
  BY <1>0 DEF EndMoves, Shaped
<1>5. i \in Interfaces /\ o \in Devices /\ t \in Table
  BY <1>0, DevicesAssumption DEF Notice, Shaped
<1>6. \A m \in DOMAIN Links : Links[m] \subseteq Interfaces /\ (m # l => i \notin Links[m])
  BY <1>3, DevicesAssumption
<1>7. \A x \in I.notices : x.end = i => x = n
  BY <1>0, <1>1, <1>3 DEF ExactInv, ToldOnce
<1>8. commands[l] > 0
  <2>1. commands[l] \in Nat /\ commands[l] # 0
    BY <1>0, <1>1 DEF ExactInv, ToldOnce, Shaped
  <2> QED
    BY <2>1
<1> HIDE DEF i
<1>9. ToldOnce(l)' /\ \A k \in Links[l] : Tells(l, k)' <=> Tells(l, k) /\ k # i
  <2>1. CASE Heard(l, n) = << >> /\ I.notices \ {n} = {}
    <3>1. \A k : Tells(l, k) => k = i
      BY <2>1, <1>3 DEF Tells, i
    <3> QED
      BY <2>1, <3>1, <1>4, <1>8 DEF ToldOnce, Tells
  <2>2. CASE \E J : /\ Heard(l, n) = <<J>> /\ J.notices = I.notices \ {n}
                  /\ J.notices # {}
    <3>1. PICK J : Heard(l, n) = <<J>> /\ J.notices = I.notices \ {n}
      BY <2>2
    <3>2. agenda'[l] = <<J>> /\ Head(<<J>>) = J /\ <<J>> # << >>
      BY <3>1, <1>4
    <3>3. ToldOnce(l)'
      BY <3>1, <3>2, <1>0, <1>1, <1>3, <1>4, <1>8 DEF ToldOnce, ExactInv
    <3>4. \A k : Tells(l, k)' <=> \E x \in J.notices : x.end = k
      BY <3>2 DEF Tells
    <3>5. \A k : Tells(l, k) <=> \E x \in I.notices : x.end = k
      BY <1>1, <1>3 DEF Tells
    <3> QED
      BY <3>1, <3>3, <3>4, <3>5, <1>7 DEF i
  <2> QED
    BY <2>1, <2>2, <1>2, <1>3, OneLess
<1>10. ASSUME NEW m \in DOMAIN Links \ {l} PROVE ToldOnce(m)'
  BY <1>0, <1>4 DEF ExactInv, ToldOnce
<1>11. CASE logical[i] = "absent"
  <2>1. UNCHANGED <<logUp, direct, raised>>
    BY <1>11 DEF EndMoves, i
  <2>2. UpAsTold(l)'
    BY <1>0, <1>4, <1>9, <1>11, <2>1 DEF ExactInv, UpAsTold
  <2>3. ASSUME NEW m \in DOMAIN Links \ {l} PROVE UpAsTold(m)'
    BY <1>0, <1>4, <2>1 DEF ExactInv, UpAsTold, Tells
  <2>4. ASSUME NEW j \in Interfaces PROVE UpOnLinks(j)'
    BY <1>0, <1>4, <2>1 DEF ExactInv, UpOnLinks, Connected
  <2>5. ASSUME NEW d \in Devices PROVE Exact(direct[d], UpRoutes(d))'
    <3>1. UpRoutes(d)' = UpRoutes(d)
      BY <1>4, <2>1, UpRoutesStay
    <3> QED
      BY <3>1, <2>1, <1>0 DEF ExactInv, Exact
  <2> QED
    BY <1>0, <1>4, <1>9, <1>10, <2>1, <2>2, <2>3, <2>4, <2>5 DEF ExactInv
<1>12. CASE logical[i] # "absent"
  <2>1. LogicalMoves(i, linkUp[l])
    BY <1>3, <1>12 DEF EndMoves, i
  <2>2. logical[i] = "known" /\ a \in Addresses /\ a # None
    BY <1>0, <1>5, <1>12, AddressesAssumption DEF ExactInv, UpOnLinks, Shaped
  <2>3. logUp[i] <=> ~ linkUp[l]
    BY <1>0, <1>3, <2>2 DEF ExactInv, UpAsTold
  <2>4. /\ logUp'[i] = linkUp[l]
        /\ \A j \in Interfaces \ {i} : logUp'[j] = logUp[j]
    BY <2>1, <1>0, <1>5 DEF LogicalMoves, Shaped
  <2>5. UpAsTold(l)'
    <3>1. ASSUME NEW k \in Links[l], logical[k] = "known"
          PROVE  logUp'[k] <=> IF Tells(l, k)' THEN ~ linkUp[l] ELSE linkUp[l]
      <4>1. CASE k = i
        BY <4>1, <1>9, <2>4
      <4>2. CASE k # i
        BY <4>2, <3>1, <1>0, <1>6, <1>9, <2>4 DEF ExactInv, UpAsTold
      <4> QED
        BY <4>1, <4>2
    <3> QED
      BY <3>1, <1>4 DEF UpAsTold
  <2>6. ASSUME NEW m \in DOMAIN Links \ {l} PROVE UpAsTold(m)'
    <3>1. \A k \in Links[m] : logUp'[k] = logUp[k]
      BY <1>6, <2>4
    <3> QED
      BY <3>1, <1>0, <1>4 DEF ExactInv, UpAsTold, Tells
  <2>7. ASSUME NEW j \in Interfaces PROVE UpOnLinks(j)'
    <3>1. Connected(j)' <=> Connected(j)
      BY <1>4 DEF Connected
    <3>2. Connected(i)
      BY <1>3, <1>8 DEF Connected
    <3> QED
      BY <3>1, <3>2, <1>0, <1>4, <2>2, <2>4 DEF ExactInv, UpOnLinks
  <2>8. R \in SUBSET Route /\ Exact(t, R) /\ Expected(i) = {Connection(i, a), Local(i, a)}
    BY <1>0, <1>5, UpRoutesHold DEF ExactInv, Expected
  <2>9. PICK Q, u : /\ raised' = raised /\ direct' = [direct EXCEPT ![o] = u] /\ Exact(u, Q)
                    /\ Q = IF linkUp[l] THEN R \cup Expected(i) ELSE R \ Expected(i)
    <3>1. CASE linkUp[l]
      <4> DEFINE u == WithRoutes(t, i, a)
      <4>1. direct' = [direct EXCEPT ![o] = u] /\ raised' = raised
        BY <3>1, <2>1, <2>2 DEF LogicalMoves, LogicalUp
      <4>2. \A x \in R : x.interface # i
        BY <3>1, <2>3, <1>5, UpRoutesHold
      <4>3. Exact(u, R \cup Expected(i))
        <5> HIDE DEF R, t, a
        <5> QED
          BY <4>2, <2>2, <2>8, <1>5, WithExact
      <4> HIDE DEF u
      <4> QED
        BY <4>1, <4>3, <3>1
    <3>2. CASE ~ linkUp[l]
      <4> DEFINE u == WithoutRoutes(t, i, a)
      <4>1. direct' = [direct EXCEPT ![o] = u] /\ raised' = raised \cup RaisedByRemoval(i, t, a)
        BY <3>2, <2>1, <2>2 DEF LogicalMoves, LogicalDown
      <4>2. Expected(i) \subseteq R
        BY <3>2, <2>3, <1>5, UpRoutesHold
      <4>3. Exact(u, R \ Expected(i)) /\ RaisedByRemoval(i, t, a) = {}
        <5> HIDE DEF R, t, a
        <5> QED
          BY <4>2, <2>2, <2>8, <1>5, WithoutExact
      <4> HIDE DEF u
      <4> QED
        BY <4>1, <4>3, <3>2
    <3> QED
      BY <3>1, <3>2
  <2>10. UpRoutes(o)' = Q
    <3> DEFINE Es(j) == {Connection(j, addr[j]), Local(j, addr[j])}
    <3>1. \A x : x \in R <=> \E j \in Interfaces : Owner[j] = o /\ logUp[j] /\ x \in Es(j)
      BY DEF UpRoutes, Expected
    <3>2. \A x : x \in UpRoutes(o)' <=> \E j \in Interfaces : Owner[j] = o /\ logUp'[j] /\ x \in Es(j)
      BY <1>4 DEF UpRoutes, Expected, Connection, Local
    <3>3. \A j, k \in Interfaces : \A x : x \in Es(j) /\ x \in Es(k) => j = k
      BY DEF Connection, Local
    <3>4. Expected(i) = Es(i) /\ Owner[i] = o
      BY <2>8
    <3> HIDE DEF Es, R, o
    <3>5. CASE linkUp[l]
      <4>1. \A x : x \in UpRoutes(o)' <=> x \in R \/ x \in Es(i)
        BY <3>1, <3>2, <3>4, <3>5, <2>4, <2>3, <1>5
      <4> QED
        BY <4>1, <2>9, <3>4, <3>5
    <3>6. CASE ~ linkUp[l]
      <4>1. \A x : x \in UpRoutes(o)' <=> x \in R /\ x \notin Es(i)
        BY <3>1, <3>2, <3>3, <3>4, <3>6, <2>4, <2>3, <1>5
      <4> QED
        BY <4>1, <2>9, <3>4, <3>6
    <3> QED
      BY <3>5, <3>6
  <2>11. ASSUME NEW d \in Devices PROVE Exact(direct[d], UpRoutes(d))'
    <3>1. CASE d = o
      <4>1. direct'[d] = u
        BY <3>1, <2>9, <1>0, <1>5 DEF Shaped
      <4> QED
        BY <4>1, <3>1, <2>9, <2>10 DEF Exact
    <3>2. CASE d # o
      <4>1. direct'[d] = direct[d]
        BY <3>2, <2>9, <1>0, <1>5 DEF Shaped
      <4>2. UpRoutes(d)' = UpRoutes(d)
        <5> DEFINE Es(j) == {Connection(j, addr[j]), Local(j, addr[j])}
        <5>1. \A x : x \in UpRoutes(d) <=> \E j \in Interfaces : Owner[j] = d /\ logUp[j] /\ x \in Es(j)
          BY DEF UpRoutes, Expected
        <5>2. \A x : x \in UpRoutes(d)' <=> \E j \in Interfaces : Owner[j] = d /\ logUp'[j] /\ x \in Es(j)
          BY <1>4 DEF UpRoutes, Expected, Connection, Local
        <5> HIDE DEF Es
        <5>3. \A x : x \in UpRoutes(d)' <=> x \in UpRoutes(d)
          BY <3>2, <5>1, <5>2, <2>4
        <5> QED
          BY <5>3
      <4> QED
        BY <4>1, <4>2, <1>0 DEF Exact, ExactInv
    <3> QED
      BY <3>1, <3>2
  <2> QED
    BY <1>0, <1>4, <1>9, <1>10, <2>5, <2>6, <2>7, <2>9, <2>11 DEF ExactInv
<1> QED
  BY <1>11, <1>12

(* Addresses are set before the device has a link: no interface of it is   *)
(* up, and its table is empty.                                             *)
LEMMA SettingExact ==
  ASSUME Careful, NEW i \in Interfaces, NEW a \in Addresses,
         AddLogicalInterface(i, a) \/ AddIpAddress(i, a)
  PROVE  ExactInv'
<1> DEFINE o == Owner[i]
           t == direct[o]
<1>0. Shaped /\ ExactInv /\ careful
  BY DEF Careful, RoutesInv
<1>1. logical[i] = "absent" /\ \A j \in Interfaces : Owner[j] = o => ~ Connected(j)
  BY <1>0 DEF AddLogicalInterface, AddIpAddress, MaySet
<1>2. /\ \A j \in Interfaces : Owner[j] = o => ~ logUp[j]
      /\ ~ PhyIsUp(i)
  BY <1>0, <1>1 DEF ExactInv, UpOnLinks, PhyIsUp
<1>3. o \in Devices /\ t \in Table
  BY <1>0, DevicesAssumption DEF Shaped
<1>4. UpRoutes(o) = {} /\ Exact(t, {})
  <2>1. UpRoutes(o) = {}
    BY <1>2 DEF UpRoutes
  <2>2. Exact(t, UpRoutes(o))
    BY <1>0, <1>3 DEF ExactInv
  <2> QED
    BY <2>1, <2>2
<1>5. direct' = direct /\ raised' = {}
  <2>1. CASE AddLogicalInterface(i, a)
    BY <2>1, <1>0, <1>2 DEF AddLogicalInterface, ExactInv
  <2>2. CASE AddIpAddress(i, a)
    <3>1. /\ direct' = [direct EXCEPT ![o] = WithoutRoutes(t, i, a)]
          /\ raised' = raised \cup RaisedByRemoval(i, t, a)
      BY <2>2, <1>1, <1>2 DEF AddIpAddress
    <3>2. WithoutRoutes(t, i, a) = t /\ RaisedByRemoval(i, t, a) = {}
      BY <1>3, <1>4, WithoutNone
    <3> HIDE DEF t
    <3>3. direct' = [direct EXCEPT ![o] = t]
      BY <3>1, <3>2
    <3> QED
      BY <3>1, <3>2, <3>3, <1>0, <1>3 DEF Shaped, ExactInv, t
  <2> QED
    BY <2>1, <2>2
<1>6. /\ logUp' = [logUp EXCEPT ![i] = FALSE]
      /\ addr' = [addr EXCEPT ![i] = a]
      /\ logical' = [logical EXCEPT ![i] = "known"]
      /\ UNCHANGED <<careful, linkUp, commands, agenda, phyUp>>
  BY <1>1, <1>2 DEF AddLogicalInterface, AddIpAddress, PhyIsUp
<1>7. /\ logUp[i] = FALSE /\ logUp' = logUp
      /\ addr'[i] = a /\ logical'[i] = "known"
      /\ \A j \in Interfaces \ {i} : addr'[j] = addr[j] /\ logical'[j] = logical[j]
  <2>1. logUp[i] = FALSE
    BY <1>0, <1>2 DEF Shaped
  <2> QED
    BY <2>1, <1>0, <1>6 DEF Shaped
<1>8. ASSUME NEW l \in DOMAIN Links PROVE ToldOnce(l)' /\ UpAsTold(l)'
  <2>1. ToldOnce(l)' /\ UpAsTold(l)
    BY <1>0, <1>6 DEF ExactInv, ToldOnce
  <2>2. ASSUME i \in Links[l] PROVE agenda[l] = << >> /\ ~ linkUp[l]
    <3>1. commands[l] \in Nat /\ ~ (commands[l] > 0)
      BY <1>0, <1>1, <2>2 DEF Connected, Shaped
    <3>2. commands[l] = 0
      BY <3>1
    <3> QED
      BY <3>2, <1>0 DEF ExactInv, ToldOnce
  <2>3. ASSUME NEW k \in Links[l], logical'[k] = "known"
        PROVE  logUp[k] <=> IF Tells(l, k) THEN ~ linkUp[l] ELSE linkUp[l]
    <3>1. CASE k = i
      BY <3>1, <2>2, <1>7 DEF Tells
    <3>2. CASE k # i
      <4>1. k \in Interfaces
        BY DevicesAssumption
      <4> QED
        BY <4>1, <3>2, <2>1, <2>3, <1>7 DEF UpAsTold
    <3> QED
      BY <3>1, <3>2
  <2> QED
    BY <2>1, <2>3, <1>6, <1>7 DEF UpAsTold, Tells
<1>9. ASSUME NEW j \in Interfaces PROVE UpOnLinks(j)'
  BY <1>0, <1>6, <1>7 DEF ExactInv, UpOnLinks, Connected
<1>10. ASSUME NEW d \in Devices PROVE Exact(direct[d], UpRoutes(d))'
  <2>1. UpRoutes(d)' = UpRoutes(d)
    BY <1>7, UpRoutesStay
  <2> QED
    BY <2>1, <1>0, <1>5 DEF ExactInv, Exact
<1> QED
  BY <1>5, <1>8, <1>9, <1>10 DEF ExactInv

LEMMA ExactNext == RoutesInv /\ EndsInv /\ ExactInv /\ [Next]_vars => ExactInv'
<1> SUFFICES ASSUME RoutesInv, EndsInv, ExactInv, [Next]_vars, careful' PROVE ExactInv'
  BY DEF ExactInv
<1>1. Careful
  BY DEF Careful, Next, vars, Run, Setting, EndMoves, LinkMove, FirstFrame,
         AddLogicalInterface, AddIpAddress, RouterAddIpAddress
<1>2. ASSUME NEW l \in DOMAIN Links, NEW n \in Notice, EndMoves(l, n) PROVE ExactInv'
  BY <1>1, <1>2, EndMovesExact
<1>3. ASSUME NEW l \in DOMAIN Links, NEW s \in BOOLEAN, LinkMove(l, s) PROVE ExactInv'
  BY <1>1, <1>3, LinkMoveExact
<1>4. ASSUME NEW i \in Interfaces, NEW a \in Addresses,
             AddLogicalInterface(i, a) \/ AddIpAddress(i, a)
      PROVE  ExactInv'
  BY <1>1, <1>4, SettingExact
<1>5. ASSUME NEW i \in Interfaces, NEW a \in Addresses, RouterAddIpAddress(i, a) PROVE FALSE
  BY <1>1, <1>5 DEF Careful, RouterAddIpAddress, MaySet
<1>6. ASSUME NEW i \in Interfaces, FirstFrame(i) PROVE FALSE
  BY <1>1, <1>6 DEF Careful, FirstFrame
<1>7. CASE UNCHANGED vars
  BY <1>7 DEF vars, ExactInv, ToldOnce, UpAsTold, UpOnLinks, Tells, Connected, Exact, UpRoutes,
              Expected, Connection, Local
<1> QED
  BY <1>2, <1>3, <1>4, <1>5, <1>6, <1>7 DEF Next, Run, Setting

(* As long as the operator moves a link only when its ends have heard and  *)
(* sets the addresses of a device before it has a link, the table of every *)
(* device holds the two routes of every interface that is up, once each,   *)
(* and no others, and no handler raises (server.py:59-91, router.py:27-84, *)
(* routing.py:209-228): whatever is added is taken away exactly once.      *)
THEOREM TablesStayExact == Spec => []ExactRoutes
<1>1. RoutesInv /\ ExactInv => ExactRoutes
  <2> SUFFICES ASSUME RoutesInv, ExactInv, careful
               PROVE  /\ \A d \in Devices, p \in Prefixes : FX!IsInjective(direct[d][p])
                      /\ \A d \in Devices : RoutesOf(direct[d]) = UpRoutes(d)
                      /\ raised = {}
    BY DEF ExactRoutes, UpRoutes
  <2>1. ASSUME NEW d \in Devices, NEW p \in Prefixes PROVE FX!IsInjective(direct[d][p])
    BY DEF ExactInv, Exact, Once, FX!IsInjective
  <2>2. ASSUME NEW d \in Devices PROVE RoutesOf(direct[d]) = UpRoutes(d)
    <3>1. direct[d] \in Table /\ Exact(direct[d], UpRoutes(d))
      BY DEF RoutesInv, Shaped, ExactInv
    <3>2. UpRoutes(d) \in SUBSET Route
      <4> SUFFICES ASSUME NEW i \in Interfaces, logUp[i], NEW x \in Expected(i) PROVE x \in Route
        BY DEF UpRoutes
      <4>1. addr[i] \in Addresses
        BY DEF ExactInv, UpOnLinks
      <4>2. Connection(i, addr[i]) \in Route /\ Local(i, addr[i]) \in Route
        BY <4>1, RouteTypes
      <4> QED
        BY <4>2 DEF Expected
    <3> QED
      BY <3>1, <3>2, ExactIs
  <2> QED
    BY <2>1, <2>2 DEF ExactInv
<1> QED
  BY <1>1, RoutesInit, RoutesNext, EndsInit, EndsNext, ExactInit, ExactNext, PTL
     DEF Spec, RoutesInv

=============================================================================
