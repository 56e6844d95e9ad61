----------------------------- MODULE RouteTables -----------------------------
(***************************************************************************)
(* The routing tables of routing.py as operators.  A table is a function   *)
(* from prefixes to the list of the routes to the prefix; the empty list   *)
(* stands for a key the dictionary does not have.  A route is a record     *)
(* with at least the fields prefix, type, interface and metric.            *)
(*                                                                         *)
(* A prefix is the block of addresses net .. net + size - 1: its network   *)
(* address and, in place of its length, the size of the block.             *)
(***************************************************************************)
EXTENDS Naturals, Sequences, FiniteSets

SE == INSTANCE SequencesExt

(* Route.__eq__: the next hop does not count.                              *)
(* Fault: the interface does not count either.                             *)
SameButInterface(r, s) == r.prefix = s.prefix /\ r.type = s.type /\ r.metric = s.metric

SameRoute(r, s) ==
  /\ r.prefix = s.prefix
  /\ r.type = s.type
  /\ r.interface = s.interface
  /\ r.metric = s.metric

HasPrefix(t, p) == t[p] # << >>
HoldsRoute(t, r)  == \E k \in DOMAIN t[r.prefix] : SameRoute(t[r.prefix][k], r)

(* add_route: the route goes behind the routes of its metric, which is what *)
(* appending it and a stable sort by metric amount to.                     *)
Place(s, r) == 1 + Cardinality({k \in DOMAIN s : s[k].metric <= r.metric})

Added(t, r) == [t EXCEPT ![r.prefix] = SE!InsertAt(@, Place(@, r), r)]

(* del_route: list.remove takes the first equal route.  A prefix without    *)
(* routes is left alone; a prefix with routes but not this one raises      *)
(* ValueError.                                                             *)
FirstSame(s, r) ==
  CHOOSE k \in DOMAIN s :
    SameRoute(s[k], r) /\ \A j \in 1..(k - 1) : ~ SameRoute(s[j], r)

DeleteRaises(t, r) == HasPrefix(t, r.prefix) /\ ~ HoldsRoute(t, r)

Deleted(t, r) ==
  IF HoldsRoute(t, r)
  THEN [t EXCEPT ![r.prefix] = SE!RemoveAt(@, FirstSame(@, r))]
  ELSE t

(* The routes of a table, without their order and their number.            *)
RoutesOf(t) == UNION {{t[p][k] : k \in DOMAIN t[p]} : p \in DOMAIN t}

(***************************************************************************)
(* lookup_ip: the prefixes of all tables of the chain are sorted by        *)
(* network address, then by length, the last one first; the first that     *)
(* holds the address is taken.                                             *)
(***************************************************************************)
Covers(p, x) == p.net <= x /\ x < p.net + p.size

(* Fault: the order is by length only where it decides nothing.            *)
ShortFirst(p, q) == p.net > q.net \/ (p.net = q.net /\ p.size > q.size)

Before(p, q) == p.net > q.net \/ (p.net = q.net /\ p.size < q.size)

ChainPrefixes(chain) ==
  {p \in UNION {DOMAIN chain[k] : k \in DOMAIN chain} :
     \E k \in DOMAIN chain : HasPrefix(chain[k], p)}

Matches(chain, x) == {p \in ChainPrefixes(chain) : Covers(p, x)}

FirstMatch(P) == CHOOSE p \in P : \A q \in P : p = q \/ Before(p, q)

(* ChainMap: the first table that has the prefix hides the others.         *)
ChainGet(chain, p) ==
  LET k == CHOOSE i \in DOMAIN chain :
             HasPrefix(chain[i], p) /\ \A j \in 1..(i - 1) : ~ HasPrefix(chain[j], p)
  IN  chain[k][p]

LookupIp(chain, x) == ChainGet(chain, FirstMatch(Matches(chain, x)))[1]

=============================================================================
