------------------------------- MODULE Router -------------------------------
(***************************************************************************)
(* The tables of a router and the forwarding table made from them          *)
(* (routing.py:181-260 and 371-457, router.py:22-84 and 121-167,           *)
(* forwarding.py:12-54).  Routes come from the interfaces (direct), from   *)
(* the operator (static, bgp), from IS-IS, and from RSVP (an LSP that      *)
(* starts here, a label that is switched here, a bypass).  Whoever changes *)
(* a table raises ROUTE_CHANGE, on which the whole forwarding table is     *)
(* made anew; but adding a route to a prefix that has one raises nothing,  *)
(* and neither does hanging a bypass on a route.                           *)
(***************************************************************************)
EXTENDS Naturals, Sequences, RouteTables

FX == INSTANCE FiniteSetsExt

CONSTANTS Interfaces,     \* the logical interfaces of the router
          Local,          \* Local[i]: the /32 prefix of the address of i
          Network,        \* Network[i]: the prefix of its network
          Loopback,       \* the interface lo.0, which has no link
          Prefixes,       \* the prefixes, [net, size]
          Default,        \* 0.0.0.0/0
          Labels,         \* the MPLS labels
          StaticRoutes,   \* the routes the operator may add
          BgpRoutes,      \* and the ones said to be learned by BGP
          IsisTables,     \* the sets of routes IS-IS may compute
          LspRoutes,      \* the routes RSVP adds for the LSPs that start here
          LabelRoutes,    \* and for those that pass
          Bypasses,       \* the bypass LSPs
          None,           \* no next hop, no LSP, no interface
          MaxMoves,       \* bound on the times an interface goes down
          Orderly         \* one BGP route for a prefix; bypasses only on
                          \*   links that are up

(* A route: next is the next hop, of a BGP route the protocol next hop;    *)
(* lsp is the LSP its action pushes, swaps or pops for.                    *)
RouteOf(p, t, i, m, nh, n) ==
  [prefix |-> p, type |-> t, interface |-> i, metric |-> m, next |-> nh, lsp |-> n]

RoutesWith(P, t, nhs, ns) ==
  [prefix : P, type : {t}, interface : Interfaces \cup {None}, metric : Nat, next : nhs, lsp : ns]

Lsps == {r.lsp : r \in LspRoutes \cup LabelRoutes}

ASSUME RouterAssumption ==
  /\ Loopback \in Interfaces
  /\ Local \in [Interfaces -> Prefixes] /\ Network \in [Interfaces -> Prefixes]
  /\ Default \in Prefixes
  /\ {} \notin IsisTables
  /\ MaxMoves \in Nat /\ Orderly \in BOOLEAN

(* Blocks of addresses are apart or one is inside the other.               *)
Apart(p, q)  == p.net + p.size <= q.net \/ q.net + q.size <= p.net
Inside(p, q) == q.net <= p.net /\ p.net + p.size <= q.net + q.size

ASSUME PrefixesAssumption ==
  /\ Prefixes \subseteq [net : Nat, size : Nat]
  /\ \A p, q \in Prefixes : Apart(p, q) \/ Inside(p, q) \/ Inside(q, p)

(* The type of a route decides its metric where a prefix may get several   *)
(* (router.py:210, rsvp/process.py:451).  An LSP names one route here.     *)
ASSUME RoutesAssumption ==
  /\ StaticRoutes \subseteq RoutesWith(Prefixes, "STATIC", Nat \cup {None}, {None})
  /\ BgpRoutes \subseteq RoutesWith(Prefixes, "BGP", Nat, {None})
  /\ UNION IsisTables \subseteq RoutesWith(Prefixes, "ISIS", Nat \cup {None}, {None})
  /\ LspRoutes \subseteq RoutesWith(Prefixes, "RSVP", Nat \cup {None}, Lsps)
  /\ LabelRoutes \subseteq RoutesWith(Labels, "RSVP", Nat \cup {None}, Lsps)
  /\ \A r, s \in StaticRoutes : r.metric = s.metric
  /\ \A r, s \in LspRoutes : r.metric = s.metric /\ (r.lsp = s.lsp => r = s)
  /\ \A r \in LspRoutes, s \in LabelRoutes : r.lsp # s.lsp
  /\ \A b \in Bypasses : b.interface \in Interfaces

VARIABLES
  up,       \* the logical interfaces that are up
  moves,    \* how many times one went down
  direct, static, isis, bgp, rsvp,   \* the routing tables
  mpls,     \* mpls[l]: the routes of label l
  bypass,   \* bypass[n]: the bypass of the route of LSP n
  made,     \* the bypasses that were made
  fib       \* the forwarding table: ip by prefix, mpls by label

tables == <<direct, static, isis, bgp, rsvp, mpls>>
vars   == <<up, moves, tables, bypass, made, fib>>

ConnectedRoute(i) == RouteOf(Network[i], "CONNECTED", i, 1, None, None)
LocalRoute(i)     == RouteOf(Local[i], "LOCAL", i, 1, None, None)

NoRoutes == [p \in Prefixes |-> << >>]

-----------------------------------------------------------------------------
(* forwarding_table.  The arguments are the state it reads: the interfaces *)
(* that are up, the tables, and the bypasses.                              *)
Tables(d, s, i, b, r, m) == [direct |-> d, static |-> s, isis |-> i, bgp |-> b, rsvp |-> r, mpls |-> m]

Inet(t)      == <<t.direct, t.static, t.isis, t.bgp>>
Recursive(t) == <<t.rsvp, t.direct, t.static, t.isis>>

(* recursive_lookup_ip of the protocol next hop.                           *)
Resolves(t, r) == Matches(Recursive(t), r.next) # {}
Resolved(t, r) == LookupIp(Recursive(t), r.next)

BypassOf(by, r) == IF r.lsp = None THEN None ELSE by[r.lsp]

(* A route of any other type is taken as it is, its interface up or not.   *)
Applies(u, t, r) == r.type = "BGP" => Resolves(t, r) /\ Resolved(t, r).interface \in u

Diverts(u, t, by, r) ==
  /\ r.type = "BGP" /\ Resolves(t, r)
  /\ BypassOf(by, Resolved(t, r)) # None
  /\ BypassOf(by, Resolved(t, r)).interface \in u

Push(n) == IF n = None THEN << >> ELSE <<n>>

Entry(i, a, push, nh) == [interface |-> i, action |-> a, push |-> push, next |-> nh]

AppliedEntry(t, r) ==
  CASE r.type = "LOCAL" -> Entry(r.interface, "CONTROL", << >>, None)
    [] r.type = "BGP"   -> Entry(Resolved(t, r).interface, "FORWARD",
                                 Push(Resolved(t, r).lsp), Resolved(t, r).next)
    [] OTHER            -> Entry(r.interface, "FORWARD", << >>, r.next)

(* Fault: the label of the LSP is left out.                                *)
DivertedBare(t, by, r) ==
  LET q == Resolved(t, r)
  IN  Entry(by[q.lsp].interface, "FORWARD", <<by[q.lsp].name>>, None)

DivertedEntry(t, by, r) ==
  LET q == Resolved(t, r)
  IN  Entry(by[q.lsp].interface, "FORWARD", <<q.lsp, by[q.lsp].name>>, None)

(* The first route that applies ends the search; of those that divert      *)
(* before it finds none, the last one is left.                             *)
Shown(u, t, by, p) ==
  LET s == ChainGet(Inet(t), p)
  IN  \E k \in DOMAIN s : Applies(u, t, s[k]) \/ Diverts(u, t, by, s[k])

EntryFor(u, t, by, p) ==
  LET s        == ChainGet(Inet(t), p)
      applied  == {k \in DOMAIN s : Applies(u, t, s[k])}
      diverted == {k \in DOMAIN s : Diverts(u, t, by, s[k])}
  IN  IF applied # {} THEN AppliedEntry(t, s[FX!Min(applied)])
      ELSE DivertedEntry(t, by, s[FX!Max(diverted)])

(* The default route is rejected only if no table has it: one that is      *)
(* there but hidden leaves the forwarding table without a default.         *)
(* Fault: the action of the comment, which no frame is handled by.         *)
Unreachable == Entry(None, "UNREACHABLE", << >>, None)

Reject == Entry(None, "REJECT", << >>, None)

IpFib(u, t, by) ==
  LET known == ChainPrefixes(Inet(t))
      shown == {p \in known : Shown(u, t, by, p)}
  IN  [p \in shown \cup ({Default} \ known) |->
         IF p \in known THEN EntryFor(u, t, by, p) ELSE Reject]

(* A label takes the bypass when its interface is down, whether or not the *)
(* interface of the bypass is up.                                          *)
LabelEntry(u, by, r) ==
  IF r.interface \notin u /\ BypassOf(by, r) # None
  THEN Entry(by[r.lsp].interface, "FORWARD", <<r.lsp, by[r.lsp].name>>, None)
  ELSE Entry(r.interface, "FORWARD", Push(r.lsp), None)

LabelFib(u, t, by) ==
  [l \in {l \in Labels : t.mpls[l] # << >>} |-> LabelEntry(u, by, t.mpls[l][1])]

ForwardingTable(u, t, by) == [ip |-> IpFib(u, t, by), mpls |-> LabelFib(u, t, by)]

Now == Tables(direct, static, isis, bgp, rsvp, mpls)

(* ForwardingTable.lookup_ip: the first prefix that holds the address.     *)
Holding(x) == {p \in DOMAIN fib.ip : Covers(p, x)}
Found(x)   == FirstMatch(Holding(x))

-----------------------------------------------------------------------------
(* add_route raises ROUTE_CHANGE only for a prefix that had no route.      *)
(* Fault: only for one that has a route already.                           *)
RemadeLate(t, r) ==
  fib' = IF HasPrefix(t, r.prefix) THEN ForwardingTable(up', Now', bypass') ELSE fib

Remade(t, r) ==
  fib' = IF HasPrefix(t, r.prefix) THEN fib ELSE ForwardingTable(up', Now', bypass')

(***************************************************************************)
(* PhysicalInterface.up and down reach the logical interface, then the     *)
(* RouteTableUpdater.  The /32 of the interface is new, so ROUTE_CHANGE is *)
(* raised once both routes are there; and after a failure the forwarding   *)
(* table is made anew in any case.                                         *)
(***************************************************************************)
InterfaceUp(i) ==
  /\ i \notin up
  /\ up' = up \cup {i}
  /\ direct' = Added(Added(direct, ConnectedRoute(i)), LocalRoute(i))
  /\ UNCHANGED <<moves, static, isis, bgp, rsvp, mpls, bypass, made>>
  /\ fib' = ForwardingTable(up', Now', bypass)

(* Fault: the last table is the one made on the event of the physical      *)
(* interface, before the logical one is down.                              *)
InterfaceDownEarly(i) ==
  /\ i \in up \ {Loopback} /\ moves < MaxMoves
  /\ up' = up \ {i}
  /\ moves' = moves + 1
  /\ direct' = Deleted(Deleted(direct, ConnectedRoute(i)), LocalRoute(i))
  /\ UNCHANGED <<static, isis, bgp, rsvp, mpls, bypass, made>>
  /\ fib' = ForwardingTable(up, Now, bypass)

InterfaceDown(i) ==
  /\ i \in up \ {Loopback} /\ moves < MaxMoves
  /\ up' = up \ {i}
  /\ moves' = moves + 1
  /\ direct' = Deleted(Deleted(direct, ConnectedRoute(i)), LocalRoute(i))
  /\ UNCHANGED <<static, isis, bgp, rsvp, mpls, bypass, made>>
  /\ fib' = ForwardingTable(up', Now', bypass)

(* Router.static_route, and the add_route of a BGP route in the samples.   *)
StaticRoute(r) ==
  /\ r \notin RoutesOf(static)
  /\ static' = Added(static, r)
  /\ UNCHANGED <<up, moves, direct, isis, bgp, rsvp, mpls, bypass, made>>
  /\ Remade(static, r)

AddBgpRoute(r) ==
  /\ r \notin RoutesOf(bgp)
  /\ Orderly => ~ HasPrefix(bgp, r.prefix)
  /\ bgp' = Added(bgp, r)
  /\ UNCHANGED <<up, moves, direct, static, isis, rsvp, mpls, bypass, made>>
  /\ Remade(bgp, r)

(* set_routes: the table is emptied without an event; each route that is   *)
(* then added raises one, and a second route to a prefix takes the place   *)
(* of the first.  IS-IS computes no empty set once it knows another system.*)
SetRoutes(R) ==
  /\ isis' = [p \in Prefixes |->
                IF \E r \in R : r.prefix = p
                THEN <<CHOOSE r \in R : r.prefix = p>> ELSE << >>]
  /\ UNCHANGED <<up, moves, direct, static, bgp, rsvp, mpls, bypass, made>>
  /\ fib' = IF R = {} THEN fib ELSE ForwardingTable(up, Now', bypass)

-----------------------------------------------------------------------------
(* _process_resv at the start of an LSP: its route.                        *)
AddLsp(r) ==
  /\ r \notin RoutesOf(rsvp)
  /\ rsvp' = Added(rsvp, r)
  /\ UNCHANGED <<up, moves, direct, static, isis, bgp, mpls, bypass, made>>
  /\ Remade(rsvp, r)

(* _process_resv on the way: a new label; a bypass of its next hop that is *)
(* there already is hung on its route.                                     *)
AddLabel(r) ==
  /\ mpls[r.prefix] = << >>
  /\ \A l \in Labels : \A k \in DOMAIN mpls[l] : mpls[l][k].lsp # r.lsp
  /\ mpls' = Added(mpls, r)
  /\ bypass' = [bypass EXCEPT ![r.lsp] =
                  IF \E b \in made : b.protects = r.next
                  THEN CHOOSE b \in made : b.protects = r.next ELSE @]
  /\ UNCHANGED <<up, moves, direct, static, isis, bgp, rsvp, made>>
  /\ Remade(mpls, r)

(* _process_resv at the start of a bypass: it is hung on every route whose *)
(* next hop it protects.                                                   *)
ProtectedRoutes(b) ==
  {r \in RoutesOf(rsvp) \cup RoutesOf(mpls) : r.next = b.protects}

InstallBypass(b) ==
  /\ b \notin made
  /\ Orderly => \A r \in ProtectedRoutes(b) : r.interface \in up
  /\ made' = made \cup {b}
  /\ bypass' = [n \in Lsps |->
                  IF \E r \in ProtectedRoutes(b) : r.lsp = n THEN b ELSE bypass[n]]
  /\ UNCHANGED <<up, moves, tables, fib>>

-----------------------------------------------------------------------------
(* A router starts with its loopback, which gets a LOCAL route.            *)
Init ==
  /\ up = {Loopback}
  /\ moves = 0
  /\ direct = Added(NoRoutes, LocalRoute(Loopback))
  /\ static = NoRoutes /\ isis = NoRoutes /\ bgp = NoRoutes /\ rsvp = NoRoutes
  /\ mpls = [l \in Labels |-> << >>]
  /\ bypass = [n \in Lsps |-> None]
  /\ made = {}
  /\ fib = ForwardingTable(up, Now, bypass)

Next ==
  \/ \E i \in Interfaces : InterfaceUp(i) \/ InterfaceDown(i)
  \/ \E r \in StaticRoutes : StaticRoute(r)
  \/ \E r \in BgpRoutes : AddBgpRoute(r)
  \/ \E R \in IsisTables : SetRoutes(R)
  \/ \E r \in LspRoutes : AddLsp(r)
  \/ \E r \in LabelRoutes : AddLabel(r)
  \/ \E b \in Bypasses : InstallBypass(b)

Spec == Init /\ [][Next]_vars

-----------------------------------------------------------------------------
EntrySet ==
  [interface : Interfaces \cup {None}, action : {"CONTROL", "FORWARD", "REJECT"},
   push : Seq(Lsps \cup {b.name : b \in Bypasses}), next : Nat \cup {None}]

TypeOK ==
  /\ up \subseteq Interfaces /\ Loopback \in up
  /\ moves \in 0..MaxMoves
  /\ bypass \in [Lsps -> Bypasses \cup {None}]
  /\ made \subseteq Bypasses
  /\ \A t \in {direct, static, isis, bgp, rsvp} :
       /\ DOMAIN t = Prefixes
       /\ \A r \in RoutesOf(t) : r.interface \in Interfaces \cup {None}
  /\ DOMAIN mpls = Labels
  /\ DOMAIN fib.ip \subseteq Prefixes /\ DOMAIN fib.mpls \subseteq Labels
  /\ \A p \in DOMAIN fib.ip : fib.ip[p] \in EntrySet
  /\ \A l \in DOMAIN fib.mpls : fib.mpls[l] \in EntrySet

(* The forwarding table is the one the routing tables, the interfaces and  *)
(* the bypasses of the moment make, although most changes are told by an   *)
(* event and some are not told at all: a second route to a prefix          *)
(* (routing.py:255), a bypass (rsvp/process.py:467), the tables emptied    *)
(* for new IS-IS routes (routing.py:188).  It holds in any order of        *)
(* failures, LSPs and routes as long as BGP has one route for a prefix and *)
(* bypasses are made before the link they protect fails.                   *)
FibCurrent == Orderly => fib = ForwardingTable(up, Now, bypass)

(* The entry an address gets is the one of the smallest block that holds   *)
(* it: the order of network addresses and lengths that routing.py:389-397  *)
(* sorts by puts longer prefixes first wherever two hold one address       *)
(* (forwarding.py:25: "so we should always arrive at something more        *)
(* specific first").                                                       *)
LongestPrefixWins ==
  \A x \in Default.net..(Default.net + Default.size - 1) :
    \A p \in Holding(x) : Found(x).size <= p.size

(* Under the same condition a prefix that only BGP knows is never sent     *)
(* over an interface that is down: it goes over the LSP or the IGP route   *)
(* to its next hop, over the bypass if the LSP's link has failed, or is    *)
(* hidden (routing.py:417-428).                                            *)
OnlyBgp(p) == HasPrefix(bgp, p) /\ \A t \in {direct, static, isis} : ~ HasPrefix(t, p)

LearnedOverLiveLinks ==
  Orderly =>
    \A p \in DOMAIN fib.ip : OnlyBgp(p) => fib.ip[p].interface \in up

(* With one BGP route for a prefix, and bypasses made while the link they  *)
(* protect is up: the failure of the first link of an LSP that has a live  *)
(* bypass moves its traffic to the bypass, with both labels on the stack,  *)
(* and no other event is needed (routing.py:426-428); the recovery moves   *)
(* it back.  A bypass that is made after the failure raises no event       *)
(* (rsvp/process.py:467), and the traffic waits for the next one.          *)
BypassTakesOver ==
  Orderly =>
    \A p \in Prefixes : OnlyBgp(p) /\ Resolves(Now, bgp[p][1]) =>
      LET q == Resolved(Now, bgp[p][1])
      IN  q.lsp # None =>
            IF q.interface \in up
            THEN fib.ip[p].interface = q.interface /\ fib.ip[p].push = <<q.lsp>>
            ELSE bypass[q.lsp] # None /\ bypass[q.lsp].interface \in up =>
                   /\ fib.ip[p].interface = bypass[q.lsp].interface
                   /\ fib.ip[p].push = <<q.lsp, bypass[q.lsp].name>>
=============================================================================
