-------------------------------- MODULE Rsvp --------------------------------
(***************************************************************************)
(* RSVP-TE as rsvp/process.py runs it, and the label operations (mpls.py)  *)
(* its routes hold.  The ingress of a label-switched path computes the     *)
(* explicit route and sends a Path message along it; the egress answers    *)
(* with a Resv that comes back hop by hop, and each hop gives a label and  *)
(* installs the route behind it.  A hop of a path that asks for link       *)
(* protection opens a path of its own, a bypass, to the next router around *)
(* their link; as bypasses ask for protection too, this goes on until      *)
(* every link they use has one.                                            *)
(*                                                                         *)
(* IS-IS has converged: the database is the network.  A message is handed  *)
(* to the router it is meant for, in any order; one may be lost.           *)
(***************************************************************************)
EXTENDS Integers, FiniteSets, Sequences, LinkStateSpf

CONSTANTS Routers,    \* positive numbers: their router ids and loopbacks
          Links,      \* sets of two routers
          Requests,   \* the paths the user asks for
          MaxLosses   \* bound on lost messages

Nbr(r) == {n \in Routers : {r, n} \in Links}

(* A session: the ingress, the egress, the next hop whose link it goes     *)
(* around (none of a path the user asked for), whether it is protected.    *)
Session(r, d, around, protect) == [src |-> r, dest |-> d, around |-> around, protect |-> protect]

Bypass(r, n) == Session(r, n, n, TRUE)

ASSUME RsvpAssumption ==
  /\ Routers \subseteq Nat \ {0} /\ IsFiniteSet(Routers)
  /\ \A l \in Links : l \subseteq Routers /\ Cardinality(l) = 2
  /\ \A r \in Routers : \A n \in Nbr(r) : Metric[r][n] \in Nat \ {0}
  /\ Far \in Nat
  /\ Requests \subseteq {Session(r, d, NoSystem, p) : r, d \in Routers, p \in BOOLEAN}
  /\ \A q \in Requests : q.src # q.dest
  /\ MaxLosses \in Nat

VARIABLES
  sessions,  \* sessions[r]: those r is the ingress of
  pathOf,    \* pathOf[r][s]: the path state of s, its previous hop (r at the ingress)
  routes,    \* routes[r][s]: the route of s in the tables of r, if any
  bypasses,  \* bypasses[r][s]: the route of the bypass s, not in a table
  due,       \* due[r]: the next hops r is about to open a bypass around
  wire,      \* the messages under way
  losses

vars == <<sessions, pathOf, routes, bypasses, due, wire, losses>>

-----------------------------------------------------------------------------
(* A label belongs to the router that gave it; each Resv gets a new one.   *)
(* 3 is the label of an egress: the hop before it pops.                    *)
Label(r, s) == [at |-> r, for |-> s]
ImplicitNull == Label(NoSystem, Session(NoSystem, NoSystem, NoSystem, FALSE))

(* A route: the next hop, what is done to the stack, and its bypass.       *)
RsvpRoute(n, ops, b) == [next |-> n, ops |-> ops, bypass |-> b]

NoBypass == << >>

Push(l) == <<"push", l>>
Swap(l) == <<"swap", l>>
Pop     == <<"pop">>

(* What a packet's stack, last label on top, is after one of them.         *)
Apply(op, stack) ==
  CASE op[1] = "push" -> Append(stack, op[2])
    [] op[1] = "swap" -> Append(SubSeq(stack, 1, Len(stack) - 1), op[2])
    [] op[1] = "pop"  -> SubSeq(stack, 1, Len(stack) - 1)

ApplyAll(ops, stack) ==
  LET after[k \in 0..Len(ops)] == IF k = 0 THEN stack ELSE Apply(ops[k], after[k - 1])
  IN  after[Len(ops)]

(* A table in which the entries of D are made e.                           *)
With(f, D, e) == [x \in DOMAIN f \cup D |-> IF x \in D THEN e ELSE f[x]]

-----------------------------------------------------------------------------
(* The database without the link between r and n.                          *)
(* Fault: the link is not left out.                                        *)
TedWithAll(r, n) == [systems |-> Routers, nbrs |-> [x \in Routers |-> Nbr(x)]]

Ted(r, n) ==
  [systems |-> Routers,
   nbrs |-> [x \in Routers |-> {y \in Nbr(x) : {x, y} # {r, n}}]]

(* The walk from the ingress to the egress, back along prev; the egress    *)
(* alone where it was not reached.                                         *)
ShortestPath(s) ==
  LET prev == Dijkstra(Ted(s.src, s.around), s.src).prev
      way[k \in 0..Cardinality(Routers)] ==
        IF k = 0 THEN <<s.dest>>
        ELSE LET w == way[k - 1]
             IN  IF prev[w[1]] \in {s.src, NoSystem} THEN w ELSE <<prev[w[1]]>> \o w
  IN  way[Cardinality(Routers)]

(* The database does not change: the way of each session.                  *)
Sessions == Requests \cup {Bypass(l[1], l[2]) : l \in {x \in Routers \X Routers : {x[1], x[2]} \in Links}}

(* The explicit route has each system of the walk that neighbours the one  *)
(* before it.  An egress that was not reached is taken all the same if it  *)
(* is a neighbour, over the very link that was to be avoided.              *)
Ero == [s \in Sessions |-> LET w == ShortestPath(s)
                           IN  IF w[1] \in Nbr(s.src) THEN w ELSE << >>]

PathMsg(s, r, ero) == [kind |-> "path", session |-> s, from |-> r, to |-> ero[1], ero |-> ero]

ResvMsg(s, r, hop, l) == [kind |-> "resv", session |-> s, from |-> r, to |-> hop, label |-> l]

(* create_session and __refresh_paths: of the sessions without path state  *)
(* those that have a way send a Path.                                      *)
Opening(r, s) ==
  {x \in sessions[r] \cup {s} : x \notin DOMAIN pathOf[r] /\ Ero[x] # << >>}

Open(r, s) ==
  /\ sessions' = [sessions EXCEPT ![r] = @ \cup {s}]
  /\ IF s \in sessions[r]
     THEN UNCHANGED pathOf
     ELSE pathOf' = [pathOf EXCEPT ![r] = With(@, Opening(r, s), r)]

(* Fault: a session that is there is opened again.                         *)
SentAgain(r, s) == {PathMsg(x, r, Ero[x]) : x \in Opening(r, s) \cup {s}}

Sent(r, s) == IF s \in sessions[r] THEN {} ELSE {PathMsg(x, r, Ero[x]) : x \in Opening(r, s)}

(* The user asks for a path.                                               *)
CreateSession(s) ==
  /\ s \notin sessions[s.src]
  /\ Open(s.src, s)
  /\ wire' = wire \cup Sent(s.src, s)
  /\ UNCHANGED <<routes, bypasses, due, losses>>

(* _create_bypass_lsp, after a Resv: once for each next hop.               *)
CreateBypassLsp(r, n) ==
  /\ n \in due[r]
  /\ due' = [due EXCEPT ![r] = @ \ {n}]
  /\ Open(r, Bypass(r, n))
  /\ wire' = wire \cup Sent(r, Bypass(r, n))
  /\ UNCHANGED <<routes, bypasses, losses>>

-----------------------------------------------------------------------------
(* _process_path: the egress answers, another hop keeps the state, takes   *)
(* itself from the explicit route and sends the Path on.                   *)
ProcessPath(r, m) ==
  LET s == m.session
  IN  IF s.dest = r
      THEN /\ wire' = (wire \ {m}) \cup {ResvMsg(s, r, m.from, ImplicitNull)}
           /\ UNCHANGED pathOf
      ELSE /\ wire' = (wire \ {m}) \cup {PathMsg(s, r, Tail(m.ero))}
           /\ pathOf' = [pathOf EXCEPT ![r] = With(@, {s}, m.from)]

(* A bypass whose route is known, for routes to the next hop n.            *)
KnownBypass(r, n) ==
  IF Bypass(r, n) \in DOMAIN bypasses[r] THEN <<Bypass(r, n)>> ELSE NoBypass

(* The ingress of a path of the user pushes the label; the route has no    *)
(* bypass until one is installed.                                          *)
IngressRoute(r, m) ==
  /\ routes' = [routes EXCEPT ![r] = With(@, {m.session}, RsvpRoute(m.from, <<Push(m.label)>>, NoBypass))]
  /\ wire' = wire \ {m}
  /\ UNCHANGED bypasses

(* The ingress of a bypass hangs it on the routes over the link it goes    *)
(* around, those of its own paths and those of labels.                     *)
Hung(s, r) ==
  [x \in DOMAIN routes[r] |->
     IF routes[r][x].next = s.around
     THEN [routes[r][x] EXCEPT !.bypass = <<s>>] ELSE routes[r][x]]

InstallBypass(r, m) ==
  /\ bypasses' = [bypasses EXCEPT ![r] =
                  With(@, {m.session}, RsvpRoute(m.from, <<Push(m.label)>>,
                    IF m.from = m.session.around THEN <<m.session>> ELSE KnownBypass(r, m.from)))]
  /\ routes' = [routes EXCEPT ![r] = Hung(m.session, r)]
  /\ wire' = wire \ {m}

(* Any other hop gives a label of its own, which the Resv carries on.      *)
(* Fault: the Resv carries on the label it came with.                      *)
CarriedUnchanged(r, m) == m.label

Carried(r, m) == Label(r, m.session)

(* Fault: a route to a label has no bypass yet.                            *)
Unprotected(r, m) == NoBypass

Protection(r, m) == KnownBypass(r, m.from)

ReserveLabel(r, m) ==
  LET s  == m.session
      op == IF m.label = ImplicitNull THEN Pop ELSE Swap(m.label)
  IN  /\ routes' = [routes EXCEPT ![r] = With(@, {s}, RsvpRoute(m.from, <<op>>, Protection(r, m)))]
      /\ wire' = (wire \ {m}) \cup {ResvMsg(s, r, pathOf[r][s], Carried(r, m))}
      /\ UNCHANGED bypasses

(* _process_resv.                                                          *)
(* Fault: only the ingress opens a bypass.                                 *)
ProtectsFirst(r, s) == s.protect /\ s.src = r

Protects(r, s) == s.protect

ProcessResv(r, m) ==
  LET s == m.session
  IN  IF s \notin DOMAIN pathOf[r]
      THEN wire' = wire \ {m} /\ UNCHANGED <<routes, bypasses, due>>
      ELSE /\ \/ s.src = r /\ s.around = NoSystem /\ IngressRoute(r, m)
              \/ s.src = r /\ s.around # NoSystem /\ InstallBypass(r, m)
              \/ s.src # r /\ ReserveLabel(r, m)
           /\ due' = IF Protects(r, s) THEN [due EXCEPT ![r] = @ \cup {m.from}] ELSE due

Receive(m) ==
  /\ \/ m.kind = "path" /\ ProcessPath(m.to, m) /\ UNCHANGED <<routes, bypasses, due>>
     \/ m.kind = "resv" /\ ProcessResv(m.to, m) /\ UNCHANGED pathOf
  /\ UNCHANGED <<sessions, losses>>

Lose(m) ==
  /\ losses < MaxLosses
  /\ losses' = losses + 1
  /\ wire' = wire \ {m}
  /\ UNCHANGED <<sessions, pathOf, routes, bypasses, due>>

-----------------------------------------------------------------------------
Init ==
  /\ sessions = [r \in Routers |-> {}]
  /\ pathOf = [r \in Routers |-> << >>]
  /\ routes = [r \in Routers |-> << >>]
  /\ bypasses = [r \in Routers |-> << >>]
  /\ due = [r \in Routers |-> {}]
  /\ wire = {} /\ losses = 0

Works == (\E m \in wire : Receive(m)) \/ (\E r \in Routers : \E n \in due[r] : CreateBypassLsp(r, n))

Next ==
  \/ \E s \in Requests : CreateSession(s)
  \/ Works
  \/ \E m \in wire : Lose(m)

Spec == Init /\ [][Next]_vars

(* The scheduler runs the events in its queue.                             *)
FairSpec == Spec /\ WF_vars(Works)

-----------------------------------------------------------------------------
(* Where a packet at r with a stack of labels gets to when the links in    *)
(* down have failed: the last router, or nowhere if it is dropped.  A      *)
(* label 3 on top is popped; a label leads on by the route behind it, or   *)
(* by its bypass.                                                          *)
Over(t, r, down, stack) ==
  IF {r, t.next} \notin down
  THEN {[at |-> t.next, stack |-> ApplyAll(t.ops, stack)]}
  ELSE {[at |-> b.next, stack |-> ApplyAll(b.ops, ApplyAll(t.ops, stack))] :
          b \in {x \in {bypasses[r][s] : s \in {y \in DOMAIN bypasses[r] : t.bypass = <<y>>}} :
                   {r, x.next} \notin down}}

LookupLabel(r, l) == {s \in DOMAIN routes[r] : l = Label(r, s)}

StepOf(p, down) ==
  LET top == p.stack[Len(p.stack)]
  IN  IF p.stack = << >> THEN {p}
      ELSE IF top = ImplicitNull THEN {[p EXCEPT !.stack = ApplyAll(<<Pop>>, @)]}
      ELSE UNION {Over(routes[p.at][s], p.at, down, p.stack) :
                    s \in LookupLabel(p.at, top)}

Walk(P, down) ==
  LET at[k \in 0..4 * Cardinality(Routers)] ==
        IF k = 0 THEN P ELSE UNION {StepOf(p, down) : p \in at[k - 1]}
  IN  {p.at : p \in {q \in at[4 * Cardinality(Routers)] : q.stack = << >>}}

(* Where the packets of the route of s at r go.                            *)
Enters(r, s, down) ==
  IF s.src = r THEN Walk(Over(routes[r][s], r, down, << >>), down)
  ELSE Walk({[at |-> r, stack |-> <<Label(r, s)>>]}, down)

-----------------------------------------------------------------------------
(* As soon as a route to a label or of a path is there, its packets get to *)
(* the egress: the labels behind it are all in place, each swapped for the *)
(* one the next router gave, with none left at the end.                    *)
LspsLead ==
  \A r \in Routers :
    /\ \A s \in DOMAIN routes[r] : Enters(r, s, {}) = {s.dest}
    /\ \A s \in DOMAIN bypasses[r] : Walk(Over(bypasses[r][s], r, {}, << >>), {}) = {s.dest}

(* When the link behind a route fails, its bypass takes the packets to the *)
(* egress all the same, where there is another way.                        *)
OtherWay ==
  {l \in Links : \A r, n \in l :
     r # n => Distance([systems |-> Routers, nbrs |-> [x \in Routers |-> {y \in Nbr(x) : {x, y} # l}]], r)[n] < Far}

RepairLeads ==
  \A r \in Routers : \A s \in DOMAIN routes[r] :
    LET t == routes[r][s]
    IN  t.bypass # NoBypass /\ {r, t.next} \in OtherWay => Enters(r, s, {{r, t.next}}) = {s.dest}

(* Labels and the bypass around their link may come in any order: a label  *)
(* is protected from the moment there are both.                            *)
LabelsProtected ==
  \A r \in Routers : \A s \in DOMAIN routes[r] :
    s.src # r => routes[r][s].bypass = KnownBypass(r, routes[r][s].next)

(* When all is done, with no message lost, every path that has a way is    *)
(* set up, and so is a bypass at each hop of a protected one.              *)
Done == wire = {} /\ (\A r \in Routers : due[r] = {})

AllSetUp ==
  Done /\ losses = 0 =>
    \A r \in Routers : \A s \in sessions[r] :
      Ero[s] # << >> =>
        /\ s \in DOMAIN routes[r] \cup DOMAIN bypasses[r]
        /\ s.protect =>
             \A x \in Routers : s \in DOMAIN routes[x] => KnownBypass(x, routes[x][s].next) # NoBypass

(* Bypasses protected by bypasses come to an end.                          *)
SettingUpEnds == <>[]Done

=============================================================================
