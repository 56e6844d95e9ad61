-------------------------------- MODULE Isis --------------------------------
(***************************************************************************)
(* IS-IS as isis/process.py runs it on point-to-point links: hellos bring  *)
(* adjacencies up; a router describes its adjacencies and links in a link  *)
(* state packet (LSP); sequence number packets (SNP: complete ones when an *)
(* adjacency comes up, partial ones from a timer) tell a neighbour what is *)
(* known; an LSP is sent from a timer to the neighbours marked in srm, and *)
(* asked for or acknowledged to those marked in ssn; 200 ms after a change *)
(* the shortest paths become routes.                                       *)
(*                                                                         *)
(* Frames take a latency, so several are under way and those of different  *)
(* links arrive in any order; one is lost if its link is down when it is   *)
(* sent or its receiver is down when it arrives (interface.py:100, 226).    *)
(* Timers that are due together run in a random order (observers.py:17).   *)
(***************************************************************************)
EXTENDS Integers, FiniteSets, LinkStateSpf

CONSTANTS Routers,    \* their system ids, positive numbers
          Links,      \* the links, sets of two routers
          FreshUp,    \* what links may be up when the processes start
          Flaps,      \* bounds on how often each link goes down or up
          Prompt      \* frames have arrived, and what follows at once is done,
                      \*   before a timer fires or a link changes

Nbr(r) == {n \in Routers : {r, n} \in Links}

ASSUME IsisAssumption ==
  /\ Routers \subseteq Nat \ {0} /\ IsFiniteSet(Routers)
  /\ \A l \in Links : l \subseteq Routers /\ Cardinality(l) = 2
  /\ \A r \in Routers : \A n \in Nbr(r) :
       Metric[r][n] \in Nat \ {0} /\ Cardinality(Routers) * Metric[r][n] < Far
  /\ Far \in Nat \ {0}
  /\ FreshUp \subseteq SUBSET Links
  /\ Flaps \subseteq [Links -> Nat]
  /\ Prompt \in BOOLEAN

VARIABLES
  linkUp,   \* the links that are up
  ifUp,     \* the links whose two ends know they are up
  moves,    \* moves[l]: how often the link will still go down or up
  adj,      \* adj[r][n]: the state of the neighbour, "none" before its first hello
  db,       \* db[r][o]: the LSP of o that r holds, seq -1 if none
  srm,      \* srm[r]: the <<o, n>> of the LSPs to send to n
  ssn,      \* ssn[r]: the <<o, n>> of the LSPs to list in a partial SNP to n
  csnp,     \* csnp[r]: the neighbours to send a complete SNP to
  refresh,  \* the routers that wait to look at their interfaces
  spf,      \* the routers that wait to compute their paths
  routes,   \* routes[r][o]: the next hop to o, if any
  wire      \* the frames under way

vars == <<linkUp, ifUp, moves, adj, db, srm, ssn, csnp, refresh, spf, routes, wire>>

links == <<linkUp, ifUp, moves>>

IsUp(r, n) == {r, n} \in ifUp

(* An LSP: the neighbours it lists and the links whose prefix it gives as  *)
(* up.  An SNP that names an unknown LSP leaves an empty one, seq 0.       *)
Lsp(s, nbrs, ups) == [seq |-> s, nbrs |-> nbrs, ups |-> ups]
Absent      == Lsp(-1, {}, {})
Placeholder == Lsp(0, {}, {})

Known(r) == {o \in Routers : db[r][o].seq >= 0}

(* Frames: to, from, and what they carry.  An SNP, complete or partial,    *)
(* lists sequence numbers, -1 for an LSP it does not name.                 *)
Hello(r, n, s)  == [kind |-> "hello", from |-> r, to |-> n, sees |-> s]
Snp(k, r, n, q) == [kind |-> k, from |-> r, to |-> n, seqs |-> q]
Entries(r, O)   == [o \in Routers |-> IF o \in O THEN db[r][o].seq ELSE -1]
LspFrame(r, n, o) == [kind |-> "lsp", from |-> r, to |-> n, id |-> o, lsp |-> db[r][o]]

(* PhysicalInterface.send_frame hands over what PhysicalLink.send carries. *)
SendFrame(F) == {f \in F : {f.from, f.to} \in ifUp}
OnWire(F)    == {f \in SendFrame(F) : {f.from, f.to} \in linkUp}

-----------------------------------------------------------------------------
(***************************************************************************)
(* __refresh_local.  adjOf and dbOf are the state it starts from.  A       *)
(* neighbour behind an interface that is down goes DOWN and is taken out   *)
(* of the LSP; every other one the process has heard of is in it.          *)
(*                                                                         *)
(* The LSP gets a new number when a neighbour leaves it, when the prefix   *)
(* of a link changes its state, and when a neighbour enters it at the end  *)
(* with the first address of the link: the assignment stands in the loop   *)
(* over the addresses of the link, behind the break (process.py:340-344).  *)
(***************************************************************************)
FirstEnd(r, n) == r < n

AfterLook(adjOf, r) ==
  [n \in Nbr(r) |->
     IF adjOf[n] # "none" /\ ~ IsUp(r, n) THEN "DOWN" ELSE adjOf[n]]

Heard(a)  == {n \in DOMAIN a : a[n] # "none"}
Listed(a) == {n \in Heard(a) : a[n] # "DOWN"}
LinksUp(r) == {n \in Nbr(r) : IsUp(r, n)}

Changed(r, old, nbrs) ==
  \/ old.nbrs \ nbrs # {}
  \/ \E n \in nbrs \ old.nbrs : FirstEnd(r, n)
  \/ old.seq > 0 /\ old.ups # LinksUp(r)

(* Fault: an LSP that a neighbour leaves starts again at 1.                *)
NumberAgain(old, nbrs, changed) ==
  IF old.nbrs \ nbrs # {} THEN 1 ELSE (IF old.seq >= 0 THEN old.seq ELSE 1) + (IF changed THEN 1 ELSE 0)

Number(old, nbrs, changed) ==
  (IF old.seq >= 0 THEN old.seq ELSE 1) + (IF changed THEN 1 ELSE 0)

RefreshLocal(r, adjOf) ==
  LET old     == db[r][r]
      look    == AfterLook(adjOf, r)
      changed == Changed(r, old, Listed(look))
  IN  /\ adj' = [adj EXCEPT ![r] = look]
      /\ db'  = [db EXCEPT ![r][r] = Lsp(Number(old, Listed(look), changed), Listed(look), LinksUp(r))]
      /\ srm' = [srm EXCEPT ![r] =
                   @ \cup (IF changed THEN {<<r, n>> : n \in LinksUp(r) \cap Heard(look)} ELSE {})]
      /\ spf' = IF changed THEN spf \cup {r} ELSE spf

-----------------------------------------------------------------------------
Ready == Prompt => wire = {} /\ refresh = {} /\ linkUp = ifUp /\ \A r \in Routers : csnp[r] = {}

(* A link changes its state once its ends, and the processes on them, have *)
(* followed the last change.                                               *)
LinkMoves(l) ==
  /\ moves[l] > 0
  /\ linkUp = ifUp /\ refresh \cap l = {} /\ Ready
  /\ linkUp' = IF l \in linkUp THEN linkUp \ {l} ELSE linkUp \cup {l}
  /\ moves' = [moves EXCEPT ![l] = @ - 1]
  /\ UNCHANGED <<ifUp, adj, db, srm, ssn, csnp, refresh, spf, routes, wire>>

(* Both ends hear of it half a latency later, in one instant.              *)
EndsHear(l) ==
  /\ (l \in linkUp) # (l \in ifUp)
  /\ ifUp' = IF l \in linkUp THEN ifUp \cup {l} ELSE ifUp \ {l}
  /\ refresh' = refresh \cup l
  /\ UNCHANGED <<linkUp, moves, adj, db, srm, ssn, csnp, spf, routes, wire>>

(* link_handler: 10 ms after a LINK_STATE event.                           *)
LinkHandler(r) ==
  /\ r \in refresh
  /\ refresh' = refresh \ {r}
  /\ RefreshLocal(r, adj[r])
  /\ UNCHANGED <<links, ssn, csnp, routes, wire>>

-----------------------------------------------------------------------------
(* A timer fires again after at least 99 ms: what it sent has arrived, for *)
(* the samples' links have latencies of 3 to 75 ms.                        *)
Fires(r, k) == \A f \in wire : f.from # r \/ f.kind # k

(* __send_hello, from a timer: a neighbour that is NEW or DOWN becomes     *)
(* Initializing with the hello that lists it.  Hellos between ends that    *)
(* are both UP say nothing new and are left out.                           *)
Rising(r) == {n \in LinksUp(r) : adj[r][n] # "UP" \/ adj[n][r] # "UP"}

Listing(a) == IF a \in {"NEW", "DOWN"} THEN "Initializing" ELSE a

SendHello(r) ==
  /\ Fires(r, "hello") /\ Ready
  /\ Rising(r) # {}
  /\ adj' = [adj EXCEPT ![r] = [n \in Nbr(r) |-> IF IsUp(r, n) THEN Listing(@[n]) ELSE @[n]]]
  /\ wire' = wire \cup OnWire({Hello(r, n, Listing(adj[r][n])) : n \in Rising(r)})
  /\ UNCHANGED <<links, db, srm, ssn, csnp, refresh, spf, routes>>

(* process_hello.  A neighbour that lists this router comes UP unless this *)
(* is its first hello; the LSP is looked at at once, and a complete SNP    *)
(* goes out 1 ms later.                                                    *)
ProcessHello(r, f) ==
  LET n   == f.from
      was == IF adj[r][n] = "none" THEN "NEW" ELSE adj[r][n]
      now == [adj[r] EXCEPT ![n] =
                IF f.sees = "none" THEN was ELSE IF was = "NEW" THEN "Initializing" ELSE "UP"]
  IN  IF f.sees # "none" /\ was \notin {"NEW", "UP"}
      THEN /\ RefreshLocal(r, now)
           /\ csnp' = [csnp EXCEPT ![r] = @ \cup {n}]
           /\ UNCHANGED <<ssn>>
      ELSE /\ adj' = [adj EXCEPT ![r] = now]
           /\ UNCHANGED <<db, srm, ssn, csnp, spf>>

-----------------------------------------------------------------------------
UpNbr(r) == {n \in Nbr(r) : adj[r][n] = "UP"}

(* __send_complete_snp.                                                    *)
SendCompleteSnp(r, n) ==
  /\ n \in csnp[r]
  /\ csnp' = [csnp EXCEPT ![r] = @ \ {n}]
  /\ wire' = wire \cup OnWire({Snp("csnp", r, n, Entries(r, Known(r)))})
  /\ UNCHANGED <<links, adj, db, srm, ssn, refresh, spf, routes>>

(* __send_partial_snps, from a timer: the marks are gone once the SNP is   *)
(* made, whether or not the interface is up.                               *)
Wanted(r, n) == {o \in Routers : <<o, n>> \in ssn[r]}

SendPartialSnps(r) ==
  LET to == {n \in UpNbr(r) : Wanted(r, n) # {}}
  IN  /\ Fires(r, "psnp") /\ Ready
      /\ to # {}
      /\ ssn' = [ssn EXCEPT ![r] = {m \in @ : m[2] \notin to}]
      /\ wire' = wire \cup OnWire({Snp("psnp", r, n, Entries(r, Wanted(r, n))) : n \in to})
      /\ UNCHANGED <<links, adj, db, srm, csnp, refresh, spf, routes>>

(* __send_lsps, from a timer: the marks stay until the neighbour answers.  *)
Marked(r) == {m \in srm[r] \cap (Routers \X UpNbr(r)) : IsUp(r, m[2])}

SendLsps(r) ==
  /\ Fires(r, "lsp") /\ Ready
  /\ Marked(r) # {}
  /\ wire' = wire \cup OnWire({LspFrame(r, m[2], m[1]) : m \in Marked(r)})
  /\ UNCHANGED <<links, adj, db, srm, ssn, csnp, refresh, spf, routes>>

-----------------------------------------------------------------------------
(* process_snp: for every LSP the SNP names.                               *)
Named(f) == {o \in Routers : f.seqs[o] >= 0}

(* What the neighbour lacks, and what this router lacks.                   *)
Older(r, f) == {o \in Named(f) : db[r][o].seq > f.seqs[o]}

Newer(r, f) == {o \in Named(f) : db[r][o].seq < f.seqs[o] \/ db[r][o].seq < 0}

(* Fault: no empty LSP is left for one that is unknown.                    *)
WithoutPlaceholders(r, f) == db[r]

WithPlaceholders(r, f) ==
  [o \in Routers |-> IF o \in Named(f) /\ db[r][o].seq < 0 THEN Placeholder ELSE db[r][o]]

ProcessSnp(r, f) ==
  LET at(O) == {<<o, f.from>> : o \in O}
  IN  /\ db' = [db EXCEPT ![r] = WithPlaceholders(r, f)]
      /\ srm' = [srm EXCEPT ![r] = (@ \ at(Named(f))) \cup at(Older(r, f))]
      /\ ssn' = [ssn EXCEPT ![r] = (@ \ at(Older(r, f))) \cup at(Newer(r, f))]
      /\ UNCHANGED <<adj, csnp, spf>>

(* process_lsp: a newer LSP takes the place of the old one and is marked   *)
(* for all neighbours but the one it came from, which gets an              *)
(* acknowledgement; an older one is answered with the newer.               *)
(* Fault: a newer LSP is not passed on.                                    *)
PassedToNone(r, o, n) == {}

PassedTo(r, o, n) == {<<o, m>> : m \in Nbr(r) \ {n}}

Others(marks, o) == {m \in marks : m[1] # o}

ProcessLsp(r, f) ==
  LET o == f.id
      m == <<o, f.from>>
  IN  IF UpNbr(r) \cap {f.from} = {}
      THEN UNCHANGED <<adj, db, srm, ssn, csnp, spf>>
      ELSE /\ CASE db[r][o].seq < f.lsp.seq ->
                     /\ db'  = [db EXCEPT ![r][o] = f.lsp]
                     /\ srm' = [srm EXCEPT ![r] = Others(@, o) \cup PassedTo(r, o, f.from)]
                     /\ ssn' = [ssn EXCEPT ![r] = Others(@, o) \cup {m}]
                     /\ spf' = spf \cup {r}
                [] db[r][o].seq = f.lsp.seq ->
                     /\ srm' = [srm EXCEPT ![r] = @ \ {m}]
                     /\ ssn' = [ssn EXCEPT ![r] = @ \cup {m}]
                     /\ UNCHANGED <<db, spf>>
                [] OTHER ->
                     /\ srm' = [srm EXCEPT ![r] = @ \cup {m}]
                     /\ ssn' = [ssn EXCEPT ![r] = @ \ {m}]
                     /\ UNCHANGED <<db, spf>>
           /\ UNCHANGED <<adj, csnp>>

(* process_pdu, if the receiving interface is up.                          *)
Receive(f) ==
  /\ wire' = wire \ {f}
  /\ IF ~ IsUp(f.to, f.from)
     THEN UNCHANGED <<adj, db, srm, ssn, csnp, spf>>
     ELSE \/ f.kind = "hello" /\ ProcessHello(f.to, f)
          \/ f.kind \in {"csnp", "psnp"} /\ ProcessSnp(f.to, f)
          \/ f.kind = "lsp"   /\ ProcessLsp(f.to, f)
  /\ UNCHANGED <<links, refresh, routes>>

-----------------------------------------------------------------------------
(* run_full_dijkstra, 200 ms after a change; runs that wait are one.  It   *)
(* gives up if an LSP lists a system that has none.                        *)
GraphOf(r) == [systems |-> Known(r), nbrs |-> [o \in Known(r) |-> db[r][o].nbrs]]

RunFullDijkstra(r) ==
  /\ r \in spf
  /\ spf' = spf \ {r}
  /\ routes' = IF Complete(GraphOf(r))
               THEN [routes EXCEPT ![r] =
                       NextHops(GraphOf(r), r, Heard(adj[r]), {o \in Known(r) \ {r} : db[r][o].seq > 0})]
               ELSE routes
  /\ UNCHANGED <<links, adj, db, srm, ssn, csnp, refresh, wire>>

-----------------------------------------------------------------------------
(* The processes have just started, with the links in FreshUp up ...       *)
InitFresh ==
  /\ linkUp \in FreshUp /\ ifUp = linkUp /\ moves = [l \in Links |-> 0]
  /\ adj = [r \in Routers |-> [n \in Nbr(r) |-> "none"]]
  /\ db = [r \in Routers |-> [o \in Routers |-> Absent]]
  /\ routes = [r \in Routers |-> << >>]

(* ... or have come to rest with all links up: each adjacency that a first *)
(* end has seen come up has given its LSP a number.                        *)
InitSettled ==
  /\ linkUp = Links /\ ifUp = Links /\ moves \in Flaps
  /\ adj = [r \in Routers |-> [n \in Nbr(r) |-> "UP"]]
  /\ db = [r \in Routers |-> [o \in Routers |->
             Lsp(1 + Cardinality({n \in Nbr(o) : FirstEnd(o, n)}), Nbr(o), Nbr(o))]]
  /\ routes = [r \in Routers |-> NextHops(GraphOf(r), r, Nbr(r), Routers \ {r})]

Init ==
  /\ InitFresh \/ InitSettled
  /\ srm = [r \in Routers |-> {}] /\ ssn = [r \in Routers |-> {}]
  /\ csnp = [r \in Routers |-> {}]
  /\ refresh = {} /\ spf = {}
  /\ wire = {}

Timers(r) == SendHello(r) \/ SendPartialSnps(r) \/ SendLsps(r)
Due(r)    == LinkHandler(r) \/ RunFullDijkstra(r) \/ \E n \in Nbr(r) : SendCompleteSnp(r, n)
Arrivals  == \E f \in wire : Receive(f)

Next ==
  \/ \E l \in Links : LinkMoves(l) \/ EndsHear(l)
  \/ \E r \in Routers : Timers(r) \/ Due(r)
  \/ Arrivals

Spec == Init /\ [][Next]_vars

(* Nothing is under way and no timer has anything to say.                  *)
Quiet ==
  /\ linkUp = ifUp /\ refresh = {} /\ spf = {} /\ wire = {}
  /\ \A r \in Routers : /\ Rising(r) = {} /\ csnp[r] = {} /\ Marked(r) = {}
                         /\ \A n \in UpNbr(r) : Wanted(r, n) = {}

(* The systems r can reach over links that are up.                         *)
Reached(r) ==
  LET within[k \in 0..Cardinality(Routers)] ==
        IF k = 0 THEN {r}
        ELSE within[k - 1] \cup UNION {LinksUp(x) : x \in within[k - 1]}
  IN  within[Cardinality(Routers)]

(* The types, and the LSPs a router holds are ones it was told of or made. *)
TypeOK ==
  /\ linkUp \subseteq Links /\ ifUp \subseteq Links /\ moves \in [Links -> Nat]
  /\ refresh \subseteq Routers /\ spf \subseteq Routers
  /\ \A r \in Routers :
       /\ adj[r] \in [Nbr(r) -> {"none", "NEW", "Initializing", "UP", "DOWN"}]
       /\ \A o \in Routers : /\ db[r][o].seq \in Nat \cup {-1}
                               /\ db[r][o].nbrs \cup db[r][o].ups \subseteq Nbr(o)
       /\ srm[r] \cup ssn[r] \subseteq Known(r) \X Nbr(r)
       /\ csnp[r] \subseteq Nbr(r)
       /\ DOMAIN routes[r] \subseteq Routers \ {r}

(* No copy of an LSP is newer than its owner's own: a router never meets a *)
(* number of itself that it has not given (it would not outbid it).        *)
OwnNewest ==
  \A r, o \in Routers : db[r][o].seq <= db[o][o].seq

(* When the exchange is over, systems that reach each other hold all of    *)
(* each other's LSPs, in the number the owner last gave.                   *)
SeqAgreement ==
  Quiet => \A r \in Routers : \A o \in Reached(r) : db[r][o].seq = db[o][o].seq

(* And what they hold is what the owner says.                              *)
Current(r) == \A o \in Reached(r) : db[r][o] = db[o][o]

CopiesCurrent == Quiet => \A r \in Routers : Current(r)

(* When the copies are right and the paths computed from them, each hop of *)
(* a route is over a link that is up and nearer, on a shortest path of the *)
(* network as it is (the end of a link that comes up that keeps silent, see*)
(* CopiesCurrent, does not compute its paths either, process.py:363-369).  *)
Computed(r) ==
  routes[r] = NextHops(GraphOf(r), r, Heard(adj[r]), {o \in Known(r) \ {r} : db[r][o].seq > 0})

Net == [systems |-> Routers, nbrs |-> [r \in Routers |-> LinksUp(r)]]

RoutesLead ==
  Quiet /\ (\A r \in Routers : Current(r) /\ Computed(r)) =>
    \A r \in Routers :
      \A d \in Reached(r) \ {r} :
        /\ d \in DOMAIN routes[r]
        /\ routes[r][d] \in LinksUp(r)
        /\ Metric[r][routes[r][d]] + Distance(Net, routes[r][d])[d] = Distance(Net, r)[d]


=============================================================================
