------------------------------ MODULE IsisProofs ------------------------------
(***************************************************************************)
(* Proofs about Isis, for every set of routers and links and every metric. *)
(* Numbers, types and routes are right with any link failures at any pace  *)
(* of the timers; that copies agree needs one of the two to be kept.       *)
(***************************************************************************)
EXTENDS Isis, IsoAddress, FiniteSetTheorems, SequenceTheorems, TLAPS

Seqs == Nat \cup {-1}
Lsps == [seq : Seqs, nbrs : SUBSET Routers, ups : SUBSET Routers]

(* What a frame says of a number was so when it was sent, and an owner's   *)
(* number only grows.                                                      *)
FrameOK(f) ==
  /\ f.to \in Routers /\ f.from \in Routers
  /\ f.kind = "lsp" => /\ f.id \in Routers /\ f.lsp \in Lsps
                       /\ f.lsp.seq <= db[f.id][f.id].seq
  /\ f.kind \in {"csnp", "psnp"} => /\ f.seqs \in [Routers -> Seqs]
                                    /\ \A o \in Routers : f.seqs[o] <= db[o][o].seq

DbType == db \in [Routers -> [Routers -> Lsps]]

(* The inductive invariant.                                                *)
NumInv ==
  /\ DbType
  /\ OwnNewest
  /\ \A f \in wire : FrameOK(f)

(* No owner's number falls.                                                *)
Grows == \A o \in Routers : db[o][o].seq <= db'[o][o].seq

-----------------------------------------------------------------------------
(* A frame stays right while numbers grow.                                 *)
LEMMA FrameKept ==
  ASSUME DbType, DbType', Grows, NEW f, FrameOK(f)
  PROVE  FrameOK(f)'
<1>1. \A o \in Routers : db[o][o].seq \in Int /\ db'[o][o].seq \in Int
  BY DEF DbType, Lsps, Seqs
<1> QED
  BY <1>1 DEF FrameOK, Grows, Lsps, Seqs

(* Looking at the interfaces makes an own LSP that is not older.           *)
LEMMA Refreshed ==
  ASSUME NumInv, NEW r \in Routers, NEW adjOf, RefreshLocal(r, adjOf)
  PROVE  DbType' /\ Grows /\ OwnNewest'
<1> DEFINE look == AfterLook(adjOf, r)
           ch   == Changed(r, db[r][r], Listed(look))
           L    == Lsp(Number(db[r][r], Listed(look), ch), Listed(look), LinksUp(r))
<1>1. db' = [db EXCEPT ![r][r] = L]
  BY DEF RefreshLocal
<1>2. Listed(look) \subseteq Routers /\ LinksUp(r) \subseteq Routers
  BY DEF Listed, Heard, AfterLook, LinksUp, Nbr
<1>3. db[r][r].seq \in Seqs
  BY DEF NumInv, DbType, Lsps
<1>4. /\ Number(db[r][r], Listed(look), ch) \in Seqs
      /\ db[r][r].seq <= Number(db[r][r], Listed(look), ch)
  <2> HIDE DEF ch, look
  <2> QED BY <1>3 DEF Number, Seqs
<1>5. L \in Lsps /\ db[r][r].seq <= L.seq
  <2> HIDE DEF ch, look
  <2> QED BY <1>2, <1>4 DEF Lsp, Lsps
<1> HIDE DEF L
<1>6. DbType'
  BY <1>1, <1>5 DEF NumInv, DbType
<1>7. \A x, o \in Routers : db'[x][o] = IF x = r /\ o = r THEN L ELSE db[x][o]
  BY <1>1 DEF NumInv, DbType
<1>8. \A x, o \in Routers : db[x][o].seq \in Int
  BY DEF NumInv, DbType, Lsps, Seqs
<1>9. L.seq \in Int
  BY <1>5 DEF Lsps, Seqs
<1>10. Grows
  BY <1>5, <1>7, <1>8 DEF Grows
<1>11. OwnNewest'
  BY <1>5, <1>7, <1>8, <1>9 DEF NumInv, OwnNewest
<1> QED
  BY <1>6, <1>10, <1>11

(* The database of the router that gets a frame: no step but those that    *)
(* look at the interfaces changes an owner's own number.                   *)
LEMMA SnpRead ==
  ASSUME NumInv, NEW r \in Routers, NEW f, FrameOK(f), f.kind \in {"csnp", "psnp"},
         ProcessSnp(r, f)
  PROVE  DbType' /\ Grows /\ OwnNewest' /\ \A o \in Routers : db'[o][o] = db[o][o]
<1> DEFINE W == WithPlaceholders(r, f)
<1>1. db' = [db EXCEPT ![r] = W]
  BY DEF ProcessSnp
<1>2. \A x, o \in Routers : db[x][o] \in Lsps /\ db[x][o].seq \in Seqs
  BY DEF NumInv, DbType, Lsps
<1>3. Placeholder \in Lsps /\ Placeholder.seq = 0
  BY DEF Placeholder, Lsp, Lsps, Seqs
<1>4. /\ W \in [Routers -> Lsps]
      /\ \A o \in Routers : W[o] = db[r][o] \/ (W[o].seq = 0 /\ f.seqs[o] >= 0 /\ db[r][o].seq < 0)
  BY <1>2, <1>3 DEF WithPlaceholders, Named
<1> HIDE DEF W
<1>5. DbType'
  BY <1>1, <1>4 DEF NumInv, DbType
<1>6. \A x, o \in Routers : db'[x][o] = IF x = r THEN W[o] ELSE db[x][o]
  BY <1>1, <1>4 DEF NumInv, DbType
<1>7. \A o \in Routers : f.seqs[o] \in Seqs /\ f.seqs[o] <= db[o][o].seq
  BY DEF FrameOK
<1>8. \A o \in Routers : W[o] = db[r][o] \/ (W[o].seq = 0 /\ db[o][o].seq >= 0 /\ o # r)
  BY <1>2, <1>4, <1>7 DEF Seqs
<1>9. Grows
  BY <1>2, <1>6, <1>8 DEF Grows, Seqs
<1>10. \A o \in Routers : db'[o][o] = db[o][o]
  BY <1>6, <1>8
<1>11. OwnNewest'
  BY <1>2, <1>6, <1>8, <1>10 DEF NumInv, OwnNewest, Seqs
<1> QED
  BY <1>5, <1>9, <1>10, <1>11

LEMMA LspRead ==
  ASSUME NumInv, NEW r \in Routers, NEW f, FrameOK(f), f.kind = "lsp", ProcessLsp(r, f)
  PROVE  DbType' /\ Grows /\ OwnNewest' /\ \A o \in Routers : db'[o][o] = db[o][o]
<1>1. \A x, o \in Routers : db[x][o] \in Lsps /\ db[x][o].seq \in Int
  BY DEF NumInv, DbType, Lsps, Seqs
<1>2. CASE db' = db
  BY <1>1, <1>2 DEF NumInv, DbType, OwnNewest, Grows
<1>3. CASE db' = [db EXCEPT ![r][f.id] = f.lsp] /\ db[r][f.id].seq < f.lsp.seq
  <2>1. f.id \in Routers /\ f.lsp \in Lsps /\ f.lsp.seq \in Int /\ f.lsp.seq <= db[f.id][f.id].seq
    BY DEF FrameOK, Lsps, Seqs
  <2>2. f.id # r
    BY <1>1, <1>3, <2>1
  <2>3. DbType'
    BY <1>3, <2>1 DEF NumInv, DbType
  <2>4. \A x, o \in Routers : db'[x][o] = IF x = r /\ o = f.id THEN f.lsp ELSE db[x][o]
    BY <1>3, <2>1 DEF NumInv, DbType
  <2>5. \A o \in Routers : db'[o][o] = db[o][o]
    BY <2>2, <2>4
  <2>6. OwnNewest'
    BY <2>1, <2>4, <2>5 DEF NumInv, OwnNewest
  <2> QED
    BY <1>1, <2>3, <2>5, <2>6 DEF Grows
<1> QED
  BY <1>2, <1>3 DEF ProcessLsp

(* What routers send is right.                                             *)
LEMMA Sent ==
  ASSUME NumInv, NEW r \in Routers, NEW n \in Nbr(r)
  PROVE  /\ \A s : FrameOK(Hello(r, n, s))
         /\ \A k \in {"csnp", "psnp"}, O \in SUBSET Routers :
              FrameOK(Snp(k, r, n, Entries(r, O)))
         /\ \A o \in Routers : FrameOK(LspFrame(r, n, o))
<1>1. n \in Routers
  BY DEF Nbr
<1>2. \A o \in Routers : /\ db[r][o] \in Lsps /\ db[r][o].seq \in Seqs
                         /\ db[o][o].seq \in Seqs /\ db[r][o].seq <= db[o][o].seq
  BY DEF NumInv, DbType, Lsps, OwnNewest
<1>3. \A s : FrameOK(Hello(r, n, s))
  BY <1>1 DEF FrameOK, Hello
<1>4. ASSUME NEW q \in [Routers -> Seqs], \A o \in Routers : q[o] <= db[o][o].seq,
             NEW k \in {"csnp", "psnp"}
      PROVE  FrameOK(Snp(k, r, n, q))
  BY <1>1, <1>4 DEF FrameOK, Snp
<1>5. \A k \in {"csnp", "psnp"}, O \in SUBSET Routers :
        FrameOK(Snp(k, r, n, Entries(r, O)))
  <2> TAKE k \in {"csnp", "psnp"}, O \in SUBSET Routers
  <2>1. /\ Entries(r, O) \in [Routers -> Seqs]
        /\ \A o \in Routers : Entries(r, O)[o] <= db[o][o].seq
    BY <1>2 DEF Entries, Seqs
  <2> QED
    BY <1>4, <2>1
<1>6. \A o \in Routers : FrameOK(LspFrame(r, n, o))
  BY <1>1, <1>2 DEF FrameOK, LspFrame
<1> QED
  BY <1>3, <1>5, <1>6

-----------------------------------------------------------------------------
LEMMA NumInit == Init => NumInv
<1> SUFFICES ASSUME Init PROVE NumInv
  OBVIOUS
<1>1. wire = {}
  BY DEF Init
<1>2. CASE InitFresh
  <2>1. Absent \in Lsps /\ Absent.seq = -1
    BY DEF Absent, Lsp, Lsps, Seqs
  <2>2. db = [r \in Routers |-> [o \in Routers |-> Absent]]
    BY <1>2 DEF InitFresh
  <2> QED
    BY <1>1, <2>1, <2>2 DEF NumInv, DbType, OwnNewest
<1>3. CASE InitSettled
  <2> DEFINE own(o) == Lsp(1 + Cardinality({n \in Nbr(o) : FirstEnd(o, n)}), Nbr(o), Nbr(o))
  <2>1. ASSUME NEW o \in Routers PROVE own(o) \in Lsps
    <3>1. {n \in Nbr(o) : FirstEnd(o, n)} \subseteq Routers /\ Nbr(o) \subseteq Routers
      BY DEF Nbr
    <3>2. IsFiniteSet({n \in Nbr(o) : FirstEnd(o, n)})
      BY <3>1, IsisAssumption, FS_Subset
    <3>3. Cardinality({n \in Nbr(o) : FirstEnd(o, n)}) \in Nat
      BY <3>2, FS_CardinalityType
    <3> QED
      BY <3>1, <3>3 DEF Lsp, Lsps, Seqs
  <2>2. \A r, o \in Routers : db[r][o] = own(o)
    BY <1>3 DEF InitSettled
  <2> HIDE DEF own
  <2>3. db = [r \in Routers |-> [o \in Routers |-> own(o)]]
    BY <1>3 DEF InitSettled, own
  <2>4. DbType
    BY <2>1, <2>3 DEF DbType
  <2>5. \A o \in Routers : own(o).seq \in Int
    BY <2>1 DEF Lsps, Seqs
  <2> QED
    BY <1>1, <2>2, <2>4, <2>5 DEF NumInv, OwnNewest
<1> QED
  BY <1>2, <1>3 DEF Init

LEMMA NumNext == NumInv /\ [Next]_vars => NumInv' /\ Grows
<1> SUFFICES ASSUME NumInv, [Next]_vars PROVE NumInv' /\ Grows
  OBVIOUS
<1>1. \A o \in Routers : db[o][o].seq \in Int
  BY DEF NumInv, DbType, Lsps, Seqs
<1>2. ASSUME db' = db, \A f \in wire' \ wire : FrameOK(f)
      PROVE  NumInv' /\ Grows
  <2>1. Grows
    BY <1>1, <1>2 DEF Grows
  <2>2. DbType' /\ OwnNewest'
    BY <1>2 DEF NumInv, DbType, OwnNewest
  <2>3. \A f \in wire' : FrameOK(f)'
    BY <1>2, <2>1, <2>2, FrameKept DEF NumInv
  <2> QED
    BY <2>1, <2>2, <2>3 DEF NumInv
<1>3. ASSUME DbType', Grows, OwnNewest', wire' \subseteq wire
      PROVE  NumInv' /\ Grows
  <2>1. \A f \in wire' : FrameOK(f)'
    BY <1>3, FrameKept DEF NumInv
  <2> QED
    BY <1>3, <2>1 DEF NumInv
<1>4. CASE \E l \in Links : LinkMoves(l) \/ EndsHear(l)
  BY <1>2, <1>4 DEF LinkMoves, EndsHear
<1>5. ASSUME NEW r \in Routers, SendHello(r) PROVE NumInv' /\ Grows
  <2>1. db' = db /\ wire' \ wire \subseteq {Hello(r, n, Listing(adj[r][n])) : n \in Rising(r)}
    BY <1>5 DEF SendHello, OnWire, SendFrame
  <2>2. Rising(r) \subseteq Nbr(r)
    BY DEF Rising, LinksUp
  <2> QED
    BY <1>2, <2>1, <2>2, Sent
<1>6. ASSUME NEW r \in Routers, SendPartialSnps(r) PROVE NumInv' /\ Grows
  <2> DEFINE to == {n \in UpNbr(r) : Wanted(r, n) # {}}
  <2>1. db' = db /\ wire' \ wire \subseteq {Snp("psnp", r, n, Entries(r, Wanted(r, n))) : n \in to}
    BY <1>6 DEF SendPartialSnps, OnWire, SendFrame
  <2>2. ASSUME NEW n \in to PROVE FrameOK(Snp("psnp", r, n, Entries(r, Wanted(r, n))))
    <3>1. n \in Nbr(r) /\ Wanted(r, n) \in SUBSET Routers
      BY DEF UpNbr, Wanted
    <3> QED
      BY <3>1, Sent
  <2> HIDE DEF to
  <2> QED
    BY <1>2, <2>1, <2>2
<1>7. ASSUME NEW r \in Routers, SendLsps(r) PROVE NumInv' /\ Grows
  <2>1. db' = db /\ wire' \ wire \subseteq {LspFrame(r, m[2], m[1]) : m \in Marked(r)}
    BY <1>7 DEF SendLsps, OnWire, SendFrame
  <2>2. \A m \in Marked(r) : m[1] \in Routers /\ m[2] \in Nbr(r)
    BY DEF Marked, UpNbr
  <2>3. ASSUME NEW m \in Marked(r) PROVE FrameOK(LspFrame(r, m[2], m[1]))
    BY <2>2, <2>3, Sent
  <2> QED
    BY <1>2, <2>1, <2>3
<1>8. ASSUME NEW r \in Routers, LinkHandler(r) PROVE NumInv' /\ Grows
  BY <1>3, <1>8, Refreshed DEF LinkHandler
<1>9. ASSUME NEW r \in Routers, RunFullDijkstra(r) PROVE NumInv' /\ Grows
  BY <1>2, <1>9 DEF RunFullDijkstra
<1>10. ASSUME NEW r \in Routers, NEW n \in Nbr(r), SendCompleteSnp(r, n) PROVE NumInv' /\ Grows
  <2>1. db' = db /\ wire' \ wire \subseteq {Snp("csnp", r, n, Entries(r, Known(r)))}
    BY <1>10 DEF SendCompleteSnp, OnWire, SendFrame
  <2>2. Known(r) \in SUBSET Routers
    BY DEF Known
  <2> QED
    BY <1>2, <2>1, <2>2, Sent
<1>11. ASSUME NEW f \in wire, Receive(f) PROVE NumInv' /\ Grows
  <2>1. wire' \subseteq wire /\ FrameOK(f) /\ f.to \in Routers
    BY <1>11 DEF Receive, NumInv, FrameOK
  <2>2. CASE UNCHANGED db
    BY <1>2, <2>1, <2>2
  <2>3. CASE f.kind = "hello" /\ ProcessHello(f.to, f)
    <3>1. CASE UNCHANGED db
      BY <2>2, <3>1
    <3>2. CASE \E a : RefreshLocal(f.to, a)
      BY <1>3, <2>1, <3>2, Refreshed
    <3> QED
      BY <2>3, <3>1, <3>2 DEF ProcessHello
  <2>4. CASE f.kind \in {"csnp", "psnp"} /\ ProcessSnp(f.to, f)
    BY <1>3, <2>1, <2>4, SnpRead
  <2>5. CASE f.kind = "lsp" /\ ProcessLsp(f.to, f)
    BY <1>3, <2>1, <2>5, LspRead
  <2> QED
    BY <1>11, <2>2, <2>3, <2>4, <2>5 DEF Receive
<1>12. CASE UNCHANGED vars
  BY <1>2, <1>12 DEF vars
<1> QED
  BY <1>4, <1>5, <1>6, <1>7, <1>8, <1>9, <1>10, <1>11, <1>12
  DEF Next, Timers, Due, Arrivals

(* No router ever holds an LSP of another that is newer than its owner's   *)
(* own (process_lsp would put it in the place of the owner's).             *)
THEOREM OwnNewestAlways == Spec => []OwnNewest
<1>1. NumInv => OwnNewest
  BY DEF NumInv
<1> QED
  BY <1>1, NumInit, NumNext, PTL DEF Spec

(* The number of an own LSP never falls, whatever fails and is received.   *)
THEOREM NumbersGrow == Spec => [][Grows]_vars
<1>1. NumInv /\ [Next]_vars => [Grows]_vars
  BY NumNext
<1> QED
  BY <1>1, NumInit, NumNext, PTL DEF Spec

-----------------------------------------------------------------------------
(***************************************************************************)
(* The types.  Marks are for LSPs the router knows, so that what a timer   *)
(* sends has a number; LSPs are never forgotten.                           *)
(***************************************************************************)
States == {"none", "NEW", "Initializing", "UP", "DOWN"}

LspOf(o) == [seq : Seqs, nbrs : SUBSET Nbr(o), ups : SUBSET Nbr(o)]

FrameType(f) ==
  /\ f.to \in Routers /\ f.from \in Nbr(f.to)
  /\ f.kind = "hello" => f.sees \in States
  /\ f.kind = "lsp" => f.id \in Routers /\ f.lsp \in LspOf(f.id) /\ f.lsp.seq >= 0
  /\ f.kind \in {"csnp", "psnp"} => f.seqs \in [Routers -> Seqs]

LinksType ==
  /\ linkUp \subseteq Links /\ ifUp \subseteq Links /\ moves \in [Links -> Nat]
  /\ refresh \subseteq Routers /\ spf \subseteq Routers

AdjType == DOMAIN adj = Routers /\ \A r \in Routers : adj[r] \in [Nbr(r) -> States]

LspsType ==
  /\ DbType
  /\ \A r, o \in Routers : db[r][o] \in LspOf(o)

Marks(m) == DOMAIN m = Routers /\ \A r \in Routers : m[r] \subseteq Known(r) \X Nbr(r)
MarksType == Marks(srm) /\ Marks(ssn)

RestType ==
  /\ csnp \in [Routers -> SUBSET Routers] /\ \A r \in Routers : csnp[r] \subseteq Nbr(r)
  /\ DOMAIN routes = Routers /\ \A r \in Routers : DOMAIN routes[r] \subseteq Routers \ {r}

TypeInv ==
  /\ LinksType /\ AdjType /\ LspsType /\ MarksType /\ RestType
  /\ \A f \in wire : FrameType(f)

LEMMA NbrSym ==
  ASSUME NEW r \in Routers, NEW n \in Nbr(r)
  PROVE  n \in Routers /\ r \in Nbr(n)
<1>1. {n, r} = {r, n}
  OBVIOUS
<1> QED
  BY <1>1 DEF Nbr

LEMMA TypeImplies == TypeInv => TypeOK
<1> SUFFICES ASSUME TypeInv PROVE TypeOK
  OBVIOUS
<1>1. \A r, o \in Routers : db[r][o].seq \in Nat \cup {-1}
                            /\ db[r][o].nbrs \cup db[r][o].ups \subseteq Nbr(o)
  BY DEF TypeInv, LspsType, LspOf, Seqs
<1>2. \A r \in Routers : srm[r] \cup ssn[r] \subseteq Known(r) \X Nbr(r)
  BY DEF TypeInv, MarksType, Marks
<1> QED
  BY <1>1, <1>2 DEF TypeInv, TypeOK, LinksType, AdjType, States, RestType

(* Knowing more keeps the marks right.                                     *)
LEMMA MarksKept ==
  ASSUME NEW m, Marks(m), \A r \in Routers : Known(r) \subseteq Known(r)'
  PROVE  DOMAIN m = Routers /\ \A r \in Routers : m[r] \subseteq Known(r)' \X Nbr(r)
BY DEF Marks

LEMMA TypeInit == Init => TypeInv
<1> SUFFICES ASSUME Init PROVE TypeInv
  OBVIOUS
<1>1. /\ srm = [r \in Routers |-> {}] /\ ssn = [r \in Routers |-> {}]
      /\ csnp = [r \in Routers |-> {}]
      /\ refresh = {} /\ spf = {} /\ wire = {}
  BY DEF Init
<1>2. MarksType
  BY <1>1 DEF MarksType, Marks
<1>3. DbType
  BY NumInit DEF NumInv
<1>4. CASE InitFresh
  <2>1. LinksType
    BY <1>1, <1>4, IsisAssumption DEF LinksType, InitFresh
  <2>2. AdjType
    BY <1>4 DEF AdjType, InitFresh, States
  <2>3. \A r, o \in Routers : db[r][o] \in LspOf(o)
    BY <1>4 DEF InitFresh, Absent, Lsp, LspOf, Seqs
  <2>4. RestType
    BY <1>1, <1>4 DEF RestType, InitFresh
  <2> QED
    BY <1>1, <1>2, <1>3, <2>1, <2>2, <2>3, <2>4 DEF TypeInv, LspsType
<1>5. CASE InitSettled
  <2>1. LinksType
    BY <1>1, <1>5, IsisAssumption DEF LinksType, InitSettled
  <2>2. AdjType
    BY <1>5 DEF AdjType, InitSettled, States
  <2>3. ASSUME NEW r \in Routers, NEW o \in Routers PROVE db[r][o] \in LspOf(o)
    <3>1. db[r][o] = Lsp(1 + Cardinality({n \in Nbr(o) : FirstEnd(o, n)}), Nbr(o), Nbr(o))
      BY <1>5 DEF InitSettled
    <3>2. db[r][o].seq \in Seqs
      BY <1>3 DEF DbType, Lsps
    <3> QED
      BY <3>1, <3>2 DEF Lsp, LspOf
  <2>4. RestType
    <3>1. \A r \in Routers : routes[r] = NextHops(GraphOf(r), r, Nbr(r), Routers \ {r})
      BY <1>5 DEF InitSettled
    <3>2. \A r \in Routers : DOMAIN routes[r] = Routers \ {r}
      BY <3>1 DEF NextHops
    <3>3. DOMAIN routes = Routers
      BY <1>5 DEF InitSettled
    <3> QED
      BY <1>1, <3>2, <3>3 DEF RestType
  <2> QED
    BY <1>1, <1>2, <1>3, <2>1, <2>2, <2>3, <2>4 DEF TypeInv, LspsType
<1> QED
  BY <1>4, <1>5 DEF Init

(* Looking at the interfaces keeps the types of what it changes.           *)
LEMMA RefreshedTypes ==
  ASSUME TypeInv, NEW r \in Routers, NEW adjOf \in [Nbr(r) -> States], RefreshLocal(r, adjOf)
  PROVE  /\ AdjType' /\ LspsType' /\ Marks(srm)'
         /\ spf' \subseteq Routers
         /\ \A x \in Routers : Known(x) \subseteq Known(x)'
<1> DEFINE look == AfterLook(adjOf, r)
           ch   == Changed(r, db[r][r], Listed(look))
           N    == Number(db[r][r], Listed(look), ch)
           L    == Lsp(N, Listed(look), LinksUp(r))
           M    == IF ch THEN {<<r, n>> : n \in LinksUp(r) \cap Heard(look)} ELSE {}
<1>1. /\ adj' = [adj EXCEPT ![r] = look] /\ db' = [db EXCEPT ![r][r] = L]
      /\ srm' = [srm EXCEPT ![r] = @ \cup M]
      /\ spf' = IF ch THEN spf \cup {r} ELSE spf
  BY DEF RefreshLocal
<1>2. look \in [Nbr(r) -> States]
  BY DEF AfterLook, States
<1>3. /\ Listed(look) \subseteq Nbr(r) /\ LinksUp(r) \subseteq Nbr(r)
      /\ Nbr(r) \subseteq Routers
  <2>1. DOMAIN look = Nbr(r)
    BY <1>2
  <2> HIDE DEF look
  <2> QED
    BY <2>1 DEF Listed, Heard, LinksUp, Nbr
<1>4. \A x, o \in Routers : db[x][o] \in LspOf(o) /\ db[x][o].seq \in Seqs
  BY DEF TypeInv, LspsType, LspOf
<1>5. N \in Nat
  <2> HIDE DEF ch, look
  <2> QED
    BY <1>4 DEF Number, Seqs
<1>6. L \in LspOf(r) /\ L \in Lsps /\ L.seq >= 0
  <2> HIDE DEF N, look
  <2> QED
    BY <1>3, <1>5 DEF Lsp, LspOf, Lsps, Seqs
<1>7. M \subseteq {r} \X Nbr(r)
  <2> HIDE DEF ch, look
  <2> QED
    BY <1>3
<1> HIDE DEF look, L, M, ch
<1>8. AdjType'
  BY <1>1, <1>2 DEF TypeInv, AdjType
<1>9. \A x, o \in Routers : db'[x][o] = IF x = r /\ o = r THEN L ELSE db[x][o]
  BY <1>1 DEF TypeInv, LspsType, DbType
<1>10. LspsType'
  <2>1. DbType'
    BY <1>1, <1>6 DEF TypeInv, LspsType, DbType
  <2>2. \A x, o \in Routers : db'[x][o] \in LspOf(o)
    BY <1>4, <1>6, <1>9
  <2> QED
    BY <2>1, <2>2 DEF LspsType
<1>11. /\ \A x \in Routers : Known(x) \subseteq Known(x)'
       /\ r \in Known(r)'
  BY <1>6, <1>9 DEF Known
<1>12. Marks(srm)'
  <2>1. DOMAIN srm = Routers /\ \A x \in Routers : srm[x] \subseteq Known(x)' \X Nbr(x)
    BY <1>11, MarksKept DEF TypeInv, MarksType
  <2>2. M \subseteq Known(r)' \X Nbr(r)
    BY <1>7, <1>11
  <2> QED
    BY <1>1, <2>1, <2>2 DEF Marks
<1> QED
  BY <1>1, <1>8, <1>10, <1>11, <1>12 DEF TypeInv, LinksType

LEMMA SnpTypes ==
  ASSUME TypeInv, NEW f, FrameType(f), f.kind \in {"csnp", "psnp"}, ProcessSnp(f.to, f)
  PROVE  LspsType' /\ MarksType'
<1> DEFINE r == f.to
           W == WithPlaceholders(r, f)
           at(O) == {<<o, f.from>> : o \in O}
<1>1. /\ db' = [db EXCEPT ![r] = W]
      /\ srm' = [srm EXCEPT ![r] = (@ \ at(Named(f))) \cup at(Older(r, f))]
      /\ ssn' = [ssn EXCEPT ![r] = (@ \ at(Older(r, f))) \cup at(Newer(r, f))]
  BY DEF ProcessSnp
<1>2. r \in Routers /\ f.from \in Nbr(r) /\ f.seqs \in [Routers -> Seqs]
  BY DEF FrameType
<1>3. \A x, o \in Routers : db[x][o] \in LspOf(o) /\ db[x][o].seq \in Seqs /\ db[x][o] \in Lsps
  BY DEF TypeInv, LspsType, DbType, LspOf
<1>4. \A o \in Routers : /\ Placeholder \in LspOf(o) /\ Placeholder \in Lsps
                         /\ Placeholder.seq = 0
  BY DEF Placeholder, Lsp, LspOf, Lsps, Seqs
<1>5. /\ W \in [Routers -> Lsps]
      /\ \A o \in Routers : W[o] \in LspOf(o) /\ (db[r][o].seq >= 0 \/ o \in Named(f) => W[o].seq >= 0)
  BY <1>2, <1>3, <1>4 DEF WithPlaceholders, Seqs
<1> HIDE DEF W
<1>6. \A x, o \in Routers : db'[x][o] = IF x = r THEN W[o] ELSE db[x][o]
  BY <1>1 DEF TypeInv, LspsType, DbType
<1>7. LspsType'
  <2>1. DbType'
    BY <1>1, <1>2, <1>5 DEF TypeInv, LspsType, DbType
  <2>2. \A x, o \in Routers : db'[x][o] \in LspOf(o)
    BY <1>3, <1>5, <1>6
  <2> QED
    BY <2>1, <2>2 DEF LspsType
<1>8. \A x \in Routers : Known(x) \subseteq Known(x)'
  BY <1>5, <1>6 DEF Known
<1>9. Named(f) \subseteq Known(r)'
  BY <1>2, <1>5, <1>6 DEF Known, Named
<1>10. Older(r, f) \subseteq Named(f) /\ Newer(r, f) \subseteq Named(f)
  BY DEF Older, Newer
<1>11. at(Older(r, f)) \subseteq Known(r)' \X Nbr(r) /\ at(Newer(r, f)) \subseteq Known(r)' \X Nbr(r)
  BY <1>2, <1>9, <1>10
<1> HIDE DEF at
<1>12. /\ DOMAIN srm = Routers /\ \A x \in Routers : srm[x] \subseteq Known(x)' \X Nbr(x)
       /\ DOMAIN ssn = Routers /\ \A x \in Routers : ssn[x] \subseteq Known(x)' \X Nbr(x)
  BY <1>8, MarksKept DEF TypeInv, MarksType
<1>13. Marks(srm)'
  BY <1>1, <1>2, <1>11, <1>12 DEF Marks
<1>14. Marks(ssn)'
  BY <1>1, <1>2, <1>11, <1>12 DEF Marks
<1> QED
  BY <1>7, <1>13, <1>14 DEF MarksType

LEMMA LspTypes ==
  ASSUME TypeInv, NEW f, FrameType(f), f.kind = "lsp", ProcessLsp(f.to, f)
  PROVE  LspsType' /\ MarksType' /\ spf' \subseteq Routers
<1> DEFINE r == f.to
           o == f.id
           m == <<o, f.from>>
<1>1. /\ r \in Routers /\ f.from \in Nbr(r) /\ o \in Routers
      /\ f.lsp \in LspOf(o) /\ f.lsp.seq \in Int /\ f.lsp.seq >= 0
  BY DEF FrameType, LspOf, Seqs
<1>2. \A x, y \in Routers : db[x][y] \in LspOf(y) /\ db[x][y].seq \in Int
  BY DEF TypeInv, LspsType, LspOf, Seqs
<1>3. LspOf(o) \subseteq Lsps
  BY DEF LspOf, Lsps, Nbr
<1>4. /\ DOMAIN srm = Routers /\ DOMAIN ssn = Routers
      /\ \A x \in Routers : srm[x] \subseteq Known(x) \X Nbr(x) /\ ssn[x] \subseteq Known(x) \X Nbr(x)
  BY DEF TypeInv, MarksType, Marks
<1>5. spf \subseteq Routers
  BY DEF TypeInv, LinksType
<1>6. CASE UNCHANGED <<db, srm, ssn, spf>>
  BY <1>5, <1>6 DEF TypeInv, LspsType, DbType, MarksType, Marks, Known
<1>7. CASE /\ db[r][o].seq < f.lsp.seq
           /\ db'  = [db EXCEPT ![r][o] = f.lsp]
           /\ srm' = [srm EXCEPT ![r] = Others(@, o) \cup PassedTo(r, o, f.from)]
           /\ ssn' = [ssn EXCEPT ![r] = Others(@, o) \cup {m}]
           /\ spf' = spf \cup {r}
  <2>1. \A x, y \in Routers : db'[x][y] = IF x = r /\ y = o THEN f.lsp ELSE db[x][y]
    BY <1>7 DEF TypeInv, LspsType, DbType
  <2>2. LspsType'
    <3>1. DbType'
      BY <1>1, <1>3, <1>7 DEF TypeInv, LspsType, DbType
    <3>2. \A x, y \in Routers : db'[x][y] \in LspOf(y)
      BY <1>1, <1>2, <2>1
    <3> QED
      BY <3>1, <3>2 DEF LspsType
  <2>3. (\A x \in Routers : Known(x) \subseteq Known(x)') /\ o \in Known(r)'
    BY <1>1, <2>1 DEF Known
  <2>4. /\ Others(srm[r], o) \cup PassedTo(r, o, f.from) \subseteq Known(r)' \X Nbr(r)
        /\ Others(ssn[r], o) \cup {m} \subseteq Known(r)' \X Nbr(r)
    <3>1. Others(srm[r], o) \subseteq srm[r] /\ Others(ssn[r], o) \subseteq ssn[r]
      BY DEF Others
    <3>2. PassedTo(r, o, f.from) \subseteq Known(r)' \X Nbr(r)
      BY <2>3 DEF PassedTo
    <3>3. m \in Known(r)' \X Nbr(r)
      BY <1>1, <2>3
    <3>4. srm[r] \subseteq Known(r)' \X Nbr(r) /\ ssn[r] \subseteq Known(r)' \X Nbr(r)
      BY <1>1, <1>4, <2>3
    <3> QED
      BY <3>1, <3>2, <3>3, <3>4
  <2>5. MarksType'
    <3>1. \A x \in Routers : srm[x] \subseteq Known(x)' \X Nbr(x) /\ ssn[x] \subseteq Known(x)' \X Nbr(x)
      BY <1>4, <2>3
    <3> QED
      BY <1>1, <1>4, <1>7, <2>4, <3>1 DEF MarksType, Marks
  <2> QED
    BY <1>1, <1>5, <1>7, <2>2, <2>5
<1>8. CASE /\ db[r][o].seq >= f.lsp.seq
           /\ UNCHANGED <<db, spf>>
           /\ \/ srm' = [srm EXCEPT ![r] = @ \ {m}] /\ ssn' = [ssn EXCEPT ![r] = @ \cup {m}]
              \/ srm' = [srm EXCEPT ![r] = @ \cup {m}] /\ ssn' = [ssn EXCEPT ![r] = @ \ {m}]
  <2>1. m \in Known(r) \X Nbr(r)
    BY <1>1, <1>2, <1>8 DEF Known
  <2>2. \A x \in Routers : Known(x)' = Known(x)
    BY <1>8 DEF Known
  <2>3. MarksType'
    BY <1>1, <1>4, <1>8, <2>1, <2>2 DEF MarksType, Marks
  <2>4. LspsType'
    BY <1>8 DEF TypeInv, LspsType, DbType
  <2> QED
    BY <1>5, <1>8, <2>3, <2>4
<1> QED
  BY <1>1, <1>2, <1>6, <1>7, <1>8 DEF ProcessLsp

(* What routers send is of its type: a mark is for an LSP that is known.   *)
LEMMA SentTypes ==
  ASSUME TypeInv, NEW r \in Routers, NEW n \in Nbr(r)
  PROVE  /\ \A s \in States : FrameType(Hello(r, n, s))
         /\ \A k \in {"csnp", "psnp"}, O \in SUBSET Routers :
              FrameType(Snp(k, r, n, Entries(r, O)))
         /\ \A o \in Known(r) : FrameType(LspFrame(r, n, o))
<1>1. n \in Routers /\ r \in Nbr(n)
  BY NbrSym
<1>2. \A o \in Routers : db[r][o] \in LspOf(o) /\ db[r][o].seq \in Seqs
  BY DEF TypeInv, LspsType, LspOf
<1>3. \A s \in States : FrameType(Hello(r, n, s))
  BY <1>1 DEF FrameType, Hello
<1>4. ASSUME NEW k \in {"csnp", "psnp"}, NEW O \in SUBSET Routers
      PROVE  FrameType(Snp(k, r, n, Entries(r, O)))
  <2>1. Entries(r, O) \in [Routers -> Seqs]
    BY <1>2 DEF Entries, Seqs
  <2> QED
    BY <1>1, <1>4, <2>1 DEF FrameType, Snp
<1>5. ASSUME NEW o \in Known(r) PROVE FrameType(LspFrame(r, n, o))
  BY <1>1, <1>2 DEF FrameType, LspFrame, Known
<1> QED
  BY <1>3, <1>4, <1>5

LEMMA TypeNext == TypeInv /\ [Next]_vars => TypeInv'
<1> SUFFICES ASSUME TypeInv, [Next]_vars PROVE TypeInv'
  OBVIOUS
<1>1. ASSUME UNCHANGED <<db, srm, ssn>> PROVE LspsType' /\ MarksType'
  BY <1>1 DEF TypeInv, LspsType, DbType, MarksType, Marks, Known
<1>2. ASSUME UNCHANGED links, UNCHANGED refresh, spf' \subseteq Routers PROVE LinksType'
  BY <1>2 DEF TypeInv, LinksType, links
<1>3. ASSUME UNCHANGED <<csnp, routes>> PROVE RestType'
  BY <1>3 DEF TypeInv, RestType
<1>4. ASSUME UNCHANGED adj PROVE AdjType'
  BY <1>4 DEF TypeInv, AdjType
<1>5. ASSUME \A f \in wire' \ wire : FrameType(f) PROVE \A f \in wire' : FrameType(f)'
  BY <1>5 DEF TypeInv, FrameType
<1>6. spf \subseteq Routers /\ refresh \subseteq Routers
  BY DEF TypeInv, LinksType
<1>7. ASSUME NEW l \in Links, LinkMoves(l) \/ EndsHear(l) PROVE TypeInv'
  <2>1. l \subseteq Routers
    BY IsisAssumption
  <2>2. LinksType'
    <3>1. CASE LinkMoves(l)
      <4>1. moves' \in [Links -> Nat]
        BY <3>1 DEF LinkMoves, TypeInv, LinksType
      <4> QED
        BY <3>1, <4>1 DEF LinkMoves, TypeInv, LinksType
    <3>2. CASE EndsHear(l)
      BY <2>1, <3>2 DEF EndsHear, TypeInv, LinksType
    <3> QED
      BY <1>7, <3>1, <3>2
  <2>3. UNCHANGED <<adj, db, srm, ssn, csnp, spf, routes, wire>>
    BY <1>7 DEF LinkMoves, EndsHear
  <2> QED
    BY <1>1, <1>3, <1>4, <1>5, <2>2, <2>3 DEF TypeInv
<1>8. ASSUME NEW r \in Routers, SendHello(r) PROVE TypeInv'
  <2>1. /\ adj' = [adj EXCEPT ![r] = [n \in Nbr(r) |-> IF IsUp(r, n) THEN Listing(@[n]) ELSE @[n]]]
        /\ wire' \ wire \subseteq {Hello(r, n, Listing(adj[r][n])) : n \in Rising(r)}
        /\ UNCHANGED <<links, db, srm, ssn, csnp, refresh, spf, routes>>
    BY <1>8 DEF SendHello, OnWire, SendFrame
  <2>2. \A n \in Nbr(r) : adj[r][n] \in States /\ Listing(adj[r][n]) \in States
    BY DEF TypeInv, AdjType, Listing, States
  <2>3. Rising(r) \subseteq Nbr(r)
    BY DEF Rising, LinksUp
  <2>4. \A f \in wire' \ wire : FrameType(f)
    BY <2>1, <2>2, <2>3, SentTypes
  <2>5. AdjType'
    <3>1. [n \in Nbr(r) |-> IF IsUp(r, n) THEN Listing(adj[r][n]) ELSE adj[r][n]] \in [Nbr(r) -> States]
      BY <2>2
    <3> QED
      BY <2>1, <3>1 DEF TypeInv, AdjType
  <2> QED
    BY <1>1, <1>2, <1>3, <1>5, <1>6, <2>1, <2>4, <2>5 DEF TypeInv
<1>9. ASSUME NEW r \in Routers, SendPartialSnps(r) PROVE TypeInv'
  <2> DEFINE to == {n \in UpNbr(r) : Wanted(r, n) # {}}
  <2>1. /\ ssn' = [ssn EXCEPT ![r] = {m \in @ : m[2] \notin to}]
        /\ wire' \ wire \subseteq {Snp("psnp", r, n, Entries(r, Wanted(r, n))) : n \in to}
        /\ UNCHANGED <<links, adj, db, srm, csnp, refresh, spf, routes>>
    BY <1>9 DEF SendPartialSnps, OnWire, SendFrame
  <2>2. \A n \in to : n \in Nbr(r) /\ Wanted(r, n) \in SUBSET Routers
    BY DEF UpNbr, Wanted
  <2> HIDE DEF to
  <2>3. \A f \in wire' \ wire : FrameType(f)
    BY <2>1, <2>2, SentTypes
  <2>4. LspsType' /\ MarksType'
    <3>1. \A x \in Routers : Known(x)' = Known(x)
      BY <2>1 DEF Known
    <3>2. \A x \in Routers : ssn'[x] \subseteq ssn[x]
      BY <2>1 DEF TypeInv, MarksType, Marks
    <3> QED
      BY <2>1, <3>1, <3>2 DEF TypeInv, LspsType, DbType, MarksType, Marks
  <2> QED
    BY <1>2, <1>3, <1>4, <1>5, <1>6, <2>1, <2>3, <2>4 DEF TypeInv
<1>10. ASSUME NEW r \in Routers, SendLsps(r) PROVE TypeInv'
  <2>1. /\ wire' \ wire \subseteq {LspFrame(r, m[2], m[1]) : m \in Marked(r)}
        /\ UNCHANGED <<links, adj, db, srm, ssn, csnp, refresh, spf, routes>>
    BY <1>10 DEF SendLsps, OnWire, SendFrame
  <2>2. \A m \in Marked(r) : m[1] \in Known(r) /\ m[2] \in Nbr(r)
    BY DEF Marked, TypeInv, MarksType, Marks
  <2>3. \A f \in wire' \ wire : FrameType(f)
    BY <2>1, <2>2, SentTypes
  <2> QED
    BY <1>1, <1>2, <1>3, <1>4, <1>5, <1>6, <2>1, <2>3 DEF TypeInv
<1>11. ASSUME NEW r \in Routers, LinkHandler(r) PROVE TypeInv'
  <2>1. /\ refresh' \subseteq Routers /\ RefreshLocal(r, adj[r])
        /\ UNCHANGED <<links, ssn, csnp, routes, wire>>
    BY <1>6, <1>11 DEF LinkHandler
  <2>2. adj[r] \in [Nbr(r) -> States]
    BY DEF TypeInv, AdjType
  <2>3. /\ AdjType' /\ LspsType' /\ Marks(srm)' /\ spf' \subseteq Routers
        /\ \A x \in Routers : Known(x) \subseteq Known(x)'
    BY <2>1, <2>2, RefreshedTypes
  <2>4. MarksType'
    BY <2>1, <2>3, MarksKept DEF TypeInv, MarksType, Marks
  <2>5. LinksType'
    BY <2>1, <2>3 DEF TypeInv, LinksType, links
  <2> QED
    BY <1>3, <1>5, <2>1, <2>3, <2>4, <2>5 DEF TypeInv
<1>12. ASSUME NEW r \in Routers, RunFullDijkstra(r) PROVE TypeInv'
  <2>1. /\ spf' \subseteq Routers
        /\ UNCHANGED <<links, adj, db, srm, ssn, csnp, refresh, wire>>
    BY <1>6, <1>12 DEF RunFullDijkstra
  <2>2. RestType'
    <3>1. CASE routes' = routes
      BY <1>3, <2>1, <3>1
    <3>2. CASE routes' = [routes EXCEPT ![r] =
                NextHops(GraphOf(r), r, Heard(adj[r]), {o \in Known(r) \ {r} : db[r][o].seq > 0})]
      <4> DEFINE S == {o \in Known(r) \ {r} : db[r][o].seq > 0}
      <4>1. DOMAIN NextHops(GraphOf(r), r, Heard(adj[r]), S) = S
        BY DEF NextHops
      <4>2. S \subseteq Routers \ {r}
        BY DEF Known
      <4> QED
        BY <2>1, <3>2, <4>1, <4>2 DEF TypeInv, RestType
    <3> QED
      BY <1>12, <3>1, <3>2 DEF RunFullDijkstra
  <2> QED
    BY <1>1, <1>2, <1>4, <1>5, <2>1, <2>2 DEF TypeInv
<1>13. ASSUME NEW r \in Routers, NEW n \in Nbr(r), SendCompleteSnp(r, n) PROVE TypeInv'
  <2>1. /\ csnp' = [csnp EXCEPT ![r] = @ \ {n}]
        /\ wire' \ wire \subseteq {Snp("csnp", r, n, Entries(r, Known(r)))}
        /\ UNCHANGED <<links, adj, db, srm, ssn, refresh, spf, routes>>
    BY <1>13 DEF SendCompleteSnp, OnWire, SendFrame
  <2>2. Known(r) \in SUBSET Routers
    BY DEF Known
  <2>3. \A f \in wire' \ wire : FrameType(f)
    BY <2>1, <2>2, SentTypes
  <2>4. RestType'
    BY <2>1 DEF TypeInv, RestType
  <2> QED
    BY <1>1, <1>2, <1>4, <1>5, <1>6, <2>1, <2>3, <2>4 DEF TypeInv
<1>14. ASSUME NEW f \in wire, Receive(f) PROVE TypeInv'
  <2> DEFINE r == f.to
  <2>1. /\ FrameType(f) /\ r \in Routers /\ f.from \in Nbr(r) /\ f.from \in Routers
        /\ wire' \subseteq wire
        /\ UNCHANGED <<links, refresh, routes>>
    BY <1>14 DEF Receive, TypeInv, FrameType, Nbr
  <2>2. \A g \in wire' : FrameType(g)'
    BY <1>5, <2>1
  <2>3. CASE UNCHANGED <<adj, db, srm, ssn, csnp, spf>>
    BY <1>1, <1>2, <1>3, <1>4, <1>6, <2>1, <2>2, <2>3 DEF TypeInv
  <2>4. CASE f.kind = "hello" /\ ProcessHello(r, f)
    <3> DEFINE n   == f.from
               was == IF adj[r][n] = "none" THEN "NEW" ELSE adj[r][n]
               now == [adj[r] EXCEPT ![n] =
                         IF f.sees = "none" THEN was ELSE IF was = "NEW" THEN "Initializing" ELSE "UP"]
    <3>1. adj[r] \in [Nbr(r) -> States] /\ now \in [Nbr(r) -> States]
      BY <2>1 DEF TypeInv, AdjType, States
    <3> HIDE DEF now
    <3>2. CASE /\ RefreshLocal(r, now)
               /\ csnp' = [csnp EXCEPT ![r] = @ \cup {n}]
               /\ UNCHANGED ssn
      <4>1. /\ AdjType' /\ LspsType' /\ Marks(srm)' /\ spf' \subseteq Routers
            /\ \A x \in Routers : Known(x) \subseteq Known(x)'
        BY <2>1, <3>1, <3>2, RefreshedTypes
      <4>2. MarksType'
        BY <3>2, <4>1, MarksKept DEF TypeInv, MarksType, Marks
      <4>3. RestType'
        BY <2>1, <3>2 DEF TypeInv, RestType
      <4> QED
        BY <1>2, <2>1, <2>2, <4>1, <4>2, <4>3 DEF TypeInv
    <3>3. CASE /\ adj' = [adj EXCEPT ![r] = now]
               /\ UNCHANGED <<db, srm, ssn, csnp, spf>>
      <4>1. AdjType'
        BY <3>1, <3>3 DEF TypeInv, AdjType
      <4> QED
        BY <1>1, <1>2, <1>3, <1>6, <2>1, <2>2, <3>3, <4>1 DEF TypeInv
    <3> QED
      BY <2>4, <3>2, <3>3 DEF ProcessHello, now
  <2>5. CASE f.kind \in {"csnp", "psnp"} /\ ProcessSnp(r, f)
    <3>1. LspsType' /\ MarksType'
      BY <2>1, <2>5, SnpTypes
    <3>2. UNCHANGED <<adj, csnp, spf>>
      BY <2>5 DEF ProcessSnp
    <3> QED
      BY <1>2, <1>3, <1>4, <1>6, <2>1, <2>2, <3>1, <3>2 DEF TypeInv
  <2>6. CASE f.kind = "lsp" /\ ProcessLsp(r, f)
    <3>1. LspsType' /\ MarksType' /\ spf' \subseteq Routers
      BY <2>1, <2>6, LspTypes
    <3>2. UNCHANGED <<adj, csnp>>
      BY <2>6 DEF ProcessLsp
    <3> QED
      BY <1>2, <1>3, <1>4, <2>1, <2>2, <3>1, <3>2 DEF TypeInv
  <2> QED
    BY <1>14, <2>3, <2>4, <2>5, <2>6 DEF Receive
<1>15. CASE UNCHANGED vars
  <2>1. UNCHANGED <<links, adj, db, srm, ssn, csnp, refresh, spf, routes, wire>>
    BY <1>15 DEF vars, links
  <2> QED
    BY <1>1, <1>2, <1>3, <1>4, <1>5, <1>6, <2>1 DEF TypeInv
<1> QED
  BY <1>7, <1>8, <1>9, <1>10, <1>11, <1>12, <1>13, <1>14, <1>15
  DEF Next, Timers, Due, Arrivals

(* Every variable keeps its type, and what a router marks, and so what its *)
(* timers send, is an LSP it has (isis/process.py:195-244), of a router    *)
(* and neighbours that the network has.                                    *)
THEOREM WellTyped == Spec => []TypeOK
<1> QED
  BY TypeInit, TypeNext, TypeImplies, PTL DEF Spec

-----------------------------------------------------------------------------
(***************************************************************************)
(* Agreement.  Between two ends that are UP, an LSP the second has in an   *)
(* older number than the first is under way in one of six forms, and no    *)
(* step takes one away without leaving another.  That is so because an SNP *)
(* never outlives the time its link is up: links are let alone, or frames  *)
(* arrive before a link changes.                                           *)
(***************************************************************************)
Paced == Prompt \/ \A l \in Links : moves[l] = 0

Calm == linkUp = ifUp /\ refresh = {}

Active(r, n) == IsUp(r, n) /\ adj[r][n] = "UP"

IsSnp(f) == f.kind \in {"csnp", "psnp"}

SnpsFrom(r, n) == {f \in wire : IsSnp(f) /\ f.from = r /\ f.to = n}

(* A frame is under way on a link that is up, an SNP to an end the sender  *)
(* takes for UP, and tells no more than the sender still knows.            *)
UnderWay(f) ==
  /\ IsUp(f.from, f.to)
  /\ IsSnp(f) => /\ Active(f.from, f.to)
                 /\ \A o \in Routers : f.seqs[o] <= db[f.from][o].seq
  /\ f.kind = "lsp" => f.lsp.seq <= db[f.from][f.id].seq

(* What one end makes of a link.                                           *)
EndOK(r, n) ==
  /\ ~ IsUp(r, n) /\ (r \notin refresh \/ {r, n} \in linkUp) => adj[r][n] \in {"none", "DOWN"}
  /\ adj[r][n] = "UP" => db[r][r].seq >= 1 /\ n \in db[r][r].nbrs
  /\ n \in db[r][r].nbrs => IsUp(r, n) \/ r \in refresh

EndInv ==
  /\ \A r \in Routers : db[r][r].seq # 0
  /\ \A r \in Routers : \A n \in Nbr(r) : EndOK(r, n)

LinkInv ==
  /\ Paced
  /\ Calm \/ (Prompt /\ wire = {} /\ \A r \in Routers : csnp[r] = {})
  /\ \A f \in wire : UnderWay(f)
  /\ \A r \in Routers : \A n \in Nbr(r) : n \in csnp[r] => Active(r, n)

(* r lets n know its LSP of o, or n asks for it or offers an older one.    *)
Pending(r, n, o) ==
  \/ <<o, n>> \in srm[r]
  \/ n \in csnp[r]
  \/ \E f \in SnpsFrom(r, n) : f.seqs[o] = db[r][o].seq
  \/ <<o, r>> \in ssn[n]
  \/ \E f \in SnpsFrom(n, r) : f.seqs[o] >= 0 /\ f.seqs[o] < db[r][o].seq
  \/ <<o, r>> \in srm[n]

Behind(r, n, o) == db[r][o].seq >= 1 /\ db[n][o].seq < db[r][o].seq

Told(r, n, o) ==
  /\ Active(r, n) /\ Behind(r, n, o) => Pending(r, n, o)
  /\ \A f \in SnpsFrom(r, n) :
       f.seqs[o] >= 0 => \/ f.seqs[o] = db[r][o].seq
                         \/ <<o, n>> \in srm[r]
                         \/ db[n][o].seq >= db[r][o].seq

TellInv == \A r, o \in Routers : \A n \in Nbr(r) : Told(r, n, o)

SeqInv == TypeInv /\ NumInv /\ EndInv /\ LinkInv /\ TellInv

CopiesGrow == \A x, o \in Routers : db[x][o].seq <= db'[x][o].seq

-----------------------------------------------------------------------------
LEMMA SeqsAreInt ==
  ASSUME TypeInv
  PROVE  \A x, o \in Routers : db[x][o].seq \in Seqs /\ db[x][o].seq \in Int
BY DEF TypeInv, LspsType, LspOf, Seqs

LEMMA UpSym == \A a, b : IsUp(a, b) <=> IsUp(b, a)
<1> SUFFICES ASSUME NEW a, NEW b PROVE IsUp(a, b) <=> IsUp(b, a)
  OBVIOUS
<1>1. {a, b} = {b, a}
  OBVIOUS
<1> QED
  BY <1>1 DEF IsUp

LEMMA NotOwnNbr == \A r \in Routers : \A n \in Nbr(r) : n # r /\ n \in Routers
<1> SUFFICES ASSUME NEW r \in Routers, r \in Nbr(r) PROVE FALSE
  BY DEF Nbr
<1>1. {r, r} = {r} /\ Cardinality({r}) = 1
  BY FS_Singleton
<1>2. {r, r} \in Links
  BY DEF Nbr
<1>3. Cardinality({r}) = 2
  BY <1>1, <1>2, IsisAssumption
<1> QED
  BY <1>1, <1>3

(* What the handlers do to the databases and the marks.                    *)
LEMMA RefreshDoes ==
  ASSUME TypeInv, NEW r \in Routers, NEW adjOf \in [Nbr(r) -> States], RefreshLocal(r, adjOf)
  PROVE  /\ \A x, o \in Routers : x # r \/ o # r => db'[x][o] = db[x][o]
         /\ db'[r][r].seq \in Int /\ db[r][r].seq <= db'[r][r].seq
         /\ db[r][r].seq # 0 => db'[r][r].seq >= 1
         /\ db[r][r].seq >= 1 /\ db'[r][r].seq # db[r][r].seq =>
              \A n \in LinksUp(r) : adj'[r][n] # "none" => <<r, n>> \in srm'[r]
         /\ \A x \in Routers : srm[x] \subseteq srm'[x]
         /\ adj' = [adj EXCEPT ![r] = AfterLook(adjOf, r)]
         /\ db'[r][r].nbrs = {n \in Nbr(r) : adj'[r][n] \notin {"none", "DOWN"}}
<1> DEFINE look == AfterLook(adjOf, r)
           ch   == Changed(r, db[r][r], Listed(look))
           num  == Number(db[r][r], Listed(look), ch)
           L    == Lsp(num, Listed(look), LinksUp(r))
<1>1. /\ db' = [db EXCEPT ![r][r] = L]
      /\ adj' = [adj EXCEPT ![r] = look]
      /\ srm' = [srm EXCEPT ![r] = @ \cup (IF ch THEN {<<r, n>> : n \in LinksUp(r) \cap Heard(look)} ELSE {})]
  BY DEF RefreshLocal
<1>2. db[r][r].seq \in Seqs
  BY SeqsAreInt
<1>3. /\ num \in Int /\ db[r][r].seq <= num
      /\ db[r][r].seq # 0 => num >= 1
      /\ db[r][r].seq >= 1 /\ num # db[r][r].seq => ch
  <2> HIDE DEF ch, look
  <2> QED BY <1>2 DEF Number, Seqs
<1>4. DOMAIN look = Nbr(r)
  BY DEF AfterLook
<1>5. L.seq = num /\ L.nbrs = Listed(look)
  BY DEF Lsp
<1> HIDE DEF look, ch, num, L
<1>6. \A x, o \in Routers : db'[x][o] = IF x = r /\ o = r THEN L ELSE db[x][o]
  BY <1>1 DEF TypeInv, LspsType, DbType
<1>7. adj'[r] = look
  BY <1>1 DEF TypeInv, AdjType
<1>8. DOMAIN srm = Routers
  BY DEF TypeInv, MarksType, Marks
<1>9. Listed(look) = {n \in Nbr(r) : adj'[r][n] \notin {"none", "DOWN"}}
  BY <1>4, <1>7 DEF Listed, Heard
<1>10. ASSUME db[r][r].seq >= 1, db'[r][r].seq # db[r][r].seq, NEW n \in LinksUp(r), adj'[r][n] # "none"
       PROVE  <<r, n>> \in srm'[r]
  <2>1. ch
    BY <1>3, <1>5, <1>6, <1>10
  <2>2. n \in LinksUp(r) \cap Heard(look)
    BY <1>4, <1>7, <1>10 DEF Heard, LinksUp
  <2> QED
    BY <1>1, <1>8, <2>1, <2>2
<1>11. \A x \in Routers : srm[x] \subseteq srm'[x]
  BY <1>1, <1>8
<1> QED
  BY <1>1, <1>3, <1>5, <1>6, <1>9, <1>10, <1>11 DEF look

LEMMA SnpDoes ==
  ASSUME TypeInv, NumInv, NEW r \in Routers, NEW f, FrameOK(f), FrameType(f), IsSnp(f),
         ProcessSnp(r, f)
  PROVE  /\ \A x \in Routers : x # r => /\ srm'[x] = srm[x] /\ ssn'[x] = ssn[x]
                                        /\ \A o \in Routers : db'[x][o] = db[x][o]
         /\ \A o \in Routers : db'[r][o] = db[r][o]
                               \/ (db'[r][o].seq = 0 /\ db[r][o].seq < 0 /\ f.seqs[o] >= 0 /\ o # r)
         /\ \A o, n \in Routers :
              /\ <<o, n>> \in srm'[r] <=>
                   \/ n = f.from /\ f.seqs[o] >= 0 /\ db[r][o].seq > f.seqs[o]
                   \/ <<o, n>> \in srm[r] /\ ~ (n = f.from /\ f.seqs[o] >= 0)
              /\ <<o, n>> \in ssn[r] =>
                   <<o, n>> \in ssn'[r] \/ (n = f.from /\ f.seqs[o] >= 0 /\ db[r][o].seq > f.seqs[o])
              /\ f.seqs[o] >= 0 /\ (db[r][o].seq < f.seqs[o] \/ db[r][o].seq < 0) /\ n = f.from =>
                   <<o, n>> \in ssn'[r]
         /\ UNCHANGED <<adj, csnp, spf>>
<1> DEFINE W == WithPlaceholders(r, f)
           at(O) == {<<o, f.from>> : o \in O}
<1>1. /\ db' = [db EXCEPT ![r] = W]
      /\ srm' = [srm EXCEPT ![r] = (@ \ at(Named(f))) \cup at(Older(r, f))]
      /\ ssn' = [ssn EXCEPT ![r] = (@ \ at(Older(r, f))) \cup at(Newer(r, f))]
      /\ UNCHANGED <<adj, csnp, spf>>
  BY DEF ProcessSnp
<1>2. DOMAIN srm = Routers /\ DOMAIN ssn = Routers /\ DOMAIN db = Routers
  BY DEF TypeInv, MarksType, Marks, LspsType, DbType
<1>3. /\ srm'[r] = (srm[r] \ at(Named(f))) \cup at(Older(r, f))
      /\ ssn'[r] = (ssn[r] \ at(Older(r, f))) \cup at(Newer(r, f))
      /\ db'[r] = W
  BY <1>1, <1>2
<1>4. \A x \in Routers : x # r => srm'[x] = srm[x] /\ ssn'[x] = ssn[x] /\ db'[x] = db[x]
  BY <1>1, <1>2
<1>5. \A o \in Routers : W[o] = IF f.seqs[o] >= 0 /\ db[r][o].seq < 0 THEN Placeholder ELSE db[r][o]
  BY DEF WithPlaceholders, Named
<1>6. Placeholder.seq = 0
  BY DEF Placeholder, Lsp
<1>7. ~ (f.seqs[r] >= 0 /\ db[r][r].seq < 0)
  <2>1. f.seqs[r] \in Int /\ f.seqs[r] <= db[r][r].seq
    BY DEF FrameOK, IsSnp, Seqs
  <2> QED
    BY <2>1, SeqsAreInt
<1>8. ASSUME NEW o \in Routers, NEW n \in Routers, NEW O \in SUBSET Routers
      PROVE  <<o, n>> \in at(O) <=> n = f.from /\ o \in O
  OBVIOUS
<1>9. Older(r, f) \in SUBSET Routers /\ Newer(r, f) \in SUBSET Routers /\ Named(f) \in SUBSET Routers
  BY DEF Older, Newer, Named
<1> HIDE DEF at, W
<1>10. ASSUME NEW o \in Routers, NEW n \in Routers
       PROVE  /\ <<o, n>> \in srm'[r] <=>
                   \/ n = f.from /\ f.seqs[o] >= 0 /\ db[r][o].seq > f.seqs[o]
                   \/ <<o, n>> \in srm[r] /\ ~ (n = f.from /\ f.seqs[o] >= 0)
              /\ <<o, n>> \in ssn[r] =>
                   <<o, n>> \in ssn'[r] \/ (n = f.from /\ f.seqs[o] >= 0 /\ db[r][o].seq > f.seqs[o])
              /\ f.seqs[o] >= 0 /\ (db[r][o].seq < f.seqs[o] \/ db[r][o].seq < 0) /\ n = f.from =>
                   <<o, n>> \in ssn'[r]
  <2>1. /\ <<o, n>> \in srm'[r] <=>
             \/ <<o, n>> \in at(Older(r, f))
             \/ <<o, n>> \in srm[r] /\ <<o, n>> \notin at(Named(f))
        /\ <<o, n>> \in ssn'[r] <=>
             \/ <<o, n>> \in at(Newer(r, f))
             \/ <<o, n>> \in ssn[r] /\ <<o, n>> \notin at(Older(r, f))
    BY <1>3
  <2> QED
    BY <2>1, <1>8, <1>9 DEF Older, Newer, Named
<1>11. \A o \in Routers : db'[r][o] = db[r][o]
                          \/ (db'[r][o].seq = 0 /\ db[r][o].seq < 0 /\ f.seqs[o] >= 0 /\ o # r)
  BY <1>3, <1>5, <1>6, <1>7
<1> QED
  BY <1>1, <1>4, <1>10, <1>11

LEMMA LspDoes ==
  ASSUME TypeInv, NumInv, NEW r \in Routers, NEW f, FrameOK(f), FrameType(f), f.kind = "lsp",
         ProcessLsp(r, f)
  PROVE  /\ \A x \in Routers : x # r => /\ srm'[x] = srm[x] /\ ssn'[x] = ssn[x]
                                        /\ \A o \in Routers : db'[x][o] = db[x][o]
         /\ \A o \in Routers : o # f.id =>
              /\ db'[r][o] = db[r][o]
              /\ \A n \in Routers : /\ <<o, n>> \in srm[r] => <<o, n>> \in srm'[r]
                                    /\ <<o, n>> \in ssn[r] => <<o, n>> \in ssn'[r]
         /\ \/ /\ db[r][f.id].seq < f.lsp.seq /\ db'[r][f.id] = f.lsp /\ f.id # r
               /\ \A n \in Nbr(r) \ {f.from} : <<f.id, n>> \in srm'[r]
               /\ <<f.id, f.from>> \in ssn'[r]
            \/ /\ db[r][f.id].seq = f.lsp.seq /\ db'[r][f.id] = db[r][f.id]
               /\ \A n \in Routers \ {f.from} : <<f.id, n>> \in srm[r] => <<f.id, n>> \in srm'[r]
               /\ \A n \in Routers : <<f.id, n>> \in ssn[r] => <<f.id, n>> \in ssn'[r]
               /\ <<f.id, f.from>> \in ssn'[r]
            \/ /\ db'[r][f.id] = db[r][f.id]
               /\ \A n \in Routers : <<f.id, n>> \in srm[r] => <<f.id, n>> \in srm'[r]
               /\ \A n \in Routers \ {f.from} : <<f.id, n>> \in ssn[r] => <<f.id, n>> \in ssn'[r]
               /\ <<f.id, f.from>> \in ssn[r] => <<f.id, f.from>> \in ssn'[r] \/ <<f.id, f.from>> \in srm'[r]
         /\ UNCHANGED <<adj, csnp>>
<1> DEFINE p == f.id
           m == <<p, f.from>>
<1>1. p \in Routers /\ f.lsp.seq \in Int /\ f.lsp.seq <= db[p][p].seq
  BY DEF FrameOK, Lsps, Seqs
<1>2. DOMAIN srm = Routers /\ DOMAIN ssn = Routers /\ db \in [Routers -> [Routers -> Lsps]]
  BY DEF TypeInv, MarksType, Marks, LspsType, DbType
<1>3. CASE UNCHANGED <<adj, db, srm, ssn, csnp, spf>>
  BY <1>3
<1>4. CASE /\ db[r][p].seq < f.lsp.seq
           /\ db'  = [db EXCEPT ![r][p] = f.lsp]
           /\ srm' = [srm EXCEPT ![r] = Others(@, p) \cup PassedTo(r, p, f.from)]
           /\ ssn' = [ssn EXCEPT ![r] = Others(@, p) \cup {m}]
           /\ UNCHANGED <<adj, csnp>>
  <2>1. p # r
    BY <1>1, <1>4, SeqsAreInt
  <2>2. /\ srm'[r] = Others(srm[r], p) \cup PassedTo(r, p, f.from)
        /\ ssn'[r] = Others(ssn[r], p) \cup {m}
        /\ \A x \in Routers : x # r => srm'[x] = srm[x] /\ ssn'[x] = ssn[x]
    BY <1>2, <1>4
  <2>3. \A x, o \in Routers : db'[x][o] = IF x = r /\ o = p THEN f.lsp ELSE db[x][o]
    BY <1>1, <1>2, <1>4
  <2>4. \A n \in Nbr(r) \ {f.from} : <<p, n>> \in srm'[r]
    BY <2>2 DEF PassedTo
  <2>5. \A o \in Routers : o # p => \A n \in Routers :
          /\ <<o, n>> \in srm[r] => <<o, n>> \in srm'[r]
          /\ <<o, n>> \in ssn[r] => <<o, n>> \in ssn'[r]
    BY <2>2 DEF Others
  <2>6. m \in ssn'[r]
    BY <2>2
  <2> QED
    BY <1>1, <1>4, <2>1, <2>2, <2>3, <2>4, <2>5, <2>6
<1>5. CASE /\ db[r][p].seq = f.lsp.seq
           /\ srm' = [srm EXCEPT ![r] = @ \ {m}]
           /\ ssn' = [ssn EXCEPT ![r] = @ \cup {m}]
           /\ UNCHANGED <<adj, csnp, db, spf>>
  <2>1. /\ srm'[r] = srm[r] \ {m}
        /\ ssn'[r] = ssn[r] \cup {m}
        /\ \A x \in Routers : x # r => srm'[x] = srm[x] /\ ssn'[x] = ssn[x]
    BY <1>2, <1>5
  <2> QED
    BY <1>1, <1>5, <2>1
<1>6. CASE /\ srm' = [srm EXCEPT ![r] = @ \cup {m}]
           /\ ssn' = [ssn EXCEPT ![r] = @ \ {m}]
           /\ UNCHANGED <<adj, csnp, db, spf>>
  <2>1. /\ srm'[r] = srm[r] \cup {m}
        /\ ssn'[r] = ssn[r] \ {m}
        /\ \A x \in Routers : x # r => srm'[x] = srm[x] /\ ssn'[x] = ssn[x]
    BY <1>2, <1>6
  <2> QED
    BY <1>1, <1>6, <2>1
<1> QED
  BY <1>3, <1>4, <1>5, <1>6 DEF ProcessLsp

-----------------------------------------------------------------------------
LEMMA FrameEnds ==
  ASSUME TypeInv, NEW f \in wire
  PROVE  /\ f.from \in Routers /\ f.to \in Routers /\ f.from # f.to
         /\ f.from \in Nbr(f.to) /\ f.to \in Nbr(f.from)
         /\ f.kind = "lsp" => f.id \in Routers
<1>1. f.to \in Routers /\ f.from \in Nbr(f.to) /\ (f.kind = "lsp" => f.id \in Routers)
  BY DEF TypeInv, FrameType
<1> QED
  BY <1>1, NbrSym, NotOwnNbr

(* What is under way stays right while ends stay UP and numbers grow.      *)
LEMMA UnderWayKept ==
  ASSUME TypeInv, TypeInv', NEW f \in wire, UnderWay(f), UNCHANGED ifUp, CopiesGrow,
         \A r \in Routers : \A n \in Nbr(r) : Active(r, n) => adj'[r][n] = "UP"
  PROVE  UnderWay(f)'
<1>1. /\ f.from \in Routers /\ f.to \in Nbr(f.from)
      /\ f.kind = "lsp" => f.id \in Routers /\ f.lsp.seq \in Int
      /\ IsSnp(f) => \A o \in Routers : f.seqs[o] \in Int
  BY FrameEnds DEF TypeInv, FrameType, LspOf, IsSnp, Seqs
<1>2. \A x, o \in Routers : db[x][o].seq \in Int /\ db'[x][o].seq \in Int /\ db[x][o].seq <= db'[x][o].seq
  BY DEF TypeInv, LspsType, LspOf, Seqs, CopiesGrow
<1>3. IsUp(f.from, f.to)'
  BY DEF UnderWay, IsUp
<1>4. IsSnp(f) => Active(f.from, f.to)'
  BY <1>1, <1>3 DEF UnderWay, Active
<1>5. IsSnp(f) => \A o \in Routers : f.seqs[o] <= db'[f.from][o].seq
  BY <1>1, <1>2 DEF UnderWay
<1>6. f.kind = "lsp" => f.lsp.seq <= db'[f.from][f.id].seq
  BY <1>1, <1>2 DEF UnderWay
<1> QED
  BY <1>3, <1>4, <1>5, <1>6 DEF UnderWay, IsSnp

(* A step that changes no database leaves what is pending if what it takes *)
(* from a mark it puts into a frame.                                       *)
LEMMA TellKept ==
  ASSUME TellInv, UNCHANGED <<db, srm>>,
         \A f \in wire : IsSnp(f) => f \in wire',
         \A f \in wire' \ wire : IsSnp(f) =>
            \A o \in Routers : f.seqs[o] >= 0 => f.seqs[o] = db[f.from][o].seq,
         \A r \in Routers : \A n \in Nbr(r) :
           /\ Active(r, n)' => Active(r, n)
           /\ Active(r, n) /\ n \in csnp[r] =>
                \/ n \in csnp'[r]
                \/ \A o \in Routers : db[r][o].seq >= 1 =>
                     \E f \in wire' : IsSnp(f) /\ f.from = r /\ f.to = n /\ f.seqs[o] = db[r][o].seq
           /\ \A o \in Routers : Active(r, n) /\ <<o, r>> \in ssn[n] =>
                \/ <<o, r>> \in ssn'[n]
                \/ \E f \in wire' : /\ IsSnp(f) /\ f.from = n /\ f.to = r
                                    /\ f.seqs[o] >= 0 /\ f.seqs[o] = db[n][o].seq
  PROVE  TellInv'
<1> SUFFICES ASSUME NEW r \in Routers, NEW o \in Routers, NEW n \in Nbr(r) PROVE Told(r, n, o)'
  BY DEF TellInv
<1>1. Told(r, n, o)
  BY DEF TellInv
<1>2. ASSUME NEW f \in SnpsFrom(r, n)', f.seqs[o] >= 0
      PROVE  \/ f.seqs[o] = db'[r][o].seq
             \/ <<o, n>> \in srm'[r]
             \/ db'[n][o].seq >= db'[r][o].seq
  BY <1>1, <1>2 DEF Told, SnpsFrom, IsSnp
<1>3. ASSUME Active(r, n)', Behind(r, n, o)' PROVE Pending(r, n, o)'
  <2>1. Active(r, n) /\ Behind(r, n, o)
    BY <1>3 DEF Behind
  <2>2. Pending(r, n, o)
    BY <1>1, <2>1 DEF Told
  <2>3. SnpsFrom(r, n) \subseteq SnpsFrom(r, n)' /\ SnpsFrom(n, r) \subseteq SnpsFrom(n, r)'
    BY DEF SnpsFrom, IsSnp
  <2>4. CASE <<o, n>> \in srm[r] \/ <<o, r>> \in srm[n]
    BY <2>4 DEF Pending
  <2>5. CASE n \in csnp[r]
    <3>1. CASE n \in csnp'[r]
      BY <3>1 DEF Pending
    <3>2. CASE n \notin csnp'[r]
      <4>1. PICK f \in wire' : IsSnp(f) /\ f.from = r /\ f.to = n /\ f.seqs[o] = db[r][o].seq
        BY <2>1, <2>5, <3>2 DEF Behind
      <4>2. f \in SnpsFrom(r, n)'
        BY <4>1 DEF SnpsFrom, IsSnp
      <4> QED
        BY <4>1, <4>2 DEF Pending
    <3> QED
      BY <3>1, <3>2
  <2>6. CASE \E f \in SnpsFrom(r, n) : f.seqs[o] = db[r][o].seq
    BY <2>3, <2>6 DEF Pending
  <2>7. CASE <<o, r>> \in ssn[n]
    <3>1. CASE <<o, r>> \in ssn'[n]
      BY <3>1 DEF Pending
    <3>2. CASE <<o, r>> \notin ssn'[n]
      <4>1. PICK f \in wire' : /\ IsSnp(f) /\ f.from = n /\ f.to = r
                               /\ f.seqs[o] >= 0 /\ f.seqs[o] = db[n][o].seq
        BY <2>1, <2>7, <3>2
      <4>2. f \in SnpsFrom(n, r)' /\ f.seqs[o] < db'[r][o].seq
        BY <4>1, <2>1 DEF SnpsFrom, IsSnp, Behind
      <4> QED
        BY <4>1, <4>2 DEF Pending
    <3> QED
      BY <3>1, <3>2
  <2>8. CASE \E f \in SnpsFrom(n, r) : f.seqs[o] >= 0 /\ f.seqs[o] < db[r][o].seq
    BY <2>3, <2>8 DEF Pending
  <2> QED
    BY <2>2, <2>4, <2>5, <2>6, <2>7, <2>8 DEF Pending
<1> QED
  BY <1>2, <1>3 DEF Told

-----------------------------------------------------------------------------
(* The ends of links, with any pace of the timers and any failures.        *)
LEMMA EndInit == Init => EndInv
<1> SUFFICES ASSUME Init PROVE EndInv
  OBVIOUS
<1>1. CASE InitFresh
  <2>1. \A r \in Routers : \A n \in Nbr(r) : adj[r][n] = "none"
    BY <1>1 DEF InitFresh
  <2>2. \A r \in Routers : db[r][r].seq = -1 /\ db[r][r].nbrs = {}
    BY <1>1 DEF InitFresh, Absent, Lsp
  <2> QED
    BY <2>1, <2>2 DEF EndInv, EndOK
<1>2. CASE InitSettled
  <2> DEFINE own(o) == Lsp(1 + Cardinality({n \in Nbr(o) : FirstEnd(o, n)}), Nbr(o), Nbr(o))
  <2>1. \A r \in Routers : \A n \in Nbr(r) : adj[r][n] = "UP" /\ IsUp(r, n)
    BY <1>2 DEF InitSettled, IsUp, Nbr
  <2>2. \A o \in Routers : db[o][o] = own(o)
    BY <1>2 DEF InitSettled
  <2>3. ASSUME NEW o \in Routers PROVE own(o).seq >= 1 /\ own(o).nbrs = Nbr(o)
    <3>1. {n \in Nbr(o) : FirstEnd(o, n)} \subseteq Routers
      BY DEF Nbr
    <3>2. Cardinality({n \in Nbr(o) : FirstEnd(o, n)}) \in Nat
      BY <3>1, IsisAssumption, FS_Subset, FS_CardinalityType
    <3> QED
      BY <3>2 DEF Lsp
  <2> HIDE DEF own
  <2> QED
    BY <2>1, <2>2, <2>3 DEF EndInv, EndOK
<1> QED
  BY <1>1, <1>2 DEF Init

(* A step that leaves the links, the own LSPs and what is UP alone.        *)
LEMMA EndKept ==
  ASSUME EndInv, UNCHANGED <<linkUp, ifUp, refresh>>,
         \A x \in Routers : db'[x][x] = db[x][x],
         \A x \in Routers : \A n \in Nbr(x) :
            /\ adj'[x][n] = "UP" <=> adj[x][n] = "UP"
            /\ ~ IsUp(x, n) => adj'[x][n] = adj[x][n]
  PROVE  EndInv'
<1>1. ASSUME NEW x \in Routers, NEW n \in Nbr(x) PROVE EndOK(x, n)'
  <2>1. EndOK(x, n) /\ (IsUp(x, n)' <=> IsUp(x, n))
    BY DEF EndInv, IsUp
  <2> QED
    BY <2>1 DEF EndOK
<1> QED
  BY <1>1 DEF EndInv

LEMMA MoveEnds ==
  ASSUME EndInv, NEW l \in Links, LinkMoves(l) \/ EndsHear(l)
  PROVE  EndInv'
<1>1. /\ UNCHANGED <<adj, db>>
      /\ refresh \subseteq refresh'
      /\ \/ /\ refresh \cap l = {} /\ linkUp = ifUp /\ ifUp' = ifUp
            /\ \A k \in Links : k # l => (k \in linkUp' <=> k \in linkUp)
         \/ /\ linkUp' = linkUp /\ refresh' = refresh \cup l
            /\ \A k \in Links : k # l => (k \in ifUp' <=> k \in ifUp)
            /\ l \in ifUp' <=> l \in linkUp
  BY DEF LinkMoves, EndsHear
<1>2. ASSUME NEW r \in Routers, NEW n \in Nbr(r) PROVE EndOK(r, n)'
  <2>1. EndOK(r, n) /\ {r, n} \in Links
    BY DEF EndInv, Nbr
  <2>2. CASE /\ refresh \cap l = {} /\ linkUp = ifUp /\ ifUp' = ifUp /\ refresh' = refresh
             /\ \A k \in Links : k # l => (k \in linkUp' <=> k \in linkUp)
    <3>1. {r, n} = l => r \notin refresh
      BY <2>2
    <3> QED
      BY <1>1, <2>1, <2>2, <3>1 DEF EndOK, IsUp
  <2>3. CASE /\ linkUp' = linkUp /\ refresh' = refresh \cup l
             /\ \A k \in Links : k # l => (k \in ifUp' <=> k \in ifUp)
             /\ l \in ifUp' <=> l \in linkUp
    <3>1. {r, n} = l => r \in refresh'
      BY <2>3
    <3> QED
      BY <1>1, <2>1, <2>3, <3>1 DEF EndOK, IsUp
  <2> QED
    BY <2>2, <2>3 DEF LinkMoves, EndsHear
<1> QED
  BY <1>1, <1>2 DEF EndInv

(* Looking at the interfaces.                                              *)
LEMMA LookEnds ==
  ASSUME TypeInv, EndInv, NEW r \in Routers, NEW adjOf \in [Nbr(r) -> States], RefreshLocal(r, adjOf),
         UNCHANGED <<linkUp, ifUp>>,
         \A x \in Routers : x # r => (x \in refresh' <=> x \in refresh)
  PROVE  EndInv'
<1>1. /\ \A x \in Routers : x # r => db'[x][x] = db[x][x]
      /\ db[r][r].seq # 0 => db'[r][r].seq >= 1 /\ db'[r][r].seq \in Int
      /\ adj' = [adj EXCEPT ![r] = AfterLook(adjOf, r)]
      /\ db'[r][r].nbrs = {n \in Nbr(r) : adj'[r][n] \notin {"none", "DOWN"}}
  BY RefreshDoes
<1>2. \A n \in Nbr(r) : adj'[r][n] = IF adjOf[n] # "none" /\ ~ IsUp(r, n) THEN "DOWN" ELSE adjOf[n]
  BY <1>1 DEF TypeInv, AdjType, AfterLook
<1>3. \A x \in Routers : x # r => adj'[x] = adj[x]
  BY <1>1 DEF TypeInv, AdjType
<1>4. \A x \in Routers : db'[x][x].seq # 0
  BY <1>1 DEF EndInv
<1>5. ASSUME NEW x \in Routers, NEW n \in Nbr(x) PROVE EndOK(x, n)'
  <2>1. IsUp(x, n)' <=> IsUp(x, n)
    BY DEF IsUp
  <2>2. CASE x = r
    <3>1. ~ IsUp(r, n) => adj'[r][n] \in {"none", "DOWN"}
      BY <1>2, <2>2
    <3>2. db'[r][r].seq >= 1
      BY <1>1 DEF EndInv
    <3> QED
      BY <1>1, <2>1, <2>2, <3>1, <3>2 DEF EndOK
  <2>3. CASE x # r
    <3>1. EndOK(x, n)
      BY DEF EndInv
    <3> QED
      BY <1>1, <1>3, <2>1, <2>3, <3>1 DEF EndOK
  <2> QED
    BY <2>2, <2>3
<1> QED
  BY <1>4, <1>5 DEF EndInv

LEMMA HelloEnds ==
  ASSUME TypeInv, NEW r \in Routers, SendHello(r), NEW x \in Routers, NEW n \in Nbr(x)
  PROVE  /\ adj'[x][n] = "UP" <=> adj[x][n] = "UP"
         /\ ~ IsUp(x, n) => adj'[x][n] = adj[x][n]
<1>1. adj' = [adj EXCEPT ![r] = [m \in Nbr(r) |-> IF IsUp(r, m) THEN Listing(@[m]) ELSE @[m]]]
  BY DEF SendHello
<1>2. adj'[x] = IF x = r THEN [m \in Nbr(r) |-> IF IsUp(r, m) THEN Listing(adj[r][m]) ELSE adj[r][m]]
                ELSE adj[x]
  BY <1>1 DEF TypeInv, AdjType
<1> QED
  BY <1>2 DEF Listing

(* A hello that is heard: the interfaces are looked at, or no adjacency    *)
(* comes UP.                                                               *)
LEMMA HeardEnds ==
  ASSUME TypeInv, NEW f \in wire, IsUp(f.to, f.from), f.kind = "hello", ProcessHello(f.to, f)
  PROVE  \/ \E a \in [Nbr(f.to) -> States] : RefreshLocal(f.to, a)
         \/ /\ db' = db
            /\ \A x \in Routers : \A m \in Nbr(x) :
                  /\ adj'[x][m] = "UP" <=> adj[x][m] = "UP"
                  /\ ~ IsUp(x, m) => adj'[x][m] = adj[x][m]
<1> DEFINE r   == f.to
           n   == f.from
           was == IF adj[r][n] = "none" THEN "NEW" ELSE adj[r][n]
           now == [adj[r] EXCEPT ![n] =
                     IF f.sees = "none" THEN was ELSE IF was = "NEW" THEN "Initializing" ELSE "UP"]
<1>1. r \in Routers /\ n \in Nbr(r) /\ adj[r] \in [Nbr(r) -> States]
  BY FrameEnds DEF TypeInv, AdjType
<1>2. /\ now \in [Nbr(r) -> States]
      /\ now[n] = IF f.sees = "none" THEN was ELSE IF was = "NEW" THEN "Initializing" ELSE "UP"
      /\ \A m \in Nbr(r) : m # n => now[m] = adj[r][m]
  BY <1>1 DEF States
<1>3. CASE RefreshLocal(r, now)
  BY <1>2, <1>3
<1>4. CASE /\ ~ (f.sees # "none" /\ was \notin {"NEW", "UP"})
           /\ adj' = [adj EXCEPT ![r] = now]
           /\ db' = db
  <2>1. now[n] = "UP" <=> adj[r][n] = "UP"
    BY <1>2, <1>4
  <2>2. adj'[r] = now /\ \A x \in Routers : x # r => adj'[x] = adj[x]
    BY <1>1, <1>4 DEF TypeInv, AdjType
  <2>3. IsUp(r, n)
    OBVIOUS
  <2> HIDE DEF now, r, n
  <2>4. ASSUME NEW x \in Routers, NEW m \in Nbr(x)
        PROVE  /\ adj'[x][m] = "UP" <=> adj[x][m] = "UP"
               /\ ~ IsUp(x, m) => adj'[x][m] = adj[x][m]
    <3>1. CASE x = r /\ m = n
      BY <2>1, <2>2, <2>3, <3>1
    <3>2. CASE x = r /\ m # n
      BY <1>2, <2>2, <3>2
    <3>3. CASE x # r
      BY <2>2, <3>3
    <3> QED
      BY <3>1, <3>2, <3>3
  <2> QED
    BY <1>4, <2>4
<1> QED
  BY <1>3, <1>4 DEF ProcessHello

LEMMA EndNext == TypeInv /\ NumInv /\ EndInv /\ [Next]_vars => EndInv'
<1> SUFFICES ASSUME TypeInv, NumInv, EndInv, [Next]_vars PROVE EndInv'
  OBVIOUS
<1>1. ASSUME NEW l \in Links, LinkMoves(l) \/ EndsHear(l) PROVE EndInv'
  BY <1>1, MoveEnds
<1>2. ASSUME NEW r \in Routers, SendHello(r) PROVE EndInv'
  <2>1. UNCHANGED <<links, db, refresh>>
    BY <1>2 DEF SendHello
  <2> QED
    BY <1>2, <2>1, HelloEnds, EndKept DEF links
<1>3. ASSUME UNCHANGED <<links, adj, db, refresh>> PROVE EndInv'
  BY <1>3, EndKept DEF links
<1>4. ASSUME NEW r \in Routers, Timers(r) PROVE EndInv'
  BY <1>2, <1>3, <1>4 DEF Timers, SendPartialSnps, SendLsps
<1>5. ASSUME NEW r \in Routers, LinkHandler(r) PROVE EndInv'
  <2>1. /\ refresh' = refresh \ {r} /\ RefreshLocal(r, adj[r]) /\ UNCHANGED <<linkUp, ifUp>>
        /\ adj[r] \in [Nbr(r) -> States]
    BY <1>5 DEF LinkHandler, links, TypeInv, AdjType
  <2> QED
    BY <2>1, LookEnds
<1>6. ASSUME NEW r \in Routers, Due(r) PROVE EndInv'
  BY <1>3, <1>5, <1>6 DEF Due, RunFullDijkstra, SendCompleteSnp
<1>7. ASSUME NEW f \in wire, Receive(f) PROVE EndInv'
  <2>1. f.to \in Routers /\ UNCHANGED <<linkUp, ifUp, refresh>> /\ FrameOK(f) /\ FrameType(f)
    BY <1>7, FrameEnds DEF Receive, links, NumInv, TypeInv
  <2>2. CASE UNCHANGED <<adj, db>>
    BY <2>1, <2>2, EndKept
  <2>3. CASE IsUp(f.to, f.from) /\ f.kind = "hello" /\ ProcessHello(f.to, f)
    <3>1. CASE \E a \in [Nbr(f.to) -> States] : RefreshLocal(f.to, a)
      BY <2>1, <3>1, LookEnds
    <3> QED
      BY <2>1, <2>3, <3>1, HeardEnds, EndKept
  <2>4. CASE f.kind \in {"csnp", "psnp"} /\ ProcessSnp(f.to, f)
    <3>1. adj' = adj /\ \A x \in Routers : db'[x][x] = db[x][x]
      BY <2>1, <2>4, SnpRead DEF ProcessSnp
    <3> QED
      BY <2>1, <3>1, EndKept
  <2>5. CASE f.kind = "lsp" /\ ProcessLsp(f.to, f)
    <3>1. adj' = adj /\ \A x \in Routers : db'[x][x] = db[x][x]
      BY <2>1, <2>5, LspRead DEF ProcessLsp
    <3> QED
      BY <2>1, <3>1, EndKept
  <2> QED
    BY <1>7, <2>2, <2>3, <2>4, <2>5 DEF Receive
<1>8. CASE UNCHANGED vars
  BY <1>3, <1>8 DEF vars, links
<1> QED
  BY <1>1, <1>4, <1>6, <1>7, <1>8 DEF Next, Arrivals

-----------------------------------------------------------------------------
LEMMA SeqInit ==
  ASSUME Prompt \/ \A m \in Flaps : \A l \in Links : m[l] = 0, Init
  PROVE  SeqInv
<1>1. TypeInv /\ NumInv /\ EndInv
  BY TypeInit, NumInit, EndInit
<1>2. wire = {} /\ refresh = {} /\ csnp = [r \in Routers |-> {}]
  BY DEF Init
<1>3. \A r, n : SnpsFrom(r, n) = {}
  BY <1>2 DEF SnpsFrom
<1>4. CASE InitFresh
  <2>1. Paced /\ Calm
    BY <1>2, <1>4 DEF InitFresh, Paced, Calm
  <2>2. \A r \in Routers : \A n \in Nbr(r) : adj[r][n] = "none"
    BY <1>4 DEF InitFresh
  <2>3. LinkInv
    BY <1>2, <2>1 DEF LinkInv
  <2>4. TellInv
    BY <1>3, <2>2 DEF TellInv, Told, Active
  <2> QED
    BY <1>1, <2>3, <2>4 DEF SeqInv
<1>5. CASE InitSettled
  <2> DEFINE own(o) == Lsp(1 + Cardinality({n \in Nbr(o) : FirstEnd(o, n)}), Nbr(o), Nbr(o))
  <2>1. Paced /\ Calm
    BY <1>2, <1>5 DEF InitSettled, Paced, Calm
  <2>2. \A x, o \in Routers : db[x][o] = own(o)
    BY <1>5 DEF InitSettled
  <2> HIDE DEF own
  <2>3. LinkInv
    BY <1>2, <2>1 DEF LinkInv
  <2>4. ASSUME NEW r \in Routers, NEW o \in Routers, NEW n \in Nbr(r) PROVE ~ Behind(r, n, o)
    <3>1. n \in Routers
      BY NotOwnNbr
    <3>2. db[r][o] = db[n][o]
      BY <2>2, <3>1
    <3> QED
      BY <3>2, <1>1, SeqsAreInt DEF Behind
  <2>5. TellInv
    BY <1>3, <2>4 DEF TellInv, Told
  <2> QED
    BY <1>1, <2>3, <2>5 DEF SeqInv
<1> QED
  BY <1>4, <1>5 DEF Init

(* Links.                                                                  *)
LEMMA MovesKeep ==
  ASSUME SeqInv, TypeInv', NEW l \in Links, LinkMoves(l)
  PROVE  LinkInv' /\ TellInv'
<1>1. /\ linkUp = ifUp /\ moves[l] > 0 /\ moves \in [Links -> Nat]
      /\ linkUp' = IF l \in linkUp THEN linkUp \ {l} ELSE linkUp \cup {l}
      /\ moves' = [moves EXCEPT ![l] = @ - 1]
      /\ UNCHANGED <<ifUp, adj, db, srm, ssn, csnp, refresh, spf, routes, wire>>
  BY DEF LinkMoves, SeqInv, TypeInv, LinksType
<1>2. Prompt /\ wire = {} /\ refresh = {} /\ \A r \in Routers : csnp[r] = {}
  <2>1. Prompt
    BY <1>1 DEF SeqInv, LinkInv, Paced
  <2> QED
    BY <2>1 DEF LinkMoves, Ready
<1>3. LinkInv'
  BY <1>1, <1>2 DEF SeqInv, LinkInv, Paced
<1>4. TellInv'
  <2>1. \A r, n : Active(r, n)' => Active(r, n)
    BY <1>1 DEF Active, IsUp
  <2> QED
    BY <1>1, <2>1, TellKept DEF SeqInv
<1> QED
  BY <1>3, <1>4

LEMMA HearingKeeps ==
  ASSUME SeqInv, TypeInv', NEW l \in Links, EndsHear(l)
  PROVE  LinkInv' /\ TellInv'
<1>1. /\ (l \in linkUp) # (l \in ifUp)
      /\ ifUp' = IF l \in linkUp THEN ifUp \cup {l} ELSE ifUp \ {l}
      /\ refresh' = refresh \cup l
      /\ UNCHANGED <<linkUp, moves, adj, db, srm, ssn, csnp, spf, routes, wire>>
  BY DEF EndsHear
<1>2. Prompt /\ wire = {} /\ \A r \in Routers : csnp[r] = {}
  BY <1>1 DEF SeqInv, LinkInv, Calm
<1>3. ASSUME NEW r \in Routers, NEW n \in Nbr(r), Active(r, n)' PROVE Active(r, n)
  <2>1. EndOK(r, n) /\ adj[r][n] = "UP"
    BY <1>1, <1>3 DEF SeqInv, EndInv, Active
  <2>2. IsUp(r, n) \/ ({r, n} = l /\ l \in linkUp)
    BY <1>1, <1>3 DEF Active, IsUp
  <2> QED
    BY <2>1, <2>2 DEF EndOK, Active
<1>4. LinkInv'
  BY <1>1, <1>2 DEF SeqInv, LinkInv, Paced
<1>5. TellInv'
  BY <1>1, <1>3, TellKept DEF SeqInv
<1> QED
  BY <1>4, <1>5

-----------------------------------------------------------------------------
(* A step that leaves the links alone.                                     *)
LEMMA LinkKept ==
  ASSUME SeqInv, TypeInv', UNCHANGED links, UNCHANGED refresh, Calm, CopiesGrow,
         \A r \in Routers : \A n \in Nbr(r) : Active(r, n) => adj'[r][n] = "UP",
         \A r \in Routers : \A n \in Nbr(r) : n \in csnp'[r] => Active(r, n)',
         \A f \in wire' \ wire : UnderWay(f)'
  PROVE  LinkInv'
<1>1. linkUp' = linkUp /\ ifUp' = ifUp /\ moves' = moves
  BY DEF links
<1>2. \A f \in wire' : UnderWay(f)'
  BY <1>1, UnderWayKept DEF SeqInv, LinkInv
<1>3. Paced' /\ Calm'
  BY <1>1 DEF SeqInv, LinkInv, Paced, Calm
<1> QED
  BY <1>2, <1>3 DEF LinkInv

LEMMA SameCopies == ASSUME TypeInv, UNCHANGED db PROVE CopiesGrow
BY SeqsAreInt DEF CopiesGrow

LEMMA ReadyIsCalm == ASSUME SeqInv, Ready PROVE Calm
BY DEF SeqInv, LinkInv, Ready, Calm

LEMMA HellosKeep ==
  ASSUME SeqInv, TypeInv', NEW r \in Routers, SendHello(r)
  PROVE  LinkInv' /\ TellInv'
<1>1. /\ adj' = [adj EXCEPT ![r] = [n \in Nbr(r) |-> IF IsUp(r, n) THEN Listing(@[n]) ELSE @[n]]]
      /\ UNCHANGED <<links, db, srm, ssn, csnp, refresh, spf, routes>>
      /\ Calm
  BY ReadyIsCalm DEF SendHello
<1>2. linkUp' = linkUp /\ ifUp' = ifUp
  BY <1>1 DEF links
<1>3. wire \subseteq wire' /\ \A f \in wire' \ wire : f.kind = "hello" /\ IsUp(f.from, f.to)
  BY DEF SendHello, OnWire, SendFrame, Hello, IsUp
<1>4. ASSUME NEW x \in Routers, NEW n \in Nbr(x)
      PROVE  adj'[x][n] = "UP" <=> adj[x][n] = "UP"
  BY <1>1, HelloEnds DEF SeqInv
<1>5. \A x \in Routers : \A n \in Nbr(x) : Active(x, n)' <=> Active(x, n)
  BY <1>2, <1>4 DEF Active, IsUp
<1>6. \A x \in Routers : \A n \in Nbr(x) : n \in csnp'[x] => Active(x, n)'
  BY <1>1, <1>5 DEF SeqInv, LinkInv
<1>7. LinkInv'
  <2>1. \A f \in wire' \ wire : UnderWay(f)'
    BY <1>2, <1>3 DEF UnderWay, IsUp, IsSnp
  <2>2. CopiesGrow
    BY <1>1, SameCopies DEF SeqInv
  <2>3. \A x \in Routers : \A n \in Nbr(x) : Active(x, n) => adj'[x][n] = "UP"
    BY <1>4 DEF Active
  <2> QED
    BY <1>1, <1>6, <2>1, <2>2, <2>3, LinkKept
<1>8. TellInv'
  BY <1>1, <1>3, <1>5, TellKept DEF SeqInv, IsSnp
<1> QED
  BY <1>7, <1>8

(* A step that sends SNPs and forgets what they say it was asked to send.  *)
LEMMA SendingKeeps ==
  ASSUME SeqInv, TypeInv', UNCHANGED <<links, adj, db, srm, refresh>>, Calm,
         wire \subseteq wire',
         \A f \in wire' \ wire :
           /\ f.from \in Routers /\ f.to \in Nbr(f.from) /\ IsUp(f.from, f.to)
           /\ IsSnp(f) => /\ Active(f.from, f.to)
                          /\ \A o \in Routers : f.seqs[o] \in {-1, db[f.from][o].seq}
           /\ f.kind = "lsp" => f.id \in Routers /\ f.lsp = db[f.from][f.id],
         \A r \in Routers : \A n \in Nbr(r) : n \in csnp'[r] => n \in csnp[r],
         \A r \in Routers : \A n \in Nbr(r) : Active(r, n) =>
           /\ n \in csnp[r] =>
                \/ n \in csnp'[r]
                \/ \A o \in Routers : db[r][o].seq >= 1 =>
                     \E f \in wire' : IsSnp(f) /\ f.from = r /\ f.to = n /\ f.seqs[o] = db[r][o].seq
           /\ \A o \in Routers : <<o, r>> \in ssn[n] =>
                \/ <<o, r>> \in ssn'[n]
                \/ \E f \in wire' : /\ IsSnp(f) /\ f.from = n /\ f.to = r
                                    /\ f.seqs[o] >= 0 /\ f.seqs[o] = db[n][o].seq
  PROVE  LinkInv' /\ TellInv'
<1>1. linkUp' = linkUp /\ ifUp' = ifUp
  BY DEF links
<1>2. \A r, n : (Active(r, n)' <=> Active(r, n)) /\ (IsUp(r, n)' <=> IsUp(r, n))
  BY <1>1 DEF Active, IsUp
<1>3. ASSUME NEW f \in wire' \ wire PROVE UnderWay(f)'
  <2>1. f.from \in Routers /\ \A o \in Routers : db[f.from][o].seq \in Seqs
    BY SeqsAreInt DEF SeqInv
  <2>2. IsSnp(f) => \A o \in Routers : f.seqs[o] <= db[f.from][o].seq
    BY <2>1 DEF Seqs
  <2>3. f.kind = "lsp" => f.lsp.seq <= db[f.from][f.id].seq
    BY <2>1 DEF Seqs
  <2> QED
    BY <1>2, <2>2, <2>3 DEF UnderWay, IsSnp
<1>4. /\ \A r \in Routers : \A n \in Nbr(r) : Active(r, n) => adj'[r][n] = "UP"
      /\ \A r \in Routers : \A n \in Nbr(r) : n \in csnp'[r] => Active(r, n)'
  BY <1>2 DEF SeqInv, LinkInv, Active
<1>5. LinkInv'
  BY <1>3, <1>4, LinkKept, SameCopies DEF SeqInv
<1>6. TellInv'
  <2>1. ASSUME NEW f \in wire' \ wire, IsSnp(f), NEW o \in Routers, f.seqs[o] >= 0
        PROVE  f.seqs[o] = db[f.from][o].seq
    BY <2>1
  <2> QED
    BY <1>2, <2>1, TellKept DEF SeqInv
<1> QED
  BY <1>5, <1>6

LEMMA PartialsKeep ==
  ASSUME SeqInv, TypeInv', NEW r \in Routers, SendPartialSnps(r)
  PROVE  LinkInv' /\ TellInv'
<1> DEFINE to == {n \in UpNbr(r) : Wanted(r, n) # {}}
           Q(n) == Snp("psnp", r, n, Entries(r, Wanted(r, n)))
<1>1. /\ ssn' = [ssn EXCEPT ![r] = {m \in @ : m[2] \notin to}]
      /\ wire' = wire \cup OnWire({Q(n) : n \in to})
      /\ UNCHANGED <<links, adj, db, srm, csnp, refresh, spf, routes>>
      /\ Calm
  BY ReadyIsCalm DEF SendPartialSnps
<1>2. \A n \in to : n \in Nbr(r) /\ adj[r][n] = "UP"
  BY DEF UpNbr
<1>3. \A n : /\ Q(n).kind = "psnp" /\ Q(n).from = r /\ Q(n).to = n
             /\ \A o \in Routers : Q(n).seqs[o] = IF <<o, n>> \in ssn[r] THEN db[r][o].seq ELSE -1
  BY DEF Snp, Entries, Wanted
<1>4. \A n : <<r, n>> \in {r} \X to /\ IsUp(r, n) => Q(n) \in wire'
  BY <1>1, <1>3 DEF OnWire, SendFrame, IsUp, Calm
<1>5. ASSUME NEW f \in wire' \ wire PROVE \E n \in to : f = Q(n) /\ IsUp(r, n)
  <2>1. f \in OnWire({Q(n) : n \in to})
    BY <1>1
  <2>2. PICK n \in to : f = Q(n)
    BY <2>1 DEF OnWire, SendFrame
  <2> QED
    BY <1>3, <2>1, <2>2 DEF OnWire, SendFrame, IsUp
<1>6. ssn'[r] = {m \in ssn[r] : m[2] \notin to} /\ \A x \in Routers : x # r => ssn'[x] = ssn[x]
  BY <1>1 DEF SeqInv, TypeInv, MarksType, Marks
<1>7. ASSUME NEW x \in Routers, NEW n \in Nbr(x), Active(x, n), NEW o \in Routers, <<o, x>> \in ssn[n]
      PROVE  \/ <<o, x>> \in ssn'[n]
             \/ \E f \in wire' : /\ IsSnp(f) /\ f.from = n /\ f.to = x
                                 /\ f.seqs[o] >= 0 /\ f.seqs[o] = db[n][o].seq
  <2>1. CASE n = r /\ x \in to
    <3>1. IsUp(r, x)
      BY <1>7, <2>1, UpSym DEF Active
    <3>2. Q(x) \in wire'
      BY <1>4, <2>1, <3>1
    <3>3. db[r][o].seq >= 0
      BY <1>7, <2>1 DEF SeqInv, TypeInv, MarksType, Marks, Known
    <3> QED
      BY <1>3, <1>7, <2>1, <3>2, <3>3 DEF IsSnp
  <2>2. CASE ~ (n = r /\ x \in to)
    <3>1. n \in Routers
      BY NotOwnNbr
    <3> QED
      BY <1>6, <1>7, <2>2, <3>1
  <2> QED
    BY <2>1, <2>2
<1> HIDE DEF Q, to
<1>8. ASSUME NEW f \in wire' \ wire
      PROVE  /\ f.from \in Routers /\ f.to \in Nbr(f.from) /\ IsUp(f.from, f.to)
             /\ IsSnp(f) /\ Active(f.from, f.to) /\ f.kind # "lsp"
             /\ \A o \in Routers : f.seqs[o] \in {-1, db[f.from][o].seq}
  <2>1. PICK n \in to : f = Q(n) /\ IsUp(r, n)
    BY <1>5
  <2>2. /\ f.kind = "psnp" /\ f.from = r /\ f.to = n
        /\ \A o \in Routers : f.seqs[o] = IF <<o, n>> \in ssn[r] THEN db[r][o].seq ELSE -1
    BY <1>3, <2>1, Zenon
  <2>3. n \in Nbr(r) /\ adj[r][n] = "UP"
    BY <1>2
  <2> QED
    BY <2>1, <2>2, <2>3 DEF IsSnp, Active
<1>9. wire \subseteq wire' /\ \A x \in Routers : \A n \in Nbr(x) : n \in csnp[x] <=> n \in csnp'[x]
  BY <1>1
<1>10. UNCHANGED <<links, adj, db, srm, refresh>> /\ Calm
  BY <1>1
<1> QED
  BY <1>7, <1>8, <1>9, <1>10, SendingKeeps

LEMMA CompletesKeep ==
  ASSUME SeqInv, TypeInv', NEW r \in Routers, NEW n \in Nbr(r), SendCompleteSnp(r, n)
  PROVE  LinkInv' /\ TellInv'
<1> DEFINE q == Snp("csnp", r, n, Entries(r, Known(r)))
<1>1. /\ n \in csnp[r]
      /\ csnp' = [csnp EXCEPT ![r] = @ \ {n}]
      /\ wire' = wire \cup OnWire({q})
      /\ UNCHANGED <<links, adj, db, srm, ssn, refresh, spf, routes>>
  BY DEF SendCompleteSnp
<1>2. Calm /\ Active(r, n)
  BY <1>1 DEF SeqInv, LinkInv
<1>3. /\ q.kind = "csnp" /\ q.from = r /\ q.to = n
      /\ \A o \in Routers : q.seqs[o] = IF db[r][o].seq >= 0 THEN db[r][o].seq ELSE -1
  BY DEF Snp, Entries, Known
<1>4. IsSnp(q)
  BY <1>3 DEF IsSnp
<1>5. OnWire({q}) = {q}
  BY <1>2, <1>3 DEF OnWire, SendFrame, Active, IsUp, Calm
<1>6. csnp'[r] = csnp[r] \ {n} /\ \A x \in Routers : x # r => csnp'[x] = csnp[x]
  BY <1>1 DEF SeqInv, TypeInv, RestType
<1>7. wire' = wire \cup {q}
  BY <1>1, <1>5
<1> HIDE DEF q
<1>8. ASSUME NEW f \in wire' \ wire
      PROVE  /\ f.from \in Routers /\ f.to \in Nbr(f.from) /\ IsUp(f.from, f.to)
             /\ IsSnp(f) /\ Active(f.from, f.to) /\ f.kind # "lsp"
             /\ \A o \in Routers : f.seqs[o] \in {-1, db[f.from][o].seq}
  <2>1. f = q
    BY <1>7
  <2> QED
    BY <1>2, <1>3, <1>4, <2>1 DEF Active
<1>9. ASSUME NEW x \in Routers, NEW m \in Nbr(x), m \in csnp[x], m \notin csnp'[x],
             NEW o \in Routers, db[x][o].seq >= 1
      PROVE  \E f \in wire' : IsSnp(f) /\ f.from = x /\ f.to = m /\ f.seqs[o] = db[x][o].seq
  <2>1. x = r /\ m = n
    BY <1>6, <1>9
  <2>2. q.seqs[o] = db[r][o].seq
    <3>1. db[r][o].seq \in Int
      BY SeqsAreInt DEF SeqInv
    <3> QED
      BY <1>3, <1>9, <2>1, <3>1
  <2> QED
    BY <1>3, <1>4, <1>7, <2>1, <2>2
<1>10. \A x \in Routers : \A m \in Nbr(x) : m \in csnp'[x] => m \in csnp[x]
  BY <1>6
<1>11. UNCHANGED <<links, adj, db, srm, refresh>> /\ ssn' = ssn /\ wire \subseteq wire'
  BY <1>1, <1>7
<1>12. ASSUME NEW x \in Routers, NEW m \in Nbr(x), Active(x, m)
       PROVE  /\ m \in csnp[x] =>
                   \/ m \in csnp'[x]
                   \/ \A o \in Routers : db[x][o].seq >= 1 =>
                        \E f \in wire' : IsSnp(f) /\ f.from = x /\ f.to = m /\ f.seqs[o] = db[x][o].seq
              /\ \A o \in Routers : <<o, x>> \in ssn[m] => <<o, x>> \in ssn'[m]
  BY <1>9, <1>11
<1> QED
  BY <1>2, <1>8, <1>10, <1>11, <1>12, SendingKeeps

LEMMA LspsKeep ==
  ASSUME SeqInv, TypeInv', NEW r \in Routers, SendLsps(r)
  PROVE  LinkInv' /\ TellInv'
<1>1. /\ wire' = wire \cup OnWire({LspFrame(r, m[2], m[1]) : m \in Marked(r)})
      /\ UNCHANGED <<links, adj, db, srm, ssn, csnp, refresh, spf, routes>>
      /\ Calm
  BY ReadyIsCalm DEF SendLsps
<1>2. ASSUME NEW f \in wire' \ wire
      PROVE  /\ f.from \in Routers /\ f.to \in Nbr(f.from) /\ IsUp(f.from, f.to) /\ ~ IsSnp(f)
             /\ f.kind = "lsp" => f.id \in Routers /\ f.lsp = db[f.from][f.id]
  <2>1. f \in OnWire({LspFrame(r, m[2], m[1]) : m \in Marked(r)})
    BY <1>1
  <2>2. PICK m \in Marked(r) : f = LspFrame(r, m[2], m[1])
    BY <2>1 DEF OnWire, SendFrame
  <2>3. m[1] \in Routers /\ m[2] \in Nbr(r)
    BY <2>2 DEF Marked, UpNbr
  <2>4. {f.from, f.to} \in ifUp
    BY <2>1 DEF OnWire, SendFrame
  <2> QED
    BY <2>2, <2>3, <2>4 DEF LspFrame, IsUp, IsSnp
<1> QED
  BY <1>1, <1>2, SendingKeeps

-----------------------------------------------------------------------------
(* Looking at the interfaces: an end that has come UP sends a complete SNP, *)
(* and a new number goes to all ends that are UP.                          *)
LEMMA LookKeeps ==
  ASSUME SeqInv, NEW r \in Routers, NEW adjOf \in [Nbr(r) -> States], RefreshLocal(r, adjOf),
         UNCHANGED <<linkUp, ifUp, ssn>>, wire' \subseteq wire,
         \A f \in wire : IsSnp(f) => f \in wire',
         \A n \in Nbr(r) : adj[r][n] = "UP" => adjOf[n] = "UP",
         \A n \in Nbr(r) : adjOf[n] = "UP" => adj[r][n] = "UP" \/ n \in csnp'[r],
         \A n \in Nbr(r) : n \in csnp'[r] => adjOf[n] = "UP" /\ IsUp(r, n),
         \A x \in Routers : csnp[x] \subseteq csnp'[x] /\ (x # r => csnp'[x] = csnp[x]),
         \A x \in Routers : x # r => (x \in refresh' <=> x \in refresh)
  PROVE  /\ TellInv' /\ CopiesGrow
         /\ \A x \in Routers : \A n \in Nbr(x) : Active(x, n) => adj'[x][n] = "UP"
         /\ \A x \in Routers : \A n \in Nbr(x) : n \in csnp'[x] => Active(x, n)'
<1>1. /\ \A x, o \in Routers : x # r \/ o # r => db'[x][o] = db[x][o]
      /\ db'[r][r].seq \in Int /\ db[r][r].seq <= db'[r][r].seq
      /\ db[r][r].seq # 0 => db'[r][r].seq >= 1
      /\ db[r][r].seq >= 1 /\ db'[r][r].seq # db[r][r].seq =>
           \A n \in LinksUp(r) : adj'[r][n] # "none" => <<r, n>> \in srm'[r]
      /\ \A x \in Routers : srm[x] \subseteq srm'[x]
      /\ adj' = [adj EXCEPT ![r] = AfterLook(adjOf, r)]
      /\ db'[r][r].nbrs = {n \in Nbr(r) : adj'[r][n] \notin {"none", "DOWN"}}
  BY RefreshDoes DEF SeqInv
<1>2. \A x, o \in Routers : db[x][o].seq \in Int /\ db[x][o].seq <= db[o][o].seq
  BY SeqsAreInt DEF SeqInv, NumInv, OwnNewest
<1>4. CopiesGrow
  BY <1>1, <1>2 DEF CopiesGrow
<1>5. \A n \in Nbr(r) : adj'[r][n] = IF adjOf[n] # "none" /\ ~ IsUp(r, n) THEN "DOWN" ELSE adjOf[n]
  BY <1>1 DEF SeqInv, TypeInv, AdjType, AfterLook
<1>6. \A x \in Routers : x # r => adj'[x] = adj[x]
  BY <1>1 DEF SeqInv, TypeInv, AdjType
<1>7. \A x, n : IsUp(x, n)' <=> IsUp(x, n)
  BY DEF IsUp
<1>8. \A x \in Routers : \A n \in Nbr(x) : EndOK(x, n)
  BY DEF SeqInv, EndInv
<1>9. ASSUME NEW x \in Routers, NEW n \in Nbr(x)
      PROVE  /\ Active(x, n) => adj'[x][n] = "UP"
             /\ n \in csnp'[x] => Active(x, n)'
  <2>1. CASE x = r
    <3>1. Active(r, n) => adj'[r][n] = "UP"
      BY <1>5, <2>1 DEF Active
    <3>2. n \in csnp'[r] => Active(r, n)'
      BY <1>5, <1>7, <2>1 DEF Active
    <3> QED
      BY <2>1, <3>1, <3>2
  <2>2. CASE x # r
    <3>1. adj'[x] = adj[x] /\ csnp'[x] = csnp[x]
      BY <1>6, <2>2
    <3>2. Active(x, n)' <=> Active(x, n)
      BY <1>7, <3>1 DEF Active
    <3> QED
      BY <3>1, <3>2 DEF Active, SeqInv, LinkInv
  <2> QED
    BY <2>1, <2>2
<1>10. ASSUME NEW x \in Routers, NEW o \in Routers, NEW n \in Nbr(x) PROVE Told(x, n, o)'
  <2>0. n \in Routers /\ n # x
    BY NotOwnNbr
  <2>1. Told(x, n, o)
    BY DEF SeqInv, TellInv
  <2>2. SnpsFrom(x, n)' = SnpsFrom(x, n) /\ SnpsFrom(n, x)' = SnpsFrom(n, x)
    BY DEF SnpsFrom, IsSnp
  <2>3. Active(x, n)' => Active(x, n) \/ n \in csnp'[x]
    BY <1>5, <1>6, <1>7 DEF Active
  <2>4. CASE db'[x][o].seq = db[x][o].seq
    <3>1. db[n][o].seq <= db'[n][o].seq /\ db'[n][o].seq \in Int
      BY <1>1, <1>2, <2>0
    <3>2. Behind(x, n, o)' => Behind(x, n, o)
      BY <1>2, <2>0, <2>4, <3>1 DEF Behind
    <3>3. Pending(x, n, o) => Pending(x, n, o)'
      BY <1>1, <2>0, <2>2, <2>4 DEF Pending
    <3>4. \A f \in SnpsFrom(x, n)' : f.seqs[o] >= 0 =>
            \/ f.seqs[o] = db'[x][o].seq \/ <<o, n>> \in srm'[x]
            \/ db'[n][o].seq >= db'[x][o].seq
      BY <1>1, <1>2, <2>0, <2>1, <2>2, <2>4, <3>1 DEF Told
    <3> QED
      BY <2>1, <2>3, <3>2, <3>3, <3>4 DEF Told, Pending
  <2>5. CASE db'[x][o].seq # db[x][o].seq
    <3>1. x = r /\ o = r
      BY <1>1, <2>5
    <3>2. Active(r, n) => <<r, n>> \in srm'[r]
      <4>1. Active(r, n) => db[r][r].seq >= 1 /\ n \in LinksUp(r) /\ adj'[r][n] = "UP"
        BY <1>8, <1>9, <3>1 DEF EndOK, Active, LinksUp
      <4> QED
        BY <1>1, <2>5, <3>1, <4>1
    <3>3. Active(r, n)' => Pending(r, n, r)'
      BY <2>3, <3>1, <3>2 DEF Pending
    <3>4. \A f \in SnpsFrom(r, n)' : <<r, n>> \in srm'[r]
      BY <2>2, <3>1, <3>2 DEF SnpsFrom, SeqInv, LinkInv, UnderWay
    <3> QED
      BY <3>1, <3>3, <3>4 DEF Told
  <2> QED
    BY <2>4, <2>5
<1> QED
  BY <1>4, <1>9, <1>10 DEF TellInv

LEMMA HandlerKeeps ==
  ASSUME SeqInv, TypeInv', NEW r \in Routers, LinkHandler(r)
  PROVE  LinkInv' /\ TellInv'
<1>1. /\ r \in refresh /\ refresh' = refresh \ {r}
      /\ RefreshLocal(r, adj[r])
      /\ UNCHANGED <<links, ssn, csnp, routes, wire>>
  BY DEF LinkHandler
<1>2. Prompt /\ wire = {} /\ \A x \in Routers : csnp[x] = {}
  BY <1>1 DEF SeqInv, LinkInv, Calm
<1>3. linkUp' = linkUp /\ ifUp' = ifUp /\ adj[r] \in [Nbr(r) -> States]
  BY <1>1 DEF links, SeqInv, TypeInv, AdjType
<1>4. TellInv' /\ \A x \in Routers : \A n \in Nbr(x) : n \in csnp'[x] => Active(x, n)'
  BY <1>1, <1>2, <1>3, LookKeeps
<1> QED
  BY <1>1, <1>2, <1>4 DEF LinkInv, Paced

LEMMA HelloKeeps ==
  ASSUME SeqInv, TypeInv', NEW f \in wire, wire' = wire \ {f}, UNCHANGED <<links, refresh, routes>>,
         IsUp(f.to, f.from), f.kind = "hello", ProcessHello(f.to, f)
  PROVE  LinkInv' /\ TellInv'
<1> DEFINE r   == f.to
           n   == f.from
           was == IF adj[r][n] = "none" THEN "NEW" ELSE adj[r][n]
           now == [adj[r] EXCEPT ![n] =
                     IF f.sees = "none" THEN was ELSE IF was = "NEW" THEN "Initializing" ELSE "UP"]
<1>1. r \in Routers /\ n \in Nbr(r)
  BY FrameEnds DEF SeqInv
<1>2. Calm /\ linkUp' = linkUp /\ ifUp' = ifUp
  BY DEF SeqInv, LinkInv, links
<1>3. /\ wire' \subseteq wire /\ \A g \in wire : IsSnp(g) => g \in wire'
      /\ wire' \ wire = {}
  BY DEF IsSnp
<1>4. adj[r] \in [Nbr(r) -> States] /\ DOMAIN csnp = Routers
  BY <1>1 DEF SeqInv, TypeInv, AdjType, RestType
<1>5. /\ now \in [Nbr(r) -> States]
      /\ now[n] = IF f.sees = "none" THEN was ELSE IF was = "NEW" THEN "Initializing" ELSE "UP"
      /\ \A m \in Nbr(r) : m # n => now[m] = adj[r][m]
  BY <1>1, <1>4 DEF States, SeqInv, TypeInv, FrameType
<1>6. CASE /\ f.sees # "none" /\ was \notin {"NEW", "UP"}
           /\ RefreshLocal(r, now)
           /\ csnp' = [csnp EXCEPT ![r] = @ \cup {n}]
           /\ ssn' = ssn
  <2>1. now[n] = "UP" /\ n \in csnp'[r]
    BY <1>1, <1>4, <1>5, <1>6
  <2>2. \A m \in Nbr(r) : m # n => now[m] = adj[r][m] /\ (m \in csnp'[r] <=> m \in csnp[r])
    BY <1>1, <1>4, <1>5, <1>6
  <2>3. \A x \in Routers : csnp[x] \subseteq csnp'[x] /\ (x # r => csnp'[x] = csnp[x])
    BY <1>4, <1>6
  <2>4. \A m \in Nbr(r) : m \in csnp[r] => adj[r][m] = "UP" /\ IsUp(r, m)
    BY <1>1 DEF SeqInv, LinkInv, Active
  <2> HIDE DEF now, r, n
  <2>5. \A m \in Nbr(r) : m \in csnp'[r] => now[m] = "UP" /\ IsUp(r, m)
    BY <2>1, <2>2, <2>4 DEF r, n
  <2>6. /\ \A m \in Nbr(r) : adj[r][m] = "UP" => now[m] = "UP"
        /\ \A m \in Nbr(r) : now[m] = "UP" => adj[r][m] = "UP" \/ m \in csnp'[r]
    BY <2>1, <2>2
  <2>7. /\ TellInv' /\ CopiesGrow
        /\ \A x \in Routers : \A m \in Nbr(x) : Active(x, m) => adj'[x][m] = "UP"
        /\ \A x \in Routers : \A m \in Nbr(x) : m \in csnp'[x] => Active(x, m)'
    BY <1>1, <1>2, <1>3, <1>5, <1>6, <2>3, <2>5, <2>6, LookKeeps
  <2> QED
    BY <1>2, <1>3, <2>7, LinkKept
<1>7. CASE /\ ~ (f.sees # "none" /\ was \notin {"NEW", "UP"})
           /\ adj' = [adj EXCEPT ![r] = now]
           /\ UNCHANGED <<db, srm, ssn, csnp, spf>>
  <2>1. now[n] = "UP" <=> adj[r][n] = "UP"
    BY <1>5, <1>7
  <2>2. adj'[r] = now /\ \A x \in Routers : x # r => adj'[x] = adj[x]
    BY <1>1, <1>7 DEF SeqInv, TypeInv, AdjType
  <2> HIDE DEF now, r, n
  <2>3. ASSUME NEW x \in Routers, NEW m \in Nbr(x)
        PROVE  adj'[x][m] = "UP" <=> adj[x][m] = "UP"
    <3>1. CASE x = r /\ m = n
      BY <2>1, <2>2, <3>1
    <3>2. CASE x = r /\ m # n
      BY <1>5, <2>2, <3>2
    <3>3. CASE x # r
      BY <2>2, <3>3
    <3> QED
      BY <3>1, <3>2, <3>3
  <2>4. \A x \in Routers : \A m \in Nbr(x) : Active(x, m)' <=> Active(x, m)
    BY <1>2, <2>3 DEF Active, IsUp
  <2>5. \A x \in Routers : \A m \in Nbr(x) : m \in csnp'[x] => Active(x, m)'
    BY <1>7, <2>4 DEF SeqInv, LinkInv
  <2>6. CopiesGrow
    BY <1>7, SameCopies DEF SeqInv
  <2>7. LinkInv'
    BY <1>2, <1>3, <2>3, <2>5, <2>6, LinkKept DEF Active
  <2>8. TellInv'
    BY <1>3, <1>7, <2>4, TellKept DEF SeqInv
  <2> QED
    BY <2>7, <2>8
<1> QED
  BY <1>6, <1>7 DEF ProcessHello

-----------------------------------------------------------------------------
(* What is read from a neighbour changes no own LSP and no adjacency.      *)
LEMMA ReadingKeeps ==
  ASSUME SeqInv, TypeInv', NEW f \in wire, wire' = wire \ {f}, UNCHANGED <<links, refresh, adj, csnp>>,
         CopiesGrow
  PROVE  LinkInv' /\ \A x, n : Active(x, n)' <=> Active(x, n)
<1>1. Calm /\ linkUp' = linkUp /\ ifUp' = ifUp
  BY DEF SeqInv, LinkInv, links
<1>2. \A x, n : (Active(x, n)' <=> Active(x, n)) /\ (IsUp(x, n)' <=> IsUp(x, n))
  BY <1>1 DEF Active, IsUp
<1>3. /\ \A x \in Routers : \A n \in Nbr(x) : Active(x, n) => adj'[x][n] = "UP"
      /\ \A x \in Routers : \A n \in Nbr(x) : n \in csnp'[x] => Active(x, n)'
  BY <1>2 DEF SeqInv, LinkInv, Active
<1>4. LinkInv'
  BY <1>1, <1>3, LinkKept
<1> QED
  BY <1>2, <1>4

LEMMA SnpKeeps ==
  ASSUME SeqInv, TypeInv', NEW f \in wire, wire' = wire \ {f}, UNCHANGED <<links, refresh, routes>>,
         IsSnp(f), ProcessSnp(f.to, f)
  PROVE  LinkInv' /\ TellInv'
<1> DEFINE s == f.to
           m == f.from
<1>1. s \in Routers /\ m \in Nbr(s) /\ m \in Routers /\ s # m
  BY FrameEnds DEF SeqInv
<1>2. /\ \A x \in Routers : x # s => /\ srm'[x] = srm[x] /\ ssn'[x] = ssn[x]
                                     /\ \A o \in Routers : db'[x][o] = db[x][o]
      /\ \A o \in Routers : db'[s][o] = db[s][o]
                            \/ (db'[s][o].seq = 0 /\ db[s][o].seq < 0 /\ f.seqs[o] >= 0 /\ o # s)
      /\ \A o, n \in Routers :
           /\ <<o, n>> \in srm'[s] <=>
                \/ n = m /\ f.seqs[o] >= 0 /\ db[s][o].seq > f.seqs[o]
                \/ <<o, n>> \in srm[s] /\ ~ (n = m /\ f.seqs[o] >= 0)
           /\ <<o, n>> \in ssn[s] =>
                <<o, n>> \in ssn'[s] \/ (n = m /\ f.seqs[o] >= 0 /\ db[s][o].seq > f.seqs[o])
           /\ f.seqs[o] >= 0 /\ (db[s][o].seq < f.seqs[o] \/ db[s][o].seq < 0) /\ n = m =>
                <<o, n>> \in ssn'[s]
      /\ UNCHANGED <<adj, csnp, spf>>
  BY <1>1, SnpDoes DEF SeqInv, NumInv, TypeInv
<1>3. \A x, o \in Routers : db[x][o].seq \in Int /\ db'[x][o].seq \in Int
  BY SeqsAreInt DEF SeqInv, TypeInv, LspsType, LspOf, Seqs
<1>4. \A o \in Routers : f.seqs[o] \in Int /\ f.seqs[o] <= db[m][o].seq
  BY <1>1 DEF SeqInv, TypeInv, FrameType, LinkInv, UnderWay, IsSnp, Seqs
<1> HIDE DEF s, m
<1>5. CopiesGrow /\ \A x \in Routers : db'[x][x] = db[x][x]
  BY <1>1, <1>2, <1>3 DEF CopiesGrow
<1>6. LinkInv' /\ \A x, n : Active(x, n)' <=> Active(x, n)
  BY <1>2, <1>5, ReadingKeeps
<1>7. ASSUME NEW x \in Routers, NEW o \in Routers, NEW n \in Nbr(x) PROVE Told(x, n, o)'
  <2>0. n \in Routers /\ n # x
    BY NotOwnNbr
  <2>1. Told(x, n, o)
    BY DEF SeqInv, TellInv
  <2>2. /\ \A g \in SnpsFrom(x, n)' : g \in SnpsFrom(x, n)
        /\ \A g \in SnpsFrom(x, n) : g \in SnpsFrom(x, n)' \/ (g = f /\ s = n /\ m = x)
        /\ \A g \in SnpsFrom(n, x) : g \in SnpsFrom(n, x)' \/ (g = f /\ s = x /\ m = n)
    BY DEF SnpsFrom, IsSnp, s, m
  <2>3. \A g \in SnpsFrom(x, n) : g.seqs[o] \in Int /\ g.seqs[o] <= db[x][o].seq
    BY DEF SnpsFrom, SeqInv, TypeInv, FrameType, LinkInv, UnderWay, IsSnp, Seqs
  <2>4. csnp' = csnp
    BY <1>2
  <2>5. CASE x = s
    <3>1. db'[n] = db'[n] /\ db'[n][o] = db[n][o] /\ srm'[n] = srm[n] /\ ssn'[n] = ssn[n]
      BY <1>2, <2>0, <2>5
    <3>2. db'[x][o] = db[x][o] \/ (db'[x][o].seq = 0 /\ db[x][o].seq < 0)
      BY <1>2, <2>5
    <3>3. \A g \in SnpsFrom(x, n) : g \in SnpsFrom(x, n)'
      BY <2>0, <2>2, <2>5
    <3>4. <<o, n>> \in srm[x] => <<o, n>> \in srm'[x] \/ db[n][o].seq >= db[x][o].seq
      <4>1. CASE n = m /\ f.seqs[o] >= 0 /\ ~ (db[s][o].seq > f.seqs[o])
        BY <1>1, <1>3, <1>4, <2>5, <4>1
      <4>2. CASE ~ (n = m /\ f.seqs[o] >= 0 /\ ~ (db[s][o].seq > f.seqs[o]))
        BY <1>2, <2>0, <2>5, <4>2
      <4> QED
        BY <4>1, <4>2
    <3>5. ASSUME Active(x, n)', Behind(x, n, o)' PROVE Pending(x, n, o)'
      <4>1. db'[x][o] = db[x][o] /\ Active(x, n) /\ Behind(x, n, o)
        BY <1>6, <3>1, <3>2, <3>5 DEF Behind
      <4>2. Pending(x, n, o)
        BY <2>1, <4>1 DEF Told
      <4>3. CASE <<o, n>> \in srm[x]
        <5>1. <<o, n>> \in srm'[x]
          BY <1>3, <2>0, <3>4, <4>1, <4>3 DEF Behind
        <5> QED
          BY <5>1 DEF Pending
      <4>4. CASE n \in csnp[x] \/ <<o, x>> \in ssn[n] \/ <<o, x>> \in srm[n]
        BY <2>4, <3>1, <4>4 DEF Pending
      <4>5. CASE \E g \in SnpsFrom(x, n) : g.seqs[o] = db[x][o].seq
        BY <3>3, <4>1, <4>5 DEF Pending
      <4>6. CASE \E g \in SnpsFrom(n, x) : g.seqs[o] >= 0 /\ g.seqs[o] < db[x][o].seq
        <5>1. PICK g \in SnpsFrom(n, x) : g.seqs[o] >= 0 /\ g.seqs[o] < db[x][o].seq
          BY <4>6
        <5>2. CASE g \in SnpsFrom(n, x)'
          BY <4>1, <5>1, <5>2 DEF Pending
        <5>3. CASE g = f /\ m = n
          <6>1. f.seqs[o] >= 0 /\ db[s][o].seq > f.seqs[o]
            BY <1>3, <1>4, <2>5, <5>1, <5>3
          <6>2. <<o, n>> \in srm'[x]
            BY <1>2, <2>0, <2>5, <5>3, <6>1
          <6> QED
            BY <6>2 DEF Pending
        <5> QED
          BY <2>2, <5>1, <5>2, <5>3
      <4> QED
        BY <4>2, <4>3, <4>4, <4>5, <4>6 DEF Pending
    <3>6. ASSUME NEW g \in SnpsFrom(x, n)', g.seqs[o] >= 0
          PROVE  \/ g.seqs[o] = db'[x][o].seq \/ <<o, n>> \in srm'[x]
                 \/ db'[n][o].seq >= db'[x][o].seq
      <4>1. g \in SnpsFrom(x, n)
        BY <2>2
      <4>2. db'[x][o] = db[x][o]
        BY <1>3, <2>3, <3>2, <3>6, <4>1
      <4>3. \/ g.seqs[o] = db[x][o].seq \/ <<o, n>> \in srm[x] \/ db[n][o].seq >= db[x][o].seq
        BY <2>1, <3>6, <4>1 DEF Told
      <4> QED
        BY <3>1, <3>4, <4>2, <4>3
    <3> QED
      BY <3>5, <3>6 DEF Told
  <2>6. CASE n = s
    <3>1. x # s /\ db'[x][o] = db[x][o] /\ srm'[x] = srm[x] /\ ssn'[x] = ssn[x]
      BY <1>2, <2>0, <2>6
    <3>2. db[n][o].seq <= db'[n][o].seq
      BY <1>5, <2>0 DEF CopiesGrow
    <3>3. \A g \in SnpsFrom(n, x) : g \in SnpsFrom(n, x)'
      BY <2>2, <2>6, <3>1
    <3>4. ASSUME Active(x, n)', Behind(x, n, o)' PROVE Pending(x, n, o)'
      <4>1. Active(x, n) /\ Behind(x, n, o)
        BY <1>3, <1>6, <2>0, <3>1, <3>2, <3>4 DEF Behind
      <4>2. Pending(x, n, o)
        BY <2>1, <4>1 DEF Told
      <4>3. CASE <<o, n>> \in srm[x] \/ n \in csnp[x]
        BY <2>4, <3>1, <4>3 DEF Pending
      <4>4. CASE \E g \in SnpsFrom(x, n) : g.seqs[o] = db[x][o].seq
        <5>1. PICK g \in SnpsFrom(x, n) : g.seqs[o] = db[x][o].seq
          BY <4>4
        <5>2. CASE g \in SnpsFrom(x, n)'
          BY <3>1, <5>1, <5>2 DEF Pending
        <5>3. CASE g = f /\ m = x
          <6>1. f.seqs[o] >= 0 /\ db[s][o].seq < f.seqs[o]
            BY <1>3, <2>0, <2>6, <4>1, <5>1, <5>3 DEF Behind
          <6>2. <<o, x>> \in ssn'[n]
            BY <1>2, <2>6, <5>3, <6>1
          <6> QED
            BY <6>2 DEF Pending
        <5> QED
          BY <2>2, <5>1, <5>2, <5>3
      <4>5. CASE <<o, x>> \in ssn[n]
        <5>1. CASE <<o, x>> \in ssn'[n]
          BY <5>1 DEF Pending
        <5>2. CASE x = m /\ f.seqs[o] >= 0 /\ db[s][o].seq > f.seqs[o]
          <6>1. <<o, x>> \in srm'[n]
            BY <1>2, <2>6, <5>2
          <6> QED
            BY <6>1 DEF Pending
        <5> QED
          BY <1>2, <2>6, <4>5, <5>1, <5>2
      <4>6. CASE \E g \in SnpsFrom(n, x) : g.seqs[o] >= 0 /\ g.seqs[o] < db[x][o].seq
        BY <3>1, <3>3, <4>6 DEF Pending
      <4>7. CASE <<o, x>> \in srm[n]
        <5>1. CASE <<o, x>> \in srm'[n]
          BY <5>1 DEF Pending
        <5>2. CASE <<o, x>> \notin srm'[n]
          <6>1. x = m /\ f.seqs[o] >= 0 /\ ~ (db[s][o].seq > f.seqs[o])
            BY <1>2, <2>6, <4>7, <5>2
          <6>2. CASE db[s][o].seq < f.seqs[o]
            <7>1. <<o, x>> \in ssn'[n]
              BY <1>2, <2>6, <6>1, <6>2
            <7> QED
              BY <7>1 DEF Pending
          <6>3. CASE db[s][o].seq = f.seqs[o]
            <7>1. f \in SnpsFrom(x, n)
              BY <2>6, <6>1 DEF SnpsFrom, s, m
            <7>2. \/ f.seqs[o] = db[x][o].seq \/ <<o, n>> \in srm[x] \/ db[n][o].seq >= db[x][o].seq
              BY <2>1, <6>1, <7>1 DEF Told
            <7>3. <<o, n>> \in srm'[x]
              BY <1>3, <2>0, <2>6, <3>1, <4>1, <6>3, <7>2 DEF Behind
            <7> QED
              BY <7>3 DEF Pending
          <6> QED
            BY <1>1, <1>3, <1>4, <6>1, <6>2, <6>3
        <5> QED
          BY <5>1, <5>2
      <4> QED
        BY <4>2, <4>3, <4>4, <4>5, <4>6, <4>7 DEF Pending
    <3>5. ASSUME NEW g \in SnpsFrom(x, n)', g.seqs[o] >= 0
          PROVE  \/ g.seqs[o] = db'[x][o].seq \/ <<o, n>> \in srm'[x]
                 \/ db'[n][o].seq >= db'[x][o].seq
      <4>1. \/ g.seqs[o] = db[x][o].seq \/ <<o, n>> \in srm[x] \/ db[n][o].seq >= db[x][o].seq
        BY <2>1, <2>2, <3>5 DEF Told
      <4> QED
        BY <1>3, <2>0, <3>1, <3>2, <4>1
    <3> QED
      BY <3>4, <3>5 DEF Told
  <2>7. CASE x # s /\ n # s
    <3>1. /\ db'[x][o] = db[x][o] /\ srm'[x] = srm[x] /\ ssn'[x] = ssn[x]
          /\ db'[n][o] = db[n][o] /\ srm'[n] = srm[n] /\ ssn'[n] = ssn[n]
      BY <1>2, <2>0, <2>7
    <3>2. SnpsFrom(x, n)' = SnpsFrom(x, n) /\ SnpsFrom(n, x)' = SnpsFrom(n, x)
      BY <2>7 DEF SnpsFrom, IsSnp, s
    <3>3. (Active(x, n)' <=> Active(x, n)) /\ (Behind(x, n, o)' <=> Behind(x, n, o))
          /\ (Pending(x, n, o)' <=> Pending(x, n, o))
      BY <1>6, <2>4, <3>1, <3>2 DEF Behind, Pending
    <3> QED
      BY <2>1, <3>1, <3>2, <3>3 DEF Told
  <2> QED
    BY <2>5, <2>6, <2>7
<1> QED
  BY <1>6, <1>7 DEF TellInv

LEMMA LspKeeps ==
  ASSUME SeqInv, TypeInv', NEW f \in wire, wire' = wire \ {f}, UNCHANGED <<links, refresh, routes>>,
         f.kind = "lsp", ProcessLsp(f.to, f)
  PROVE  LinkInv' /\ TellInv'
<1> DEFINE s == f.to
           m == f.from
           p == f.id
<1>1. s \in Routers /\ m \in Nbr(s) /\ m \in Routers /\ s # m /\ p \in Routers /\ s \in Nbr(m)
  BY FrameEnds DEF SeqInv
<1>2. /\ \A x \in Routers : x # s => /\ srm'[x] = srm[x] /\ ssn'[x] = ssn[x]
                                     /\ \A o \in Routers : db'[x][o] = db[x][o]
      /\ \A o \in Routers : o # p =>
           /\ db'[s][o] = db[s][o]
           /\ \A n \in Routers : /\ <<o, n>> \in srm[s] => <<o, n>> \in srm'[s]
                                 /\ <<o, n>> \in ssn[s] => <<o, n>> \in ssn'[s]
      /\ \/ /\ db[s][p].seq < f.lsp.seq /\ db'[s][p] = f.lsp /\ p # s
            /\ \A n \in Nbr(s) \ {m} : <<p, n>> \in srm'[s]
            /\ <<p, m>> \in ssn'[s]
         \/ /\ db[s][p].seq = f.lsp.seq /\ db'[s][p] = db[s][p]
            /\ \A n \in Routers \ {m} : <<p, n>> \in srm[s] => <<p, n>> \in srm'[s]
            /\ \A n \in Routers : <<p, n>> \in ssn[s] => <<p, n>> \in ssn'[s]
            /\ <<p, m>> \in ssn'[s]
         \/ /\ db'[s][p] = db[s][p]
            /\ \A n \in Routers : <<p, n>> \in srm[s] => <<p, n>> \in srm'[s]
            /\ \A n \in Routers \ {m} : <<p, n>> \in ssn[s] => <<p, n>> \in ssn'[s]
            /\ <<p, m>> \in ssn[s] => <<p, m>> \in ssn'[s] \/ <<p, m>> \in srm'[s]
      /\ UNCHANGED <<adj, csnp>>
  BY <1>1, LspDoes DEF SeqInv, NumInv, TypeInv
<1>3. \A x, o \in Routers : db[x][o].seq \in Int /\ db'[x][o].seq \in Int
  BY SeqsAreInt DEF SeqInv, TypeInv, LspsType, LspOf, Seqs
<1>4. f.lsp.seq \in Int /\ f.lsp.seq <= db[m][p].seq
  BY DEF SeqInv, TypeInv, FrameType, LspOf, LinkInv, UnderWay, Seqs
<1> HIDE DEF s, m, p
<1>5. CopiesGrow /\ \A x \in Routers : db'[x][x] = db[x][x]
  BY <1>1, <1>2, <1>3 DEF CopiesGrow
<1>6. LinkInv' /\ \A x, n : Active(x, n)' <=> Active(x, n)
  BY <1>2, <1>5, ReadingKeeps
<1>7. \A x, n : SnpsFrom(x, n)' = SnpsFrom(x, n)
  BY DEF SnpsFrom, IsSnp
<1>8. ASSUME NEW x \in Routers, NEW o \in Routers, NEW n \in Nbr(x) PROVE Told(x, n, o)'
  <2>0. n \in Routers /\ n # x /\ x \in Nbr(n)
    BY NotOwnNbr, NbrSym
  <2>1. Told(x, n, o)
    BY DEF SeqInv, TellInv
  <2>2. csnp' = csnp
    BY <1>2
  <2>3. db[x][o].seq <= db'[x][o].seq /\ db[n][o].seq <= db'[n][o].seq
    BY <1>5, <2>0 DEF CopiesGrow
  (* An LSP that has taken the place of an older one.                      *)
  <2>4. CASE x = s /\ db'[x][o] # db[x][o]
    <3>1. o = p /\ db'[x][p] = f.lsp
      BY <1>2, <2>4
    <3>2. <<o, n>> \in srm'[x] \/ db'[n][o].seq >= db'[x][o].seq
      <4>1. CASE n = m
        <5>1. db'[m][p] = db[m][p]
          BY <1>1, <1>2
        <5> QED
          BY <1>3, <1>4, <3>1, <4>1, <5>1
      <4>2. CASE n # m
        BY <1>2, <2>4, <3>1, <4>2
      <4> QED
        BY <4>1, <4>2
    <3>3. Behind(x, n, o)' => Pending(x, n, o)'
      BY <1>3, <2>0, <3>2 DEF Behind, Pending
    <3> QED
      BY <3>2, <3>3 DEF Told
  <2>5. CASE ~ (x = s /\ db'[x][o] # db[x][o])
    <3>1. db'[x][o] = db[x][o]
      BY <1>2, <2>5
    <3>2. Behind(x, n, o)' => Behind(x, n, o)
      BY <1>3, <2>0, <2>3, <3>1 DEF Behind
    <3>3. <<o, n>> \in srm[x] => <<o, n>> \in srm'[x] \/ db[n][o].seq >= db[x][o].seq
      <4>1. CASE x = s /\ o = p /\ n = m /\ db[s][p].seq = f.lsp.seq
        BY <1>4, <4>1
      <4>2. CASE x = s /\ ~ (o = p /\ n = m /\ db[s][p].seq = f.lsp.seq)
        <5>1. CASE o # p
          BY <1>2, <2>0, <4>2, <5>1
        <5>2. CASE o = p
          <6>1. ~ (db[s][p].seq < f.lsp.seq /\ db'[s][p] = f.lsp)
            BY <1>1, <1>3, <3>1, <4>2, <5>2
          <6> QED
            BY <1>2, <2>0, <4>2, <5>2, <6>1
        <5> QED
          BY <5>1, <5>2
      <4>3. CASE x # s
        BY <1>2, <4>3
      <4> QED
        BY <4>1, <4>2, <4>3
    <3>4. ASSUME <<o, x>> \in ssn[n] PROVE <<o, x>> \in ssn'[n] \/ <<o, x>> \in srm'[n]
      <4>1. CASE n # s \/ o # p
        BY <1>2, <2>0, <3>4, <4>1
      <4>2. CASE n = s /\ o = p /\ x = m
        BY <1>2, <3>4, <4>2
      <4>3. CASE n = s /\ o = p /\ x # m
        <5>1. x \in Nbr(s) \ {m} /\ x \in Routers \ {m}
          BY <2>0, <4>3
        <5> QED
          BY <1>2, <3>4, <4>3, <5>1
      <4> QED
        BY <4>1, <4>2, <4>3
    <3>5. ASSUME <<o, x>> \in srm[n] PROVE <<o, x>> \in ssn'[n] \/ <<o, x>> \in srm'[n]
      <4>1. CASE n # s \/ o # p
        BY <1>2, <2>0, <3>5, <4>1
      <4>2. CASE n = s /\ o = p /\ x = m
        BY <1>2, <3>5, <4>2
      <4>3. CASE n = s /\ o = p /\ x # m
        <5>1. x \in Nbr(s) \ {m} /\ x \in Routers \ {m}
          BY <2>0, <4>3
        <5> QED
          BY <1>2, <3>5, <4>3, <5>1
      <4> QED
        BY <4>1, <4>2, <4>3
    <3>6. ASSUME Active(x, n)', Behind(x, n, o)' PROVE Pending(x, n, o)'
      <4>1. Active(x, n) /\ Behind(x, n, o)
        BY <1>6, <3>2, <3>6
      <4>2. Pending(x, n, o)
        BY <2>1, <4>1 DEF Told
      <4>3. CASE <<o, n>> \in srm[x]
        <5>1. <<o, n>> \in srm'[x]
          BY <1>3, <2>0, <3>3, <4>1, <4>3 DEF Behind
        <5> QED
          BY <5>1 DEF Pending
      <4>4. CASE <<o, x>> \in ssn[n] \/ <<o, x>> \in srm[n]
        BY <3>4, <3>5, <4>4 DEF Pending
      <4>5. CASE \/ n \in csnp[x]
                 \/ \E g \in SnpsFrom(x, n) : g.seqs[o] = db[x][o].seq
                 \/ \E g \in SnpsFrom(n, x) : g.seqs[o] >= 0 /\ g.seqs[o] < db[x][o].seq
        BY <1>7, <2>2, <3>1, <4>5 DEF Pending
      <4> QED
        BY <4>2, <4>3, <4>4, <4>5 DEF Pending
    <3>7. ASSUME NEW g \in SnpsFrom(x, n)', g.seqs[o] >= 0
          PROVE  \/ g.seqs[o] = db'[x][o].seq \/ <<o, n>> \in srm'[x]
                 \/ db'[n][o].seq >= db'[x][o].seq
      <4>1. \/ g.seqs[o] = db[x][o].seq \/ <<o, n>> \in srm[x] \/ db[n][o].seq >= db[x][o].seq
        BY <1>7, <2>1, <3>7 DEF Told
      <4> QED
        BY <1>3, <2>0, <2>3, <3>1, <3>3, <4>1
    <3> QED
      BY <3>6, <3>7 DEF Told
  <2> QED
    BY <2>4, <2>5
<1> QED
  BY <1>6, <1>8 DEF TellInv

LEMMA SeqNext == SeqInv /\ [Next]_vars => SeqInv'
<1> SUFFICES ASSUME SeqInv, [Next]_vars PROVE SeqInv'
  OBVIOUS
<1>1. TypeInv' /\ NumInv' /\ EndInv'
  BY TypeNext, NumNext, EndNext DEF SeqInv
<1>2. ASSUME NEW l \in Links, LinkMoves(l) \/ EndsHear(l) PROVE LinkInv' /\ TellInv'
  BY <1>1, <1>2, MovesKeep, HearingKeeps
<1>3. ASSUME NEW r \in Routers, Timers(r) PROVE LinkInv' /\ TellInv'
  BY <1>1, <1>3, HellosKeep, PartialsKeep, LspsKeep DEF Timers
<1>4. ASSUME NEW r \in Routers, LinkHandler(r) PROVE LinkInv' /\ TellInv'
  BY <1>1, <1>4, HandlerKeeps
<1>5. ASSUME NEW r \in Routers, NEW n \in Nbr(r), SendCompleteSnp(r, n) PROVE LinkInv' /\ TellInv'
  BY <1>1, <1>5, CompletesKeep
<1>6. ASSUME UNCHANGED <<links, adj, db, srm, ssn, csnp, refresh, wire>> PROVE LinkInv' /\ TellInv'
  <2>1. linkUp' = linkUp /\ ifUp' = ifUp /\ moves' = moves
    BY <1>6 DEF links
  <2>2. \A f : UnderWay(f)' <=> UnderWay(f)
    BY <1>6, <2>1 DEF UnderWay, IsUp, IsSnp, Active
  <2>3. \A r, n : Active(r, n)' <=> Active(r, n)
    BY <1>6, <2>1 DEF IsUp, Active
  <2>4. LinkInv'
    BY <1>6, <2>1, <2>2, <2>3 DEF SeqInv, LinkInv, Paced, Calm
  <2>5. TellInv'
    BY <1>6, <2>3, TellKept DEF SeqInv
  <2> QED
    BY <2>4, <2>5
<1>7. ASSUME NEW r \in Routers, RunFullDijkstra(r) PROVE LinkInv' /\ TellInv'
  BY <1>6, <1>7 DEF RunFullDijkstra
<1>8. ASSUME NEW f \in wire, Receive(f) PROVE LinkInv' /\ TellInv'
  <2>1. IsUp(f.to, f.from)
    BY UpSym DEF SeqInv, LinkInv, UnderWay
  <2>2. wire' = wire \ {f} /\ UNCHANGED <<links, refresh, routes>>
    BY <1>8 DEF Receive
  <2>3. CASE f.kind = "hello" /\ ProcessHello(f.to, f)
    BY <1>1, <2>1, <2>2, <2>3, HelloKeeps
  <2>4. CASE f.kind \in {"csnp", "psnp"} /\ ProcessSnp(f.to, f)
    BY <1>1, <2>2, <2>4, SnpKeeps DEF IsSnp
  <2>5. CASE f.kind = "lsp" /\ ProcessLsp(f.to, f)
    BY <1>1, <2>2, <2>5, LspKeeps
  <2> QED
    BY <1>8, <2>1, <2>3, <2>4, <2>5 DEF Receive
<1>9. ASSUME UNCHANGED vars PROVE LinkInv' /\ TellInv'
  BY <1>6, <1>9 DEF vars, links
<1>10. LinkInv' /\ TellInv'
  BY <1>2, <1>3, <1>4, <1>5, <1>7, <1>8, <1>9 DEF Next, Due, Arrivals
<1> QED
  BY <1>1, <1>10 DEF SeqInv

-----------------------------------------------------------------------------
(* When the exchange is over, the ends of a link that is up are UP, and    *)
(* neither has an older LSP than the other.                                *)
LEMMA QuietEnds ==
  ASSUME SeqInv, Quiet, NEW r \in Routers, NEW n \in LinksUp(r)
  PROVE  /\ n \in Routers /\ n \in Nbr(r) /\ r \in LinksUp(n) /\ Active(r, n)
         /\ \A o \in Routers : db[r][o].seq >= 1 => db[r][o].seq <= db[n][o].seq
<1>1. n \in Nbr(r) /\ IsUp(r, n) /\ n \in Routers /\ n # r /\ r \in Nbr(n) /\ IsUp(n, r)
  BY NbrSym, NotOwnNbr, UpSym DEF LinksUp
<1>2. r \in LinksUp(n)
  BY <1>1 DEF LinksUp
<1>3. adj[r][n] = "UP" /\ adj[n][r] = "UP"
  BY DEF Quiet, Rising
<1>4. ASSUME NEW o \in Routers, db[r][o].seq >= 1, ~ (db[r][o].seq <= db[n][o].seq)
      PROVE  FALSE
  <2>1. Behind(r, n, o)
    BY <1>1, <1>4, SeqsAreInt DEF Behind, SeqInv
  <2>2. Pending(r, n, o)
    BY <1>1, <1>3, <2>1 DEF SeqInv, TellInv, Told, Active
  <2>3. csnp[r] = {} /\ SnpsFrom(r, n) = {} /\ SnpsFrom(n, r) = {}
    BY DEF Quiet, SnpsFrom
  <2>4. <<o, n>> \notin srm[r]
    <3>1. n \in UpNbr(r) /\ Marked(r) = {}
      BY <1>1, <1>3 DEF Quiet, UpNbr
    <3> QED
      BY <1>1, <3>1 DEF Marked
  <2>5. <<o, r>> \notin srm[n]
    <3>1. r \in UpNbr(n) /\ Marked(n) = {}
      BY <1>1, <1>3 DEF Quiet, UpNbr
    <3> QED
      BY <1>1, <3>1 DEF Marked
  <2>6. <<o, r>> \notin ssn[n]
    <3>1. r \in UpNbr(n) /\ Wanted(n, r) = {}
      BY <1>1, <1>3 DEF Quiet, UpNbr
    <3> QED
      BY <3>1 DEF Wanted
  <2> QED
    BY <2>2, <2>3, <2>4, <2>5, <2>6 DEF Pending
<1> QED
  BY <1>1, <1>2, <1>3, <1>4 DEF Active

LEMMA HasLeast ==
  ASSUME NEW K \in SUBSET Nat, K # {}
  PROVE  \E k \in K : \A j \in K : k <= j
<1> DEFINE R == OpToRel(<, Nat)
<1>1. R = {x \in Nat \X Nat : x[1] < x[2]}
  BY DEF OpToRel
<1>2. IsWellFoundedOn(R, Nat)
  BY NatLessThanWellFounded
<1> HIDE DEF R
<1>3. \E k \in K : \A j \in K : <<j, k>> \notin R
  BY <1>2, WFMin
<1>4. ASSUME NEW j \in Nat, NEW k \in Nat, <<j, k>> \notin R PROVE k <= j
  <2>1. ~ (j < k)
    BY <1>1, <1>4
  <2> QED
    BY <2>1
<1> QED
  BY <1>3, <1>4

(* What holds of 0 and goes from k to k + 1 holds of 0 .. n.               *)
LEMMA UpTo ==
  ASSUME NEW n \in Nat, NEW S, 0 \in S, \A k \in 1 .. n : k - 1 \in S => k \in S
  PROVE  0 .. n \subseteq S
<1> SUFFICES ASSUME NEW x \in 0 .. n, x \notin S PROVE FALSE
  OBVIOUS
<1> DEFINE B == {k \in 0 .. n : k \notin S}
<1>1. B \in SUBSET Nat /\ B # {}
  OBVIOUS
<1>2. PICK b \in B : \A c \in B : b <= c
  <2> HIDE DEF B
  <2> QED
    BY <1>1, HasLeast
<1>3. b \in 1 .. n /\ b - 1 \in 0 .. n /\ b - 1 \notin B
  BY <1>2
<1> QED
  BY <1>2, <1>3

(* A function defined over its own values for smaller arguments: where     *)
(* every value is one of V, it exists.                                     *)
Rounds(f, n, w, step) ==
  /\ f = [k \in 0 .. n |-> f[k]]
  /\ f[0] = w
  /\ \A k \in 1 .. n : f[k] = step[f[k - 1]]

LEMMA RoundsExist ==
  ASSUME NEW n \in Nat, NEW V, NEW w \in V, NEW step, \A x \in V : step[x] \in V
  PROVE  \E f \in [0 .. n -> V] : Rounds(f, n, w, step)
<1> DEFINE S == {m \in 0 .. n : \E f \in [0 .. m -> V] : Rounds(f, m, w, step)}
<1>1. 0 \in S
  <2> DEFINE g == [k \in 0 .. 0 |-> w]
  <2>1. g = [k \in 0 .. 0 |-> g[k]] /\ g[0] = w /\ g \in [0 .. 0 -> V] /\ 1 .. 0 = {}
    OBVIOUS
  <2> HIDE DEF g
  <2>2. Rounds(g, 0, w, step)
    BY <2>1 DEF Rounds
  <2> QED
    BY <2>1, <2>2
<1>2. ASSUME NEW m \in 1 .. n, m - 1 \in S PROVE m \in S
  <2>1. PICK f \in [0 .. (m - 1) -> V] : Rounds(f, m - 1, w, step)
    BY <1>2
  <2> DEFINE x == step[f[m - 1]]
             g == [k \in 0 .. m |-> IF k = m THEN x ELSE f[k]]
  <2>2. m - 1 \in 0 .. (m - 1) /\ x \in V
    OBVIOUS
  <2> HIDE DEF x
  <2>3. g \in [0 .. m -> V] /\ g = [k \in 0 .. m |-> g[k]]
    BY <2>2
  <2>4. g[m] = x /\ \A k \in 0 .. (m - 1) : g[k] = f[k]
    OBVIOUS
  <2> HIDE DEF g
  <2>5. g[0] = w
    BY <2>1, <2>4 DEF Rounds
  <2>6. ASSUME NEW k \in 1 .. m PROVE g[k] = step[g[k - 1]]
    <3>1. k - 1 \in 0 .. (m - 1) /\ g[k - 1] = f[k - 1]
      BY <2>4
    <3>2. CASE k = m
      BY <2>4, <3>1, <3>2 DEF x
    <3>3. CASE k # m
      <4>1. k \in 1 .. (m - 1) /\ k \in 0 .. (m - 1)
        BY <3>3
      <4>2. f[k] = step[f[k - 1]]
        BY <2>1, <4>1 DEF Rounds
      <4> QED
        BY <2>4, <3>1, <4>1, <4>2
    <3> QED
      BY <3>2, <3>3
  <2>7. Rounds(g, m, w, step)
    BY <2>3, <2>5, <2>6 DEF Rounds
  <2> QED
    BY <2>3, <2>7
<1> HIDE DEF S
<1>3. n \in S
  BY <1>1, <1>2, UpTo
<1> QED
  BY <1>3 DEF S

Around(X) == X \cup UNION {LinksUp(x) : x \in X}

(* Reached(r) is {r}, widened by the links that are up, round by round.    *)
LEMMA ReachedIs ==
  ASSUME NEW r \in Routers
  PROVE  \E w \in [0 .. Cardinality(Routers) -> SUBSET Routers] :
           /\ w[0] = {r} /\ Reached(r) = w[Cardinality(Routers)]
           /\ \A k \in 1 .. Cardinality(Routers) : w[k] = Around(w[k - 1])
<1> DEFINE N == Cardinality(Routers)
           V == SUBSET Routers
           step == [X \in V |-> Around(X)]
           C(w) == w = [k \in 0 .. N |->
                          IF k = 0 THEN {r} ELSE w[k - 1] \cup UNION {LinksUp(x) : x \in w[k - 1]}]
           E(w, k) == IF k = 0 THEN {r} ELSE Around(w[k - 1])
           W == CHOOSE w : C(w)
<1>1. Reached(r) = W[N]
  BY DEF Reached
<1>2. N \in Nat
  BY FS_CardinalityType, IsisAssumption
<1>3. \A X \in V : step[X] \in V /\ step[X] = Around(X)
  BY DEF Around, LinksUp, Nbr
<1>4. {r} \in V
  OBVIOUS
<1> HIDE DEF N, step, V
<1>5. PICK f \in [0 .. N -> V] : Rounds(f, N, {r}, step)
  BY <1>2, <1>3, <1>4, RoundsExist
<1>6. C(f)
  <2>1. f = [k \in 0 .. N |-> f[k]]
    BY <1>5 DEF Rounds
  <2>2. ASSUME NEW k \in 0 .. N PROVE f[k] = E(f, k)
    <3>1. CASE k = 0
      BY <1>5, <3>1 DEF Rounds
    <3>2. CASE k # 0
      <4>1. k \in 1 .. N /\ k - 1 \in 0 .. N
        BY <1>2, <3>2
      <4> QED
        BY <1>3, <1>5, <3>2, <4>1 DEF Rounds
    <3> QED
      BY <3>1, <3>2
  <2> HIDE DEF E
  <2>3. f = [k \in 0 .. N |-> E(f, k)]
    BY <2>1, <2>2, Zenon
  <2> QED
    BY <2>3 DEF E, Around
<1>7. C(W)
  <2> HIDE DEF C
  <2> QED
    BY <1>6
<1> HIDE DEF W
<1>8. \A k \in 0 .. N : W[k] = E(W, k)
  <2>1. W = [k \in 0 .. N |-> E(W, k)]
    BY <1>7 DEF Around
  <2> HIDE DEF E
  <2> QED
    BY <2>1, Zenon
<1>9. W[0] = {r} /\ \A k \in 1 .. N : W[k] = Around(W[k - 1])
  <2>1. 0 \in 0 .. N /\ \A k \in 1 .. N : k \in 0 .. N /\ k # 0
    BY <1>2
  <2> QED
    BY <1>8, <2>1
<1>10. \A k \in 0 .. N : W[k] \in V
  <2> DEFINE I == {k \in 0 .. N : W[k] \in V}
  <2>1. 0 \in I
    <3>1. 0 \in 0 .. N /\ W[0] \in V
      BY <1>2, <1>4, <1>9
    <3> QED
      BY <3>1
  <2>2. \A k \in 1 .. N : k - 1 \in I => k \in I
    BY <1>3, <1>9
  <2> HIDE DEF I
  <2>3. 0 .. N \subseteq I
    BY <1>2, <2>1, <2>2, UpTo
  <2> QED
    BY <2>3 DEF I
<1>11. W \in [0 .. N -> V]
  BY <1>7, <1>10
<1> QED
  BY <1>1, <1>9, <1>11 DEF N, V

(* A set no link leads out of holds all a member reaches.                  *)
LEMMA ReachedStays ==
  ASSUME NEW r \in Routers, NEW S, r \in S, \A x \in Routers \cap S : LinksUp(x) \subseteq S
  PROVE  Reached(r) \subseteq S
<1> DEFINE N == Cardinality(Routers)
<1>1. N \in Nat
  BY FS_CardinalityType, IsisAssumption
<1>2. PICK w \in [0 .. N -> SUBSET Routers] :
        /\ w[0] = {r} /\ Reached(r) = w[N]
        /\ \A k \in 1 .. N : w[k] = Around(w[k - 1])
  BY ReachedIs
<1> DEFINE I == {k \in 0 .. N : w[k] \subseteq S}
<1> HIDE DEF N
<1>3. 0 \in I
  BY <1>1, <1>2
<1>4. ASSUME NEW k \in 1 .. N, k - 1 \in I PROVE k \in I
  <2>1. w[k - 1] \in SUBSET Routers /\ w[k - 1] \subseteq S
    BY <1>4
  <2> QED
    BY <1>2, <2>1 DEF Around
<1> HIDE DEF I
<1>5. N \in I
  BY <1>1, <1>3, <1>4, UpTo
<1> QED
  BY <1>2, <1>5 DEF I

LEMMA Agreed == SeqInv => SeqAgreement
<1> SUFFICES ASSUME SeqInv, Quiet, NEW r \in Routers, NEW o \in Reached(r),
                    db[r][o].seq # db[o][o].seq
             PROVE  FALSE
  BY DEF SeqAgreement
<1> DEFINE S == {x \in Routers : db[x][o].seq # db[o][o].seq}
<1>1. o \in Routers
  <2>1. Reached(r) \subseteq Routers
    BY ReachedStays DEF LinksUp, Nbr
  <2> QED
    BY <2>1
<1>2. \A x, y \in Routers : db[x][y].seq \in Int /\ db[x][y].seq <= db[y][y].seq
  BY SeqsAreInt DEF SeqInv, NumInv, OwnNewest
<1>3. ASSUME NEW x \in Routers \cap S, NEW y \in LinksUp(x) PROVE y \in S
  <2>1. y \in Routers /\ x \in LinksUp(y) /\ Active(y, x)
    BY QuietEnds
  <2>2. SUFFICES ASSUME db[y][o].seq = db[o][o].seq PROVE FALSE
    BY <2>1
  <2>3. db[y][o].seq >= 1 => db[y][o].seq <= db[x][o].seq
    BY <1>1, <2>1, QuietEnds
  <2>4. ~ (db[o][o].seq >= 1)
    BY <1>1, <1>2, <2>1, <2>2, <2>3
  <2>5. db[o][o].seq = -1 /\ db[x][o].seq >= -1
    BY <1>1, <2>4, SeqsAreInt DEF SeqInv, EndInv, Seqs
  <2> QED
    BY <1>1, <1>2, <2>5
<1>4. Reached(r) \subseteq S
  BY <1>3, ReachedStays
<1> QED
  BY <1>4

(* When the exchange is over, systems that reach each other hold each      *)
(* other's LSPs in the number the owner last gave (isis/process.py:195-475)*)
(* with any pace of the timers while the links are let alone, and when     *)
(* links fail, as long as frames arrive before the next change.            *)
THEOREM SeqsAlwaysAgree ==
  ASSUME Prompt \/ \A m \in Flaps : \A l \in Links : m[l] = 0
  PROVE  Spec => []SeqAgreement
<1>1. Init => SeqInv
  BY SeqInit
<1> QED
  BY <1>1, SeqNext, Agreed, PTL DEF Spec
-----------------------------------------------------------------------------
(***************************************************************************)
(* Routes.  The paths a router computes are those of a tree: each system   *)
(* but the root hangs on one that is nearer by the metric of the link.     *)
(* The distances of the network are none above those along a tree, and     *)
(* none below a potential, which rises along a link by at most its metric. *)
(***************************************************************************)
Graph(g) ==
  /\ IsFiniteSet(g.systems) /\ g.systems \subseteq Nat \ {0}
  /\ \A s \in g.systems : \A m \in g.nbrs[s] : Metric[s][m] \in Nat \ {0}

(* Rounds that add to a set until they are done are done when the set      *)
(* could have everything.                                                  *)
LEMMA Growing ==
  ASSUME NEW S, IsFiniteSet(S), NEW c, c = Cardinality(S),
         NEW U \in [0 .. c -> SUBSET S], NEW Done,
         0 \in Done \/ U[0] # {},
         \A k \in 1 .. c : k \in Done \/ (k - 1 \notin Done /\ U[k - 1] \subseteq U[k] /\ U[k - 1] # U[k])
  PROVE  c \in Done
<1> DEFINE I == {k \in 0 .. c : k \in Done \/ Cardinality(U[k]) > k}
<1>1. c \in Nat
  BY FS_CardinalityType
<1>2. \A k \in 0 .. c : IsFiniteSet(U[k]) /\ Cardinality(U[k]) \in Nat /\ Cardinality(U[k]) <= c
  BY FS_Subset, FS_CardinalityType
<1>3. 0 \in I
  <2>1. 0 \in 0 .. c
    BY <1>1
  <2>2. U[0] # {} => Cardinality(U[0]) # 0
    BY <1>2, <2>1, FS_EmptySet
  <2> QED
    BY <1>2, <2>1, <2>2
<1>4. ASSUME NEW k \in 1 .. c, k - 1 \in I PROVE k \in I
  <2>1. k \in 0 .. c /\ k - 1 \in 0 .. c
    BY <1>1
  <2>2. CASE k \in Done
    BY <2>1, <2>2
  <2>3. CASE k \notin Done
    <3>1. U[k - 1] \in SUBSET U[k] /\ U[k - 1] # U[k] /\ Cardinality(U[k - 1]) > k - 1
      BY <1>4, <2>3
    <3>2. Cardinality(U[k - 1]) <= Cardinality(U[k]) /\ Cardinality(U[k - 1]) # Cardinality(U[k])
      BY <1>2, <2>1, <3>1, FS_Subset
    <3>3. Cardinality(U[k]) > k
      BY <1>1, <1>2, <2>1, <3>1, <3>2
    <3> QED
      BY <2>1, <3>3
  <2> QED
    BY <2>2, <2>3
<1> HIDE DEF I
<1>5. c \in I
  <2>1. 0 .. c \subseteq I
    BY <1>1, <1>3, <1>4, UpTo
  <2> QED
    BY <1>1, <2>1
<1>6. ~ (Cardinality(U[c]) > c)
  BY <1>1, <1>2
<1> QED
  BY <1>5, <1>6 DEF I

LEMMA MinIs ==
  ASSUME NEW X \in SUBSET Nat, X # {}
  PROVE  Min(X) \in X /\ \A y \in X : Min(X) <= y
<1>1. PICK x \in X : \A y \in X : x <= y
  BY HasLeast
<1> QED
  BY <1>1 DEF Min

(* What the reference takes the least of.                                  *)
Offers(g, f, v) ==
  {f[v]} \cup {f[n] + Metric[n][v] : n \in {m \in g.systems : v \in g.nbrs[m] /\ f[m] < Far}}

LEMMA OffersLeast ==
  ASSUME NEW g, Graph(g), NEW f \in [g.systems -> Nat], NEW v \in g.systems
  PROVE  /\ Min(Offers(g, f, v)) \in Nat /\ Min(Offers(g, f, v)) \in Offers(g, f, v)
         /\ \A e \in Offers(g, f, v) : Min(Offers(g, f, v)) <= e
<1>1. ASSUME NEW e \in Offers(g, f, v) PROVE e \in Nat
  <2>1. CASE e = f[v]
    BY <2>1
  <2>2. CASE e # f[v]
    <3>1. PICK n \in g.systems : v \in g.nbrs[n] /\ e = f[n] + Metric[n][v]
      BY <1>1, <2>2 DEF Offers
    <3>2. Metric[n][v] \in Nat /\ f[n] \in Nat
      BY <3>1 DEF Graph
    <3> QED
      BY <3>1, <3>2
  <2> QED
    BY <2>1, <2>2
<1>2. Offers(g, f, v) \in SUBSET Nat /\ Offers(g, f, v) # {}
  <2>1. f[v] \in Offers(g, f, v)
    BY DEF Offers
  <2> QED
    BY <1>1, <2>1
<1> QED
  BY <1>2, MinIs

(* The rounds of the reference, c of them.                                 *)
NearRounds(g, from, w, c) ==
  /\ w \in [0 .. c -> [g.systems -> Nat]]
  /\ Distance(g, from) = w[c]
  /\ w[0] = [s \in g.systems |-> IF s = from THEN 0 ELSE Far]
  /\ \A k \in 1 .. c : \A v \in g.systems : w[k][v] = Min(Offers(g, w[k - 1], v))

LEMMA DistanceIs ==
  ASSUME NEW g, Graph(g), NEW from, Far \in Nat
  PROVE  \E w : NearRounds(g, from, w, Cardinality(g.systems))
<1> DEFINE S == g.systems
           c == Cardinality(S)
           V == [S -> Nat]
           w0 == [x \in S |-> IF x = from THEN 0 ELSE Far]
           Step(f) == [x \in S |-> Min(Offers(g, f, x))]
           step == [f \in V |-> Step(f)]
           C(f) == f = [k \in 0 .. Cardinality(S) |->
                          IF k = 0 THEN w0
                          ELSE [x \in S |->
                                  Min({f[k - 1][x]}
                                        \cup {f[k - 1][n] + Metric[n][x] :
                                                n \in {m \in S : x \in g.nbrs[m] /\ f[k - 1][m] < Far}})]]
           E(f, k) == IF k = 0 THEN w0 ELSE Step(f[k - 1])
           F == CHOOSE f : C(f)
<1>1. Distance(g, from) = F[c]
  BY DEF Distance
<1>2. c \in Nat
  BY FS_CardinalityType DEF Graph
<1>3. w0 \in V
  OBVIOUS
<1>4. \A f \in V : step[f] \in V /\ step[f] = Step(f)
  BY OffersLeast
<1> HIDE DEF V, w0, step, Step
<1>5. PICK f \in [0 .. c -> V] : Rounds(f, c, w0, step)
  BY <1>2, <1>3, <1>4, RoundsExist
<1>6. C(f)
  <2>1. f = [k \in 0 .. c |-> f[k]]
    BY <1>5 DEF Rounds
  <2>2. ASSUME NEW k \in 0 .. c PROVE f[k] = E(f, k)
    <3>1. CASE k = 0
      BY <1>5, <3>1 DEF Rounds
    <3>2. CASE k # 0
      <4>1. k \in 1 .. c /\ k - 1 \in 0 .. c
        BY <1>2, <3>2
      <4> QED
        BY <1>4, <1>5, <3>2, <4>1 DEF Rounds
    <3> QED
      BY <3>1, <3>2
  <2> HIDE DEF E
  <2>3. f = [k \in 0 .. c |-> E(f, k)]
    BY <2>1, <2>2, Zenon
  <2> QED
    BY <2>3 DEF E, Step, Offers
<1>7. C(F)
  <2> HIDE DEF C
  <2> QED
    BY <1>6
<1> HIDE DEF F
<1>8. \A k \in 0 .. c : F[k] = E(F, k)
  <2>1. F = [k \in 0 .. c |-> E(F, k)]
    BY <1>7 DEF Step, Offers
  <2> HIDE DEF E
  <2> QED
    BY <2>1, Zenon
<1>9. F[0] = w0 /\ \A k \in 1 .. c : F[k] = Step(F[k - 1])
  <2>1. 0 \in 0 .. c /\ \A k \in 1 .. c : k \in 0 .. c /\ k # 0
    BY <1>2
  <2> QED
    BY <1>8, <2>1
<1>10. \A k \in 0 .. c : F[k] \in V
  <2> DEFINE I == {k \in 0 .. c : F[k] \in V}
  <2>1. 0 \in I
    <3>1. 0 \in 0 .. c /\ F[0] \in V
      BY <1>2, <1>3, <1>9
    <3> QED
      BY <3>1
  <2>2. \A k \in 1 .. c : k - 1 \in I => k \in I
    BY <1>4, <1>9
  <2> HIDE DEF I
  <2>3. 0 .. c \subseteq I
    BY <1>2, <2>1, <2>2, UpTo
  <2> QED
    BY <2>3 DEF I
<1>11. F \in [0 .. c -> V]
  BY <1>7, <1>10
<1>12. \A k \in 1 .. c : \A v \in S : F[k][v] = Min(Offers(g, F[k - 1], v))
  BY <1>9 DEF Step
<1>13. NearRounds(g, from, F, c)
  BY <1>1, <1>9, <1>11, <1>12 DEF V, w0, NearRounds
<1> QED
  BY <1>13

(* A potential: nothing at the start, at most Far anywhere, and along a    *)
(* link it rises by at most the metric.                                    *)
LEMMA DistanceNoLess ==
  ASSUME NEW g, Graph(g), NEW from \in g.systems, Far \in Nat,
         NEW p \in [g.systems -> Nat], p[from] = 0, \A v \in g.systems : p[v] <= Far,
         \A u, v \in g.systems : v \in g.nbrs[u] => p[v] <= p[u] + Metric[u][v]
  PROVE  \A v \in g.systems : Distance(g, from)[v] \in Nat /\ p[v] <= Distance(g, from)[v]
<1> DEFINE S == g.systems
           c == Cardinality(S)
<1>1. c \in Nat
  BY FS_CardinalityType DEF Graph
<1>2. PICK w : NearRounds(g, from, w, c)
  BY DistanceIs
<1>3. /\ w \in [0 .. c -> [S -> Nat]]
      /\ Distance(g, from) = w[c]
      /\ w[0] = [s \in S |-> IF s = from THEN 0 ELSE Far]
      /\ \A k \in 1 .. c : \A v \in S : w[k][v] = Min(Offers(g, w[k - 1], v))
  BY <1>2 DEF NearRounds
<1> DEFINE I == {k \in 0 .. c : \A v \in S : p[v] <= w[k][v]}
<1> HIDE DEF c
<1>4. 0 \in I
  <2>1. \A v \in S : p[v] <= w[0][v]
    BY <1>3
  <2> QED
    BY <1>1, <2>1
<1>5. ASSUME NEW k \in 1 .. c, k - 1 \in I PROVE k \in I
  <2> DEFINE f == w[k - 1]
  <2>1. f \in [S -> Nat] /\ \A v \in S : p[v] <= f[v]
    BY <1>3, <1>5
  <2> HIDE DEF f
  <2>2. ASSUME NEW v \in S, NEW e \in Offers(g, f, v) PROVE p[v] <= e
    <3>1. CASE e = f[v]
      BY <2>1, <3>1
    <3>2. CASE e # f[v]
      <4>1. PICK n \in S : v \in g.nbrs[n] /\ e = f[n] + Metric[n][v]
        BY <2>2, <3>2 DEF Offers
      <4>2. Metric[n][v] \in Nat /\ p[n] <= f[n] /\ p[n] \in Nat /\ f[n] \in Nat /\ p[v] \in Nat
        BY <2>1, <4>1 DEF Graph
      <4>3. p[v] <= p[n] + Metric[n][v]
        BY <4>1
      <4> QED
        BY <4>1, <4>2, <4>3
    <3> QED
      BY <3>1, <3>2
  <2>3. \A v \in S : Min(Offers(g, f, v)) \in Offers(g, f, v)
    BY <2>1, OffersLeast
  <2>4. \A v \in S : p[v] <= w[k][v]
    BY <1>3, <2>2, <2>3 DEF f
  <2> QED
    BY <1>5, <2>4
<1> HIDE DEF I
<1>6. c \in I
  <2>1. 0 .. c \subseteq I
    BY <1>1, <1>4, <1>5, UpTo
  <2> QED
    BY <1>1, <2>1
<1> QED
  BY <1>1, <1>3, <1>6 DEF I

LEMMA LeastOf ==
  ASSUME NEW X, X # {}, NEW p, \A x \in X : p[x] \in Nat
  PROVE  \E x \in X : \A y \in X : p[x] <= p[y]
<1> DEFINE K == {p[x] : x \in X}
<1>1. K \in SUBSET Nat /\ K # {}
  OBVIOUS
<1>2. PICK k \in K : \A j \in K : k <= j
  <2> HIDE DEF K
  <2> QED
    BY <1>1, HasLeast
<1> QED
  BY <1>2

(* A tree: every system of it but the root hangs on another.               *)
LEMMA DistanceNoMore ==
  ASSUME NEW g, Graph(g), NEW from, Far \in Nat,
         NEW T \in SUBSET g.systems, from \in T, NEW p, \A v \in T : p[v] \in Nat, p[from] = 0,
         \A v \in T \ {from} : \E u \in T : v \in g.nbrs[u] /\ p[v] = p[u] + Metric[u][v] /\ p[u] < Far
  PROVE  \A v \in T : Distance(g, from)[v] <= p[v]
<1> DEFINE S == g.systems
           c == Cardinality(S)
<1>1. c \in Nat /\ IsFiniteSet(S)
  BY FS_CardinalityType DEF Graph
<1>2. PICK w : NearRounds(g, from, w, c)
  BY DistanceIs
<1>3. /\ w \in [0 .. c -> [S -> Nat]]
      /\ Distance(g, from) = w[c]
      /\ w[0] = [s \in S |-> IF s = from THEN 0 ELSE Far]
      /\ \A k \in 1 .. c : \A v \in S : w[k][v] = Min(Offers(g, w[k - 1], v))
  BY <1>2 DEF NearRounds
<1> DEFINE U    == [k \in 0 .. c |-> {v \in T : w[k][v] <= p[v]}]
           Done == {k \in 0 .. c : U[k] = T}
           I    == {k \in 0 .. c : from \in U[k]}
<1>4. ASSUME NEW k \in 1 .. c
      PROVE  /\ k \in 0 .. c /\ k - 1 \in 0 .. c /\ w[k - 1] \in [S -> Nat] /\ w[k] \in [S -> Nat]
             /\ \A v \in S : w[k][v] <= w[k - 1][v]
             /\ \A v, u \in S : v \in g.nbrs[u] /\ w[k - 1][u] < Far => w[k][v] <= w[k - 1][u] + Metric[u][v]
  <2> DEFINE f == w[k - 1]
  <2>1. k \in 0 .. c /\ k - 1 \in 0 .. c
    BY <1>1
  <2>2. f \in [S -> Nat] /\ w[k] \in [S -> Nat]
    BY <1>3, <2>1
  <2> HIDE DEF f
  <2>3. \A v \in S : \A e \in Offers(g, f, v) : Min(Offers(g, f, v)) <= e
    BY <2>2, OffersLeast
  <2>4. \A v \in S : f[v] \in Offers(g, f, v)
    BY DEF Offers
  <2>5. \A v, u \in S : v \in g.nbrs[u] /\ f[u] < Far => f[u] + Metric[u][v] \in Offers(g, f, v)
    BY DEF Offers
  <2>6. \A v \in S : w[k][v] = Min(Offers(g, f, v))
    BY <1>3 DEF f
  <2> QED
    BY <2>1, <2>2, <2>3, <2>4, <2>5, <2>6 DEF f
<1>5. \A k \in 0 .. c : \A v \in T : w[k][v] \in Nat /\ p[v] \in Nat
  BY <1>3
<1>6. \A k \in 0 .. c : from \in U[k]
  <2>1. 0 \in I
    BY <1>1, <1>3
  <2>2. ASSUME NEW k \in 1 .. c, k - 1 \in I PROVE k \in I
    BY <1>4, <1>5, <2>2
  <2> HIDE DEF I
  <2>3. 0 .. c \subseteq I
    BY <1>1, <2>1, <2>2, UpTo
  <2> QED
    BY <2>3 DEF I
<1>7. ASSUME NEW k \in 1 .. c, k \notin Done
      PROVE  k - 1 \notin Done /\ U[k - 1] \subseteq U[k] /\ U[k - 1] # U[k]
  <2>1. U[k - 1] \subseteq U[k]
    BY <1>4, <1>5
  <2>2. U[k - 1] # T
    <3>1. U[k] \subseteq T /\ U[k] # T
      BY <1>4, <1>7
    <3> QED
      BY <2>1, <3>1
  <2>3. PICK v \in T \ U[k - 1] : \A y \in T \ U[k - 1] : p[v] <= p[y]
    <3> DEFINE X == T \ U[k - 1]
    <3>1. X # {} /\ \A x \in X : p[x] \in Nat
      BY <1>4, <2>2
    <3>2. \E v \in X : \A y \in X : p[v] <= p[y]
      <4> HIDE DEF X
      <4> QED
        BY <3>1, LeastOf
    <3> HIDE DEF U
    <3> QED
      BY <3>2
  <2>4. v # from
    BY <1>4, <1>6, <2>3
  <2>5. PICK u \in T : v \in g.nbrs[u] /\ p[v] = p[u] + Metric[u][v] /\ p[u] < Far
    BY <2>4
  <2>6. Metric[u][v] \in Nat \ {0} /\ p[u] \in Nat /\ p[v] \in Nat
    BY <2>5 DEF Graph
  <2>7. u \in U[k - 1]
    BY <2>3, <2>5, <2>6
  <2>8. w[k - 1][u] <= p[u] /\ w[k - 1][u] \in Nat /\ w[k][v] \in Nat
    BY <1>4, <1>5, <2>7
  <2>9. w[k][v] <= w[k - 1][u] + Metric[u][v]
    BY <1>4, <2>5, <2>6, <2>8
  <2>10. w[k][v] <= p[v]
    <3> DEFINE a == w[k][v]
               b == w[k - 1][u]
               e == p[u]
               o == Metric[u][v]
    <3>1. a \in Nat /\ b \in Nat /\ e \in Nat /\ o \in Nat /\ a <= b + o /\ b <= e
      BY <2>6, <2>8, <2>9
    <3>2. p[v] = e + o
      BY <2>5
    <3> HIDE DEF a, b, e, o
    <3>3. a <= e + o
      BY <3>1
    <3> QED
      BY <3>2, <3>3 DEF a
  <2>11. v \in U[k]
    BY <1>4, <2>3, <2>10
  <2> QED
    BY <2>1, <2>2, <2>3, <2>11
<1>8. c \in Done
  <2>1. U \in [0 .. c -> SUBSET S]
    OBVIOUS
  <2>2. 0 \in Done \/ U[0] # {}
    BY <1>1, <1>6
  <2>3. \A k \in 1 .. c : k \in Done \/ (k - 1 \notin Done /\ U[k - 1] \subseteq U[k] /\ U[k - 1] # U[k])
    BY <1>7
  <2>4. c = Cardinality(S)
    OBVIOUS
  <2> HIDE DEF U, Done, c
  <2> QED
    BY <1>1, <2>1, <2>2, <2>3, <2>4, Growing
<1> QED
  BY <1>1, <1>3, <1>8

-----------------------------------------------------------------------------
(* What a round of run_full_dijkstra leaves.                               *)
SpfStates(g) ==
  [queue : SUBSET g.systems, dist : [g.systems -> Nat], prev : [g.systems -> g.systems \cup {NoSystem}]]

(* A tree: a system hangs on one that has left the queue, a metric nearer. *)
Tree(g, self, w) ==
  /\ w.dist[self] = 0 /\ w.prev[self] = NoSystem
  /\ \A v \in g.systems :
       /\ w.dist[v] <= Far \/ v = self
       /\ v # self /\ w.prev[v] = NoSystem => w.dist[v] = Far
       /\ w.prev[v] # NoSystem =>
            /\ w.prev[v] \notin w.queue /\ v \in g.nbrs[w.prev[v]] /\ w.dist[v] < Far
            /\ w.dist[v] = w.dist[w.prev[v]] + Metric[w.prev[v]][v]

(* What left the queue is nearest, and offered its neighbours the way; a   *)
(* neighbour that is no system of the graph is passed over.                *)
Short(g, w) ==
  \A u \in g.systems \ w.queue :
    /\ \A v \in w.queue : w.dist[u] <= w.dist[v]
    /\ \A m \in g.nbrs[u] \cap g.systems : w.dist[m] <= w.dist[u] + Metric[u][m]

SpfOK(g, self, w) == w \in SpfStates(g) /\ Tree(g, self, w) /\ Short(g, w)

LEMMA NearestIsLeast ==
  ASSUME NEW g, Graph(g), NEW w \in SpfStates(g), w.queue # {}
  PROVE  /\ Nearest(w) \in w.queue
         /\ \A m \in w.queue : w.dist[Nearest(w)] <= w.dist[m]
<1> DEFINE N == {n \in w.queue : \A m \in w.queue : w.dist[n] <= w.dist[m]}
<1>1. w.queue \subseteq g.systems /\ w.dist \in [g.systems -> Nat] /\ g.systems \subseteq Nat
  BY DEF SpfStates, Graph
<1>2. PICK d \in w.queue : \A e \in w.queue : w.dist[d] <= w.dist[e]
  BY <1>1, LeastOf
<1>3. N \in SUBSET Nat /\ N # {}
  BY <1>1, <1>2
<1>4. Nearest(w) = Min(N)
  BY DEF Nearest
<1>5. Min(N) \in N
  <2> HIDE DEF N
  <2> QED
    BY <1>3, MinIs
<1> QED
  BY <1>4, <1>5

LEMMA RelaxKeeps ==
  ASSUME NEW g, Graph(g), NEW self \in g.systems, Far \in Nat,
         NEW w, SpfOK(g, self, w),
         NEW n \in w.queue, \A m \in w.queue : w.dist[n] <= w.dist[m]
  PROVE  /\ SpfOK(g, self, Relaxed(w, n, g.nbrs[n]))
         /\ Relaxed(w, n, g.nbrs[n]).queue = w.queue \ {n}
<1> DEFINE S == g.systems
           better(m) == m \in g.nbrs[n] /\ w.dist[n] + Metric[n][m] < w.dist[m]
           dist == [m \in S |-> IF better(m) THEN w.dist[n] + Metric[n][m] ELSE w.dist[m]]
           prev == [m \in S |-> IF better(m) THEN n ELSE w.prev[m]]
           r == Relaxed(w, n, g.nbrs[n])
<1>1. /\ w.queue \subseteq S /\ w.dist \in [S -> Nat] /\ w.prev \in [S -> S \cup {NoSystem}]
      /\ n \in S
      /\ \A u \in S : \A m \in g.nbrs[u] : Metric[u][m] \in Nat \ {0}
      /\ DOMAIN w.dist = S /\ DOMAIN w.prev = S
      /\ NoSystem \notin S
  BY DEF SpfOK, SpfStates, Graph, NoSystem
<1>2. r = [queue |-> w.queue \ {n}, dist |-> dist, prev |-> prev]
  BY <1>1 DEF Relaxed
<1>3. r.queue = w.queue \ {n} /\ r.dist = dist /\ r.prev = prev
  BY <1>2
<1>4. /\ dist \in [S -> Nat] /\ prev \in [S -> S \cup {NoSystem}]
      /\ \A m \in S : /\ ~ better(m) => dist[m] = w.dist[m] /\ prev[m] = w.prev[m]
                      /\ better(m) => dist[m] = w.dist[n] + Metric[n][m] /\ prev[m] = n
      /\ \A m \in S : dist[m] <= w.dist[m]
  BY <1>1
<1>5. r \in SpfStates(g)
  BY <1>1, <1>2, <1>4 DEF SpfStates
<1> HIDE DEF dist, prev, r
<1>6. \A v \in S : w.dist[v] \in Nat /\ dist[v] \in Nat
  BY <1>1, <1>4
<1>7. ASSUME NEW u \in S, u \notin w.queue \ {n}
      PROVE  dist[u] = w.dist[u] /\ w.dist[u] <= w.dist[n] /\ ~ better(u)
  <2>1. w.dist[u] <= w.dist[n]
    BY <1>6, <1>7 DEF SpfOK, Short
  <2>2. ~ better(u)
    BY <1>1, <1>6, <2>1
  <2> QED
    BY <1>4, <2>1, <2>2
<1>8. Tree(g, self, r)
  <2>1. ~ better(self)
    BY <1>1 DEF SpfOK, Tree
  <2>2. dist[self] = 0 /\ prev[self] = NoSystem
    BY <2>1, <1>4 DEF SpfOK, Tree
  <2>3. ASSUME NEW v \in S
        PROVE  /\ dist[v] <= Far \/ v = self
               /\ v # self /\ prev[v] = NoSystem => dist[v] = Far
               /\ prev[v] # NoSystem =>
                    /\ prev[v] \notin w.queue \ {n} /\ v \in g.nbrs[prev[v]] /\ dist[v] < Far
                    /\ dist[v] = dist[prev[v]] + Metric[prev[v]][v]
    <3>1. CASE better(v)
      <4>1. v # self
        BY <3>1, <2>1
      <4>2. w.dist[v] <= Far
        BY <4>1 DEF SpfOK, Tree
      <4>3. /\ dist[v] = w.dist[n] + Metric[n][v] /\ prev[v] = n /\ n # NoSystem
            /\ dist[v] < w.dist[v] /\ Metric[n][v] \in Nat \ {0} /\ v \in g.nbrs[n]
        BY <3>1, <1>1, <1>4
      <4>4. dist[v] < Far /\ dist[v] <= Far
        BY <4>2, <4>3, <1>6
      <4>5. dist[prev[v]] = w.dist[n]
        BY <4>3, <1>1, <1>7
      <4> QED
        BY <4>1, <4>3, <4>4, <4>5
    <3>2. CASE ~ better(v)
      <4>1. dist[v] = w.dist[v] /\ prev[v] = w.prev[v]
        BY <3>2, <1>4
      <4>2. /\ w.dist[v] <= Far \/ v = self
            /\ v # self /\ w.prev[v] = NoSystem => w.dist[v] = Far
            /\ w.prev[v] # NoSystem =>
                 /\ w.prev[v] \notin w.queue /\ v \in g.nbrs[w.prev[v]] /\ w.dist[v] < Far
                 /\ w.dist[v] = w.dist[w.prev[v]] + Metric[w.prev[v]][v]
        BY DEF SpfOK, Tree
      <4>3. w.prev[v] # NoSystem => w.prev[v] \in S /\ dist[w.prev[v]] = w.dist[w.prev[v]]
        BY <1>1, <1>7, <4>2
      <4> QED
        BY <4>1, <4>2, <4>3
    <3> QED
      BY <3>1, <3>2
  <2> QED
    BY <2>2, <2>3, <1>3 DEF Tree
<1>9. Short(g, r)
  <2> SUFFICES ASSUME NEW u \in S \ (w.queue \ {n})
               PROVE  /\ \A v \in w.queue \ {n} : dist[u] <= dist[v]
                      /\ \A m \in g.nbrs[u] \cap S : dist[m] <= dist[u] + Metric[u][m]
    BY <1>3 DEF Short
  <2>1. dist[u] = w.dist[u] /\ w.dist[u] <= w.dist[n]
    BY <1>7
  <2>2. ASSUME NEW v \in w.queue \ {n} PROVE dist[u] <= dist[v]
    <3>1. w.dist[n] <= w.dist[v] /\ v \in S
      BY <1>1
    <3>2. w.dist[n] <= dist[v]
      <4>1. CASE better(v)
        <5>1. dist[v] = w.dist[n] + Metric[n][v] /\ Metric[n][v] \in Nat
          BY <3>1, <4>1, <1>1, <1>4
        <5> QED
          BY <5>1, <1>1, <1>6
      <4>2. CASE ~ better(v)
        BY <4>2, <3>1, <1>4
      <4> QED
        BY <4>1, <4>2
    <3> QED
      BY <3>1, <3>2, <2>1, <1>1, <1>6
  <2>3. ASSUME NEW m \in g.nbrs[u] \cap S PROVE dist[m] <= dist[u] + Metric[u][m]
    <3>1. Metric[u][m] \in Nat
      BY <1>1
    <3>2. CASE u = n
      <4>1. CASE better(m)
        BY <4>1, <3>1, <3>2, <2>1, <1>4, <1>6
      <4>2. CASE ~ better(m)
        BY <4>2, <3>1, <3>2, <2>1, <1>4, <1>6
      <4> QED
        BY <4>1, <4>2
    <3>3. CASE u # n
      <4>1. w.dist[m] <= w.dist[u] + Metric[u][m]
        BY <3>3 DEF SpfOK, Short
      <4>2. dist[m] <= w.dist[m]
        BY <1>4
      <4> QED
        BY <4>1, <4>2, <3>1, <2>1, <1>6
    <3> QED
      BY <3>2, <3>3
  <2> QED
    BY <2>2, <2>3
<1> QED
  BY <1>3, <1>5, <1>8, <1>9 DEF SpfOK, r

LEMMA RoundKeeps ==
  ASSUME NEW g, Graph(g), NEW self \in g.systems, Far \in Nat,
         NEW x, SpfOK(g, self, x), x.queue # {}
  PROVE  /\ SpfOK(g, self, Relaxed(x, Nearest(x), g.nbrs[Nearest(x)]))
         /\ Cardinality(Relaxed(x, Nearest(x), g.nbrs[Nearest(x)]).queue) = Cardinality(x.queue) - 1
<1> DEFINE n == Nearest(x)
<1>1. x \in SpfStates(g) /\ x.queue \in SUBSET g.systems
  BY DEF SpfOK, SpfStates
<1>2. n \in x.queue /\ \A m \in x.queue : x.dist[n] <= x.dist[m]
  BY <1>1, NearestIsLeast
<1>3. IsFiniteSet(x.queue)
  BY <1>1, FS_Subset DEF Graph
<1> HIDE DEF n
<1>4. SpfOK(g, self, Relaxed(x, n, g.nbrs[n])) /\ Relaxed(x, n, g.nbrs[n]).queue = x.queue \ {n}
  BY <1>2, RelaxKeeps
<1>5. Cardinality(x.queue \ {n}) = Cardinality(x.queue) - 1
  BY <1>2, <1>3, FS_RemoveElement
<1> QED
  BY <1>4, <1>5 DEF n

LEMMA DijkstraIs ==
  ASSUME NEW g, Graph(g), NEW self \in g.systems, Far \in Nat
  PROVE  SpfOK(g, self, Dijkstra(g, self)) /\ Dijkstra(g, self).queue = {}
<1> DEFINE S == g.systems
           c == Cardinality(S)
           w0 == Start(g, self)
           Step(x) == Relaxed(x, Nearest(x), g.nbrs[Nearest(x)])
           C(f) == f = [k \in 0 .. Cardinality(S) |->
                          IF k = 0 THEN w0
                          ELSE Relaxed(f[k - 1], Nearest(f[k - 1]), g.nbrs[Nearest(f[k - 1])])]
           E(f, k) == IF k = 0 THEN w0 ELSE Step(f[k - 1])
           F == CHOOSE f : C(f)
           V == {w \in SpfStates(g) : SpfOK(g, self, w)}
           step == [x \in V |-> IF x.queue = {} THEN x ELSE Step(x)]
           Left(w, k) == w \in V /\ Cardinality(w.queue) = c - k
<1>1. Dijkstra(g, self) = F[c]
  BY DEF Dijkstra
<1>2. c \in Nat /\ IsFiniteSet(S)
  BY FS_CardinalityType DEF Graph
<1>3. Left(w0, 0)
  <2>1. w0.queue = S /\ w0.dist = [s \in S |-> IF s = self THEN 0 ELSE Far] /\ w0.prev = [s \in S |-> NoSystem]
    BY DEF Start
  <2>2. w0 \in SpfStates(g)
    BY DEF Start, SpfStates
  <2>3. Tree(g, self, w0)
    BY <2>1 DEF Tree
  <2>4. Short(g, w0)
    BY <2>1 DEF Short
  <2> HIDE DEF w0
  <2> QED
    BY <1>2, <2>1, <2>2, <2>3, <2>4 DEF SpfOK
<1>4. ASSUME NEW x \in V, x.queue # {} PROVE Step(x) \in V /\ Cardinality(Step(x).queue) = Cardinality(x.queue) - 1
  <2>1. SpfOK(g, self, Step(x)) /\ Cardinality(Step(x).queue) = Cardinality(x.queue) - 1
    BY <1>4, RoundKeeps
  <2> HIDE DEF Step
  <2> QED
    BY <2>1 DEF SpfOK
<1>5. \A x \in V : step[x] \in V /\ (x.queue # {} => step[x] = Step(x))
  BY <1>4
<1>6. ASSUME NEW k \in 1 .. c, NEW x, Left(x, k - 1) PROVE x.queue # {} /\ Left(Step(x), k)
  <2>1. x.queue # {}
    BY <1>2, <1>6, FS_EmptySet
  <2>2. Step(x) \in V /\ Cardinality(Step(x).queue) = Cardinality(x.queue) - 1
    BY <1>4, <1>6, <2>1
  <2> HIDE DEF Step, V, c
  <2> QED
    BY <1>2, <1>6, <2>1, <2>2
<1> HIDE DEF V, w0, step, Step
<1>7. PICK f \in [0 .. c -> V] : Rounds(f, c, w0, step)
  <2> HIDE DEF c
  <2> QED
    BY <1>2, <1>3, <1>5, RoundsExist
<1>8. ASSUME NEW e, e[0] = w0, \A k \in 1 .. c : Left(e[k - 1], k - 1) => e[k] = Step(e[k - 1])
      PROVE  \A k \in 0 .. c : Left(e[k], k)
  <2> DEFINE I == {k \in 0 .. c : Left(e[k], k)}
  <2>1. 0 \in I
    BY <1>2, <1>3, <1>8
  <2>2. \A k \in 1 .. c : k - 1 \in I => k \in I
    BY <1>6, <1>8
  <2> HIDE DEF I, c
  <2>3. 0 .. c \subseteq I
    BY <1>2, <2>1, <2>2, UpTo
  <2> QED
    BY <2>3 DEF I
<1>9. f[0] = w0 /\ \A k \in 1 .. c : Left(f[k - 1], k - 1) => f[k] = Step(f[k - 1])
  BY <1>5, <1>6, <1>7 DEF Rounds
<1>10. \A k \in 0 .. c : Left(f[k], k)
  BY <1>8, <1>9
<1>11. C(f)
  <2>1. f = [k \in 0 .. c |-> f[k]]
    BY <1>7 DEF Rounds
  <2>2. ASSUME NEW k \in 0 .. c PROVE f[k] = E(f, k)
    <3>1. CASE k = 0
      BY <3>1, <1>9
    <3>2. CASE k # 0
      <4>1. k \in 1 .. c /\ k - 1 \in 0 .. c
        BY <3>2, <1>2
      <4> QED
        BY <3>2, <4>1, <1>9, <1>10
    <3> QED
      BY <3>1, <3>2
  <2> HIDE DEF E
  <2>3. f = [k \in 0 .. c |-> E(f, k)]
    BY <2>1, <2>2, Zenon
  <2> QED
    BY <2>3 DEF E, Step
<1>12. C(F)
  <2> HIDE DEF C
  <2> QED
    BY <1>11
<1> HIDE DEF F
<1>13. \A k \in 0 .. c : F[k] = E(F, k)
  <2>1. F = [k \in 0 .. c |-> E(F, k)]
    BY <1>12 DEF Step
  <2> HIDE DEF E
  <2> QED
    BY <2>1, Zenon
<1>14. F[0] = w0 /\ \A k \in 1 .. c : Left(F[k - 1], k - 1) => F[k] = Step(F[k - 1])
  <2>1. 0 \in 0 .. c /\ \A k \in 1 .. c : k \in 0 .. c /\ k # 0
    BY <1>2
  <2> QED
    BY <1>13, <2>1
<1>15. Left(F[c], c)
  <2>1. \A k \in 0 .. c : Left(F[k], k)
    BY <1>8, <1>14
  <2> QED
    BY <1>2, <2>1
<1>16. SpfOK(g, self, F[c]) /\ F[c] \in SpfStates(g) /\ Cardinality(F[c].queue) = 0
  BY <1>2, <1>15 DEF V
<1>17. F[c].queue = {}
  <2>1. F[c].queue \in SUBSET S
    BY <1>16 DEF SpfStates
  <2> QED
    BY <1>2, <1>16, <2>1, FS_Subset, FS_EmptySet
<1> QED
  BY <1>1, <1>16, <1>17

-----------------------------------------------------------------------------
(* The way back to the first hop h: the systems it passes hang one on the  *)
(* other, and h on self.                                                   *)
Path(g, self, D, h, T) ==
  /\ T \subseteq g.systems \ {self}
  /\ h \in T /\ D.prev[h] = self
  /\ \A v \in T : D.dist[v] < Far /\ (v # h => D.prev[v] \in T)

LEMMA FirstHopIs ==
  ASSUME NEW g, Graph(g), NEW self \in g.systems, Far \in Nat,
         NEW D, SpfOK(g, self, D), NEW d \in g.systems \ {self}, D.dist[d] < Far
  PROVE  \E T : d \in T /\ Path(g, self, D, FirstHop(D.prev, self, d), T)
<1> DEFINE S == g.systems
           prev == D.prev
           c == Cardinality(S)
           V == {x \in S \ {self} : D.dist[x] < Far}
           Step(x) == IF prev[x] \in {self, NoSystem} THEN x ELSE prev[x]
           step == [x \in V |-> Step(x)]
           C(f) == f = [k \in 0 .. Cardinality(DOMAIN prev) |->
                          IF k = 0 THEN d
                          ELSE IF prev[f[k - 1]] \in {self, NoSystem} THEN f[k - 1] ELSE prev[f[k - 1]]]
           E(f, k) == IF k = 0 THEN d ELSE Step(f[k - 1])
           F == CHOOSE f : C(f)
<1>1. /\ DOMAIN prev = S /\ prev \in [S -> S \cup {NoSystem}] /\ D.dist \in [S -> Nat]
      /\ NoSystem \notin S /\ IsFiniteSet(S) /\ c \in Nat
      /\ \A u \in S : \A m \in g.nbrs[u] : Metric[u][m] \in Nat \ {0}
  BY FS_CardinalityType DEF SpfOK, SpfStates, Graph, NoSystem
<1>2. FirstHop(prev, self, d) = F[Cardinality(DOMAIN prev)]
  BY DEF FirstHop
<1>3. \A v \in S :
        /\ v # self /\ prev[v] = NoSystem => D.dist[v] = Far
        /\ prev[v] # NoSystem => v \in g.nbrs[prev[v]] /\ D.dist[v] = D.dist[prev[v]] + Metric[prev[v]][v]
  BY DEF SpfOK, Tree
<1>4. ASSUME NEW x \in V, prev[x] # self
      PROVE  prev[x] \in V /\ prev[x] # NoSystem /\ D.dist[prev[x]] < D.dist[x]
  <2>0. x \in S /\ x # self /\ D.dist[x] # Far
    BY <1>1
  <2>1. prev[x] # NoSystem /\ prev[x] \in S
    BY <1>1, <1>3, <2>0
  <2>2. Metric[prev[x]][x] \in Nat \ {0} /\ D.dist[x] = D.dist[prev[x]] + Metric[prev[x]][x]
    BY <1>1, <1>3, <2>1
  <2>3. D.dist[prev[x]] \in Nat /\ D.dist[x] \in Nat
    BY <1>1, <2>1
  <2> QED
    BY <1>4, <2>1, <2>2, <2>3
<1>5. \A x \in V : step[x] \in V /\ step[x] = Step(x) /\ (prev[x] = self => Step(x) = x) /\ (prev[x] # self => Step(x) = prev[x])
  BY <1>4
<1>6. d \in V
  OBVIOUS
<1> HIDE DEF V, step, Step
<1>7. PICK f \in [0 .. c -> V] : Rounds(f, c, d, step)
  <2> HIDE DEF c
  <2> QED
    BY <1>1, <1>5, <1>6, RoundsExist
<1>8. C(f)
  <2>1. f = [k \in 0 .. c |-> f[k]]
    BY <1>7 DEF Rounds
  <2>2. ASSUME NEW k \in 0 .. c PROVE f[k] = E(f, k)
    <3>1. CASE k = 0
      BY <3>1, <1>7 DEF Rounds
    <3>2. CASE k # 0
      <4>1. k \in 1 .. c /\ k - 1 \in 0 .. c
        BY <3>2, <1>1
      <4> QED
        BY <3>2, <4>1, <1>5, <1>7 DEF Rounds
    <3> QED
      BY <3>1, <3>2
  <2> HIDE DEF E
  <2>3. f = [k \in 0 .. c |-> E(f, k)]
    BY <2>1, <2>2, Zenon
  <2> QED
    BY <1>1, <2>3 DEF E, Step
<1>9. C(F)
  <2> HIDE DEF C
  <2> QED
    BY <1>8
<1> HIDE DEF F
<1>10. \A k \in 0 .. c : F[k] = E(F, k)
  <2>1. F = [k \in 0 .. c |-> E(F, k)]
    BY <1>1, <1>9 DEF Step
  <2> HIDE DEF E
  <2> QED
    BY <2>1, Zenon
<1>11. F[0] = d /\ \A k \in 1 .. c : F[k] = Step(F[k - 1])
  <2>1. 0 \in 0 .. c /\ \A k \in 1 .. c : k \in 0 .. c /\ k # 0
    BY <1>1
  <2> QED
    BY <1>10, <2>1
<1>12. \A k \in 0 .. c : F[k] \in V
  <2> DEFINE I == {k \in 0 .. c : F[k] \in V}
  <2>1. 0 \in I
    BY <1>1, <1>6, <1>11
  <2>2. \A k \in 1 .. c : k - 1 \in I => k \in I
    BY <1>5, <1>11
  <2> HIDE DEF I, c
  <2>3. 0 .. c \subseteq I
    BY <1>1, <2>1, <2>2, UpTo
  <2> QED
    BY <2>3 DEF I
<1>13. prev[F[c]] = self
  <2> DEFINE U    == [k \in 0 .. c |-> {u \in S : D.dist[u] >= D.dist[F[k]]}]
             Done == {k \in 0 .. c : prev[F[k]] = self}
  <2>1. \A k \in 0 .. c : F[k] \in S /\ D.dist[F[k]] \in Nat
    BY <1>1, <1>12 DEF V
  <2>2. ASSUME NEW k \in 1 .. c, k \notin Done
        PROVE  k - 1 \notin Done /\ U[k - 1] \subseteq U[k] /\ U[k - 1] # U[k]
    <3>1. k \in 0 .. c /\ k - 1 \in 0 .. c /\ F[k - 1] \in V
      BY <1>1, <1>12
    <3>2. k - 1 \notin Done
      BY <1>5, <1>11, <2>2, <3>1
    <3>3. prev[F[k - 1]] # self
      BY <3>1, <3>2
    <3>4. F[k] = prev[F[k - 1]]
      BY <1>5, <1>11, <3>1, <3>3
    <3>5. D.dist[F[k]] < D.dist[F[k - 1]]
      BY <1>4, <3>1, <3>3, <3>4
    <3>6. U[k - 1] \subseteq U[k]
      <4>1. \A u \in S : D.dist[u] \in Nat
        BY <1>1
      <4>2. D.dist[F[k]] \in Nat /\ D.dist[F[k - 1]] \in Nat
        BY <2>1, <3>1
      <4>3. \A u \in S : D.dist[u] >= D.dist[F[k - 1]] => D.dist[u] >= D.dist[F[k]]
        BY <3>5, <4>1, <4>2
      <4> QED
        BY <3>1, <4>3
    <3>7. F[k] \in U[k] /\ F[k] \notin U[k - 1]
      BY <2>1, <3>1, <3>5
    <3> QED
      BY <3>2, <3>6, <3>7
  <2>3. U \in [0 .. c -> SUBSET S]
    OBVIOUS
  <2>4. 0 \in Done \/ U[0] # {}
    <3>1. 0 \in 0 .. c
      BY <1>1
    <3>2. F[0] \in U[0]
      BY <2>1, <3>1
    <3> QED
      BY <3>2
  <2>5. \A k \in 1 .. c : k \in Done \/ (k - 1 \notin Done /\ U[k - 1] \subseteq U[k] /\ U[k - 1] # U[k])
    BY <2>2
  <2>6. c = Cardinality(S)
    OBVIOUS
  <2> HIDE DEF U, Done, c
  <2>7. c \in Done
    BY <1>1, <2>3, <2>4, <2>5, <2>6, Growing
  <2> QED
    BY <2>7 DEF Done
<1> DEFINE T == {F[k] : k \in 0 .. c}
<1>14. \A v \in T : v # F[c] => prev[v] \in T
  <2> SUFFICES ASSUME NEW k \in 0 .. c, F[k] # F[c] PROVE prev[F[k]] \in T
    OBVIOUS
  <2>1. k + 1 \in 1 .. c /\ k + 1 \in 0 .. c /\ (k + 1) - 1 = k
    BY <1>1
  <2>2. F[k + 1] = Step(F[k])
    BY <1>11, <2>1
  <2>3. CASE prev[F[k]] # self
    <3>1. F[k + 1] = prev[F[k]]
      BY <1>5, <1>12, <2>2, <2>3
    <3> QED
      BY <2>1, <3>1
  <2>4. CASE prev[F[k]] = self
    <3> DEFINE I == {j \in 0 .. (c - k) : F[k + j] = F[k]}
    <3>1. 0 \in I
      BY <1>1
    <3>2. ASSUME NEW j \in 1 .. (c - k), j - 1 \in I PROVE j \in I
      <4>1. k + j \in 1 .. c /\ (k + j) - 1 = k + (j - 1)
        BY <1>1
      <4>2. F[k + j] = Step(F[k])
        BY <1>11, <3>2, <4>1
      <4>3. Step(F[k]) = F[k]
        BY <1>5, <1>12, <2>4
      <4> QED
        BY <4>2, <4>3
    <3>3. c - k \in Nat /\ k + (c - k) = c
      BY <1>1
    <3> HIDE DEF I, c
    <3>4. c - k \in I
      <4>1. 0 .. (c - k) \subseteq I
        BY <3>1, <3>2, <3>3, UpTo
      <4> QED
        BY <3>3, <4>1
    <3> QED
      BY <3>3, <3>4 DEF I
  <2> QED
    BY <2>3, <2>4
<1>15. d \in T /\ F[c] \in T
  BY <1>1, <1>11
<1>16. \A v \in T : v \in S \ {self} /\ D.dist[v] < Far
  BY <1>12 DEF V
<1> HIDE DEF T
<1>17. Path(g, self, D, F[c], T)
  BY <1>13, <1>14, <1>15, <1>16 DEF Path
<1>18. FirstHop(D.prev, self, d) = F[c]
  BY <1>1, <1>2
<1> QED
  BY <1>15, <1>17, <1>18

-----------------------------------------------------------------------------
(* No link that is up leads out of what a router reaches.                  *)
LEMMA ReachedClosed ==
  ASSUME NEW r \in Routers
  PROVE  /\ r \in Reached(r) /\ Reached(r) \subseteq Routers
         /\ \A x \in Reached(r) : LinksUp(x) \subseteq Reached(r)
<1> DEFINE N == Cardinality(Routers)
<1>1. N \in Nat /\ IsFiniteSet(Routers)
  BY FS_CardinalityType, IsisAssumption
<1>2. PICK w \in [0 .. N -> SUBSET Routers] :
        /\ w[0] = {r} /\ Reached(r) = w[N]
        /\ \A k \in 1 .. N : w[k] = Around(w[k - 1])
  BY ReachedIs
<1> DEFINE Done == {k \in 0 .. N : Around(w[k]) = w[k]}
           I    == {k \in 0 .. N : r \in w[k]}
<1>3. ASSUME NEW k \in 1 .. N, k \notin Done
      PROVE  k - 1 \notin Done /\ w[k - 1] \subseteq w[k] /\ w[k - 1] # w[k]
  <2>1. k \in 0 .. N /\ k - 1 \in 0 .. N /\ w[k] = Around(w[k - 1])
    BY <1>1, <1>2
  <2>2. w[k - 1] \subseteq w[k]
    BY <2>1 DEF Around
  <2>3. Around(w[k]) # w[k]
    BY <1>3, <2>1
  <2> QED
    BY <2>1, <2>2, <2>3
<1>4. N \in Done
  <2>1. 0 \in Done \/ w[0] # {}
    BY <1>2
  <2>2. \A k \in 1 .. N : k \in Done \/ (k - 1 \notin Done /\ w[k - 1] \subseteq w[k] /\ w[k - 1] # w[k])
    BY <1>3
  <2>3. N = Cardinality(Routers)
    OBVIOUS
  <2> HIDE DEF Done, N
  <2> QED
    BY <1>1, <1>2, <2>1, <2>2, <2>3, Growing
<1>5. r \in w[N]
  <2>1. 0 \in I
    BY <1>1, <1>2
  <2>2. \A k \in 1 .. N : k - 1 \in I => k \in I
    BY <1>2 DEF Around
  <2> HIDE DEF I, N
  <2>3. 0 .. N \subseteq I
    BY <1>1, <2>1, <2>2, UpTo
  <2> QED
    BY <1>1, <2>3 DEF I
<1>6. N \in 0 .. N
  BY <1>1
<1> QED
  BY <1>2, <1>4, <1>5, <1>6 DEF Around

LEMMA Cancel ==
  ASSUME NEW c \in Nat, NEW a \in Nat, NEW b \in Nat, c # 0, c * a <= c * b
  PROVE  a <= b
<1> SUFFICES ASSUME b < a PROVE FALSE
  OBVIOUS
<1>1. PICK e \in Nat : a = b + 1 + e
  <2>1. a - b - 1 \in Nat /\ a = b + 1 + (a - b - 1)
    OBVIOUS
  <2> QED
    BY <2>1
<1>2. c * a = c * b + c + c * e
  BY <1>1
<1>3. c * e \in Nat /\ c * b \in Nat
  OBVIOUS
<1> QED
  BY <1>2, <1>3

(* What rises along links by at most their metric is below Far wherever a  *)
(* router reaches.                                                         *)
LEMMA ReachedNear ==
  ASSUME NEW r \in Routers, NEW p, \A x \in Reached(r) : p[x] \in Nat, p[r] = 0,
         \A u \in Reached(r) : \A n \in LinksUp(u) : p[n] <= p[u] + Metric[u][n]
  PROVE  \A x \in Reached(r) : p[x] < Far
<1> DEFINE N == Cardinality(Routers)
           R == Reached(r)
<1>1. N \in Nat /\ IsFiniteSet(Routers) /\ N # 0 /\ Far \in Nat \ {0}
  BY FS_CardinalityType, FS_EmptySet, IsisAssumption
<1>2. PICK w \in [0 .. N -> SUBSET Routers] :
        /\ w[0] = {r} /\ Reached(r) = w[N]
        /\ \A k \in 1 .. N : w[k] = Around(w[k - 1])
  BY ReachedIs
<1>3. r \in R /\ \A x \in R : x \in Routers /\ LinksUp(x) \subseteq R
  BY ReachedClosed
<1>4. \A u \in R : \A n \in LinksUp(u) :
        Metric[u][n] \in Nat /\ N * Metric[u][n] \in Nat /\ N * Metric[u][n] <= Far - 1
  <2> SUFFICES ASSUME NEW u \in R, NEW n \in LinksUp(u)
               PROVE  Metric[u][n] \in Nat /\ N * Metric[u][n] \in Nat /\ N * Metric[u][n] <= Far - 1
    OBVIOUS
  <2>1. u \in Routers /\ n \in Nbr(u)
    BY <1>3 DEF LinksUp
  <2>2. Metric[u][n] \in Nat /\ N * Metric[u][n] < Far
    BY <2>1, IsisAssumption
  <2> HIDE DEF N
  <2>3. N * Metric[u][n] \in Nat
    BY <1>1, <2>2
  <2> QED
    BY <1>1, <2>2, <2>3
<1> DEFINE I == {k \in 0 .. N : \A x \in w[k] : x \in R /\ N * p[x] <= k * (Far - 1)}
<1> HIDE DEF N, R
<1>5. 0 \in I
  BY <1>1, <1>2, <1>3
<1>6. ASSUME NEW k \in 1 .. N, k - 1 \in I PROVE k \in I
  <2>1. \A x \in w[k - 1] : x \in R /\ N * p[x] <= (k - 1) * (Far - 1)
    BY <1>6
  <2>2. k \in Nat /\ k \in 0 .. N /\ k * (Far - 1) = (k - 1) * (Far - 1) + (Far - 1)
    BY <1>1
  <2>3. (k - 1) * (Far - 1) \in Int /\ Far - 1 \in Nat
    BY <1>1, <2>2
  <2>4. ASSUME NEW x \in w[k] PROVE x \in R /\ N * p[x] <= k * (Far - 1)
    <3>1. CASE x \in w[k - 1]
      <4>1. x \in R /\ N * p[x] <= (k - 1) * (Far - 1)
        BY <2>1, <3>1
      <4>2. N * p[x] \in Nat
        BY <1>1, <4>1 DEF R
      <4> QED
        BY <2>2, <2>3, <4>1, <4>2
    <3>2. CASE x \notin w[k - 1]
      <4>1. PICK u \in w[k - 1] : x \in LinksUp(u)
        BY <1>2, <3>2 DEF Around
      <4>2. u \in R /\ x \in R /\ p[x] <= p[u] + Metric[u][x]
        BY <1>3, <2>1, <4>1 DEF R
      <4>3. p[x] \in Nat /\ p[u] \in Nat /\ Metric[u][x] \in Nat
        BY <1>4, <4>1, <4>2 DEF R
      <4>4. PICK e \in Nat : p[u] + Metric[u][x] = p[x] + e
        <5>1. p[u] + Metric[u][x] - p[x] \in Nat /\ p[u] + Metric[u][x] = p[x] + (p[u] + Metric[u][x] - p[x])
          BY <4>2, <4>3
        <5> QED
          BY <5>1
      <4>5. N * p[u] + N * Metric[u][x] = N * p[x] + N * e /\ N * e \in Nat
        <5>1. N * (p[u] + Metric[u][x]) = N * (p[x] + e)
          BY <4>4
        <5>2. N * (p[u] + Metric[u][x]) = N * p[u] + N * Metric[u][x] /\ N * (p[x] + e) = N * p[x] + N * e
          BY <1>1, <4>3
        <5>3. N * e \in Nat
          BY <1>1
        <5> QED
          BY <5>1, <5>2, <5>3
      <4>6. /\ N * p[u] \in Nat /\ N * Metric[u][x] \in Nat /\ N * p[x] \in Nat
            /\ N * p[u] <= (k - 1) * (Far - 1) /\ N * Metric[u][x] <= Far - 1
        <5>1. N * p[u] \in Nat /\ N * p[x] \in Nat
          BY <1>1, <4>3
        <5>2. N * Metric[u][x] \in Nat /\ N * Metric[u][x] <= Far - 1
          BY <1>4, <4>1, <4>2, Zenon
        <5>3. N * p[u] <= (k - 1) * (Far - 1)
          BY <2>1, <4>1
        <5> QED
          BY <5>1, <5>2, <5>3
      <4>7. N * p[x] <= (k - 1) * (Far - 1) + (Far - 1)
        <5> DEFINE a == N * p[u]
                   b == N * Metric[u][x]
                   o == N * p[x]
                   i == N * e
                   j == (k - 1) * (Far - 1)
                   h == Far - 1
        <5>1. /\ a \in Nat /\ b \in Nat /\ o \in Nat /\ i \in Nat /\ j \in Int /\ h \in Nat
              /\ a + b = o + i /\ a <= j /\ b <= h
          BY <2>3, <4>5, <4>6
        <5> HIDE DEF a, b, o, i, j, h
        <5>2. o <= j + h
          BY <5>1
        <5> QED
          BY <5>2 DEF o, j, h
      <4> QED
        BY <2>2, <4>2, <4>7
    <3> QED
      BY <3>1, <3>2
  <2> QED
    BY <2>2, <2>4
<1>7. N \in I
  <2> HIDE DEF I
  <2>1. 0 .. N \subseteq I
    BY <1>1, <1>5, <1>6, UpTo
  <2> QED
    BY <1>1, <2>1
<1>8. ASSUME NEW x \in R PROVE p[x] < Far
  <2>1. p[x] \in Nat /\ N * p[x] <= N * (Far - 1)
    BY <1>2, <1>7 DEF R
  <2>2. Far - 1 \in Nat
    BY <1>1
  <2>3. p[x] <= Far - 1
    BY <1>1, <2>1, <2>2, Cancel
  <2> QED
    BY <1>1, <2>1, <2>3
<1> QED
  BY <1>8 DEF R

-----------------------------------------------------------------------------
LEMMA NetIsGraph == Graph(Net) /\ Net.systems = Routers /\ \A r \in Routers : Net.nbrs[r] = LinksUp(r)
BY IsisAssumption DEF Graph, Net, LinksUp

(* Where a router's graph is the network as far as the router reaches, the *)
(* first hop is a neighbour and on a shortest path of the network.         *)
LEMMA PathsLead ==
  ASSUME NEW r \in Routers, NEW g, Graph(g), Reached(r) \subseteq g.systems, g.systems \subseteq Routers,
         \A x \in Reached(r) : g.nbrs[x] = LinksUp(x),
         NEW d \in Reached(r) \ {r}, NEW h, h = FirstHop(Dijkstra(g, r).prev, r, d)
  PROVE  /\ h \in LinksUp(r)
         /\ Metric[r][h] + Distance(Net, h)[d] = Distance(Net, r)[d]
<1> DEFINE R == Reached(r)
           D == Dijkstra(g, r)
           S == g.systems
           M == Metric[r][h]
<1>1. /\ r \in R /\ d \in R \ {r} /\ R \subseteq S /\ S \subseteq Routers
      /\ \A x \in R : LinksUp(x) \subseteq R /\ g.nbrs[x] = LinksUp(x)
      /\ Far \in Nat /\ r \in S /\ NoSystem \notin S
  BY ReachedClosed, IsisAssumption DEF NoSystem
<1>2. SpfOK(g, r, D) /\ D.queue = {}
  BY <1>1, DijkstraIs
<1> HIDE DEF R, D
<1>3. /\ D.dist \in [S -> Nat] /\ D.prev \in [S -> S \cup {NoSystem}]
      /\ D.dist[r] = 0 /\ D.prev[r] = NoSystem
  BY <1>2 DEF SpfOK, SpfStates, Tree
<1>4. \A v \in S :
        /\ v # r /\ D.prev[v] = NoSystem => D.dist[v] = Far
        /\ D.prev[v] # NoSystem => v \in g.nbrs[D.prev[v]] /\ D.dist[v] = D.dist[D.prev[v]] + Metric[D.prev[v]][v]
  BY <1>2 DEF SpfOK, Tree
<1>5. \A u \in R : \A n \in LinksUp(u) : /\ n \in R /\ D.dist[n] <= D.dist[u] + Metric[u][n]
                                         /\ Metric[u][n] \in Nat \ {0}
  <2> SUFFICES ASSUME NEW u \in R, NEW n \in LinksUp(u)
               PROVE  n \in R /\ D.dist[n] <= D.dist[u] + Metric[u][n] /\ Metric[u][n] \in Nat \ {0}
    OBVIOUS
  <2>1. n \in R /\ n \in g.nbrs[u] \cap S /\ u \in S
    BY <1>1
  <2> QED
    BY <1>2, <2>1 DEF SpfOK, Short, Graph
<1>6. \A v \in R : D.dist[v] \in Nat /\ D.dist[v] < Far
  <2>1. \A v \in R : D.dist[v] \in Nat
    BY <1>1, <1>3
  <2> QED
    BY <1>3, <1>5, <2>1, ReachedNear DEF R
(* A system that is nearer than Far hangs on another, and is reached.      *)
<1>7. ASSUME NEW v \in S \ {r}, D.dist[v] < Far
      PROVE  /\ D.prev[v] \in S /\ v \in g.nbrs[D.prev[v]] /\ Metric[D.prev[v]][v] \in Nat \ {0}
             /\ D.dist[v] = D.dist[D.prev[v]] + Metric[D.prev[v]][v]
             /\ D.dist[D.prev[v]] < D.dist[v] /\ D.dist[D.prev[v]] < Far
  <2>1. D.prev[v] # NoSystem /\ D.prev[v] \in S
    BY <1>1, <1>3, <1>4, <1>7
  <2>2. v \in g.nbrs[D.prev[v]] /\ D.dist[v] = D.dist[D.prev[v]] + Metric[D.prev[v]][v]
    BY <1>4, <2>1
  <2>3. Metric[D.prev[v]][v] \in Nat \ {0} /\ D.dist[v] \in Nat /\ D.dist[D.prev[v]] \in Nat
    BY <1>3, <2>1, <2>2 DEF Graph
  <2> QED
    BY <1>1, <1>7, <2>1, <2>2, <2>3
<1>8. ASSUME NEW v \in S, D.dist[v] < Far PROVE v \in R
  <2> DEFINE X == {x \in S \ R : D.dist[x] < Far}
             p == D.dist
  <2>1. SUFFICES ASSUME X # {} PROVE FALSE
    BY <1>8
  <2>2. \A x \in X : p[x] \in Nat
    BY <1>3
  <2>3. PICK x \in X : \A y \in X : p[x] <= p[y]
    <3> HIDE DEF X, p
    <3> QED
      BY <2>1, <2>2, LeastOf
  <2>4. x \in S \ {r} /\ D.dist[x] < Far /\ D.dist[x] \in Nat
    BY <1>1, <2>2
  <2>5. D.prev[x] \in S /\ x \in g.nbrs[D.prev[x]] /\ D.dist[D.prev[x]] < D.dist[x] /\ D.dist[D.prev[x]] < Far
    BY <1>7, <2>4
  <2>6. D.prev[x] \in R
    BY <1>3, <2>3, <2>4, <2>5
  <2> QED
    BY <1>1, <2>5, <2>6
<1>9. PICK T : d \in T /\ Path(g, r, D, h, T)
  BY <1>1, <1>2, <1>6, FirstHopIs DEF D
<1>10. /\ T \subseteq R \ {r} /\ h \in T /\ D.prev[h] = r
       /\ \A v \in T : v # h => D.prev[v] \in T
  BY <1>8, <1>9 DEF Path
<1>11. h \in LinksUp(r) /\ D.dist[h] = M /\ M \in Nat \ {0}
  <2>1. h \in S \ {r} /\ D.dist[h] < Far
    BY <1>1, <1>6, <1>10
  <2>2. h \in g.nbrs[r] /\ D.dist[h] = D.dist[r] + M /\ M \in Nat \ {0}
    BY <1>7, <1>10, <2>1
  <2> QED
    BY <1>1, <1>3, <2>2
<1>12. \A v \in R \ {r} : /\ D.prev[v] \in R /\ v \in LinksUp(D.prev[v])
                          /\ D.dist[v] = D.dist[D.prev[v]] + Metric[D.prev[v]][v]
                          /\ D.dist[D.prev[v]] < D.dist[v] /\ D.dist[D.prev[v]] < Far
  <2> SUFFICES ASSUME NEW v \in R \ {r}
               PROVE  /\ D.prev[v] \in R /\ v \in LinksUp(D.prev[v])
                      /\ D.dist[v] = D.dist[D.prev[v]] + Metric[D.prev[v]][v]
                      /\ D.dist[D.prev[v]] < D.dist[v] /\ D.dist[D.prev[v]] < Far
    OBVIOUS
  <2>1. v \in S \ {r} /\ D.dist[v] < Far
    BY <1>1, <1>6
  <2>2. /\ D.prev[v] \in S /\ v \in g.nbrs[D.prev[v]]
        /\ D.dist[v] = D.dist[D.prev[v]] + Metric[D.prev[v]][v]
        /\ D.dist[D.prev[v]] < D.dist[v] /\ D.dist[D.prev[v]] < Far
    BY <1>7, <2>1
  <2>3. D.prev[v] \in R
    BY <1>8, <2>2
  <2> QED
    BY <1>1, <2>2, <2>3
<1>13. Graph(Net) /\ Net.systems = Routers /\ \A x \in Routers : Net.nbrs[x] = LinksUp(x)
  BY NetIsGraph
<1>14. d \in Routers /\ h \in Routers /\ h \in R
  BY <1>1, <1>10
<1>15. Distance(Net, r)[d] \in Nat /\ D.dist[d] <= Distance(Net, r)[d]
  <2> DEFINE p == [v \in Routers |-> IF v \in R THEN D.dist[v] ELSE Far]
  <2>1. p \in [Net.systems -> Nat] /\ p[r] = 0 /\ (\A v \in Net.systems : p[v] <= Far) /\ p[d] = D.dist[d]
    BY <1>1, <1>3, <1>6, <1>13
  <2>2. ASSUME NEW u \in Net.systems, NEW v \in Net.systems, v \in Net.nbrs[u]
        PROVE  p[v] <= p[u] + Metric[u][v]
    <3>1. v \in LinksUp(u) /\ u \in Routers /\ v \in Routers /\ Metric[u][v] \in Nat /\ Far \in Nat
      BY <1>1, <1>13, <2>2 DEF Graph
    <3>2. CASE u \in R
      <4>1. v \in R /\ D.dist[v] <= D.dist[u] + Metric[u][v]
        BY <1>5, <3>1, <3>2
      <4> QED
        BY <3>1, <3>2, <4>1
    <3>3. CASE u \notin R
      <4>1. p[u] = Far /\ p[v] <= Far /\ p[v] \in Nat
        BY <2>1, <3>1, <3>3, <1>13
      <4> QED
        BY <3>1, <4>1
    <3> QED
      BY <3>2, <3>3
  <2> HIDE DEF p
  <2> QED
    BY <1>1, <1>13, <1>14, <2>1, <2>2, DistanceNoLess
<1>16. Distance(Net, r)[d] <= D.dist[d]
  <2> DEFINE p == D.dist
  <2>1. R \in SUBSET Net.systems /\ r \in R /\ d \in R /\ (\A v \in R : p[v] \in Nat) /\ p[r] = 0
    BY <1>1, <1>3, <1>6, <1>13
  <2>2. \A v \in R \ {r} : \E u \in R : v \in Net.nbrs[u] /\ p[v] = p[u] + Metric[u][v] /\ p[u] < Far
    BY <1>1, <1>12, <1>13
  <2> HIDE DEF p
  <2>3. Distance(Net, r)[d] <= p[d]
    BY <1>1, <1>13, <2>1, <2>2, DistanceNoMore
  <2> QED
    BY <2>3 DEF p
<1>17. \A v \in T : D.dist[h] <= D.dist[v]
  <2> DEFINE p == D.dist
  <2>1. T # {} /\ \A v \in T : p[v] \in Nat
    BY <1>6, <1>10
  <2>2. PICK x \in T : \A y \in T : p[x] <= p[y]
    <3> HIDE DEF p
    <3> QED
      BY <2>1, LeastOf
  <2>3. x = h
    <3> SUFFICES ASSUME x # h PROVE FALSE
      OBVIOUS
    <3>1. D.prev[x] \in T /\ D.dist[D.prev[x]] < D.dist[x]
      BY <1>10, <1>12
    <3> QED
      BY <2>1, <2>2, <3>1
  <2> QED
    BY <2>2, <2>3
<1>18. Distance(Net, h)[d] <= D.dist[d] - M
  <2> DEFINE p == [v \in T |-> D.dist[v] - M]
  <2>1. T \in SUBSET Net.systems /\ h \in T /\ d \in T
    BY <1>1, <1>9, <1>10, <1>13
  <2>2. \A v \in T : p[v] = D.dist[v] - M /\ p[v] \in Nat
    <3>1. \A v \in T : D.dist[v] \in Nat /\ M <= D.dist[v]
      BY <1>6, <1>10, <1>11, <1>17
    <3> QED
      BY <1>11, <3>1
  <2>3. p[h] = 0
    BY <1>10, <1>11, <2>2
  <2>4. ASSUME NEW v \in T \ {h} PROVE \E u \in T : v \in Net.nbrs[u] /\ p[v] = p[u] + Metric[u][v] /\ p[u] < Far
    <3> DEFINE u == D.prev[v]
    <3>1. v \in R \ {r} /\ u \in T /\ u \in R
      BY <1>10
    <3>2. v \in LinksUp(u) /\ D.dist[v] = D.dist[u] + Metric[u][v] /\ D.dist[u] < Far
      BY <1>12, <3>1
    <3>3. u \in Routers /\ D.dist[u] \in Nat /\ Metric[u][v] \in Nat
      BY <1>1, <1>5, <1>6, <3>1, <3>2
    <3>4. v \in Net.nbrs[u]
      BY <1>13, <3>2, <3>3
    <3> HIDE DEF u, p
    <3>5. p[v] = p[u] + Metric[u][v] /\ p[u] < Far
      BY <1>1, <1>11, <2>2, <3>1, <3>2, <3>3
    <3> QED
      BY <3>1, <3>4, <3>5
  <2> HIDE DEF p
  <2>5. \A v \in T : Distance(Net, h)[v] <= p[v]
    BY <1>1, <1>13, <2>1, <2>2, <2>3, <2>4, DistanceNoMore
  <2> QED
    BY <2>1, <2>2, <2>5
<1>19. Distance(Net, h)[d] \in Nat /\ D.dist[d] - M <= Distance(Net, h)[d]
  <2> DEFINE rest(v) == IF D.dist[v] <= M THEN 0 ELSE D.dist[v] - M
             q == [v \in Routers |-> IF v \in R THEN rest(v) ELSE Far]
  <2>1. \A v \in R : /\ rest(v) \in Nat /\ rest(v) <= D.dist[v] /\ rest(v) < Far
                    /\ D.dist[v] - M <= rest(v)
    BY <1>1, <1>6, <1>11
  <2>2. rest(h) = 0
    BY <1>11
  <2> HIDE DEF rest
  <2>3. q \in [Net.systems -> Nat] /\ q[h] = 0 /\ (\A v \in Net.systems : q[v] <= Far) /\ q[d] = rest(d)
    BY <1>1, <1>13, <1>14, <2>1, <2>2
  <2>4. ASSUME NEW u \in Net.systems, NEW v \in Net.systems, v \in Net.nbrs[u]
        PROVE  q[v] <= q[u] + Metric[u][v]
    <3>1. v \in LinksUp(u) /\ u \in Routers /\ v \in Routers /\ Metric[u][v] \in Nat /\ Far \in Nat
      BY <1>1, <1>13, <2>4 DEF Graph
    <3>2. CASE u \in R
      <4>1. v \in R /\ D.dist[v] <= D.dist[u] + Metric[u][v]
        BY <1>5, <3>1, <3>2
      <4>2. q[v] = rest(v) /\ q[u] = rest(u)
        BY <3>1, <3>2, <4>1
      <4>3. D.dist[v] \in Nat /\ D.dist[u] \in Nat /\ M \in Nat
        BY <1>6, <1>11, <3>2, <4>1
      <4> QED
        BY <3>1, <4>1, <4>2, <4>3 DEF rest
    <3>3. CASE u \notin R
      <4>1. q[u] = Far /\ q[v] <= Far /\ q[v] \in Nat
        BY <2>3, <3>1, <3>3, <1>13
      <4> QED
        BY <3>1, <4>1
    <3> QED
      BY <3>2, <3>3
  <2> HIDE DEF q
  <2>5. Distance(Net, h)[d] \in Nat /\ q[d] <= Distance(Net, h)[d]
    BY <1>1, <1>13, <1>14, <2>3, <2>4, DistanceNoLess
  <2>6. rest(d) \in Nat /\ D.dist[d] - M <= rest(d) /\ D.dist[d] \in Nat
    BY <1>1, <1>6, <2>1
  <2> QED
    BY <1>11, <2>3, <2>5, <2>6
<1>20. D.dist[d] \in Nat
  BY <1>1, <1>6
<1> QED
  BY <1>11, <1>15, <1>16, <1>18, <1>19, <1>20

(* When the exchange is over, an own LSP lists the ends of the links that  *)
(* are up.                                                                 *)
LEMMA QuietLinks ==
  ASSUME TypeInv, EndInv, Quiet, NEW x \in Routers
  PROVE  /\ db[x][x].nbrs = LinksUp(x)
         /\ \A n \in LinksUp(x) : n \in Routers /\ x \in LinksUp(n) /\ adj[x][n] = "UP" /\ db[x][x].seq >= 1
<1>1. ASSUME NEW n \in LinksUp(x)
      PROVE  n \in Routers /\ x \in LinksUp(n) /\ adj[x][n] = "UP" /\ db[x][x].seq >= 1 /\ n \in db[x][x].nbrs
  <2>1. n \in Nbr(x) /\ n \in Routers /\ x \in Nbr(n) /\ IsUp(n, x)
    BY NbrSym, UpSym DEF LinksUp
  <2>2. adj[x][n] = "UP"
    BY DEF Quiet, Rising
  <2>3. EndOK(x, n)
    BY <2>1 DEF EndInv
  <2> QED
    BY <2>1, <2>2, <2>3 DEF EndOK, LinksUp
<1>2. ASSUME NEW n \in db[x][x].nbrs PROVE n \in LinksUp(x)
  <2>1. n \in Nbr(x)
    BY DEF TypeInv, LspsType, LspOf
  <2>2. EndOK(x, n) /\ refresh = {}
    BY <2>1 DEF EndInv, Quiet
  <2> QED
    BY <2>1, <2>2 DEF EndOK, LinksUp
<1> QED
  BY <1>1, <1>2

LEMMA Lead == TypeInv /\ EndInv => RoutesLead
<1> SUFFICES ASSUME TypeInv, EndInv, Quiet, \A r \in Routers : Current(r) /\ Computed(r),
                    NEW r \in Routers, NEW d \in Reached(r) \ {r}
             PROVE  /\ d \in DOMAIN routes[r]
                    /\ routes[r][d] \in LinksUp(r)
                    /\ Metric[r][routes[r][d]] + Distance(Net, routes[r][d])[d] = Distance(Net, r)[d]
  BY DEF RoutesLead
<1> DEFINE R == Reached(r)
           g == GraphOf(r)
           A == {x \in Routers : LinksUp(x) # {}}
           h == FirstHop(Dijkstra(g, r).prev, r, d)
           listed == {o \in Known(r) \ {r} : db[r][o].seq > 0}
<1>1. r \in R /\ R \subseteq Routers
  BY ReachedClosed
<1>2. r \in A
  <2>1. LinksUp(r) = {} => Reached(r) \subseteq {r}
    BY ReachedStays
  <2> QED
    BY <2>1
<1>3. R \subseteq A
  <2>1. ASSUME NEW x \in Routers \cap A, NEW n \in LinksUp(x) PROVE n \in A
    BY QuietLinks
  <2> QED
    BY <1>2, <2>1, ReachedStays
<1>4. ASSUME NEW x \in R
      PROVE  x \in Known(r) /\ db[r][x].seq >= 1 /\ g.nbrs[x] = LinksUp(x)
  <2>1. x \in Routers /\ db[x][x].seq >= 1 /\ db[x][x].nbrs = LinksUp(x)
    BY <1>1, <1>3, QuietLinks
  <2>2. db[r][x] = db[x][x]
    BY DEF Current
  <2>3. x \in Known(r)
    BY <2>1, <2>2, SeqsAreInt DEF Known
  <2> QED
    BY <2>1, <2>2, <2>3 DEF GraphOf
<1>5. Graph(g) /\ g.systems = Known(r) /\ g.systems \subseteq Routers
  <2>1. g.systems = Known(r) /\ Known(r) \in SUBSET Routers
    BY DEF GraphOf, Known
  <2>2. IsFiniteSet(g.systems) /\ g.systems \subseteq Nat \ {0}
    BY <2>1, FS_Subset, IsisAssumption
  <2>3. ASSUME NEW s \in g.systems, NEW m \in g.nbrs[s] PROVE Metric[s][m] \in Nat \ {0}
    <3>1. s \in Routers /\ g.nbrs[s] = db[r][s].nbrs
      BY <2>1 DEF GraphOf
    <3>2. m \in Nbr(s)
      BY <3>1 DEF TypeInv, LspsType, LspOf
    <3> QED
      BY <3>1, <3>2, IsisAssumption
  <2> QED
    BY <2>1, <2>2, <2>3 DEF Graph
<1> HIDE DEF R, g, A, h, listed
<1>6. h \in LinksUp(r) /\ Metric[r][h] + Distance(Net, h)[d] = Distance(Net, r)[d]
  BY <1>1, <1>4, <1>5, PathsLead DEF R, h
<1>7. d \in listed
  <2>1. d \in R /\ d # r
    BY DEF R
  <2>2. d \in Known(r) /\ db[r][d].seq >= 1
    BY <1>4, <2>1
  <2> QED
    BY <2>1, <2>2, <1>1, SeqsAreInt DEF listed
<1>8. h \in Heard(adj[r])
  <2>1. h \in Nbr(r) /\ adj[r][h] = "UP"
    BY <1>6, QuietLinks DEF LinksUp
  <2> QED
    BY <2>1 DEF Heard, TypeInv, AdjType
<1>9. routes[r] = NextHops(g, r, Heard(adj[r]), listed)
  BY DEF Computed, g, listed
<1>10. d \in DOMAIN routes[r] /\ routes[r][d] = h
  BY <1>7, <1>8, <1>9 DEF NextHops, h
<1> QED
  BY <1>6, <1>10

(* Once the copies are right and the paths are computed from them, every   *)
(* router's first hop to each system it reaches is over a link that is up, *)
(* on a shortest path of the network (isis/process.py:552-707), whatever   *)
(* failed before and at any pace of the timers.                            *)
THEOREM RoutesAlwaysLead == Spec => []RoutesLead
<1>1. Init => TypeInv /\ NumInv /\ EndInv
  BY TypeInit, NumInit, EndInit
<1>2. TypeInv /\ NumInv /\ EndInv /\ [Next]_vars => (TypeInv /\ NumInv /\ EndInv)'
  BY TypeNext, NumNext, EndNext
<1>3. TypeInv /\ NumInv /\ EndInv => RoutesLead
  BY Lead
<1> QED
  BY <1>1, <1>2, <1>3, PTL DEF Spec
-----------------------------------------------------------------------------
(* Isis.tla knows a router by its name, the code by the system id of its    *)
(* ISO address: the ids of different routers differ.                       *)
LEMMA Digits3Injective ==
  ASSUME NEW b \in Byte, NEW c \in Byte, Digits3(b) = Digits3(c)
  PROVE  b = c
<1>1. \A n \in Byte : n = (100 * (n \div 100)) + (10 * ((n \div 10) % 10)) + (n % 10)
  BY DEF Byte
<1>2. /\ b \div 100 = c \div 100
      /\ (b \div 10) % 10 = (c \div 10) % 10
      /\ b % 10 = c % 10
  BY DEF Digits3
<1>3. /\ b = (100 * (b \div 100)) + (10 * ((b \div 10) % 10)) + (b % 10)
      /\ c = (100 * (c \div 100)) + (10 * ((c \div 10) % 10)) + (c % 10)
  BY <1>1
<1> QED
  BY <1>2, <1>3, Zenon

(* The three digits of byte i stand at 3i-2, 3i-1 and 3i.                  *)
LEMMA SegmentsInjective ==
  ASSUME NEW ip \in IPv4, NEW jp \in IPv4, Segments(ip) = Segments(jp)
  PROVE  ip = jp
<1>1. ASSUME NEW i \in 1 .. 4 PROVE ip[i] = jp[i]
  <2>1. ASSUME NEW d \in 1 .. 3 PROVE Digits3(ip[i])[d] = Digits3(jp[i])[d]
    <3> DEFINE k == 3 * (i - 1) + d
    <3>1. k \in 1 .. 12 /\ 1 + ((k - 1) \div 3) = i /\ 1 + ((k - 1) % 3) = d
      OBVIOUS
    <3>2. Segments(ip)[k] = Digits3(ip[i])[d] /\ Segments(jp)[k] = Digits3(jp[i])[d]
      <4> HIDE DEF k
      <4> QED
        BY <3>1, Zenon DEF Segments
    <3> QED
      BY <3>2
  <2>2. Digits3(ip[i]) = Digits3(jp[i])
    BY <2>1 DEF Digits3
  <2>3. ip[i] \in Byte /\ jp[i] \in Byte
    BY DEF IPv4
  <2> QED
    BY <2>2, <2>3, Digits3Injective
<1> QED
  BY <1>1 DEF IPv4

LEMMA GroupedInjective ==
  ASSUME NEW ip, NEW jp, Grouped(Segments(ip)) = Grouped(Segments(jp))
  PROVE  Segments(ip) = Segments(jp)
<1>1. ASSUME NEW k \in 1 .. 12 PROVE Segments(ip)[k] = Segments(jp)[k]
  <2> DEFINE g == 1 + ((k - 1) \div 4)
             j == 1 + ((k - 1) % 4)
  <2>1. g \in 1 .. 3 /\ j \in 1 .. 4 /\ 4 * (g - 1) + j = k
    OBVIOUS
  <2> HIDE DEF g, j
  <2>2. Grouped(Segments(ip))[g][j] = Segments(ip)[k] /\ Grouped(Segments(jp))[g][j] = Segments(jp)[k]
    BY <2>1, Zenon DEF Grouped
  <2> QED
    BY <2>2
<1> QED
  BY <1>1 DEF Segments

(* Two routers with different loopback addresses have different system     *)
(* ids, and both find the area they were given, as long as the area id has *)
(* two parts like the default 49.0001 (topology.py:290, process.py:513).   *)
THEOREM SystemIdsDiffer ==
  ASSUME NEW Part, NEW area \in Seq(Part), Len(area) = 2, NEW ip \in IPv4, NEW jp \in IPv4
  PROVE  /\ AreaId(BuildIsoAddress(area, ip)) = area
         /\ SystemId(BuildIsoAddress(area, ip)) = SystemId(BuildIsoAddress(area, jp))
              => ip = jp
<1>1. ASSUME NEW p \in IPv4
      PROVE  /\ AreaId(BuildIsoAddress(area, p)) = area
             /\ SystemId(BuildIsoAddress(area, p)) =
                  <<Grouped(Segments(p))[1], Grouped(Segments(p))[2], Grouped(Segments(p))[3]>>
  <2> DEFINE G == Grouped(Segments(p))
             T == <<"0001", "00">>
             S == Part \cup {G[1], G[2], G[3]} \cup {"0001", "00"}
  <2>1. area \in Seq(S) /\ T \in Seq(S)
    OBVIOUS
  <2>7. G \in [1 .. 3 -> S]
    BY DEF Grouped
  <2> HIDE DEF G, S, T
  <2>2. G \in Seq(S) /\ Len(G) = 3
    <3>1. G \in Seq(S)
      BY <2>7, SeqDef, Zenon, 3 \in Nat
    <3>2. DOMAIN G = 1 .. 3 /\ DOMAIN G = 1 .. Len(G) /\ Len(G) \in Nat
      BY <2>7, <3>1, LenProperties
    <3> QED
      BY <3>1, <3>2
  <2>3. /\ Len(area \o G) = 5 /\ area \o G \in Seq(S)
        /\ (area \o G)[1] = area[1] /\ (area \o G)[2] = area[2]
        /\ (area \o G)[3] = G[1] /\ (area \o G)[4] = G[2] /\ (area \o G)[5] = G[3]
    <3> DEFINE C == area \o G
    <3>1. /\ C \in Seq(S) /\ Len(C) = 5
          /\ \A i \in 1 .. 5 : C[i] = IF i <= 2 THEN area[i] ELSE G[i - 2]
      <4>1. /\ C \in Seq(S) /\ Len(C) = Len(area) + Len(G)
            /\ \A i \in 1 .. Len(area) + Len(G) :
                 C[i] = IF i <= Len(area) THEN area[i] ELSE G[i - Len(area)]
        BY <2>1, <2>2, ConcatProperties, Zenon
      <4> HIDE DEF C
      <4>2. Len(area) + Len(G) = 5
        BY <2>2
      <4> QED
        BY <4>1, <4>2, Zenon
    <3> HIDE DEF C
    <3>2. C[1] = area[1] /\ C[2] = area[2] /\ C[3] = G[1] /\ C[4] = G[2] /\ C[5] = G[3]
      BY <3>1
    <3> QED
      BY <3>1, <3>2 DEF C
  <2>4. \A i \in 1 .. 5 : ((area \o G) \o T)[i] = (area \o G)[i]
    BY <2>1, <2>3, ConcatProperties
  <2>5. BuildIsoAddress(area, p) = (area \o G) \o T
    BY DEF BuildIsoAddress, G, T
  <2>6. area = <<area[1], area[2]>>
    OBVIOUS
  <2> QED
    BY <2>3, <2>4, <2>5, <2>6 DEF AreaId, SystemId, G
<1>2. SystemId(BuildIsoAddress(area, ip)) = SystemId(BuildIsoAddress(area, jp))
        => Grouped(Segments(ip)) = Grouped(Segments(jp))
  <2> SUFFICES ASSUME SystemId(BuildIsoAddress(area, ip)) = SystemId(BuildIsoAddress(area, jp))
               PROVE  \A g \in 1 .. 3 : Grouped(Segments(ip))[g] = Grouped(Segments(jp))[g]
    BY DEF Grouped
  <2> QED
    BY <1>1
<1> QED
  BY <1>1, <1>2, GroupedInjective, SegmentsInjective
==============================================================================
