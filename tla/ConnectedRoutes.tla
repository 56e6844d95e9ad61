--------------------------- MODULE ConnectedRoutes ---------------------------
(***************************************************************************)
(* The interfaces of hosts and routers and the routes that follow them     *)
(* (interface.py; netdevice.py:65-103; the RouteTableUpdater of server.py  *)
(* and of router.py).  A link that comes up or goes down tells each of its *)
(* two ends by an event of its own, half a latency later; the end tells    *)
(* its logical interface; the interface raises LINK_STATE, on which the    *)
(* device adds or deletes the route to the network and the route to the    *)
(* address of the interface.  Setting an address raises INTERFACE_STATE,   *)
(* on which a host does the same.                                          *)
(*                                                                         *)
(* A physical interface carries at most one logical interface, as in all   *)
(* samples.                                                                *)
(***************************************************************************)
EXTENDS Naturals, Sequences, FiniteSets, RouteTables

FX == INSTANCE FiniteSetsExt

CONSTANTS Hosts, Routers,   \* the devices
          Interfaces,       \* their interfaces
          Owner,            \* Owner[i]: the device of interface i
          Links,            \* Links[l]: the two interfaces link l connects
          Addresses,        \* the interface addresses
          Network,          \* Network[a]: the prefix of the network of a
          HostPrefix,       \* HostPrefix[a]: the /32 prefix of a
          Prefixes,
          None,             \* no address
          MaxCommands,      \* MaxCommands[l]: bound on the times link l is moved
          MaxAddresses      \* bound on the times an address is set

Devices == Hosts \cup Routers

ASSUME DevicesAssumption ==
  /\ Hosts \cap Routers = {}
  /\ Owner \in [Interfaces -> Devices]
  /\ \A l \in DOMAIN Links : Links[l] \subseteq Interfaces
  /\ \A l, m \in DOMAIN Links : l # m => Links[l] \cap Links[m] = {}
  /\ MaxCommands \in [DOMAIN Links -> Nat] /\ MaxAddresses \in Nat

ASSUME AddressesAssumption ==
  /\ None \notin Addresses
  /\ Network \in [Addresses -> Prefixes]
  /\ HostPrefix \in [Addresses -> Prefixes]
  /\ \A a, b \in Addresses : HostPrefix[a] = HostPrefix[b] => a = b
  /\ \A a, b \in Addresses : HostPrefix[a] # Network[b]

VARIABLES
  careful,    \* the operator moves a link only when its ends have heard of
              \*   the last move, and sets the addresses of a device once,
              \*   before it has a link
  linkUp,     \* linkUp[l]: the state of link l
  commands,   \* commands[l]: how many times link l was moved
  agenda,     \* agenda[l]: the notices under way, grouped by instant
  phyUp,      \* phyUp[i]: the state of the physical interface
  logical,    \* logical[i]: whether there is a logical interface, and
              \*   whether the device knows it ("bare": only its parent does)
  logUp,      \* logUp[i]: the state of the logical interface
  addr,       \* addr[i]: its address
  settings,   \* how many addresses were set
  direct,     \* direct[d]: the table "direct" of device d
  raised      \* the exceptions raised, by device

vars == <<careful, linkUp, commands, agenda, phyUp, logical, logUp, addr, settings,
          direct, raised>>

(* The notices of one instant run in a random order; fresh is true until   *)
(* the first of them has run.                                              *)
Notice == [end : Interfaces, up : BOOLEAN, number : 0..FX!Max({MaxCommands[l] : l \in DOMAIN Links})]

(* PhysicalInterface.is_up: an interface starts UP and waits for its cable. *)
Connected(i) == \E l \in DOMAIN Links : i \in Links[l] /\ commands[l] > 0
PhyIsUp(i)   == phyUp[i] /\ Connected(i)

-----------------------------------------------------------------------------
Connection(i, a) == [prefix |-> Network[a], type |-> "CONNECTED", interface |-> i, metric |-> 1]
Local(i, a)      == [prefix |-> HostPrefix[a], type |-> "LOCAL", interface |-> i, metric |-> 1]

(* add_connected_route, and its counterpart when the interface is down:    *)
(* the second deletion is not reached when the first one raises.           *)
(* Fault: the local route is forgotten.                                    *)
WithoutConnection(t, i, a) == Deleted(t, Connection(i, a))

WithRoutes(t, i, a) == Added(Added(t, Connection(i, a)), Local(i, a))
WithoutRoutes(t, i, a) ==
  IF DeleteRaises(t, Connection(i, a)) THEN t
  ELSE Deleted(Deleted(t, Connection(i, a)), Local(i, a))
RaisedByRemoval(i, t, a) ==
  IF \/ DeleteRaises(t, Connection(i, a))
     \/ DeleteRaises(Deleted(t, Connection(i, a)), Local(i, a))
  THEN {<<Owner[i], "ValueError">>} ELSE {}

(***************************************************************************)
(* PhysicalLink.up and down (connect is the first up).  Two moves of one   *)
(* instant leave their four notices in one instant.                        *)
(* Fault: only the end that was plugged first is told.                     *)
(***************************************************************************)
OneEndTold(l, s) ==
  {[end |-> i, up |-> s, number |-> commands[l]] : i \in {CHOOSE j \in Links[l] : TRUE}}

Notices(l, s) == {[end |-> i, up |-> s, number |-> commands[l]] : i \in Links[l]}

Later(l, s)   == Append(agenda[l], [fresh |-> TRUE, notices |-> Notices(l, s)])
AtOnce(l, s)  ==
  [agenda[l] EXCEPT ![Len(agenda[l])].notices = @ \cup Notices(l, s)]

LinkMove(l, s) ==
  /\ commands[l] < MaxCommands[l]
  /\ linkUp[l] # s
  /\ linkUp' = [linkUp EXCEPT ![l] = s]
  /\ commands' = [commands EXCEPT ![l] = @ + 1]
  /\ \/ agenda' = [agenda EXCEPT ![l] = Later(l, s)]
     \/ /\ agenda[l] # << >> /\ agenda[l][Len(agenda[l])].fresh
        /\ agenda' = [agenda EXCEPT ![l] = AtOnce(l, s)]
  /\ careful => agenda[l] = << >>
  /\ UNCHANGED <<careful, phyUp, logical, logUp, addr, settings, direct, raised>>

-----------------------------------------------------------------------------
(* A notice has run; an instant without notices is over.                   *)
Heard(l, n) ==
  LET rest == Head(agenda[l]).notices \ {n}
  IN  IF rest = {} THEN Tail(agenda[l])
      ELSE <<[fresh |-> FALSE, notices |-> rest]>> \o Tail(agenda[l])

(* LINK_STATE of a logical interface that is up: a host looks whether it   *)
(* has an address, a router takes that for granted.                        *)
LogicalUp(i) ==
  IF addr[i] # None
  THEN /\ direct' = [direct EXCEPT ![Owner[i]] = WithRoutes(@, i, addr[i])]
       /\ UNCHANGED raised
  ELSE /\ raised' = IF Owner[i] \in Routers
                    THEN raised \cup {<<Owner[i], "KeyError">>} ELSE raised
       /\ UNCHANGED direct

(* LINK_STATE of one that is down: without an address, KeyError.           *)
LogicalDown(i) ==
  IF addr[i] = None
  THEN /\ raised' = raised \cup {<<Owner[i], "KeyError">>}
       /\ UNCHANGED direct
  ELSE /\ raised' = raised \cup RaisedByRemoval(i, direct[Owner[i]], addr[i])
       /\ direct' = [direct EXCEPT ![Owner[i]] = WithoutRoutes(@, i, addr[i])]

(* LogicalInterface.up and down: LINK_STATE follows at once, as the parent *)
(* has changed before.                                                     *)
LogicalMoves(i, s) ==
  /\ logUp' = [logUp EXCEPT ![i] = s]
  /\ IF s THEN LogicalUp(i) ELSE LogicalDown(i)

(* PhysicalInterface.up and down: one notice runs.                         *)
EndMoves(l, n) ==
  LET i == n.end
  IN  /\ agenda[l] # << >> /\ n \in Head(agenda[l]).notices
      /\ agenda' = [agenda EXCEPT ![l] = Heard(l, n)]
      /\ phyUp' = [phyUp EXCEPT ![i] = n.up]
      /\ IF logical[i] = "absent"
         THEN UNCHANGED <<logUp, direct, raised>>
         ELSE LogicalMoves(i, n.up)
      /\ UNCHANGED <<careful, linkUp, commands, logical, addr, settings>>

-----------------------------------------------------------------------------
(* PhysicalInterface.logical: a frame that is received, or a DHCP client   *)
(* that starts, makes a logical interface without an address.              *)
FirstFrame(i) ==
  /\ Owner[i] \in Hosts
  /\ logical[i] = "absent"
  /\ ~ careful
  /\ logical' = [logical EXCEPT ![i] = "bare"]
  /\ logUp' = [logUp EXCEPT ![i] = PhyIsUp(i)]
  /\ UNCHANGED <<careful, linkUp, commands, agenda, phyUp, addr, settings, direct, raised>>

MaySet(i) ==
  /\ settings < MaxAddresses
  /\ careful =>
       /\ logical[i] = "absent"
       /\ \A j \in Interfaces : Owner[j] = Owner[i] => ~ Connected(j)

(* add_logical_interface with an address: the interface comes up if its    *)
(* parent is, and LINK_STATE adds the routes.                              *)
AddLogicalInterface(i, a) ==
  /\ MaySet(i)
  /\ logical[i] = "absent"
  /\ logical' = [logical EXCEPT ![i] = "known"]
  /\ addr' = [addr EXCEPT ![i] = a]
  /\ logUp' = [logUp EXCEPT ![i] = PhyIsUp(i)]
  /\ direct' = IF PhyIsUp(i)
               THEN [direct EXCEPT ![Owner[i]] = WithRoutes(@, i, a)] ELSE direct
  /\ settings' = settings + 1
  /\ UNCHANGED <<careful, linkUp, commands, agenda, phyUp, raised>>

(* add_ip_address of a host.  A logical interface the device knows gets    *)
(* the address; else a new one takes its place.  Either way                *)
(* INTERFACE_STATE follows.                                                *)
AddIpAddress(i, a) ==
  LET known == logical[i] = "known"
      isUp  == IF known THEN logUp[i] ELSE PhyIsUp(i)
      t     == direct[Owner[i]]
      t1    == IF isUp /\ ~ known THEN WithRoutes(t, i, a) ELSE t
  IN  /\ MaySet(i)
      /\ Owner[i] \in Hosts
      /\ logical' = [logical EXCEPT ![i] = "known"]
      /\ addr' = [addr EXCEPT ![i] = a]
      /\ logUp' = [logUp EXCEPT ![i] = isUp]
      /\ direct' = [direct EXCEPT ![Owner[i]] =
                      IF isUp THEN WithRoutes(t1, i, a) ELSE WithoutRoutes(t1, i, a)]
      /\ raised' = raised \cup (IF isUp THEN {} ELSE RaisedByRemoval(i, t1, a))
      /\ settings' = settings + 1
      /\ UNCHANGED <<careful, linkUp, commands, agenda, phyUp>>

(* add_ip_address of a router: it listens to LINK_STATE only.              *)
RouterAddIpAddress(i, a) ==
  /\ MaySet(i)
  /\ Owner[i] \in Routers
  /\ logical[i] = "known"
  /\ addr' = [addr EXCEPT ![i] = a]
  /\ settings' = settings + 1
  /\ UNCHANGED <<careful, linkUp, commands, agenda, phyUp, logical, logUp, direct, raised>>

-----------------------------------------------------------------------------
Init ==
  /\ careful \in BOOLEAN
  /\ linkUp = [l \in DOMAIN Links |-> FALSE]
  /\ commands = [l \in DOMAIN Links |-> 0]
  /\ agenda = [l \in DOMAIN Links |-> << >>]
  /\ phyUp = [i \in Interfaces |-> TRUE]
  /\ logical = [i \in Interfaces |-> "absent"]
  /\ logUp = [i \in Interfaces |-> FALSE]
  /\ addr = [i \in Interfaces |-> None]
  /\ settings = 0
  /\ direct = [d \in Devices |-> [p \in Prefixes |-> << >>]]
  /\ raised = {}

Run == \E l \in DOMAIN Links : \E n \in Notice : EndMoves(l, n)

(* Two interfaces never have one address.                                  *)
Setting ==
  \E i \in Interfaces, a \in Addresses :
    /\ \A j \in Interfaces \ {i} : addr[j] # a
    /\ \/ AddLogicalInterface(i, a)
       \/ AddIpAddress(i, a)
       \/ RouterAddIpAddress(i, a)

Next ==
  \/ Run
  \/ \E l \in DOMAIN Links, s \in BOOLEAN : LinkMove(l, s)
  \/ \E i \in Interfaces : FirstFrame(i)
  \/ Setting

Spec == Init /\ [][Next]_vars

-----------------------------------------------------------------------------
Expected(i) == {Connection(i, addr[i]), Local(i, addr[i])}

(* An interface of a host that is up has the routes of its address: links  *)
(* of other interfaces that fail, in the same network too, addresses that  *)
(* change and notices that come in any order never take them               *)
(* (server.py:68-91, routing.py:223 take one equal route away).            *)
UpMeansRouted ==
  \A i \in Interfaces :
    Owner[i] \in Hosts /\ logUp[i] /\ addr[i] # None
      => Expected(i) \subseteq RoutesOf(direct[Owner[i]])

(* With a careful operator the table is exact: a route to the network and  *)
(* one to the address of every interface that is up, once each, nothing of *)
(* the others, and no handler raised (server.py:59-91, router.py:27-84).   *)
ExactRoutes ==
  careful =>
    /\ \A d \in Devices, p \in Prefixes : FX!IsInjective(direct[d][p])
    /\ \A d \in Devices :
         RoutesOf(direct[d]) =
           UNION {Expected(i) : i \in {j \in Interfaces : Owner[j] = d /\ logUp[j]}}
    /\ raised = {}

(* Once both ends of a link that is moved with care have heard, each is in *)
(* the state of the link (interface.py:202-222).                           *)
HasHeard(l) == commands[l] > 0 /\ agenda[l] = << >>

EndsFollow ==
  careful =>
    \A l \in DOMAIN Links : HasHeard(l) => \A i \in Links[l] : phyUp[i] = linkUp[l]
=============================================================================
