---------------------------- MODULE EchoService ----------------------------
(***************************************************************************)
(* What the network promises to a user of ping (netdevice.py:105-150): an  *)
(* exchange goes from its source to its destination and back, each leg at  *)
(* most once.  How frames are switched, when addresses are resolved and    *)
(* where packets wait is not visible here; a packet may be lost.           *)
(***************************************************************************)
EXTENDS Naturals

CONSTANTS Hosts, Pings, None

VARIABLES flow, served, answered

svars == <<flow, served, answered>>

Init ==
  /\ flow = [p \in Pings |-> None]
  /\ served = [p \in Pings |-> 0]
  /\ answered = [p \in Pings |-> 0]

Start(a, b, p) ==
  /\ a # b
  /\ flow[p] = None
  /\ flow' = [flow EXCEPT ![p] = <<a, b>>]
  /\ UNCHANGED <<served, answered>>

Serve(p) ==
  /\ flow[p] # None
  /\ served[p] = 0
  /\ served' = [served EXCEPT ![p] = 1]
  /\ UNCHANGED <<flow, answered>>

Answer(p) ==
  /\ served[p] = 1
  /\ answered[p] = 0
  /\ answered' = [answered EXCEPT ![p] = 1]
  /\ UNCHANGED <<flow, served>>

Next ==
  \/ \E a, b \in Hosts, p \in Pings : Start(a, b, p)
  \/ \E p \in Pings : Serve(p) \/ Answer(p)

Spec == Init /\ [][Next]_svars
=============================================================================
