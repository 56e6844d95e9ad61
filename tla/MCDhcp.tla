------------------------------- MODULE MCDhcp -------------------------------
(***************************************************************************)
(* Small LANs for the model checker.  Server s1 has address 10; host h has *)
(* an address inside the lease range of s1 (Taken) or outside it (Apart).  *)
(***************************************************************************)
EXTENDS Dhcp, TLC

CONSTANTS s1, s2, h, c1

Taken == s1 :> 10 @@ s2 :> 11 @@ h :> 1
Apart == s1 :> 10 @@ s2 :> 11 @@ h :> 12

JustServer == [f \in {s1} |-> Apart[f]]
OneServer  == [f \in {s1, h} |-> Taken[f]]

Once  == [c \in Clients |-> 1]
Twice == [c \in Clients |-> 2]

ThreeFrom1 == s1 :> 1 .. 3

(* Clients are interchangeable: used by the runs without liveness.         *)
ClientSymmetry == Permutations(Clients)
=============================================================================
