----------------------------- MODULE MCTopology -----------------------------
(***************************************************************************)
(* A router with two ports, one with a single port that may be outside of  *)
(* the cluster of the first and has a server's updater, and a server.      *)
(***************************************************************************)
EXTENDS Topology, TLC

CONSTANTS r1, r2, h

mcPorts    == r1 :> 2 @@ r2 :> 1 @@ h :> 1
mcOrder    == <<r1, h, r2>>
mcClusters == <<"default", "outside">>
mcHomes    == [d \in {r1, r2, h} |-> IF d = r2 THEN {"default", "outside"} ELSE {"default"}]
=============================================================================
