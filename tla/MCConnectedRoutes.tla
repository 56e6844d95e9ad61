------------------------- MODULE MCConnectedRoutes -------------------------
(* Instances of ConnectedRoutes: a host and a router with two links, the   *)
(* first two addresses in one network.                                     *)
EXTENDS ConnectedRoutes, TLC

CONSTANTS h, r, i1, i2, j1, a1, a2, b1

(* The far end of the second link is left out.                             *)
mcOwner == (i1 :> h) @@ (i2 :> h) @@ (j1 :> r)
mcLinks == <<{i1, j1}, {i2}>>

mcMaxCommands == <<3, 2>>

mcPrefixes   == {"n1", "n2", "a1", "a2", "b1"}
mcNetwork    == (a1 :> "n1") @@ (a2 :> "n1") @@ (b1 :> "n2")
mcHostPrefix == (a1 :> "a1") @@ (a2 :> "a2") @@ (b1 :> "b1")

=============================================================================
