------------------------------- MODULE MCRouter -------------------------------
(***************************************************************************)
(* A router with two links and a loopback on the addresses 0..15.  Behind  *)
(* the links lie the block 8..11, which IS-IS knows whole or in part, and  *)
(* the blocks 12..15 and 12..13, which BGP knows through the router at 8.  *)
(***************************************************************************)
EXTENDS Router, TLC

CONSTANTS e1, e2, lo

B(n, s) == [net |-> n, size |-> s]

mcDefault  == B(0, 16)
mcNetwork  == (e1 :> B(0, 2)) @@ (e2 :> B(2, 2)) @@ (lo :> B(4, 1))
mcLocal    == (e1 :> B(0, 1)) @@ (e2 :> B(2, 1)) @@ (lo :> B(4, 1))
mcPrefixes == {mcNetwork[i] : i \in Interfaces} \cup {mcLocal[i] : i \in Interfaces}
                \cup {mcDefault, B(8, 4), B(8, 1), B(12, 4), B(12, 2)}

Isis(p, i) == RouteOf(p, "ISIS", i, 15, 8, None)

mcStaticRoutes == {RouteOf(mcDefault, "STATIC", e2, 5, None, None)}
mcBgpRoutes    == {RouteOf(p, "BGP", None, 170, 8, None) : p \in {B(12, 2), mcDefault}}
                    \cup {RouteOf(B(12, 4), "BGP", None, 170, 3, None)}
mcIsisTables   == {{Isis(B(8, 4), e2)}, {Isis(B(8, 4), e1), Isis(B(8, 1), e2)}}

(* A label stands where other tables have a prefix.                        *)
mcLabels == {B(100, 0)}

(* Two LSPs to 8, and one that passes, all over e1 to the next hop 1.      *)
mcLspRoutes   == {RouteOf(B(8, 1), "RSVP", e1, 7, 1, n) : n \in {"lsp1", "lsp2"}}
mcLabelRoutes == {RouteOf(B(100, 0), "RSVP", e1, 7, 1, "transit")}
mcBypasses    == {[name |-> "bypass", interface |-> e2, protects |-> 1]}

=============================================================================
