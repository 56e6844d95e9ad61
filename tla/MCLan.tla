------------------------------- MODULE MCLan -------------------------------
(***************************************************************************)
(* Two small trees for the model checker.                                  *)
(*   Chain: a1 and a2 on s1, b1 on s2, one trunk s1 - s2.                  *)
(*   Line:  s1 - s0 - s2, with host a1 on s1, a2 on s0 and b1 on s2.       *)
(***************************************************************************)
EXTENDS Lan

CONSTANTS a1, a2, b1, s0, s1, s2

ChainNbr    == s1 :> {a1, a2, s2} @@ s2 :> {b1, s1}
ChainAttach == a1 :> s1 @@ a2 :> s1 @@ b1 :> s2
ChainToward ==
  s1 :> (a1 :> a1 @@ a2 :> a2 @@ b1 :> s2) @@
  s2 :> (a1 :> s1 @@ a2 :> s1 @@ b1 :> b1)

(* Pings are interchangeable: used by the runs without liveness.           *)
PingSymmetry == Permutations(Pings)

LineNbr    == s1 :> {a1, s0} @@ s0 :> {a2, s1, s2} @@ s2 :> {b1, s0}
LineAttach == a1 :> s1 @@ a2 :> s0 @@ b1 :> s2
LineToward ==
  s1 :> (a1 :> a1 @@ a2 :> s0 @@ b1 :> s0) @@
  s0 :> (a1 :> s1 @@ a2 :> a2 @@ b1 :> s2) @@
  s2 :> (a1 :> s0 @@ a2 :> s0 @@ b1 :> b1)
LineTrunks == {{s0, s2}}
=============================================================================
