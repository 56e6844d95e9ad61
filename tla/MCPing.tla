------------------------------- MODULE MCPing -------------------------------
(* Two series of two requests each on one device.                          *)
EXTENDS Ping, TLC

CONSTANTS k1, k2

TwoTwo == k1 :> 2 @@ k2 :> 2
=============================================================================
