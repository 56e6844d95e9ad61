-------------------------------- MODULE MCRsvp --------------------------------
(***************************************************************************)
(* A triangle of 1, 2 and 3, and a router 4 with a single link to 1.  From *)
(* 1 to 3 the way over 2 is the shorter, so the path from 4 to 3 has three *)
(* links; nothing can go around the first.                                 *)
(***************************************************************************)
EXTENDS Rsvp

Paw == {{1, 2}, {2, 3}, {1, 3}, {1, 4}}

mcMetric == [a \in 1..4 |-> [b \in 1..4 |-> IF {a, b} = {1, 3} THEN 30 ELSE 10]]

LongPath == {Session(4, 3, 0, TRUE)}

=============================================================================
