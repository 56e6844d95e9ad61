-------------------------------- MODULE MCIsis --------------------------------
EXTENDS Isis, TLC

Triangle == {{1, 2}, {2, 3}, {1, 3}}
Pair     == {{1, 2}}

NoFresh   == {}
FreshLine == {Pair \cup {{2, 3}}}

(* The link {1, 3} fails and recovers, or another one fails.               *)
mcFlaps == {[l \in Triangle |-> IF l = {1, 3} THEN 2 ELSE 0]}
             \cup {[l \in Triangle |-> IF l = k THEN 1 ELSE 0] : k \in {{1, 2}, {2, 3}}}

(* The direct way between 1 and 3 is longer than that over 2.              *)
mcMetric == [a \in 1..3 |-> [b \in 1..3 |-> IF {a, b} = {1, 3} THEN 30 ELSE 10]]

=============================================================================
