------------------------------ MODULE MCTrickle ------------------------------
(* One socket for each of the two pages.                                       *)
EXTENDS Trickle
CONSTANTS d1, d2, k1, r1
OneEach == [k \in {k1, r1} |-> IF k = k1 THEN d1 ELSE d2]
===============================================================================
