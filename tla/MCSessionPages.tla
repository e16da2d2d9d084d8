---------------------------- MODULE MCSessionPages ----------------------------
(* Two tabs on two devices.                                                    *)
EXTENDS SessionPages
CONSTANTS t1, t2, d1, d2, s1, s2
Pages == [t \in {t1, t2} |-> IF t = t1 THEN {"send", "receive"} ELSE {"receive"}]
OneEach == [t \in {t1, t2} |-> IF t = t1 THEN d1 ELSE d2]
===============================================================================
