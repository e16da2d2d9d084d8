----------------------------- MODULE MCHandshake -----------------------------
(* One session, two pages; the sender's page may connect twice.                 *)
EXTENDS Handshake
CONSTANTS d1, d2, k1, k2, r1
TwoAndOne == [k \in Socket |-> IF k = r1 THEN d2 ELSE d1]
===============================================================================
