------------------------------- MODULE Pairing -------------------------------
(***************************************************************************)
(* What the session service promises about who meets whom: a session is      *)
(* offered once by its owner, it is taken at most once, by another device,   *)
(* and only while it is on offer; once taken or withdrawn it is never on      *)
(* offer again, and its two ends never change.                              *)
(***************************************************************************)
CONSTANTS Session, Device, None

VARIABLES open, owner, guest

pvars == <<open, owner, guest>>

PInit ==
    /\ open = {}
    /\ owner = [s \in Session |-> None]
    /\ guest = [s \in Session |-> None]

Offer(s, d) ==
    /\ owner[s] = None
    /\ owner' = [owner EXCEPT ![s] = d]
    /\ open' = open \cup {s}
    /\ UNCHANGED guest

Take(s, d) ==
    /\ s \in open
    /\ d # owner[s]
    /\ guest' = [guest EXCEPT ![s] = d]
    /\ open' = open \ {s}
    /\ UNCHANGED owner

Withdraw ==
    /\ open' \subseteq open
    /\ UNCHANGED <<owner, guest>>

PNext ==
    \/ \E s \in Session, d \in Device : Offer(s, d) \/ Take(s, d)
    \/ Withdraw

PSpec == PInit /\ [][PNext]_pvars
===============================================================================
