----------------------------- MODULE Handshaking -----------------------------
(***************************************************************************)
(* What the handshake of two pages promises while nothing goes wrong: the     *)
(* gateway and the two pages take nine turns, each once and in this order,     *)
(* whoever connects first and however handlers and events interleave.  After   *)
(* a disturbance nothing is promised.                                        *)
(***************************************************************************)
VARIABLES
    gateway,     \* the connection state of the session
    offerer,     \* the connection of the page that offers
    answerer,    \* the connection of the page that answers
    disturbed

hvars == <<gateway, offerer, answerer, disturbed>>

HInit == gateway = "WAITING" /\ offerer = "none" /\ answerer = "none" /\ ~disturbed

(* The gateway counts the second page, tells both, and notes offer and answer.  *)
(* An offer is noted once it was made, an answer likewise.                      *)
Turn(from, to) == gateway = from /\ gateway' = to

GatewayTurn ==
    /\ \/ Turn("WAITING", "JOINED")
       \/ Turn("JOINED", "PAIRING")
       \/ Turn("PAIRING", "NEGOTIATING") /\ offerer = "offered"
       \/ Turn("NEGOTIATING", "CONNECTED") /\ answerer = "stable"
    /\ UNCHANGED <<offerer, answerer>>

(* The offering page starts when both pages are told, and has its answer when    *)
(* the gateway has noted it.                                                  *)
OffererTurn ==
    /\ \/ gateway = "PAIRING" /\ offerer = "none" /\ offerer' = "offering"
       \/ gateway = "PAIRING" /\ offerer = "offering" /\ offerer' = "offered"
       \/ gateway = "CONNECTED" /\ offerer = "offered" /\ offerer' = "stable"
    /\ UNCHANGED <<gateway, answerer>>

AnswererTurn ==
    /\ gateway = "NEGOTIATING"
    /\ \/ answerer = "none" /\ answerer' = "applying"
       \/ answerer = "applying" /\ answerer' = "stable"
    /\ UNCHANGED <<gateway, offerer>>

Calmly == ~disturbed /\ ~disturbed' /\ (GatewayTurn \/ OffererTurn \/ AnswererTurn)

HNext == Calmly \/ disturbed'

HSpec == HInit /\ [][HNext]_hvars
===============================================================================
