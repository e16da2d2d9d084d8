--------------------------- MODULE MCSessionService ---------------------------
(***************************************************************************)
(* Instances of SessionService for TLC.                                    *)
(***************************************************************************)
EXTENDS SessionService, TLC

(* Sessions, devices and request slots are interchangeable.                    *)
Interchangeable ==
    Permutations(Session) \cup Permutations(Code) \cup Permutations(Device) \cup Permutations(Request)
===============================================================================
