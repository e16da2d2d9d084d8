---------------------------- MODULE SessionStates ----------------------------
(***************************************************************************)
(* The session state machine (session-state-machine.ts): which status may    *)
(* follow which, as a caller of isValidTransition sees it.                  *)
(***************************************************************************)
Terminal == {"COMPLETED", "FAILED", "EXPIRED", "CANCELLED"}
Active   == {"WAITING", "JOINED", "CONNECTING", "CONNECTED", "TRANSFERRING"}
Status   == Active \cup Terminal

ValidNext ==
    [s \in Status |->
        CASE s = "WAITING"      -> {"JOINED", "EXPIRED", "CANCELLED"}
          [] s = "JOINED"       -> {"CONNECTING", "EXPIRED", "CANCELLED"}
          [] s = "CONNECTING"   -> {"CONNECTED", "FAILED", "CANCELLED"}
          [] s = "CONNECTED"    -> {"TRANSFERRING", "FAILED", "CANCELLED"}
          [] s = "TRANSFERRING" -> {"COMPLETED", "FAILED", "CANCELLED"}
          [] OTHER              -> {}]

IsValidTransition(from, to) == to \in ValidNext[from]
IsTerminalState(s) == ValidNext[s] = {}
===============================================================================
