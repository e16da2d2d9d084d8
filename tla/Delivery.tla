------------------------------- MODULE Delivery -------------------------------
(***************************************************************************)
(* What the transfer of a queue of files promises, whatever the pages, the   *)
(* network and the users do: the sender hands a file over slice by slice;    *)
(* the receiver's verdict on a file is given at most once and is final, and   *)
(* a file is delivered only when the whole of it had been handed over.       *)
(***************************************************************************)
EXTENDS Naturals

CONSTANTS File, Size   \* the files, and Size[f] \in Nat \ {0} slices in each

VARIABLES handed, verdict

dvars == <<handed, verdict>>

DInit ==
    /\ handed = [f \in File |-> 0]
    /\ verdict = [f \in File |-> "none"]

HandOver(f) ==
    /\ handed[f] < Size[f]
    /\ handed' = [handed EXCEPT ![f] = @ + 1]
    /\ UNCHANGED verdict

Deliver(f) ==
    /\ verdict[f] = "none"
    /\ handed[f] = Size[f]
    /\ verdict' = [verdict EXCEPT ![f] = "delivered"]
    /\ UNCHANGED handed

Reject(f) ==
    /\ verdict[f] = "none"
    /\ verdict' = [verdict EXCEPT ![f] = "rejected"]
    /\ UNCHANGED handed

DNext == \E f \in File : HandOver(f) \/ Deliver(f) \/ Reject(f)

DSpec == DInit /\ [][DNext]_dvars
===============================================================================
