------------------------------ MODULE Lifecycle ------------------------------
(***************************************************************************)
(* What the finality pipeline promises its subscribers about each event    *)
(* key (event_schema::LifecycleState, docs/ARCHITECTURE.md): it appears as *)
(* provisional, may be confirmed, and may be retracted at any time, which  *)
(* is final.  Nothing is confirmed or retracted that was not introduced.   *)
(***************************************************************************)
CONSTANT Keys

VARIABLE status

Init == status = [k \in Keys |-> "none"]

Introduce(k) ==
    /\ status[k] = "none"
    /\ status' = [status EXCEPT ![k] = "provisional"]

Confirm(k) ==
    /\ status[k] = "provisional"
    /\ status' = [status EXCEPT ![k] = "confirmed"]

Retract(k) ==
    /\ status[k] \in {"provisional", "confirmed"}
    /\ status' = [status EXCEPT ![k] = "retracted"]

Next == \E k \in Keys : Introduce(k) \/ Confirm(k) \/ Retract(k)

Spec == Init /\ [][Next]_status
=============================================================================
