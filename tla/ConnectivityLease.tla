-------------------------- MODULE ConnectivityLease --------------------------
(***************************************************************************)
(* What an operation is promised, without saying how: enhanced             *)
(* connectivity is granted at most once, may only be raised while it is    *)
(* held, and is given up exactly once.  "De-escalation is never automatic" *)
(* (agent/src/flowguard_agent/workflows/critical_operation.py:436).        *)
(***************************************************************************)

VARIABLES
    phase,  \* deciding -> held -> over, or deciding -> over
    level   \* what the network grants the operation while it is held

vars == <<phase, level>>

Init == phase = "deciding" /\ level = "NONE"

Grant ==
    /\ phase = "deciding"
    /\ phase' = "held"
    /\ level' \in {"QOD", "QOD_AND_SLICE"}

Refuse ==
    /\ phase = "deciding"
    /\ phase' = "over"
    /\ UNCHANGED level

Raise ==
    /\ phase = "held"
    /\ level = "QOD"
    /\ level' = "QOD_AND_SLICE"
    /\ UNCHANGED phase

GiveUp ==
    /\ phase = "held"
    /\ phase' = "over"
    /\ level' = "NONE"

Next == Grant \/ Refuse \/ Raise \/ GiveUp

Spec == Init /\ [][Next]_vars
=============================================================================
