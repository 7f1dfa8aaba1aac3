------------------------------ MODULE Judgement ------------------------------
(***************************************************************************)
(* What the workflow is promised by the assessment activity: within a       *)
(* bounded number of model calls per attempt, and of attempts, there is a   *)
(* judgement that does not contradict itself, or the activity has failed    *)
(* and the workflow substitutes one.                                        *)
(***************************************************************************)
EXTENDS Naturals

CONSTANTS MaxPasses, MaxTries

VARIABLES tries, passes, outcome

vars == <<tries, passes, outcome>>

Criticalities == {"LOW", "MEDIUM", "HIGH"}

\* A judgement that trusts its safety flag: safety-critical work is never LOW.
Judgements == { [criticality |-> c, safety |-> s] : c \in Criticalities, s \in BOOLEAN }
                  \ {[criticality |-> "LOW", safety |-> TRUE]}

None   == [criticality |-> "none",   safety |-> FALSE]
Failed == [criticality |-> "failed", safety |-> FALSE]

Init == tries = 1 /\ passes = 0 /\ outcome = None

Pass  == passes < MaxPasses /\ passes' = passes + 1 /\ UNCHANGED <<tries, outcome>>
Retry == tries < MaxTries /\ tries' = tries + 1 /\ passes' = 0 /\ UNCHANGED outcome
Judge == passes > 0 /\ outcome' \in Judgements /\ UNCHANGED <<tries, passes>>
Fail  == tries = MaxTries /\ outcome' = Failed /\ passes' = 0 /\ UNCHANGED tries

Next == outcome = None /\ (Pass \/ Retry \/ Judge \/ Fail)

Spec == Init /\ [][Next]_vars /\ WF_vars(Next)
=============================================================================
