------------------------------ MODULE MCPolicy ------------------------------
(***************************************************************************)
(* The policy seen from an operation whose conditions change over time:    *)
(* every configuration and every set of conditions is an initial state,    *)
(* and a step changes one condition.                                       *)
(***************************************************************************)
EXTENDS Policy

VARIABLES conditions, config
vars == <<conditions, config>>

Init == conditions \in Conditions /\ config \in Configs

\* A step replaces one field: a new congestion reading, a suspension, a
\* re-assessment, the device dropping off the network.
Change == \E f \in DOMAIN conditions :
              conditions' \in {c \in Conditions : \A g \in DOMAIN c \ {f} : c[g] = conditions[g]}

Next == Change /\ UNCHANGED config
Spec == Init /\ [][Next]_vars

\* The ordered rules of decide() grant exactly what the unordered entitlement
\* says: nothing unless entitled, the slice only when entitled to the slice.
GrantsTheEntitlement ==
    LET a == Decide(conditions, config) IN
    /\ a # "NONE" <=> Entitled(conditions, config)
    /\ a = "QOD_AND_SLICE" <=> EntitledToSlice(conditions, config)

\* Graver conditions never lower the protection: a rising congestion, a
\* suspension or a higher criticality can only add to what decide() grants, as
\* long as the thresholds are ordered.
GraverNeverWeaker ==
    [][Ordered(config) /\ AtLeastAsGrave(conditions', conditions) =>
          Strength[Decide(conditions', config)] >= Strength[Decide(conditions, config)]]_vars

\* The thesis: for routine work a congestion reading alone changes nothing.
CongestionAloneNeverActs ==
    [][conditions' = [conditions EXCEPT !.congestion = conditions'.congestion]
          /\ conditions.criticality = "LOW" =>
          Decide(conditions', config) = Decide(conditions, config)]_vars
=============================================================================
