---------------------------- MODULE PolicyProofs ----------------------------
(***************************************************************************)
(* The promises of the policy, proved for every set of conditions and      *)
(* every configuration, and for every history of changing conditions.      *)
(***************************************************************************)
EXTENDS MCPolicy, TLAPS

\* The ordered rules and the unordered entitlement agree: decide() grants
\* something exactly to the entitled, and the slice exactly to those entitled
\* to the slice.
LEMMA DecideIsEntitlement ==
    ASSUME NEW c \in Conditions, NEW cfg \in Configs
    PROVE  /\ Decide(c, cfg) # "NONE" <=> Entitled(c, cfg)
           /\ Decide(c, cfg) = "QOD_AND_SLICE" <=> EntitledToSlice(c, cfg)
<1>1. c.criticality \in {"LOW", "MEDIUM", "HIGH"} /\ c.reachable \in BOOLEAN
      /\ c.suspended \in BOOLEAN /\ c.safetyCritical \in BOOLEAN /\ c.sliceAvailable \in BOOLEAN
      /\ cfg.sliceEscalation \in BOOLEAN /\ cfg.alwaysProtect \in BOOLEAN
  BY DEF Conditions, Configs, Levels
<1>2. Rank[c.congestion] \in Nat /\ Rank[cfg.qodThreshold] \in Nat
      /\ Rank[cfg.mediumThreshold] \in Nat
  BY DEF Conditions, Configs, Levels, Rank
<1> QED BY <1>1, <1>2 DEF Decide, BestAvailable, Entitled, EntitledToSlice

LEMMA ChangeTypes ==
    ASSUME conditions \in Conditions, config \in Configs, [Next]_vars
    PROVE  conditions' \in Conditions /\ config' \in Configs
BY DEF Next, Change, vars

LEMMA PolicyTypes == Spec => [](conditions \in Conditions /\ config \in Configs)
<1>1. Init => conditions \in Conditions /\ config \in Configs
  BY DEF Init
<1>2. conditions \in Conditions /\ config \in Configs /\ [Next]_vars
         => (conditions \in Conditions /\ config \in Configs)'
  BY ChangeTypes
<1> QED BY <1>1, <1>2, PTL DEF Spec

\* The strength of what an entitlement is worth.
LEMMA StrengthByEntitlement ==
    ASSUME NEW c \in Conditions, NEW cfg \in Configs
    PROVE  Strength[Decide(c, cfg)] = IF EntitledToSlice(c, cfg) THEN 2
                                      ELSE IF Entitled(c, cfg) THEN 1 ELSE 0
<1>1. Decide(c, cfg) \in Actions
  BY DEF Decide, BestAvailable, Actions
<1>2. /\ Strength["NONE"] = 0 /\ Strength["QOD"] = 1 /\ Strength["QOD_AND_SLICE"] = 2
  BY DEF Strength, Actions
<1> QED BY <1>1, <1>2, DecideIsEntitlement DEF Actions, EntitledToSlice

\* With ordered thresholds, entitlement only grows with the conditions.
LEMMA EntitlementGrows ==
    ASSUME NEW c \in Conditions, NEW d \in Conditions, NEW cfg \in Configs,
           Ordered(cfg), AtLeastAsGrave(d, c)
    PROVE  /\ Entitled(c, cfg) => Entitled(d, cfg)
           /\ EntitledToSlice(c, cfg) => EntitledToSlice(d, cfg)
<1>1. /\ c.criticality \in {"LOW", "MEDIUM", "HIGH"} /\ d.criticality \in {"LOW", "MEDIUM", "HIGH"}
      /\ Rank["LOW"] = 0 /\ Rank["MEDIUM"] = 1 /\ Rank["HIGH"] = 2
  BY DEF Conditions, Levels, Rank
<1>2. /\ Rank[c.congestion] \in Nat /\ Rank[d.congestion] \in Nat
      /\ Rank[cfg.qodThreshold] \in Nat /\ Rank[cfg.mediumThreshold] \in Nat
  BY DEF Conditions, Configs, Levels, Rank
<1>3. ASSUME c.criticality # "LOW"
      PROVE  /\ d.criticality # "LOW"
             /\ c.criticality = "HIGH" => d.criticality = "HIGH"
  BY <1>1, <1>3 DEF AtLeastAsGrave
<1>4. Entitled(c, cfg) => Entitled(d, cfg)
  BY <1>1, <1>2, <1>3 DEF Entitled, AtLeastAsGrave, Ordered
<1>5. EntitledToSlice(c, cfg) => EntitledToSlice(d, cfg)
  BY <1>1, <1>3, <1>4 DEF EntitledToSlice, AtLeastAsGrave
<1> QED BY <1>4, <1>5

\* decide() grants exactly the entitlement, whatever the conditions become.
THEOREM EntitlementIsGranted == Spec => []GrantsTheEntitlement
<1>1. conditions \in Conditions /\ config \in Configs => GrantsTheEntitlement
  BY DecideIsEntitlement DEF GrantsTheEntitlement
<1> QED BY <1>1, PolicyTypes, PTL

\* No worsening of the situation ever lowers the protection.
THEOREM ProtectionIsMonotone == Spec => GraverNeverWeaker
<1>1. ASSUME conditions \in Conditions, config \in Configs, [Next]_vars
      PROVE  [Ordered(config) /\ AtLeastAsGrave(conditions', conditions) =>
                Strength[Decide(conditions', config)] >= Strength[Decide(conditions, config)]]_vars
  <2>1. conditions' \in Conditions
    BY <1>1, ChangeTypes
  <2>2. ASSUME Ordered(config), AtLeastAsGrave(conditions', conditions)
        PROVE  Strength[Decide(conditions', config)] >= Strength[Decide(conditions, config)]
    <3>1. /\ Entitled(conditions, config) => Entitled(conditions', config)
          /\ EntitledToSlice(conditions, config) => EntitledToSlice(conditions', config)
      BY <1>1, <2>1, <2>2, EntitlementGrows
    <3>2. EntitledToSlice(conditions', config) => Entitled(conditions', config)
      BY DEF EntitledToSlice
    <3> QED BY <1>1, <2>1, <3>1, <3>2, StrengthByEntitlement
  <2> QED BY <2>2
<1> QED BY <1>1, PolicyTypes, PTL DEF Spec, GraverNeverWeaker

\* The thesis of the system: for routine work a congestion reading alone changes
\* nothing.
THEOREM CongestionNeverTriggers == Spec => CongestionAloneNeverActs
<1>1. ASSUME conditions \in Conditions
      PROVE  [conditions' = [conditions EXCEPT !.congestion = conditions'.congestion]
                 /\ conditions.criticality = "LOW" =>
                 Decide(conditions', config) = Decide(conditions, config)]_vars
  <2>1. ASSUME conditions' = [conditions EXCEPT !.congestion = conditions'.congestion],
               conditions.criticality = "LOW"
        PROVE  Decide(conditions', config) = Decide(conditions, config)
    <3>1. \A f \in {"criticality", "reachable", "sliceAvailable", "suspended"} :
             conditions'[f] = conditions[f]
      BY <1>1, <2>1 DEF Conditions
    <3>2. /\ conditions'.criticality = "LOW" /\ conditions'.reachable = conditions.reachable
          /\ conditions'.sliceAvailable = conditions.sliceAvailable
          /\ conditions'.suspended = conditions.suspended
      BY <2>1, <3>1
    <3> QED BY <2>1, <3>2 DEF Decide, BestAvailable
  <2> QED BY <2>1
<1> QED BY <1>1, PolicyTypes, PTL DEF Spec, CongestionAloneNeverActs

=============================================================================
