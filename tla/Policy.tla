------------------------------- MODULE Policy -------------------------------
(***************************************************************************)
(* The allocation policy of agent/src/flowguard_agent/policy/rules.py: the *)
(* pure function decide() that maps what is known about an operation to a  *)
(* network action.  The language model only classifies criticality; this   *)
(* function alone decides what is allocated.                               *)
(***************************************************************************)
EXTENDS Naturals

\* Criticality and CongestionLevel share their three names and their order.
Levels  == {"LOW", "MEDIUM", "HIGH"}
Actions == {"NONE", "QOD", "QOD_AND_SLICE"}

Rank == [l \in Levels |-> CASE l = "LOW" -> 0 [] l = "MEDIUM" -> 1 [] l = "HIGH" -> 2]

\* How much an action protects: the order NetworkAction is used in.
Strength == [a \in Actions |-> CASE a = "NONE" -> 0
                                 [] a = "QOD" -> 1
                                 [] a = "QOD_AND_SLICE" -> 2]

Conditions == [criticality : Levels, congestion : Levels, reachable : BOOLEAN,
               safetyCritical : BOOLEAN, sliceAvailable : BOOLEAN, suspended : BOOLEAN]

\* class PolicyConfig
Configs == [qodThreshold : Levels, mediumThreshold : Levels,
            sliceEscalation : BOOLEAN, alwaysProtect : BOOLEAN]

\* The configuration critical_operation.py builds: only alwaysProtect is read
\* from the environment, the other fields keep their defaults.
ConfigWith(alwaysProtect) ==
    [qodThreshold |-> "MEDIUM", mediumThreshold |-> "HIGH",
     sliceEscalation |-> TRUE, alwaysProtect |-> alwaysProtect]

\* `QOD_AND_SLICE if slice_available and cfg.enable_slice_escalation else QOD`
BestAvailable(c, cfg) ==
    IF c.sliceAvailable /\ cfg.sliceEscalation THEN "QOD_AND_SLICE" ELSE "QOD"

\* Plausible defects of Decide, used to show that the properties notice them.
DecideSuspensionAfterThesis(c, cfg) ==
    IF ~c.reachable \/ c.criticality = "LOW" THEN "NONE"
    ELSE IF c.suspended THEN BestAvailable(c, cfg)
    ELSE IF Rank[c.congestion] >= Rank[cfg.qodThreshold] THEN "QOD" ELSE "NONE"

DecideCongestionTriggers(c, cfg) ==
    IF ~c.reachable THEN "NONE"
    ELSE IF c.suspended THEN BestAvailable(c, cfg)
    ELSE IF Rank[c.congestion] >= Rank[cfg.mediumThreshold] THEN "QOD"
    ELSE IF c.criticality = "HIGH" /\ c.congestion = "LOW" THEN "QOD" ELSE "NONE"

DecideExactThreshold(c, cfg) ==
    IF ~c.reachable THEN "NONE"
    ELSE IF c.suspended THEN BestAvailable(c, cfg)
    ELSE IF c.criticality = "LOW" THEN "NONE"
    ELSE IF c.congestion = cfg.qodThreshold THEN "QOD" ELSE "NONE"

\* decide(): the first rule whose condition holds wins, in the order of the code.
Decide(c, cfg) ==
    IF ~c.reachable THEN "NONE"                                  \* GUARD_DEVICE_UNREACHABLE
    ELSE IF c.suspended THEN BestAvailable(c, cfg)               \* SUSPENDED_LOAD_PROTECT
    ELSE IF c.criticality = "LOW" THEN "NONE"                    \* ROUTINE_NO_ACTION
    ELSE IF c.safetyCritical /\ cfg.alwaysProtect
         THEN BestAvailable(c, cfg)                              \* SAFETY_CRITICAL_ALWAYS_PROTECT
    ELSE IF c.criticality = "MEDIUM"
         THEN IF Rank[c.congestion] >= Rank[cfg.mediumThreshold]
              THEN "QOD" ELSE "NONE"                             \* MEDIUM_CRITICALITY_*
    ELSE IF Rank[c.congestion] < Rank[cfg.qodThreshold]
         THEN "NONE"                                             \* HIGH_CRITICALITY_NETWORK_HEALTHY
    ELSE IF c.safetyCritical THEN BestAvailable(c, cfg)          \* SAFETY_CRITICAL_CONGESTED_SLICE
    ELSE "QOD"                                                   \* HIGH_CRITICALITY_CONGESTED

-----------------------------------------------------------------------------
(***************************************************************************)
(* What the policy promises, stated without the order of its rules.        *)
(***************************************************************************)

\* What makes an operation worth a network guarantee at all.
Entitled(c, cfg) ==
    /\ c.reachable
    /\ \/ c.suspended
       \/ /\ c.criticality # "LOW"
          /\ \/ c.safetyCritical /\ cfg.alwaysProtect
             \/ Rank[c.congestion] >= Rank[IF c.criticality = "MEDIUM"
                                           THEN cfg.mediumThreshold
                                           ELSE cfg.qodThreshold]

\* What makes it worth a dedicated slice on top.
EntitledToSlice(c, cfg) ==
    /\ Entitled(c, cfg)
    /\ c.sliceAvailable /\ cfg.sliceEscalation
    /\ \/ c.suspended
       \/ c.safetyCritical /\ (cfg.alwaysProtect \/ c.criticality = "HIGH")

\* One set of conditions is at least as grave as another: each thing that can
\* be a reason to protect is at least as strong, and the device is as present.
AtLeastAsGrave(d, c) ==
    /\ Rank[d.criticality] >= Rank[c.criticality]
    /\ Rank[d.congestion] >= Rank[c.congestion]
    /\ c.reachable => d.reachable
    /\ c.safetyCritical => d.safetyCritical
    /\ c.sliceAvailable => d.sliceAvailable
    /\ c.suspended => d.suspended

\* A configuration that does not ask more of HIGH work than of MEDIUM work.
Ordered(cfg) == Rank[cfg.qodThreshold] <= Rank[cfg.mediumThreshold]
=============================================================================
