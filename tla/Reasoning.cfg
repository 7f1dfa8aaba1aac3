SPECIFICATION Spec
CONSTANTS
    Tools = {"verify_device_location", "check_network_congestion"}
    MaxToolCalls = 1
    MaxAttempts = 3
    Escalation = TRUE
    MaxTries = 2
    JoinBy = 1
    MaxFaults = 2
    Faults = {"raise", "timeout", "post"}
INVARIANTS TypeOK LiveIsTheRecord ContradictedIsNeverCritical SafetyIsLookedInto PassesAreBounded
PROPERTY ImplementsJudgement
CHECK_DEADLOCK FALSE
