SPECIFICATION Spec
CONSTANTS
    Tools = {"verify_device_location", "check_network_congestion"}
    MaxToolCalls = 1
    MaxAttempts = 3
    Escalation = FALSE
    MaxTries = 2
    JoinBy = 0
    MaxFaults = 2
    Faults = {"raise"}
INVARIANT SameLines
CHECK_DEADLOCK FALSE
