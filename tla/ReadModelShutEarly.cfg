CONSTANTS
    Clients = {c1}
    EmitAttempts = 2
    Faults = {}
    MaxRuns = 1
    MaxEmissions = 7
    MaxRequests = 2
    MaxFaults = 0
SPECIFICATION Spec
INVARIANTS CompletedHoldsNothing
CHECK_DEADLOCK FALSE
