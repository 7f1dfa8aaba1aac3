CONSTANTS
    Clients = {c1, c2}
    EmitAttempts = 2
    Faults = {"timeout", "write", "restart"}
    MaxRuns = 2
    MaxEmissions = 7
    MaxRequests = 2
    MaxFaults = 2
SPECIFICATION Spec
INVARIANTS TypeOK AckedIsRecorded ToldOnce CountedOnce RowIsCurrent
CHECK_DEADLOCK FALSE
