CONSTANTS
    Clients = {c1}
    EmitAttempts = 2
    Faults = {"write"}
    MaxRuns = 1
    MaxEmissions = 3
    MaxRequests = 2
    MaxFaults = 2
SPECIFICATION Spec
INVARIANTS AckedIsPushed
CHECK_DEADLOCK FALSE
