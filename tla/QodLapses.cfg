SPECIFICATION Spec
CONSTANTS
    Expected = 4
    MinChunk = 1
    Grace = 2
    ConfirmWait = 0
    Multiplier = 4
    SuspendedMax = 3
    Latency = 0
    MaxSignals = 1
    MaxLost = 0
INVARIANT GuaranteeHeld
CHECK_DEADLOCK FALSE
