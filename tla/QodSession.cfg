SPECIFICATION Spec
CONSTANTS
    Expected = 2
    MinChunk = 1
    Grace = 7
    ConfirmWait = 1
    Multiplier = 2
    SuspendedMax = 3
    Latency = 1
    MaxSignals = 3
    MaxLost = 1
INVARIANTS HeldWhileQuiet HoldIsBounded ReclaimedSoon NoLevelMissed
PROPERTY NeverShownStale
CHECK_DEADLOCK FALSE
