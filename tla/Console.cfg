SPECIFICATION Spec
CONSTANTS
    Panels = {"active", "history", "queue", "operation", "records", "feed", "metrics"}
    Ops = {1, 2}
    Final = 2
    FeedLimit = 2
    PageSize = 2
    MaxFetches = 2
    MaxLate = 1
    MaxDrops = 1
INVARIANTS InStep NoDecisionTwice
CHECK_DEADLOCK FALSE
