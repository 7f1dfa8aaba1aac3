SPECIFICATION Spec
CONSTANTS
    Panels = {"history"}
    Ops = {1, 2}
    Final = 2
    FeedLimit = 2
    PageSize = 1
    MaxFetches = 2
    MaxLate = 1
    MaxDrops = 1
INVARIANT TotalIsRight
CHECK_DEADLOCK FALSE
