SPECIFICATION Spec
CONSTANTS
    Panels = {"active"}
    Ops = {1, 2}
    Final = 2
    FeedLimit = 2
    PageSize = 2
    MaxFetches = 2
    MaxLate = 1
    MaxDrops = 0
INVARIANT InStepCrossed
CHECK_DEADLOCK FALSE
