SPECIFICATION Spec
CONSTANTS
    Users = {"admin"}
    Admins = {"admin"}
    MaxOrgs = 2
    Tabs = {"tab"}
    Overlap = {"open"}
    MaxLost = 0
    MaxMoves = 0
INVARIANT OneOrganizationOnThePage
CHECK_DEADLOCK FALSE
