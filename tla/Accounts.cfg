SPECIFICATION Spec
CONSTANTS
    Users = {"admin", "member", "other"}
    Admins = {"admin"}
    MaxOrgs = 2
    Tabs = {"tab"}
    Overlap = {}
    MaxLost = 1
    MaxMoves = 2
INVARIANTS OneOrganizationOnThePage PanelsAreLive AssignedOnNextLoad RosterIsCurrent
