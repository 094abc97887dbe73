\* The role is dropped and the user stays.
SPECIFICATION Spec
CONSTANTS
    c1 = c1
    c2 = c2
    sys = sys
    Collections = {c1, c2}
    SystemCollections = {sys}
    Grants <- MCGrants
    Requests <- MCRequests
    Modes = {"mongodb", "atlas"}
    RoleDropsAlone = TRUE
    LostReplies = FALSE
    MaxFaults = 0
    MaxDrops = 1
INVARIANT KeptInEffect
