\* Users dropped behind the server's back, failing commands and lost replies.
SPECIFICATION FairSpec
CONSTANTS
    c1 = c1
    c2 = c2
    sys = sys
    Collections = {c1, c2}
    SystemCollections = {sys}
    Grants <- MCGrants
    Requests <- MCRequests
    Modes = {"mongodb", "atlas"}
    RoleDropsAlone = FALSE
    LostReplies = TRUE
    MaxFaults = 2
    MaxDrops = 3
INVARIANTS
    TypeOK
    NoExcess
    KeptInEffect
PROPERTIES
    ImplementsGrantLedger
    RevokesComplete
