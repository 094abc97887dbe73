SPECIFICATION FairSpec
CONSTANTS
    x1 = x1
    x2 = x2
    x3 = x3
    Names <- MCNames
    LostReplies = TRUE
    MaxReferences = 3
    MaxFaults = 1
INVARIANTS TypeOK NoRefusalOfItsOwn
PROPERTIES OffTheListIsGone DeletionFinishes
CHECK_DEADLOCK FALSE
