\* Oracle, with two grants that overlap revoked together.
SPECIFICATION Spec
CONSTANTS
    t1 = t1
    t2 = t2
    Tables = {t1, t2}
    Grants <- MCGrants
    Requests <- MCRequests
    SqlProviders = {"oracle"}
    ChangingMidCall = {}
    LostReplies = FALSE
    MaxFaults = 0
    MaxChanges = 0
INVARIANT RefusalIsHarmless
