\* Replies may be lost; names may be taken before the first call.
SPECIFICATION FairSpec
CONSTANTS
    base = base
    derived = derived
    Leftover = Leftover
    Accounts = {base, derived}
    BaseOf <- MCBaseOf
    LeftoverNames <- MCLeftoverNames
    CredentialType = "auto"
    MaxFaults = 2
    LostReplies = TRUE
INVARIANTS
    TypeOK
    NothingEscapes
    CleanUnlessInDoubt
    LiveIsWhole
    DropNeverBlocked
PROPERTIES
    CleansOnlyItsOwn
    CallsComplete
CHECK_DEADLOCK FALSE
