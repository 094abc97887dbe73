SPECIFICATION Spec
CONSTANTS
    NameProviders = {"snowflake"}
    Words <- MCWords
    Plain <- MCPlain
    Like <- MCLike
    MaxObjects = 2
    MaxChanges = 2
    MaxFaults = 0
PROPERTIES AppliedToFound
CHECK_DEADLOCK FALSE
