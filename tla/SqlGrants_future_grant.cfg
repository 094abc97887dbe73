\* Snowflake, with a table created in the middle of a call: a grant on *.
SPECIFICATION Spec
CONSTANTS
    t1 = t1
    t2 = t2
    Tables = {t1, t2}
    Grants <- MCGrants
    Requests <- MCRequests
    SqlProviders = {"snowflake"}
    ChangingMidCall = {"snowflake"}
    LostReplies = FALSE
    MaxFaults = 0
    MaxChanges = 1
INVARIANT RecordedInEffect
