\* ClickHouse, with a table that is absent while an overlapping grant is revoked.
SPECIFICATION Spec
CONSTANTS
    t1 = t1
    t2 = t2
    Tables = {t1, t2}
    Grants <- MCGrants
    Requests <- MCNarrowing
    SqlProviders = {"clickhouse"}
    ChangingMidCall = {}
    LostReplies = FALSE
    MaxFaults = 0
    MaxChanges = 1
INVARIANT GrantsSurviveDrop
