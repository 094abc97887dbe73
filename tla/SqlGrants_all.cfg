\* All providers; tables change at any time, on Snowflake between calls only.
SPECIFICATION Spec
CONSTANTS
    t1 = t1
    t2 = t2
    Tables = {t1, t2}
    Grants <- MCGrants
    Requests <- MCRequests
    SqlProviders = {"clickhouse", "databricks", "sqlserver", "snowflake", "oracle"}
    ChangingMidCall = {"clickhouse", "databricks", "sqlserver", "oracle"}
    LostReplies = TRUE
    MaxFaults = 1
    MaxChanges = 2
INVARIANTS
    TypeOK
    NoExcess
    RecordedInEffect
    AppliedOrWaiting
