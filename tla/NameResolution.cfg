SPECIFICATION FairSpec
CONSTANTS
    NameProviders = {"clickhouse", "databricks", "sqlserver", "oracle", "snowflake"}
    Words <- MCWords
    Plain <- MCPlain
    Like <- MCLike
    MaxObjects = 2
    MaxChanges = 4
    MaxFaults = 1
INVARIANTS TypeOK NeverAnotherTable AppliedIsHeld RevokedIsGone
PROPERTIES RevocationCompletes
CHECK_DEADLOCK FALSE
