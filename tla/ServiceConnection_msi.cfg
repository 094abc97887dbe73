SPECIFICATION Spec
CONSTANTS
    ServiceKinds = {"databricks"}
    MaxInits = 1
INVARIANTS DocumentedOptionsWork
CHECK_DEADLOCK FALSE
