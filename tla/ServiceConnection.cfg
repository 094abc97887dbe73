SPECIFICATION Spec
CONSTANTS
    ServiceKinds <- AllKinds
    MaxInits = 2
INVARIANTS TypeOK FailedInitChangesNothing OneConnectionInUse DocumentedMethodsWork
CHECK_DEADLOCK FALSE
