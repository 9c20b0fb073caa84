SPECIFICATION Spec
CONSTANTS
    Key = {k}
    Value = {}
    Nil = Nil
    NoOp = NoOp
    SnapshotThreshold = 1
    Term = {1, 2}
    MaxIndex = 3
    MaxBatch = 2
    MaxCrashes = 1
    MaxErrors = 1
CONSTRAINT Undamaged
INVARIANTS
    StorageTypeOK
    AcknowledgedFound
PROPERTIES
    ImplementsDurableLog
CHECK_DEADLOCK FALSE
