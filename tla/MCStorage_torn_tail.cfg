SPECIFICATION Spec
CONSTANTS
    Key = {k}
    Value = {}
    Nil = Nil
    NoOp = NoOp
    SnapshotThreshold = 9
    Term = {1, 2}
    MaxIndex = 3
    MaxBatch = 2
    MaxCrashes = 1
    MaxErrors = 0
INVARIANTS
    AppendIsDurable
CHECK_DEADLOCK FALSE
