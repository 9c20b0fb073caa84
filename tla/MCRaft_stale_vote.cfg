SPECIFICATION Spec
CONSTANTS
    Server = {s1, s2, s3}
    Key = {k}
    Value = {v1}
    Nil = Nil
    NoOp = NoOp
    SnapshotThreshold = 9
    LateWork = TRUE
    MaxElections = 3
    MaxIndex = 1
    MaxCalls = 0
    MaxCrashes = 0
SYMMETRY Symmetry
VIEW LiveState
INVARIANTS
    ElectionSafety
CHECK_DEADLOCK FALSE
