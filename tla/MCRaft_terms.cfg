SPECIFICATION Spec
CONSTANTS
    Server = {s1, s2, s3}
    Key = {k}
    Value = {}
    Nil = Nil
    NoOp = NoOp
    SnapshotThreshold = 9
    LateWork = FALSE
    MaxElections = 3
    MaxIndex = 2
    MaxCalls = 1
    MaxCrashes = 0
SYMMETRY Symmetry
VIEW LiveState
INVARIANTS
    ElectionSafety
    LogMatching
CHECK_DEADLOCK FALSE
