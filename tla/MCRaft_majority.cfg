SPECIFICATION Spec
CONSTANTS
    Server = {s1, s2, s3}
    Key = {k}
    Value = {v1}
    Nil = Nil
    NoOp = NoOp
    SnapshotThreshold = 9
    LateWork = FALSE
    MaxElections = 1
    MaxIndex = 1
    MaxCalls = 1
    MaxCrashes = 0
SYMMETRY Symmetry
VIEW LiveState
INVARIANTS
    MajorityCommits
CHECK_DEADLOCK FALSE
