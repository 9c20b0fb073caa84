SPECIFICATION Spec
CONSTANTS
    Server = {s1, s2, s3, s4}
    Key = {k}
    Value = {v1, v2}
    Nil = Nil
    NoOp = NoOp
    SnapshotThreshold = 1
    LateWork = FALSE
    MaxElections = 2
    MaxIndex = 2
    MaxCalls = 1
    MaxCrashes = 0
SYMMETRY Symmetry
VIEW LiveState
CONSTRAINT OneAfterTheOther
INVARIANTS
    StateMachineSafety
CHECK_DEADLOCK FALSE
