SPECIFICATION Spec
CONSTANTS
    Server = {s1, s2, s3}
    Key = {k}
    Value = {v1}
    Nil = Nil
    NoOp = NoOp
    SnapshotThreshold = 9
    LateWork = FALSE
    MaxElections = 2
    MaxIndex = 3
    MaxCalls = 1
    MaxCrashes = 0
SYMMETRY Symmetry
VIEW LiveState
INVARIANTS
    StateMachineSafety
    LeaderCompleteness
    
PROPERTIES
    VotesStand
    LeaderKeepsTerm
CHECK_DEADLOCK FALSE
