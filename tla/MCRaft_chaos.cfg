SPECIFICATION Spec
CONSTANTS
    Server = {s1, s2}
    Key = {k}
    Value = {v1}
    Nil = Nil
    NoOp = NoOp
    SnapshotThreshold = 1
    LateWork = TRUE
    MaxElections = 2
    MaxIndex = 3
    MaxCalls = 1
    MaxCrashes = 1
SYMMETRY Symmetry
VIEW LiveState
INVARIANTS
    TypeOK
    SnapshotMeetsLog
    LogContiguous
    
    LeaderHintWasElected
    IdleWasLeader
    EntriesFromLeaders
CHECK_DEADLOCK FALSE
