SPECIFICATION HttpSpec
CONSTANTS
    Server = {s1, s2}
    Key = {k}
    Value = {v1}
    Nil = Nil
    NoOp = NoOp
    SnapshotThreshold = 9
    LateWork = FALSE
    MaxElections = 2
    MaxIndex = 2
    MaxCalls = 1
    MaxCrashes = 1
    Client = {c}
    Mortal = {s1}
    MaxLost = 1
INVARIANTS
    HttpTypeOK
    EntriesFromLeaders
    RedirectedElsewhere
PROPERTIES
    Answered
    OldLoopsEnd
    
CHECK_DEADLOCK FALSE
