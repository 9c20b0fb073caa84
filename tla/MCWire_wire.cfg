SPECIFICATION Spec
CONSTANTS
    Conn = {c1}
    Request <- MCRequest
    ReplyTerm = {5, 6}
    None = None
    Failed = Failed
    Character = {"a", "=", " "}
    MaxText = 2
INVARIANTS
    WireTypeOK
    SetIsApplied
PROPERTIES
    ImplementsRpc
    CallsEnd
CHECK_DEADLOCK FALSE
