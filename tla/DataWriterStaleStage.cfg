\* One writer whose caller stages two results before committing either:
\* the second commit carries offsets computed before the first.
CONSTANTS
    w1 = w1
    w2 = w2
    s1 = s1
    p1 = p1
    NONE = NONE
    UNSET = UNSET
    Writers <- MCOneWriter
    BatchSchemas <- MCBatchSchemas
    UserColumns = {"a"}
    Times <- MCTimes
    SourceStates <- MCSourceStates
    PushNames <- MCPushNames
    MaxRows = 2
    MaxBlocks = 4
    MaxPending = 2
    EnvEvents = {"SetWatermark"}

SPECIFICATION Spec
INVARIANT OffsetsContiguous
