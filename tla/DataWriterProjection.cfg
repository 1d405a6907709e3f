\* Re-projection after commits compared with the writer, slice order included.
CONSTANTS
    w1 = w1
    w2 = w2
    s1 = s1
    p1 = p1
    NONE = NONE
    UNSET = UNSET
    Writers <- MCWriters
    BatchSchemas <- MCBatchSchemas
    UserColumns = {"a"}
    Times <- MCTimes
    SourceStates <- MCSourceStates
    PushNames <- MCPushNames
    MaxRows = 2
    MaxBlocks = 4
    MaxPending = 1
    EnvEvents = {"SetWatermark"}
SYMMETRY MCSymmetry
SPECIFICATION Spec
INVARIANT ProjectionExact
