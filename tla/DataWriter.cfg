\* Two writers racing on one dataset, built for the polling source, an
\* unnamed or a named push source, while sources and watermarks are added
\* to the chain; callers commit each staged result before staging the next
\* (write()).
CONSTANTS
    w1 = w1
    w2 = w2
    s1 = s1
    p1 = p1
    NONE = NONE
    UNSET = UNSET
    Writers <- MCWriters
    BatchSchemas <- MCBatchSchemas
    UserColumns = {"a"}
    Times <- MCTimes
    SourceStates <- MCSourceStates
    PushNames <- MCPushNames
    MaxRows = 2
    MaxBlocks = 4
    MaxPending = 1
    EnvEvents = {"SetWatermark", "SetPollingSource", "AddPushSource"}

SYMMETRY MCSymmetry
SPECIFICATION Spec
INVARIANT TypeOK
 
INVARIANT WatermarkMonotone
INVARIANT SchemaFrozen
INVARIANT NoEmptyAddData
INVARIANT ProjectionSound
