\* Every root chain of up to four blocks, scanned for no source and for a
\* named push source.
CONSTANTS
    S1 = S1
    c1 = c1
    s1 = s1
    p1 = p1
    v1 = v1
    v2 = v2
    vd = vd
    NONE = NONE
    UNSET = UNSET
    Schemas <- MCSchemas
    Times = {1}
    SourceStates <- MCSourceStates
    Checkpoints <- MCCheckpoints
    PushNames <- MCPushNames
    Merges = {"Append", "Ledger", "Snapshot"}
    Vocabs <- MCVocabs
    DefaultVocab = vd
    EventKinds = {"SetDataSchema", "AddData", "SetWatermark", "SetPollingSource", "AddPushSource", "SetVocab", "DisablePushSource", "SetInfo"}
    MaxBlocks = 4

SPECIFICATION Spec
CHECK_DEADLOCK FALSE
INVARIANT ScanMatchesSpec
