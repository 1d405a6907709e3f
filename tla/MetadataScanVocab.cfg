\* Chains that set the vocabulary twice before any data is written.
CONSTANTS
    S1 = S1
    c1 = c1
    s1 = s1
    p1 = p1
    v1 = v1
    v2 = v2
    vd = vd
    NONE = NONE
    UNSET = UNSET
    Schemas <- MCSchemas
    Times = {1}
    SourceStates <- MCSourceStates
    Checkpoints <- MCCheckpoints
    PushNames <- MCPushNames
    Merges = {"Snapshot"}
    Vocabs <- MCVocabs
    DefaultVocab = vd
    EventKinds = {"SetVocab", "AddPushSource", "AddData"}
    MaxBlocks = 3

SPECIFICATION Spec
CHECK_DEADLOCK FALSE
INVARIANT VocabNewestWins
