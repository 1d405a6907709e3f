\* The same frames, watermark compared with spec 4.4 h: a frame whose
\* event times are all null.
CONSTANTS
    NULL = NULL
    NONE = NONE
    BadInputSchema = BadInputSchema
    Times = {1, 2}
    MaxRows = 3
    StartOffsets = {0, 3}
    UserColumns = {"a", "b"}
    MaxCols = 2

SPECIFICATION Spec
CHECK_DEADLOCK FALSE
INVARIANT WatermarkFromEventTimes
