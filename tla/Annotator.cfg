\* Every frame of up to three rows with event times 1, 2 or null (or no
\* event-time column), two start offsets and every previous watermark.
\* stage() ends after the read-back, or after write_output for no rows.
CONSTANTS
    NULL = NULL
    NONE = NONE
    BadInputSchema = BadInputSchema
    Times = {1, 2}
    MaxRows = 3
    StartOffsets = {0, 3}
    UserColumns = {"a", "b"}
    MaxCols = 2

SPECIFICATION Spec
CHECK_DEADLOCK FALSE
INVARIANT TypeOK
INVARIANT SliceIntervalExact
INVARIANT OutputLayout
