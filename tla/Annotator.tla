------------------------------ MODULE Annotator ------------------------------
(***************************************************************************)
(* The system columns of a slice and the statistics read back from it      *)
(* (DataWriterDataFusion::with_system_columns, write_output and           *)
(* compute_offset_and_watermark in                                         *)
(* src/src/infra/ingest-datafusion/src/writer.rs).                         *)
(*                                                                         *)
(* A row is reduced to its event time: a time, or NULL in a nullable      *)
(* event-time column.  A frame without an event-time column takes the     *)
(* fallback (source) event time in every row.  Offsets are               *)
(* row_number() OVER (ORDER BY event_time ASC NULLS LAST) plus            *)
(* start_offset - 1.  The written file is read back for min and max      *)
(* offset and max event time, and the watermark is advanced.              *)
(*                                                                         *)
(* Before that, stage() validates the frame's schema (validate_input) and *)
(* casts its timestamps to milliseconds in UTC (normalize_raw_result); the *)
(* annotated slice puts offset, system_time and event_time first.  A      *)
(* schema is a sequence of columns, each a name and an arrow data type.   *)
(*                                                                         *)
(* Times are milliseconds since the epoch; 0 is the epoch itself.  The    *)
(* checks enumerate every input up to MaxRows rows and MaxCols columns    *)
(* and run the steps of stage() on it.                                    *)
(***************************************************************************)
EXTENDS Integers, Sequences, SequencesExt, FiniteSetsExt, TLC, InputSchema

CONSTANTS
    Times,          \* event times in the data, positive milliseconds
    MaxRows,        \* largest frame, in rows
    StartOffsets,   \* start_offset values: last_offset + 1, or 0
    MaxCols,        \* widest input schema, in columns
    NULL,           \* a null event time
    NONE,           \* Option::None; not computed yet
    BadInputSchema  \* stage() returned StageDataError::BadInputSchema

ASSUME Times \subseteq Nat \ {0} /\ MaxRows \in Nat /\ StartOffsets \subseteq Nat

VARIABLES
    input,      \* the input frame and the arguments stage() passes
    schema,     \* the annotated slice's schema, BadInputSchema, or NONE
    out,        \* the annotated slice as written, in file order, or NONE
    stats       \* [start, end, wm] read back from the file, or NONE

vars == <<input, schema, out, stats>>

Epoch == 0

Schemas ==
    {cols \in UNION {[1..n -> Column] : n \in 0..MaxCols} : IsInjective(Names(cols))}

Inputs ==
    [cols : Schemas,
     ets : UNION {[1..n -> Times \cup {NULL}] : n \in 0..MaxRows},
     fallback : Times,
     start : StartOffsets,
     prev : Times \cup {NONE}]

-----------------------------------------------------------------------------
(* with_system_columns *)

\* The event-time column: the data's own, or the fallback event time.
EventTimeColumn(in) ==
    IF HasColumn(in.cols, EventTimeCol) THEN in.ets ELSE [i \in 1..Len(in.ets) |-> in.fallback]

\* col(event_time).sort(true, false): ascending, nulls last
EtBefore(a, b) == a # NULL /\ (b = NULL \/ a < b)

\* mutant: the row number is added to start_offset without the - 1
RowOffsetNoMinusOne(i, start) == i + start

\* mutant: row_number taken as 0-based and still shifted by - 1
RowOffsetZeroBased(i, start) == (i - 1) + (start - 1)

\* cast(row_number + (start_offset - 1), Int64)
RowOffset(i, start) == i + (start - 1)

\* One partition, rows numbered in event-time order; the window output,
\* and so the file, is in that order.
WithSystemColumns(in) ==
    LET sorted == SortSeq(EventTimeColumn(in), EtBefore)
    IN [i \in 1..Len(sorted) |-> [offset |-> RowOffset(i, in.start), et |-> sorted[i]]]

-----------------------------------------------------------------------------
(* write_output and compute_offset_and_watermark *)

\* write_output: a file only when there are rows.
HasRecords(slice) == Len(slice) > 0

\* max(event_time) over the file.  The aggregate is null when every event
\* time is null; Int64/TimestampMillisecondArray::value(0) then reads the
\* null slot, which arrow fills with zero: the epoch.
MaxEventTime(slice) ==
    LET ts == {slice[i].et : i \in 1..Len(slice)} \ {NULL}
    IN IF ts = {} THEN Epoch ELSE Max(ts)

\* "Ensure watermark is monotonically non-decreasing"
OutputWatermark(prev, et) ==
    IF prev = NONE \/ prev < et THEN et ELSE prev

ComputeOffsetAndWatermark(slice, prev) ==
    LET offs == {slice[i].offset : i \in 1..Len(slice)}
    IN [start |-> Min(offs), end |-> Max(offs),
        wm |-> OutputWatermark(prev, MaxEventTime(slice))]

-----------------------------------------------------------------------------

Init ==
    /\ input \in Inputs
    /\ schema = NONE
    /\ out = NONE
    /\ stats = NONE

\* validate_input, returning BadInputSchema, or normalize_raw_result,
\* with_system_columns and write_output.
Annotate ==
    /\ schema = NONE
    /\ \/ /\ ValidateInput(input.cols)
          /\ schema' = WithSystemColumnsSchema(NormalizeRawResult(input.cols))
          /\ out' = WithSystemColumns(input)
       \/ /\ ~ValidateInput(input.cols)
          /\ schema' = BadInputSchema
          /\ UNCHANGED out
    /\ UNCHANGED <<input, stats>>

\* compute_offset_and_watermark, called only when a file was written.
ReadBack ==
    /\ out # NONE /\ stats = NONE
    /\ HasRecords(out)
    /\ stats' = ComputeOffsetAndWatermark(out, input.prev)
    /\ UNCHANGED <<input, schema, out>>

Next == Annotate \/ ReadBack

Spec == Init /\ [][Next]_vars

-----------------------------------------------------------------------------
(* Properties *)

TypeOK ==
    /\ input \in Inputs
    /\ schema \in Seq(Column) \cup {NONE, BadInputSchema}
    /\ out \in Seq([offset : Nat, et : Times \cup {NULL}]) \cup {NONE}
    /\ stats \in [start : Nat, end : Nat, wm : Nat] \cup {NONE}

\* A slice that is written has the layout ODF readers rely on: offset,
\* system_time and event_time first, the frame's other columns after them
\* in their order, no name twice, every timestamp in milliseconds UTC.
\* The names come from the vocabulary and the frame, checked by
\* validate_input before with_system_columns adds and selects columns.
OutputLayout ==
    schema \notin {NONE, BadInputSchema} =>
        /\ IsInjective(Names(schema))
        /\ SubSeq(Names(schema), 1, 3) = <<OffsetCol, SystemTimeCol, EventTimeCol>>
        /\ SubSeq(Names(schema), 4, Len(schema))
             = SelectSeq(Names(input.cols), LAMBDA n : n # EventTimeCol)
        /\ \A i \in DOMAIN schema : schema[i].type \in TimestampTypes => schema[i].type = TsMsUtc

\* The interval read back is exactly [start_offset, start_offset + n - 1]
\* and every offset in it is taken by one row: the slice continues the
\* chain's offsets without gap or overlap, as DataWriter's SliceInterval
\* assumes.
SliceIntervalExact ==
    stats # NONE =>
        /\ stats.start = input.start
        /\ stats.end = input.start + Len(input.ets) - 1
        /\ {out[i].offset : i \in 1..Len(out)} = stats.start..stats.end
        /\ Len(out) = Len(input.ets)

\* Spec 4.4 h: new_wm = max(prev_wm, max(event_time)), an absent prior
\* watermark counting as -infinity; the watermark is an event time of the
\* data or the previous watermark.
WatermarkFromEventTimes ==
    stats # NONE =>
        stats.wm \in {input.prev} \cup {out[i].et : i \in 1..Len(out)}

====
