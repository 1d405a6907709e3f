---------------------------- MODULE InputSchema ----------------------------
(***************************************************************************)
(* The schema of a frame on its way through DataWriterDataFusion::stage    *)
(* (src/src/infra/ingest-datafusion/src/writer.rs): validate_input,        *)
(* normalize_raw_result, and the columns with_system_columns adds and      *)
(* selects.  A schema is a sequence of columns, each a name and an arrow   *)
(* data type; the vocabulary is the default one.                          *)
(***************************************************************************)
EXTENDS Sequences, SequencesExt

CONSTANT UserColumns    \* names of data columns other than the vocabulary's

\* DatasetVocabulary::default()
OffsetCol     == "offset"
SystemTimeCol == "system_time"
EventTimeCol  == "event_time"

\* arrow DataTypes: Timestamp(Millisecond, "UTC"), Timestamp(Nanosecond,
\* None) for every other timestamp, Date32 and Int64 for the rest.
TsMsUtc        == "TimestampMsUtc"
TimestampTypes == {TsMsUtc, "TimestampNs"}
DataTypes      == TimestampTypes \cup {"Date32", "Int64"}

Column == [name : {OffsetCol, SystemTimeCol, EventTimeCol} \cup UserColumns, type : DataTypes]

Names(cols) == [i \in DOMAIN cols |-> cols[i].name]

HasColumn(cols, name) == \E i \in DOMAIN cols : cols[i].name = name

-----------------------------------------------------------------------------
(* validate_input and normalize_raw_result *)

\* mutant: only the offset column is checked for a conflicting name
ValidateInputOffsetOnly(cols) ==
    /\ ~HasColumn(cols, OffsetCol)
    /\ \A i \in DOMAIN cols :
         cols[i].name = EventTimeCol => cols[i].type \in TimestampTypes \cup {"Date32"}

\* No column takes a system column's name, and an event-time column is a
\* Date or a Timestamp.
ValidateInput(cols) ==
    /\ \A c \in {OffsetCol, SystemTimeCol} : ~HasColumn(cols, c)
    /\ \A i \in DOMAIN cols :
         cols[i].name = EventTimeCol => cols[i].type \in TimestampTypes \cup {"Date32"}

\* Every Timestamp column is cast to Timestamp(Millisecond, "UTC") under
\* its own name; the frame is returned as is when none needs it.
NormalizeRawResult(cols) ==
    [i \in DOMAIN cols |->
        IF cols[i].type \in TimestampTypes THEN [cols[i] EXCEPT !.type = TsMsUtc] ELSE cols[i]]

\* The schema with_system_columns gives a normalised frame: system_time
\* and, if the frame has none, event_time are added as millisecond UTC
\* literals, offset as Int64, and the columns are selected as offset,
\* system_time, event_time, then the other columns in their order.
WithSystemColumnsSchema(cols) ==
    LET raw == SelectSeq(cols, LAMBDA c : c.name # EventTimeCol)
        et  == IF HasColumn(cols, EventTimeCol)
               THEN cols[SelectInSeq(cols, LAMBDA c : c.name = EventTimeCol)].type
               ELSE TsMsUtc
    IN <<[name |-> OffsetCol, type |-> "Int64"],
         [name |-> SystemTimeCol, type |-> TsMsUtc],
         [name |-> EventTimeCol, type |-> et]>> \o raw

\* The schema of the slice stage() writes for an input frame that passed
\* validate_input: normalised, merged (Append returns the frame as is) and
\* annotated.
StagedSchema(cols) == WithSystemColumnsSchema(NormalizeRawResult(cols))

====
