----------------------------- MODULE DataWriter -----------------------------
(***************************************************************************)
(* The bitemporal data writer of a root dataset (DataWriterDataFusion in   *)
(* src/src/infra/ingest-datafusion/src/writer.rs) and the metadata chain   *)
(* it appends to.                                                          *)
(*                                                                         *)
(* Several writers share one dataset.  Each writer holds a projection of   *)
(* the chain (DataWriterMetadataState), built by scanning the chain        *)
(* (with_metadata_state_scanned).  stage() turns an input batch into an    *)
(* AddData event without touching persisted state; commit() appends an     *)
(* optional SetDataSchema block and then the AddData block, each through   *)
(* commit_event, which compare-and-swaps on the expected previous head.    *)
(* Other components of the system append source, watermark and vocabulary *)
(* events to the same chain.                                               *)
(*                                                                         *)
(* Data is abstracted: a batch is its column schema (InputSchema), its row *)
(* count and the maximum event time of its rows; a block hash is          *)
(* the block's position in the chain, which is unique because the chain   *)
(* only grows; a slice hash is the position of the AddData block that      *)
(* references it.  The merge strategy is Append (the default when no      *)
(* source declares one), under which the merged frame is the input frame. *)
(***************************************************************************)
EXTENDS Integers, Sequences, SequencesExt, FiniteSets, TLC

CONSTANTS
    Writers,        \* writer instances (tasks) working on the same dataset
    BatchSchemas,   \* column schemas an input frame can have
    UserColumns,    \* names of its columns other than the vocabulary's
    Times,          \* event times / watermarks, a finite set of integers
    SourceStates,   \* opaque upstream cursors passed in WriteDataOpts
    PushNames,      \* names of push sources (AddPushSource.source_name)
    MaxRows,        \* largest batch, in rows
    MaxBlocks,      \* bound on the length of the metadata chain
    MaxPending,     \* staged results a caller may hold before committing
    EnvEvents,      \* kinds of event other components append in this model
    NONE,           \* Option::None
    UNSET           \* "not yet found" while scanning (outer Option)

ASSUME MaxRows \in Nat \ {0} /\ MaxBlocks \in Nat \ {0} /\ MaxPending \in Nat \ {0}
ASSUME Times \subseteq Int

VARIABLES
    chain,      \* the persisted metadata chain, oldest block first
    meta,       \* meta[w]: writer w's DataWriterMetadataState, or NONE before build
    srcName,    \* srcName[w]: source_name the builder of w scanned with
    pending,    \* pending[w]: StageDataResults returned to w's caller, not yet committed
    pc,         \* pc[w]: "idle", or "data" when suspended between the two commits
    cur         \* cur[w]: the StageDataResult being committed

vars == <<chain, meta, srcName, pending, pc, cur>>

-----------------------------------------------------------------------------
(* Values *)

Frame == INSTANCE InputSchema

\* The schema of the slice staged for a batch.
BatchSchema(batch) == Frame!StagedSchema(batch.cols)

\* The output schemas batches that pass validation produce.
Schemas == {Frame!StagedSchema(c) : c \in {c \in BatchSchemas : Frame!ValidateInput(c)}}

OptTime   == Times \cup {NONE}
OptState  == SourceStates \cup {NONE}
OptName   == PushNames \cup {NONE}
Source    == [kind : {"polling"}] \cup [kind : {"push"}, name : OptName]
Interval  == [start : Nat, end : Nat, schema : Schemas]
Slice     == [start : Nat, end : Nat, schema : Schemas, slice : Nat]

Block ==
    [kind : {"Seed"}]
    \cup [kind : {"SetDataSchema"}, schema : Schemas]
    \cup [kind : {"AddData"}, data : Slice \cup {NONE}, wm : OptTime, ss : OptState]
    \cup [kind : {"SetWatermark"}, wm : Times]
    \cup [kind : {"SetPollingSource"}]
    \cup [kind : {"AddPushSource"}, name : OptName]

MetaState ==
    [head : Nat, schema : Schemas \cup {NONE}, source : Source \cup {NONE},
     slices : Seq(Nat), lastOffset : Nat \cup {NONE},
     lastWm : OptTime, lastSs : OptState]

\* The input of one stage() call: None, or a frame of n rows whose maximum
\* event time is et.
Batches == {NONE} \cup [cols : BatchSchemas, n : 0..MaxRows, et : Times]

StagedResult ==
    [data : Interval \cup {NONE}, wm : OptTime, ss : OptState,
     schema : Schemas \cup {NONE}]

HeadHash == Len(chain)

-----------------------------------------------------------------------------
(* Metadata projector: with_metadata_state_scanned *)

ScanInit ==
    [schema |-> NONE, source |-> NONE, slices |-> <<>>, lastOffset |-> NONE,
     lastWm |-> UNSET, lastSs |-> UNSET, err |-> FALSE]

\* SetDataSchema: the newest one is the schema
OnSetDataSchema(acc, b) == [acc EXCEPT !.schema = IF @ = NONE THEN b.schema ELSE @]

\* mutant: last_offset overwritten by every older AddData
OnAddDataOldestOffset(acc, b) ==
    [acc EXCEPT
        !.slices     = IF b.data = NONE THEN @ ELSE Append(@, b.data.slice),
        !.lastOffset = IF b.data # NONE THEN b.data.end ELSE @,
        !.lastWm     = IF @ = UNSET THEN b.wm ELSE @,
        !.lastSs     = IF @ = UNSET THEN b.ss ELSE @]

\* AddData: every slice is collected (newest first, as the loop pushes
\* them); offset, watermark and source state come from the newest block.
OnAddData(acc, b) ==
    [acc EXCEPT
        !.slices     = IF b.data = NONE THEN @ ELSE Append(@, b.data.slice),
        !.lastOffset = IF b.data # NONE /\ @ = NONE THEN b.data.end ELSE @,
        !.lastWm     = IF @ = UNSET THEN b.wm ELSE @,
        !.lastSs     = IF @ = UNSET THEN b.ss ELSE @]

OnSetWatermark(acc, b) == [acc EXCEPT !.lastWm = IF @ = UNSET THEN b.wm ELSE @]

\* SetPollingSource: an error when a push source was asked for
OnSetPollingSource(src, acc) ==
    IF src # NONE THEN [acc EXCEPT !.err = TRUE]
    ELSE [acc EXCEPT !.source = IF @ = NONE THEN [kind |-> "polling"] ELSE @]

\* AddPushSource: adopted when it has the requested name (both may be None)
OnAddPushSource(src, acc, b) ==
    [acc EXCEPT !.source = IF @ = NONE /\ src = b.name
                           THEN [kind |-> "push", name |-> b.name] ELSE @]

\* One iteration of the scan loop, blocks visited newest first; after an
\* error the loop has returned.
ScanStep(src, acc, b) ==
    IF acc.err THEN acc
    ELSE CASE b.kind = "SetDataSchema"    -> OnSetDataSchema(acc, b)
           [] b.kind = "AddData"          -> OnAddData(acc, b)
           [] b.kind = "SetWatermark"     -> OnSetWatermark(acc, b)
           [] b.kind = "SetPollingSource" -> OnSetPollingSource(src, acc)
           [] b.kind = "AddPushSource"    -> OnAddPushSource(src, acc, b)
           [] OTHER                       -> acc

ScanBlocks(src, c) ==
    FoldLeft(LAMBDA a, b : ScanStep(src, a, b), ScanInit, Reverse(c))

OrNone(x) == IF x = UNSET THEN NONE ELSE x

\* The state the builder produces from chain c, or NONE on SourceNotFound.
Project(src, c) ==
    LET acc == ScanBlocks(src, c) IN
    IF acc.err \/ (acc.source = NONE /\ src # NONE) THEN NONE
    ELSE [head |-> Len(c), schema |-> acc.schema, source |-> acc.source,
          slices |-> acc.slices, lastOffset |-> acc.lastOffset,
          lastWm |-> OrNone(acc.lastWm), lastSs |-> OrNone(acc.lastSs)]

-----------------------------------------------------------------------------
(* stage() helpers *)

ValidateInput(batch) == Frame!ValidateInput(batch.cols)

\* mutant: a schema commit whenever the staged result carries a schema
NeedsSchemaCommitAlways(m, s) == s.schema # NONE

\* mutant: validate_output_schema not called
ValidateOutputSchemaSkipped(m, s) == TRUE

ValidateOutputSchema(m, s) == m.schema = NONE \/ m.schema = s

StartOffsetMinusOne(m) == IF m.lastOffset = NONE THEN -1 ELSE m.lastOffset

StartOffset(m) == IF m.lastOffset = NONE THEN 0 ELSE m.lastOffset + 1

\* mutant: the watermark is the slice's maximum event time
AdvanceWatermarkToEventTime(prev, et) == et

\* compute_offset_and_watermark: the watermark never goes backwards.
AdvanceWatermark(prev, et) ==
    IF prev = NONE \/ prev < et THEN et ELSE prev

\* with_system_columns: rows are numbered by row_number() over event time
\* plus start_offset - 1, so n rows take the offsets start .. start + n - 1.
SliceInterval(m, n, schema) ==
    [start |-> StartOffset(m), end |-> StartOffset(m) + n - 1, schema |-> schema]

\* write_output: a frame with no rows produces no file.
HasOutputFile(batch) == batch.n > 0

\* The AddDataParams and output schema of a batch that passed validation.
PrepareAddData(m, batch, ss) ==
    IF batch = NONE
    THEN [data |-> NONE, wm |-> m.lastWm, ss |-> ss, schema |-> NONE]
    ELSE IF ~HasOutputFile(batch)
    THEN [data |-> NONE, wm |-> m.lastWm, ss |-> ss, schema |-> BatchSchema(batch)]
    ELSE [data |-> SliceInterval(m, batch.n, BatchSchema(batch)),
          wm |-> AdvanceWatermark(m.lastWm, batch.et),
          ss |-> ss, schema |-> BatchSchema(batch)]

\* mutant: the new source state is compared with None
IsEmptyCommitSourceStateNone(add, m) ==
    /\ add.data = NONE
    /\ add.wm = m.lastWm
    /\ add.ss = NONE

IsEmptyCommit(add, m) ==
    /\ add.data = NONE
    /\ add.wm = m.lastWm
    /\ add.ss = m.lastSs

-----------------------------------------------------------------------------
(* commit() helpers *)

NeedsSchemaCommit(m, s) == m.schema = NONE /\ s.schema # NONE

AddDataBlock(s, h) ==
    [kind |-> "AddData",
     data |-> IF s.data = NONE THEN NONE ELSE [slice |-> h] @@ s.data,
     wm   |-> s.wm, ss |-> s.ss]

\* mutant: last_source_state only overwritten by Some
AfterCommitKeepSourceState(m, b, h) ==
    [m EXCEPT !.head       = h,
              !.lastOffset = IF b.data # NONE THEN b.data.end ELSE @,
              !.slices     = IF b.data # NONE THEN Append(@, b.data.slice) ELSE @,
              !.lastWm     = b.wm,
              !.lastSs     = IF b.ss = NONE THEN @ ELSE b.ss]

\* "Update state for the next append" from the block read back at hash h.
AfterCommit(m, b, h) ==
    [m EXCEPT !.head       = h,
              !.lastOffset = IF b.data # NONE THEN b.data.end ELSE @,
              !.slices     = IF b.data # NONE THEN Append(@, b.data.slice) ELSE @,
              !.lastWm     = b.wm,
              !.lastSs     = b.ss]

-----------------------------------------------------------------------------
(* Initial state: a dataset that holds only its Seed, no writer built yet. *)

Init ==
    /\ chain   = <<[kind |-> "Seed"]>>
    /\ meta    = [w \in Writers |-> NONE]
    /\ srcName = [w \in Writers |-> NONE]
    /\ pending = [w \in Writers |-> <<>>]
    /\ pc      = [w \in Writers |-> "idle"]
    /\ cur     = [w \in Writers |-> NONE]

-----------------------------------------------------------------------------
(* Writer actions *)

\* DataWriterDataFusionBuilder::with_metadata_state_scanned followed by
\* build(): a (re)built writer replaces the old one, whose staged results
\* the caller drops.  A scan that fails with SourceNotFound changes nothing.
Build(w) ==
    /\ pc[w] = "idle"
    /\ \E src \in OptName :
         /\ Project(src, chain) # NONE
         /\ meta'    = [meta EXCEPT ![w] = Project(src, chain)]
         /\ srcName' = [srcName EXCEPT ![w] = src]
         /\ pending' = [pending EXCEPT ![w] = <<>>]
    /\ UNCHANGED <<chain, pc, cur>>

\* DataWriter::stage: validate the input, merge, add system columns, check
\* the output schema, write the slice and compute offsets and watermark.
\* The returns with BadInputSchema and EmptyCommit leave every variable
\* unchanged, so the guard is that none of them is taken.
Stage(w) ==
    /\ pc[w] = "idle"
    /\ meta[w] # NONE
    /\ Len(pending[w]) < MaxPending
    /\ \E batch \in Batches, ss \in OptState :
         LET add == PrepareAddData(meta[w], batch, ss) IN
         /\ batch # NONE => /\ ValidateInput(batch)
                            /\ ValidateOutputSchema(meta[w], BatchSchema(batch))
         /\ ~IsEmptyCommit(add, meta[w])
         /\ pending' = [pending EXCEPT ![w] = Append(@, add)]
    /\ UNCHANGED <<chain, meta, srcName, pc, cur>>

\* DataWriter::commit, first await: the SetDataSchema commit, taken when the
\* writer has seen no schema and the staged result carries one.  On success
\* the writer's head and schema are updated before the AddData commit; on
\* CommitError the call ends and the staged result is gone.
CommitSchema(w) ==
    /\ pc[w] = "idle"
    /\ \E i \in 1..Len(pending[w]) :
         LET m == meta[w]
             s == pending[w][i]
         IN /\ NeedsSchemaCommit(m, s)
            /\ pending' = [pending EXCEPT ![w] = RemoveAt(@, i)]
            /\ \/ /\ m.head = HeadHash
                  /\ HeadHash < MaxBlocks
                  /\ chain' = Append(chain, [kind |-> "SetDataSchema", schema |-> s.schema])
                  /\ meta'  = [meta EXCEPT ![w].head = HeadHash + 1, ![w].schema = s.schema]
                  /\ pc'    = [pc EXCEPT ![w] = "data"]
                  /\ cur'   = [cur EXCEPT ![w] = s]
               \/ \* head moved (CAS lost) or the commit failed in the store
                  UNCHANGED <<chain, meta, pc, cur>>
    /\ UNCHANGED srcName

\* commit_add_data with prev_block_hash = the writer's head, then get_block
\* of the new head and the update of the writer's projection.
DoCommitData(w, s) ==
    LET m == meta[w]
        b == AddDataBlock(s, HeadHash + 1)
    IN /\ pc'  = [pc EXCEPT ![w] = "idle"]
       /\ cur' = [cur EXCEPT ![w] = NONE]
       /\ \/ /\ m.head = HeadHash
             /\ HeadHash < MaxBlocks
             /\ chain' = Append(chain, b)
             /\ \/ meta' = [meta EXCEPT ![w] = AfterCommit(m, b, HeadHash + 1)]
                \/ \* the block is committed but get_block fails or the
                   \* call is dropped before the state update
                   UNCHANGED meta
          \/ \* head moved (CAS lost) or the commit failed in the store
             UNCHANGED <<chain, meta>>

\* DataWriter::commit, AddData commit: either resumed after the schema
\* commit, or the whole call when no schema commit is needed.
CommitData(w) ==
    /\ \/ /\ pc[w] = "data"
          /\ DoCommitData(w, cur[w])
          /\ UNCHANGED pending
       \/ /\ pc[w] = "idle"
          /\ \E i \in 1..Len(pending[w]) :
               /\ ~NeedsSchemaCommit(meta[w], pending[w][i])
               /\ pending' = [pending EXCEPT ![w] = RemoveAt(@, i)]
               /\ DoCommitData(w, pending[w][i])
    /\ UNCHANGED srcName

-----------------------------------------------------------------------------
(* Other components appending to the same chain (not under src/).         *)

\* The dataset's watermark as the chain records it: that of the newest
\* watermark-carrying block.
LastIndex(kinds) == SelectLastInSeq(chain, LAMBDA b : b.kind \in kinds)

ChainWatermark ==
    LET i == LastIndex({"AddData", "SetWatermark"}) IN IF i = 0 THEN NONE ELSE chain[i].wm

HasPolling == \E i \in 1..Len(chain) : chain[i].kind = "SetPollingSource"
HasPush(n) == \E i \in 1..Len(chain) : chain[i] = [kind |-> "AddPushSource", name |-> n]

\* set-watermark command: a SetWatermark event that advances the watermark
EnvSetWatermark ==
    /\ "SetWatermark" \in EnvEvents
    /\ HeadHash < MaxBlocks
    /\ \E t \in Times :
         /\ IF ChainWatermark = NONE THEN TRUE ELSE ChainWatermark < t
         /\ chain' = Append(chain, [kind |-> "SetWatermark", wm |-> t])
    /\ UNCHANGED <<meta, srcName, pending, pc, cur>>

\* dataset configuration: one polling source, or distinct push sources
EnvAddSource ==
    /\ HeadHash < MaxBlocks
    /\ \/ /\ "SetPollingSource" \in EnvEvents
          /\ ~HasPolling
          /\ ~\E i \in 1..Len(chain) : chain[i].kind = "AddPushSource"
          /\ chain' = Append(chain, [kind |-> "SetPollingSource"])
       \/ /\ "AddPushSource" \in EnvEvents
          /\ ~HasPolling
          /\ \E n \in OptName :
               /\ ~HasPush(n)
               /\ chain' = Append(chain, [kind |-> "AddPushSource", name |-> n])
    /\ UNCHANGED <<meta, srcName, pending, pc, cur>>

-----------------------------------------------------------------------------

Next ==
    \/ \E w \in Writers : Build(w) \/ Stage(w) \/ CommitSchema(w) \/ CommitData(w)
    \/ EnvSetWatermark
    \/ EnvAddSource

Spec == Init /\ [][Next]_vars

-----------------------------------------------------------------------------
(* Properties *)

TypeOK ==
    /\ chain \in Seq(Block)
    /\ meta \in [Writers -> MetaState \cup {NONE}]
    /\ srcName \in [Writers -> OptName]
    /\ pending \in [Writers -> Seq(StagedResult)]
    /\ pc \in [Writers -> {"idle", "data"}]
    /\ cur \in [Writers -> StagedResult \cup {NONE}]

\* The output_data of every AddData block that carries data, oldest first.
Written ==
    LET ab == SelectSeq(chain, LAMBDA b : b.kind = "AddData" /\ b.data # NONE)
    IN [i \in 1..Len(ab) |-> ab[i].data]

WatermarkBlocks == {i \in 1..Len(chain) : chain[i].kind \in {"AddData", "SetWatermark"}}

\* Offsets are contiguous across the chain from 0: each AddData interval
\* starts one past the end of the previous one.  The start is computed in
\* stage() from the writer's last_offset and the block lands wherever the
\* head is at commit(); scans, commits of several writers and failures
\* in between must not open a gap or an overlap.
OffsetsContiguous ==
    \A i \in 1..Len(Written) :
        /\ Written[i].start <= Written[i].end
        /\ Written[i].start = IF i = 1 THEN 0 ELSE Written[i - 1].end + 1

\* The watermark recorded in the chain never goes backwards and, once set,
\* is never dropped: the writer carries last_watermark forward and
\* advances it by the slice's maximum event time, against a projection
\* that may have been taken before other blocks were committed.
WatermarkMonotone ==
    \A i, j \in WatermarkBlocks :
        (i < j /\ chain[i].wm # NONE) => (chain[j].wm # NONE /\ chain[i].wm <= chain[j].wm)

\* The schema is frozen once set: at most one SetDataSchema block exists,
\* and every data slice is preceded by it and has its schema.  The first
\* commit of a writer that has seen no schema writes SetDataSchema and
\* AddData as two separate commits that other writers may interleave with.
SchemaFrozen ==
    LET sIdx == {i \in 1..Len(chain) : chain[i].kind = "SetDataSchema"}
    IN /\ Cardinality(sIdx) <= 1
       /\ \A i \in 1..Len(chain) :
            (chain[i].kind = "AddData" /\ chain[i].data # NONE) =>
                \E j \in sIdx : j < i /\ chain[j].schema = chain[i].data.schema

\* Two projections agree up to the order of their data slices.
SameState(m, p) ==
    /\ p # NONE
    /\ [m EXCEPT !.slices = ToSet(@)] = [p EXCEPT !.slices = ToSet(@)]

\* A writer whose head is the chain's head holds the state a fresh scan of
\* the chain would produce (spec, testable property 3): the updates commit()
\* makes in memory after each of its two commits, including after a
\* failure between them, agree with what the projector reads back.
ProjectionSound ==
    \A w \in Writers :
        (meta[w] # NONE /\ meta[w].head = HeadHash) =>
            SameState(meta[w], Project(srcName[w], chain))

\* The same, with the data slices in the same order.
ProjectionExact ==
    \A w \in Writers :
        (meta[w] # NONE /\ meta[w].head = HeadHash) =>
            meta[w] = Project(srcName[w], chain)

\* No AddData block is a no-op: each one adds data, moves the watermark or
\* changes the source state relative to the chain before it.  stage()
\* checks this against the writer's projection, which may be older than
\* the chain the block is finally appended to.
NoEmptyAddData ==
    \A i \in 1..Len(chain) :
        chain[i].kind = "AddData" =>
            LET p == Project(NONE, SubSeq(chain, 1, i - 1))
            IN \/ chain[i].data # NONE
               \/ chain[i].wm # p.lastWm
               \/ chain[i].ss # p.lastSs

====
