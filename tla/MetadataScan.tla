---------------------------- MODULE MetadataScan ----------------------------
(***************************************************************************)
(* The metadata projector of the data writer, one block at a time          *)
(* (DataWriterDataFusionBuilder::with_metadata_state_scanned and build in  *)
(* src/src/infra/ingest-datafusion/src/writer.rs).                          *)
(*                                                                         *)
(* The builder reads the head, then pulls blocks from iter_blocks_interval *)
(* newest first; every pull is an await that may fail.  Each event kind    *)
(* updates the accumulators of the loop; a polling source met while a      *)
(* push source is asked for ends the scan with SourceNotFound, a Disable*  *)
(* event panics (unimplemented!).  After the loop the merge strategy is    *)
(* taken from the adopted source, and build() turns it into a strategy     *)
(* object, the Snapshot one parameterised by the vocabulary's offset       *)
(* column.                                                                 *)
(*                                                                         *)
(* The chain is any chain of a root dataset up to MaxBlocks blocks: a Seed *)
(* followed by events of EventKinds.  A block hash is its position, and    *)
(* so is the hash and the end offset of the slice of an AddData block.    *)
(***************************************************************************)
EXTENDS Integers, Sequences, SequencesExt, FiniteSets

CONSTANTS
    Schemas,        \* SetDataSchema schemas
    Times,          \* watermarks
    SourceStates,   \* AddData source states
    Checkpoints,    \* AddData output checkpoints
    PushNames,      \* AddPushSource source names
    Merges,         \* merge strategy kinds a source declares
    Vocabs,         \* vocabularies SetVocab may carry
    DefaultVocab,   \* DatasetVocabulary::default()
    EventKinds,     \* kinds of event, other than Seed, the chains hold
    MaxBlocks,      \* longest chain, Seed included
    NONE,           \* Option::None
    UNSET           \* accumulator not yet set (the outer Option)

ASSUME Merges \subseteq {"Append", "Ledger", "Snapshot"} /\ MaxBlocks \in Nat \ {0}

VARIABLES
    chain,      \* the metadata chain, oldest (Seed) first
    srcName,    \* the source_name argument, NONE or a push source name
    cursor,     \* position of the next block the stream yields; 0: ended
    acc,        \* the loop's local variables
    outcome,    \* "scanning", "ok", "SourceNotFound", "Internal", "panic"
    state,      \* the DataWriterMetadataState returned, or NONE
    merge       \* the merge strategy object build() created, or NONE

vars == <<chain, srcName, cursor, acc, outcome, state, merge>>

-----------------------------------------------------------------------------
(* Values *)

OptName == PushNames \cup {NONE}

Event ==
    [kind : {"SetDataSchema"}, schema : Schemas]
    \cup [kind : {"AddData"}, data : BOOLEAN, cp : Checkpoints \cup {NONE},
          wm : Times \cup {NONE}, ss : SourceStates \cup {NONE}]
    \cup [kind : {"SetWatermark"}, wm : Times]
    \cup [kind : {"SetPollingSource"}, merge : Merges]
    \cup [kind : {"AddPushSource"}, name : OptName, merge : Merges]
    \cup [kind : {"SetVocab"}, vocab : Vocabs]
    \cup [kind : {"DisablePollingSource", "DisablePushSource", "SetInfo"}]

Chains ==
    { <<[kind |-> "Seed"]>> \o s :
        s \in UNION {[1..n -> {e \in Event : e.kind \in EventKinds}] : n \in 0..MaxBlocks - 1} }

-----------------------------------------------------------------------------
(* The loop of with_metadata_state_scanned *)

ScanInit ==
    [schema |-> NONE, source |-> NONE, slices |-> {}, lastOffset |-> NONE,
     lastCp |-> UNSET, lastWm |-> UNSET, lastSs |-> UNSET, vocab |-> NONE]

\* iter_blocks_interval: the block before i, none before the Seed
PrevBlock(i) == i - 1

\* SetDataSchema: adopted if no schema yet.
OnSetDataSchema(a, e) == [a EXCEPT !.schema = IF @ = NONE THEN e.schema ELSE @]

\* mutant: the is_none check on last_offset dropped, as SetVocab has it
OnAddDataOldestOffset(a, e, k) ==
    [a EXCEPT
        !.slices     = IF e.data THEN @ \cup {k} ELSE @,
        !.lastOffset = IF e.data THEN k ELSE @,
        !.lastCp     = IF @ = UNSET THEN e.cp ELSE @,
        !.lastWm     = IF @ = UNSET THEN e.wm ELSE @,
        !.lastSs     = IF @ = UNSET THEN e.ss ELSE @]

\* AddData at position k: its slice is collected; offset, checkpoint,
\* watermark and source state are taken if not set yet.
OnAddData(a, e, k) ==
    [a EXCEPT
        !.slices     = IF e.data THEN @ \cup {k} ELSE @,
        !.lastOffset = IF e.data /\ @ = NONE THEN k ELSE @,
        !.lastCp     = IF @ = UNSET THEN e.cp ELSE @,
        !.lastWm     = IF @ = UNSET THEN e.wm ELSE @,
        !.lastSs     = IF @ = UNSET THEN e.ss ELSE @]

OnSetWatermark(a, e) == [a EXCEPT !.lastWm = IF @ = UNSET THEN e.wm ELSE @]

\* SetPollingSource, when no push source was asked for: first one wins.
OnSetPollingSource(a, e) ==
    [a EXCEPT !.source = IF @ = NONE THEN [kind |-> "polling", merge |-> e.merge] ELSE @]

\* AddPushSource: adopted if none yet and its name is the one asked for.
OnAddPushSource(a, e, src) ==
    [a EXCEPT !.source = IF @ = NONE /\ src = e.name
                         THEN [kind |-> "push", merge |-> e.merge] ELSE @]

\* SetVocab: assigned unconditionally.
OnSetVocab(a, e) == [a EXCEPT !.vocab = e.vocab]

\* The accumulators after the event at position k, for the event kinds
\* that do not end the loop.
Absorb(a, e, k, src) ==
    CASE e.kind = "SetDataSchema"    -> OnSetDataSchema(a, e)
      [] e.kind = "AddData"          -> OnAddData(a, e, k)
      [] e.kind = "SetWatermark"     -> OnSetWatermark(a, e)
      [] e.kind = "SetPollingSource" -> OnSetPollingSource(a, e)
      [] e.kind = "AddPushSource"    -> OnAddPushSource(a, e, src)
      [] e.kind = "SetVocab"         -> OnSetVocab(a, e)
      [] e.kind \in {"Seed", "SetInfo"} -> a

\* The kinds that end the loop early.
EndsScan(e, src) ==
    \/ e.kind \in {"DisablePollingSource", "DisablePushSource"}
    \/ e.kind = "SetPollingSource" /\ src # NONE

OrNone(x) == IF x = UNSET THEN NONE ELSE x

\* The match after the loop: the adopted source's merge strategy, Append
\* without a source, or SourceNotFound when a named source is missing.
MergeConf(a, src) ==
    IF a.source # NONE THEN a.source.merge
    ELSE IF src = NONE THEN "Append" ELSE NONE

\* build() -> merge_strategy_for
MergeStrategyFor(conf, vocab) ==
    IF conf = "Snapshot" THEN [kind |-> "Snapshot", offsetColumn |-> vocab]
    ELSE [kind |-> conf]

-----------------------------------------------------------------------------

Init ==
    /\ chain \in Chains
    /\ srcName \in OptName
    /\ cursor = Len(chain)
    /\ acc = ScanInit
    /\ outcome = "scanning"
    /\ state = NONE
    /\ merge = NONE

\* One pass of the while-let loop: the stream yields the block at cursor
\* and its event is matched.
ScanBlock ==
    /\ outcome = "scanning" /\ cursor > 0
    /\ LET e == chain[cursor] IN
       \/ /\ e.kind \in {"DisablePollingSource", "DisablePushSource"}
          /\ outcome' = "panic"
          /\ UNCHANGED <<cursor, acc>>
       \/ /\ e.kind = "SetPollingSource" /\ srcName # NONE
          /\ outcome' = "SourceNotFound"
          /\ UNCHANGED <<cursor, acc>>
       \/ /\ ~EndsScan(e, srcName)
          /\ acc' = Absorb(acc, e, cursor, srcName)
          /\ cursor' = PrevBlock(cursor)
          /\ UNCHANGED outcome
    /\ UNCHANGED <<chain, srcName, state, merge>>

\* get_ref, try_next or schema_as_arrow returns an error: Internal.
FetchFails ==
    /\ outcome = "scanning"
    /\ outcome' = "Internal"
    /\ UNCHANGED <<chain, srcName, cursor, acc, state, merge>>

\* The stream has ended: the merge strategy match, then
\* with_metadata_state with the defaults filled in.
FinishScan ==
    /\ outcome = "scanning" /\ cursor = 0
    /\ LET conf == MergeConf(acc, srcName) IN
       \/ /\ conf = NONE
          /\ outcome' = "SourceNotFound"
          /\ UNCHANGED state
       \/ /\ conf # NONE
          /\ outcome' = "ok"
          /\ state' = [head |-> Len(chain), schema |-> acc.schema,
                       source |-> acc.source, mergeConf |-> conf,
                       vocab |-> IF acc.vocab = NONE THEN DefaultVocab ELSE acc.vocab,
                       slices |-> acc.slices, lastOffset |-> acc.lastOffset,
                       lastCp |-> OrNone(acc.lastCp), lastWm |-> OrNone(acc.lastWm),
                       lastSs |-> OrNone(acc.lastSs)]
    /\ UNCHANGED <<chain, srcName, cursor, acc, merge>>

\* build(): the writer gets the strategy object for the scanned state.
Build ==
    /\ outcome = "ok" /\ merge = NONE
    /\ merge' = MergeStrategyFor(state.mergeConf, state.vocab)
    /\ UNCHANGED <<chain, srcName, cursor, acc, outcome, state>>

Next == ScanBlock \/ FetchFails \/ FinishScan \/ Build

Spec == Init /\ [][Next]_vars

-----------------------------------------------------------------------------
(* Spec 4.1 as a definition: the newest occurrence of each piece of state *)

Newest(c, Test(_)) == SelectLastInSeq(c, Test)

IsKind(e, k) == e.kind = k

RefField(c, kinds, f, default) ==
    LET k == Newest(c, LAMBDA e : e.kind \in kinds) IN
    IF k = 0 THEN default ELSE c[k][f]

RefSource(c, src) ==
    LET k == Newest(c, LAMBDA e : \/ e.kind = "SetPollingSource" /\ src = NONE
                                  \/ e.kind = "AddPushSource" /\ e.name = src)
    IN IF k = 0 THEN NONE
       ELSE [kind |-> IF c[k].kind = "SetPollingSource" THEN "polling" ELSE "push",
             merge |-> c[k].merge]

RefNotFound(c, src) ==
    src # NONE /\ (RefSource(c, src) = NONE \/ \E k \in 1..Len(c) : IsKind(c[k], "SetPollingSource"))

RefState(c, src) ==
    LET source == RefSource(c, src)
        lastData == Newest(c, LAMBDA e : e.kind = "AddData" /\ e.data)
    IN [head |-> Len(c),
        schema |-> RefField(c, {"SetDataSchema"}, "schema", NONE),
        source |-> source,
        mergeConf |-> IF source = NONE THEN "Append" ELSE source.merge,
        vocab |-> RefField(c, {"SetVocab"}, "vocab", DefaultVocab),
        slices |-> {k \in 1..Len(c) : IsKind(c[k], "AddData") /\ c[k].data},
        lastOffset |-> IF lastData = 0 THEN NONE ELSE lastData,
        lastCp |-> RefField(c, {"AddData"}, "cp", NONE),
        lastWm |-> RefField(c, {"AddData", "SetWatermark"}, "wm", NONE),
        lastSs |-> RefField(c, {"AddData"}, "ss", NONE)]

-----------------------------------------------------------------------------
(* Properties *)

\* The loop's newest-first accumulation yields what spec 4.1 defines: the
\* newest SetDataSchema, the newest AddData's offset, checkpoint and source
\* state, the newest of AddData and SetWatermark for the watermark, every
\* slice, the newest polling source or push source of the requested name,
\* and SourceNotFound exactly when the requested push source is missing or
\* a polling source is present.  The vocabulary is stated on its own below.
ScanMatchesSpec ==
    /\ outcome = "SourceNotFound" => RefNotFound(chain, srcName)
    /\ outcome = "ok" =>
        /\ ~RefNotFound(chain, srcName)
        /\ \A f \in DOMAIN state \ {"vocab"} : state[f] = RefState(chain, srcName)[f]

\* Spec 4.1 adopts the newest SetVocab.  Where the vocabulary is set before
\* any data is written, the writer's vocabulary, and the offset column of a
\* Snapshot strategy built from it, are those of the newest SetVocab.
VocabNewestWins ==
    LET firstData == SelectInSeq(chain, LAMBDA e : IsKind(e, "AddData"))
        vocabsBeforeData ==
            \A k \in 1..Len(chain) : IsKind(chain[k], "SetVocab") => firstData = 0 \/ k < firstData
    IN  merge # NONE /\ vocabsBeforeData =>
            /\ state.vocab = RefState(chain, srcName).vocab
            /\ merge.kind = "Snapshot" => merge.offsetColumn = state.vocab

====
