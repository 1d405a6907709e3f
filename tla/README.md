# TLA+ models of the root-dataset data writer

These modules model how a root dataset is written: the `DataWriterDataFusion`
writer (`src/src/infra/ingest-datafusion/src/writer.rs`), its trait
(`src/src/domain/core/src/services/ingest/data_writer.rs`), and the metadata
chain the writer appends to. They also model how the writer validates and stamps system columns on a
slice (`InputSchema`, `Annotator`), how a writer is built by scanning the
chain one block at a time (`MetadataScan`), the remote-aliases registry that keeps per-dataset
config files (`RemoteAliases`), and the GraphQL queries over a dataset's
flow runs (`DatasetFlowRuns`). TLC checks the models.

## The system

| Part | Source | State | Operations |
|---|---|---|---|
| Metadata chain | not under `src/` (`Dataset`, `MetadataChain`) | append-only list of blocks; `commit_event` compare-and-swaps on `prev_block_hash` | commit of SetDataSchema, AddData, SetWatermark and source events |
| Metadata projector | `writer.rs` 726-855 `with_metadata_state_scanned` | `DataWriterMetadataState`: head, schema, source event, merge strategy, vocabulary, data slices, last offset, checkpoint, watermark, source state | a scan from the head back to the Seed, one awaited block fetch at a time |
| Input validation | `writer.rs` 92-173 `validate_input`, `normalize_raw_result` | none (pure) | rejects columns named like a system column and a non-temporal event time; casts every Timestamp to milliseconds UTC |
| Writer | `writer.rs` 486-681 `stage`, `commit`, `write` | the projection `meta`, which is mutable only in `commit` | `stage(&self)` is pure: validate, merge, system columns, output schema check, write file, offsets and watermark, empty-commit check. `commit(&mut self)` does a SetDataSchema commit when no schema is known, then the AddData commit, a read-back and the projection update |
| Builder | `writer.rs` 688-894 | none | `new`, then `with_metadata_state_scanned`, then `build`, which turns the merge configuration into a strategy object (`merge_strategy_for`) |
| System-column annotator | `writer.rs` 215-311, 339-481 | none (pure) | event-time fallback, `row_number()` ordered by event time, offsets from `start_offset`, file written only for rows, read-back of min/max offset and max event time, watermark advance |
| Remote aliases registry | `kamu-core/src/infra/remote_aliases_registry_impl.rs` | a per-dataset config file; each `RemoteAliasesImpl` holds its own copy | `get_remote_aliases` reads the file; `add`, `delete` and `clear` each write the whole copy back, through `File::create` followed by serialisation |
| GraphQL flow-run queries | `src/adapter/graphql/src/queries/datasets/dataset_flow_runs.rs`, `utils.rs` | none; one request at a time | `get_flow` and `list_flows`: access check, filter and account resolution, a paginated call to the flow service (not under `src/`), the connection built from its answer |
| Ingest service, task view | `kamu-core/src/domain/ingest_service.rs`, `queries/tasks/task.rs` | none | types, and a field-by-field conversion |

How the parts interact:
- A writer is built by scanning the chain.
- Each `commit` appends one or two blocks.
- Each append is conditional on the head the writer last saw.
- Other components append to the same chain:
  - a set-watermark command;
  - source configuration;
  - other writer tasks on the same dataset.
- Interleaving happens in two ways:
  - between writers;
  - between the two awaits of one `commit`.
- A single caller can hold several results from `stage` (it takes `&self`) before it commits any of them.

## Modules

- `DataWriter.tla`: the chain plus a set of writers. The variables:

  | Variable | What it holds |
  |---|---|
  | `chain` | the blocks |
  | `meta[w]` | writer `w`'s `DataWriterMetadataState` |
  | `srcName[w]` | the `source_name` that writer `w` was built with |
  | `pending[w]` | the `StageDataResult`s its caller holds |
  | `pc[w]`, `cur[w]` | a `commit` suspended between its schema commit and its data commit |

  How the code maps to the model:

  | Code | Model |
  |---|---|
  | the scan | `ScanBlocks`: a fold of `ScanStep` over the reversed chain, one operator per event kind, as in the `match` at 757-823 |
  | the end of the scan | `Project`: source resolution and its errors (827-853) |
  | `build` after a scan | `Build(w)` |
  | `stage` | `Stage(w)`, built from `PrepareAddData`, `StartOffset`, `SliceInterval`, `HasOutputFile`, `AdvanceWatermark` and `IsEmptyCommit`. Its error returns change nothing, so they are its guard |
  | `commit` | `CommitSchema(w)` (606-631) and `CommitData(w)` (633-681) |
  | other components | `EnvSetWatermark` and `EnvAddSource` (`spec_modelled`) |

  Abstractions:
  - A block hash is the block's position in the chain.
  - A slice hash is the position of its AddData block.
  - A batch is its column schema, a row count and the maximum event time of its rows. Whether it passes `validate_input` and the schema of its slice are computed by `InputSchema` (`Frame!ValidateInput`, `BatchSchema`), so the schema SetDataSchema freezes is the computed one.
  - Merge is Append, the strategy used when no source declares one.
- `MC_DataWriter.tla`: the model values, constant definitions and symmetry set that the `.cfg` files use.
- `InputSchema.tla`: a constant module. A schema is a sequence of columns (a name and an arrow data type, with the default vocabulary).
  - `ValidateInput` (92-136), `NormalizeRawResult` (138-173) and `WithSystemColumnsSchema` (the columns `with_system_columns` adds and selects, 227-311).
  - `StagedSchema` composes them as `stage` does (505-535); with Append the merged frame is the input frame.
  - `Annotator` extends it; `DataWriter` instantiates it as `Frame`.
- `MetadataScan.tla`: the builder's scan block by block.
  - `Init` takes any root chain of up to `MaxBlocks` blocks (a Seed and events of `EventKinds`) and a `source_name`.
  - `ScanBlock` is one pass of the `while let` loop: the `match` arm of the block's event (`Absorb`, one operator per arm), the `SourceNotFound` return on a polling source when a push source is asked for, and the panic of `unimplemented!` on `Disable*Source`.
  - `FetchFails` is `get_ref`, `try_next` or `schema_as_arrow` failing (`Internal`).
  - `FinishScan` is the merge-strategy match and the defaults (827-854).
  - `Build` is `build` with `merge_strategy_for`.
  - `RefState` restates spec §4.1 declaratively (the newest occurrence of each piece of state), as the reference the loop is checked against.
- `MC_MetadataScan.tla`: model values for it.
- `Annotator.tla`: `validate_input`, `normalize_raw_result`, `with_system_columns`, `write_output` and `compute_offset_and_watermark` as operators.
  - A row is reduced to its event time, which is a time or NULL.
  - Ordering is `SortSeq` with `EtBefore` (ascending, nulls last, line 283).
  - Offsets are `RowOffset` (line 294).
  - An all-null `max(event_time)` reads as the epoch (`MaxEventTime`, line 455).
  - `Init` enumerates every input frame up to `MaxRows` rows and `MaxCols` columns. `Annotate` returns `BadInputSchema` for a frame `validate_input` rejects. `Annotate` and `ReadBack` are the two steps of `stage` that use them. The properties compare the result with the rules of spec §4.3–4.4.
  - `SliceIntervalExact` is what justifies `DataWriter`'s abstraction of a slice as the interval `[StartOffset, StartOffset + n - 1]`.
- `RemoteAliases.tla`: the config `file` (`NONE`, `CORRUPT`, or one alias list per kind) and `copy[i]` for each handle.
  - `GetRemoteAliases`, `Add`, `Delete` and `Clear` are one action each, including their `Ok(false)` / `Ok(0)` branches.
  - `SetConfigOk` and `SetConfigFails` are the outcomes of `write_config`: success, `File::create` failing, or serialisation failing after the truncation.
  - The variable `told` is observational. It records the last answer a caller received about each alias, so that the properties can say what callers may rely on.
- `MC_RemoteAliases.tla`: the model values and symmetry for `RemoteAliases`.
- `DatasetFlowRuns.tla`: one GraphQL request, `get_flow` or `list_flows`, with the await it is at in `pc`.
  - `CheckAccess`, `GetFlow`, `ResolveFilters`, `ListFlows` and `Collect` are the handler's awaits in order. Each early return (`?`, the "Account not resolved" error, `NotFound`) ends the request with its result kind.
  - The flow service, the access check and the account lookup are not under `src/`, so each answers with any of its outcomes. The listing is `Listing`: positions `offset + 1 .. offset + limit` of the flows that match.
  - `usize` has `UsizeBits` bits. `page * per_page` either panics (`CheckedMul`, a build with overflow checks) or wraps (`WrappingMul`, one without).

## Runs

The `DataWriter` runs use these bounds:
- writers: `{w1, w2}`;
- batch schemas: one column `a` of Int64 or of nanosecond timestamps (normalised to milliseconds UTC), or a column `system_time` that `validate_input` rejects;
- times: `1..2`;
- one source state;
- one push name;
- `MaxRows = 2`;
- `MaxBlocks = 4`, counting the Seed.

Why these bounds are enough:
- Four blocks fit the cases that matter:
  - a schema commit followed by two data commits;
  - a data commit, a watermark block and another data commit.
- Two writers are the smallest number that can race.
- Two distinct output schemas let a second writer try a different schema.
- Two times let a watermark go backwards.

Symmetry over writers is sound: no property names a particular one.

| Run | cfg | Expect | What it shows |
|---|---|---|---|
| `core` | `DataWriter.cfg` | pass | Two writers, each caller committing what it staged before staging again (the `write` path). SetWatermark commits and polling or push sources are interleaved, and writers are built for each source name. The chain keeps contiguous offsets (`OffsetsContiguous`), a monotone watermark (`WatermarkMonotone`), one schema shared by all slices (`SchemaFrozen`) and no no-op AddData (`NoEmptyAddData`). While a writer's head is the chain's head, it agrees with a fresh scan up to slice order (`ProjectionSound`). About 1.23M distinct states, under two minutes. |
| `stale_stage` | `DataWriterStaleStage.cfg` | violation | One writer with `MaxPending = 2` breaks `OffsetsContiguous`. |
| `projection_order` | `DataWriterProjection.cfg` | violation | `ProjectionExact` (equality, with slice order) fails after one commit on a scanned writer. |

Deadlock is checked for `DataWriter` and `RemoteAliases`, which never stop: a writer can always be rebuilt, and a handle can always be obtained again while the file is readable.

`Annotator` runs say `CHECK_DEADLOCK FALSE`. Each behaviour is one call of `stage`, and it ends after the read-back, or after `write_output` when there are no rows.

`RemoteAliases` runs use two alias names, both kinds (`Pull`, `Push`) and one or two handles. Symmetry is taken over handles and alias names.
- One handle is the sequential use of a CLI command.
- Two handles are the smallest number that can lose an update.
- Alias lists hold at most two names, so every config state is reached.

| Run | cfg | Expect | What it shows |
|---|---|---|---|
| `aliases` | `RemoteAliases.cfg` | pass | One handle at a time, obtained again at will, with `write_config` failing at create or mid-write. While the file is readable, every change a caller was told succeeded holds of it (`AcknowledgedChangesDurable`). About 25k distinct states. |
| `alias_lost_update` | `RemoteAliasesLostUpdate.cfg` | violation | Two handles: `AcknowledgedChangesDurable` fails in four steps (get, get, add, add). |
| `alias_retry` | `RemoteAliasesRetry.cfg` | violation | One handle, creates may fail: `AnswersTruthful` fails in three steps (get, failed add, add answering `Ok(false)`). That is the shortest trace, which one TLC worker reports; with several workers TLC may report a longer one that also contains a `Clear` that changes nothing. |
| `alias_corrupt` | `RemoteAliasesCorrupt.cfg` | violation | One handle, writes may fail after truncation: `ConfigReadable` fails. |

`Annotator` runs use:
- times `{1, 2}` plus NULL;
- up to 3 rows;
- start offsets `{0, 3}`;
- every previous watermark.

Column schemas have up to two columns named `offset`, `system_time`, `event_time`, `a` or `b`, each Int64, Date32, nanosecond or millisecond-UTC timestamp. This gives about 164k inputs, 370k states. They cover ties, out-of-order frames, nulls before and after times, the fallback column and a first slice, and 3 rows are enough for two of them to need reordering around a third.

| Run | cfg | Expect | What it shows |
|---|---|---|---|
| `annotator` | `Annotator.cfg` | pass | For every input: an accepted frame's slice starts with offset, system_time and event_time, keeps the other columns in order, repeats no name and has only millisecond-UTC timestamps (`OutputLayout`) and the read-back interval is exactly `[start_offset, start_offset + n - 1]` with each offset used once (`SliceIntervalExact`). |
| `null_event_times` | `AnnotatorNullTimes.cfg` | violation | A slice of one row with a null event time and no previous watermark gets watermark 0, the epoch (`WatermarkFromEventTimes`). |

`MetadataScan` runs use every root chain of up to four blocks over one schema, one time, one source state, one checkpoint, one push name, two vocabularies and all three merge kinds, scanned with and without a push-source name: 61k chains, 626k states. Four blocks fit a newest and an older occurrence of a piece of state with a third block between them. `CHECK_DEADLOCK FALSE` holds because a scan is one call and ends.

| Run | cfg | Expect | What it shows |
|---|---|---|---|
| `scan` | `MetadataScan.cfg` | pass | The loop produces spec §4.1's newest-occurrence state for every field but the vocabulary, and `SourceNotFound` exactly when §4.1 says (`ScanMatchesSpec`). Two AddPushSource events with the same name and different merge strategies are among the chains, so the newest-wins source resolution at line 804 is exercised. |
| `scan_vocab` | `MetadataScanVocab.cfg` | violation | A chain Seed, SetVocab(v1), SetVocab(v2) gives the writer vocabulary v1 (`VocabNewestWins`). |

`DatasetFlowRuns` has one run. It uses four-bit `usize` (so `DEFAULT_PER_PAGE`, 15, is its largest value), three matching flows, and two account names of which one resolves. It enumerates every request: about 1.2k initial states. TLC's integers are 32-bit, so it cannot multiply at 64 bits. The wrap is the same arithmetic at any width, and four bits make it reachable with small page numbers. `CHECK_DEADLOCK FALSE` holds because a request returns once served.

| Run | cfg | Expect | What it shows |
|---|---|---|---|
| `flow_page_overflow` | `DatasetFlowRunsPage.cfg` | violation | Request page 2 with per_page 8: the offset wraps to 0, and the connection labelled page 2 holds flows 1-3 (`PageMatchesRequest`). With the product computed exactly, the property holds for every request. |

Fairness. No module assumes fairness, and no liveness property is checked. The scan's termination holds by construction, because the cursor strictly decreases; checking it would say nothing about the code. The writer's progress after a `CommitError` depends on a caller outside `src/` (see Not modelled).

## Findings

1. **Stale staged result (code bug, `writer.rs:642`).**
   - `commit` appends against the writer's current head.
   - The offsets and watermark come from the staged result, which `stage` computed against an older projection.
   - If a caller stages twice and then commits both results, the second AddData repeats the first one's offsets.
   - `write` always commits before it stages again, so it is not affected. The trait, however, exposes `stage` and `commit` separately.
2. **Slice order (spec/code divergence, `writer.rs:765`, 664, 187).**
   - The scan collects `data_slices` newest-first and never reverses them.
   - `commit` pushes each new slice at the end.
   - A writer that has committed therefore holds an order that no scan produces.
   - `get_all_previous_data` reads the slices `.rev()`.
   - With Append, the merge ignores the previous data, so the order is harmless there. It matters for Ledger and Snapshot merges.
3. **Null event times give an epoch watermark (spec/code divergence, `writer.rs:455`).**
   - `validate_input` accepts a nullable event-time column.
   - If every event time of a slice is null, `max(event_time)` is null, and `value(0)` reads the zeroed null slot.
   - With no earlier watermark, the slice gets watermark 1970-01-01.
   - Spec §4.4 h defines `max(prev_wm, max(event_time))` with an absent prior as -infinity, which yields no such watermark.
4. **Lost update of remote aliases (code bug, `remote_aliases_registry_impl.rs:180`).**
   - Each handle writes back the whole config it read once.
   - A second handle's write silently removes an alias the first handle's `add` acknowledged with `Ok(true)`.
5. **Retry after a failed write answers wrongly (code bug, `remote_aliases_registry_impl.rs:178`).**
   - `add` changes the handle's copy before `set_config`.
   - After a failed write, a retried `add` returns `Ok(false)` ("already present") while the file lacks the alias.
6. **Truncated config (code bug, `remote_aliases_registry_impl.rs:72`).**
   - `write_config` truncates the file in place.
   - A serialisation failure leaves a file on which every later `read_config` panics (line 54).
7. **Oldest vocabulary wins (spec/code divergence, `writer.rs:813`).**
   - The scan walks newest to oldest.
   - Unlike every other arm, the SetVocab arm assigns without an `is_none` check, so the oldest SetVocab is the one kept.
   - Spec §4.1 says newest wins.
   - `merge_strategy_for` passes that vocabulary's offset column to the Snapshot strategy.
   - The run restricts the property to chains whose SetVocab events all precede the first data, where the spec's "stable vocabulary" rule still allows redefining it.
8. **Page offset overflow (code bug, `dataset_flow_runs.rs:107`).**
   - `list_flows` takes `page` and `per_page` from the client and computes `page * per_page` in `usize` with no checked arithmetic.
   - Without overflow checks (the default release profile) the product wraps. The flow service then returns another page's flows, and `FlowConnection::new` labels them with the requested page.
   - With overflow checks, the request handler panics.

## Properties deliberately not checked

- **`ImplementsLedger`.** This was the refinement of an abstract `DatasetLedger`. Each guard of the ledger was already one of `OffsetsContiguous`, `WatermarkMonotone`, `SchemaFrozen` and `NoEmptyAddData`, so the refinement repeated them, and the abstract module was dropped.
- **`SourceResolved`.** It restated the name match at line 804. Newest-wins resolution among same-named sources is checked by `ScanMatchesSpec` instead.
- **`OffsetsFollowEventTime` and `WatermarkCoversSlice`.** They restated the sort at line 283 and the maximum at 474-478. The null-event-time case is the subject of `null_event_times`.
- **The scan's `TypeOK` and `ScanTerminates`.** No mutant that would still compile in Rust breaks the type invariant. Termination follows from the chain stream, which is not under `src/`.

## Not modelled

- **Vocabulary and checkpoints in `DataWriter`.** `MetadataScan` models both in the scan. `DataWriter` uses the default vocabulary, and root datasets written here never carry checkpoints.
- **Column nullability.** The fallback event-time literal is non-nullable while a data column usually is nullable, so `validate_output_schema` can reject a frame only for omitting its event-time column. Arrow nullability is not part of the modelled schema.
- **Ledger and Snapshot merge strategies.** Their code is not under `src/`.
- **`DisablePollingSource` and `DisablePushSource`.** `MetadataScan` reaches the panic, but no property is checked against it: the `unimplemented!` is deliberate, and the spec leaves the events undefined.
- **Derivative datasets.** `ExecuteQuery` is `unreachable!` and the Seed is asserted to be Root; the chains are those of root datasets.
- **The rest of the GraphQL adapter and the ingest-service interface.**
  - `Task::new` (`tasks/task.rs`) copies fields and maps `Finished(outcome)` to `Some(outcome)`. It has no state or control worth a model.
  - `from_catalog`, `get_dataset` and `check_dataset_write_access` in `utils.rs` are dependency lookups and error conversions. Only the `GqlError` variants appear in `DatasetFlowRuns`, as result kinds.
  - `ingest_service.rs` declares traits, option and result types, and error constructors with no behaviour. Its implementation is not under `src/`.
- **Liveness of the writer.** `DataWriterDataFusion` has no retry loop.
  - After a `CommitError`, progress depends on the caller (the ingest task, not under `src/`) rebuilding the writer and staging again.
  - A liveness property would therefore check an assumed caller, not this code, so no fairness is stated.
- **`RemoteAliasesRegistryNull`.** It only returns an error.

## Further work

1. **Merge strategies.** Model them once their source is available; the Append case is covered. The slice-order and vocabulary findings matter for them.
2. **Flow-run pagination.** Check `has_next_page` and the page count once the `page_based_connection!` macro's source is available. They are computed from the same `page` and `per_page`.
3. **Larger `DataWriter` instances.** `MaxBlocks = 5` with a state constraint, so that three data commits interleave with a schema commit.
4. **Composition.** Feed `Annotator`'s interval and watermark into `DataWriter`'s `Stage` directly, replacing `SliceInterval` and `AdvanceWatermark`, if the state space allows.
