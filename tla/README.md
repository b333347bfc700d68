# basaltic-red: a verification model

basaltic-red is a Rust engine, with Python bindings, that reads, audits, splits,
normalizes and indexes "lakes" of row and columnar files. This directory models
its stateful core in TLA+, checks the models with TLC and proves the main safety
results of most of them with TLAPS. Every definition is translated from
`src/src/`; `PROJECT.json` maps each one to the lines it stands for.

How to run, in this directory:

    tlc -config LakeMapCatalog.cfg MCLakeMap     # any run of the table below
    tlapm LakeMapProofs.tla                      # any *Proofs module

## 1. The system

| Part | Source | State it keeps | Operations | Talks to |
|---|---|---|---|---|
| Lake map catalog | `engine/map/{inspect,storage,doctor}.rs` | `.br_map.bazan` (one file per lake, entries with stat, digest, statistics, locators), a temporary sibling | `create_lake_map`, `doctor_lake_map`, `resolve_healthy_map_entry` | the data files, other jobs through the catalog file, slices |
| Row slices | `engine/slice.rs`, `map/ranges.rs`, `formats/mod.rs` | the reader's position and counters | `slice_rows`, `slice_cols` | a map entry, a format reader |
| Global row numbers | `engine/map/model.rs` | `first_global_row` of every entry, row groups | build, heal, save, load, `locate_global_row` | the catalog |
| JSON arrays | `formats/common/json.rs`, inspector in `map/inspect.rs` | the filter's flags across chunks | `read`, `from_offset`, checkpoint scan | arrow-json |
| Splitter | `engine/splitter.rs` | carry, part counter, files written | one call | a reader, the disk |
| Audit filters | `engine/filter.rs`, `engine/dynamic_filter.rs` | masks, clean/trash batch | one batch | Arrow kernels |
| Lake writer, gold table | `formats/core/parquet.rs` | three output trees, counts | two parallel jobs | the static filter, the disk |
| Ingest | `engine/ingest.rs` | target names, files under way | one parallel call | format readers, the disk |
| SQL cache | `engine/sql.rs` | `*.parquet` cache files with their mtimes | one query | ingest's converter, DataFusion |
| Batch iterator | `pyapi/iterator.rs` | mutex, source, GIL | `__next__`, `to_pyarrow` | Python threads |
| Parallel file filter, partition pruning | `engine/{parallel_filter,partition}.rs` | file lists, counts | two calls | readers |
| Memory budget, pools | `engine/memory.rs`, `parallel_filter.rs` | the thread pool that is kept | budget of a batch, pool of a job | Rayon, Tokio |
| Progress tracker | `map/model.rs` | counter, throttle, last line | `inc` of many threads | terminal |
| Format registry | `formats/mod.rs` | table of dynamic handlers | register, look up | every reader |
| Delimited text, NDJSON | `formats/common/csv.rs`, `json.rs`, inspectors in `map/inspect.rs` | flags of the scan | inspect, read from a checkpoint | arrow-csv, arrow-json |
| MessagePack, Excel | `formats/plugins/adapters/{msgpack,excel}.rs`, `row_chunker.rs` | rows buffered for a batch | inspect, read from a block | rmpv, calamine |
| Avro | `formats/plugins/adapters/avro.rs` | position in the container file | inspect, read from a block | the Avro reader of Arrow |
| ORC, Arrow IPC | `formats/` | a decoder each | read from a stripe or batch | third-party crates |
| Previews, dictionaries, bindings | `graph.rs`, `recommend.rs`, `csv_guard.rs`, `pyapi/` | none | text, arguments | the engine |

What is hard here, and where:

* **Several jobs and one file.** `create_map`, Lake Doctor, slices and programs that
  write data files share files without locks. An inspection opens a file two to four
  times; a slice stats a file and opens it again; a Doctor loads a map and saves
  another one later.
* **Crashes and I/O errors** between the temporary file and the rename, in the middle
  of a parallel inspection, of a split, of an ingest, of a transcoding.
* **Boundaries**: ranges, strides, groups without rows, short last blocks, empty
  batches, saturating row numbers, more rules than bits in a mask, nulls.
* **Streams cut anywhere**: JSON strings and brackets at the edge of a chunk.
* **Two readings of one file**: inspectors find rows without decoding them, by rules of
  their own; a slice starts the decoder where the inspector says a row begins.
* **Threads**: pool jobs, shared cache files, a mutex under the GIL, a registry that
  changes between two questions, counters and a lock taken one after the other.

Correct means: entries that pass their check are true, reports are true, ranges
return exactly their rows, rows are neither lost nor doubled by splitting, auditing,
ingesting or caching, and calls return.

## 2. Modules and how they correspond to the code

The catalog and its slices:

* **LakeMap** — the catalog, create_map and Doctor jobs, mapped slices, and the
  environment that changes files (`MCLakeMap` gives sizes for TLC). A file's bytes are
  one value of `Contents` and a BLAKE3 digest is that value. `disk`, `catalog`,
  `temp`: files. `job`, `base`, `stage`, `draft`: the local variables of one run of
  `create_lake_map` or `doctor_lake_map`: its point of control, the map it loaded, how
  far it is with each file, the entry it is building. One action is one system call
  (`MeterFile` = `fs::metadata`, `HashFile`, `ScanFile`, `LocateFile` = the second
  open, `RecheckFile`, `RehashFile`) or one publication step (`BeginSave`,
  `FinishSave`, `Publish`). The files of a job advance in any order, as on the Rayon
  pool. `Crash` and `IoError` may hit any step. `reader` is the mapped path of a slice:
  `SliceLookup`, `SliceStat`, `SliceRead`. `calm` records which calls nothing else has
  disturbed, `used` which bytes a file has held: both are history only.
* **ProgressTracker** — `inc` of the threads that inspect files: two counters, the
  clock, the lock and the throttle, one action each. A line on the terminal is the
  numbers it shows and the time it was drawn for. `broken` are the threads whose file
  cannot be inspected: they count it all the same, and once one is through, `collect`
  into a Result lets the pool leave out files it has not begun (`LeaveOut`).
* **GlobalRows** — numbering and lookup of global rows, `heal` that mixes retained and
  new entries, saving and loading in the new and the old column sets, saturation at
  `MaxRow`.

From a slice to its rows:

* **RowSlice** — the abstract contract: the rows of the range, in order, as many as
  there are; an error only for a range that starts past the last row.
* **SliceRows** — the inspectors that cut a file into blocks, the four resolvers of
  `ranges.rs`, and the stream-and-skip loop `read_range_from_source`. A row is its
  number and a byte offset the number of the row that starts there. It implements
  RowSlice through `Contract`.
* **Projection** (`MCProjection` gives the files) — `slice_cols`: what each reader makes
  of the columns it is told (`Pushdown`), the empty batch of an empty range, the final
  reordering by name. A column is a name and its Parquet leaves.
* **ObjectRows** — what SliceRows takes for given of MessagePack files and worksheets:
  the inspectors that divide values into blocks, the `RowChunker` that collects rows
  for a batch, from the start or from a block, with values that cannot be decoded, maps
  without keys, and callers that go on after an error.
* **AvroFile** — the same for Avro, byte by byte: `read_long`, both forms of header
  blocks, data blocks that are skipped by their size, the stream of header and blocks
  that a mapped slice hands to the decoder; whole, cut and damaged files.
* **TextRows** — the inspectors of delimited and NDJSON files beside their readers, one
  byte in a step. `tidy` says that the bytes so far keep to the format (for delimited
  text: quotes only around whole fields; for NDJSON: one value to a line).
* **JsonArray** — `filter_chunk` byte by byte over arbitrary chunkings with the trailer
  check, the inspector's own scan, and the second stream opened at a checkpoint.
  `Arrays` and `Streams` say independently, by generating them, what the well-formed
  files are and where their rows start.
* **FormatRegistry** — handlers a program registers and takes back while a job inspects
  a file (`handler`, then `dynamic_override`) and slices of it ask the registry, the
  map and the registry again. Rows carry the handler they come from.

Rows written:

* **Splitter** — the carry loop, part files, read and write errors, repeated calls into
  one directory with leftovers of earlier calls.
* **StaticFilter**, **DynamicFilter** — the masks of both filters as the Arrow kernels
  compute them (three-valued for the static one), the code or the chunks of it, and
  the split. Chunks have `Width` bits instead of 64. `SortedRows` is the filter kernel:
  the rows of a set, in order.
* **LakeWriter** — the parallel closures of the lake writer and of the gold job, with
  every error that is swallowed.
* **LakeFilter** — `filter_files_parallel`: files and links are collected, directories
  pruned by the values in their names, files counted in parallel, the first error
  fails the call. A path is a sequence of segments and a segment its parsed key and
  value; a glob or a single file is a target kind of its own.
* **Ingest** (`MCIngest`) — target assignment, then the pool's create / write / close
  steps; the lake may be the source directory itself (`in_place`). Any step may fail:
  the lake cannot be made or the source not listed (`Refuse`), a copy or a conversion
  ends with an error before or after its target exists, perhaps with bytes in it
  (`CopyError`, `ConvertError`), also for a source nothing is wrong with; then the pool may
  leave out jobs (`SkipJob`) and the call fails.
* **SqlCache** — the steps of `cached_parquet_for` (exists, two stats, create, convert,
  close), registration, scan and the fall-back reader, for several query threads and a
  writer of the source. `apart` is history: sources that were only used and written one
  after the other, each write in a new tick.

Shared by threads:

* **BatchIterator** — `__next__` and `to_pyarrow` over eager and lazy sources with
  `try_lock`, the GIL handed over while a batch is pulled or converted by Python code,
  errors (pyarrow cannot be imported, a batch does not convert, the batches make no
  table), panics, poisoning.
* **MemoryPools** — `budget_batch_rows_for`, the pool that is kept for the next job and
  the jobs that switch it while others run, one stream to a thread.

Components without common state are checked together, because a run then starts from
any of them: **MCSlices** (SliceRows, ObjectRows, AvroFile, GlobalRows, Projection),
**MCFiles** (TextRows, JsonArray, FormatRegistry, SqlCache), **MCAudit** (the two filters,
LakeWriter, LakeFilter), **MCOutput** (Ingest, Splitter) and **MCThreads** (BatchIterator,
MemoryPools, ProgressTracker).
Such a module is a sum, not a product: a variable says which part a behaviour is about,
the variables of the others keep an initial value, and the names of definitions carry
the part's name where two would clash. Nothing is lost by not interleaving them. Real
interaction between modules is inside one module (LakeMap: jobs, files, slices;
FormatRegistry: inspections, registry, slices; SqlCache: queries, writers) or is by
refinement (SliceRows implements RowSlice) and by hand-over: TextRows, JsonArray,
ObjectRows and AvroFile establish of their formats what SliceRows assumes of all, that
a block starts at a row and holds the rows it says.

Each module ends with its properties. The definitions marked "Mutated" are plausible
mistakes in the definition after them; every property is violated when the one that
`PROJECT.json` names replaces the original, which shows that it depends on the code.

## 3. Runs

| Run | Module | Checks | States (about) |
|---|---|---|---|
| LakeMapCatalog | MCLakeMap | NeverTorn, MetadataSound, QuietSliceRight | 1.5 M |
| LakeMapReports | MCLakeMap | DigestSound, ReportTrue | 2.8 M |
| LakeMapHeal | MCLakeMap | Converges (liveness) | 440 k |
| Slices | MCSlices | SlicesTypeOK of all five parts; SliceRows: LocatorsTile, KeepsContract (refinement of RowSlice); ObjectRows: ObjectBlocksRight, ChunksRight; AvroFile: AvroBlocksRight; GlobalRows: RowsNumbered; Projection: ColumnsAsAsked | 550 k |
| SliceColumns | MCProjection | PresentColumnsFound: **violated** | - |
| Files | MCFiles | FilesTypeOK of all four parts; TextRows: TextBlocksRight; JsonArray: ArrayRowsRight; FormatRegistry: QuietInspectionRight, SliceServed; SqlCache: SqlAnswersWhole, SqlAnswersCurrent, SqlTranscodedOnce (action property) | 2.8 M |
| FormatOverride | FormatRegistry | OverrideHasNoLocators: **violated** | - |
| Audit | MCAudit | AuditTypeOK of all four parts; StaticFilter: StaticSplitRight; DynamicFilter: RulesAuditRight; LakeWriter: LakeReportRight; LakeFilter: PruningRight, FilesSummaryRight | 1.6 M |
| Output | MCOutput | Ingest: TypeOK, LakeRight; Splitter: SplitRight, FailureLeavesPrefix, SplitEnds (liveness) | 1.2 M |
| IngestInPlace | MCIngest | CopiedByteForByte: **violated** | - |
| IngestTargets | MCIngest | TargetsDistinct: **violated** | - |
| Threads | MCThreads | ThreadsTypeOK of all three parts; BatchIterator: BatchesRight, CallsReturn (liveness); MemoryPools: BudgetKept, PoolAsAsked; ProgressTracker: BarRight, ShownBarEnds (liveness) | 1.1 M |

Some properties are conjunctions of named statements that belong together, each with
its comment in the module: ObjectBlocksRight is BlocksHold and DamageAgreed;
AvroBlocksRight is BlocksFound, WholeFilesPass, DamageRefused and StreamsWhole;
RowsNumbered is LocateRight and GroupRight; TextBlocksRight is CheckpointsRight and
GroupsCover; ArrayRowsRight is ScanRight and MappedRowsRight; StaticSplitRight and
RulesAuditRight are "no row is lost" with "the clean rows are clean" and "the audit
column says why"; LakeReportRight is TreesTrue and CountsCoverDisk; PruningRight is
PruningSound and PrunedOnce; LakeRight is IngestRight and RowsCounted; BatchesRight is
GivenOnce, TableIsTail and NothingVanishes; BarRight is DoneOnce and LinesApart. Each
conjunct has a mutant of its own. The type invariants of LakeMap, Splitter and
SliceRows are theorems, and so is SliceRows' SliceRight, which KeepsContract implies;
the runs do not repeat them.

What they show, and why the bounds are enough:

* **LakeMapCatalog**: one file that changes twice among three contents, two of which
  have one size; a builder with either policy, a slice, one crash or I/O error. A
  content must change away and back and meet an equal size for the checks to be fooled:
  two changes do it. Entries of different files do not influence each other. A passing
  stat check means a true entry (when mtimes move), and an undisturbed slice is right.
* **LakeMapReports**: two files, one of them of a format whose locators come out of the
  scan, contents that cannot be decoded, BLAKE3, mtimes that may be preserved, one
  change. Statements about a partial catalog need two files, not three.
* **LakeMapHeal**: one file that changes twice, a builder that may overwrite the
  Doctor's catalog at any time, one crash or error.
* **Slices**.
  *SliceRows*: files of 0, 1 and 5 rows; offsets up to one past the end; limits 0, 1,
  2 and beyond the end; strides 1 to 3; groups and batches of 0, 1 and 3 rows. Each
  resolver sees ranges before, across and after group boundaries; the proof removes
  the bounds.
  *ObjectRows*: files of up to five values of four kinds, strides 1 and 2, batches of
  1 and 3 rows: blocks end inside, at and after a batch, and damage sits before, in and
  after the first row. *AvroFile*: integers of three digits below four (`More`); up to two
  header blocks in either form and two data blocks, each byte damaged in every way and
  the file cut at every byte. Eight rows are the fewest that need three digits; sizes
  past the end and negative counts all occur.
  *GlobalRows*: three paths, old and new column sets, row counts that reach the
  saturation bound of 6. *Projection*: requests of up to three names, unknown and
  repeated ones among them, of files of up to three columns, two of one name or one
  nested; all readers, mapped or not, with and without rows.
* **Files**.
  *TextRows*: every file of up to eight bytes of the characters that matter, strides 1
  and 2: three rows with an empty line and a quoted line end fit in. *JsonArray*:
  every file of up to 6 bytes that starts with a bracket, every text of up to 4 bytes
  between `[{` and `}]` (strings with escapes and brackets in them, closed or not), every
  other file up to 3 bytes; read by 1 or 3 bytes at a time, in every mixture.
  *FormatRegistry*: one plugin, two extensions, two changes, a slice and an inspection:
  registering and taking back between any two questions. *SqlCache*: one
  source, two query threads with two queries each, one rewrite, two ticks, one fault.
  Cached files of different sources are independent, and the two threads are
  interchangeable (`SYMMETRY`).
* **Audit**: every combination of absent, null, NaN, low, in-range and high cells of one
  row (rows are independent in the static filter); up to three rules on two rows with
  two bits to a chunk, so the second chunk is used; two files of up to two batches with
  one swallowed error; directory trees two levels deep with partitions, plain names and
  other entries, every target kind and filter.
* **Output**. *Ingest*: every subset of four names whose natural targets meet, every
  mixture of files with rows, with a header only, and broken; both places; two batches a file; an
  error at any step of any number of jobs. With names that do not collide LakeRight
  shows that one job's failure takes nothing from the others that end well.
  *Splitter*: limits 1 and 3, batches of 0 and 2 rows, so that parts end inside, at
  and after a batch; two calls into one directory; six parts.
* **Threads**. *BatchIterator*: two threads, three batches, three calls. *MemoryPools*:
  two jobs of three files that ask for none, zero, one or two threads of three CPUs; a
  budget that fits some row widths and not others. *ProgressTracker*: three threads and
  a throttle of two ticks in four; any files may be broken, and all have one byte, since
  no step depends on the bytes.

Deadlock is checked except where the modelled call simply ends (`CHECK_DEADLOCK FALSE`
in Audit, Files, Threads and the four violation runs). Slices has an explicit `Ended`,
Output an `IngestEnded`. All bounds are constants whose comment starts with "bound:".

## 4. Fairness

* LakeMap: weak fairness of a called job's own steps (its threads run to the end: no
  step waits for another process) and of taking its result; strong fairness of starting
  Doctor with auto-heal, since somebody must keep running it. Files changing, builders,
  crashes and errors are not fair. `Converges` claims nothing for files that cannot be
  decoded.
* Splitter, BatchIterator: weak fairness of the work of a call that has begun. The
  splitter is a plain loop. In the iterator no call waits for the mutex (`try_lock`),
  and the GIL goes round between threads that want it.
* ProgressTracker: weak fairness of each file's way through the pool (`RunFile`): it is
  inspected and counted or, after an error, left out. It is not assumed that every
  closure is run. The lock is held for one step. The clock is not fair.

## 5. Theorems

All hold for every value of the constants that satisfies the ASSUMEs of the module
(natural numbers, strides above zero, disjoint processes): no bound is used.

| Module | Theorem | States |
|---|---|---|
| LakeMapProofs | TypeCorrect | `Spec => []TypeOK` |
| LakeMapProofs | HealthyEntryIsTrue | `Spec => []MetadataSound` |
| LakeMapProofs | MappedSliceIsRight | `Spec => []QuietSliceRight` |
| LakeMapProofs | CatalogNeverTorn | `Spec => []NeverTorn` |
| LakeMapProofs | DigestsAreTrue | `Spec => []DigestSound` |
| LakeMapProofs | ReportsAreTrue | `Spec => []ReportTrue`: what jobs report of a lake left alone is true |
| OutputProofs (MCOutput) | SplitTyped, PartsPartitionRows, FailedSplitIsPrefix | SplitTypeOK, SplitRight, FailureLeavesPrefix |
| | IngestTyped, IngestIsRight | TypeOK, LakeRight: any files, any order of the jobs, whatever fails |
| | OnlyFallbacksCollide | two files share a target only through a fallback name |
| | OutputIsRight | all of these of the sum |
| SlicesProofs (MCSlices) | RowsTyped, LocatorsCover, SliceIsRight | TypeOK, LocatorsTile, SliceRight of SliceRows |
| | SlicesKeepContract | `Spec => KeepsContract`, the refinement of RowSlice |
| | NumbersTyped, RowsAreNumbered | GlobalTypeOK, RowsNumbered |
| | ObjectsTyped, ObjectBlocksAreRight, ChunksAreRight | ObjectTypeOK, ObjectBlocksRight, ChunksRight: files of any length, damage anywhere |
| | ColumnsAreTyped, ColumnsAreAsAsked | ProjectionTypeOK, ColumnsAsAsked: any file, request and reader |
| | AvroTyped, AvroBlocksAreRight | AvroTypeOK, AvroBlocksRight: any metadata, data and damage, integers of any width |
| | SlicesTypesAreRight | SlicesTypeOK |
| FilesProofs (MCFiles) | TextTyped, TextBlocksAreRight | TypeOK, TextBlocksRight: files of any length |
| | RegistryTyped, QuietInspectionsAreRight, SlicesAreServed | RegistryTypeOK, QuietInspectionRight, SliceServed: any handlers, slices, changes |
| | SqlTyped, QueriesAnswerWhole, QueriesAnswerCurrent, TranscodedOnce | SqlTypeOK, SqlAnswersWhole, SqlAnswersCurrent and the action property SqlTranscodedOnce: any sources, queries, faults |
| | FilesTypesAreRight | FilesTypeOK |
| ArrayProofs | ArrayTyped | ArrayTypeOK: any file, chunks and reopening |
| | ArrayReadInOnePiece | a stream of any file, whole or from a mapped row on, ends as if read in one chunk; every row mapped begins with a brace |
| | ArrayRowsAreRight | ArrayRowsRight: arrays of any length and depth, files that are none, any chunks, whole or from any mapped row on |
| AuditProofs (MCAudit) | StaticSplit, RulesAudit | StaticSplitRight, RulesAuditRight: batches, rules and chunks of any size |
| | LakeReport | LakeReportRight: any files, batches, faults, order of the closures |
| | FilesSummary | FilesSummaryRight: any lake, any order of the counters |
| | Pruning | PruningRight: directory trees of any shape and depth |
| | AuditTyped | AuditTypeOK |
| ThreadsProofs (MCThreads) | PoolsTyped, JobsRunAsAsked, BudgetIsKept | PoolsTypeOK, PoolAsAsked, BudgetKept: any jobs, budget, widths |
| | TrackerTyped, BarIsRight | TrackerTypeOK, BarRight: any number of threads, any files left out |
| | BatchesAreRight | BatchesRight: any threads, batches, errors and panics |
| | ThreadsTyped | ThreadsTypeOK |

A theorem about a module that is checked as part of a sum (section 2) is about the
sum's specification or carried over to it (ThreadsAreRight, OutputIsRight), and the run
checks the same formula.

The invariants behind them:

* `StampInv` (LakeMap). MetadataSound is not inductive: it says nothing of entries under
  construction. What carries it is that a stamp taken *before* bytes were read
  identifies them, because under `FreshStamps` whoever changes the bytes later leaves
  an mtime nobody has seen. It is stated for drafts at each stage, for the maps in
  memory, temporary and published, and for slices. NeverTorn needs that a job at
  `rename` holds a whole temporary map.
* `DigestInv` (LakeMap) does without mtimes. If no bytes come back (`~Recurring`), a
  draft whose digest still equals the file at a later step has had the file unchanged
  since the digest was taken, so what the scans read in between are the bytes of the
  digest; the second digest, taken at the end, turns "still equals" into a fact. It must
  know that a digest is of bytes the file has held (`used`), or else bytes written later
  could match it.
* `ReportInv` (LakeMap), with the two above. A job that nobody disturbs (`calm`) knows,
  of each file at each stage, whether it is there, what its entry says and whether the
  catalog's entry is stale; at the verdict this makes HEALTHY true, at the rename it
  makes the new catalog true. That a check that passes means a true entry is
  HealthyIsCurrent (from StampInv or DigestInv, as `Trusted` says), and that one that
  fails means drift is StaleIsDrift. Steps of other jobs keep it, because no job
  touches another's work (JobsKeepApart) and publishing disturbs everybody else.
* `SliceInv` (SliceRows): the locators so far tile the rows before the current block;
  an opened reader stands at a point from which skipping ends at the offset; rows taken
  so far are the first of the range. An error can only come from a reader opened at
  the end of the file, which `Aimed` allows only past the last row: that is the step
  the refinement needs.
* `GlobalInv` (GlobalRows): every entry numbered so far starts where the one before it
  ended, saturated or not, and row groups lie inside their entries.
* `SplitInv` (Splitter): what is on disk, in the carry, in hand and still in the source
  follow each other without gap or overlap, and all parts but the last are full.
* `TextInv` (TextRows): while the bytes keep to their format, the states of the two
  automata determine each other (`DelimitedInv`, `NdjsonInv`), the rows of the reader
  are those the inspector has counted plus the one that is open, and the open block
  starts where a row does. Without the pairing of states nothing is said of a quote.
* `RegistryInv` (FormatRegistry): what an inspection was told is still so while the
  registry is what it was when it began, and what a slice was told is among what has
  been registered since it began.
* `PoolsInv` (MemoryPools): every pool there ever was has the threads it was made for,
  and a job's streams are bounded by the smaller of its pool and its files, which is the
  number its batches were sized for; the rest is arithmetic of divisions and clamps.
* `TrackerInv` (ProgressTracker): the file counter is the number of threads past their
  count, those left out excepted, so each number is handed to one thread, and the last
  one to none if a file was left out; a line is drawn by the thread that has
  its number; times lie between the last line and the clock.
* `IteratorInv` (BatchIterator): the owner of the mutex is the one call that has
  anything in its hands (OwnerRight); what it has gathered are the last batches pulled
  (GatheredRight), and what was returned before is numbered below them (ReturnedFirst).
  So a batch is returned, in the hands of the one owner, in the source, or was dropped
  with an error.
* `ObjectInv` (ObjectRows): the blocks so far tile the values before the scan (BlocksTile);
  the scan has counted the values since the last block (LookSoFar, LookEnded); what a
  reader has pulled is what its block has from its first value on (PulledSoFar); what
  it has given and what it buffers is all of that (GivenSoFar). It holds for any damage,
  because inspector and reader stop at the same value.
* `WholeInv` and `CurrentInv` (SqlCache): a cached file holds parts of its source,
  each at its place, and its footer announces all of them or there is none (CopyRight),
  so a scan that does not fail reads every part (QueryRight); while a source is `apart`, a copy
  that looks fresh holds the parts of the version that was there when its conversion
  began, and that is still the version (CopyCurrent). Both need that two sources do
  not share a copy (`CopiesApart`, a hypothesis of the theorems): they do when names
  differ in the case of their extension only, or with one BASALTIC_RED_CACHE_DIR for
  several directories, and section 6 says what happens then.
* `IngestInv` (Ingest): of each file, at each step of its job (JobInv): its target is
  untouched, holds the batches written so far, or is complete and counted, and of a job
  that failed nothing is known. A source is only ever truncated by its own copy. Jobs write
  different targets (`TargetsDistinct`, a hypothesis of the theorem that the run
  IngestTargets shows to be needed), and OnlyFallbacksCollide says exactly which names
  violate it.
* `StaticInv` (StaticFilter): after the first step the masks are those of the batch, and
  a mask of a row is true or false, never null, which is what nulls_are_invalid is for.
  A code of three bits is zero when all are.
* `RulesInv` (DynamicFilter): the chunks hold, bit by bit, which of the rules evaluated
  so far a row breaks (MasksRight). A rule's chunk and bit determine its number
  (DivModUnique), so a new rule disturbs no old bit; the list of violated rules is built
  chunk by chunk, and stays ascending because a chunk's numbers lie between those of its
  neighbours (ListedRight).
* `LakeParts` (LakeWriter): of each file, how the rows its worker has counted, the batches
  passed and the two trees belong together (Handled: the trees never hold more than was
  counted; Faultless: without errors they hold exactly the batches passed). The gold job
  has the same pair for a copy (Gilded, TrulyGilded). When all workers are at rest the
  sums over the files follow (SumBetween). Steps of one worker leave the files of the
  others alone, so no order of the closures matters. What the first call reported stays
  true through the second, which writes the gold tree only.
* `FilesInv` (LakeFilter): every counter holds the sums of the batches it has read. The
  walk that chooses the files is well defined because a directory below another one has
  a longer path (WalkExists, by the deepest directory where it is not).
* `PruneInv` (LakeFilter): the walk from a directory finds the files asked for that are
  reached from it and counts the topmost dead directories below it (WalkFiles,
  WalkCounts). Both are proved by the deepest directory where they fail: what lies below
  the children of a directory is disjoint, so the union of their files is the directory's
  and their counts add up.
* `ColumnsInv` (Projection): what a reader reports is one of the schemas it may report,
  and the batch it gives is *sound*: it has every name asked for that the file has, and
  the first column of each name in it is the file's first of that name, whole. That is
  weaker than having the columns asked for, which no reader but two promises, and just
  enough for the reordering by name at the end.
* `AvroInv` (AvroFile): where the inspector is, in terms of what was written (Spot): at
  the count of metadata block k, at entry j of it, or at data block n, with the blocks
  before that one found. That it never loses its place rests on LiesIn: what was written
  lies in the file from the byte on at which the parts before it end, and reading where
  an integer lies gives that integer (the digits of a number determine it, for any
  `More`). Of a damaged file the same holds up to the damage, and there the inspector
  fails, because the count, the size or the marker it needs cannot be, or is not in the
  file although it may have skipped past the end.

* `RightInv` (JsonArray) has three parts. `ArrayInv` is about chunks: where the stream
  is, its filter has read what was delivered and is Ahead of nothing else, so a stream
  ends as if its source was read in one piece. What is left is about whole texts: what
  the automata of filter and scan make of them, and what the definitions say that
  generate the arrays. Those are functions on lengths, which are first unfolded
  (BalancedUnfold, TailsUnfold, StreamsUnfold, ...), and then
  * *every array is read*: by induction over lengths, filter and scan pass what stands
    between matching brackets (BalancedPass), and of every end of an array (`Tails`)
    the filter delivers a stream of its rows, the scan finds their starts, and from each
    start on there is such an end again (`Good`: TailsAreGood, ArraysAreGood);
  * *the parser reads one thing*: no object begins another one, so two streams of the
    same text have the same rows (ParsedReadOnce), and RowsOf is not a choice;
  * *nothing else is read*: what the filter reads to its end, and delivers as a stream,
    is the end of an array with the rows of that stream (`SoundFor`: TailsAreSound,
    LeadIsSound, DeliveredIsArray). Each state of the filter stands for one family of
    ends (`Stands`), and each byte it does not refuse leads from one to another.

  With these the invariant needs little more than that a mapped file *is* an array with
  the starts that were found (MapInv). That the characters of the files include the
  brackets and braces is an assumption (CharactersAssumption), because the files it
  starts from are written with them.

Sums, orderings and concatenations are taken from the community modules, which define
them by recursive functions or CHOOSE. DataLemmas therefore gives each its one step
(SumStep, InOrderExists, FlattenMore, UnionCount, ...), proved by taking a least
counterexample; it also has what the proofs need of sequences that lie in others
(LiesIn), of long division and of machines that run over a sequence (Iterates).

Only model-checked: liveness (Converges, SplitEnds, CallsReturn, ShownBarEnds), which
rests on fairness and ENABLED. The safety properties of the passing runs are all proved.

## 6. Where code and documents disagree

Checked by a violation run:

* `IngestTargets`: the fallback name of a normalized file is neither looked up nor
  reserved (`src/src/engine/ingest.rs:87`). With `a.csv`, `a.csv.parquet` and `a.parquet`
  two jobs of the pool write one target, although the comment at lines 49-51 says that
  normalized files yield when a name is taken.
* `IngestInPlace`: the source directory may be the destination. A file that is copied is
  then its own target: `fs::copy` (`src/src/engine/ingest.rs:112`) opens it, truncates it
  and copies nothing, and the call returns its counts, although lines 26-27 say that
  such files are "copied byte-for-byte".
  LakeRight says what is left: it speaks of no file that is copied onto itself, but of
  all others, and of sources kept.
* `SliceColumns`: the Parquet pushdown compares the names asked for with the names of
  leaves (`src/src/engine/formats/core/parquet.rs:50`). A struct or list column has no
  leaf of its name, and a column whose name an earlier nested leaf has is not read, so
  `slice_cols` reports a column as missing that the file has, although
  docs/en/architecture/formats.md:55 promises an error only "if a field is missing".
  ColumnsAsAsked holds for flat files and for every other reader.
* `FormatOverride`: an inspection asks the registry for the handler and once more for
  `dynamic_override` (`src/src/engine/map/inspect.rs:564`). A handler taken back in
  between has counted the rows, while the entry keeps the built-in reader's locators;
  docs/en/reference/lake-map-spec.md:28 says that an overridden extension has none.
  QuietInspectionRight and SliceServed state what does hold.

Seen while reading and tried on these models with other instances, not part of the runs:

* A row file without a batch (a CSV file with its header only) becomes a file of no bytes
  instead of a Parquet file, since the first batch makes the writer (`ingest.rs:151`,
  against `ingest.rs:26-27`), and the call returns its counts. Ingest's `Delivered` says
  so: LakeRight asserts of such a target that it has no bytes.
* A file that changes between the stat of a slice and its read is read through old
  locators (`map/storage.rs:184`; docs/en/architecture/lake-map.md:68).
* BLAKE3 before and after a scan misses bytes that change and change back with a
  preserved mtime (`map/inspect.rs:550`). DigestSound therefore excludes them
  (`Recurring`).
* A create_map between a Doctor's load and save loses its options
  (`map/doctor.rs:133`; docs/en/workflows/lake-doctor.md:53).
* A mapped JSON array answers a range past its end with an error, the normal reader
  with no rows (`map/ranges.rs:25`; tests/edge_cases.rs:80). RowSlice allows both.
* `max_rows_per_file = 0` writes parts without rows for ever (`splitter.rs:49`); the
  model takes limits from 1.
* With both timestamps, bit 2 of the static audit ignores the fare (`filter.rs:79`;
  docs/en/reference/audit-codes.md:35).
* The gold report counts skipped files and rows whose write failed
  (`formats/core/parquet.rs:265`; lakehouse-pipeline.md:65). CountsCoverDisk states
  the direction that does hold.
* A source written while it is transcoded leaves a stale entry that looks fresh
  (`sql.rs:171`), a failed transcoding leaves a file the next query registers
  (`sql.rs:177`), and with a common cache directory files of one name share an entry
  (`sql.rs:162`). SqlAnswersWhole and SqlAnswersCurrent state what is left. A query of
  a directory also finds cached copies below it and reads their rows twice
  (`sql.rs:265`, not modelled).
* `num_threads = 0` sizes batches for one stream, but Rayon takes it for all CPUs
  (`parallel_filter.rs:85`, `memory.rs:64`); BudgetKept leaves that request out. It is
  about one job: jobs that run at the same time each take the whole budget, and the
  width of a row is estimated from the first file only.
* The last line of the progress bar may show fewer bytes than there are, and an older
  line may be drawn after it: files and bytes are counted apart and the time is taken
  before the lock (`map/model.rs:324`). DoneOnce and LinesApart state what is left.
* A MessagePack file whose first map has no keys gives rows but no columns: every batch
  is an error (`row_chunker.rs:47`), while the map counts its rows.
* An unmapped delimited reader reports the schema of the whole file for an empty range
  and that of the projection otherwise (`common/csv.rs:104`); the final reordering hides
  it.
* Quotes in the middle of an unquoted field, lone carriage returns, and several NDJSON
  values on a line or values on several lines are read by inspector and reader in two
  ways (`map/inspect.rs:148`, `map/inspect.rs:418`): they lie outside `tidy`.
* `to_pyarrow` of an exhausted iterator raises (`pyapi/iterator.rs:121`), and the counts
  of a lazy stream stay zero (`pyapi/iterator.rs:33`).

## 7. Plan

In order of weight; done parts are sections 2 to 5.

1. Directory queries and the native listing table in SqlCache.
2. A second run of the lake writer into the directory of an earlier one.
3. The search for the nearest map in parent directories, with maps that overlap.
4. FormatRegistry's inspections as steps of LakeMap's, now that each is checked alone.

## 8. Not modelled

Decoders of third-party crates (Avro, ORC, MessagePack, Excel, IPC, Parquet, arrow-csv,
arrow-json): they appear as the rows, batches and automata of what they accept. Text
formatting, previews, sampling, dictionaries, Python argument conversion: stateless.
Schema inference and statistics: part of the content they were computed from. Digest
collisions. The search for the nearest map in parent directories: one directory here.
A second run into the directory of an earlier lake writer run. Directory queries and the
query text rewriting of the SQL layer. Layout of the progress line. The Tokio runtime,
which is made once and has no other state. The errors of loading a damaged map, which
happen before anything is changed. The fallback of `ranges.rs:34-36` for a locator without
`first_byte`: no inspector of the kinds that use it writes one.
