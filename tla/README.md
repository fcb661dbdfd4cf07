# A TLA+ verification project for r7z

r7z reads and writes 7z archives. This directory holds TLA+ specifications of
its core, TLC configurations that check them on small instances, and TLAPS
proofs of the most important properties. All paths are relative to the
repository (`src/` is its root, so the crate is in `src/src/`).

## 1. The system

| Component | Source | State | Operations | What is hard |
|---|---|---|---|---|
| Entry reads | `archive.rs`, `folder_decode.rs` | one shared folder decoder, its position and digests, the traversal, the verification scope | `read_entry`, `finish_folder`, `finish`, drop, `stream_files`, `stream_selected_files` | reuse of one decoder by many entries; callbacks that stop early or swallow errors; failures half way; a claim accumulated over many calls |
| File streams | `file_streams.rs`, `entries.rs` | next entry, lazily parsed folder layouts | `nth`, `advance_by`, end check | an error in the middle of a skip |
| Operation control | `operation.rs` | cancellation flag shared by threads, progress | `cancel`, `check`, `read`, `copy_to` | cancellation between any two steps |
| Budgets | `resources.rs` | totals and limits | `charge`, `release`, `resize` | charging twice or not at all; limits met exactly |
| Archive writer | `write/mod.rs`, `write/encode.rs` | entries, active and completed folders, `WriterState` | `append_*`, `new_folder`, `finish`, `ArchiveBuilder::build` | failing appends; solid limits; the folder plan against the folders made; order of the last writes |
| Header serialisation | `write/header.rs` | none | build and encode the header | sizes left out and recovered by subtraction |
| Spool and volumes | `write/mod.rs` 1799-2358 | memory or temporary file, accounts, volume files | `AutoSpool::write/seek/read/cleanup`, `write_volume_files` | rollover in mid-write, short writes, partial failures, limits, exact volume boundaries |
| Archive update | `write/mod.rs` 741-1248, `update.rs` | staged and preserved folders | raw folder copies, replacement plan | inputs that change between staging and writing; requests that do not fit the source |
| LZMA2 encoding | `write/lzma2.rs` | buffered input, worker count | start, write, finish | cancellation handed over at the start |
| Folder plans | `folder.rs`, `codec/plan.rs`, `codec/sizes.rs` | coder graph, sizes, chains of readers | `graph`, `compile`, `bind`, `start` | order of coders and packed streams; sizes given, left out or inferred; memory admitted first |
| Codecs, encryption | `codec.rs`, `aes.rs`, `byte_swap.rs` | decoder state | decode, encode | bytes |
| Opening, parsing | `archive.rs`, `headers.rs`, `files_info.rs`, `pack_info.rs`, `stream_info.rs` | header scan, additional streams, metadata budget | open, scan, suspend and resume, parse on first use | two readers of the same tables; a scan that stops in the middle |
| Sources | `archive_source.rs` | volume table, position | `read_at`, signature scan | volumes left over from other archives |
| Command line | `bin/r7z.rs`, `extraction.rs` | files on disk | add, update, delete, extract, test | replacing archives, overwriting, other programs, kills |

How they interact. A reader opens an archive, then a read session walks
`FileStreams` and drives an `EntryDecoder`, which owns at most one
`ActiveFolder`; every decoded read goes through the operation monitor
(cancellation, progress) and the decoded-byte budget, and hands bytes to a
caller's callback. On the other side `ArchiveWriter` encodes a caller's readers
into folders of a seekable sink; `build_streaming_to_writer` and
`build_streaming_volumes` give it an `AutoSpool` as the sink and copy the result
out. The command line is a client of both. There is no message passing, and the
library starts no threads of its own outside the LZMA encoder library:
concurrency is the cancellation flag (and callbacks run inside calls), and the
hard part is failure in the middle of long call sequences over shared state.

Correctness, per component: a reader gets its own entry's bytes and never an
unjustified claim of verification; a signed archive is complete and reads back
as what was appended; staging is invisible, keeps to its limits and leaves no
file behind; an update never loses the old archive; limits and cancellation are
respected throughout. `PROJECT.json` lists the hazards by source line with the
properties that would catch each.

## 2. The modules

### ReadSession (entry reads, file streams, control, decode budget)

Constants describe one archive: its entries (`Files`, `Kind`, `StreamOf`), its
folders and substreams (`FirstStream`, `FolderOf`, `Size`, `End`, `Unpack`),
which of them carry digests, and which folders have eager decoders. `Init`
chooses what the decoders will really yield (`damage`: short, long, failing or
corrupt data), where the folder tables are bad (`broken`), the API and, for
`stream_selected_files`, the selection. Data is counted in chunks, and a digest
is the set of chunk offsets that went into it.

| Model | Code |
|---|---|
| `Request`, `RejectIndex`, `LayoutError`, `Located` | `ArchiveReadSession::read_entry`, `FileStreams::nth` |
| `VisitDirectory`, `ReadEmpty`, `ReadFails`, `ReadStream` | `EntryDecoder::read` up to the choice of the folder |
| `OpenFolder`, `OpenFails` | starting a folder decoder, eager charge included |
| `SkipStream`, `OpenStream`, `StartCallback` | `skip_to` and the substream handed to the callback |
| `CheckRead`, then `ReadChunk`, `ChunkCancelled`, `DataEnds`, `DrainFails` | `SubstreamReader::read` and the drain loops |
| `CallbackReturns`, `CallbackFails` | the caller's closure, which may stop anywhere or ignore errors |
| `StreamEnds`, `StreamMismatch` | the end of a substream and its digest |
| `DrainTail`, `FolderEnds`, `FolderCheckFails`, `LeaveTail` | completing a folder, or leaving its tail undecoded |
| `Finish`, `FinishCheck`, `FinishTables`, `DropSession` | `finish_folder`, `finish`, the end of a traversal, drop |
| `Cancel` | `OperationControl::cancel` by another thread, or a progress callback that breaks |

A read looks at the cancellation flag (`CheckRead`) before it decodes, and
another thread may set the flag between the two: the chunk then decoded is a late
one, and `lateChunks` counts those.

`stream_files` and `stream_selected_files` use the same actions; `StreamStep`
is the step with which they take the next entry by themselves. Errors that the
model does not tell apart (I/O, codec, password) are one nondeterministic
failure.

### StreamTables, ArchiveWriter and ArchiveRoundTrip (archive writer)

`StreamTables` holds what the writer and the update share: how the header
describes the streams of a folder (`FolderHeader`), the reader that finds them
again, and the folder progress of the solid limits. The reader is a record and
`ReadNext` is one step of the walk of `FileStreams` through a header:
`PassEmpty` goes over an entry without data, `EnterFolder` to the next folder
when the streams of one are used up, `Locate` gives an entry its range,
`EndReading` is the check that streams and entries come out even. `LaidOut` is
what the reader relies on, and `ReaderOK` that it is where it should be.

State of `ArchiveWriter`: the `WriterState`, the sealed folders, the active one with its
`FolderProgress`, the entries recorded, and the sink (`sig`, `header`). A
folder's payload is the sequence of the append calls its chunks came from, so
that "the archive reads back" can be stated. `AppendFile`, `AppendEmpty`,
`NewFolder` and `Finish` begin the public calls; `ReadFirst`, `EnsureFolder`,
`WriteChunk`, `ReadMore`, `RecordEntry` are the steps of an append; `Seal`
closes a folder; `WriteHeader`, `WriteSignature`, `Flush` are
`finish_streamed_archive`; `AppendFails`, `SealFails`, `WriteFails` are the
error returns. `PlanItem` is one round of the loop in
`entries_with_solid_folders` (its state, the `planner`, is kept with each planned
entry, so that plan and writer can be compared), `Build` its end, and
`BuildEntry` replays the plan. A crash needs no action: the properties about the
sink hold in every state, and a crash leaves one of them.

`ArchiveRoundTrip` extends the writer by a reader that opens what was signed and
walks its tables (`Read`). `FileStreams::new` compares the numbers of streams and
entries up front; in the model the walk would end in an error instead, and the
property forbids it.

### SeekableOutput and StagedOutput (spool, volumes)

`SeekableOutput` is the abstract specification: one seekable file, written at a
position, then copied out in order; success means all of it was copied.
`StagedOutput` is the code: an `AutoSpool` in memory or in a temporary file,
with rollover, retained-output and temporary-storage accounts, short file
writes, a failure of every file operation, the copy to a writer or into volume
files with their counts, and the cleanup. The archive writer above it is present
as the seeks and `write_all` calls it makes (`BeginBlank`, `BeginBody`,
`BeginHeader`, `BeginSignature`), including the second attempt of a `BufWriter`
that is dropped after an error. `AutoSpool::write` is the sequence
`CheckTemporary`, `NoRoll`/`Roll`/`RollRefused`/`RollFails`,
`PutMemory`/`PutFile`/`PutFails`. The refinement mapping shows memory or file
contents as the one file; a rollover is a stutter. `RequiredVolumeCount` is a
relation: `rest` lists what the loop of `required_volume_count` has left at each
of the sizes, and exactly one number of volumes satisfies it.

A unit is as long as a signature header (32 bytes); a write of a unit value
stands for bytes of one `write_all` call. Three consequences of the code are
worth noting. The open-volume limit cannot be met, as one volume is open at a
time and limits are non-zero. An archive is never empty, so the branch of
`write_volume_files` for no data is unreachable from the public API. And an
archive without data starts with its header behind a gap, so its file may be
longer than charged until the signature header fills the gap.

### ArchiveUpdate (archive update, add, update and delete commands)

A source is the listing of an archive: entries with the folder and the range
their data is in. `Listed` is what a listing guarantees because `FileStreams`
made it: entries with data go through the folders in order and share out each
folder without gaps.

| Model | Code |
|---|---|
| `ScanOperand`, `CollectPath` and their ends | `scan_disk_operands`, `collect_disk_entries`, `collect_path` |
| `PlanFolders`, `RetainEntry`, `AppendPending` | `preserved_rewrite_entries`: each old entry is dropped, copied with its compressed folder (`Raw`) or decoded (`Data`), then come the collected files |
| `Validate` | `validate_raw_folder_update` |
| `Stage`, `StageEntry`, `StageEnds` | `stage_preserved_entries`, with the folder numbers (`Assign`), the order of first use and the check that folders are together |
| `Begin`, `WriteRaw`, `OpenEncoded`, `ReadChunk`, `RecordStream`, `CompleteFolder`, `Finish` | `write_preserved_archive` and the functions it calls |
| `Read` | the walk of `FileStreams` through the new archive |
| `Fail` | any error return that leaves the rest undone |
| `Change` | another program that writes, removes or replaces a file between any two steps |

A job is a command, or the request of a library caller, who may hand over
anything. The loops of the code are loops of the model, one entry a step, which
is what makes them provable. A chunk of data is named by where it came from, so
that what is read back can be compared with what was meant.

### AtomicArchive and ArchiveReplacement (command line and volumes on disk)

`AtomicArchive` is the abstract specification: at every moment no archive or a
complete one, and each change installs one version that was there, with the
edits of one command. `ArchiveReplacement` is the code: processes that open the
archive (`Open`), fill a temporary file (`MakeTemp`, `WriteUnit`) and rename it
(`Persist`), or cut it into volumes through a temporary file each (`FillVolume`,
`RenameVolume`), and a program that opens the volumes (`StartReader`,
`OpenPart`, `ReadHeader`, from `archive_source.rs`). A unit of a file names its
writer and its place, so that a mixture of two archives can be told from one;
`offset` counts the units a process has cut off, and the reader's `units` are
what its volumes hold one after the other. `Fail` is an error return
with the cleanup the code does, `Kill` ends a process between any two steps
without any. The removal of a temporary file may fail like any other call: for
the one that is dropped nobody notices, for the temporary archive (`EndVolumes`,
`FailVolumes`) the command fails if nothing else has failed before.

### ExtractCommand (x, e, t and `extract_all`)

The destination is a tree of files, directories and links that holds other data
already, and `Touch` is another program that changes it between the steps.
`Begin`, `CheckFree`, `CheckDirectory`, `Collides`, the five answers,
`RemoveFile`, `MakeParents`, `Create`, `Copy` and `Finish` are
`ExtractionTarget::prepare`, `decide_overwrite` and `Extraction::write`.
`TestEntry`, `TestFolder` and `EndTest` are `test_selected_folders`. A file's
data names the entry it came from and whether it is complete. Both commands read
through one session, of which the model keeps the entry it read last: an entry is
`Readable` if it and what is in front of it in its folder are sound, since
skipped entries are decoded and checked too, and `FinishFails` is the end of a
folder, whose unread part is looked at only by `extract_all` or if the folder has
a checksum of its own. `IoFails` is a call of the file system, of the archive or
of the terminal that returns an error at any of these steps.

### FolderGraph and FolderPlan (folder decoding plans)

`FolderGraph` is `Folder::graph`: arities, owners, bindings, the final output,
the packed inputs and the execution order, as operators. A loop of the code is a
function of the number of its rounds (`Numbering`, `Binding`, `Releasing`,
`Running`), which is what the proofs need. `WellFormed` says without the
algorithm which folders may be accepted. `FolderPlan` compiles
the graph: `Resolve` it, `Compile` a chain or a BCJ2 layout (`Follow` goes back
from an input of BCJ2) with the sizes
settled (`Reconcile`, `BindSizes`) and the memory admitted, `Open` each reader
and `Start` the decoder. A reader is the packed stream it starts from and the
coders opened on it; the properties compare these with the folder's pairs.

### HeaderTables, HeaderWriter and ArchiveOpening (opening and header)

A header is a sequence of units: a number, tag, digest, time or UTF-16 code unit
takes one, a bitmap one for every `BitmapBits` bits. `HeaderTables` holds the
scanners (`Scan...`), which opening runs and which keep nothing, the parsers
(`Parse...`), which run at first use, and the folder layouts that follow from
the tables (`Layouts`, and `Preflight` with its limit). `HeaderWriter` is `build_header`. `ArchiveOpening` reads the next
header, decodes an encoded one, scans it section by section (`ScanSection`),
suspends where additional streams are needed, decodes these (`DecodeExternal`)
and resumes; the data it reads and decodes is charged to the metadata budget. (The
`StreamInfo` that a `PendingHeader` parses and keeps is charged nowhere, and no
property speaks of it.) Its headers are those of `HeaderWriter` and of other
writers, with any one unit changed or the end cut off.

A header of this repository's writer is not always one its reader takes.
`write_substreams_info` knows nothing of `MAX_SUBSTREAM_DIGESTS`, and
`write_names` puts a name down whatever is in it, while `validate_name_data` ends
a name at every NUL. `WrittenHeadersReadBack` names these two cases, and says that
there are no others.

### MC modules

The `MC` modules define the values of the constants. Operators marked "Faulty
variant" next to a definition are plausible mistakes in it; each property is
violated when one of them takes the place of the correct definition
(`PROJECT.json`, "mutants").

## 3. The runs

| Run | Distinct states | What it shows |
|---|---|---|
| `session` | 3.35 M | any sequence of `read_entry`, `finish_folder`, `finish` and drop over damaged archives: claims of verification are honest, entries reported Ok are intact, callbacks see their own bytes, a cancelled call does not succeed and decodes at most the chunk it had begun, the decode limit is respected, the scope only weakens |
| `stream_files` | 68 k | both traversals over every selection and every damage, with bad tables also after the last folder: each folder is started once, and the traversal ends |
| `session_liveness` | 862 k | every session call returns |
| `writer` | 287 k | up to four entries by streaming and by `build` in every solid mode, with failures everywhere, and a reader that walks what was signed: it is complete and reads back, limits hold, the plan is followed |
| `staged_output` | 77 k | every spool mode and limit, to a writer and to volumes: refinement of `SeekableOutput`, limits, no stray files, volumes as planned, cancellation, termination |
| `update` | 325 k | three commands and library requests of up to five entries, right and wrong, on two sources and a changing disk: what is signed is walked by a reader and reads back as the bytes that were read, other entries keep their order and bytes, a rejected request wrote nothing and no command's request is rejected |
| `replacement` | 728 k | three processes that rewrite or split one archive, failing or killed anywhere: refinement of `AtomicArchive`, commands in sequence keep each other's edits, temporary files are left behind only by a command that failed or was killed, and by a failed one those of one stage, volumes that open are one archive and completely written ones open |
| `extract` | 84 k | every overwrite mode and answer, colliding names, damage in entries, in skipped ones and at the end of folders, failing calls and another program: nothing is lost that the user did not give up, partial files are reported, exit code 0 means all was written, the test command names exactly the bad folders among those it vouches for |
| `folder_plan` | 357 k | all bindings of up to three coders and of BCJ2 folders: accepted graphs are acyclic and fully bound, readers are the ones the bindings ask for, and sizes fit |
| `opening` | 114 k | ten headers with any unit replaced or the end cut off, plain and encoded: stream tables the scan accepts parse, file tables end where it says, resuming equals one pass, no use of additional data is missed, data is charged, written headers read back but for two cases named |
| `failed_read_scope` | violation | finding 1 below |
| `request_consumes` | violation | finding 2 below |

Bounds, and why they are enough:

- *Archive of the read runs*: two folders and six entries. One folder has no
  digest of its own and an entry without a stream digest, the other has a
  folder digest, an eager decoder and an empty substream; an empty file and a
  directory lie between them. That covers an entry before, in, and after another
  of its folder, a switch of folders, and each kind of check. `MaxDecoded` lies
  between one and two decodings of the archive (six chunks of four), so that the
  budget is exhausted by reopening; in the liveness run it is met exactly.
- *Damage*: at most one fault, or one per folder, of every kind. The proofs
  have no such bound.
- *Writer*: `MaxEntries` = 4 entries of at most `MaxSize` = 2 chunks, limits of
  two and three files or chunks: a limit is undershot, met and overshot, and
  two folders can be completed and a third begun.
- *Staged output*: archives of at most `MaxUnits` = 5 units from writes of at
  most `MaxRun` = 2; thresholds at none, zero, within and above the archive;
  limits below, at and above what it needs; volume lists whose sizes the
  archives overfill, fill exactly and do not fill, shorter and longer than the
  number of volumes.

- *Update*: two sources of two folders, one of which cannot be decoded, with an
  entry without data between; three paths, one in a directory; two changes of
  the disk. All requests of up to two entries from thirteen streams, and of up
  to five from four valid ones, so that a folder is named twice, out of order,
  in part, with a wrong size and by a foreign handle.
- *Replacement*: three processes, of which two split, into four and two volumes,
  so that a shorter set covers part of a longer one; the reader may open three
  volumes at most, so that the limit is met.
- *Extraction*: archives of up to four entries in two folders whose names
  collide with and without their directories; two changes by another program,
  enough to put a file where one was just removed. Of four folders two have no
  checksum (1 and 3) and two end badly (`BadEnd`: 3 and 4), so that each way to
  leave a folder is there.
- *Folder plans*: sizes 0 and 1 against folder sizes 0 to 2, so that they agree,
  disagree and are left out; memory for two decoders but not three.
- *Opening*: bitmaps of two bits in a unit, so that one ends within a unit, at
  its end and in the next; a metadata limit that some of the headers exceed.
  `MaxDigests` = 4 stands for 8 million: written archives have four files with
  CRCs, five with some and five with none.

Sessions end (`closed`), writers, staged builds and commands return, so a state
without successor is legitimate and deadlock is not checked (the plan and opening
runs stutter explicitly when done, and are checked); the liveness properties
exclude a stop in the middle of a call.

Fairness. `WF(Step)`: the thread in a call keeps running and callbacks, readers
and file operations return; nothing is assumed of the caller's next request, of
cancellation, or of which of several outcomes happens. `WF(StreamStep)`:
`stream_files` takes its next entry in its own loop. In `StagedOutput`,
`WF(Step)` with the finite archive of the bound: inputs end. The other
specifications state no fairness, as only safety is asked of them.

## 4. The proofs

The proofs hold for every value of the constants that satisfies the named
assumptions, thus for every archive layout, damage, option and length.

- `ReadSessionProofs`, from `SizesAssumption`, `EntriesAssumption` (a listing
  has one stream per data entry, as `FileStreams::new` checks) and
  `LayoutAssumption` (ranges are consecutive and end at the folder's size).
  The properties are not inductive by themselves: that a finished folder is
  intact depends on what its digests have hashed, which depends on where the
  decoder stands. `IInv` adds `CallInv` (which call runs, for which entry),
  `DecoderInv` (the decoder is at the end of the substreams it yielded, and the
  digests hashed exactly what was decoded), `PositionInv` (it is never ahead of
  the entry asked for), `ChecksInv` (substreams passed have matched), `ScopeInv`
  (what the scope claims of folders given up), `ReportInv`, `GotInv` and
  `BudgetInv` (charged covers produced and what eager folders have prepaid).
  `LateInv` says that a read which has passed its check belongs to a call begun
  before cancellation, and that after a late chunk no further read passes.
  `SeekIsForward`, a part of it, is what `skip_to` relies on.
  Each action preserves each part; the theorems `TypeCorrect`,
  `CompleteScopeHonest`, `OkEntriesIntact`, `CancelledCallsFail`,
  `SeeksGoForward`, `OutputIsPaidFor`, `OwnBytes`, `CancelStopsDecoding` and
  `ScopeWeakens` follow.
  `OpensInv` adds that a traversal goes through the folders in their order,
  which gives `OpenedOnce`.
- `ArchiveRoundTripProofs`, from `WriterAssumption` (a limit limits something, as
  `validate_compression_options` asks). `IInv` = `TypeOK`, `WriterInv` (a failure
  is recorded in the state, and only an intact writer reaches the last writes),
  `AppendInv` (how far a running append is), `SolidInv` (what the folder will
  hold when the append is over is within the limit), `SolidLimitsHold` and
  `PlanInv`. The last one is the argument for `PlanFollowed`: planned entries are
  linked by the state of the planner before and after each of them (`Chained`),
  and the writer stands where the planner stood when it came to the next entry
  (`InStep`), so the folder asked for is the active one or the next.
  On top of these, `RoundTripInv` gives every entry
  with data its place (folder, number, first chunk) and says that these places
  are filled with its chunks (`PlacedInv`), in the order of the entries and
  without gaps (`OrderInv`), that no stream lacks an entry (`OwnedInv`), and that
  the reader has been through exactly the places before its own (`ReaderOK`).
  From this `LaidOut` follows for the header, and `WrittenReadsBack` from the
  theorem about the reader.
- `StreamTablesProofs`, without assumptions: `ReaderStaysInStep` says that a
  reader of a header that is `LaidOut` keeps `ReaderOK` in every step, so it
  does not end in an error and what it finds is where the data was put. The
  induction is over the steps of the walk and takes the place of one over the
  tables. It is used for the writer and for the update.
- `ArchiveUpdateProofs`, from `UpdateAssumption` (listings are `Listed`, and the
  commands and requests have their types), for every source, request, solid mode
  and every way the disk changes. `IInv` follows a request through the phases:
  `PlanInv` (what is planned is what is kept of the entries before the cursor,
  in their order, and the collected files come behind it), `RawInv` (what
  validation has established of raw entries), `IdsInv`, `AssignerInv` (new
  folders have numbers above those copied, and their entries are together),
  `OrderInv` (folders are in the order of their first entries), `WriteInv` and
  `EncodeInv` (each folder written `Holds` the bytes of its entries, one after
  the other), `SignedInv` (header and reader).
  `RejectionsHarmless` rests on two facts about plans: a planned request passes
  validation, because a folder is copied only with all its entries and they are
  in the listing's order, and it passes the check of `StageEnds`, because the
  listing has the entries of a folder together and new entries that come between
  two copied ones get folders of their own. `OthersKept` reads off `PlanInv`
  and `WriteInv`. `UpdatedReadsBack`: since the entries of a folder are together
  and folders are written in order of first use, the places of the data are in
  the order of the entries (`FoldersInOrder`); with `Holds` for each folder the
  header is `LaidOut` (`SignedLayout`), and the reader stays in step.
- `FolderPlanProofs`, from `ArityAssumption`, `FoldersAssumption` and
  `SizesAssumption` (types only: coders have numbers of streams, pairs are pairs
  of numbers), for folders of any number of coders and streams. Every loop is
  first shown to satisfy its own equation (`Iteration`), then its invariant is
  carried along by induction over its rounds (`Induction`, from the least
  counterexample). `BindInv` says that sources, edges and degrees are those of
  the pairs so far; `RoundInv`, that a coder waits for exactly the edges of coders
  that have not run; after as many rounds as coders none is ready (`LastRound`),
  so the coders left wait for each other, and the order is complete exactly for
  an acyclic folder (`OrderIs`). `GraphIs` puts this together: a folder is
  accepted if and only if it is `WellFormed`, and `GraphsAreSound` follows with
  `GraphInv`. `Wiring` is what the planner needs to know of a graph. A chain is
  the execution order itself (`ChainIs`), the four channels of BCJ2 lead back
  along pairs (`Trails`) and end in different packed streams (`LayoutSlots`), so
  that such a folder is never a lone one with sizes missing. `PlanInv` says that
  the plan is right for the folder, the graph and the sizes asked for
  (`PlanRight`), and that each reader has the first coders of its channel
  (`OpenedAs`); `PlansFit` and `ReadersComputeTheFolder` are read off it.
- `StagedOutputProofs`, from `OptionAssumption`: `StagedInv` = `TypeOK`,
  `SpoolInv` (what was found out by the checks still holds when data is
  stored), `CopyInv` (the output is the spool up to its position),
  `SpoolLimitsHold` and `NoStrayFiles`. `SpoolKeepsLimits` and
  `FilesAreRemoved` follow directly. `StagingRefines` maps every step under
  `StagedInv` to a step or stutter of `SeekableOutput`. Along the way it is
  shown that the charge after a rollover cannot fail, so that no file is left
  behind there. `VolumesArePlanned` needs `DataInv` (an archive that is copied
  out is not empty) and `VolumeInv`: what is left of the archive, with what the
  open volume has, is what the plan had left for that volume (`OnPlan`, `Ahead`).
  Behind the sizes given the plan is a rounded-up division, and the steps of the
  proof are that a full volume takes one block from it and that a volume with
  less ahead than its size is the last. `CancelledCopiesFail` is a temporal
  formula: a copy that met cancellation is `Doomed`, which no step undoes.
- `ArchiveReplacementProofs`, from `SizeAssumption` and `VolumeAssumption`, for
  any number of processes: `ProcessInv` (the files each one has, `OneStage` of
  them at a time, and how far it has cut its archive), `ArchiveInv` (what is at the path is the whole archive of
  a process that ended well), `SerialInv`, `OriginInv` and `OwnerInv` (whose
  volumes are in place: the process that wrote the first one has all of its own
  there), `ReaderInv` (what a reader has so far is a beginning of them).
  `RewriteRefines` is the refinement of `AtomicArchive`; `SerialEditsKept`,
  `TemporariesOwned`, `OpenedIsOneArchive` and `WrittenOpens` are the others.
- `ExtractCommandProofs`, from `PathAssumption`, `ArchiveAssumption` and
  `TreeAssumption` (finite parts of a file system in which what exists is in a
  directory): `StageInv`, `TreeInv`, `ConsentInv` (every path that may be lost
  was agreed to before it is removed), `PartialInv` (a cut file is the one being
  written, or the exit code is fatal), `PlacedInv` (what the entries visited so
  far have left in place), `OpenInv` (all of the open folder up to the entry read
  last is sound) and `TestInv` (folders of tested entries are open or judged). From them `LossesAgreedTo`, `PartialReported`, `SuccessComplete` and
  `TestVerdict`.

Type correctness, `SeekIsForward`, the inductive invariants and that a failed
writer never signs are proved and no longer repeated as runs.

Only model-checked: the liveness properties `CallsReturn` and `Returns`
(fairness is out of the prover's reach), and the properties of the `opening`
run. Those are about parsers written as recursive operators, which the prover
cannot unfold; rewritten like the loops of `FolderGraph` they would need an
invariant for each scanner and each parser over the same units. The two
violated properties of section 5 have counterexamples and no proofs.

## 5. Findings

1. `archive.rs:300`: a read that fails on the folder layout does not lower the
   verification scope, and a later `finish_folder` may return `CompleteFolders`,
   though the docs say a failed read keeps the scope `Incomplete`
   (`failed_read_scope`). Reads that fail later do lower it (`CompleteScopeIsHonest`).
2. `file_streams.rs:138`: a request that fails while entries before it are
   skipped does not consume its own index, though the docs of `read_entry` say
   that a valid request does even if it fails (`request_consumes`).

## 6. Not modelled, and the plan

- Codecs, ciphers and checksums are arithmetic on bytes, most of it in other
  crates. A decoder is data that may be short, long, failing or corrupt.
- The worker threads of parallel LZMA2 encoding are in `lzma_rust2`; how this
  code hands them the cancellation flag (`write/lzma2.rs:194`) is a hazard no
  property covers.
- Variable-length integers, conversions between integer widths, and UTF-16 are
  one unit each in `HeaderTables`; the repository's fuzz targets and round-trip
  tests are about these bytes.
- The search for the signature behind a self-extractor stub, and the offsets of
  reads that cross volumes (`archive_source.rs`).
- Argument parsing, wildcards as text, the `l` command and messages.
- A memory-mapped archive differs from others in where the bytes are and is not
  modelled apart; development tools, benches and fuzz targets are left out.

What is assumed rather than checked: `ReadSession` takes the folder layouts as
constants with `LayoutAssumption`. `Layouts` in `HeaderTables` computes them
from the tables, and `AcceptedTablesParse` and `WrittenHeadersReadBack` look at
its result, but the two modules are not composed. In the same way
`ArchiveUpdate` takes the listing of its source as given, with `Listed`.

Next, in this order:

1. The scanners and parsers of `HeaderTables` as functions of the number of
   units, as the loops of `FolderGraph` are, so that the properties of `opening`
   can be proved too.
2. The block buffering of the AES reader and writer and the start of the LZMA2
   workers (`aes.rs`, `write/lzma2.rs`).
3. An abstract specification of a verified read that `ReadSession` refines.
