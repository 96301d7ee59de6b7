# MemPE in TLA+

MemPE (`mempe.exe`) reads the modules of a running Windows process out of its
memory, rebuilds each one into a PE file and writes the files and a report.
This directory holds TLA+ models of the parts whose behaviour depends on what
happens between two of their steps, TLC configurations that check them, and
TLAPS proofs for every value of their constants. Paths below are relative to
the repository (`src/src/...`, `src/README.md`).

## 1. The system

| Part | Source | State | Operations | What it depends on |
|---|---|---|---|---|
| Command line, console | `cli.rs`, `console.rs`, `main.rs` | none | parse, print | runs first; its result is a constant for the rest |
| Output writer | `output.rs`, `dump.rs` `BuildReport::write` | output folder, collision policy, chosen destinations, staged temporaries | `prepare`, `destinations`, `create_temporary`, `write_all`, `wants_fresh_copies`, `TempFile::drop` | disk, other runs and programs, the user |
| Watch | `process.rs` `watch` | pids to ignore, process waited for | poll, query, wait, confirm | processes starting, ending and reusing pids |
| Target query | `process.rs` `query` | module list, main module | list modules, find main | the target's loader |
| Stability wait | `memory.rs` `wait_until_stable` | signatures, matches, polls | list regions, read sampled pages, compare | the target's memory |
| Capture | `memory.rs` `capture` | clone or live handle, regions, budgets, images, buffers | clone, list, scan, read, carve, annotate | the target, which runs on |
| Dump and report | `dump.rs` `build`, `main.rs` `finish_dump` | files, failures, counters | select, rebuild one image, record, exit code | what the capture took |
| PE parser | `pe/parse.rs` | none | read headers, section table, directories | bytes of one image |
| Carver | `pe/carve.rs` | position, results | find embedded PEs | bytes of one buffer |
| Export index | `pe/exports.rs` | definitions by address | parse, resolve forwarders | all captured images |
| Import recovery | `pe/imports.rs` | runs of slots, plan | keep, scan, match, name | export index, one image |
| Rebuild | `pe/rebuild/` | output buffer, section layouts, directories | lay out, repair, append a section, finish | one image, its file on disk, an import plan |
| Packer modules | `pe/packers/` | the unpacked image, what was restored | recognise, unpack, restore | bytes of one image |
| Packer codecs | `pe/packers/codecs/` | bit reader, output | decode one stream | bytes of one image |
| Packer tables | `pe/packers/relocations.rs`, `imports.rs`, `resources.rs` | tables of the unpacked image | read what the packer kept, write the original form | what the packer kept |

Calls go down this list: `main` parses the arguments, asks the output writer for
a plan (the only question it asks before it touches the target), finds the
target (`-p` queries it, `-w` watches for it), captures it, builds the report
and hands the files to the output writer. Nothing inside mempe runs
concurrently. All that interleaves with it is outside: the target, other
processes, other mempe runs in the same folder, other programs on the disk, the
user, and a kill. Those are actions of the models.

What makes each part correct:

- *Output writer*: no reader sees half a file; two files of a batch never share
  a name; what was there is kept unless the user chose otherwise; a run that
  ends leaves no temporary behind; success means everything was published.
- *Watch*: it finds a process that is new, has run for a second, and is the
  first of the new ones; no new process is overlooked; the wait is bounded.
- *Capture, dump*: exit code 0 means that the main image and every listed module
  were rebuilt whatever the target did in the meantime; what limits cut off is
  counted; the main image is exempt from the limits that would drop it.
- *Stability wait*: it ends early exactly when enough polls in a row saw the same,
  and what they sample is spread over all the memory that is watched.
- *Carver*: what is carved stands alone; what is not looked at is counted.
- *Exports, imports*: a slot is given the name that leads back to its address; the
  tables that are written lie apart; every call is kept, recovered or counted.
- *Rebuild*: the loader maps the file back to what was captured; the header names
  only what is there; no import slot stays empty.
- *Packers*: what is reported restored is whole; the report is about the bytes that
  were rebuilt; a decoder writes what was packed, and of a damaged stream no more than
  was asked for.

## 2. Modules

`PublishSpec` - the abstract promise of a run about the output folder: files
appear whole, one at a time and in order; only an overwriting run takes a file
away, or replaces one from before the runs, and if it publishes anything more it
fills that very place first; it reports success only when the whole dump is
published. What appeared since a run chose its names may be
replaced: that is what the code does (observations, section 3).

`OutputWriter` - `output.rs`, one step per file system call or prompt, for any set of
runs. `prepare` is `Refuse` and `Prepare`; `write_all` is `BeginBatch`,
`ChooseDestination` (one candidate of `unique_destination`), `CreateTemp`, `StageFile`,
`Look`, `RemoveOld`, `RenameIntoPlace`; `TempFile::drop` is `Unwind`; `BuildReport::write`
is `AfterBatch`, `AskFresh` and `Return`. A file name is a value; what matters of it is
its candidates (`suffixed_name`), its ASCII key and the directory entry the file system
finds for it, three functions given as constants. Nothing says that names with one entry
have one key: the file system folds letters that `to_ascii_lowercase` does not. An entry
that holds a file from before the runs (`Old`) is told from one that another program put
there since (`Foreign`). `Kill` and `Elsewhere` are the environment. Every call may fail,
also where the model could tell that it would not: access, sharing and space are not
modelled. `MCOutputWriter` holds the instances. `PublishesAsPromised` instantiates
`PublishSpec` over the same entries; `hole` is the entry a run has emptied and not yet
filled, i.e. the place "replace" between the removal and the rename.

`Watch` - `process.rs` `watch`. `Begin` and `Poll` take one process listing,
`Query` is one query of `find_new_target`, in any order as the hash set gives
them, `Choose` is `min_by_key` and the wait, `Confirm` the second query, `Acquire`
the pid opened again by the capture. `Start`, `Exit` and `Tick` are the machine. A
creation time is the number of the process in the order of creation; real time
is the sleep left (`timer`) and the age of each process. If the clock was set back since a
process started, its creation time lies ahead (`Remaining`), and `wait_until_capture_time`
sleeps that much longer.

`Capture` - `process.rs` `query` and `memory.rs` `capture`, one step per call that reads
the target, or per allocation where the code loops. Memory is a set of allocations: a
mapped image of a file, or private memory, executable or not, with or without a PE on one
of its pages; sizes are pages. Of an executable allocation the pages that can be read and
those that can only be executed are told apart: `ScanAllocation` and `CarveAllocation`
pass over the latter and count nothing for them (`memory.rs:578`, `1088`), so that what is
left of such an allocation is the warning of main.rs about allocations that gave up no PE
(`Unmatched`). `Change` is the target; it acts between any two steps, and a live read
(`cloned = FALSE`) sees it. `Dump` extends `Capture` by `dump.rs` `build` and `main.rs`
`finish_dump`: naming, order, selection, the early ends for a manual entry point,
`record_failure`, `is_complete` and the exit code. Rebuilding an image is a choice of a
DLL, another PE or an error. `MCDump` holds the instances.

`Stability` - `memory.rs` `wait_until_stable`. A poll is `ListRegions`, a `ReadPage`
for each page of `StabilityPages`, and `Compare`; `Sleep` goes on or gives up. `Change`
is the target, between any two reads. A signature is what it was computed from.

`Sections`, `Headers` and `Carve` - `pe/parse.rs` as far as the shape of a header goes
(offsets, sizes, alignments, the sections that must fit and lie apart), the choice of
the header an image is read by, and `pe/carve.rs`: `Find` is one turn of the scan,
and the module's variables are its position, its attempts and its results.

`Exports` - `pe/exports.rs`: an index of the names that lead to an address, with
forwarders followed through modules and API sets up to `MaxForwardDepth`. `ParseModule` is
one turn of the loop of `ExportIndex::build`, `FollowForwarder` one of
`resolve_forwarders`; `resolve_key` is a function over the hops of one forwarder. What the
loader would find (`LoaderFinds`) is said beside it, without any limit on the hops.

`Imports` extends `Exports` - `pe/imports.rs`: `build_plan`, `build_restored_plan` and
`build_iat_plan`. `ChooseTables` is how each begins: tables that were kept, orphaned
descriptors, or ranges to scan. `StartScan` and `ScanRun` are `scan_import_range`, one run of
slots at a time, `AddPackedModule` is one list of a packer, `ChooseDelayTables` the tables of
`scan_delay_imports`, `RecoverReferenced` the slots that code uses, and `Count` the last
lines of the plans. A group of imports is made by `Groups` and added by `PushGroup`. The
delay tables share a budget of slots that are read (`Affordable`), and only the plans that
no packer wrote ask for the image's own name (`OwnName`). In `Exports` the image size a
module's header declares, up to which its exports count, is not the length of what was
captured, up to which it covers addresses.

`Layout` - `pe/rebuild/sections.rs`: recovered section headers, the headers' size and
the layout of one section per step; `rva_to_file`. `Rebuild` extends it with the rest of
`rebuild_source`, one action per repair in the order of the code: header fields,
`directories.rs`, `exception.rs`, `import_section.rs`, `headers.rs`, `overlay.rs`. Each reads
what the ones before it wrote. What `Layout` copies is the address each byte of the
file comes from, so that "loads as captured" is about addresses and not about bytes.
The headers are written with the aligned size of each section in the file
(`WrittenSection`), and it is these that are parsed again before an overlay is appended
(`FinalSections`, `ParsesAgain`). The limits on attempts for a section name, relocation
blocks, debug entries and the size of an image are constants.

`Relocations`, `Upx` and `Unpack` - how a packed image is unpacked. `Relocations` holds
the relocation streams and blocks; `Upx` `pe/packers/upx.rs`: find the stored header, read
relocations, imports, exports and resources back, one action per table, over a memory
of cells that each hold what a field says; `Unpack` the two attempts of
`pe/rebuild/mod.rs` with `source.rs` and the dispatch of `pe/packers/mod.rs`. An attempt
of UPX whose result does not parse leaves nothing behind (`upx.rs:307`), so `CanRestore` asks
for that before the attempt begins.

`Codecs` - `pe/packers/codecs/`: aPLib in both forms, BriefLZ, NRV2B/D/E, FFCE and JCALG1.
`DecodeStep` is one turn of a decoder's loop. `Lzma` is LZMA behind its range coder, which
stands for this: a bit comes back as it was packed if the decoder asks for it with the
probability the packer used (`Coded`), so what is modelled is which of its probabilities
the decoder asks with. Behind the place where the bytes are no longer those that were
packed, and behind the end, where the decoder reads zeros, any bit may come out.
`output_buffer`'s bound on the size asked for is `MaxUnpacked`. `Encoders` is a packer for
each of the formats; it models no code and is the reference `Codecs` and `Lzma` are
checked against.

The modules are connected where the code is: `Dump` extends `Capture`; `Rebuild` extends
`Layout`; `Imports` extends `Exports`; `Unpack` extends `Upx`. Between them stand the values
that are handed over: what the capture took is a choice of images for `Rebuild`, an
import plan is a choice of tables and counts, and `Rebuild` inside `Unpack` succeeds or
does not. `MC...` modules hold the instances, the modules whose names end in `Proofs` the
theorems: `OutputWriterProofs`, `WatchProofs`, `DumpProofs`, `StabilityProofs`,
`CarveProofs`, `RebuildProofs`, `ImportsProofs` and `UnpackProofs`.

## 3. Runs

| Run | Question | Result |
|---|---|---|
| `OutputSolo` | one run and another program: colliding names, an unusable name, fresh copies that want names of the dump, a stale temporary, failing calls, a kill | holds |
| `OutputPair` | two runs, another program and a stale temporary in one folder, against `PublishSpec` | holds |
| `WatchLaunch` | what the watch finds, and that it ends | holds |
| `DumpTarget` | exit code 0, for full and selective dumps | holds |
| `DumpLimits` | limits: what is dropped is counted or warned of, and loaders are carved first | holds |
| `Stable` | the wait ends for a target that is still, and samples what it should | holds |
| `Carving` | what is carved stands alone, the rest is counted, and which header an image is read by | holds |
| `ImportsPlan` | names lead back, tables lie apart, calls are accounted for | holds |
| `RebuildImage` | the file loads as what was captured and its header is true | holds |
| `RebuildLost` | an empty section costs nothing | violated |
| `UnpackImage` | what is said to be restored is whole, the rest is gone, and the report is about the file | holds |
| `Streams` | a decoder is the inverse of its packer, and bounded on a damaged stream | holds |

`RebuildLost` shows where the code does something else than it says: a section is cut off
where the next one in address order begins, also if that one is empty, while the parser
looks at no empty section. What lies behind an empty section inside another one is missing
from the rebuilt file, and nothing is reported. `CutOff` in `Rebuild` names these images
and the other properties exclude them.

### Observations

Met while modelling. The first ones are places where the code does not do what its texts
say. Where a property is about the same hazard, it names them as its exemption or its
hypothesis, and is given here.

- `unique_destination` looks for a free name, and the rename, much later, replaces a file
  that appeared there since (`output.rs:180`, `142`), although the prompt offers "[R]ename
  conflicts". Whatever others do, a file from before the runs stays (`RenameKeepsOld`).
- The second batch of `BuildReport::write` does not know the first (`dump.rs:241`): with
  Overwrite, `app.fresh.dll` of the dump is replaced by the fresh copy of `app.dll`, although
  "the copy never touches the dump itself" (`output.rs:239`). And destinations are compared
  in ASCII lower case (`output.rs:178`), while the file system folds all letters: of two
  modules whose names differ in the case of another letter one is lost, and the run
  succeeds. These two are the only ways in which a run spoils a file of its own
  (`SavedFilesStay`).
- A program that ends and starts again under its pid between two listings stays in the
  baseline (`process.rs:181`), although `-w` "waits up to 24 hours for a new matching
  process" (`cli.rs:14`). `NobodyOverlooked` is about watches without such reuse.
- An allocation counts as holding a PE if one begins where a region begins
  (`memory.rs:546`), so nothing tells of the pages before it. `NothingDroppedQuietly` asks of
  such an allocation only that it gave up a PE.
- Regions that can be executed and not read are passed over without a count
  (`memory.rs:1088`), and main.rs says of the allocation that it holds "no complete PE"
  (`main.rs:441`), which nobody looked for. `NothingDroppedQuietly` says that this warning is
  given.
- Above the limit on images a hidden PE at the base of a listed module counts as that
  module, and its failure does not (`dump.rs:790`): the exit code is 0, although that means
  "The main image and all known DLLs were rebuilt" (`src/README.md:159`).
  `CompleteMeansAll` holds up to the limit (`Enough`).
- An image without a name that cannot be rebuilt leaves no trace (`dump.rs:787`), so
  `--only` with its base writes no image and exits with 0. `SelectionMeansRebuilt` is about
  images with a name.
- The header of a stored PE is refused if it lies behind the first section of its own table
  (`parse.rs:408`), although the comment speaks of the image it is stored in: one whose
  sections all begin above the place it is stored at is taken for the image
  (`OwnHeaderOrNone`).
- The size of a section in the file is written rounded up; for a section without a virtual
  size that is also what it maps, so it may run into the next one (`sections.rs:96`), and
  then mempe's own parser refuses the file. `StaysAnImage` excludes these sections
  (`Outgrown`).
- The overlay is put behind the image before the certificate is declared
  (`overlay.rs:41`): if there is no directory for it, the file holds the overlay, has the
  checksum from before, and the report says that the overlay was not appended.

Others:

- a mistyped answer to the fresh-copy prompt gives exit code 2 after everything is
  saved, and no report (`dump.rs:240`);
- between listing, query, confirmation and capture a pid is trusted four times,
  and the name is compared only in the listing (`process.rs:186`);
- a failed confirmation ignores the process as long as it lives, a failed first
  query asks again (`process.rs:191`);
- `scan_delay_imports` checks only a table's first slot, against what was recovered before
  the first table (`imports.rs:519`, `547`): torn, overlapping or repeated delay tables are
  written and counted twice (`TornTable`), as are lists of a packer that lie over each other
  (`TornList`), and the bound slots of a partly bound table (`imports.rs:703`) are neither
  written nor counted;
- `recover_referenced_imports` counts a slot that no name can be written for against the
  room that is left (`imports.rs:751`), so near the limit the slots behind it are neither
  written nor counted although the plan does not get full; and `push_group` drops a
  group that does not fit while smaller ones behind it do. `CallsAreAccounted` is about the
  plans that this cannot have cut short (`HasRoom`): not full, and with room for the slots
  that are still wanted;
- `packed_entry` may give a slot another module's name for the same address
  (`imports.rs:378`);
- an empty section that lies behind the image, or before the end of headers that a scan
  found, is given a size by `recover_section_headers`; the parser, which looked at no
  empty section, then refuses the image it had accepted (`Stray` in `Rebuild`);
- headers that reach past the first section send repairs to the copy in the headers;
- in UPX, `is_free` gives away the zero padding of a whole relocation table if tables
  overlap; a wiped empty one that cannot be written is reported failed and keeps its
  directory; an empty stream for a directory that is not empty is reported restored;
  the check for a packer in the second attempt of `rebuild` is always true;
- a carved file whose `SizeOfHeaders` is too small for its section table may not
  parse by itself, and a valid `e_lfanew` that leads to the header of an embedded PE is
  taken without the check that it lies before the sections;
- the aPLib and LZMA decoders may return fewer bytes than asked, and aPLib writes one byte
  more before it refuses; LZMAT pads with zeros when its stream ends early; no format has a
  checksum, so of a stream that was overwritten BriefLZ, NRV, FFCE and JCALG1 can give
  something else that is as long as was asked for;
- restoring moved resources zero-fills the whole piece that holds the lowest leaf
  (`resources.rs:277`).

### Bounds, and why they suffice

*Output.* Three files and two suffixes make every collision there is: equal names,
names equal up to ASCII case, and a name that is the suffixed form of another. Two
attempts per temporary and one stale file reach both the second attempt and the end
of the search. Two runs with up to two files, one foreign step and one stale temporary
reach every race between two looks and two renames; `MaxForeign` only bounds the other
program, `MaxOld` the entries that are there before. In `OutputSolo` a fresh copy has the name of a dump file,
and two names are one to the file system and two to the code; its dump of three names reaches
the end of the suffixes together with one old entry and one foreign step. `CHECK_DEADLOCK FALSE` because runs end.

*Watch.* Two pids and three starts let a pid be reused, by a matching process and
by another one, while a second one waits. Three polls (`MaxPolls = 2` full ones and
the timeout), a delay of two ticks and a poll delay of one distinguish waiting from
polling; a clock one tick back (`MaxAhead`) makes the wait longer than the delay.

*Dump.* Two bases and one change cover every pair of roles (program, library,
private memory with a PE on the first page, inside a region, or none) before and
after the change, which can fall between any two steps; `DumpLimits` has three
bases, so that images exceed the image limit, the image budget, the size limit, the
scan budget and the carve budget, with the main image on either side of the cut.
Executable allocations are read whole, in part or not at all; one has a PE behind a page
of its own region, so that capture and carving disagree about it. Limits of the code are
constants of the model, 4 096 images becoming two. `DumpTarget` keeps to one restriction: no
more bases than `MaxImages`. Above that limit `CompleteMeansAll` fails in one corner: a
listed module whose memory was replaced by private executable memory with a PE.

*Stability.* Four of up to ten pages are read, of one to three watched regions with an
unwatched one between them, so samples cross regions and skip pages. Five polls for
two matches let the count reach its end, start again and miss it; two changes can
fall before, between and behind the reads of one poll.

*Carving.* Buffers of twelve units hold two headers in every position to each other, or
up to five, and a stored PE has its first section before or behind the place it is stored at;
four attempts and two results are reached and exceeded.

*Imports.* Three forwarders with every combination of eight targets make every chain up
to the depth and every cycle. Four slots hold each kind of value in every combination
(an export, one of another module, an ordinal, a stub, an address of nothing, zero) and
are read as each kind of table; lists of a packer lie apart or over each other. Eleven slots
that all hold imports exceed ten imports (`MaxImports`), as tables, as what code calls, as a
packer's list; so do the thunks of kept descriptors, and delay tables exceed the budget for
them, at the second or at the last. Three groups are exceeded. A
module has one slot more than its header declares, with an export in it.

*Rebuild.* Two sections (three to run out of names) of up to five bytes in every position
to each other and to the headers, with every raw size below, at and above the virtual one;
`MaxOutput = 26` is exceeded by some with imports and by some with an overlay; so is
`MaxImageSize`. Two attempts for a section name
(`MaxRenames`), three relocation blocks (`MaxBlocks`) and one debug entry (`MaxEntries`)
are not enough for some. Section alignments below that of the file make a section larger
in the file than in memory. One image has each directory whole, broken, outside and
absent. A section header counts one byte. Some images have a header found by the scan, and
some an empty section that makes `SizeOfImage` grow.

*Unpack.* Twelve cells of image, four tables that lie apart or overlap in three ways, and
for each of them four kinds of remains (nothing, all, junk, zero and junk); every
condition of the stored header broken alone, next to a second header; every way the
two attempts can end. Relocation streams use bytes of eight values, so that each of the three
lengths of a delta occurs.

*Streams.* Bytes of three bits reach every threshold of the offsets (which are constants
of the code scaled with them), two tokens behind two kinds of leading literals reach every
token after every other one. A stream of one token (`MaxSpoilt`) is damaged once, at up to
four bytes from where the decoder is (`SpoiltAhead`) and at every turn of its loop: one
byte or all that follow become zeros or ones, as memory that was freed or overwritten
reads, or the stream ends there. For LZMA the leads reach states behind every kind of
token, slots of three bits make offsets of every kind (slot alone, with a tree, with
direct and aligned bits), and lengths lie in all three ranges; a damaged stream goes on
with any nine bits (`SpoiltBits`), from the last seven bytes on. 22 bytes (`MaxUnpacked`)
are fewer than the longest list asks for.

### Fairness

`OutputWriter`: weak fairness of `Step(w)` for every run: file system calls return,
the user answers the prompts and the system schedules the process. Nothing is
assumed of `Kill` or other programs. `Watch`: weak fairness of the watch's own steps
and of the clock; none of processes starting or ending. Both liveness properties
are that the run ends: searches and polls are bounded loops in the code. The other
modules state no liveness: they are finite sequences of bounded loops, and every
behaviour of their models is finite.

## 4. Proofs

Every theorem holds for every value of the constants that satisfies the named assumptions
of the modules (`NamingAssumption`, `BuffersAssumption`, ...), which only say what the
values are: a size is a natural number, a list is a sequence of what the code reads. TLC
evaluates them in the runs. Two theorems have a hypothesis of their own, given below
(`Enough`, `ForwardsOnce`). A theorem about a property that a run checks is the statement
of the run for every instance. The invariants were checked by TLC on the runs before they
were proved. That the variables of the watch and of the output writer keep their
types (`TypeCorrect` of `WatchProofs` and of `OutputWriterProofs`) is only proved.

**`OutputWriterProofs`**, for any finite or infinite set of runs, names and entries and
any number of attempts. The inductive invariant is `TypeOK`, `OnlyWholeFiles` and,
for each run, `Position` (how long the lists of destinations, staged and saved files
are at each place of the program) and `StagedWhole` (the temporaries not yet renamed
are whole once all files are staged). `OnlyWholeFiles` alone is not inductive: that a
rename publishes a whole file depends on which temporary it takes, and that depends
on the positions. From it follow `TypeCorrect`, `WholeFiles`, `SuccessMeansSaved` and
`KeepsItsPromise`, the refinement of `PublishSpec` (initial states map to initial
states, each step to a step or a stutter). `TempsAreDropped` (`NoStrayTemps`) adds `Tidy`:
a temporary of a run that is still at work is one that `Unwind` will come to, and once
the run is over it is gone or among those that could not be removed.
`DistinctDestinations` says of two destinations of a batch that their keys differ, and leaves
it to the file system what that means for the entries.

`OldFilesKept` (`RenameKeepsOld`) and `SavedFilesKept` (`SavedFilesStay`) are about any
number of runs and programs that interleave. They follow from `SavingInv`, which has two
parts for each run. `Avoids`: under Rename the destinations still to be filled hold
nothing that is precious to it (`Precious`), neither a file from before the runs nor one
of its own earlier batch. Others may change such an entry after the look, but no step of
another makes one hold an old file or a file of this run (`EntriesStep`). `Follows`: the
files of the batch at hand are at its first destinations. `KeepsItsPromise` uses them too:
a replaced entry of a rename run was not an old one. Nothing is assumed of the names; what
they can do is in the statement of `SavedFilesStay` (`FoldedApart`, and the fresh copies
of an overwriting run).

**`WatchProofs`**, for any set of pids and any delays: `TypeCorrect`, `OnlyNew`,
`NoneOverlooked`, `EarliestFound` and `FoundHasWaited`. The invariant adds that whatever is
ignored was listed when the watch began (`OldIgnored`, with the reuse of pids recorded in
`flaws`), that a pid asked for is still the process it was or has ended
(`SameProcess`), and what the answers of one poll contain (`Answers`). For
`FoundHasWaited` (`FoundHasRun`), `Waited` relates the sleep that is left to the age of the
process chosen, and the clock cannot pass the one without adding to the other.

**`DumpProofs`**, for any finite set of bases, any memory contents, any limits and any
number of changes by the target. The invariant has layers, each inductive given
those before it. `Shape`: types, and every position kept between two reads of the
target lies in an allocation of the region list (`Reading`), from which `TypeCorrect`
follows. `MainInv`: the main image is the one at the listed main module (`Mains`), and
until it is captured it is still to be read (`MainSafe`); from it follows
`MainImageIsKept`. `DumpInv`: each listed module is gone, still to be read, read, or
refused for a reason that also refuses a hidden PE at its base, which is read later
(`Captures`); its image keeps a name (`HasName`); and while no DLL has failed it is in
the report or still to be built, unless the build was given up (`Built`). From it
follows `CompleteDumps`. That theorem assumes `Enough`, no more bases than `MaxImages`:
then `group_images` drops nothing. Without it the statement fails in the corner of
section 3. Two more layers need no such hypothesis. `Selection`: an image that was asked for
and is named is in the report, still to be built, or the run can no longer end with
exit code 0; from it follows `SelectedAreRebuilt` (`SelectionMeansRebuilt`). `Counts` says
what is counted at each stage of the capture: mapped images that are neither taken nor
still to be read are no more than `skipped`, what the scan of executable memory found is
still to be read, read or counted, and what is not carved is counted, as far as it can be
read. From it follows `EveryImageCounts` (`ImagesAccounted`). `NothingIsDropped`
(`NothingDroppedQuietly`) also needs `OneEach`: an executable allocation gives up at most one
PE. So if as many were found as there are executable allocations (`Unmatched` is zero), each
gave up one; otherwise the report warns.

**`StabilityProofs`**, for any counts, any layouts and any page contents: `WaitIsExact`. The
invariant says that `matches` is how many polls, up to the last, saw what the one before
saw, no more and no less (`MatchesCounted`), that the wait goes on only while that is too
few (`LoopCounted`), and that no earlier poll ended such a run (`NoneEarlier`).
`SampleIsSpread` (`SamplesSpread`) rests on the arithmetic of `sample_page` alone: a
sample is the quotient `q` with `n * q <= sample * m < n * q + n`, where `m` and `n` are the
pages and the reads less one, and `n <= m`. So a later sample is a later page
(`SamplesRise`), the first and the last are the ends (`SampleEnds`), `n = m` reads them all
(`SampleOfAll`), and two gaps times `n` differ by less than `2 * n` (`GapsAreEven`). From the
layouts it takes that regions share no page (`LayoutsAssumption`).

**`CarveProofs`**, for any buffers and limits. `Searching` says of the buffer at hand what
its result will say: the files found so far were carved where they begin, follow one
another and end before the place of the search (`FilesFollow`), and every place behind it
at which a file begins lies in one of them (`NoneMissed`). `PlacesAccounted`
(`EveryPlaceAccounted`) follows when the search ends. `CarvedAreFiles`
(`CarvedStandAlone`) adds what `try_carve` itself yields: the length is the greatest end
of a finite set, so that every section and the certificate lie in it, and the header read
from the part that is cut out is the same header.

**`RebuildProofs`**, for images of any number of sections, any alignments that are not zero
and any sizes, any plan of imports and any overlay. The invariant has four parts.
`LayoutInv` says of the sections laid out so far that they lie aligned between the end of
the headers and `rawOffset`, apart from each other, and that an empty one has no place in
the file; that `rawOffset`, where the next one goes, is aligned; and that, once anything is
laid out, it is where one of them ends, so that the section appended in `finalize` lies
behind them all. `SectionsStayApart` follows from it alone. `LaidInv` says what each
section's place is made of: the sections are the recovered ones and parse, and a section
without data in the file has nothing to keep there and holds no import table (`Parsed`,
`Planned`, `Placed`). `HeaderInv` follows the directories through the repairs: what
`clear_bad_directories` leaves stays mapped, fixups stay walkable, and sizes, imports and
the certificate are known from the step that fixes them. `EndsInv`: the sections end inside
`SizeOfImage`, and `.mempe` behind them all. From these follow

- `HeaderTellsTheTruth` (`HeaderIsTrue`),
- `CapturedIsLoaded` (`LoadsAsCaptured`): outside of `CutOff`, expanding sections never
  covers an address twice (`KeepsClear`), so each byte is copied by one section, and
  `rva_to_file` finds that section only (`OneHolder`);
- `SlotsAreFilled` (`NoSlotIsEmpty`): a section with a table has data in the file;
- `RebuiltIsAnImage` (`StaysAnImage`): that recovered sections fit again, that
  replacement names differ (each is one that no section has, and is given up after
  `MaxRenames` attempts), and that the headers as written have sections that fit. With the
  sizes they were captured with they always do (`CapturedSectionsFit`); with the sizes
  `write_sections` writes they do if none without a virtual size has grown (`Outgrown`,
  `FinalSectionsFit`).

`HeaderTellsTheTruth` also says that a debug pointer leads to the byte of its address.
That is `DebugInv`, by `PointerFollows`: what `rva_to_file` finds is what was copied from
there.

The proof of `RebuiltIsAnImage` did not go through at first, and the counterexamples it
led to changed the model: `SizeOfImage` grows when a section is expanded past it
(`RecoveredSize`), a header found by a scan must end before the first section, and an
empty section that lies where none may be makes the image unreadable (`Stray`). The
instance of `RebuildImage` has all three now. That nothing else does is what the theorem
says.

**`ImportsProofs`**, for any modules, images, packers and limits. Of the index,
`IndexIsSound` is the invariant (`EInv`): a symbol listed at an address is exported there
by its module or is a forwarder that resolves to it, every key of an export that was read
is defined, and each forwarder that was followed is listed where it ends or counted as
lost. From it follows `ForwardersAreFound`: a forwarder that is not given up is listed at
an address the loader finds, also among forwarders that go in circles.
`ForwardersAreSettled` (`ForwardersSettle`) adds that one that is given up ends nowhere or
behind more hops than are followed: the hops of `resolve_key` are then a chain of keys
that differ, because where a key comes again nothing new is reached (`ReachedAreChain`),
and so many different keys make `Cardinality(reached)` exceed the limit. It assumes
`ForwardsOnce`, that a module forwards a key to one place. The export table of a DLL has
each name and each ordinal once; two modules of one name could break it, and then
`resolve_key` follows the last forwarder where the loader may take any. It holds in every
state of `ImportsPlan`.

Of the plan, `PlansStayApart` is the invariant (`IInv`): the groups are what pushing made
of them and within the limits (`Tidy`), each phase scans ranges of its own kind, with the
cursor in the first of them (`Scanning`, `Sources`), and unless something is torn no slot
is in two groups, in two of the scans that are left, or in a group and ahead of a scan
(`GroupsApart`, `ScansApart`, `AheadIsNew`). That groups lie apart is not inductive alone:
what a scan adds is apart because nothing was written ahead of its cursor.
`TablesLieApart` (`TablesAreApart`) follows from it. `PlansAreBacked` says of every import
that is written, unless a packer listed it, that its slot resolves and under which symbol
(`PlanBacked`). Together with the index it gives `ImportsResolveBack` (`ResolvesBack`):
the symbol preferred is exported at the address or forwards to it, and either way the
loader gets there from the name that is written.

`CallsAreCounted` (`CallsAreAccounted`) follows from what each step counts (`CallsInv`).
`recover_referenced_imports` reads on only while there is room, so the proof goes backwards
from the end: what is wanted was either written or is still wanted, and what was written
takes at least its own number of entries (`NewAreFew`); if the plan at the end has room for
the rest, there was room for all of it at the start (`RoomForAll`), no slot was passed over
and no group dropped (`GroupsFill`), and what is open at the end is what was counted. For a
packer's lists the sum of the entries and of what cannot be written is the number of the
functions read so far (`ListsFollow`); limits do not get less full (`LimitsGrow`), so that
one look at the end is enough.

Folds and recursive functions are reasoned about by their values up to `n`, a set of
numbers that is written down, so that induction (`EveryNat`) needs no operator as a
parameter; what a fold returns is taken from the function it chooses (`PushSteps`).

**`UnpackProofs`**, for any images and any candidates for the original headers:
`ReportIsTrue` (`ReportIsOfTheBytes`). What a second attempt says has to agree with what a
first one found, although everything of the first is thrown away. The argument is that
both see the same image, so the definitions `HeadersFit`, `UpxRestores`, `UpxExplains`,
`PackerKnown` and `CanStay` say of the image alone what any attempt will make of it. The
invariant ties each phase to them: where the headers were found (`HeadersFound`), whether
one of the candidates not yet tried can be restored from (`UpxAsks`), what the source that
was chosen and the result rebuilt from it say of the packer (`SourceTold`, `ResultTold`),
and why an attempt failed (`FailuresExplained`): an image that can be rebuilt as it is
fails only as a packer's image. So the second attempt finds the same packer again, and the
check for an explanation in `rebuild` never refuses an image that the second attempt has
rebuilt. `LostAreGone` (`LostTablesAreGone`) is about the tables UPX took apart, wherever
they lie: each is reported restored, failed or lost, never two of them, and what was not
restored is no longer in the directories. `TablesInTurn` goes through them in the order of
the code: a table whose turn has not come is where the original headers say and unknown to
the report, and the steps for the others leave it so; it needs that the headers that were
chosen are among the stored ones.

Only model-checked:

- both liveness properties: the prover has no ENABLED and no fairness;
- `OwnHeaderOrNone`: it is about which of several headers is the first that is believed, in
  images that are built for it, and that an image's own header lies before what is stored in it
is a fact of the instance;
- `PackedIsUnpacked`, `DamageIsBounded`: packers and decoders are RECURSIVE operators,
  which no backend handles;
- `LoadersFirst`: that the budget for carving goes to executable memory before data, which
  is about the order of two loops over one budget;
- `StreamsDecode`: what UPX writes for a list of places is part of the instance
  (`MCUnpack`), so for every image the statement would first need an encoder; and the blocks
  are put in order by `SetToSortSeq`, which chooses among all sequences;
- `RestoredIsWhole`: it compares the walks of three tables over memory before and after
  others were written, which are folds over the entries of blocks and trees; and it is not
  true of every image: `PackedResources::apply` writes the leaves UPX moved to their old
  places, whatever is there (`upx.rs:1251`).

## 5. Not modelled

- *Command line, console, formatting of the report*: one pass over values, without
  state or order; what the arguments ask for is a constant of `Dump`.
- *The bytes of headers and directories* (`pe/parse.rs`, `pe/directory.rs`, parts of
  `pe/exports.rs`): a field is what the decoding yields. The properties are about the
  fields' relations, which the models keep.
- *FSG, ASPack, MPRESS, PECompact and MEW* (`pe/packers/`): they are recognised by byte
  patterns of their stubs and by the data the stubs load; a model would repeat
  those patterns. Their place in the order, and what follows from their success or
  failure, is `AskOthers` in `Unpack`.
- *LZX and LZMAT*: only ASPack and MPRESS use them. Of LZMA, the arithmetic of the range
  coder.
- *The tables of those packers* (`packers/streamed.rs`, `tables/sections.rs`, `pogo.rs`,
  `resources.rs`, `icons.rs`, `debug.rs`): the cut of one packed section into the
  sections of the linker and the layout of moved resources follow from evidence the
  packers above collect, and are the next thing to model with FSG. UPX's resources are
  modelled.
- *Page contents, working-set measurement, region evidence* (`memory.rs`) and the
  statistics of `observe.rs`: they are reported and decide nothing.
- *Windows itself*: a call is the choice of its results.
- *Liveness of the capture and the rebuild*: loops over lists that do not grow.
