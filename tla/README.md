# A TLA+ model of Re2CycleBin

Re2CycleBin (`re2`) reads NTFS volumes below the file system.  `re2 backup` opens
an SQLite file, opens a volume with an unbuffered overlapped handle, and walks a
directory tree record by record with a pool of threads; `re2 info` prints the
geometry of disks and volumes.  This directory holds TLA+ modules of the parts
that decide what a backup sees and reports, TLC configurations that check them,
and proofs for TLAPS.  Every definition is translated from the source; the map
from definitions to lines is `map` in `PROJECT.json`.

    tlc -workers 2 -config MC_BackupWalk.cfg MC_BackupWalk      # a run
    tlapm BackupWalkProofs.tla                                  # a proof

## 1. The system

| Part | Source | State | Operations | Talks to |
|---|---|---|---|---|
| backup command | `src/main.cpp` 303-420 | two atomic counters, the container, the walker, the pool, all local to `main()` | open container, init it, find disk and volume, build walker and pool, look up the start record, detach the root task, wait, print, return | everything below |
| walk task | `src/main.cpp` 98-167 | the entries of one directory, one counter each for files and folders | `index_records()`, then per entry: look up, name, skip, detach or count | walker, pool |
| thread pool | `BS::priority_thread_pool`, fetched by the build | queue, number of running tasks | initialiser per thread, `detach_task`, `wait`, destructor | the walk task calls it back |
| container | `lib/commands/backup/container.hpp` | the SQLite file and connection, vectors of prepared statements | `open`, `init`, `*_push_back_return`, inserts, destructor | SQLite |
| volume reader (threads) | `lib/Drive/mt_reader.cpp` | one overlapped handle shared by all workers | `read(offset, buf, size)` | the kernel |
| MFT walker | `lib/mt_NTFS/mt_ntfs_mft_walker.cpp` | the data runs of `$MFT` | constructor, `record_from_number`, `record_from_path`, `list` | reader, record |
| MFT record | `lib/mt_NTFS/mt_ntfs_mft_record.{hpp,cpp}` | a copy of one record, fixed up | `attribute_header`, `attribute_data`, `filename`, `index`, `index_records`, `read_dataruns` | walker (attribute lists), reader (non-resident data) |
| single-threaded twin | `lib/NTFS/` | as the two rows above | the same, plus streaming of sparse and compressed data, `raw_address` | `lib/Drive/reader.cpp` |
| volume reader (one thread) | `lib/Drive/reader.cpp` | a handle and a cached position | `seek`, `read`, copy | the kernel |
| disk discovery | `lib/Drive/disk.cpp`, `volume.cpp`, `virtual_disk.cpp`, `lib/Utils/options.cpp` | lists of disks, partitions, volumes | MBR, EBR and GPT parsing, matching with Win32 volumes | Win32 |
| the rest | `lib/Compression`, `lib/Utils`, `lib/commands/info`, headers | none that outlives a call | wrappers, printing, declarations | |

What is hard: tasks that create tasks while `main()` waits for them; workers
whose initialiser can end the process; exceptions thrown by `.value()` inside a
task; many threads on one handle with short reads; a volume that NTFS keeps
writing; an output file that survives a killed run and meets another one;
signed, variable-width numbers that nothing but an end mark delimits.  What
makes each part correct:

- **walk and pool**: the totals are those of a sequential walk whatever the
  threads do; `wait()` returns when nothing is left and always returns; no
  thread uses what `main()` has destroyed.
- **container**: a run that dies leaves a file the next run can finish; two
  runs never fill one file; statements are compiled against the schema that
  is there.
- **reader**: `read()` is atomic for its caller, ends, and leaves nothing behind.
- **walker and record**: a record comes from its own sectors; data runs decode
  to the layout that was encoded; holes can be told from data.
- **index of a directory**: a tree that is not rebuilt meanwhile is handed back
  whole, in order and once; the recursion over it is bounded; every call ends.
- **paths and listings**: each record on the way is the one the directory before
  it names; a listing is the directory, without the short names that have a
  long one.
- **streams**: what a file's reader hands out is the beginning of the file, never
  more than the file, and it ends; the copy of the position is the position.
- **disks**: every partition of the tables is found once; a number that is shown
  gives back what it was shown with; a backup opens what was asked for, and only
  NTFS.

## 2. The modules

    NtfsTree ── DirWalk (abstract)          BlockRead (abstract)
        └────── BackupWalk ── proofs            └── MtReader ── proofs
    Container ── proofs                     DataRuns ── MftLookup ── proofs (of both)
    NtfsIndex                               VolumeInfo ── DiskScan ── proofs
        └── PathWalk ── proofs (of both)    DataLemmas (for proofs)
    SeekReader, NtfsFile ── FileStream ── proofs
                     FileRead (abstract) ───┘

`MC_*` modules hold the constants of the runs.  Operators named `X_Something`
with a comment "Bug:" are mutated forms of `X`: with one in the place of `X` the
property they stand for fails, which shows that the property sees that line.

### NtfsTree, DirWalk, BackupWalk: `re2 backup`

`NtfsTree` is the volume as the walk sees it: the class of every record
(unreadable, nameless, system, dir, file), which `ClassOf` derives from the flag
of the record and the names `filename()` finds in it, the entries `index_records()` gives
for a directory, and the directories whose index fails.  `Links` is what a
sequential walk would count: one link for each directory entry, because the
code counts an entry wherever it meets it.  A nameless record ends its directory
(`.value()` throws at main.cpp:126), so `Visible` ends before it; the order is that
of the `std::set` of main.cpp:110.  Volumes are tree-shaped: a directory has one
parent and the start of the walk is not below itself.  NTFS has no directory
hard links; the root's own "." is of class system.

`DirWalk` promises, without threads: each link is counted once, in any order,
the totals are reported only when all are counted, and the process may fail
before that.  `BackupWalk` has a program counter for `main()` and one per worker.

| Action | Code |
|---|---|
| `MainOpen` .. `MainNtfs` | main.cpp 327-350; a failing step is `exit(1)`, or an exception for `open` |
| `MainWalker` | 352-354; runs that cannot be decoded throw out of the constructor |
| `MainPool` | 356; threads start, the constructor does not wait for them |
| `MainLookup` | 374-389; `return 1` destroys the pool and then the container; with `-p` an unreadable directory on the way throws |
| `MainDetach`, `MainWait`, `MainReport` | 397-399, 401, 403-419 |
| `MainJoin`, `MainClose`, `MainEnd` | the destructors at the end of `main()`, in the reverse order of declaration |
| `InitFt`, `InitDt`, `ProcessExit` | the initialiser, 356-372; the other threads go on until the process is gone |
| `Pop` | the pool's worker: any queued task, all have the highest priority |
| `Index`, `SkipEntry`, `ThrowEntry`, `CountFile`, `DetachEntry`, `CountFolder`, `TaskEnd` | 98-167; `detach_task` and `folders_processed++` are two steps |

What the pool does with an exception of a detached task depends on how
BS_thread_pool is compiled; `PoolCatches` lets both happen, at every throw.
`FtPrepare` and `DtPrepare` are the outcomes of preparing the two statements.  At
this commit SQLite refuses both (see `PreparesAfterInit` below), which makes every
backup exit in an initialiser; the walk is checked for both outcomes, so that
its properties do not rest on that defect.

### BlockRead, MtReader: the shared handle

`MtReader` is `mt_reader::read()`: event, loop, `ReadFile`, `GetOverlappedResult`,
the three ways a round can end.  Blocks stand for bytes and a block is named by
its position, so that a buffer shows where its contents came from.  `Dword` is
2^32: the offset goes into `OVERLAPPED` in two halves and the sum wraps at
`Dword`^2.  The kernel (`Complete`) may bring any number of blocks up to what was
asked, none past the end of the volume, or fail.  `ReadFile` returning TRUE is the
case where `Complete` comes right after `Issue`; both then take `InternalHigh`.
A handle that `CreateFileW` did not give makes every `ReadFile` fail.
`BlockRead` is a read that takes one step.

### Container: the output file over several runs

Each `sqlite3_exec` of `init()` is one committed change or none (`Exec`,
`Refuse`), each INSERT is compiled against the schema and foreign keys that are
there (`Prepare`), and a run may fail or be killed anywhere (`Fail`).  Several
processes use one file.  SQLite's rules are modelled as the code meets them: a
CREATE needs its table and, without IF NOT EXISTS, that its object is new; with
foreign keys on, compiling an INSERT also resolves the keys of its table and, with
RETURNING, those that refer to it, and a key whose parent columns are no key of
the parent is an error.  These two outcomes were reproduced with SQLite itself
on the strings of container.hpp.

### MftLookup: the walker's constructor and `record_from_number()`

`MftLookup` extends `DataRuns`: the volume is in its use, and the decoder's
`layout` is that of `$MFT` (`LayoutOf`).  The constructor reads the first record
(`ReadMft`), decodes its mapping pairs with `DataRuns`' steps (`ReadRuns`), and keeps
the runs or throws (`Construct`); a first record that cannot be read, or has no
`$DATA`, leaves a walker without runs.  A call
locates each sector in the runs (`Locate`), reads it (`Read`, `ReadFails`) and
builds a record, whose constructor applies the fixups (`Build`, `FixedUp`).  The
code's variable `offset`, here `position` (`offset` is the decoder's), lives across
rounds as in the code, and `place` is the program counter of the walker.  A sector on the disk has
its position, a version of its contents and the update sequence number in its
tail.  `NtfsWrites` rewrites the record between two reads.  Sectors are of 512
bytes; the `- 512` at walker.cpp:188 and the fixup stride of `sizes.sector_size` on
drives with larger sectors are outside the model.  `Vcns` is the code's `vcn` as a
function of the run; the properties compare it with the clusters of `$MFT` written
down one after the other (`Clusters`).  Nothing but the bytes of the mapping pairs
connects the two: what is looked up goes through what was decoded.

### DataRuns: `read_dataruns()`

The decoder byte by byte, alone in the run `runs` and inside the walker's
constructor in `lookup`, against an encoder written from the format
(`Encoded`, external) in every width that holds the numbers.  `Base` is 256.
Widths are those NTFS writes, below eight bytes (`MaxWidth`): at eight the shift of
line 671 is undefined, and no such list is among the inputs.  `|=` of a byte shifted
into free bits is a sum (`ReadLength`, `ReadOffset`), `Power(i)` the value of digit i.

### NtfsIndex: `index_records()` and `index()`

A call looks for `$INDEX_ROOT` under two names (`FindRoot`), follows the attribute
list to another record and starts again there (`RootList`), looks for the blocks
in the same record or, in `index_records()` only, through the list (`Large`,
`AllocList`), reads them (`ReadBlocks`), and goes through the B-tree by recursion
(`Enter`, `Descend`, `Add`, `Leave`); `stack` is the stack of calls.  `index()` and
`parse_entries()` have the same steps and differ in the list: index() wants room
for an attribute header behind its offset and never looks at the last entries,
`index_records()` may look behind the end, where the outcome is that of whatever
is there (`ListEnds`).  `MFTRecord::index()` of lib/NTFS makes the same search, but
its call of `parse_entries()` is commented out and its vector, always empty, is
always an error (`NoEntries`).  A buffer that could not be read is null when it is
shrunk (record.hpp 111-116): the process crashes, which `BackupWalk` takes as one
of the ends of `Index`.  NTFS may rebuild the tree between two reads
(`NtfsRebuilds`); the blocks are one data run and one read.  Entries with length
zero and records that send back and forth through their lists are not inputs.
What `BackupWalk` assumes, that `volume.index` is the set of the directory's
entries, is `QuietIndexIsExact` here.  Of a directory that is rebuilt meanwhile
`NothingInvented` says that every entry handed back was one of its files in some
version of the tree.

What the constants may be is said by the ASSUMEs.  A tree (`IsTree`) is a B-tree as
NTFS keeps one: each node is ended by an entry without a name, no block is below
itself, and in the nodes in use names are in order, across nodes too (`InOrder`), and
sub-nodes exist.  Free blocks keep what they held.  The attribute list of a
directory (`IsDirectory`) sends to records that hold what the list says.

### PathWalk: `record_from_path()` and `list()`

`PathWalk` extends `NtfsIndex` and calls it once a directory: `Ask` sets the state
of a new call of `index()`, `Index` takes its steps, and `SearchPart`, `BeginList` or
`IndexFails` take its answer.  A path is a sequence of names, and `Fold` is what
`_wcsicmp` makes of a name; of the entries with the right one the first in the
order of the index is taken (`Match`).  Its record is read then, or cannot be,
and the `.value()` behind the message throws.  `list()` reads the record of every
entry that is not hidden by a long name beside it.  The two copies of this code,
in the walker and in `MFT` of lib/NTFS, have the same text; they differ in the
`index()` they call (`fn`).  Two things may come between the steps: the tree is
rebuilt (`Rebuild`), and a record that an entry names is given to another file
(`NtfsReuses`, once), which nothing notices because the sequence number is masked
out.  `IndexEntry` reads the name of an entry of "$R" as empty and its name type
not at all, so which entries of such an index are hidden is any subset
(`ShortEntries`).  A path that ends in a backslash has an empty last part, `NoName`.
`quiet` holds while no directory on the way has been rebuilt or answered from
"$R".  `IsRequest` says what volume a request is of: a record number that a
directory's tree names (`Refers`) is one of the volume.

### SeekReader, NtfsFile, FileRead, FileStream: streaming a file

`SeekReader` is `Reader` of lib/Drive: the kernel's position and the object's copy
of it, by which `seek()` decides whether to make the call.  `NtfsFile` is a file as
NTFS keeps it (extents that are plain, packed or holes; attributes in several
records) and, separately, what the code sees of it (`Decoded`, where a hole
inherits the offset before it).  `FileRead` promises that a stream nothing has
disturbed delivers a beginning of the file, and all of it when it ends without
loss.  `FileStream` is the code between the two: `process_data()`,
`process_virtual_data()` and `data()` of lib/NTFS on top of `_process_data_raw()` and
`attribute_data()`, and the opening of the volume (`OpenReader`, `LoadMft`).

A generator moves from one `co_yield` to the next (`Resume`, then `Step` until
`Yielded`); between two blocks another generator or `LookUp` may use the one
reader.  The variables of a generator's frame are the record `k[c]`; `Yielded` is the
cut that `process_data()` makes at the end of the file.  `trust` says whether anything has
come between the blocks of a run, in which case the promise is void: the code
seeks a run once and relies on the position from then on.  `datasize()` and `data()`
want room for an attribute header, 72 bytes, behind an entry of the attribute
list, whose entries take 32, and so never see the last entries (`Seen`; how many
of the list's `$DATA` entries are seen is the field `seen` of a record, for it
depends on what stands behind them).  In `attribute_data()` sizes and positions are
the low 32 bits of 64: runs may land past the end of the buffer (`AttrRun`,
"overrun"), and the buffer's noted size may be more than it has (`Shrunk`).  Decompression is what
the three wrappers of lib/Compression make of a buffer, with Windows's decoder as
an external that gives back NTFS's own units and refuses, or makes garbage of,
anything else.  Contents are names of units: unit p of the disk is p, a packed
cluster has names of its own, a hole is zeros, `Garbage` is memory nobody wrote.
`MinDword` is `std::min<uint32_t>`, which cuts both operands to 32 bits.

`VolumesAssumption` says what NTFS guarantees of a file (`IsVolume`): the attribute
list, where there is one, names every record that holds a piece of a stream and
none that does not, the
entry of the base record before the others (what begins a stream stays in the
base record if it can); the first piece has the sizes of its stream (`IsStream`), and
is the only one if it is resident; no cluster is in two extents; a
file compressed as a whole belongs to an unnamed stream of known size.  A volume
that breaks these is damaged, and not modelled.  `Served` says for which of these
files, and of which function, the promise of `FileRead` is kept; what falls outside
it is listed under *Streams* in section 5.

### VolumeInfo, DiskScan: finding disks and volumes

`DiskScan` is `disks::list()`: the numbers that are tried (`ProbeDisk`, `ProbeMissing`,
`ProbeBound`), the constructor of `Disk` for each drive that opens (`ReadMbr` to
`ReadEntries` for the tables, `ReadInfo` for what the driver tells, `Layout` for the
partitions), a `Volume` for each partition (`AddVolume`, whose outcomes are the set
`MakeVolume` of `VolumeInfo`), the virtual disks (`ListVirtual`), and what a command
then does: `InfoDisks`, `InfoDisk`, `InfoVolume`, `InfoAlone` and `Backup`.  Each read of a
drive is a step and may fail on a drive that is not sound; an error is printed
and the constructor goes on with what it has.  `VolumeInfo` is the constructor of
`Volume`: the boot sector (`Detected`), the Windows volume that lies on the partition
(`FindVolumeName`), what Windows tells of it (`InfoByName`) and the file system
(`Filesystem`).  Positions count sectors; `SeekWord` and `Lba` are 2^32, `MaxEbrs`
bounds a chain of EBRs that returns to itself, which the code would follow until
memory is gone.

What a machine is, is said by `ScanAssumption`: finitely many drives under numbers
Windows gave them (`IsDrive`: an entry that is a container does not begin at the
table itself, and positions have the width of their sector's fields), and the
volumes Windows knows, one at least, each by a name of its own (`IsOs`).  A drive may
hold any tables; the ones of which every partition must be found are `Orderly`: on a
drive that can be read, one container, of type 15, with a chain of EBRs that ends,
and a GPT without gaps.  Without the driver's layout the partitions come from the
tables (`Fallback`, and `OfEntry` for one entry of the MBR).  `PartitionsFound` counts:
at each position begin as many volumes as the tables describe partitions
there.

## 3. The runs

| Run | Question | Instance |
|---|---|---|
| `walk` | all properties of `BackupWalk`, refinement and termination | 3 workers, 6 records, 4 volumes: a chain and a fork with a hard link; a nameless record between two directories with an unreadable one after it; a nameless record in a subdirectory and a directory without a readable index; a walk started on a file. A record is nameless in three ways. 21,594 states |
| `reader` | all properties of `MtReader`, refinement, every read ends | 2 callers, 5 blocks, requests of 0..2, offsets 2 and 4, `Dword` = 3: a short read, a read that crosses into the next `OffsetHigh`, one that leaves the volume. 137,800 states |
| `container` | what a killed run leaves, what two runs do to each other | 3 processes, 2 runs each, symmetric. 17,930 states |
| `container_reopen` | a second run on a finished file (violated) | 1 process, 2 runs |
| `container_prepare` | the statements compile after `init()` (violated) | 1 process, 1 run |
| `lookup` | a record comes from its own sectors | 7 geometries: clusters smaller than, equal to and larger than a record, `$MFT` in 1..3 pieces, up to 2 concurrent writes, the mapping pairs of `$MFT` in every width of one or two bytes. 38,296 states |
| `lookup_raw` | the printed address is the record's (violated) | as above |
| `runs` | decoding undoes encoding, stays in the list, answers | up to 3 runs, forward and backward, holes, every width; bytes of 4 values. 149,077 states |
| `runs_holes` | a hole has offset 0 (violated) | a hole after a run |
| `index` | what the index functions answer, where a path leads, what a listing holds, and that all of them end | calls alone: 8 ways to keep a directory (in one record, under the other name, blocks or root in an extension record or each in one, blocks in pieces, a list without a root, no list) x 8 histories of up to three trees of up to three blocks and two levels below the root. Paths of up to three parts and listings on 4 volumes of five records, with directories that are rebuilt, a name in two cases, short names beside long ones and alone, a "$R" index. 12,991 states |
| `stream` | what a stream delivers, that it ends, that the position is known | 32 files of up to ten clusters of two units: resident, plain, fragmented, with holes, empty with and without clusters, at cluster 0, packed, compressed as a whole, spread over three records with a second stream and a list whose last entries are seen or not, with a run longer than 2^32, longer than 2^32 in short runs or behind a hole; read by one of three functions, or by two consumers of one file. 68,144 states |
| `disks` | which partitions, under which numbers; what a backup opens | 18 machines of up to five drives: MBR, logical partitions of both types, a chain that is cut and one that returns, two containers, GPT with and without a gap, numbers missing, drives that fail; 29 commands. 148,236 states |

**Why the bounds are enough.** `walk`: two workers can be in tasks of a parent and
its child while a third is still in its initialiser, and a queue of two
directories occurs; the proofs cover every number.  `reader`: two callers suffice
because calls share nothing but the handle, which never changes; short reads
repeat at least once within a request.  `container`: the shortest bad
interleavings involve two runs and one that died before them.  `lookup`: a record
of two or four sectors with runs of one to five clusters has each of its sectors
at a run's first and last cluster in some instance.  `index`: splits, merges, a
collapse to an empty root, a free block with its magic, a gap in the VCNs and
two names of one file occur, each with a rebuild at any point; three parts are
two directories on the way, so that both may change before a file is reached.
`stream`: `Block` is two clusters and `Unit` too, so that extents end within, at and
behind a block and a unit; `Word` is 16, below the longest run.  `disks`: `SeekWord` = 8
puts one partition at a multiple of 2^32; three EBRs make the base of the second
and of the third differ; one number missing, two in a row, and `Gap` drives behind
one occur.  `runs`: with four values a
byte, one byte holds -2..1 and two hold -8..7, and both ends of both occur.

**Deadlock** is checked except in the three `container` runs, where a process that
has used up its runs stops, and in `stream` and `disks`, where a program that has
read its files or carried out its command does.  In the others the program's end is a stuttering step
of its own (`Stopped`, `pc = "gone"`, `pc = "end"`).

**Fairness.** `walk`: weak fairness of the main thread and of each worker; every
one is an OS thread, no step waits for a lock, and reads and SQLite calls end.
`reader`: weak fairness of a thread inside `read()` and of the kernel's requests,
none on calling.  `runs`, `index`, `disks`: weak fairness of the one thread that runs
the loop, none of NTFS.  `stream`: weak fairness of a generator that has been
resumed, and strong fairness of resuming it: its consumer asks for blocks until
there is none, in a loop that others' turns only delay.

## 4. What is proved

| Module | Theorems |
|---|---|
| `BackupWalkProofs` | `TypeCorrect`, `InductiveCorrect`, `WaitComplete`, `ReportExact`, `OneTask`, `ContainerLives`, `Refinement` |
| `MtReaderProofs` | `TypeCorrect`, `NoStrayIo`, `EventClosed`, `Refinement` |
| `ContainerProofs` | `TypeCorrect`, `InductiveCorrect`, `RefusedComplete`, `SchemaComplete`, `OneRun` |
| `MftLookupProofs` | of `DataRuns`: `DecodeInvariant`, `AlwaysDecodes`, `PointerStaysInList`; of `MftLookup`: `LookupTypeOK`, `NotFoundAlwaysOutside`, `QuietRecordAlwaysExact` |
| `NtfsIndexProofs` | of `NtfsIndex`: `QuietIndexAlwaysExact`, `NothingEverInvented`, `RecursionAlwaysBounded`, `WellKeptAlwaysAnswered`; of `PathWalk`: `PathAlwaysExact`, `ListAlwaysExact`, `IndexOnTheWay` |
| `FileStreamProofs` | `StreamTypeOK`, `PositionAlwaysCoherent`, `NeverHandsOutTooMuch`, `NullBufferAlwaysHasCause`, `StreamRefinesFileRead` |
| `DiskScanProofs` | `ScanTypeOK`, `ListAlwaysComplete`, `PartitionsAlwaysFound`, `NumbersAlwaysGiveBack`, `NtfsAlwaysDecided`, `AskedAlwaysUsed` |
| `DataLemmas` | lemmas only |

They hold for every value of the constants that satisfies the ASSUMEs of the
modules, and assume nothing else:

- the walk: finitely many records and workers, at least one worker, tree-shaped
  volumes; the reader: a volume smaller than `Dword`^2 and requests smaller than
  `Dword`; the container: finitely many processes;
- a look-up: any number of sectors in a cluster and in a record, any runs that
  are not empty, written in any widths that hold them;
- data runs: a byte of any even number of values, widths of one to `MaxWidth` bytes
  with `MaxWidth` at most seven, any layout;
- the index: directories kept as `IsDirectory` says and trees as `IsTree` does, of any
  size and depth, in any number of versions; paths: requests as `IsRequest` says, of any
  length, on any number of records;
- streams: files as `IsVolume` says, a non-empty boot record, `Block` below `Word`, `$MFT` not
  at the start of the volume, units of more than one cluster;
- disks: machines as `IsMachine` says, with any number of drives and of Windows'
  volumes and any tables, a `Gap`, `Lba` and `SeekWord` of one at least.

**The walk.** `WaitIsComplete` is not inductive: that nothing is queued or running
says nothing about what has been counted.  `Inductive` adds what each loop knows
(`LoopInv`: the entries behind it are smaller than those ahead and none is
nameless), that a subdirectory of a walked directory has been handed to the pool
exactly when some loop has passed it (`DetachedInv`), and that a link is counted
exactly when it has been passed and is not between `detach_task` and
`folders_processed++` (`HandledInv`).  When the pool is quiet, "passed" holds of
every entry of every detached directory, so the detached set is closed under
`Subdirs` and contains the root; `Walked` is the least such set, which gives
`handled = Links(volume)`.  The counters are cardinalities of subsets of
`handled`, and a link is new whenever it is counted, so the totals are exact.
`OneTaskPerDirectory` needs the volumes to be trees: a directory could be
detached twice only by two parents.  For the refinement, `handled`, `files` and
`folders` are themselves the abstract state, and `phase` is computed from `rc` and
`proc`; only `CountFile`, `CountFolder`, `MainReport` and the ways the process
ends are not stutters.

**The reader.** `Inductive` says what the loop knows of the buffer: the cells
before `pos` hold what was asked for, offset and size are the rest of the request,
and a finished request has filled the next cells.  The arithmetic leaf is that
joining the two halves of an offset below `Dword`^2 gives the offset back.

**The container.** `Inductive` ties the unique index to the runs that got
through `init()`: it is in the file exactly when one did, and then the whole
schema is.  So at most one ever can, and a refusal is always by that index.

**The look-up.** Two accounts of where a record lies have to agree: the
code's, which subtracts the lengths of the runs it has passed (`Vcns`), and the
clusters of `$MFT` laid end to end (`Clusters`).  `PositionIsPlace` and
`PlacedIsFound` show that a sector that lies in some run is found, in that run,
at the position of its own place.  `LookupInv` then follows the loop: every sector in
the buffer was read from its place, and the versions of the record they were
read from never go back (`Arranged`), while `position`, which outlives a round, is
the place of the sector wanted.  That the runs are those of `$MFT` is not assumed:
`MftInv` carries the decoder's invariant through the constructor, and when it ends
`RunsAreDecoded` gives that its result is the list of runs the volume has.  So the
theorems reach from the bytes of the mapping pairs to the record.  If nothing was written in between, the first and
the last version are the same, and the record is exact.

**The data runs.** The decoder does not know where the pairs begin or how wide they
were written, so `DecodeInv` says that some choice of widths `w` and of beginnings `b`
gives the list it reads, that what it has pushed so far is right, and in which digit
of which pair it stands (`PlaceInv`).  After `i` digits it holds the number modulo
`Power(i)` (`DigitStep`), and the distance as an unsigned number.  `SignIsRead` is the
step that turns it into a signed one: the top bit of the last byte is set exactly
for the negative numbers that fit, the least one included.  A header byte of zero
cannot be that of a pair, whose length takes a byte at least, so the decoder
stops at the end mark and nowhere else.

**The index.** `IndexInv` has a part for each thing that could go wrong.  `SearchInv` is
what each place of the search knows: why the record at hand may be searched, and
what was not in the entries of the list behind.  `StackInv` is why the recursion
ends: each call stands at the sub-node in which the next is, and each sub-node
lies strictly below all before it, so no block is entered twice on the way and the
depth is at most one more than the number of blocks, whatever version of
the tree was read.  `OrderInv` is exactness: while nothing was rebuilt, the files of the
tree are those handed back and those the calls on the stack have still to
add (`Remaining`), and these come in order from the deepest call to the outermost.
`NamesInv` needs neither order nor quiet: a node that is read was one of some version.
`WellKeptIsAnswered` is inductive beside them.

**Paths and listings.** `PathInv` stands on `IndexInv`, which each call of `index()` starts
anew.  `WalkInv` says that what is indexed is the directory last reached, or the
record was reused; `TrailInv` that every step so far went through the first matching
entry, for which `MatchIsFirst` compares the loop's search with the least file in the order of
the index, known from `QuietIndexIsExact`; `ListInv` that what has been listed and what of
the rest will be are what should be shown.

**The streams.** `StreamInv` holds the reader and every stream at once, as the streams
share the reader.  `MftInv`: the copy of the position is the position from the
moment the volume is open.  For a stream, `PlaceInv` ties where it stands to the
attribute it is in; `LengthInv` says that what was handed out and what is left
together are no more than the file, which every way of yielding keeps because
the cut is made before the block is given; `BufferInv` says that as long as no read has
failed and no run has 2^32 bytes, the buffer of `attribute_data()` is as full as the
runs passed are long, so that a buffer becomes null only for the causes the property
names.  Each action is
one lemma on one stream, and `Carried` gives the same for the other streams, which
it does not touch.

For the refinement of `FileRead` it is not enough to know how much was handed out.
`RefineInv` adds to `StreamInv`, for each stream that may still be trusted (`DataInv`):

- `ListInv`: what is left of the attribute list is its end, and the record at hand is
  the one of the entry before it.  So the number of pieces begun (`Begun`) is that of
  the entries passed that name the stream (`Taken`, `UpTo`), and the piece at hand is the
  piece of that number (`InPlace`), although the code never counts them;
- `InPlace` also says where in the piece the stream stands (`InPiece`), and that the bytes
  handed out are exactly as many as lie before that place; `InRun`, that in a run the
  reader is at the next unit of its extent, unless what is left of the run, cut to
  32 bits, is nothing (and then the loop hands out empty blocks for ever);
- `BlocksInv`: what was handed out is the beginning of the pieces joined.  Its step is
  one lemma for each kind of block (read from a run, a hole, a packed unit, a resident
  value): the block is the part of the joined pieces behind what was handed out.  The last
  block of a hole may be longer than the hole, and a hole behind a run is taken for
  data, which is why `Served` allows a hole only at the start, of whole blocks;
- `CopyInv`: as far as `attribute_data()` has come, its buffer is the attribute;
- `WofInv`: a file compressed as a whole is handed out at once, from a buffer that
  is the whole of its one piece, or not at all.

`Advance` and `Opened` say what one action does to its own stream, and `OthersKeep` that
the others stay or are disturbed: a step of `FileStream` that hands out nothing is
a stutter or `Disturb`, one that yields is `Deliver`, and one that ends is `Complete` if no
piece was lost and `GiveUp` otherwise.

**The disks.** `ScanInv` follows `list()` from number to number.  `ProbeInv`: of the
numbers tried at most one, `g`, is missing, and the disk at place `j` of the list has
number `j - 1` before `g` and `j` behind it; that the second loop ends at the next
missing number, and not behind it, is what bounds `ListIsComplete` by `OneGap`.
`TablesInv` is about a drive with orderly tables.  "As many as" is a bijection
(`Matches`) between the entries the disk has and the partitions of the drive.
Along a chain of EBRs it grows by one place in each step, which is new because a
chain that ends never comes back to a place (what follows a place is determined
by it); for a GPT the sectors read are always the first ones.  The pieces are
joined (`MatchesJoin`) over the four entries of the MBR, then over a chain or over the
sectors, and `Matches` of the whole gives equal counts at every position.
`VolumesInv` says of each volume that it is made of its own entry (`MadeOf`) and formed
as Windows and its first sector say (`Formed`); the first, with the fact that the
numbers `Fallback` gives rise (`Rising`), makes a number that is shown belong to one
volume, and holds whatever was read of the tables; the second gives the decision
of a backup and the volume it opens.  `DisksInv` keeps both for the disks in the
list, and `AnswerInv` ties an answer to a disk and a volume of the list.

**DataLemmas.** Induction over numbers cannot be cited here as the library states
it, with an operator for its hypothesis.  `NatMin` derives the least number of
a set from the well-foundedness of the finite sets under inclusion; `Induction` is then
stated for a set, the numbers for which something holds, and `RecursiveFunction`
gives that a function defined by recursion is what its definition says.  What the proofs need of
the folds of the community modules, `FlattenSeq` first of all, follows from these; and
that quotient and rest are unique, which the provers do not find for a divisor that
is not a number.

**Only model-checked.** Liveness (`Terminates`, `ReadEnds`, `AlwaysAnswers`, `Ends`,
`StreamsEnd`, `ScanEnds`), which is out of the prover's reach under fairness.  Every
other property of a passing run is a theorem.  `TypeOK` of
`Container` and `MtReader` and the three invariants named `Inductive` are proved and no
longer run.

## 5. What was found

Four runs show a disagreement of the code with its own documentation or tests
(`findings` in `PROJECT.json`):

1. A complete container refuses the next run (`Reopenable`, container.hpp:333): the
   only CREATE without IF NOT EXISTS.  As it happens this is also what keeps two
   runs from filling one file (`OneRunPerContainer`).
2. No statement of the initialisers compiles (`PreparesAfterInit`,
   container.hpp:320): the foreign key refers to a column that is no key, and
   foreign keys are on.
3. `raw_address()` takes `$MFT` to be in one piece (`RawAddressIsPlace`).
4. A hole after a run is decoded with the run's offset, and its readers know a
   hole by offset 0 (`HolesAreZero`, mt_ntfs_mft_record.cpp:676).

Other things the modules show, each stated as the exception in the comment of a
property, or as the `CASE` of an action:

- **Indexes and paths.** A directory with its root in one extension record and
  its blocks in another, or its blocks in pieces, is not answered, nor, by
  `index()`, one whose root is named by the last entries of the list.
  `MFTRecord::index()` always fails, and with it every path but the root in lib/NTFS.
  A path that ends in a backslash is not found.  In a case-sensitive directory the first
  of two names that differ in case stands for both.  `list()` decides by an
  uninitialised name type in a "$R" index.
- **Streams.** A run, hole or file of a multiple of 2^32 bytes makes an empty block
  for ever.  A failed read drops the rest of a piece and goes on with the next.  A
  hole shorter than a block gives a whole one; a hole behind a run is read from
  the run; a hole of the later pieces, whose size field is 0, and one at the start of a
  file of 2^32 bytes or more, come short; cluster 0, where $Boot is, comes as zeros.
  The clusters kept for a file that is empty are handed out, because nothing is cut at
  size 0.  An attribute whose run list is empty throws.  A unit that NTFS stored as it is, is decompressed.  The length of the
  chunk table of a WOF file is guessed from its contents, the status of the
  decoder is not looked at, and LZX gives zeros.  A piece in the base record hides
  the others.  `datasize()` and `data()` pass over the last entries of the attribute list,
  and with them the pieces these name.  `attribute_data()` adds up sizes in 32 bits: of
  a stream with 2^32 bytes or more the runs land behind the end of its buffer.
  The reader's constructor reads the boot record behind its copy of
  the position.
- **Disks.** The length of a GPT partition is its last sector; the first unused
  entry ends the table; a container of type 5 is not expanded, and all EBRs are
  given to each container of type 15.  Two missing numbers hide the drives behind
  them; one makes `by_index()` give the wrong drive and a virtual disk share its
  number with the last drive.  A partition that is no Windows volume gets the name
  of the last volume Windows knows.  A partition whose position is a multiple of
  2^32 bytes is not detected.  An old FAT volume with the OEM id MSWIN4.1 is read
  as BitLocker.  Of the paths a volume is mounted at only the first is shown; a
  drive that does not answer the TRIM query shows no model; a BitLocker volume is
  always "Unlocked".  `re2 info -d -v` and `re2 backup` use a volume that is not there.

## 6. The plan

Modelled since the first plan: **AttributeData** as `FileStream`, **PathWalk**,
**DiskDiscovery** as `DiskScan`.  **StatementHandles** (bind, step, reset on the
per-worker statements) is dropped: the inserts have no caller and, with finding
2, none could reach them.

Proved since: the six invariants of `DiskScan`, and `MftLookup` on the runs that
`DataRuns` decodes, and that `FileStream` implements `FileRead`, for plain, sparse and
packed runs and for files compressed as a whole.  No safety property is left.

Not modelled:

- `lib/Utils`: tables, the error stack, formatting, `Buffer`, constant names.  They
  print or convert, and keep nothing between calls.  `Buffer`'s null data after a
  failed read is modelled where it matters (`NullBufferHasCause`).
- the inserts of container.hpp, `close()` and the moves of `sqlite_commander`: no
  caller.  (A step that fails would return without `sqlite3_reset`, and `close()`
  leaves the pointer for the destructor to finalize again; every worker pushes into
  the commander's vectors without a lock, behind the statement that cannot be
  prepared.)
- the second half of `mt_ntfs_mft_record`, `datasize()`, `data()` and the generators,
  which repeats lib/NTFS and has no caller in `main()`; `MFTRecord::filename()`.
- the image constructor of `Disk`, `volumes::list()`, `find_record()` and the accessors: no
  caller in `main()`.
- the parsing of the command line, `task_backup_hash_fs`, the layout of what is
  printed; declarations in headers; `test/`, which is read as the expectation the
  code is held to.
