# TLA+ models of TPBench

TPBench runs small performance kernels and keeps every run as a record in a
workspace on disk (*rafdb*). Most of what can go wrong in it lies in those
records: they are written by many processes at once (two command lines, the
kernels they fork, the MPI ranks of a kernel), with hand-made file formats, two
kinds of file locks, shared memory, and no transaction around any of it. This
directory models that core and the commands around it (kernel records, runs and
suites, task queries and exports, environments): TLC checks them on small
instances, TLAPS proves the most important parts of the core for any number of
processes, records and failures.

`PROJECT.json` maps each definition to its lines of code and lists the runs,
the mutated definitions that break each property, the hazards and the findings.

To repeat a check: `tlc -config RafEntry.cfg RafEntry` for a run (module and
configuration are in the table below), `tlapm RafEntryProofs.tla` for a proof.

## 1. Inventory of the system

Paths are relative to `src/src/`.

| component | state it keeps | operations | modelled in |
|---|---|---|---|
| rafdb L1 index, `corelib/rafdb/rafdb-l1-entry.c` | `<domain>.tpbe`: start magic, rows, end magic | append (flock), list (no lock), patch of one field of a row (flock) | `RafEntry`, `EntryLog` |
| task capsules, `rafdb-l3-task-taglink.c`, `rafdb-l2-task.c` | one `.tpbr` per capsule: four counts and a list of identifiers | create, append (fcntl, five writes), read (no lock) | `CapsuleFile` |
| capsule hand-over, `corelib/tpb-autorecord.c` | a POSIX shared-memory object: ready flag, identifier | create, sync, append, unlink | `CapsuleJob` |
| recording of MPI kernels, `kernels/streaming_memory_access_mpi/tpbk_stream_mpi.c` | per rank: stage, verdict, identifier | coordinated start, write, barrier, create, broadcast, link, reduce, gather, append | `MpiCapsule` |
| batches, `tpb-autorecord.c`, `rafdb-l2-tbatch.c`, `rafdb-l3-tbatch-taglink.c`, `tpbcli/run`, `tpbcli/benchmark` | one `.tpbr` per batch, `tbatch.tpbe`, counters | begin, write task, end | `Batch` |
| process launch, `corelib/tpb-driver.c` | the forked kernel | fork, waitpid, stop at first error | `Batch` |
| runtime environments, `rafdb-l2/l3-runtime-environment*.c`, `corelib/tpb-rtenv.c`, `tpbcli/rtenv` | `runtime_environment.tpbe`, one `.tpbr` each, `base_id` in `config.json` | create (options, template), snapshot, register a child, count, choose the active one, merge a chain, load | `RTEnv`, `EnvVars` |
| kernel records, `rafdb-l2-kernel*.c`, `rafdb-l3-kernel-*.c`, and `tpbcli kernel` | shared objects in `lib/`, rows with an active flag, `.tpbr` with key/value sections | build, install, scan, activate, deactivate, back up, change a key, get | `KernelRecord`, `KernelMeta` |
| kernel loader, `corelib/tpb-dynloader.c` | the loaded kernels | scan, resolve a KernelID, record a rebuilt kernel | `KernelRecord`, `Driver` |
| driver, `tpb-driver.c` | kernels, handles, argument values, limits shared by pointer | register, add and copy handles, set argument, environment and wrappers, reset | `Driver` |
| `tpbcli run` | argument tree, pending dimensions, wrapper chains | parse token by token, expand into handles | `RunCommand` |
| `tpbcli benchmark` | batches, results, scores | load a suite, run its batches, read metrics back, score | `Benchmark` |
| `tpbcli task` | the file of rids, export directories | ls, get-result, export | `TaskOptions`, `TaskStore`, `TaskReport`, `TaskCsv`, `TaskCommands` |
| time stamps, `strftime.c`, `tpbcli-task-time.c` | none | pack, show, read | `TimeStamp` |
| stack parser, `tpbcli/argp` | the stack of levels, counts per option | match, push, pop, conflict | `TaskOptions`, `RunCommand` |
| `tpbcli database`, `rtenv show/list`, `kernel init/list` | none | print | not modelled |
| start-up, log files | process-wide state | init | one step of `MpiCapsule` |
| units, statistics, tags | none | pure functions | reducers in `Benchmark`; the rest not |
| timers, libpfc, pmu, kernels' arithmetic | hardware | | not modelled |

How they interact. A front end (`tpbcli run` or `benchmark`) opens a batch,
forks one kernel process per handle and waits for it. The kernel writes its
task records, appends rows to `task.tpbe`, counts itself in the active runtime
environment, and, when it has several processes, collects them in a capsule.
The front end then lists `task.tpbe`, copies the entry points of its own batch
into the batch record, counts the batch and publishes a row. All processes of
all front ends share the files of the workspace. Before any of it, every command
that needs kernels scans `lib/` and brings the kernel records up to date, and the
command line or the suite has become handles. Afterwards `tpbcli task` reads the
records back, while others still write them, and leaves files of its own: the
last listing, whose line numbers later commands take, and exported pairs.

What is hard. Readers that take no lock while writers overwrite the end of the
file; several writes per update with a death possible between any two; a
position found without the lock and used under it; a check and an append
without a common lock; a read-modify-rewrite of a whole record; a shared-memory
name that outlives its run; collectives that every rank must enter whatever
failed on it; a scan that tells batches and capsule members apart by fields that
other processes are still writing; flags kept twice and switched one by one;
pointers shared by handles that are cleaned one after the other; a listing that
is read twice by a command; texts written by one conversion and read by another
(templates, cells, times, names). `hazards` in `PROJECT.json` has each with its
line.

What makes each part correct, in one line: acknowledged rows and identifiers are
never lost, duplicated or moved, and a reader sees a state that really was there
(index, capsule); a process gets the capsule of its own run (hand-over); all
ranks agree and nobody hangs (MPI); what a batch publishes agrees with what it
holds and with what was run (batch); inheritance is acyclic, nothing names what
does not exist, counts are exact, a load gives the nearest value (environments);
of the kernels of a name the installed one is the active one (kernel records);
the handles are the product of what was asked (run); scores mean what the suite
says (benchmark); a rid means a line that was shown, a table says what it leaves
out, what is exported or shown reads back (task).

## 2. Modules

A process is a program counter plus its local variables; an action is what the
code does between two points where another process can see or change something.
Files are modelled by what a reader can tell apart, not byte by byte. A mutated
form of a definition stands before the definition, marked "Mutant of"; it is no
part of the specification.

**EntryLog** is the promise of an index: an append-only list, one row per record,
in which a row's link may be filled in later and only with its own link.

**RafEntry** is the index file. `st` says whether the file is absent, empty,
whole or torn (the end magic is overwritten), `holder` is the flock.
`AppendOpen, AppendLock, AppendFirst | AppendRefuse | AppendRow, AppendEnd` are
`_tpb_raf_l1_entry_append`; the row and the end magic may reach the file in two
`write` calls, hence two actions. `ListStat, ListReadOk | ListReadFail` are
`_tpb_raf_l1_entry_list`, whose `stat` and `fread` are apart.
`ListStat, PatchFind, PatchLock, PatchWrite` are `tpb_k_task_set_derive_to`.
`AppendIOError` is a write that fails, `Crash` a process that is killed.
A record identifier is a SHA-1 value and is taken to be fresh.

**CapsuleFile** is the capsule record. A record holds the identifiers, the place
of the end magic and three counts. The append writes with buffering off, so each
of its five writes is an action (`AppendId`, `AppendMagic`, `AppendDatasize`,
`AppendHdrsize`, `AppendDim0`); the reader is `ReadMeta, ReadBody`.

**CapsuleJob** composes runs of a kernel with `CapsuleFile`, which it extends: a
leader and followers that meet through shared memory. The name stands for an
object; `LeaderUnlink`, `LeaderOpen`, `LeaderTruncate`, `LeaderZero`,
`LeaderId`, `LeaderFlag` are the calls of `tpb_k_create_capsule_task` in their
order. Stores become visible in program order, as on x86-64; on a machine with
weaker ordering the plain store of the flag would need a barrier, which the code
does not have. `LeaderFinish` waits for the followers because its only caller
does (the `MPI_Barrier` at `tpbk_stream_mpi.c:1314`); the API does not ask for it.
`disturbed` remembers that runs overlapped or a leader failed.

**MpiCapsule** is one run of an MPI kernel, collective by collective (`MpiSpec`;
its names differ from those of `CapsuleFile` so that one run can have both). `passed`
holds the stages a rank has completed, so a collective is a condition on the
others' stages. A step that can fail takes a Boolean and uses up one of
`MaxFail`. `busy` tells who is inside an append to `task.tpbe`, because a list
then fails.

**Batch** has front ends (`fe`), the kernel each has forked (`ch`), the task
index, the batch records and rows and the counters of the environment. A list
may fail when an append of another process is under way or went through between
its `stat` and its read (`ListMayFail`), as `RafEntry` shows. `HdrDim0Off` and
`FieldAt` keep the one offset of the record layout that matters here.

**RTEnv** has the rows, the records, `config.json` and the calls that create an
environment, register it with its parent and count tasks. Appends to and lists
of the index are atomic here (`RafEntry` has their steps); `rec[i].whole` is
false between `fopen("wb")` and the new contents. `Chain`, `MergeChain` and
`CoreMergeChain` are the two merges of an inheritance chain (the command's and
the library's, with different limits), `Load` what a shell has after
`eval "$(tpbcli rtenv load)"`.

**EnvVars** has the pure part of it: variables with their `on_set` and `on_get`
modes, merging, the options of `rtenv new`, the template text written and read,
the exports of `load` and the way the driver applies `--kenvs`. A value is a
sequence of words, with colon, blank and quotes as words of their own.

**KernelMeta** is the key/value metadata of a kernel record: a sequence of cells
with sizes per section, `UpdateMetaKey` with the positions the code computes, and
`Value`, what `kernel get` reads. **KernelRecord** has the objects in `lib/`
(`so`, `bak`), the rows and the records. A command (`Scan`, `Build`,
`BackupInactive`, `KernelSet`) is a list of small operations still to do, one
step each, in the order of the code; `Resolve`, `Deactivate` and `SwitchOff` (the
loop over a list of rows, one row at a time) put further ones in front. `CopyFail`, `BackupFail`, `WriteFail` and `Crash` stop a command
anywhere, `Install` puts an object in place by hand.

**Driver** is the state both front ends set up: registered kernels, handles, and
`live`, the limits that are still allocated; `bad` collects what the code does
wrong in memory (reading or freeing what is freed). It has operators only.
**RunCommand** reads a command line token by token (`Tree`, `Popped`, `Enter`,
`Refuse` are the parser) and expands dimensions; `asked` remembers what the line
said. **Benchmark** runs a suite, with numbers as fractions and a value for NAN.
**Commands** composes the two over one driver.

**TimeStamp** has the packed stamps and the conversions to and from text. libc
is external: a zone is an offset and another one between two instants.
**TaskOptions** is the option tree of `tpbcli task`, the parser as a fold over the
arguments, and the readers of their values. **TaskStore** has the task files and
rows, changed by the recorders (`WriteRecord`, `AppendRow`, `JoinCapsule`),
listings with filters, and the search for prefixes and entry points.
**TaskReport** computes the tables of `get-result`; a row keeps which members'
samples it was made of. A report is one step (`Report`), though the code reads
the records one after another: a report that shows one record before and another
after a change by a recorder (a link, a member that joins) is not in the model. The ranges of subranks go to a buffer
of `RangeMax` bytes (128): `SubrankPresence` says whether they are shown to the
end, and whether a number was written past the buffer (the size passed to
`snprintf` wraps around); what that does is undefined, and that the command dies
of it is `Crash`. **TaskCsv** has the exported texts character by
character, because the property is about separators. **TaskCommands** composes
them: `StartLs, MapTmp, MapWrite, MapRename`; `ParseRids, IndexMap` (two readings
of the file of rids) and `Report`; `BuildWorks` to `DataRename` for an export,
with failures and kills between.

**MCCapsuleFile, MCCapsuleJob, MCCapsuleRuns, MCBatch, MCRTEnv, MCKernelRecord, MCCommands,
MCTask** hold the definitions TLC needs: symmetry sets, the processes of two
runs, plans, environments, suites, command lines, a workspace with its records.
`MCCapsuleRuns` has the two ways to record a kernel of several processes in one
state space; `how` tells which one a behaviour takes, and the other half stands
still.

**RafEntryProofs, CapsuleProofs, MpiCapsuleProofs, RTEnvProofs, BatchProofs,
TaskCommandsProofs, KernelRecordProofs, RunCommandProofs** hold the proofs.

## 3. Runs

| run | module, configuration | states | what it shows |
|---|---|---|---|
| raf_entry | RafEntry, RafEntry.cfg | 61,691 | the index is whole except inside an append or after a failure; acknowledged rows stay, once; lists show them; links land in their own row; it implements `EntryLog`; nobody waits for the lock for ever |
| capsule_file | MCCapsuleFile, CapsuleFile.cfg | 66,756 | acknowledged identifiers stay in the list; an unlocked read is a beginning of the list with all that was acknowledged before it; a successful append leaves the counts in agreement even after an earlier one died |
| capsule_runs | MCCapsuleRuns, CapsuleRuns.cfg | 115,355 | shared memory: without overlap and failure every process gets its own capsule, the capsule is complete, the run ends; always, the job is a behaviour of `CapsuleFile`. MPI: ranks agree on the outcome, success means a complete capsule, no failure out of nothing, no rank is left in a collective |
| batch | MCBatch, Batch.cfg | 540,950 | rows and records of batches agree, each lists exactly its own entry points, one per handle when nothing failed |
| rtenv | MCRTEnv, RTEnv.cfg | 455,889 | parents are older than children, nothing names an environment without a row, a load gives the nearest value, a template declares the same, links and counters are right unless two processes met |
| kernel_record | MCKernelRecord, KernelRecord.cfg | 2,064,315 | of the kernels of a name the installed one alone is active, in row and record, also after a scan that repairs; keys that were set are read back; scans and `kernel set` never leave a name without an active kernel |
| commands | MCCommands, Commands.cfg | 552,224 | handles are the product of the dimensions in order; wrappers reach their handles; what follows a `--kernel` leaves earlier handles alone; limits are used after being freed only from the second batch of a kernel on; scores follow their definitions |
| task | MCTask, Task.cfg | 852,999 | the file of rids is always one whole listing; an export leaves both files or neither; whatever a table leaves out is warned of; exported cells without three adjacent commas, shown times and quoted names read back; the order of options does not matter |
| capsule_sync | MCCapsuleJob, CapsuleSync.cfg | violation | finding 1 |
| batch_dims | MCBatch, BatchDims.cfg | violation | finding 2 |
| rtenv_names | MCRTEnv, RTEnvNames.cfg | violation | finding 3 |
| task_commas | MCTask, TaskCommas.cfg | violation | finding 4 |

Bounds. `MaxAbort` and `MaxFail` bound the crashes, failed calls and disturbances
of one behaviour: one is enough to leave every half-written state once (two in
`MpiCapsule`, where two ranks may fail in different calls); the other processes
then meet what it left. Three processes at one file give a holder of the lock, a
waiter and a reader. Two identifiers in `RafEntry` give a first append to an
empty file and a later one over an end magic. Two runs of two processes in
`CapsuleJob` give one run that follows or overlaps another. Two front ends in
`Batch`, one with a plain and an MPI kernel, give two batches that scan one
index, and capsule members to be told from entry points. Three creations in
`RTEnv` give a chain of three and two children of one parent. `MaxId` and
`MaxTask` bound creations and counts. The limits of the code are constants, set
so low that they are reached: in `RTEnv` chains of 2 (64 in the code), 2
applications (32), 3 and 4 variables (128 and 512), 5 parts (64); in `Commands` 2
dimensions, 2 wrapper links, 4 values; in `Task` 3 filters (64), 4 names (128) of
4 letters, 2 hops of `derive_to`, 3 letters in a cell (4095), 1 in a key of the
environment (255), 2 export directories (4), 2 members remembered (32), and a
buffer of 12 bytes for ranges (128), which fits "[subrank=0]" and not
"[subrank=0,2]".

`KernelRecord` allows four commands on two names and three objects (two of one
name), where a command that starts while another is under way counts three times
(`OverlapCost`): sequences of four, or a pair that overlaps and one after it.
`Commands` takes every line of six tokens over two kernels, one of whose
dimensions has a value that is refused, and suites of three batches over three
kernels (one does not register), with scores that refer forward. `Task` runs two
commands out of twenty-one lines over a capsule of which a member cannot be read
and which another joins meanwhile, a plain task, a task being recorded, records
that derive from each other, and one whose environment does not fit a cell. Its
properties about pure conversions are evaluated once over fixed sets: 21 instants
in 5 zones with 9 offsets; every text of at most three of letter, comma and
colon, and some with a carriage return; every pair of options after every third.

Symmetry is used where all processes (and names) are alike and no liveness is
checked.

Deadlock is checked where processes can always begin another call. It is off
where the system ends: runs, jobs, batches, and environments at their bounds.

Fairness. `RafEntry`: a call that was begun keeps running. Between its steps the
code waits for nothing but `flock`, and the model shows that weak fairness is
enough for waiters there because each process appends or patches a finite number
of times. `CapsuleRuns`: every process keeps running unless it is killed
(`JobFairness`), and no rank stops between two MPI calls (`RankStep`). Nothing is assumed of
failures, crashes or of the start of a call. `JobEnds` and `RanksEnd` hold under
stated conditions (undisturbed runs; an MPI run that has begun and in which no
rank leaves the measuring loop alone): outside them the code really does wait for ever, which is in the list of
hazards.

Conditions in properties. `raced`, `disturbed`, `overlap`, `clash`, `fault`,
`overlapped` and the failure counters are history variables: they say which
interference happened.
Each property holds outside the interference it names, and the hazards say what
the code does inside it.

## 4. Proofs

Proved for any sets of processes, identifiers and capsules and any number of
failures (the bound is a constant of which only `\in Nat` is assumed).

*The index* (`RafEntryProofs`, from `RafEntryAssumption`: the null values are not
in the sets, the bound is a natural number). The inductive invariant `IInv` is
`TypeOK` and: the process inside a locked stage, and only that one, holds the
lock; the identifier of a begun append has no row yet and is nobody else's;
rows have different identifiers; the row a patcher found is still the row of its
record; what a lister has to show was acknowledged; and the checked invariants.
`AckedOnce`, for example, is not inductive alone: another append could add a
second row with the same identifier unless pending identifiers are fresh, and
that is lost unless only the lock's holder is between its writes. One lemma per
action shows `IInv` preserved; `InvHolds` follows; `TypeCorrect`,
`IndexStaysWhole`, `AckedStaysOnce`, `ListsShowAcked`, `LinksLand` are its
consequences. `IndexImplementsLog` maps each step of the file to a step or a
stutter of `EntryLog` (`rows` for `log`), and `RowsKeepPlace` follows from that
step lemma.

*The capsule* (first half of `CapsuleProofs`, from `CapsuleFileAssumption`). `IInv` is
`TypeOK`, lock ownership, `Shapes` (a file has as many identifiers as `datasize`
says and the end magic behind them, or exactly one more that an append has not
accounted for), where each writer is between its writes, what was acknowledged,
what each reader must still show and what each result was. The key step is that
every action keeps each file's list up to its `datasize` and never lowers
`datasize` (`Kept`); from it what readers know stays true. `AckedNeverLost`,
`ReadsAreWhole` and `AckedIsWhole` are the results.

*The hand-over* (second half of `CapsuleProofs`). `JobImplementsCapsule`: each step of
`CapsuleJob`, whatever runs overlap or are killed, is a step of `CapsuleFile` or
leaves its variables alone. Hence `JobKeepsAcked`, which no run of `CapsuleJob`
had to check. `SyncsWithOwnLeader` and `CapsulesAreComplete` rest on `JobInv`:
the invariant of the files, and as long as the runs are undisturbed: one run is
active at a time and its leader holds the name (`HandOver`), and the list of a
capsule is what its processes have appended, each at most once (`Collected`).
`SyncOwn` alone says nothing of an object that a waiting process has yet to map.

*Recording by ranks* (`MpiCapsuleProofs`, for any number of ranks). Agreement of
two ranks is not inductive: it has to be known which collectives each has passed
(`Stages`), that none has passed one the others have not entered (`Meetings`), and
that what a rank carries is a function of what all know: creation, links, appends
(`Verdicts`). With `Identities` and `CapsuleList` (the list holds the identifiers
of the first ranks) this gives `Agreement` and `Completeness`; `NothingSpurious`
has an invariant of its own, `Undisturbed`, in which every rank is where a run
without failure brings it.

*Environments* (`RTEnvProofs`, for any number of processes, environments, tasks
and deaths). `InheritanceEnds` and `RowsComeFirst` need what each call still
under way knows (`CallOK`: its parent has a row and a smaller identifier) and that
the largest identifier of a list is not below any row (`Largest`), so that a
rewrite from a stale copy keeps the order. `Budget` keeps identifiers within the
bound. `CountsAreExact` adds that as long as no two creations overlapped and no
record was rewritten under a reader, what a process has read is still there when it writes
(`Copies`), and that the counter of a row lags by the number of processes between
their two writes (`RowCounts`, by cardinalities). `FamiliesAreLinked` adds, for
each row with a parent, that it is listed there or its creator has still to do it.

*Batches* (`BatchProofs`, for any number of front ends, handles, ranks and
failures). A row names batch, handle and unit, and is none of those that the
handle may still bring (`Rows`, with `Left`): this gives distinct identifiers. The
copy of the index that a front end collects from still has all rows of its own
batch (`Snapshot`), because its kernels have ended, and what the loop has collected
is the set of entry points before its position (`Loop`). `OneEntryPerHandle` has
a further invariant for behaviours without failure: the entry points of the
handles that are done are in the index, one each and in order. Time stamps are
left untyped.

*Task commands* (`TaskCommandsProofs`, for any number of commands, any command
lines and workspaces that `TaskAssumption` allows: members of a capsule are
tasks, each once and not the capsule, as `CapsuleFile` has processes append
them; directories that exist hold files of the user). `PairsComplete` of one
directory depends on all that goes on in it: `ExportInv` says that two exports
are inside one directory only if it is marked as shared (`OneInside`); that a
`mkdir` whose directory has come to exist meanwhile is marked; that a directory was
empty when its export came and nothing of the list that is left to do is
exported there yet (`InsideOK`), so that a failing record, which takes its meta
file away, never takes one that belongs to a finished pair; that the list names
different records (`TodoOK`); and that what is wanted is exported or still on the
list unless something failed (`WantedOK`). `MapInv` says of a process replacing
the map that its listing was shown and its temporary file is whole before the
rename. `PairsAreComplete` and `MapStaysWhole` follow. What the selections and
listings compute plays no part: the theorems hold whatever they are.
`ReportsSayWhatTheyLeaveOut` is about what get-result computes: a report is made
in one step from the records as they are then and kept (`ReportsHonest`), so it has
to be shown of every report (`ResultHonest`). The samples of a row are a fold over
the subranks; `IterateExists` shows that the recursion behind the fold has a
solution for any number of members, and `IterateCollects` by induction on that
number that what is collected comes from readable members of one unit and that a
refusal names its reason (`Collected`). The warnings then count correctly because a
proper subset of the readable members has a smaller cardinality. Ranges of the
name report are the members that hold the name by a least-element argument at both
ends of a range (`RunsFacts`), which says something of what is printed only when
the text fits its buffer: the theorem speaks of ranges that are shown to their
end. Nothing is claimed of longer ones, which the code cuts or writes past it.

*Kernels* (`KernelRecordProofs`, for any number of processes, names, objects and
keys, from `KernelAssumption`). `InstalledIsActive` speaks of names on which no
command is under way, so it says nothing of the steps in between; the invariant
has to. `Types` says which operations a command can still have in front of it and
in which order (`Shape`: a row's patch is followed by its record's, an append is
preceded by the write of its record alone, nothing that copies comes behind a
switch). As long as commands on the name do not overlap, `Ordered` says that there
is one, that each kernel of the name has one row, that the operations left are
about the object that is installed now (`Aimed`), that what is to be appended is
not listed (`NotListed`), that a list being gone through has all the name's rows
(`Covers`), and that a scan without override has others switched off only behind
an active row of the installed kernel (`Gentle`). As long as nothing failed
either, `Orderly` says of every row that it and its record carry the flag of what
is installed (`Done`) or that some operation left to do gives it to them
(`WillDo`), that no operation left gives a wrong one (`Meant`), and that a record
written meanwhile is one of an active kernel (`Writes`, `Written`). A
start of a command that repairs makes `WillDo` true of every row at once, which is
why faults are forgiven there. `Invariance` has one lemma per action; a common
part shows that a step leaves the kernels of other names alone (`OtherNames`).
`ActiveIsInstalled` follows because without a command nothing is left to do, and
`ScansKeepActive` from `Gentle`, since only a patch of a row can switch off.

*Command lines of run* (`RunCommandProofs`, for any kernels, tokens, dimensions
and wrappers; `RunAssumption` says that a list has values, a recurrence an integer
limit). The theorems are about `RunSpec`, the half of `Commands` that runs a line
(the other half keeps `asked` empty and uses RECURSIVE operators). An expansion
(`ExpandDim`, `ExpandCartesian`, `FlushPendingDims`) is a fold over values or
combinations; `IterateExists` shows that the folds have a solution, the values of a
recurrence are a list because a least place exists where it ends
(`ValuesFormList`), and by induction on its length a fold leaves the handles before
the current one alone and gives the current one's wrappers to each copy (`Grown`,
`FlushGrows`). `RunInv` then says where each segment begins (`Rising`), that
before the first --kernel no option of a kernel can be accepted (`Start`, from the
parser's stack), that the parser holds the chain of the open segment, which has
one handle unless it swept an environment variable (`OpenSegment`), and what the
closed segments carry (`ClosedSegments`, `LastSegment`). `WrappersWhereBound` is
the order of the two closings: at a --kernel the wrappers are bound before the
expansion copies them, at the end of the line after it. `NothingReachesBack`
follows from `Grown` and `Rising`.

`TypeCorrect` of the modules and `RowsKeepPlace` are proved only; the runs leave
them out, for what they say follows from the other properties or is weaker.

Caution about the prover: the SMT translation of tlapm 1.4.5 has an axiom that
relates `Len(s)` to `DOMAIN s` for every `s`, sequence or not, which can make an
obligation inconsistent. The modules that use sequences were also checked from
nothing with that axiom restricted to natural lengths of sequences; every proof
goes through there too.

Only model-checked:

* liveness (`LockWaitEnds`, `JobEnds`, `RanksEnd`), which needs fairness and
  `ENABLED` and is outside the prover;
* what recursive definitions and folds compute for every input, which needs
  induction over data: `LoadGivesNearest`, `CopyDeclaresTheSame` (chains of
  environments and templates), `SetReadsBack` (offsets of sections),
  `SweepIsProduct` (the remainders that number the combinations),
  `ExportReadsBack`, `TimesReadBack`, `OptionsCommute`; `FirstBatchSafe` and
  `ScoresFollowDefinition` besides are stated over a module with RECURSIVE
  operators.

## 5. Findings

1. `tpb_k_sync_capsule_task` is documented to block "until the leader sets the
   ready flag". It maps an object as soon as the name exists; between the
   leader's `shm_open` and `ftruncate` the first read raises SIGBUS. An object
   left by a killed run, or used by an overlapping run of the same kernel and
   handle, also hands out another run's capsule.
2. `tpb_raf_record_append_tbatch` writes `dimsizes[0]` at offset 2336 of the
   header, which lies in the note; the field is at 2592. The header of every
   published batch keeps 0 elements.
3. "name must be unique" of `tpb_raf_entry_append_rtenv` holds only when
   creations do not overlap: the check and the append have no common lock, and
   the identifier allocator lets go of its lock before it lists.
4. "字符串内部连续两个或更多逗号时，在每对相邻逗号之间插入空格。" (a blank goes
   between each pair of adjacent commas; `docs/design/tpbcli_task.md`, 950) and
   "meta 文件有两列" (the meta file has two columns; 971). The writer takes commas
   two at a time (`tpbcli-task-csv.c`, 53), so the second and third of three stay
   together and are read as a separator. The names of the dimensions of a header
   are seven, joined by commas, the unused ones empty: every header of four
   dimensions or fewer makes a meta row of more than two cells.
   `ExportReadsBack` is what remains true of texts without three adjacent commas.

### Differences without a run

Met while modelling, each at the definition that has it. Those with a formula in
a module are false of the code, as TLC shows when the formula is added to the
configuration; the checked property next to it is what remains true.

* `OneKeyUpdated` (`KernelRecord`): "Update one metadata key" (comment in
  `rafdb-l3-kernel-patch.c`, 303). Sections behind the changed one are copied from
  positions computed with the new size (396), so they shift. `SetReadsBack`: keys
  set in the order of the sections are read back.
* `WrappersReachAll` (`RunCommand`): "Wrappers before the first --kernel apply to
  every kernel" (`docs/USAGE.md`, 102 and 278). The handles a dimension adds in the
  last segment, or in one that sweeps an environment variable, get no wrappers,
  except the last one.
* `LaterHandlesKeepDefaults` (`RunCommand`): "New handle; does not inherit `--kargs`
  from [0]" (`docs/design/tpbcli_run_argp_EN.md`, 447; 400, 450 and 479 say the
  same, and 446-448 show `ntest` 20 for the first handle and the default 10 for the
  others). The code copies the first handle, with what `--kargs` set, before it
  applies the values (`tpbcli-run.c`, 368 and 486; `tpb_driver_copy_hdl_from`). The
  document is at odds with itself: its line 100 calls `--kargs` "a common base across
  all dim combinations", and that is what `SweepIsProduct` checks of the code.
* `UsedOfAllMembers` (`TaskCommands`): "used <可用数>/<总成员数> members" (used of all
  members; `docs/design/tpbcli_task.md`, 717 and 760). The code counts the members it
  used out of those it could read (`tpbcli-task-get-result.c`, 1993-1998); members
  it could not read have a warning of their own, which `SaysWhatItLeavesOut` checks.
* `CleanKeepsKernel` (`Benchmark`): "DO NOT FREE ANYTHING IN hdl->kernel"
  (`tpb-driver.c`, 1039). Cleaning a handle frees the limits it shares with its
  kernel (1066); a suite that uses one kernel in two batches, as
  `benchmark_stream_4pair_template.yml` does, reads and frees them again.
* `RidsOfOneListing` (`TaskCommands`): rids are checked against one reading of the
  file and looked up in another; an `ls` in between changes their meaning, and a
  shorter listing is indexed past its end.
* `SkippedIsRefused` (`TimeStamp`): "Reject nonexistent DST wall clocks by
  round-trip." (`tpbcli-task-time.c`, 404). `mktime` has already rewritten the
  clock it is compared with, so a skipped time is accepted.

Without a formula, because the state in question is outside the bounds or the
behaviour is not described by a document:

* environments: a snapshot of more than 128 variables makes `rtenv load`, `show`
  and `new -o` fail; a variable whose name is no shell name makes `load` fail after
  part of the exports; a snapshot declares its variables "ignore", so `--kenvs` of
  such a name has no effect; a template loses empty segments, a note without a
  version, quotes and segments beyond 61;
* run: a refused value of a dimension leaves a handle with the old value and the
  run goes on; `--kenvs-dim` with `--kargs-dim` is not a product; global and
  segment wrappers together may exceed `links[32]`;
* benchmark: a failed batch keeps the result 0; scores that refer to each other
  recurse without end;
* task: two exports of one root may take the same directory, and a failing one
  removes the other's file; of a capsule with more than 32 members repeated ones
  are no longer recognised (`SeenMax`; no capsule of this code repeats a member);
  a kill between the two renames leaves a meta file
  without data; when the data file fails the meta file is removed although it was
  complete, where `docs/design/tpbcli_task.md` keeps files that are complete (883
  and 1167; by 1165 the record counts as failed); the
  ranges of the name report are written past their buffer when they are long; an
  environment value above 4095 bytes makes its task unexportable; empty segments
  of a variable are not recorded; a zone offset with seconds is cut to minutes.

## 6. Not modelled, and plan

Left out for good: floating-point rounding, quantiles and unit casts; the
arithmetic of the kernels; timers, performance counters and the kernel module;
the layout of tables and help, log files; compiler calls; YAML text; `dlopen`;
`tpbcli database`, `rtenv show` and `list`, `kernel init` and `list`, which print
what the other modules already describe.

Left out of definitions that are modelled, and used by no property: limits of
arguments of type FLOAT and CHAR and of LIST (`Driver.SetArg` has the integers); the
quantile reducers of a suite; which variables the environment snapshot of a run
takes (its `on_get` rules; `TaskCsv` has what is done with those it takes); the
texts of single header fields.

Abstracted: the bytes of records, except the counts, sizes and offsets named
above; SHA-1 as a source of fresh identifiers; `malloc` failures that return
before any state changes; numbers of suites as fractions, of dimensions as
integers.

Could still be modelled: the chain of duplicate kernels the loader follows, the
kernel registry file, tag normalisation, the command line a launch builds.
