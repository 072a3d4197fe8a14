# Formal models of the DuckDB `system_stats` extension

TLA+ modules, TLC configurations and TLAPS proofs kept beside the code of the
extension. File and line references are to the repository; `q.cpp` files are
the `*_query_function.cpp` of `src/src`.

## The system

The extension adds five table functions to DuckDB. A query that scans one of
them makes DuckDB call its *Bind* (once per prepared query), its global *Init*
(once per execution) and the function itself until it returns an empty chunk.
The functions get their rows from five *readers*, which ask the operating
system. A reader that meets a failed system call logs it to the database of the
query, which it finds through an entry in that database's object cache.

| Component | State it keeps | Operations | What is hard about it | What makes it correct |
|---|---|---|---|---|
| table functions (`q.cpp`) | bind data (unit), global state: `finished`, `current_index`, the rows read | Bind, Init, Func of each | batches at the chunk boundary, repeated and interrupted executions, a host that changes, interleaved queries | rows of one reading, in order, each once; complete when the scan ends; the scan ends |
| memory units (`memory_unit_util.cpp`) | none | `ParseUnit`, `ConvertBytes` | integer division | a value is converted once, in the unit bound |
| load and instance cache (`system_stats_extension.cpp`, `database_instance_cache.cpp`) | a weak pointer in each database's object cache | `LoadInternal`, `GetDbInstance` | order of the load's steps, loads that fail half-way, several databases, lifetimes | a lookup never throws, finds its own database and keeps none alive |
| disk reader (`disk_stats.cpp`) | Linux: the mount table stream, one entry; macOS: libc's array; the rows | the scan loop of each platform | shared static buffer of `getmntent`, shared array of `getmntinfo`, mounts that come, go and cover each other, failing `statvfs`, exceptions | a row describes one mount; every mount that stays is reported once; the stream is closed |
| network reader (`network_stats.cpp`) | Linux: address list, row; macOS: two snapshots, a buffer | the scan loop and two file readers; two `sysctl`s and a join | nine reads at nine moments, interfaces that vanish, a list that outgrows its buffer | one row per address (Linux) or interface (macOS); counters from within the scan, consistent with each other; no leak |
| OS reader (`os_info.cpp`) | handles, counters, `struct utsname`, a line | Linux: one file, two walks of /proc, the parsing of a line; macOS: three questions about a process table; on both: name, version, uptime | processes fork, exit, reuse pids and call themselves anything; many `continue`s past open handles; sizes asked before the data; refused questions | counts between what was there all along and what was there at all; handles closed; no line misread; no column lost to another's failure |
| CPU reader (`cpu_stats.cpp`) | the record being filled, a count and four ARM strings; on macOS variables that questions share | one loop over lines; one question per field | several forms of the file, package ids with gaps, processors that come and go; refused questions | counts between what was online all along and what was online at all; a name of one processor; no answer in another's column |
| memory reader (`memory_stats.cpp`) | the record being filled | Linux: one loop over lines; macOS: three questions | lines that look alike, an early exit, unsigned subtraction, values of three moments | used and free add up to the total; each field is that of its line |
| string utilities (`string_utils.cpp`) | none | `TrimString`, `RemoveQuotes` | empty and one-character texts | nothing but blanks and one pair of quotes goes |
| scope guard (`scope_guard.hpp`) | the functions registered | constructor, `+=`, destructor | nesting, exceptions, allocations that fail | each runs once, later ones first |

The table functions own nothing in common: the only state two queries share is
the host, the object cache of their database and, by way of libc, the static
buffer of `getmntent`.

## The modules

`TableFunctions` composes the functions with DuckDB's executor and the changing
host, and takes what a reader returns as one value (`Samples`). The modules of
the readers are under it, where reading is not one moment; `InstanceCache` is
the path a reader takes when a call fails. `TableScan` and `Survey` are
abstract specifications: the first is what a table function promises a query
and is implemented by `TableFunctions`; the second is what a count of things
that come and go can promise (no fewer than were there all along, no more than
were there at all) and is implemented by `OSInfo` for processes and by
`CpuInfo` for processors, each with its own refinement mapping. `OSDescription`
uses `StringUtils` for the name it reads from a file. `NetworkHost` is the host
both network readers run on.

| Module | Models | Variables and the code they stand for |
|---|---|---|
| `MemoryUnits` | `ParseUnit`, `ConvertBytes` | operators only; 1000 and 1024 are the constants `Kilo` and `Kibi` |
| `TableScan` | nothing in the code: the abstract promise of a table function | `status`, `reading`, `delivered` of a scan |
| `TableFunctions` | all Bind, Init and Func handlers, and the executor (external) | `bind` = `Sys...BindData`; `state` = `Sys...Data` (`finished`, `current_index`, `disks`/`networks`/`os_info` as `rows`); `output` = the `DataChunk`; `phase`, `result` = the executor; `seen` = history |
| `InstanceCache` | `LoadInternal`, `DatabaseInstanceCacheEntry`, `GetDbInstance` | `load` = steps done of `LoadInternal`; `cache` = `db_weak` in each object cache; `registered` = the catalog; `call`, `found`, `logger` = a reader's `GetDbInstance(context)` and its local `db`; `handle`, `connected` = other owners of the database |
| `DiskInfo` | `GetDiskInfoLinux` (`StepLinux`), `GetDiskInfoMacOS` (`StepMacOS`) | `setting` = which of the `Settings` of the instance this behaviour has: platform, scans, mount table, changes; `buffer`, `dangling` = glibc's static buffer or libc's array on macOS and who still points into a freed one; `pc` = the statement; `ent` = `fs_type`, `mount_point`, `buf`; `at` = the loop's position; `stream`, `past`, `fp` = the buffered mount table and how far into the kernel's it is; `table`, `bfree` = the kernel |
| `NetworkHost` | nothing in the code: interfaces, packets, `getifaddrs` | `present`, `counter` = the kernel |
| `NetworkInfo` | `GetNetworkInfoLinux`, `ReadSpeedMbps`, `ReadSysNetValue` | `ifaddr`, `ifa`, `info`, `networks` = the locals; `pc` names the file read next |
| `NetworkInfoMac` | `GetNetworkInfoMacOS` | `len`, `buf`, `ifaddr`, the position in `buf`, `networks` = the locals; `held` = what `SCOPE_EXIT` has still to free |
| `Survey` | nothing in the code: the abstract promise of a count | `present`, `status`, `stable`, `seen`, `count` |
| `OSInfo` | `ReadHandleCount`, `ReadHandleCountFallback`, `ReadProcessStatus` and how `GetOSInfoLinux` uses them | `walk`, `stream`, `at`, `ent` = the two `readdir` loops; `open` = handles held; `status`, `info` = the structs; `procs` = the host |
| `StatLine` | the parsing of one `/proc/<pid>/stat` in `ReadProcessStatus` | `comm`, `state`, `threads` = the process; `line` = `line_buf`; `counted` = what is added to the counts |
| `OSDescription` | `ReadOSName` and the questions of `GetOSInfoLinux` and `GetOSInfoMacOS` about the host itself | `uts` = `struct utsname`; `info` = `struct OSInfo`; `file` = `/etc/os-release`; `refused` = history |
| `OSInfoMac` | `GetThreadCountMacOS`, `GetHandleCountMacOS` and the process count of `GetOSInfoMacOS` | `len`, `buf`, `idx`, `total`, `held` = the locals of whichever of the two functions runs (`sum`); `procs` = the host; `stable` = history |
| `CpuInfo` | the pass of `GetCPUInfoLinux` over `/proc/cpuinfo` | `info` = `struct CPUInfo`; `local` = `processor_count` and the ARM strings; `lines`, `at` = what is left of the record at hand (`Keys`) and the stream's place; `machine`, `online` = the host |
| `CpuFields` | `ReadCPUCacheSize` and the architecture on Linux, `GetCPUInfoMacOS` and `GetByteOrderMacOS` | `val` = `int_val`, `uint64_val`, `str_val`; `info` = `struct CPUInfo`; `step` = the question; `machine` = the host |
| `MemoryInfo` | `GetMemoryInfoLinux` (`NextLinux`), `GetMemoryInfoMacOS` (`NextMacOS`) | `text` = what the first `getline` has buffered of the file; `printed` = the lines got; `parsed_count`, `info` = the locals; `mem` = the kernel |
| `StringUtils` | `TrimString`, `RemoveQuotes` | operators only |
| `ScopeGuard` | `ScopeGuard`, `SCOPE_EXIT` and C++'s scopes and unwinding | `scopes` = the guards of each open scope with the functions each calls; `exit` = how control leaves; `functions`, `ran` = history |
| `TableFunctions_proofs`, `DiskInfo_proofs`, `OSInfo_proofs`, `CpuInfo_proofs` | theorems of the module named | |
| `Support_proofs` | theorems of `InstanceCache` and of `MCHelpers`: what everything else is built on | |
| `NetworkInfo_proofs`, `Readers_proofs` | theorems of `MCNetworkInfo` and `MCReaders`, either reader or platform, for any values of their constants | |
| `OperatorLemmas` | lemmas about what the models' operators are made of: least and greatest elements, enumerations and sums of finite sets, joined sequences, trimmed and quoted texts | |
| `MCTableFunctions`, `MCDiskInfo` | instances for TLC | |
| `MCNetworkInfo` | either network reader on one host | `platform` chooses; what both readers have is shared, what the other one has is constant |
| `MCReaders` | `MemoryInfo`, `CpuFields`, `OSDescription` or `OSInfoMac` on one host | `reader` and `platform` choose; `host` is what the reader asks |
| `MCHelpers` | `StatLine`, `StringUtils` (whose properties are here) or `ScopeGuard` | `helper` chooses; `text` is what is given to `StringUtils` |
| `MCSupport` | `InstanceCache` or one of `MCHelpers`: what the readers stand on | as `MCHelpers`, with a fourth `helper` |

One action is one handler in `TableFunctions` (they run to their end under one
executor thread) and one system call or one read of shared state in the readers
and in `InstanceCache`. Definitions whose name starts a comment "Mutant" are
mistakes a change of the code could make; no specification uses them, and each
breaks one property.

Abstractions. A row of `TableFunctions` is one number and its conversion is
that of its unit columns; column names, types and texts are left out. Paths are
sequences of components. In `OSInfo` a stat line is read whole or the process
is left out (`StatLine` is about what is in the line), every `continue` past an
open file is one exit, as they share its `SCOPE_EXIT`, and the inner loop over
one `fd` directory is one step. In `CpuInfo` two of the four ARM strings stand
for all, the lines the code ignores for one, and a record is read from the
kernel as a whole. In `MemoryInfo` a key is the words it is made of, which is
all the prefix test can tell apart, and the file is one moment's, since the
kernel makes its text at the first read. In `CpuFields` a size is a number, not
its digits; the byte order on Linux is a constant of the build and is left out.
Any file may be refused, be it gone or there: no reader distinguishes a missing
file from a permission, a hidden directory or a process without descriptors
left. Which files were refused is recorded where a property excepts them
(`refused` of a row of `NetworkInfo` and of `OSDescription`, `skipped` of
`OSInfo`). An exception of a reader is an action `Throw` at the statements that
log; exceptions by other allocations are modelled in `DiskInfo`, which alone
has no guard, and from outside (`GetInfoThrows`).

## The runs

| Run | What it shows | Bounds and why they are enough |
|---|---|---|
| `table_functions` | one query, five functions, any sequence of executions, interruptions and failures over a changing host: row order, completeness, chunk capacity, termination, refinement of `TableScan` | chunks of 2 rows and readings of 0, 1, 2, 4 and 5 rows: empty, less than, exactly one and two chunks, and a remainder; one decimal, one binary and one invalid unit |
| `disk_info` | either platform: that a row is one mount's, which mounts have one, that the stream is left open only by an exception, that a scan ends; with two scans at once, that the space of a row still is its mount point's | one scan: nine entries, one of every kind the code distinguishes, two of which share a directory and one inside it; two changes of the host, enough to cover or unmount and to restore. Two scans: two entries, one change. Blocks are read two at a time, so a buffered entry can be stale; 16 for 2^64, so that one product wraps |
| `disk_info_race` (violation) | with two scans a row mixes two mounts | no change of the host needed on Linux, one on macOS |
| `disk_info_fuse` (violation) | space is not in bytes when `f_bsize` is not `f_frsize` | two entries |
| `network_info` | Linux: one row per address, each counter from within the scan or 0 for a refused file, bytes that its packets can carry; macOS: one row for each interface with an address in both snapshots, counters of one moment, the buffer read only where the kernel wrote it, both blocks freed on every way out | two interfaces, one with two IPv4 addresses and one with none; two events anywhere in the scan, a refused file of an interface that is there being one of them, packets of one byte and of the MTU; any statement that logs may throw; spare room smaller than an interface's messages, so that the list can outgrow it |
| `network_info_speed` (violation) | an unknown speed is reported as 2^w - 1 | one scan |
| `os_info` | process, thread and handle counts, handles closed, the call returns, refinement of `Survey` | three pids, one of them this process, pids before and after it, two states (any process may become a zombie), one or two threads; any process may be left out, also this one; the number of host events is *not* bounded |
| `cpu_info` | logical and physical counts and the name, for four forms of the file; refinement of `Survey` | three processors, package ids 0, 1 and 3 in any assignment (shared, in order, with gaps), two kinds of processors; host events are not bounded |
| `cpu_info_unique` (violation) | the physical count is not the number of packages | as `cpu_info` |
| `cpu_info_no_package` (violation) | a host whose records have a clock line and no package id has no physical processor | as `cpu_info` |
| `readers` | memory: used and free add up, each field is from its own line; fields of the processor: each its own answer or its default; texts: none from an unfilled struct, one refusal costs no other column, the name is the distribution's; macOS counts: sums over the processes that stayed, whichever others fail, the buffer read only where the kernel wrote it and freed | lines of `/proc/meminfo` in any order, with `SwapCached` and another line printed or not, memory changing without bound, 64 for 2^64; two sizes for each cache; every subset of refusals; files with and without quotes, blanks and the line; three pids and room for one more, so that the table can outgrow it, processes coming and going without bound |
| `support` | the cache: lookups never throw, log to their own database, leak nothing, loads that fail half-way are repeated; the helpers: no name makes a line pass for another record, blanks, quotes and everything else of a text, the order of the guards, and each function once | two databases, two connections: enough for every pair of owners; names of up to five characters from those the parser distinguishes, records of a state and two numbers: at six characters a name could hold a record, as in the code it could at 36, where the kernel stops at 15; every text of up to five characters; four functions, three scopes: guards after, before and inside each other |

What several queries do to each other in `TableFunctions` has no run: the
theorems hold for any number of them. Readers with no state in common are
checked by one run (`network_info`, `readers`, `support`), whose first states
choose one of them; each property of such a run names the reader it is about.
`Bookkeeping` and `EntryBeforeFunctions` are strengthenings the proofs need;
the `TypeOK` of `InstanceCache` and of the readers say what their variables
are: those of `InstanceCache` and of `DiskInfo` are proved, and the other
inductive invariants have the types their proofs need. No run is spent on them.

Deadlock checking is off in `os_info`, `cpu_info`, `cpu_info_unique`,
`cpu_info_no_package`, `readers` and `support`: a process that has closed its
databases has nothing left to do, the OS model stops once the call returned and
every process is a zombie, the CPU model once the call returned on a host of
one processor, the others when the call has returned, the text has its length,
or the program has ended. Everywhere else every reachable state has a step.

### What the violations say of the code

* `disk_stats.cpp:75` reads three fields through the pointer `getmntent`
  returns. That struct is static; DuckDB runs queries of different connections
  at once (and two scans of one query), so a row can name the device or type of
  another mount. `getmntent_r` would not. `disk_stats.cpp:118` does the same
  with the array of `getmntinfo`, which a second call may move;
  `getmntinfo_r_np` would not.
* `disk_stats.cpp:92` multiplies by `f_bsize`; POSIX counts `f_blocks` in
  `f_frsize`. `docs/README.md:71` promises bytes. On Linux the two mostly agree.
* `cpu_stats.cpp:134` takes the greatest `physical id` plus one; the comment
  above it and `docs/README.md:55` promise a number of packages.
* `cpu_stats.cpp:172` takes each processor for a physical one only where no clock
  line was found. Where records have clock lines and no `physical id` (kernels
  built for one processor) nothing counts them, and `physical_processor` is 0;
  `test/sql/system_stats_cpu.test:26` expects more than 0. `SomeProcessor` says
  that this is the only such form, and that logical processors are always
  reported.
* `network_stats.cpp:67` extracts `-1` into a `uint64_t`; `docs/README.md:111`
  promises 0 when the speed is not available.

Also met, in the models but with no run of their own:

* `os_info.cpp:424` takes the size the kernel asks for as that of its table;
  it is rounded up (`TableSize` of `OSInfoMac`). `docs/README.md:128` promises
  the number of processes.
* `os_info.cpp:329` fetches the table once; where it outgrew the buffer the
  answer is 0 threads (`Fetch`), which `test/sql/system_stats_os.test:56`
  excludes.
* `os_info.cpp:167` reads up to a line end, which may be in the process's name;
  `docs/README.md:129` promises all threads. `CountedRight` says that no other
  process is left out.
* `memory_stats.cpp:137` returns without `cached_memory`, which
  `docs/README.md:33` promises on every platform.
* `scope_guard.hpp:45` empties the guard before it allocates, so that an
  exception there loses the registered functions and the destructor then calls
  an empty function, which ends the program (`Add`, `Destroy` of `ScopeGuard`).
  The readers register one function each and never add one.

And, outside of the models or by their side: the mount point filter
(`disk_stats.cpp:34`) is applied with `regex_match`, so that it matches `/dev`
but not `/dev/shm`, whatever the `($|/)` at its end suggests.
`IgnoreMountPoint` is modelled as it behaves. On macOS only the first IPv4
address of an interface is reported, on Linux there is one row for each; the
handle count takes for each process the size the kernel asks for, which has
room for handles to come; and `GetCPUInfoMacOS` computes a `count` of
processors (`cpu_stats.cpp:207-225`) that nothing uses.

## Fairness

* `TableFunctions`: weak fairness of the calls and of the executor's taking of
  chunks. DuckDB's executor calls a source again and again until it is
  exhausted; nothing else is fair: hosts need not change, clients need not ask.
* `DiskInfo`, `OSInfo`: weak fairness of the step of each scan, which is always
  enabled until it is over: a running thread is scheduled. The host is not fair.
* Elsewhere no fairness is assumed: the properties are safety.

## What is proved

For every set of queries, readings, units and every chunk size
(`TableFunctions_proofs`, from `ScaleAssumption` and `TableAssumption`):
`TypeOK`, `Bookkeeping`, `RowsInOrder`, `ChunkFits`, `CompleteWhenDone`, and
that `Spec` implements `TableScan`. None but `TypeOK` is inductive alone: that
a call continues where the last stopped needs the cursor within the rows
(`Bookkeeping`), that a finished one-row function has a reading of one row
needs the same, and that the concatenation of result and chunk is the prefix
needs both. The inductive invariant `IInv` is `TypeOK`, `Bookkeeping`,
`RowsInOrder` and `ChunkFits`; the proof goes action by action, and lemmas
about `SubSeq`, `\o` and `View` carry the sequence reasoning. The refinement
proof maps each step to a step of `TableScan` or a stutter under that
invariant. `ConvertedPartsFit` is about the units alone: used and free space,
each rounded down by itself, never exceed the converted total and miss it by at
most one unit.

For every set of databases and connections (`Support_proofs`, from
`NoneAssumption`): `TypeOK`, `EntryBeforeFunctions`, `LookupNeverThrows`,
`LogsToOwnDatabase`, `NoLeak`, `LoadedIsComplete`. `LookupNeverThrows` is not
inductive: it holds because a registered function implies a stored entry of the
same database, and a reader implies an open context. `EntryBeforeFunctions`
says that, and with `TypeOK` it is the inductive invariant.

For every mount table, every number of scans, both platforms and any width of
`Word` (`DiskInfo_proofs`, from `DiskAssumption`): `TypeOK`,
`StreamLeaksOnlyIfThrown`, `SpaceOfOwnMountPoint`, `RowsDescribeOneMount` and
`StableMountsReported`. The first three are of any number of scans at once. The
space of a row is right under the race because `statvfs` is asked with
`mount_point`, a copy made of the static buffer, and `RowOf` looks for the
mount of that directory: the invariant `SpaceKept` says that `buf` is of the
file system on `mount_point` while that stays. That a row is one mount's
(`EntryKept`: the locals are those of the entry the pointer still leads to)
holds of scans that no other overlaps, as the property says. A mount that stays is
reported once because every entry is either due or has exactly one row
(`Served`), whatever the table does under the stream: `OnceEach` and `ToCome`
say where the entries still to come are, half in the buffered stream and half
in a table whose positions shift. That theorem assumes `EntriesDiffer`: no two
mounts have name, directory and type in common, since rows of such could not
be told apart. The root of the host stays mounted (`DiskAssumption`, `Unmount`),
so that every path leads somewhere.

For any pids, threads and sizes of the directory stream (`OSInfo_proofs`, from
`OSAssumption`): `HandlesClosed`, `HandlesCounted`,
`ThreadsOfStableCounted`, and that the second walk implements `Survey`. The
inductive invariant has the handles open at each statement (`HandlesHeld`), the
order of the stream (`StreamInOrder`), where this process is while the fallback
looks for it (`SelfAhead`), and that the counts are those of a set of processes
seen, which has every one that stayed and is not ahead (`SurveyKept`).
`ThreadsOfStableCounted` is about `stable \ skipped`, the processes that stayed
and whose own record was read: a file that cannot be opened or a line that is no
record leaves its process out, as the code does, and what is proved is that it
leaves out no other. `HandlesCounted` needs this process's own directory to have
been opened, for then the fallback meets the handles it holds.

For any processors, packages and models (`CpuInfo_proofs`, from `CpuAssumption`):
`PhysicalCpusCoverPackages`, `SomeProcessor`, `NameOfOneCpu`, and that the pass
implements `Survey`. The invariant ties every local to the set of processors
whose record has been given (`Gathered`), which is not a variable of the model:
the proof carries it as a witness from line to line. `SomeProcessor` needs one
given processor, which processor 0 always is.

For any interfaces, traffic and packet size (`NetworkInfo_proofs`, from
`NetworkAssumption`: finitely many interfaces, no two of one name, and
`MCAssumption`): `CountersWithinScan`, `BytesFitPackets`, `OneRowEach` and
`MemoryHeld` of either reader. `BytesFitPackets` is the reason for the order
the statistics are read in: the invariant (`Filled`) compares the bytes read
with the packets of *now* until the packets have been read, which the host can
only increase; where they were refused nothing is left to compare with. A
refused column of `CountersWithinScan` is 0, and no other column is touched.
`OneRowEach` counts: the rows so far of an interface are as many as its IPv4
addresses in the part of the list behind the loop (Linux), or as its link
messages, of which there is one (macOS); lemmas about `FlattenSeq` carry the
counts of each interface to the list of all.

For any sizes of memory, order of lines, word width, caches, processes and
texts (`Readers_proofs`, from `ReadersAssumption`): `UsedAndFreeAddUp`,
`FieldsOfOneText`, `MemoryHeld`, `SumCoversStable` and `EachRefusalItsOwn`. The
invariants: the fields filled are those of the lines got, and as many as are
counted (`LinesGot`), so that the early exit leaves none out; on macOS the
memory has the size the first question was told (`QuestionsAsked`); the columns
asked for have what they are to have, whatever the shared variable an answer
was left in held before (`FieldsKept`); a text is empty only if the last
question that could have given it was refused (`TextsKept`); what the loop
reads of the table is what the kernel has written (`CountsKept`).
`DescriptionAssumption` says that lines are texts without the mark the model
uses for what no `uname` has written, and that the name is what the file gives
(`IsNamed`, `Gives`): after the first `PRETTY_NAME=`, between quotes, or as it is
if neither a quote nor a blank is at its ends.

For those texts of any length also `NameOfTheFile`. The invariant is that from
the answer about the file to the end the name is the file's, or empty as long as
`uname` has still to be asked again (`NameRead`); the lemma `ValueOfName` ties
what `ReadOSName` makes of the line to what the file gives, from the lemmas
about the string utilities.

For texts of any length (`Support_proofs`, `OperatorLemmas`): `TrimsOnlyBlanks`
and `QuotesInPairs`. The lemmas go from what a `CHOOSE` of a first and last solid
character returns (`SolidPart`, `TrimIs`) to what padding a text with blanks
(`TrimPadded`) and putting it between quotes (`Quoted`, `Unquoted`) change.

For any number of scopes, guards and functions, and any way out
(`Support_proofs`): `LaterRunsFirst` and `RunOnceAtExit`. Both are about what has
run, and what runs next is one of the functions that wait: the invariant
(`GuardInv`) therefore ties the guards open now to the history. What a guard is
to call was registered with it and has not run (`CallsWait`), a guard's calls
fall (`CallsFall`), inner scopes hold later guards (`GuardsInOrder`), what has
not run is waiting (`NoneForgotten`), and what waits is to run after whatever ran
while it waited (`WaitInOrder`).

For any comm of the characters of `MCChars`, any states and any number of
fields that a comm is too short to hold (`Support_proofs`, from
`StatAssumption`): `CountedRight`. Without a line end in the comm the line is
the kernel's whole text, the last parenthesis of which is the one behind the
comm (`AfterCommIs`), and what follows the state gives one number more than
there are fields, the last field the threads (`NumbersOfRecord`). With one, the
line ends within the comm; a number takes a digit and something behind it, so
that what is left of the line behind any parenthesis has too few
(`NumbersAreFew`, `CountedCut`). The numbers are a fold over the characters:
`NumbersStepwise` says what it holds after each.

Induction in these proofs is over a set of numbers (`NatSetInduction` of
`OperatorLemmas`), as the recursive functions behind `FlattenSeq`, the folds
over a text and the sums over sets are.

Model-checked only: the liveness properties `ScanEnds` and `CallReturns`, which
are out of the prover's reach as everything about fairness is. The five runs that
expect a violation are counterexamples, which need no proof.

## Plan

1. Done: every component that runs is modelled, on both platforms. Every safety
   property that a passing run checks has its theorem;
   `TableFunctions` implements `TableScan`, `OSInfo` and `CpuInfo` implement
   `Survey`, each proved.
2. Next, when the code moves: a count of packages (`UniquePhysicalCpus`,
   `PhysicalProcessorReported`) or a `f_frsize` (`SpaceInBytes`) would turn a run that expects a violation into one
   that passes, whose property then wants its theorem.

## Not modelled

Build and packaging files, which do nothing at run time; platforms for which
the readers throw `NotImplementedException`; texts of messages and column names
and types, which no property is about; the digits of a cache size
(`ReadCPUCacheSize`), for the same reason.
