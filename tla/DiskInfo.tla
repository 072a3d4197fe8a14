------------------------------ MODULE DiskInfo ------------------------------
(***************************************************************************)
(* GetDiskInfoLinux and GetDiskInfoMacOS (disk_stats.cpp): a scan of the   *)
(* mount table, entry by entry, asking the kernel for each mount point's   *)
(* space, while file systems are mounted, unmounted and written to, and    *)
(* possibly while other threads of the process run scans of their own.     *)
(*                                                                         *)
(* Both take their entries from a static buffer of the C library that all  *)
(* scans share: getmntent's one struct mntent, or getmntinfo's array of    *)
(* struct statfs, overwritten in place by the next call and freed when the *)
(* table has outgrown it.  A torn string is not modelled: a field read     *)
(* under a race is one entry's or another's.                               *)
(***************************************************************************)
EXTENDS Naturals, Sequences, FiniteSets, SequencesExt

CONSTANTS
  Settings,   \* what is looked at, by name: the platform, the calls of
              \* GetDiskInfo..., what can be mounted, the table at the start,
              \* and a bound of the model: how often the host changes
  ReadAhead,  \* entries one read of the mount table brings into the stream
  Word        \* 2^64 in the code

Scans == UNION {Settings[s].scans : s \in DOMAIN Settings}
Mounts == UNION {Settings[s].mounts : s \in DOMAIN Settings}

\* mnt_fsname, mnt_type, mnt_dir (a path is the sequence of its components),
\* whether statvfs may access it, and what struct statvfs says of it.
ASSUME DiskAssumption ==
  /\ \A m \in Mounts :
       /\ DOMAIN m = {"fsname", "type", "dir", "reachable",
                      "blocks", "bsize", "frsize", "reserved"}
       /\ m.dir \in Seq(STRING) /\ m.reachable \in BOOLEAN
       /\ {m.blocks, m.bsize, m.frsize, m.reserved} \subseteq Nat
  /\ \A s \in Range(Settings) :
       /\ s.platform \in {"Linux", "macOS"} /\ IsFiniteSet(s.scans)
       /\ s.table \in Seq(s.mounts) /\ IsInjective(s.table) /\ s.maxChanges \in Nat
       /\ \E m \in Range(s.table) : m.dir = <<>>
  /\ ReadAhead \in Nat \ {0} /\ Word \in Nat \ {0}

VARIABLES
  setting,  \* which of the settings this is
  table,    \* the kernel's mount table: a sequence, later mounts last
  bfree,    \* bfree[m]: free blocks of the file system m
  changes,  \* how often the host has changed
  buffer,   \* the static buffer: one entry on Linux, an array on macOS
  dangling, \* macOS: the scans whose array another call has freed
  pc,       \* pc[t]: the statement scan t is at
  stream,   \* stream[t]: Linux: entries read from the kernel, not yet returned
  past,     \* past[t]: Linux: how many entries of the table the stream is past
  at,       \* at[t]: the entry of the buffer scan t is at, and how many it expects
  fp,       \* the scans that hold an open stream
  ent,      \* ent[t]: the locals fs_type, mount_point and buf of scan t
  disks,    \* disks[t]: the rows found so far
  stable    \* history: entries mounted and not covered since scan t began

hostVars == <<setting, table, bfree, changes>>
sourceVars == <<buffer, dangling, stream, past, at, fp>>
vars == <<hostVars, sourceVars, pc, ent, disks, stable>>

NoEntry == [fsname |-> "none"]
NoBuf == [of |-> NoEntry, total |-> 0, used |-> 0, free |-> 0]

\* A later mount on a directory covers what is mounted there and below.
Covered(tbl, i) == \E j \in i + 1..Len(tbl) : IsPrefix(tbl[j].dir, tbl[i].dir)

\* The entries a path lookup of their mount point leads to.
Visible(tbl) == {tbl[i] : i \in {j \in 1..Len(tbl) : ~Covered(tbl, j)}}

Init ==
  /\ setting \in DOMAIN Settings /\ table = Settings[setting].table /\ changes = 0
  /\ bfree \in {[m \in Mounts |-> 0], [m \in Mounts |-> m.blocks]}
  /\ buffer = <<>> /\ dangling = {} /\ fp = {}
  /\ pc = [t \in Scans |-> "start"]
  /\ stream = [t \in Scans |-> <<>>] /\ past = [t \in Scans |-> 0]
  /\ at = [t \in Scans |-> [idx |-> 1, count |-> 0]]
  /\ ent = [t \in Scans |-> [fs_type |-> "", mount_point |-> <<>>, buf |-> NoBuf]]
  /\ disks = [t \in Scans |-> <<>>] /\ stable = [t \in Scans |-> {}]
-----------------------------------------------------------------------------
(* The host (external). *)

\* The entry at i comes or goes: a stream keeps its place in the table, and
\* what is covered or gone is no longer stable for the scans under way.
TableChanges(i) ==
  /\ changes < Settings[setting].maxChanges /\ changes' = changes + 1
  /\ past' = [t \in Scans |-> IF i <= past[t] THEN past[t] - 1 ELSE past[t]]
  /\ stable' = [t \in Scans |-> stable[t] \cap Visible(table')]
  /\ UNCHANGED <<setting, bfree, buffer, dangling, stream, at, fp, pc, ent, disks>>

Mount ==
  \E m \in Settings[setting].mounts \ Range(table) :
    table' = Append(table, m) /\ TableChanges(Len(table'))

\* The root stays, a covered mount cannot be named, and one with a mount
\* inside it is busy.
Unmount ==
  \E i \in 1..Len(table) :
    /\ ~Covered(table, i) /\ table[i].dir # <<>>
    /\ ~\E n \in Visible(table) : IsStrictPrefix(table[i].dir, n.dir)
    /\ table' = RemoveAt(table, i) /\ TableChanges(i)

Write ==
  /\ changes < Settings[setting].maxChanges /\ changes' = changes + 1
  /\ \E m \in Range(table) : \E n \in {0, m.blocks} : bfree' = [bfree EXCEPT ![m] = n]
  /\ UNCHANGED <<setting, table, sourceVars, pc, ent, disks, stable>>

\* The file system path is on: the visible mount with the longest directory
\* that path begins with.
Resolve(path) ==
  LET on == {m \in Visible(table) : IsPrefix(m.dir, path)}
  IN  CHOOSE m \in on : \A n \in on : Len(n.dir) <= Len(m.dir)
-----------------------------------------------------------------------------
(* The filters: both regular expressions must match the whole string, so   *)
(* of the mount points under /dev, /proc, ... only those themselves match. *)

IgnoredFileSystemTypes ==
  {"autofs", "binfmt_misc", "bpf", "cgroup", "cgroup2", "configfs", "debugfs",
   "devpts", "devtmpfs", "fusectl", "hugetlbfs", "iso9660", "mqueue", "nsfs",
   "overlay", "proc", "procfs", "pstore", "rpc_pipefs", "securityfs",
   "selinuxfs", "squashfs", "sysfs", "tracefs"}

IgnoreFileSystemType(fs_type) == fs_type \in IgnoredFileSystemTypes

\* A path is the sequence of its components; "/" is the empty one.
IgnoreMountPoint(mount_point) ==
  \/ mount_point \in {<<"dev">>, <<"proc">>, <<"sys">>, <<"run">>, <<"snap">>}
  \/ IsStrictPrefix(<<"var", "lib", "docker">>, mount_point)
-----------------------------------------------------------------------------
(* Where the entries come from. *)

Goto(t, from, to) == pc[t] = from /\ pc' = [pc EXCEPT ![t] = to]

Begins(t) == stable' = [stable EXCEPT ![t] = Visible(table)]

\* Linux: setmntent of /etc/mtab, or of /proc/mounts; without either, no rows.
Open(t) ==
  /\ \/ Goto(t, "start", "next") /\ fp' = fp \cup {t}
     \/ Goto(t, "start", "failed") /\ UNCHANGED fp
  /\ Begins(t)
  /\ UNCHANGED <<hostVars, buffer, dangling, stream, past, at, ent, disks>>

\* What the stream holds (external): when it is empty, one read of the file
\* brings the next entries, in table order.
Ahead(t, read) ==
  IF stream[t] # <<>> THEN stream[t] ELSE SubSeq(table, past[t] + 1, read)

\* The entries of the table the stream is past then.
Read(t) ==
  IF stream[t] # <<>> THEN past[t]
  ELSE IF past[t] + ReadAhead < Len(table) THEN past[t] + ReadAhead ELSE Len(table)

\* Linux: getmntent fills the static struct; at the end, endmntent.
GetMntEnt(t) ==
  /\ pc[t] = "next"
  /\ \E read \in {Read(t)} : \E ahead \in {Ahead(t, read)} :
       IF ahead = <<>>
       THEN /\ pc' = [pc EXCEPT ![t] = "done"] /\ fp' = fp \ {t}
            /\ UNCHANGED <<buffer, stream, past>>
       ELSE /\ pc' = [pc EXCEPT ![t] = "mnt_type"]
            /\ buffer' = <<Head(ahead)>>
            /\ stream' = [stream EXCEPT ![t] = Tail(ahead)]
            /\ past' = [past EXCEPT ![t] = read]
            /\ UNCHANGED fp
  /\ UNCHANGED <<hostVars, dangling, at, ent, disks, stable>>

\* macOS (external): getmntinfo copies the table into its array; one that is
\* not larger than the table is freed for a larger one.
Refilled ==
  IF Len(table) < Len(buffer)
  THEN [i \in DOMAIN buffer |-> IF i <= Len(table) THEN table[i] ELSE buffer[i]]
  ELSE Append(table, NoEntry)

GetMntInfo(t) ==
  /\ \/ /\ Goto(t, "start", "next")
        /\ buffer' = Refilled
        /\ dangling' = IF Len(table) < Len(buffer) THEN dangling
                       ELSE dangling \cup {s \in Scans : at[s].count > 0}
        /\ at' = [at EXCEPT ![t] = [idx |-> 0, count |-> Len(table)]]
     \/ Goto(t, "start", "failed") /\ UNCHANGED <<buffer, dangling, at>>
  /\ Begins(t)
  /\ UNCHANGED <<hostVars, stream, past, fp, ent, disks>>

\* Mutant: idx < count - 1.
MoreButLast(t) == at[t].idx + 1 < at[t].count

More(t) == at[t].idx < at[t].count

\* macOS: the head of the for loop.
NextIndex(t) ==
  /\ Goto(t, "next", IF More(t) THEN "mnt_type" ELSE "done")
  /\ at' = IF More(t) THEN [at EXCEPT ![t].idx = @ + 1] ELSE at
  /\ UNCHANGED <<hostVars, buffer, dangling, stream, past, fp, ent, disks, stable>>

\* What a read through the entry pointer may find: in a freed array, anything.
Look(t) == IF t \in dangling THEN Settings[setting].mounts ELSE {buffer[at[t].idx]}
-----------------------------------------------------------------------------
(* The body of the loop, the same on both. *)

ReadType(t) ==
  /\ Goto(t, "mnt_type", "mnt_dir")
  /\ \E m \in Look(t) : ent' = [ent EXCEPT ![t].fs_type = m.type]
  /\ UNCHANGED <<hostVars, sourceVars, disks, stable>>

\* Mutant: continue without fetching the next entry.
AfterFilterStuck(ignored) == IF ignored THEN "mnt_type" ELSE "statvfs"

AfterFilter(ignored) == IF ignored THEN "next" ELSE "statvfs"

ReadDir(t) ==
  /\ pc[t] = "mnt_dir"
  /\ \E m \in Look(t) :
       /\ Goto(t, "mnt_dir", AfterFilter(\/ IgnoreFileSystemType(ent[t].fs_type)
                                        \/ IgnoreMountPoint(m.dir)))
       /\ ent' = [ent EXCEPT ![t].mount_point = m.dir]
  /\ UNCHANGED <<hostVars, sourceVars, disks, stable>>

\* The three space columns, in unsigned 64-bit arithmetic, from one statvfs.
\* The blocks are counted in f_bsize units, whatever f_frsize is.
Space(m) ==
  LET avail == IF bfree[m] > m.reserved THEN bfree[m] - m.reserved ELSE 0 IN
  [of    |-> m,
   total |-> (m.blocks * m.bsize) % Word,
   used  |-> (((m.blocks + Word - bfree[m]) % Word) * m.bsize) % Word,
   free  |-> (avail * m.bsize) % Word]

\* Mutant: statvfs(ent->mnt_dir) instead of the copy.
AskedOfEntry(t) == buffer[at[t].idx].dir

Asked(t) == ent[t].mount_point

\* Mutants: a failed statvfs returns at once; it is not noticed and buf still
\* holds the answer before.
AfterFailureReturn == "done"
AfterFailureNone == "mnt_fsname"

AfterFailure == "next"

Reportable(buf) == buf.total # 0

\* A failed statvfs and an empty file system skip the entry.
StatVfs(t) ==
  /\ pc[t] = "statvfs"
  /\ \E m \in {Resolve(Asked(t))} :
       \/ /\ m.reachable
          /\ pc' = [pc EXCEPT ![t] = IF Reportable(Space(m)) THEN "mnt_fsname" ELSE "next"]
          /\ ent' = [ent EXCEPT ![t].buf = Space(m)]
       \/ /\ ~m.reachable \/ m.dir # ent[t].mount_point  \* the directory may be gone
          /\ pc' = [pc EXCEPT ![t] = AfterFailure]
          /\ UNCHANGED ent
  /\ UNCHANGED <<hostVars, sourceVars, disks, stable>>

\* The row: fs_type and mount_point are copies, mnt_fsname is read now.
AddRow(t) ==
  /\ Goto(t, "mnt_fsname", "next")
  /\ \E m \in Look(t) :
       disks' = [disks EXCEPT ![t] = Append(@,
         [file_system |-> m.fsname, file_system_type |-> ent[t].fs_type,
          mount_point |-> ent[t].mount_point, space |-> ent[t].buf])]
  /\ UNCHANGED <<hostVars, sourceVars, ent, stable>>

\* An exception (bad_alloc, or GetDbInstance for the log) leaves the loop:
\* nothing closes the stream.
Throw(t) ==
  /\ pc[t] \in {"mnt_type", "mnt_dir", "statvfs", "mnt_fsname"}
  /\ pc' = [pc EXCEPT ![t] = "thrown"]
  /\ UNCHANGED <<hostVars, sourceVars, ent, disks, stable>>

Body(t) == ReadType(t) \/ ReadDir(t) \/ StatVfs(t) \/ AddRow(t) \/ Throw(t)

StepLinux(t) == Settings[setting].platform = "Linux" /\ (Open(t) \/ GetMntEnt(t) \/ Body(t))

StepMacOS(t) == Settings[setting].platform = "macOS" /\ (GetMntInfo(t) \/ NextIndex(t) \/ Body(t))

Step(t) == t \in Settings[setting].scans /\ (StepLinux(t) \/ StepMacOS(t))

Over(t) == pc[t] \in {"done", "failed", "thrown"}

\* The process goes on when its scans are over.
Finished == (\A t \in Settings[setting].scans : Over(t)) /\ UNCHANGED vars

HostStep == Mount \/ Unmount \/ Write

Next == HostStep \/ (\E t \in Scans : Step(t)) \/ Finished

\* A thread that scans is scheduled again and again.
Spec == Init /\ [][Next]_vars /\ \A t \in Scans : WF_vars(Step(t))
-----------------------------------------------------------------------------
Row ==
  [file_system : {m.fsname : m \in Mounts}, file_system_type : {m.type : m \in Mounts},
   mount_point : {m.dir : m \in Mounts},
   space : [of : Mounts, total : 1..Word - 1, used : 0..Word - 1, free : 0..Word - 1]]

\* Type invariant; no row of an empty file system (total 0) is kept.
TypeOK ==
  /\ setting \in DOMAIN Settings
  /\ table \in Seq(Settings[setting].mounts) /\ IsInjective(table)
  /\ \A m \in Mounts : bfree[m] \in 0..m.blocks
  /\ changes \in 0..Settings[setting].maxChanges
  /\ buffer \in Seq(Mounts \cup {NoEntry}) /\ dangling \cup fp \subseteq Scans
  /\ \A t \in Scans :
       /\ pc[t] \in {"start", "next", "mnt_type", "mnt_dir", "statvfs", "mnt_fsname",
                     "done", "failed", "thrown"}
       /\ stream[t] \in Seq(Mounts) /\ at[t].idx \in 0..Len(buffer) + 1
       /\ past[t] \in 0..Len(table) /\ stable[t] \subseteq Mounts
       /\ disks[t] \in Seq(Row)

\* No other scan runs: what the static buffer has is this one's.
Alone == Cardinality(Settings[setting].scans) = 1

RowOf(t, row, m) ==
  /\ row.file_system = m.fsname
  /\ row.mount_point = m.dir
  /\ row.file_system_type = m.type
  /\ m \in stable[t] => row.space.of = m

\* Every column of a row describes one entry of the mount table, and its
\* space is that entry's own if it stayed mounted and uncovered while the
\* scan ran, of a scan that no other overlaps: see buffer (disk_stats.cpp:75,
\* 118).
RowsDescribeOneMount ==
  Alone => \A t \in Scans : \A row \in Range(disks[t]) : \E m \in Mounts : RowOf(t, row, m)

\* "Mount point path", "File system identifier", "File system type"
\* (docs/README.md:77-79): of one disk, whatever else runs.
RowsAlwaysDescribeOneMount ==
  \A t \in Scans : \A row \in Range(disks[t]) : \E m \in Mounts : RowOf(t, row, m)

\* Even when scans overlap, the space of a row is that of its mount point:
\* mount_point is copied before statvfs and no later step reads it again.
SpaceOfOwnMountPoint ==
  \A t \in Scans : \A row \in Range(disks[t]) : \A m \in stable[t] :
    row.mount_point = m.dir => row.space.of = m

\* A scan that ran to the end of the table, overlapping no other, has exactly
\* one row for each reportable file system mounted all along, whatever came
\* and went around it and however many of its neighbours were skipped.
StableMountsReported ==
  Alone => \A t \in Scans : pc[t] = "done" =>
    \A m \in stable[t] :
      /\ m.reachable
      /\ ~IgnoreFileSystemType(m.type)
      /\ ~IgnoreMountPoint(m.dir)
      /\ (m.blocks * m.bsize) % Word # 0
      => Cardinality({i \in 1..Len(disks[t]) : RowOf(t, disks[t][i], m)}) = 1

\* The mount table is open exactly while a Linux scan runs, and after it only
\* if an exception ended it: endmntent is a plain call at the end of the
\* function, so every other way out has to pass it.
StreamLeaksOnlyIfThrown ==
  Settings[setting].platform = "Linux" => \A t \in Scans :
    t \in fp <=> pc[t] = "thrown" \/ ~(Over(t) \/ pc[t] = "start")

\* "All space values are in bytes by default" (docs/README.md): statvfs counts
\* blocks in units of f_frsize.
SpaceInBytes ==
  \A t \in Scans : \A row \in Range(disks[t]) :
    row.space.total = (row.space.of.blocks * row.space.of.frsize) % Word

\* A scan comes to an end: each entry is returned once, skipped or not.
ScanEnds == \A t \in Scans : (pc[t] # "start") ~> Over(t)
=============================================================================
