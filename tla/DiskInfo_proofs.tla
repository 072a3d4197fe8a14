--------------------------- MODULE DiskInfo_proofs ---------------------------
(***************************************************************************)
(* Proofs about DiskInfo, for any mount table, any number of scans at once *)
(* and any changes of the table under them.                                *)
(***************************************************************************)
EXTENDS DiskInfo, SequenceTheorems, OperatorLemmas

-----------------------------------------------------------------------------
(* The inductive invariants. *)

InBody == {"mnt_type", "mnt_dir", "statvfs", "mnt_fsname"}
Statements == InBody \cup {"start", "next", "done", "failed", "thrown"}

Platform == Settings[setting].platform

HostKept ==
  /\ setting \in DOMAIN Settings
  /\ table \in Seq(Settings[setting].mounts) /\ IsInjective(table)
  /\ \E i \in 1..Len(table) : table[i].dir = <<>>
  /\ bfree \in [Mounts -> Nat] /\ \A m \in Mounts : bfree[m] <= m.blocks
  /\ changes \in 0..Settings[setting].maxChanges

ScansKept ==
  /\ pc \in [Scans -> Statements]
  /\ \A t \in Scans : pc[t] # "start" => t \in Settings[setting].scans
  /\ fp \subseteq Scans /\ dangling \subseteq Scans
  /\ stable \in [Scans -> SUBSET Mounts]
  /\ \A t \in Scans : stable[t] \subseteq Visible(table)

\* Where an entry pointer leads: on Linux to the one entry of the buffer, on
\* macOS into the array, never to its last element.
SourceKept ==
  /\ buffer \in Seq(Mounts \cup {NoEntry})
  /\ stream \in [Scans -> Seq(Mounts)]
  /\ past \in [Scans -> Nat] /\ \A t \in Scans : past[t] <= Len(table)
  /\ at \in [Scans -> [idx : Nat, count : Nat]]
  /\ \A t \in Scans : pc[t] \in {"start", "failed"} \/ Platform = "Linux" =>
       at[t] = [idx |-> 1, count |-> 0]
  /\ Platform = "Linux" =>
       /\ dangling = {}
       /\ \A i \in 1..Len(buffer) : buffer[i] \in Mounts
       /\ \A t \in Scans : pc[t] \in InBody => Len(buffer) = 1
  /\ Platform = "macOS" =>
       /\ \A i \in 1..Len(buffer) - 1 : buffer[i] \in Mounts
       /\ \A t \in Scans : pc[t] \in InBody \cup {"next", "done", "thrown"} =>
            at[t].idx <= at[t].count /\ at[t].count < Len(buffer)
       /\ \A t \in Scans : pc[t] \in InBody => at[t].idx >= 1

Kinds == {m.type : m \in Mounts}
Dirs == {m.dir : m \in Mounts}
SpaceOf == [of : Mounts, total : 0..Word - 1, used : 0..Word - 1, free : 0..Word - 1]

\* What the locals hold once they are assigned.
RowsKept ==
  /\ ent \in [Scans -> [fs_type : Kinds \cup {""}, mount_point : Dirs \cup {<<>>},
                        buf : SpaceOf \cup {NoBuf}]]
  /\ \A t \in Scans :
       /\ pc[t] \in InBody \ {"mnt_type"} => ent[t].fs_type \in Kinds
       /\ pc[t] \in {"statvfs", "mnt_fsname"} => ent[t].mount_point \in Dirs
       /\ pc[t] = "mnt_fsname" => ent[t].buf \in SpaceOf /\ ent[t].buf.total # 0
       /\ pc[t] \in {"start", "failed"} => disks[t] = <<>>
  /\ disks \in [Scans -> Seq(Row)]

Types == HostKept /\ ScansKept /\ SourceKept /\ RowsKept

\* The space asked of a mount point is that of the file system on it.
SpaceKept ==
  /\ SpaceOfOwnMountPoint
  /\ \A t \in Scans : pc[t] = "mnt_fsname" => \A m \in stable[t] :
       ent[t].mount_point = m.dir => ent[t].buf.of = m

Current(t) == buffer[at[t].idx]

\* What makes a row a row of the entry m, its space apart.
RowIsOf(row, m) ==
  row.file_system = m.fsname /\ row.mount_point = m.dir /\ row.file_system_type = m.type

\* The locals of a scan that no other overlaps are of the entry it is at.
EntryKept ==
  /\ dangling = {}
  /\ \A t \in Scans :
       /\ pc[t] \in InBody \ {"mnt_type"} => ent[t].fs_type = Current(t).type
       /\ pc[t] \in {"statvfs", "mnt_fsname"} => ent[t].mount_point = Current(t).dir
       /\ \A i \in 1..Len(disks[t]) : \E m \in Mounts : RowIsOf(disks[t][i], m)

\* The entries a scan has still to come to.
Unread(t) == {table[i] : i \in past[t] + 1..Len(table)}

ToCome(t) ==
  IF Platform = "Linux"
  THEN {stream[t][i] : i \in 1..Len(stream[t])} \cup Unread(t)
  ELSE {buffer[i] : i \in at[t].idx + 1..at[t].count}

\* No entry of the table comes twice.
OnceEach(t) ==
  IF Platform = "Linux"
  THEN \A m \in stable[t] : \A i \in 1..Len(stream[t]) : stream[t][i] = m =>
         /\ \A j \in 1..Len(stream[t]) : stream[t][j] = m => i = j
         /\ m \notin Unread(t)
  ELSE \A i, j \in 1..at[t].count : buffer[i] = buffer[j] => i = j

Reported(m) ==
  /\ m.reachable
  /\ ~IgnoreFileSystemType(m.type)
  /\ ~IgnoreMountPoint(m.dir)
  /\ (m.blocks * m.bsize) % Word # 0

RowsOf(t, m) == {i \in 1..Len(disks[t]) : RowOf(t, disks[t][i], m)}

\* An entry is due while it is still to come or at hand, and has one row after.
Due(t, m) == m \in ToCome(t) \/ (pc[t] \in InBody /\ m = Current(t))

Served(t, m) ==
  /\ pc[t] \in InBody /\ m = Current(t) => m \notin ToCome(t)
  /\ Due(t, m) => RowsOf(t, m) = {}
  /\ ~Due(t, m) => \E i \in 1..Len(disks[t]) : RowsOf(t, m) = {i}

Surveyed(t) ==
  /\ OnceEach(t)
  /\ pc[t] = "done" => ToCome(t) \cap stable[t] = {}
  /\ \A m \in stable[t] : Reported(m) => Served(t, m)

SurveyKept ==
  \A t \in Scans :
    /\ pc[t] = "start" => stream[t] = <<>> /\ past[t] = 0
    /\ pc[t] \in InBody \cup {"next", "done"} => Surveyed(t)

-----------------------------------------------------------------------------
(* The constants, and the mount table. *)

LEMMA MountFacts ==
  ASSUME NEW m \in Mounts
  PROVE  /\ m.dir \in Seq(STRING) /\ m.reachable \in BOOLEAN
         /\ m.blocks \in Nat /\ m.bsize \in Nat /\ m.frsize \in Nat /\ m.reserved \in Nat
BY DiskAssumption

LEMMA SettingFacts ==
  ASSUME NEW s \in DOMAIN Settings
  PROVE  /\ Settings[s].platform \in {"Linux", "macOS"}
         /\ Settings[s].scans \subseteq Scans /\ IsFiniteSet(Settings[s].scans)
         /\ Settings[s].mounts \subseteq Mounts
         /\ Settings[s].table \in Seq(Settings[s].mounts) /\ IsInjective(Settings[s].table)
         /\ Settings[s].maxChanges \in Nat
         /\ \E m \in Range(Settings[s].table) : m.dir = <<>>
<1>1. Settings[s] \in Range(Settings)
  BY DEF Range
<1> QED
  BY <1>1, DiskAssumption DEF Scans, Mounts

LEMMA OneScan ==
  ASSUME HostKept, Alone, NEW s \in Settings[setting].scans, NEW t \in Settings[setting].scans
  PROVE  s = t
BY SettingFacts, FS_Singleton DEF HostKept, Alone

LEMMA TableFacts ==
  ASSUME HostKept
  PROVE  /\ table \in Seq(Mounts) /\ Len(table) \in Nat
         /\ \A i \in 1..Len(table) : table[i] \in Mounts
         /\ \A i, j \in 1..Len(table) : table[i] = table[j] => i = j
         /\ Visible(table) \subseteq Mounts
         /\ Visible(table) \subseteq {table[i] : i \in 1..Len(table)}
<1>1. table \in Seq(Mounts)
  BY SettingFacts, SeqMonotonic DEF HostKept
<1>2. DOMAIN table = 1..Len(table) /\ Len(table) \in Nat
  BY <1>1, LenProperties
<1>3. \A i \in 1..Len(table) : table[i] \in Mounts
  BY <1>1, ElementOfSeq
<1>4. \A i, j \in 1..Len(table) : table[i] = table[j] => i = j
  BY <1>2 DEF HostKept, IsInjective
<1> QED
  BY <1>1, <1>2, <1>3, <1>4 DEF Visible

\* Of the mounts on one directory only the last is visible.
LEMMA OneVisible ==
  ASSUME HostKept, NEW m \in Visible(table), NEW n \in Visible(table), m.dir = n.dir
  PROVE  m = n
<1>1. PICK i \in 1..Len(table) : table[i] = m /\ ~Covered(table, i)
  BY DEF Visible
<1>2. PICK j \in 1..Len(table) : table[j] = n /\ ~Covered(table, j)
  BY DEF Visible
<1>3. IsPrefix(m.dir, n.dir) /\ IsPrefix(n.dir, m.dir)
  <2>1. Len(m.dir) \in Nat /\ m.dir \in Seq(STRING)
    BY TableFacts, MountFacts, LenProperties
  <2> QED
    BY <2>1 DEF IsPrefix
<1>4. CASE i < j
  <2>1. j \in i + 1..Len(table)
    BY <1>4, TableFacts
  <2> QED
    BY <1>1, <1>2, <1>3, <2>1 DEF Covered
<1>5. CASE j < i
  <2>1. i \in j + 1..Len(table)
    BY <1>5, TableFacts
  <2> QED
    BY <1>1, <1>2, <1>3, <2>1 DEF Covered
<1>6. CASE i = j
  BY <1>1, <1>2, <1>6
<1> QED
  BY <1>4, <1>5, <1>6, TableFacts

\* Some mount is on the root, so that every path is on a file system.
LEMMA RootVisible ==
  ASSUME HostKept
  PROVE  \E m \in Visible(table) : m.dir = <<>>
<1> DEFINE Roots == {i \in 1..Len(table) : table[i].dir = <<>>}
<1>1. Roots \subseteq Nat /\ Roots # {} /\ IsFiniteSet(Roots)
  <2>1. Len(table) \in Nat /\ Roots \in SUBSET (1..Len(table))
    BY TableFacts
  <2>2. IsFiniteSet(1..Len(table))
    BY <2>1, FS_Interval
  <2>3. IsFiniteSet(Roots)
    BY <2>1, <2>2, FS_Subset
  <2>4. Roots # {}
    BY DEF HostKept
  <2> QED
    BY <2>1, <2>3, <2>4
<1>2. PICK i \in Roots : \A j \in Roots : i >= j
  BY <1>1, MaxOfNats
<1>3. ASSUME Covered(table, i)
      PROVE  FALSE
  <2>1. PICK j \in i + 1..Len(table) : IsPrefix(table[j].dir, table[i].dir)
    BY <1>3 DEF Covered
  <2>2. j \in 1..Len(table) /\ i < j /\ j \in Nat /\ i \in Nat
    BY <1>1, <2>1, TableFacts
  <2>3. table[j].dir \in Seq(STRING)
    BY <2>2, TableFacts, MountFacts
  <2>4. Len(table[j].dir) <= 0
    BY <2>1 DEF IsPrefix
  <2>5. table[j].dir = <<>>
    BY <2>3, <2>4, EmptySeq
  <2> QED
    BY <1>2, <2>2, <2>5
<1> QED
  BY <1>3 DEF Visible

\* What Resolve leads to.
LEMMA ResolveFacts ==
  ASSUME HostKept, NEW path \in Seq(STRING)
  PROVE  /\ Resolve(path) \in Visible(table)
         /\ IsPrefix(Resolve(path).dir, path)
         /\ \A n \in Visible(table) : IsPrefix(n.dir, path) => Len(n.dir) <= Len(Resolve(path).dir)
<1> DEFINE on == {m \in Visible(table) : IsPrefix(m.dir, path)}
           Short == {Len(path) - Len(m.dir) : m \in on}
<1>1. \A m \in on : Len(m.dir) \in Nat /\ Len(m.dir) <= Len(path) /\ Len(path) \in Nat
  BY TableFacts, MountFacts, LenProperties DEF IsPrefix
<1>2. on # {}
  <2>1. Len(path) \in Nat
    BY LenProperties
  <2>2. SubSeq(<<>>, 1, 0) = <<>> /\ SubSeq(path, 1, 0) = <<>>
    BY SubSeqEmpty
  <2>3. IsPrefix(<<>>, path)
    BY <2>1, <2>2 DEF IsPrefix
  <2> QED
    BY <2>3, RootVisible
<1>3. Short \subseteq Nat /\ Short # {}
  BY <1>1, <1>2
<1>4. PICK least \in Short : \A x \in Short : least <= x
  BY <1>3, MinOfNats
<1>5. PICK m \in on : least = Len(path) - Len(m.dir)
  BY <1>4
<1>6. \A n \in on : Len(n.dir) <= Len(m.dir)
  <2> SUFFICES ASSUME NEW n \in on
               PROVE  Len(n.dir) <= Len(m.dir)
    OBVIOUS
  <2>1. least <= Len(path) - Len(n.dir)
    BY <1>4
  <2> HIDE DEF on, Short
  <2> QED
    BY <1>1, <1>5, <2>1
<1>7. Resolve(path) \in on /\ \A n \in on : Len(n.dir) <= Len(Resolve(path).dir)
  BY <1>6 DEF Resolve
<1> QED
  BY <1>7

\* The directory of a visible mount leads to that mount.
LEMMA ResolveOwn ==
  ASSUME HostKept, NEW m \in Visible(table)
  PROVE  Resolve(m.dir) = m
<1> DEFINE r == Resolve(m.dir)
<1>1. m \in Mounts /\ m.dir \in Seq(STRING)
  BY TableFacts, MountFacts
<1>2. /\ r \in Visible(table) /\ IsPrefix(r.dir, m.dir)
      /\ IsPrefix(m.dir, m.dir) => Len(m.dir) <= Len(r.dir)
  BY <1>1, ResolveFacts
<1>3. r.dir \in Seq(STRING)
  BY <1>2, TableFacts, MountFacts
<1>4. Len(m.dir) \in Nat /\ Len(r.dir) \in Nat
  BY <1>1, <1>3, LenProperties
<1>5. Len(m.dir) = Len(r.dir) /\ SubSeq(r.dir, 1, Len(r.dir)) = SubSeq(m.dir, 1, Len(r.dir))
  BY <1>2, <1>4 DEF IsPrefix
<1>6. m.dir = r.dir
  BY <1>1, <1>3, <1>5, SubSeqFull
<1> QED
  BY <1>2, <1>6, OneVisible

-----------------------------------------------------------------------------
(* The table when an entry comes or goes. *)

LEMMA EntryGone ==
  ASSUME NEW S, NEW s \in Seq(S), NEW i \in 1..Len(s)
  PROVE  /\ RemoveAt(s, i) \in Seq(S)
         /\ Len(RemoveAt(s, i)) = Len(s) - 1
         /\ \A j \in 1..Len(s) - 1 : RemoveAt(s, i)[j] = IF j < i THEN s[j] ELSE s[j + 1]
<1> DEFINE before == SubSeq(s, 1, i - 1)
           after == SubSeq(s, i + 1, Len(s))
<1>1. Len(s) \in Nat /\ i \in Nat /\ i >= 1 /\ i <= Len(s) /\ \A j \in 1..Len(s) : s[j] \in S
  BY ElementOfSeq, LenProperties
<1>2. /\ before \in Seq(S) /\ Len(before) = i - 1
      /\ \A j \in 1..i - 1 : before[j] = s[j]
  <2>1. \A j \in 1..i - 1 : s[j] \in S
    BY <1>1
  <2>2. /\ before \in Seq(S)
        /\ Len(before) = IF 1 <= i - 1 THEN (i - 1) - 1 + 1 ELSE 0
        /\ \A j \in 1..(i - 1) - 1 + 1 : before[j] = s[1 + j - 1]
    BY <1>1, <2>1, SubSeqProperties
  <2> HIDE DEF before
  <2> QED
    BY <1>1, <2>2
<1>3. /\ after \in Seq(S) /\ Len(after) = Len(s) - i
      /\ \A j \in 1..Len(s) - i : after[j] = s[i + j]
  <2>1. \A j \in i + 1..Len(s) : s[j] \in S
    BY <1>1
  <2>2. /\ after \in Seq(S)
        /\ Len(after) = IF i + 1 <= Len(s) THEN Len(s) - (i + 1) + 1 ELSE 0
        /\ \A j \in 1..Len(s) - (i + 1) + 1 : after[j] = s[i + 1 + j - 1]
    BY <1>1, <2>1, SubSeqProperties
  <2> HIDE DEF after
  <2> QED
    BY <1>1, <2>2
<1> HIDE DEF before, after
<1>4. /\ before \o after \in Seq(S)
      /\ Len(before \o after) = Len(before) + Len(after)
      /\ \A j \in 1..Len(before) + Len(after) :
           (before \o after)[j] = IF j <= Len(before) THEN before[j] ELSE after[j - Len(before)]
  BY <1>2, <1>3, ConcatProperties
<1>5. RemoveAt(s, i) = before \o after
  BY DEF RemoveAt, before, after
<1>6. ASSUME NEW j \in 1..Len(s) - 1
      PROVE  RemoveAt(s, i)[j] = IF j < i THEN s[j] ELSE s[j + 1]
  <2>1. j \in 1..Len(before) + Len(after)
    BY <1>1, <1>2, <1>3
  <2>2. CASE j < i
    <3>1. j \in 1..i - 1 /\ j <= Len(before)
      BY <1>1, <1>2, <2>2
    <3> QED
      BY <1>2, <1>4, <1>5, <2>1, <2>2, <3>1
  <2>3. CASE ~(j < i)
    <3>1. j - Len(before) \in 1..Len(s) - i /\ ~(j <= Len(before)) /\ i + (j - Len(before)) = j + 1
      BY <1>1, <1>2, <2>3
    <3>2. after[j - Len(before)] = s[j + 1]
      BY <1>3, <3>1
    <3> QED
      BY <1>4, <1>5, <2>1, <2>3, <3>1, <3>2
  <2> QED
    BY <2>2, <2>3
<1>7. Len(before) + Len(after) = Len(s) - 1
  BY <1>1, <1>2, <1>3
<1>8. RemoveAt(s, i) \in Seq(S) /\ Len(RemoveAt(s, i)) = Len(s) - 1
  BY <1>4, <1>5, <1>7
<1> QED
  BY <1>6, <1>8

\* A mount comes last; an unmount closes the gap.
LEMMA TableStep ==
  ASSUME HostKept, Mount \/ Unmount
  PROVE  /\ changes' \in 0..Settings[setting].maxChanges
         /\ UNCHANGED <<setting, bfree, buffer, dangling, stream, at, fp, pc, ent, disks>>
         /\ stable' = [t \in Scans |-> stable[t] \cap Visible(table')]
         /\ \/ /\ \E m \in Settings[setting].mounts \ {table[i] : i \in 1..Len(table)} :
                    table' = Append(table, m)
               /\ past' = [t \in Scans |-> IF Len(table') <= past[t] THEN past[t] - 1 ELSE past[t]]
            \/ \E i \in 1..Len(table) :
                 /\ ~Covered(table, i) /\ table[i].dir # <<>>
                 /\ table' = RemoveAt(table, i)
                 /\ past' = [t \in Scans |-> IF i <= past[t] THEN past[t] - 1 ELSE past[t]]
<1>1. DOMAIN table = 1..Len(table)
  BY TableFacts, LenProperties
<1>2. changes \in Nat /\ Settings[setting].maxChanges \in Nat
  BY SettingFacts DEF HostKept
<1>3. changes < Settings[setting].maxChanges /\ changes' = changes + 1
  BY DEF Mount, Unmount, TableChanges
<1> QED
  BY <1>1, <1>2, <1>3 DEF Mount, Unmount, TableChanges, Range

LEMMA TableInjective ==
  ASSUME HostKept, NEW m \in Settings[setting].mounts \ {table[i] : i \in 1..Len(table)}
  PROVE  /\ Append(table, m) \in Seq(Settings[setting].mounts)
         /\ Len(Append(table, m)) = Len(table) + 1
         /\ \A j \in 1..Len(table) : Append(table, m)[j] = table[j]
         /\ Append(table, m)[Len(table) + 1] = m
         /\ IsInjective(Append(table, m))
<1>1. /\ Append(table, m) \in Seq(Settings[setting].mounts)
      /\ Len(Append(table, m)) = Len(table) + 1
      /\ \A j \in 1..Len(table) : Append(table, m)[j] = table[j]
      /\ Append(table, m)[Len(table) + 1] = m
  BY AppendProperties DEF HostKept
<1>2. DOMAIN Append(table, m) = 1..Len(table) + 1 /\ Len(table) \in Nat
  BY <1>1, TableFacts, LenProperties
<1>3. ASSUME NEW i \in 1..Len(table) + 1, NEW j \in 1..Len(table) + 1,
             Append(table, m)[i] = Append(table, m)[j]
      PROVE  i = j
  <2>1. CASE i \in 1..Len(table) /\ j \in 1..Len(table)
    BY <1>1, <1>3, <2>1, TableFacts
  <2>2. CASE i = Len(table) + 1 /\ j \in 1..Len(table)
    BY <1>1, <1>3, <2>2
  <2>3. CASE j = Len(table) + 1 /\ i \in 1..Len(table)
    BY <1>1, <1>3, <2>3
  <2> QED
    BY <1>2, <2>1, <2>2, <2>3
<1> QED
  BY <1>1, <1>2, <1>3 DEF IsInjective

LEMMA GoneInjective ==
  ASSUME HostKept, NEW i \in 1..Len(table)
  PROVE  /\ RemoveAt(table, i) \in Seq(Settings[setting].mounts)
         /\ Len(RemoveAt(table, i)) = Len(table) - 1 /\ Len(table) - 1 \in Nat
         /\ \A j \in 1..Len(table) - 1 :
              RemoveAt(table, i)[j] = IF j < i THEN table[j] ELSE table[j + 1]
         /\ IsInjective(RemoveAt(table, i))
<1>1. /\ RemoveAt(table, i) \in Seq(Settings[setting].mounts)
      /\ Len(RemoveAt(table, i)) = Len(table) - 1
      /\ \A j \in 1..Len(table) - 1 :
           RemoveAt(table, i)[j] = IF j < i THEN table[j] ELSE table[j + 1]
  BY EntryGone DEF HostKept
<1>2. DOMAIN RemoveAt(table, i) = 1..Len(table) - 1 /\ Len(table) - 1 \in Nat
  <2>1. Len(table) \in Nat
    BY TableFacts
  <2> QED
    BY <1>1, <2>1, LenProperties
<1>3. ASSUME NEW j \in 1..Len(table) - 1, NEW k \in 1..Len(table) - 1,
             RemoveAt(table, i)[j] = RemoveAt(table, i)[k]
      PROVE  j = k
  <2> DEFINE was(n) == IF n < i THEN n ELSE n + 1
  <2>1. was(j) \in 1..Len(table) /\ was(k) \in 1..Len(table)
    BY <1>2
  <2>2. table[was(j)] = table[was(k)]
    BY <1>1, <1>3
  <2>3. was(j) = was(k)
    BY <2>1, <2>2, TableFacts
  <2> QED
    BY <2>3
<1> QED
  BY <1>1, <1>2, <1>3 DEF IsInjective

-----------------------------------------------------------------------------
(* The steps, and the inductive invariant of types. *)

\* What a scan does next, whatever the platform.
ScanStep(t) ==
  \/ Platform = "Linux" /\ (Open(t) \/ GetMntEnt(t))
  \/ Platform = "macOS" /\ (GetMntInfo(t) \/ NextIndex(t))
  \/ ReadType(t) \/ ReadDir(t) \/ StatVfs(t) \/ AddRow(t) \/ Throw(t)

LEMMA StepCases ==
  ASSUME [Next]_vars
  PROVE  \/ Mount \/ Unmount
         \/ Write
         \/ \E t \in Scans : t \in Settings[setting].scans /\ ScanStep(t)
         \/ UNCHANGED vars
BY DEF Next, HostStep, Step, StepLinux, StepMacOS, Body, ScanStep, Platform, Finished

LEMMA ScanLeavesHost ==
  ASSUME NEW t \in Scans, ScanStep(t)
  PROVE  UNCHANGED hostVars
BY DEF ScanStep, Open, GetMntEnt, GetMntInfo, NextIndex, ReadType, ReadDir, StatVfs, AddRow, Throw

LEMMA HostInit ==
  ASSUME Init
  PROVE  HostKept
<1>1. setting \in DOMAIN Settings /\ table = Settings[setting].table /\ changes = 0
  BY DEF Init
<1>2. \E i \in 1..Len(table) : table[i].dir = <<>>
  <2>1. PICK m \in Range(table) : m.dir = <<>>
    BY <1>1, SettingFacts
  <2>2. DOMAIN table = 1..Len(table)
    BY <1>1, SettingFacts, LenProperties
  <2> QED
    BY <2>1, <2>2 DEF Range
<1>3. bfree \in [Mounts -> Nat] /\ \A m \in Mounts : bfree[m] <= m.blocks
  <2>1. \A m \in Mounts : m.blocks \in Nat
    BY MountFacts
  <2>2. CASE bfree = [m \in Mounts |-> 0]
    BY <2>1, <2>2
  <2>3. CASE bfree = [m \in Mounts |-> m.blocks]
    BY <2>1, <2>3
  <2> QED
    BY <2>2, <2>3 DEF Init
<1> QED
  BY <1>1, <1>2, <1>3, SettingFacts DEF HostKept

LEMMA HostStep_ ==
  ASSUME HostKept, [Next]_vars
  PROVE  HostKept'
<1>1. CASE Mount \/ Unmount
  <2>1. CASE \E m \in Settings[setting].mounts \ {table[i] : i \in 1..Len(table)} :
               table' = Append(table, m)
    <3>1. PICK m \in Settings[setting].mounts \ {table[i] : i \in 1..Len(table)} :
            table' = Append(table, m)
      BY <2>1
    <3>2. /\ table' \in Seq(Settings[setting].mounts) /\ Len(table') = Len(table) + 1
          /\ \A j \in 1..Len(table) : table'[j] = table[j]
          /\ IsInjective(table')
      BY <3>1, TableInjective
    <3>3. \E i \in 1..Len(table') : table'[i].dir = <<>>
      BY <3>2, TableFacts DEF HostKept
    <3> QED
      BY <1>1, <3>2, <3>3, TableStep DEF HostKept
  <2>2. CASE \E i \in 1..Len(table) : table[i].dir # <<>> /\ table' = RemoveAt(table, i)
    <3>1. PICK i \in 1..Len(table) : table[i].dir # <<>> /\ table' = RemoveAt(table, i)
      BY <2>2
    <3>2. /\ table' \in Seq(Settings[setting].mounts)
          /\ Len(table') = Len(table) - 1 /\ Len(table) - 1 \in Nat
          /\ \A j \in 1..Len(table) - 1 : table'[j] = IF j < i THEN table[j] ELSE table[j + 1]
          /\ IsInjective(table')
      BY <3>1, GoneInjective
    <3>3. PICK k \in 1..Len(table) : table[k].dir = <<>>
      BY DEF HostKept
    <3>4. Len(table) \in Nat /\ k # i
      BY <3>1, <3>3, TableFacts
    <3>5. CASE k < i
      <4>1. k \in 1..Len(table) - 1
        BY <3>4, <3>5
      <4> QED
        BY <1>1, <3>2, <3>3, <3>5, <4>1, TableStep DEF HostKept
    <3>6. CASE i < k
      <4>1. k - 1 \in 1..Len(table) - 1 /\ ~(k - 1 < i) /\ (k - 1) + 1 = k
        BY <3>4, <3>6
      <4>2. table'[k - 1] = table[k]
        BY <3>2, <4>1
      <4> QED
        BY <1>1, <3>2, <3>3, <4>1, <4>2, TableStep DEF HostKept
    <3> QED
      BY <3>4, <3>5, <3>6
  <2> QED
    BY <1>1, <2>1, <2>2, TableStep
<1>2. CASE Write
  <2>1. PICK m \in Range(table) : \E n \in {0, m.blocks} : bfree' = [bfree EXCEPT ![m] = n]
    BY <1>2 DEF Write
  <2>2. m \in Mounts
    BY <2>1, TableFacts, LenProperties DEF Range
  <2>3. m.blocks \in Nat
    BY <2>2, MountFacts
  <2>4. bfree' \in [Mounts -> Nat] /\ \A k \in Mounts : bfree'[k] <= k.blocks
    BY <2>1, <2>2, <2>3 DEF HostKept
  <2>5. changes' \in 0..Settings[setting].maxChanges
    BY <1>2, SettingFacts DEF Write, HostKept
  <2> QED
    BY <1>2, <2>4, <2>5 DEF Write, HostKept
<1>3. CASE UNCHANGED hostVars
  BY <1>3 DEF HostKept, hostVars
<1> QED
  BY <1>1, <1>2, <1>3, StepCases, ScanLeavesHost DEF vars

LEMMA ScansStep ==
  ASSUME HostKept, HostKept', ScansKept, [Next]_vars
  PROVE  ScansKept'
<1>1. CASE Mount \/ Unmount
  <2>1. /\ UNCHANGED <<setting, dangling, fp, pc>>
        /\ stable' = [t \in Scans |-> stable[t] \cap Visible(table')]
    BY <1>1, TableStep
  <2> QED
    BY <2>1 DEF ScansKept
<1>2. CASE Write
  BY <1>2 DEF Write, ScansKept, sourceVars
<1>3. CASE UNCHANGED vars
  BY <1>3 DEF vars, hostVars, sourceVars, ScansKept
<1>4. ASSUME NEW t \in Scans, t \in Settings[setting].scans, ScanStep(t)
      PROVE  ScansKept'
  <2>1. UNCHANGED <<setting, table>>
    BY <1>4, ScanLeavesHost DEF hostVars
  <2>2. pc' \in [Scans -> Statements] /\ \A s \in Scans \ {t} : pc'[s] = pc[s]
    <3>0. /\ {"next", "failed", "done", "thrown"} \cup InBody \subseteq Statements
          /\ pc \in [Scans -> Statements]
      BY DEF Statements, ScansKept
    <3>1. CASE Open(t) \/ GetMntInfo(t) \/ NextIndex(t)
      BY <1>4, <3>0, <3>1 DEF Open, GetMntInfo, NextIndex, Goto, InBody
    <3>2. CASE GetMntEnt(t)
      BY <1>4, <3>0, <3>2 DEF GetMntEnt, InBody
    <3>3. CASE ReadType(t) \/ ReadDir(t)
      BY <1>4, <3>0, <3>3 DEF ReadType, ReadDir, AfterFilter, Goto, InBody
    <3>4. CASE StatVfs(t)
      BY <1>4, <3>0, <3>4 DEF StatVfs, AfterFailure, InBody
    <3>5. CASE AddRow(t) \/ Throw(t)
      BY <1>4, <3>0, <3>5 DEF AddRow, Throw, Goto, InBody
    <3> QED
      BY <1>4, <3>1, <3>2, <3>3, <3>4, <3>5 DEF ScanStep
  <2>3. fp' \subseteq Scans /\ dangling' \subseteq Scans
    <3>1. CASE Open(t) \/ GetMntInfo(t)
      BY <1>4, <3>1 DEF Open, GetMntInfo, ScansKept
    <3>2. CASE GetMntEnt(t)
      BY <1>4, <3>2 DEF GetMntEnt, ScansKept
    <3>3. CASE UNCHANGED <<fp, dangling>>
      BY <3>3 DEF ScansKept
    <3> QED
      BY <1>4, <3>1, <3>2, <3>3
      DEF ScanStep, NextIndex, ReadType, ReadDir, StatVfs, AddRow, Throw, sourceVars
  <2>4. \/ UNCHANGED stable
        \/ stable' = [stable EXCEPT ![t] = Visible(table)]
    BY <1>4 DEF ScanStep, Open, GetMntEnt, GetMntInfo, NextIndex, ReadType, ReadDir, StatVfs,
                AddRow, Throw, Begins
  <2>5. /\ stable' \in [Scans -> SUBSET Mounts]
        /\ \A s \in Scans : stable'[s] \subseteq Visible(table)
    BY <1>4, <2>4, TableFacts DEF ScansKept
  <2> QED
    BY <1>4, <2>1, <2>2, <2>3, <2>5 DEF ScansKept
<1> QED
  BY <1>1, <1>2, <1>3, <1>4, StepCases

\* The body of the loop touches neither the host nor the source.
BodyStep(t) == ReadType(t) \/ ReadDir(t) \/ StatVfs(t) \/ AddRow(t) \/ Throw(t)

LEMMA BodyFacts ==
  ASSUME ScansKept, NEW t \in Scans, BodyStep(t)
  PROVE  /\ UNCHANGED <<hostVars, sourceVars, stable>>
         /\ pc[t] \in InBody /\ pc'[t] \in InBody \cup {"next", "thrown"}
         /\ \A s \in Scans \ {t} : pc'[s] = pc[s]
<1>0. pc \in [Scans -> Statements]
  BY DEF ScansKept
<1>1. CASE ReadType(t) \/ ReadDir(t)
  BY <1>0, <1>1 DEF ReadType, ReadDir, AfterFilter, Goto, InBody
<1>2. CASE StatVfs(t)
  BY <1>0, <1>2 DEF StatVfs, AfterFailure, InBody
<1>3. CASE AddRow(t) \/ Throw(t)
  BY <1>0, <1>3 DEF AddRow, Throw, Goto, InBody
<1> QED
  BY <1>1, <1>2, <1>3 DEF BodyStep

LEMMA SourceInit ==
  ASSUME Init
  PROVE  SourceKept
<1>1. /\ buffer = <<>> /\ dangling = {} /\ pc = [t \in Scans |-> "start"]
      /\ stream = [t \in Scans |-> <<>>] /\ past = [t \in Scans |-> 0]
      /\ at = [t \in Scans |-> [idx |-> 1, count |-> 0]]
  BY DEF Init
<1>2. Len(table) \in Nat
  BY HostInit, TableFacts
<1>3. buffer \in Seq(Mounts \cup {NoEntry}) /\ Len(buffer) = 0 /\ <<>> \in Seq(Mounts)
  BY <1>1, EmptySeq
<1>4. \A t \in Scans : pc[t] = "start" /\ "start" \notin InBody
  BY <1>1 DEF InBody
<1> QED
  BY <1>1, <1>2, <1>3, <1>4 DEF SourceKept

\* The place of a stream in a table that changes.
LEMMA PastStep ==
  ASSUME HostKept, SourceKept, Mount \/ Unmount
  PROVE  past' \in [Scans -> Nat] /\ \A t \in Scans : past'[t] <= Len(table')
<1>0. past \in [Scans -> Nat] /\ Len(table) \in Nat /\ \A t \in Scans : past[t] <= Len(table)
  BY TableFacts DEF SourceKept
<1>1. CASE \E m \in Settings[setting].mounts \ {table[i] : i \in 1..Len(table)} :
              /\ table' = Append(table, m)
              /\ past' = [t \in Scans |-> IF Len(table') <= past[t] THEN past[t] - 1 ELSE past[t]]
  <2>1. Len(table') = Len(table) + 1
    BY <1>1, TableInjective
  <2> QED
    BY <1>0, <1>1, <2>1
<1>2. CASE \E i \in 1..Len(table) :
              /\ table' = RemoveAt(table, i)
              /\ past' = [t \in Scans |-> IF i <= past[t] THEN past[t] - 1 ELSE past[t]]
  <2>1. PICK i \in 1..Len(table) :
              /\ table' = RemoveAt(table, i)
              /\ past' = [t \in Scans |-> IF i <= past[t] THEN past[t] - 1 ELSE past[t]]
    BY <1>2
  <2>2. Len(table') = Len(table) - 1 /\ i \in Nat /\ i >= 1 /\ i <= Len(table)
    BY <1>0, <2>1, GoneInjective
  <2>3. ASSUME NEW t \in Scans
        PROVE  past'[t] \in Nat /\ past'[t] <= Len(table) - 1
    <3>1. past[t] \in Nat /\ past[t] <= Len(table)
      BY <1>0
    <3>2. past'[t] = IF i <= past[t] THEN past[t] - 1 ELSE past[t]
      BY <2>1
    <3> QED
      BY <1>0, <2>2, <3>1, <3>2
  <2> QED
    BY <2>1, <2>2, <2>3
<1> QED
  BY <1>1, <1>2, TableStep

\* What a read of the mount table brings.
LEMMA AheadFacts ==
  ASSUME HostKept, SourceKept, NEW t \in Scans
  PROVE  /\ Read(t) \in Nat /\ past[t] <= Read(t) /\ Read(t) <= Len(table)
         /\ Ahead(t, Read(t)) \in Seq(Mounts)
         /\ stream[t] = <<>> =>
              /\ Len(Ahead(t, Read(t))) = Read(t) - past[t]
              /\ \A i \in 1..Read(t) - past[t] : Ahead(t, Read(t))[i] = table[past[t] + i]
              /\ Ahead(t, Read(t)) = <<>> => past[t] = Len(table)
<1>1. /\ Len(table) \in Nat /\ past[t] \in Nat /\ past[t] <= Len(table)
      /\ ReadAhead \in Nat \ {0} /\ stream[t] \in Seq(Mounts)
  BY TableFacts, DiskAssumption DEF SourceKept
<1>2. Read(t) \in Nat /\ past[t] <= Read(t) /\ Read(t) <= Len(table)
  BY <1>1 DEF Read
<1>3. CASE stream[t] # <<>>
  BY <1>1, <1>2, <1>3 DEF Ahead
<1>4. CASE stream[t] = <<>>
  <2>1. Ahead(t, Read(t)) = SubSeq(table, past[t] + 1, Read(t))
    BY <1>4 DEF Ahead
  <2>2. \A i \in past[t] + 1..Read(t) : table[i] \in Mounts
    BY <1>1, <1>2, TableFacts
  <2>3. /\ SubSeq(table, past[t] + 1, Read(t)) \in Seq(Mounts)
        /\ Len(SubSeq(table, past[t] + 1, Read(t))) =
             IF past[t] + 1 <= Read(t) THEN Read(t) - (past[t] + 1) + 1 ELSE 0
        /\ \A i \in 1..Read(t) - (past[t] + 1) + 1 :
             SubSeq(table, past[t] + 1, Read(t))[i] = table[past[t] + 1 + i - 1]
    BY <1>1, <1>2, <2>2, SubSeqProperties
  <2>4. Len(Ahead(t, Read(t))) = Read(t) - past[t]
    BY <1>1, <1>2, <2>1, <2>3
  <2>5. ASSUME NEW i \in 1..Read(t) - past[t]
        PROVE  Ahead(t, Read(t))[i] = table[past[t] + i]
    <3>1. i \in 1..Read(t) - (past[t] + 1) + 1 /\ past[t] + 1 + i - 1 = past[t] + i
      BY <1>1, <1>2
    <3> QED
      BY <2>1, <2>3, <3>1
  <2>6. ASSUME Ahead(t, Read(t)) = <<>>
        PROVE  past[t] = Len(table)
    <3>1. Read(t) = past[t]
      BY <1>1, <1>2, <2>4, <2>6
    <3> QED
      BY <1>1, <1>4, <3>1 DEF Read
  <2> QED
    BY <1>2, <2>1, <2>3, <2>4, <2>5, <2>6
<1> QED
  BY <1>3, <1>4

\* The array of getmntinfo never gets smaller, and holds the table.
LEMMA RefilledFacts ==
  ASSUME HostKept, SourceKept, Platform = "macOS"
  PROVE  /\ Refilled \in Seq(Mounts \cup {NoEntry})
         /\ Len(Refilled) >= Len(buffer) /\ Len(table) < Len(Refilled)
         /\ \A i \in 1..Len(Refilled) - 1 : Refilled[i] \in Mounts
         /\ \A i \in 1..Len(table) : Refilled[i] = table[i]
<1>1. /\ Len(table) \in Nat /\ \A i \in 1..Len(table) : table[i] \in Mounts
      /\ table \in Seq(Mounts \cup {NoEntry})
  BY TableFacts, SeqMonotonic
<1>2. /\ buffer \in Seq(Mounts \cup {NoEntry}) /\ Len(buffer) \in Nat
      /\ DOMAIN buffer = 1..Len(buffer)
      /\ \A i \in 1..Len(buffer) - 1 : buffer[i] \in Mounts
      /\ \A i \in 1..Len(buffer) : buffer[i] \in Mounts \cup {NoEntry}
  BY LenProperties, ElementOfSeq DEF SourceKept
<1>3. CASE Len(table) < Len(buffer)
  <2>1. Refilled = [i \in 1..Len(buffer) |-> IF i <= Len(table) THEN table[i] ELSE buffer[i]]
    BY <1>2, <1>3 DEF Refilled
  <2>2. \A i \in 1..Len(buffer) : Refilled[i] \in Mounts \cup {NoEntry}
    BY <1>1, <1>2, <2>1
  <2>3. Refilled \in Seq(Mounts \cup {NoEntry})
    BY <1>2, <2>1, <2>2, SeqDef
  <2>4. Len(Refilled) = Len(buffer)
    BY <1>2, <2>1, <2>3, LenProperties
  <2>5. \A i \in 1..Len(buffer) - 1 : Refilled[i] \in Mounts
    BY <1>1, <1>2, <2>1
  <2>6. \A i \in 1..Len(table) : Refilled[i] = table[i]
    BY <1>1, <1>2, <1>3, <2>1
  <2> QED
    BY <1>2, <1>3, <2>3, <2>4, <2>5, <2>6
<1>4. CASE ~(Len(table) < Len(buffer))
  <2>1. Refilled = Append(table, NoEntry)
    BY <1>4 DEF Refilled
  <2>2. /\ Append(table, NoEntry) \in Seq(Mounts \cup {NoEntry})
        /\ Len(Append(table, NoEntry)) = Len(table) + 1
        /\ \A i \in 1..Len(table) : Append(table, NoEntry)[i] = table[i]
    BY <1>1, AppendProperties
  <2> QED
    BY <1>1, <1>2, <1>4, <2>1, <2>2
<1> QED
  BY <1>3, <1>4

LEMMA SourceScanStep ==
  ASSUME HostKept, HostKept', ScansKept, ScansKept', SourceKept,
         NEW t \in Scans, t \in Settings[setting].scans, ScanStep(t)
  PROVE  SourceKept'
<1>0. /\ UNCHANGED <<setting, table>> /\ UNCHANGED Platform
      /\ Platform \in {"Linux", "macOS"} /\ "Linux" # "macOS"
      /\ pc \in [Scans -> Statements] /\ at \in [Scans -> [idx : Nat, count : Nat]]
  BY ScanLeavesHost, SettingFacts DEF hostVars, Platform, HostKept, ScansKept, SourceKept
<1>1. CASE BodyStep(t)
  <2>1. /\ UNCHANGED <<buffer, dangling, stream, past, at>>
        /\ pc[t] \in InBody /\ pc'[t] \in InBody \cup {"next", "thrown"}
        /\ \A s \in Scans \ {t} : pc'[s] = pc[s]
    BY <1>1, BodyFacts DEF sourceVars
  <2>2. pc[t] \notin {"start", "failed"} /\ pc'[t] \notin {"start", "failed"}
    BY <2>1 DEF InBody
  <2> QED
    BY <1>0, <2>1, <2>2 DEF SourceKept
<1>2. CASE Platform = "Linux" /\ Open(t)
  <2>1. /\ UNCHANGED <<buffer, dangling, stream, past, at>>
        /\ pc'[t] \notin InBody /\ \A s \in Scans \ {t} : pc'[s] = pc[s]
    BY <1>0, <1>2 DEF Open, Goto, InBody
  <2> QED
    BY <1>0, <1>2, <2>1 DEF SourceKept
<1>3. CASE Platform = "Linux" /\ GetMntEnt(t)
  <2>1. UNCHANGED <<dangling, at>>
    BY <1>3 DEF GetMntEnt
  <2>2. CASE Ahead(t, Read(t)) = <<>>
    <3>1. UNCHANGED <<buffer, stream, past>> /\ pc' = [pc EXCEPT ![t] = "done"]
      BY <1>3, <2>2 DEF GetMntEnt
    <3>2. pc'[t] \notin InBody /\ \A s \in Scans \ {t} : pc'[s] = pc[s]
      BY <1>0, <3>1 DEF InBody
    <3> QED
      BY <1>0, <1>3, <2>1, <3>1, <3>2 DEF SourceKept
  <2>3. CASE Ahead(t, Read(t)) # <<>>
    <3>1. /\ buffer' = <<Head(Ahead(t, Read(t)))>>
          /\ stream' = [stream EXCEPT ![t] = Tail(Ahead(t, Read(t)))]
          /\ past' = [past EXCEPT ![t] = Read(t)]
      BY <1>3, <2>3 DEF GetMntEnt
    <3>2. /\ Head(Ahead(t, Read(t))) \in Mounts /\ Tail(Ahead(t, Read(t))) \in Seq(Mounts)
          /\ Read(t) \in Nat /\ Read(t) <= Len(table)
      BY <2>3, AheadFacts, HeadTailProperties
    <3>3. buffer' \in Seq(Mounts \cup {NoEntry}) /\ Len(buffer') = 1 /\ buffer'[1] \in Mounts
      BY <3>1, <3>2
    <3>4. \A i \in 1..Len(buffer') : buffer'[i] \in Mounts
      BY <3>3
    <3>5. stream' \in [Scans -> Seq(Mounts)]
      BY <3>1, <3>2 DEF SourceKept
    <3>6. past' \in [Scans -> Nat] /\ \A s \in Scans : past'[s] <= Len(table)
      BY <3>1, <3>2 DEF SourceKept
    <3> QED
      BY <1>0, <1>3, <2>1, <3>3, <3>4, <3>5, <3>6 DEF SourceKept
  <2> QED
    BY <2>2, <2>3
<1>4. CASE Platform = "macOS" /\ GetMntInfo(t)
  <2>0. pc[t] = "start" /\ UNCHANGED <<stream, past>> /\ pc'[t] \notin InBody \cup {"start"}
        /\ \A s \in Scans \ {t} : pc'[s] = pc[s]
    BY <1>0, <1>4 DEF GetMntInfo, Goto, InBody
  <2>1. CASE UNCHANGED <<buffer, dangling, at>> /\ pc'[t] = "failed"
    BY <1>0, <1>4, <2>0, <2>1 DEF SourceKept
  <2>2. CASE /\ buffer' = Refilled /\ pc'[t] = "next"
             /\ at' = [at EXCEPT ![t] = [idx |-> 0, count |-> Len(table)]]
    <3>1. /\ buffer' \in Seq(Mounts \cup {NoEntry})
          /\ Len(buffer') >= Len(buffer) /\ Len(table) < Len(buffer')
          /\ \A i \in 1..Len(buffer') - 1 : buffer'[i] \in Mounts
      BY <1>4, <2>2, RefilledFacts
    <3>2. at'[t] = [idx |-> 0, count |-> Len(table)] /\ \A s \in Scans \ {t} : at'[s] = at[s]
      BY <1>0, <2>2
    <3>3. at' \in [Scans -> [idx : Nat, count : Nat]]
      BY <1>0, <2>2, TableFacts
    <3>4. Len(buffer) \in Nat /\ Len(buffer') \in Nat /\ Len(table) \in Nat
      BY <3>1, TableFacts, LenProperties DEF SourceKept
    <3>5. at'[t].idx <= at'[t].count /\ at'[t].count < Len(buffer')
      BY <3>1, <3>2, <3>4
    <3>6. ASSUME NEW s \in Scans \ {t}, at[s].count < Len(buffer)
          PROVE  at'[s].count < Len(buffer')
      <4>1. at[s].count \in Nat /\ at'[s].count = at[s].count
        BY <1>0, <3>2
      <4> QED
        BY <3>1, <3>4, <3>6, <4>1
    <3>7. \A s \in Scans : pc'[s] \in InBody \cup {"next", "done", "thrown"} =>
            at'[s].idx <= at'[s].count /\ at'[s].count < Len(buffer')
      BY <1>0, <1>4, <2>0, <3>2, <3>5, <3>6 DEF SourceKept
    <3>8. \A s \in Scans : pc'[s] \in InBody => at'[s].idx >= 1
      BY <1>0, <1>4, <2>0, <3>2 DEF SourceKept
    <3>9. \A s \in Scans : pc'[s] \in {"start", "failed"} => at'[s] = [idx |-> 1, count |-> 0]
      BY <1>0, <1>4, <2>0, <2>2, <3>2 DEF SourceKept
    <3> QED
      BY <1>0, <1>4, <2>0, <3>1, <3>3, <3>7, <3>8, <3>9 DEF SourceKept
  <2> QED
    BY <1>0, <1>4, <2>1, <2>2 DEF GetMntInfo, Goto
<1>5. CASE Platform = "macOS" /\ NextIndex(t)
  <2>0. pc[t] = "next" /\ UNCHANGED <<buffer, dangling, stream, past>>
        /\ \A s \in Scans \ {t} : pc'[s] = pc[s]
    BY <1>0, <1>5 DEF NextIndex, Goto
  <2>1. CASE ~More(t)
    <3>1. UNCHANGED at /\ pc'[t] = "done" /\ "done" \notin InBody
      BY <1>0, <1>5, <2>1 DEF NextIndex, Goto, InBody
    <3> QED
      BY <1>0, <1>5, <2>0, <3>1 DEF SourceKept
  <2>2. CASE More(t)
    <3>1. at' = [at EXCEPT ![t].idx = @ + 1] /\ pc'[t] = "mnt_type" /\ "mnt_type" \in InBody
      BY <1>0, <1>5, <2>2 DEF NextIndex, Goto, InBody
    <3>2. /\ at' \in [Scans -> [idx : Nat, count : Nat]]
          /\ at'[t].idx = at[t].idx + 1 /\ at'[t].count = at[t].count
          /\ \A s \in Scans \ {t} : at'[s] = at[s]
      BY <1>0, <3>1
    <3>3. at[t].idx \in Nat /\ at[t].count \in Nat /\ at[t].idx < at[t].count
      BY <1>0, <2>2 DEF More
    <3>4. at'[t].idx <= at'[t].count /\ at'[t].idx >= 1
      BY <3>2, <3>3
    <3>5. at[t].count < Len(buffer)
      BY <1>5, <2>0 DEF SourceKept
    <3>6. \A s \in Scans : pc'[s] \in InBody \cup {"next", "done", "thrown"} =>
            at'[s].idx <= at'[s].count /\ at'[s].count < Len(buffer)
      BY <1>5, <2>0, <3>2, <3>4, <3>5 DEF SourceKept
    <3>7. \A s \in Scans : pc'[s] \in InBody => at'[s].idx >= 1
      BY <1>5, <2>0, <3>2, <3>4 DEF SourceKept
    <3>8. \A s \in Scans : pc'[s] \in {"start", "failed"} => at'[s] = [idx |-> 1, count |-> 0]
      BY <1>0, <2>0, <3>1, <3>2 DEF SourceKept
    <3> QED
      BY <1>0, <1>5, <2>0, <3>2, <3>6, <3>7, <3>8 DEF SourceKept
  <2> QED
    BY <2>1, <2>2
<1> QED
  BY <1>1, <1>2, <1>3, <1>4, <1>5 DEF ScanStep, BodyStep

LEMMA SourceStep ==
  ASSUME HostKept, HostKept', ScansKept, ScansKept', SourceKept, [Next]_vars
  PROVE  SourceKept'
<1>1. CASE Mount \/ Unmount
  <2>1. UNCHANGED <<setting, buffer, dangling, stream, at, pc>> /\ UNCHANGED Platform
    BY <1>1, TableStep DEF Platform
  <2>2. past' \in [Scans -> Nat] /\ \A t \in Scans : past'[t] <= Len(table')
    BY <1>1, PastStep
  <2> QED
    BY <2>1, <2>2 DEF SourceKept
<1>2. CASE Write
  <2>1. UNCHANGED <<setting, table, buffer, dangling, stream, past, at, pc>> /\ UNCHANGED Platform
    BY <1>2 DEF Write, sourceVars, Platform
  <2> QED
    BY <2>1 DEF SourceKept
<1>3. CASE UNCHANGED vars
  <2>1. UNCHANGED <<setting, table, buffer, dangling, stream, past, at, pc>> /\ UNCHANGED Platform
    BY <1>3 DEF vars, hostVars, sourceVars, Platform
  <2> QED
    BY <2>1 DEF SourceKept
<1> QED
  BY <1>1, <1>2, <1>3, StepCases, SourceScanStep

LEMMA Remainder ==
  ASSUME NEW w \in Nat, w > 0, NEW a \in Nat, NEW b \in Nat
  PROVE  a * b \in Nat /\ (a * b) % w \in 0..w - 1
<1>1. \A n \in Nat : n % w \in 0..w - 1
  OBVIOUS
<1>2. a * b \in Nat
  OBVIOUS
<1> QED
  BY <1>1, <1>2

LEMMA SpaceFacts ==
  ASSUME HostKept, NEW m \in Mounts
  PROVE  /\ Space(m) \in SpaceOf /\ Space(m).of = m
         /\ Space(m).total = (m.blocks * m.bsize) % Word
<1> DEFINE avail == IF bfree[m] > m.reserved THEN bfree[m] - m.reserved ELSE 0
           left == (m.blocks + Word - bfree[m]) % Word
<1>1. /\ m.blocks \in Nat /\ m.bsize \in Nat /\ m.reserved \in Nat
      /\ bfree[m] \in Nat /\ bfree[m] <= m.blocks /\ Word \in Nat /\ Word > 0
  BY MountFacts, DiskAssumption DEF HostKept
<1>2. avail \in Nat
  BY <1>1
<1>3. left \in Nat
  <2>1. m.blocks + Word - bfree[m] \in Nat
    BY <1>1
  <2> QED
    BY <1>1, <2>1
<1> HIDE DEF avail, left
<1>4. /\ (m.blocks * m.bsize) % Word \in 0..Word - 1
      /\ (left * m.bsize) % Word \in 0..Word - 1
      /\ (avail * m.bsize) % Word \in 0..Word - 1
  BY <1>1, <1>2, <1>3, Remainder
<1>5. Space(m) = [of |-> m, total |-> (m.blocks * m.bsize) % Word,
                  used |-> (left * m.bsize) % Word, free |-> (avail * m.bsize) % Word]
  BY DEF Space, avail, left
<1> QED
  BY <1>4, <1>5 DEF SpaceOf

\* Whatever else runs, an entry pointer leads to an entry of the table.
LEMMA LookFacts ==
  ASSUME HostKept, SourceKept, NEW t \in Scans, pc[t] \in InBody
  PROVE  Look(t) \subseteq Mounts /\ Current(t) \in Mounts
<1>0. Platform \in {"Linux", "macOS"} /\ Settings[setting].mounts \subseteq Mounts
  BY SettingFacts DEF HostKept, Platform
<1>1. Current(t) \in Mounts
  <2>1. CASE Platform = "Linux"
    <3>1. at[t] = [idx |-> 1, count |-> 0] /\ Len(buffer) = 1
      BY <2>1 DEF SourceKept
    <3> QED
      BY <2>1, <3>1 DEF SourceKept, Current
  <2>2. CASE Platform = "macOS"
    <3>1. /\ at[t].idx <= at[t].count /\ at[t].count < Len(buffer) /\ at[t].idx >= 1
          /\ at[t].idx \in Nat /\ at[t].count \in Nat
      BY <2>2 DEF SourceKept
    <3>2. Len(buffer) \in Nat
      BY LenProperties DEF SourceKept
    <3>3. at[t].idx \in 1..Len(buffer) - 1
      BY <3>1, <3>2
    <3> QED
      BY <2>2, <3>3 DEF SourceKept, Current
  <2> QED
    BY <1>0, <2>1, <2>2
<1> QED
  BY <1>0, <1>1 DEF Look, Current

\* What statvfs finds: some file system, and that of a visible mount when it
\* is asked of its directory.
LEMMA AskedFacts ==
  ASSUME HostKept, RowsKept, NEW t \in Scans, pc[t] = "statvfs"
  PROVE  /\ Resolve(Asked(t)) \in Mounts
         /\ \A m \in Visible(table) : ent[t].mount_point = m.dir => Resolve(Asked(t)) = m
<1>1. ent[t].mount_point \in Dirs
  BY DEF RowsKept
<1>2. Asked(t) \in Seq(STRING)
  BY <1>1, MountFacts DEF Dirs, Asked
<1>3. Resolve(Asked(t)) \in Mounts
  BY <1>2, ResolveFacts, TableFacts
<1>4. \A m \in Visible(table) : ent[t].mount_point = m.dir => Resolve(Asked(t)) = m
  BY ResolveOwn DEF Asked
<1> QED
  BY <1>3, <1>4

LEMMA RowsInit ==
  ASSUME Init
  PROVE  RowsKept
<1>1. /\ pc = [t \in Scans |-> "start"] /\ disks = [t \in Scans |-> <<>>]
      /\ ent = [t \in Scans |-> [fs_type |-> "", mount_point |-> <<>>, buf |-> NoBuf]]
  BY DEF Init
<1>2. <<>> \in Seq(Row)
  BY EmptySeq
<1>3. \A t \in Scans : pc[t] = "start" /\ "start" \notin InBody
  BY <1>1 DEF InBody
<1>4. ent \in [Scans -> [fs_type : Kinds \cup {""}, mount_point : Dirs \cup {<<>>},
                        buf : SpaceOf \cup {NoBuf}]]
  BY <1>1
<1>5. \A t \in Scans : pc[t] \notin {"statvfs", "mnt_fsname"} /\ disks[t] = <<>>
  BY <1>1
<1>6. disks \in [Scans -> Seq(Row)]
  BY <1>1, <1>2
<1> QED
  BY <1>3, <1>4, <1>5, <1>6 DEF RowsKept

Locals == [fs_type : Kinds \cup {""}, mount_point : Dirs \cup {<<>>}, buf : SpaceOf \cup {NoBuf}]

\* The row AddRow adds is a row of the table.
LEMMA RowFacts ==
  ASSUME RowsKept, NEW t \in Scans, pc[t] = "mnt_fsname", NEW m \in Mounts
  PROVE  [file_system |-> m.fsname, file_system_type |-> ent[t].fs_type,
          mount_point |-> ent[t].mount_point, space |-> ent[t].buf] \in Row
<1>1. /\ ent[t].fs_type \in Kinds /\ ent[t].mount_point \in Dirs
      /\ ent[t].buf \in SpaceOf /\ ent[t].buf.total # 0
  BY DEF RowsKept, InBody
<1>2. ent[t].buf \in [of : Mounts, total : 1..Word - 1, used : 0..Word - 1, free : 0..Word - 1]
  <2>1. /\ ent[t].buf.of \in Mounts /\ ent[t].buf.total \in 0..Word - 1
        /\ ent[t].buf.used \in 0..Word - 1 /\ ent[t].buf.free \in 0..Word - 1
        /\ ent[t].buf = [of |-> ent[t].buf.of, total |-> ent[t].buf.total,
                         used |-> ent[t].buf.used, free |-> ent[t].buf.free]
    BY <1>1 DEF SpaceOf
  <2>2. \A n \in 0..Word - 1 : n # 0 => n \in 1..Word - 1
    BY DiskAssumption
  <2>3. ent[t].buf.total \in 1..Word - 1
    BY <1>1, <2>1, <2>2
  <2> QED
    BY <2>1, <2>3
<1> QED
  BY <1>1, <1>2 DEF Row, Kinds, Dirs

LEMMA RowsScanStep ==
  ASSUME HostKept, ScansKept, SourceKept, RowsKept, NEW t \in Scans, ScanStep(t)
  PROVE  RowsKept'
<1>0. /\ pc \in [Scans -> Statements] /\ ent \in [Scans -> Locals]
      /\ disks \in [Scans -> Seq(Row)]
  BY DEF ScansKept, RowsKept, Locals
<1>1. CASE Open(t) \/ GetMntInfo(t) \/ GetMntEnt(t) \/ NextIndex(t) \/ Throw(t)
  <2>1. /\ UNCHANGED <<ent, disks>> /\ \A s \in Scans \ {t} : pc'[s] = pc[s]
        /\ pc'[t] \in {"next", "mnt_type", "done", "failed", "thrown"}
        /\ pc'[t] = "failed" => pc[t] = "start"
    BY <1>0, <1>1 DEF Open, GetMntInfo, GetMntEnt, NextIndex, Throw, Goto
  <2>2. pc'[t] \notin InBody \ {"mnt_type"} /\ pc'[t] # "start"
    BY <2>1 DEF InBody
  <2> QED
    BY <2>1, <2>2 DEF RowsKept
<1>2. CASE ReadType(t)
  <2>1. PICK m \in Mounts : ent' = [ent EXCEPT ![t].fs_type = m.type]
    BY <1>2, LookFacts DEF ReadType, Goto, InBody
  <2>2. m.type \in Kinds
    BY DEF Kinds
  <2>3. /\ ent' \in [Scans -> Locals] /\ ent'[t].fs_type \in Kinds
        /\ \A s \in Scans \ {t} : ent'[s] = ent[s]
    BY <1>0, <2>1, <2>2 DEF Locals
  <2>4. UNCHANGED disks /\ pc'[t] = "mnt_dir" /\ \A s \in Scans \ {t} : pc'[s] = pc[s]
    BY <1>0, <1>2 DEF ReadType, Goto
  <2> QED
    BY <1>0, <2>3, <2>4 DEF RowsKept, Locals
<1>3. CASE ReadDir(t)
  <2>1. PICK m \in Mounts : ent' = [ent EXCEPT ![t].mount_point = m.dir]
    BY <1>3, LookFacts DEF ReadDir, Goto, InBody
  <2>2. m.dir \in Dirs
    BY DEF Dirs
  <2>3. /\ ent' \in [Scans -> Locals] /\ ent'[t].fs_type = ent[t].fs_type
        /\ ent'[t].mount_point \in Dirs
        /\ \A s \in Scans \ {t} : ent'[s] = ent[s]
    BY <1>0, <2>1, <2>2 DEF Locals
  <2>4. /\ UNCHANGED disks /\ pc[t] = "mnt_dir" /\ pc'[t] \in {"next", "statvfs"}
        /\ \A s \in Scans \ {t} : pc'[s] = pc[s]
    BY <1>0, <1>3 DEF ReadDir, Goto, AfterFilter
  <2>5. ent[t].fs_type \in Kinds
    BY <2>4 DEF RowsKept, InBody
  <2> QED
    BY <1>0, <2>3, <2>4, <2>5 DEF RowsKept, Locals
<1>4. CASE StatVfs(t)
  <2>0. /\ pc[t] = "statvfs" /\ UNCHANGED disks
        /\ \A s \in Scans \ {t} : pc'[s] = pc[s]
    BY <1>0, <1>4 DEF StatVfs
  <2>1. PICK m \in {Resolve(Asked(t))} :
          \/ /\ pc' = [pc EXCEPT ![t] = IF Reportable(Space(m)) THEN "mnt_fsname" ELSE "next"]
             /\ ent' = [ent EXCEPT ![t].buf = Space(m)]
          \/ pc' = [pc EXCEPT ![t] = "next"] /\ UNCHANGED ent
    BY <1>4 DEF StatVfs, AfterFailure
  <2>2. m \in Mounts
    BY <2>0, <2>1, AskedFacts
  <2>3. CASE pc' = [pc EXCEPT ![t] = "next"] /\ UNCHANGED ent
    <3>1. pc'[t] = "next"
      BY <1>0, <2>3
    <3> QED
      BY <2>0, <2>3, <3>1 DEF RowsKept, InBody
  <2>4. CASE /\ pc' = [pc EXCEPT ![t] = IF Reportable(Space(m)) THEN "mnt_fsname" ELSE "next"]
             /\ ent' = [ent EXCEPT ![t].buf = Space(m)]
    <3>1. Space(m) \in SpaceOf
      BY <2>2, SpaceFacts
    <3>2. /\ ent' \in [Scans -> Locals] /\ ent'[t].fs_type = ent[t].fs_type
          /\ ent'[t].mount_point = ent[t].mount_point /\ ent'[t].buf = Space(m)
          /\ \A s \in Scans \ {t} : ent'[s] = ent[s]
      BY <1>0, <2>4, <3>1 DEF Locals
    <3>3. pc'[t] \in {"mnt_fsname", "next"} /\ (pc'[t] = "mnt_fsname" => Space(m).total # 0)
      BY <1>0, <2>4 DEF Reportable
    <3>4. ent[t].fs_type \in Kinds /\ ent[t].mount_point \in Dirs
      BY <2>0 DEF RowsKept, InBody
    <3> QED
      BY <1>0, <2>0, <3>1, <3>2, <3>3, <3>4 DEF RowsKept, Locals
  <2> QED
    BY <2>1, <2>3, <2>4
<1>5. CASE AddRow(t)
  <2>0. /\ pc[t] = "mnt_fsname" /\ pc'[t] = "next" /\ UNCHANGED ent
        /\ \A s \in Scans \ {t} : pc'[s] = pc[s]
    BY <1>0, <1>5 DEF AddRow, Goto
  <2>1. PICK m \in Mounts : disks' = [disks EXCEPT ![t] = Append(@,
            [file_system |-> m.fsname, file_system_type |-> ent[t].fs_type,
             mount_point |-> ent[t].mount_point, space |-> ent[t].buf])]
    BY <1>5, <2>0, LookFacts DEF AddRow, InBody
  <2>2. PICK row \in Row : disks' = [disks EXCEPT ![t] = Append(@, row)]
    BY <2>0, <2>1, RowFacts
  <2>3. /\ disks' \in [Scans -> Seq(Row)] /\ \A s \in Scans \ {t} : disks'[s] = disks[s]
    BY <1>0, <2>2, AppendProperties
  <2> QED
    BY <2>0, <2>3 DEF RowsKept, InBody
<1> QED
  BY <1>1, <1>2, <1>3, <1>4, <1>5 DEF ScanStep

LEMMA RowsStep ==
  ASSUME HostKept, ScansKept, SourceKept, RowsKept, [Next]_vars
  PROVE  RowsKept'
<1>1. CASE Mount \/ Unmount
  <2>1. UNCHANGED <<pc, ent, disks>>
    BY <1>1, TableStep
  <2> QED
    BY <2>1 DEF RowsKept
<1>2. CASE Write
  <2>1. UNCHANGED <<pc, ent, disks>>
    BY <1>2 DEF Write
  <2> QED
    BY <2>1 DEF RowsKept
<1>3. CASE UNCHANGED vars
  <2>1. UNCHANGED <<pc, ent, disks>>
    BY <1>3 DEF vars
  <2> QED
    BY <2>1 DEF RowsKept
<1> QED
  BY <1>1, <1>2, <1>3, StepCases, RowsScanStep

\* The inductive invariant holds in every state.
THEOREM TypesKept == Spec => []Types
<1>1. Init => Types
  <2> SUFFICES ASSUME Init
               PROVE  Types
    OBVIOUS
  <2>1. HostKept
    BY HostInit
  <2>2. ScansKept
    <3>1. /\ pc = [t \in Scans |-> "start"] /\ fp = {} /\ dangling = {}
          /\ stable = [t \in Scans |-> {}]
      BY DEF Init
    <3> QED
      BY <3>1 DEF ScansKept, Statements
  <2> QED
    BY <2>1, <2>2, SourceInit, RowsInit DEF Types
<1>2. Types /\ [Next]_vars => Types'
  BY HostStep_, ScansStep, SourceStep, RowsStep DEF Types
<1> QED
  BY <1>1, <1>2, PTL DEF Spec

\* Every variable keeps its type: an entry pointer stays inside the buffer,
\* and a row is of some file system, not an empty one, whatever was mounted
\* or unmounted meanwhile and however the scans overlapped.
THEOREM TypeCorrect == Spec => []TypeOK
<1>1. Types => TypeOK
  <2> SUFFICES ASSUME Types
               PROVE  TypeOK
    OBVIOUS
  <2>1. \A m \in Mounts : bfree[m] \in 0..m.blocks
    <3>1. \A m \in Mounts : m.blocks \in Nat /\ bfree[m] \in Nat /\ bfree[m] <= m.blocks
      BY MountFacts DEF Types, HostKept
    <3> QED
      BY <3>1
  <2>2. ASSUME NEW t \in Scans
        PROVE  at[t].idx \in 0..Len(buffer) + 1
    <3>1. /\ Platform \in {"Linux", "macOS"} /\ Len(buffer) \in Nat
          /\ at[t].idx \in Nat /\ at[t].count \in Nat
      BY SettingFacts, LenProperties DEF Types, HostKept, SourceKept, Platform
    <3>2. CASE at[t] = [idx |-> 1, count |-> 0]
      BY <3>1, <3>2
    <3>3. CASE at[t].idx <= at[t].count /\ at[t].count < Len(buffer)
      BY <3>1, <3>3
    <3> QED
      BY <3>1, <3>2, <3>3 DEF Types, ScansKept, SourceKept, Statements
  <2>3. ASSUME NEW t \in Scans
        PROVE  /\ pc[t] \in {"start", "next", "mnt_type", "mnt_dir", "statvfs", "mnt_fsname",
                             "done", "failed", "thrown"}
               /\ stream[t] \in Seq(Mounts) /\ stable[t] \subseteq Mounts
               /\ past[t] \in 0..Len(table) /\ disks[t] \in Seq(Row)
    <3>1. pc[t] \in Statements /\ stable[t] \subseteq Mounts
      BY DEF Types, ScansKept
    <3>2. stream[t] \in Seq(Mounts) /\ past[t] \in Nat /\ past[t] <= Len(table)
      BY DEF Types, SourceKept
    <3>3. disks[t] \in Seq(Row)
      BY DEF Types, RowsKept
    <3> QED
      BY <3>1, <3>2, <3>3, TableFacts DEF Types, Statements, InBody
  <2> QED
    BY <2>1, <2>2, <2>3 DEF Types, HostKept, ScansKept, SourceKept, TypeOK
<1> QED
  BY <1>1, TypesKept, PTL

-----------------------------------------------------------------------------
(* The stream of the mount table. *)

\* However a Linux scan ends it closes the mount table, unless an exception
\* ends it: there is one endmntent, after the loop, and no other way past it.
THEOREM StreamLeaks == Spec => []StreamLeaksOnlyIfThrown
<1>1. Init => StreamLeaksOnlyIfThrown
  <2> SUFFICES ASSUME Init
               PROVE  StreamLeaksOnlyIfThrown
    OBVIOUS
  <2>1. pc = [t \in Scans |-> "start"] /\ fp = {}
    BY DEF Init
  <2> QED
    BY <2>1 DEF StreamLeaksOnlyIfThrown, Over
<1>2. Types /\ StreamLeaksOnlyIfThrown /\ [Next]_vars => StreamLeaksOnlyIfThrown'
  <2> SUFFICES ASSUME Types, StreamLeaksOnlyIfThrown, [Next]_vars
               PROVE  StreamLeaksOnlyIfThrown'
    OBVIOUS
  <2>0. pc \in [Scans -> Statements]
    BY DEF Types, ScansKept
  <2>1. CASE UNCHANGED <<setting, fp, pc>>
    BY <2>1 DEF StreamLeaksOnlyIfThrown, Over
  <2>2. ASSUME NEW t \in Scans, ScanStep(t)
        PROVE  StreamLeaksOnlyIfThrown'
    <3>0. UNCHANGED setting
      BY <2>2, ScanLeavesHost DEF hostVars
    <3>1. CASE Platform = "Linux" /\ Open(t)
      BY <2>0, <3>0, <3>1 DEF Open, Goto, StreamLeaksOnlyIfThrown, Over
    <3>2. CASE Platform = "Linux" /\ GetMntEnt(t)
      BY <2>0, <3>0, <3>2 DEF GetMntEnt, StreamLeaksOnlyIfThrown, Over
    <3>3. CASE Platform = "macOS"
      BY <3>0, <3>3 DEF StreamLeaksOnlyIfThrown, Platform
    <3>4. CASE BodyStep(t)
      <4>1. UNCHANGED fp /\ pc[t] \in InBody /\ pc'[t] \in InBody \cup {"next", "thrown"}
            /\ \A s \in Scans \ {t} : pc'[s] = pc[s]
        BY <3>4, BodyFacts DEF Types, sourceVars
      <4> QED
        BY <3>0, <4>1 DEF StreamLeaksOnlyIfThrown, Over, InBody
    <3> QED
      BY <2>2, <3>1, <3>2, <3>3, <3>4 DEF ScanStep, BodyStep
  <2>3. Write \/ UNCHANGED vars => UNCHANGED <<setting, fp, pc>>
    BY DEF Write, vars, hostVars, sourceVars
  <2>4. Mount \/ Unmount => UNCHANGED <<setting, fp, pc>>
    BY TableStep DEF Types
  <2> QED
    BY <2>1, <2>2, <2>3, <2>4, StepCases
<1> QED
  BY <1>1, <1>2, TypesKept, PTL DEF Spec

-----------------------------------------------------------------------------
(* The space of a row. *)

LEMMA RowsAre ==
  ASSUME RowsKept, NEW t \in Scans
  PROVE  Range(disks[t]) = {disks[t][i] : i \in 1..Len(disks[t])}
<1>1. disks[t] \in Seq(Row)
  BY DEF RowsKept
<1> QED
  BY <1>1, LenProperties DEF Range

LEMMA RangeAppend ==
  ASSUME NEW S, NEW s \in Seq(S), NEW e \in S
  PROVE  Range(Append(s, e)) = Range(s) \cup {e}
<1>1. /\ Append(s, e) \in Seq(S) /\ Len(Append(s, e)) = Len(s) + 1
      /\ \A i \in 1..Len(s) : Append(s, e)[i] = s[i]
      /\ Append(s, e)[Len(s) + 1] = e
  BY AppendProperties
<1>2. Len(s) \in Nat /\ DOMAIN s = 1..Len(s) /\ DOMAIN Append(s, e) = 1..Len(s) + 1
  BY <1>1, LenProperties
<1>3. 1..Len(s) + 1 = (1..Len(s)) \cup {Len(s) + 1}
  BY <1>2
<1> QED
  BY <1>1, <1>2, <1>3 DEF Range

\* The row a scan adds.
NewRow(t, m) ==
  [file_system |-> m.fsname, file_system_type |-> ent[t].fs_type,
   mount_point |-> ent[t].mount_point, space |-> ent[t].buf]

LEMMA AddRowFacts ==
  ASSUME ScansKept, HostKept, SourceKept, RowsKept, NEW t \in Scans, AddRow(t)
  PROVE  /\ pc[t] = "mnt_fsname" /\ pc'[t] = "next" /\ UNCHANGED <<ent, stable, sourceVars, hostVars>>
         /\ \A s \in Scans \ {t} : pc'[s] = pc[s] /\ disks'[s] = disks[s]
         /\ \E m \in Look(t) :
              /\ m \in Mounts /\ NewRow(t, m) \in Row
              /\ disks'[t] = Append(disks[t], NewRow(t, m))
<1>0. pc \in [Scans -> Statements] /\ disks \in [Scans -> Seq(Row)]
  BY DEF ScansKept, RowsKept
<1>1. /\ pc[t] = "mnt_fsname" /\ pc'[t] = "next" /\ UNCHANGED <<ent, stable, sourceVars, hostVars>>
      /\ \A s \in Scans \ {t} : pc'[s] = pc[s]
  BY <1>0 DEF AddRow, Goto
<1>2. PICK m \in Look(t) : disks' = [disks EXCEPT ![t] = Append(@, NewRow(t, m))]
  BY DEF AddRow, NewRow
<1>3. m \in Mounts
  BY <1>1, <1>2, LookFacts DEF InBody
<1>4. NewRow(t, m) \in Row
  BY <1>1, <1>3, RowFacts DEF NewRow
<1> QED
  BY <1>0, <1>1, <1>2, <1>3, <1>4

THEOREM SpacesKept == Spec => []SpaceKept
<1>1. Init => SpaceKept
  <2> SUFFICES ASSUME Init
               PROVE  SpaceKept
    OBVIOUS
  <2>1. pc = [t \in Scans |-> "start"] /\ stable = [t \in Scans |-> {}]
    BY DEF Init
  <2> QED
    BY <2>1 DEF SpaceKept, SpaceOfOwnMountPoint
<1>2. Types /\ SpaceKept /\ [Next]_vars => SpaceKept'
  <2> SUFFICES ASSUME Types, SpaceKept, [Next]_vars
               PROVE  SpaceKept'
    OBVIOUS
  <2> USE DEF Types
  <2>0. /\ pc \in [Scans -> Statements] /\ stable \in [Scans -> SUBSET Mounts]
        /\ ent \in [Scans -> Locals]
    BY DEF ScansKept, RowsKept, Locals
  <2>1. CASE Mount \/ Unmount
    <3>1. UNCHANGED <<pc, ent, disks>> /\ \A t \in Scans : stable'[t] \subseteq stable[t]
      BY <2>1, TableStep
    <3> QED
      BY <3>1 DEF SpaceKept, SpaceOfOwnMountPoint
  <2>2. CASE UNCHANGED <<pc, ent, disks, stable>>
    BY <2>2 DEF SpaceKept, SpaceOfOwnMountPoint
  <2>3. ASSUME NEW t \in Scans, ScanStep(t)
        PROVE  SpaceKept'
    <3>1. CASE Open(t) \/ GetMntInfo(t)
      <4>1. /\ pc[t] = "start" /\ pc'[t] # "mnt_fsname" /\ UNCHANGED <<ent, disks>>
            /\ \A s \in Scans \ {t} : pc'[s] = pc[s] /\ stable'[s] = stable[s]
        BY <2>0, <3>1 DEF Open, GetMntInfo, Goto, Begins
      <4>2. disks'[t] = <<>>
        BY <4>1 DEF RowsKept
      <4>3. Range(disks'[t]) = {}
        BY <4>2 DEF Range
      <4> QED
        BY <4>1, <4>3 DEF SpaceKept, SpaceOfOwnMountPoint
    <3>2. CASE GetMntEnt(t) \/ NextIndex(t) \/ Throw(t)
      <4>1. /\ pc'[t] # "mnt_fsname" /\ UNCHANGED <<ent, disks, stable>>
            /\ \A s \in Scans \ {t} : pc'[s] = pc[s]
        BY <2>0, <3>2 DEF GetMntEnt, NextIndex, Throw, Goto
      <4> QED
        BY <4>1 DEF SpaceKept, SpaceOfOwnMountPoint
    <3>3. CASE ReadType(t) \/ ReadDir(t)
      <4>1. /\ pc'[t] # "mnt_fsname" /\ UNCHANGED <<disks, stable>>
            /\ \A s \in Scans \ {t} : pc'[s] = pc[s] /\ ent'[s] = ent[s]
        BY <2>0, <3>3 DEF ReadType, ReadDir, AfterFilter, Goto
      <4> QED
        BY <4>1 DEF SpaceKept, SpaceOfOwnMountPoint
    <3>4. CASE StatVfs(t)
      <4>1. /\ pc[t] = "statvfs" /\ UNCHANGED <<disks, stable>>
            /\ \A s \in Scans \ {t} : pc'[s] = pc[s] /\ ent'[s] = ent[s]
            /\ pc'[t] = "mnt_fsname" => ent' = [ent EXCEPT ![t].buf = Space(Resolve(Asked(t)))]
        BY <2>0, <3>4 DEF StatVfs, AfterFailure
      <4>2. ASSUME pc'[t] = "mnt_fsname", NEW m \in stable[t], ent'[t].mount_point = m.dir
            PROVE  ent'[t].buf.of = m
        <5>1. ent[t] \in Locals
          BY <2>0
        <5>2. /\ ent'[t].buf = Space(Resolve(Asked(t)))
              /\ ent'[t].mount_point = ent[t].mount_point
          <6>1. PICK space : space = Space(Resolve(Asked(t)))
            OBVIOUS
          <6>2. ent' = [ent EXCEPT ![t].buf = space]
            BY <4>1, <4>2, <6>1
          <6>3. ent'[t] = [ent[t] EXCEPT !.buf = space]
            BY <2>0, <6>2
          <6> QED
            BY <5>1, <6>1, <6>3 DEF Locals
        <5>3. m \in Visible(table) /\ m \in Mounts
          BY DEF ScansKept
        <5>4. Resolve(Asked(t)) = m
          BY <4>1, <4>2, <5>2, <5>3, AskedFacts
        <5> QED
          BY <5>2, <5>3, <5>4, SpaceFacts
      <4>3. \A s \in Scans : pc'[s] = "mnt_fsname" => \A m \in stable'[s] :
              ent'[s].mount_point = m.dir => ent'[s].buf.of = m
        BY <4>1, <4>2 DEF SpaceKept
      <4> QED
        BY <4>1, <4>3 DEF SpaceKept, SpaceOfOwnMountPoint
    <3>5. CASE AddRow(t)
      <4>1. /\ pc[t] = "mnt_fsname" /\ pc'[t] = "next" /\ UNCHANGED <<ent, stable>>
            /\ \A s \in Scans \ {t} : pc'[s] = pc[s] /\ disks'[s] = disks[s]
        BY <3>5, AddRowFacts
      <4>2. PICK m \in Look(t) : m \in Mounts /\ NewRow(t, m) \in Row
                              /\ disks'[t] = Append(disks[t], NewRow(t, m))
        BY <3>5, AddRowFacts
      <4>3. disks[t] \in Seq(Row)
        BY DEF RowsKept
      <4>4. Range(disks'[t]) = Range(disks[t]) \cup {NewRow(t, m)}
        BY <4>2, <4>3, RangeAppend
      <4>5. \A n \in stable[t] : NewRow(t, m).mount_point = n.dir => NewRow(t, m).space.of = n
        BY <4>1 DEF NewRow, SpaceKept
      <4> QED
        BY <4>1, <4>4, <4>5 DEF SpaceKept, SpaceOfOwnMountPoint
    <3> QED
      BY <2>3, <3>1, <3>2, <3>3, <3>4, <3>5 DEF ScanStep
  <2>4. Write \/ UNCHANGED vars => UNCHANGED <<pc, ent, disks, stable>>
    BY DEF Write, vars
  <2> QED
    BY <2>1, <2>2, <2>3, <2>4, StepCases
<1> QED
  BY <1>1, <1>2, TypesKept, PTL DEF Spec

\* The space of a row is that of the file system on its mount point, if that
\* stayed mounted and uncovered: even when scans overlap, and the rest of the
\* row is another entry's.
THEOREM SpaceIsOfMountPoint == Spec => []SpaceOfOwnMountPoint
<1>1. SpaceKept => SpaceOfOwnMountPoint
  BY DEF SpaceKept
<1> QED
  BY <1>1, SpacesKept, PTL

-----------------------------------------------------------------------------
(* A scan that no other overlaps. *)

\* The other scans have not begun.
LEMMA OthersWait ==
  ASSUME HostKept, ScansKept, Alone, NEW t \in Scans, t \in Settings[setting].scans,
         NEW s \in Scans \ {t}
  PROVE  pc[s] = "start"
BY OneScan DEF ScansKept

LEMMA LookAlone ==
  ASSUME EntryKept, NEW t \in Scans
  PROVE  Look(t) = {Current(t)}
BY DEF EntryKept, Look, Current

LEMMA EntryScanStep ==
  ASSUME Types, Types', Alone, EntryKept,
         NEW t \in Scans, t \in Settings[setting].scans, ScanStep(t)
  PROVE  EntryKept'
<1> USE DEF Types
<1>0. /\ pc \in [Scans -> Statements] /\ ent \in [Scans -> Locals]
      /\ \A s \in Scans \ {t} : pc[s] = "start"
  BY OthersWait DEF ScansKept, RowsKept, Locals
<1>1. CASE Open(t) \/ GetMntInfo(t) \/ GetMntEnt(t) \/ NextIndex(t) \/ Throw(t)
  <2>1. /\ UNCHANGED <<ent, disks>> /\ \A s \in Scans \ {t} : pc'[s] = "start"
        /\ pc'[t] \in {"next", "mnt_type", "done", "failed", "thrown"}
    BY <1>0, <1>1 DEF Open, GetMntInfo, GetMntEnt, NextIndex, Throw, Goto
  <2>2. \A s \in Scans : /\ pc'[s] \notin InBody \ {"mnt_type"}
                        /\ pc'[s] \notin {"statvfs", "mnt_fsname"}
    BY <2>1 DEF InBody
  <2>3. dangling' = {}
    <3>1. CASE GetMntInfo(t)
      <4>1. pc[t] = "start"
        BY <3>1 DEF GetMntInfo, Goto
      <4>2. \A s \in Scans : at[s] = [idx |-> 1, count |-> 0]
        BY <1>0, <4>1 DEF SourceKept
      <4>3. \A s \in Scans : ~(at[s].count > 0)
        BY <4>2
      <4> QED
        BY <3>1, <4>3 DEF GetMntInfo, EntryKept
    <3>2. CASE UNCHANGED dangling
      BY <3>2 DEF EntryKept
    <3> QED
      BY <1>1, <3>1, <3>2 DEF Open, GetMntEnt, NextIndex, Throw, sourceVars
  <2> QED
    BY <2>1, <2>2, <2>3 DEF EntryKept
<1>2. CASE BodyStep(t)
  <2>0. /\ UNCHANGED <<buffer, at, dangling>> /\ dangling' = {} /\ Current(t)' = Current(t)
        /\ \A s \in Scans \ {t} : pc'[s] = "start"
        /\ "start" \notin InBody
    BY <1>0, <1>2, BodyFacts DEF sourceVars, Current, EntryKept, InBody
  <2>1. CASE ReadType(t)
    <3>1. /\ pc'[t] = "mnt_dir" /\ UNCHANGED disks
          /\ ent' = [ent EXCEPT ![t].fs_type = Current(t).type]
      <4>1. PICK m \in Look(t) : ent' = [ent EXCEPT ![t].fs_type = m.type]
        BY <2>1 DEF ReadType
      <4>2. m = Current(t)
        BY <4>1, LookAlone
      <4>3. pc' = [pc EXCEPT ![t] = "mnt_dir"] /\ UNCHANGED disks
        BY <2>1 DEF ReadType, Goto
      <4>4. pc'[t] = "mnt_dir"
        BY <1>0, <4>3
      <4> QED
        BY <4>1, <4>2, <4>3, <4>4
    <3>2. ent[t] \in Locals
      BY <1>0
    <3>3. ent'[t].fs_type = Current(t).type
      BY <1>0, <3>1, <3>2 DEF Locals
    <3> QED
      BY <2>0, <3>1, <3>3 DEF EntryKept
  <2>2. CASE ReadDir(t)
    <3>0. PICK m \in Look(t) : ent' = [ent EXCEPT ![t].mount_point = m.dir]
      BY <2>2 DEF ReadDir
    <3>1. /\ pc[t] = "mnt_dir" /\ UNCHANGED disks
          /\ ent' = [ent EXCEPT ![t].mount_point = Current(t).dir]
      <4>1. m = Current(t)
        BY <3>0, LookAlone
      <4>2. pc[t] = "mnt_dir" /\ UNCHANGED disks
        BY <2>2 DEF ReadDir
      <4> QED
        BY <3>0, <4>1, <4>2
    <3>2. ent[t] \in Locals
      BY <1>0
    <3>3. ent'[t].mount_point = Current(t).dir /\ ent'[t].fs_type = ent[t].fs_type
      BY <1>0, <3>1, <3>2 DEF Locals
    <3>4. ent[t].fs_type = Current(t).type
      BY <3>1 DEF EntryKept, InBody
    <3> QED
      BY <2>0, <3>1, <3>3, <3>4 DEF EntryKept
  <2>3. CASE StatVfs(t)
    <3>1. /\ pc[t] = "statvfs" /\ UNCHANGED disks
          /\ UNCHANGED ent \/ ent' = [ent EXCEPT ![t].buf = Space(Resolve(Asked(t)))]
      BY <2>3 DEF StatVfs
    <3>2. ent[t] \in Locals
      BY <1>0
    <3>3. ent'[t].mount_point = ent[t].mount_point /\ ent'[t].fs_type = ent[t].fs_type
      <4>1. CASE UNCHANGED ent
        BY <4>1
      <4>2. CASE ent' = [ent EXCEPT ![t].buf = Space(Resolve(Asked(t)))]
        BY <1>0, <3>2, <4>2 DEF Locals
      <4> QED
        BY <3>1, <4>1, <4>2
    <3>4. ent[t].fs_type = Current(t).type /\ ent[t].mount_point = Current(t).dir
      BY <3>1 DEF EntryKept, InBody
    <3> QED
      BY <2>0, <3>1, <3>3, <3>4 DEF EntryKept
  <2>4. CASE AddRow(t)
    <3>1. /\ pc[t] = "mnt_fsname" /\ pc'[t] = "next" /\ UNCHANGED ent
          /\ \A s \in Scans \ {t} : disks'[s] = disks[s]
      BY <2>4, AddRowFacts
    <3>2. /\ Current(t) \in Mounts /\ NewRow(t, Current(t)) \in Row
          /\ disks'[t] = Append(disks[t], NewRow(t, Current(t)))
      BY <2>4, AddRowFacts, LookAlone
    <3>3. RowIsOf(NewRow(t, Current(t)), Current(t))
      BY <3>1 DEF EntryKept, InBody, NewRow, RowIsOf
    <3>4. disks[t] \in Seq(Row)
      BY DEF RowsKept
    <3>5. \A i \in 1..Len(disks'[t]) : \E m \in Mounts : RowIsOf(disks'[t][i], m)
      <4>1. /\ Len(disks'[t]) = Len(disks[t]) + 1 /\ Len(disks[t]) \in Nat
            /\ \A i \in 1..Len(disks[t]) : disks'[t][i] = disks[t][i]
            /\ disks'[t][Len(disks[t]) + 1] = NewRow(t, Current(t))
        BY <3>2, <3>4, AppendProperties, LenProperties
      <4>2. \A i \in 1..Len(disks[t]) : \E m \in Mounts : RowIsOf(disks[t][i], m)
        BY DEF EntryKept
      <4>3. 1..Len(disks[t]) + 1 = (1..Len(disks[t])) \cup {Len(disks[t]) + 1}
        BY <4>1
      <4> QED
        BY <3>2, <3>3, <4>1, <4>2, <4>3
    <3>6. pc'[t] \notin InBody /\ pc'[t] \notin {"statvfs", "mnt_fsname"}
      BY <3>1 DEF InBody
    <3> QED
      BY <2>0, <3>1, <3>5, <3>6 DEF EntryKept
  <2>5. CASE Throw(t)
    <3>1. pc'[t] \notin InBody /\ pc'[t] \notin {"statvfs", "mnt_fsname"} /\ UNCHANGED disks
      BY <1>0, <2>5 DEF Throw, InBody
    <3> QED
      BY <2>0, <3>1 DEF EntryKept
  <2> QED
    BY <1>2, <2>1, <2>2, <2>3, <2>4, <2>5 DEF BodyStep
<1> QED
  BY <1>1, <1>2 DEF ScanStep, BodyStep

LEMMA EntryInit ==
  ASSUME Init
  PROVE  EntryKept
<1>1. dangling = {} /\ pc = [t \in Scans |-> "start"] /\ disks = [t \in Scans |-> <<>>]
  BY DEF Init
<1>2. \A t \in Scans : pc[t] = "start" /\ "start" \notin InBody /\ disks[t] = <<>>
  BY <1>1 DEF InBody
<1>3. \A t \in Scans : 1..Len(disks[t]) = {}
  BY <1>2
<1> QED
  BY <1>1, <1>2, <1>3 DEF EntryKept

LEMMA EntryStep ==
  ASSUME Types, Types', Alone, EntryKept, [Next]_vars
  PROVE  EntryKept'
<1>1. CASE Mount \/ Unmount
  <2>1. UNCHANGED <<buffer, dangling, at, pc, ent, disks>>
    BY <1>1, TableStep DEF Types
  <2> QED
    BY <2>1 DEF EntryKept, Current
<1>2. CASE Write \/ UNCHANGED vars
  <2>1. UNCHANGED <<buffer, dangling, at, pc, ent, disks>>
    BY <1>2 DEF Write, vars, sourceVars
  <2> QED
    BY <2>1 DEF EntryKept, Current
<1> QED
  BY <1>1, <1>2, StepCases, EntryScanStep

THEOREM EntriesKept == Spec => [](Alone => EntryKept)
<1>1. Init => (Alone => EntryKept)
  BY EntryInit
<1>2. Types /\ Types' /\ (Alone => EntryKept) /\ [Next]_vars => (Alone => EntryKept)'
  <2>1. Types /\ [Next]_vars => UNCHANGED setting
    BY StepCases, TableStep, ScanLeavesHost DEF Types, Write, vars, hostVars
  <2>2. UNCHANGED setting => (Alone <=> Alone')
    BY DEF Alone
  <2> QED
    BY <2>1, <2>2, EntryStep
<1> QED
  BY <1>1, <1>2, TypesKept, PTL DEF Spec

\* Every row of a scan that no other overlaps describes one entry of the mount
\* table: the entry the static buffer held when its type, its directory and
\* its device were read, and the space of that entry if it stayed in place.
THEOREM RowsAreOfOneMount == Spec => []RowsDescribeOneMount
<1>1. Types /\ (Alone => EntryKept) /\ SpaceOfOwnMountPoint => RowsDescribeOneMount
  <2> SUFFICES ASSUME Types, EntryKept, SpaceOfOwnMountPoint,
                      NEW t \in Scans, NEW row \in Range(disks[t])
               PROVE  \E m \in Mounts : RowOf(t, row, m)
    BY DEF RowsDescribeOneMount
  <2>1. PICK i \in 1..Len(disks[t]) : row = disks[t][i]
    BY RowsAre DEF Types
  <2>2. PICK m \in Mounts : RowIsOf(row, m)
    BY <2>1 DEF EntryKept
  <2>3. m \in stable[t] => row.space.of = m
    BY <2>2 DEF SpaceOfOwnMountPoint, RowIsOf
  <2> QED
    BY <2>2, <2>3 DEF RowOf, RowIsOf
<1> QED
  BY <1>1, TypesKept, EntriesKept, SpaceIsOfMountPoint, PTL

-----------------------------------------------------------------------------
(* No stable file system is missed. *)

\* What identifies an entry of the table in a row.
EntriesDiffer ==
  \A m, n \in Mounts : m.fsname = n.fsname /\ m.dir = n.dir /\ m.type = n.type => m = n

LEMMA RowsOfSame ==
  ASSUME NEW t, NEW m \in stable[t], m \in stable'[t], disks'[t] = disks[t]
  PROVE  RowsOf(t, m)' = RowsOf(t, m)
BY DEF RowsOf, RowOf

LEMMA ServedSame ==
  ASSUME NEW t, NEW m \in stable[t], m \in stable'[t], disks'[t] = disks[t],
         Due(t, m)' <=> Due(t, m), Served(t, m),
         (pc[t] \in InBody /\ m = Current(t))' => m \notin ToCome(t)'
  PROVE  Served(t, m)'
BY RowsOfSame DEF Served

\* An entry that stays is read, or not, as before.
LEMMA UnreadStep ==
  ASSUME HostKept, HostKept', ScansKept, ScansKept', SourceKept, Mount \/ Unmount,
         NEW t \in Scans, NEW m \in stable[t], m \in stable'[t]
  PROVE  m \in Unread(t)' <=> m \in Unread(t)
<1>0. /\ past[t] \in Nat /\ Len(table) \in Nat /\ past[t] <= Len(table)
      /\ Len(table') \in Nat
      /\ m \in Visible(table') /\ \A i, j \in 1..Len(table') : table'[i] = table'[j] => i = j
  <2>1. Len(table') \in Nat /\ \A i, j \in 1..Len(table') : table'[i] = table'[j] => i = j
    <3>1. (HostKept => Len(table) \in Nat /\ \A i, j \in 1..Len(table) : table[i] = table[j] => i = j)'
      BY TableFacts, PTL
    <3> QED
      BY <3>1
  <2> QED
    BY <2>1, TableFacts DEF SourceKept, ScansKept
<1>1. PICK k \in 1..Len(table') : table'[k] = m
  BY <1>0 DEF Visible
<1>2. PICK l \in 1..Len(table) : table[l] = m
  BY DEF ScansKept, Visible
<1>3. \A i, j \in 1..Len(table) : table[i] = table[j] => i = j
  BY TableFacts
<1>4. m \in Unread(t) <=> l > past[t]
  BY <1>0, <1>2, <1>3 DEF Unread
<1>5. past'[t] \in Nat
  BY PastStep
<1>6. m \in Unread(t)' <=> k > past'[t]
  BY <1>0, <1>1, <1>5 DEF Unread
<1>7. CASE \E n \in Settings[setting].mounts \ {table[i] : i \in 1..Len(table)} :
              /\ table' = Append(table, n)
              /\ past' = [s \in Scans |-> IF Len(table') <= past[s] THEN past[s] - 1 ELSE past[s]]
  <2>1. Len(table') = Len(table) + 1 /\ \A j \in 1..Len(table) : table'[j] = table[j]
    BY <1>7, TableInjective
  <2>2. past'[t] = past[t]
    BY <1>0, <1>7, <2>1
  <2>3. l \in 1..Len(table') /\ table'[l] = m
    BY <1>0, <1>2, <2>1
  <2>4. k = l
    BY <1>0, <1>1, <2>3
  <2> QED
    BY <1>4, <1>6, <2>2, <2>4
<1>8. CASE \E i \in 1..Len(table) :
              /\ table' = RemoveAt(table, i)
              /\ past' = [s \in Scans |-> IF i <= past[s] THEN past[s] - 1 ELSE past[s]]
  <2>1. PICK i \in 1..Len(table) :
              /\ table' = RemoveAt(table, i)
              /\ past' = [s \in Scans |-> IF i <= past[s] THEN past[s] - 1 ELSE past[s]]
    BY <1>8
  <2>2. /\ Len(table') = Len(table) - 1
        /\ \A j \in 1..Len(table) - 1 : table'[j] = IF j < i THEN table[j] ELSE table[j + 1]
    BY <2>1, GoneInjective
  <2>3. past'[t] = IF i <= past[t] THEN past[t] - 1 ELSE past[t]
    BY <2>1
  <2>4. l = IF k < i THEN k ELSE k + 1
    <3>1. CASE k < i
      <4>1. k \in 1..Len(table) /\ table[k] = m
        BY <1>0, <1>1, <2>2, <3>1
      <4> QED
        BY <1>2, <1>3, <3>1, <4>1
    <3>2. CASE ~(k < i)
      <4>1. k + 1 \in 1..Len(table) /\ table[k + 1] = m
        BY <1>0, <1>1, <2>2, <3>2
      <4> QED
        BY <1>2, <1>3, <3>2, <4>1
    <3> QED
      BY <3>1, <3>2
  <2>5. k \in Nat /\ i \in Nat
    BY <1>0
  <2>6. l > past[t] <=> k > past'[t]
    BY <1>0, <2>3, <2>4, <2>5
  <2> QED
    BY <1>4, <1>6, <2>6
<1> QED
  BY <1>7, <1>8, TableStep

\* The table changes under a scan.
LEMMA SurveyTable ==
  ASSUME Types, Types', NEW t \in Scans, Surveyed(t), Mount \/ Unmount
  PROVE  Surveyed(t)'
<1>0. /\ UNCHANGED <<setting, buffer, stream, at, pc, disks>> /\ UNCHANGED Platform
      /\ stable'[t] \subseteq stable[t]
  BY TableStep DEF Types, Platform
<1>1. ASSUME NEW m \in stable'[t]
      PROVE  m \in Unread(t)' <=> m \in Unread(t)
  BY <1>0, <1>1, UnreadStep DEF Types
<1>2. ASSUME NEW m \in stable'[t]
      PROVE  m \in ToCome(t)' <=> m \in ToCome(t)
  BY <1>0, <1>1 DEF ToCome
<1>3. OnceEach(t)'
  BY <1>0, <1>1 DEF Surveyed, OnceEach
<1>4. ASSUME NEW m \in stable'[t], Reported(m)
      PROVE  Served(t, m)'
  <2>1. m \in stable[t] /\ Served(t, m)
    BY <1>0, <1>4 DEF Surveyed
  <2>2. (pc[t] \in InBody /\ m = Current(t))' <=> (pc[t] \in InBody /\ m = Current(t))
    BY <1>0 DEF Current
  <2>3. Due(t, m)' <=> Due(t, m)
    BY <1>2, <2>2 DEF Due
  <2>4. (pc[t] \in InBody /\ m = Current(t))' => m \notin ToCome(t)'
    BY <1>2, <2>1, <2>2 DEF Served
  <2> QED
    BY <1>0, <2>1, <2>3, <2>4, ServedSame
<1> QED
  BY <1>0, <1>2, <1>3, <1>4 DEF Surveyed

\* The whole table is still to come, in an empty survey.
LEMMA SurveyBegins ==
  ASSUME Types, Types', NEW t \in Scans,
         pc'[t] = "next", disks'[t] = <<>>, OnceEach(t)', stable'[t] \subseteq ToCome(t)'
  PROVE  Surveyed(t)'
<1>1. pc'[t] \notin InBody
  BY DEF InBody
<1>2. \A m \in stable'[t] : RowsOf(t, m)' = {} /\ Due(t, m)'
  <2>1. 1..Len(disks'[t]) = {}
    OBVIOUS
  <2> QED
    BY <2>1 DEF RowsOf, Due
<1> QED
  BY <1>1, <1>2 DEF Surveyed, Served

\* One entry moves from what is to come to what is at hand.
LEMMA SurveyAdvances ==
  ASSUME Types, NEW t \in Scans, Surveyed(t), pc[t] = "next", pc'[t] \in InBody,
         stable'[t] = stable[t], disks'[t] = disks[t], OnceEach(t)',
         \A m \in stable[t] :
           /\ m \in ToCome(t) <=> m \in ToCome(t)' \/ m = Current(t)'
           /\ m = Current(t)' => m \notin ToCome(t)'
  PROVE  Surveyed(t)'
<1>0. pc[t] \notin InBody /\ pc'[t] # "done"
  BY DEF InBody
<1>1. ASSUME NEW m \in stable[t], Reported(m)
      PROVE  Served(t, m)'
  <2>1. Served(t, m)
    BY <1>1 DEF Surveyed
  <2>2. Due(t, m)' <=> Due(t, m)
    BY <1>0, <1>1 DEF Due
  <2>3. (pc[t] \in InBody /\ m = Current(t))' => m \notin ToCome(t)'
    BY <1>1
  <2> QED
    BY <1>1, <2>1, <2>2, <2>3, ServedSame
<1> QED
  BY <1>0, <1>1 DEF Surveyed

\* Nothing is left.
LEMMA SurveyEnds ==
  ASSUME Types, NEW t \in Scans, Surveyed(t), pc[t] = "next", pc'[t] = "done",
         stable'[t] = stable[t], disks'[t] = disks[t], OnceEach(t)',
         ToCome(t) = {}, ToCome(t)' = {}
  PROVE  Surveyed(t)'
<1>0. pc[t] \notin InBody /\ pc'[t] \notin InBody
  BY DEF InBody
<1>1. ASSUME NEW m \in stable[t], Reported(m)
      PROVE  Served(t, m)'
  <2>1. Served(t, m)
    BY <1>1 DEF Surveyed
  <2>2. Due(t, m)' <=> Due(t, m)
    BY <1>0 DEF Due
  <2> QED
    BY <1>0, <1>1, <2>1, <2>2, ServedSame
<1> QED
  BY <1>0, <1>1 DEF Surveyed

LEMMA TableUnread ==
  ASSUME HostKept, NEW t \in Scans, past[t] = 0
  PROVE  Visible(table) \subseteq Unread(t)
BY TableFacts DEF Unread

LEMMA SurveyOpen ==
  ASSUME Types, Types', SurveyKept, Platform = "Linux", NEW t \in Scans, Open(t), pc'[t] = "next"
  PROVE  Surveyed(t)'
<1>0. /\ pc[t] = "start" /\ UNCHANGED <<setting, table, stream, past, disks>>
      /\ stable'[t] = Visible(table) /\ UNCHANGED Platform
  BY DEF Open, Goto, Begins, Types, ScansKept, hostVars, Platform
<1>1. disks[t] = <<>> /\ stream[t] = <<>> /\ past[t] = 0
  BY <1>0 DEF SurveyKept, Types, RowsKept
<1>2. 1..Len(stream[t]) = {}
  BY <1>1
<1>3. OnceEach(t)'
  BY <1>0, <1>2 DEF OnceEach
<1>4. stable'[t] \subseteq Unread(t)
  BY <1>0, <1>1, TableUnread DEF Types
<1>5. stable'[t] \subseteq ToCome(t)'
  BY <1>0, <1>4 DEF ToCome, Unread
<1> QED
  BY <1>0, <1>1, <1>3, <1>5, SurveyBegins

LEMMA SurveyGetMntInfo ==
  ASSUME Types, Types', Platform = "macOS", NEW t \in Scans, GetMntInfo(t), pc'[t] = "next"
  PROVE  Surveyed(t)'
<1>0. /\ pc[t] = "start" /\ UNCHANGED <<setting, table, disks>>
      /\ stable'[t] = Visible(table) /\ UNCHANGED Platform
      /\ pc \in [Scans -> Statements] /\ at \in [Scans -> [idx : Nat, count : Nat]]
  BY DEF GetMntInfo, Goto, Begins, Types, ScansKept, SourceKept, hostVars, Platform
<1>1. disks[t] = <<>>
  BY <1>0 DEF Types, RowsKept
<1>2. buffer' = Refilled /\ at'[t] = [idx |-> 0, count |-> Len(table)]
  BY <1>0 DEF GetMntInfo, Goto
<1>3. \A i \in 1..Len(table) : buffer'[i] = table[i]
  BY <1>2, RefilledFacts DEF Types
<1>4. OnceEach(t)'
  BY <1>0, <1>2, <1>3, TableFacts DEF OnceEach, Types
<1>5. Visible(table) \subseteq {buffer'[i] : i \in 1..Len(table)}
  BY <1>3, TableFacts DEF Types
<1>6. ToCome(t)' = {buffer'[i] : i \in 1..Len(table)}
  BY <1>0, <1>2 DEF ToCome
<1> QED
  BY <1>0, <1>1, <1>4, <1>5, <1>6, SurveyBegins

LEMMA SurveyNextIndex ==
  ASSUME Types, Types', Platform = "macOS", NEW t \in Scans, Surveyed(t), NextIndex(t)
  PROVE  Surveyed(t)'
<1>0. /\ pc[t] = "next" /\ UNCHANGED <<setting, buffer, disks, stable>> /\ UNCHANGED Platform
      /\ pc \in [Scans -> Statements] /\ at \in [Scans -> [idx : Nat, count : Nat]]
  BY DEF NextIndex, Goto, Types, ScansKept, SourceKept, hostVars, Platform
<1>1. at[t].idx \in Nat /\ at[t].count \in Nat
  BY <1>0
<1>2. CASE ~More(t)
  <2>1. pc'[t] = "done" /\ UNCHANGED at
    BY <1>0, <1>2 DEF NextIndex, Goto
  <2>2. at[t].idx + 1..at[t].count = {}
    BY <1>1, <1>2 DEF More
  <2>3. ToCome(t) = {} /\ ToCome(t)' = {}
    BY <1>0, <2>1, <2>2 DEF ToCome
  <2>4. OnceEach(t)'
    BY <1>0, <2>1 DEF OnceEach, Surveyed
  <2> QED
    BY <1>0, <2>1, <2>3, <2>4, SurveyEnds
<1>3. CASE More(t)
  <2>1. pc'[t] = "mnt_type" /\ at' = [at EXCEPT ![t].idx = @ + 1]
    BY <1>0, <1>3 DEF NextIndex, Goto
  <2>2. at'[t].idx = at[t].idx + 1 /\ at'[t].count = at[t].count /\ at[t].idx < at[t].count
    BY <1>0, <1>3, <2>1 DEF More
  <2>3. OnceEach(t)' /\ \A i, j \in 1..at[t].count : buffer[i] = buffer[j] => i = j
    BY <1>0, <2>2 DEF OnceEach, Surveyed
  <2>4. Current(t)' = buffer[at[t].idx + 1]
    BY <1>0, <2>2 DEF Current
  <2>5. at[t].idx + 1..at[t].count = {at[t].idx + 1} \cup (at[t].idx + 2..at[t].count)
    BY <1>1, <2>2
  <2>6. /\ ToCome(t) = {buffer[i] : i \in at[t].idx + 1..at[t].count}
        /\ ToCome(t)' = {buffer[i] : i \in at[t].idx + 2..at[t].count}
    <3>1. at[t].idx + 1 + 1 = at[t].idx + 2
      BY <1>1
    <3> QED
      BY <1>0, <2>2, <3>1 DEF ToCome
  <2>7. Current(t)' \notin ToCome(t)'
    <3>1. ASSUME NEW i \in at[t].idx + 2..at[t].count, buffer[i] = buffer[at[t].idx + 1]
          PROVE  FALSE
      <4>1. i \in 1..at[t].count /\ at[t].idx + 1 \in 1..at[t].count /\ i # at[t].idx + 1
        BY <1>1, <2>2
      <4> QED
        BY <2>3, <3>1, <4>1
    <3> QED
      BY <2>4, <2>6, <3>1
  <2>8. ToCome(t) = ToCome(t)' \cup {Current(t)'}
    BY <2>4, <2>5, <2>6
  <2> QED
    BY <1>0, <2>1, <2>3, <2>7, <2>8, SurveyAdvances DEF InBody
<1> QED
  BY <1>2, <1>3

\* What is to come, and once each, in the terms of the entries ahead.
LEMMA AheadToCome ==
  ASSUME Types, Platform = "Linux", NEW t \in Scans, Surveyed(t),
         NEW ahead, ahead = Ahead(t, Read(t))
  PROVE  /\ ToCome(t) = {ahead[i] : i \in 1..Len(ahead)}
                         \cup {table[i] : i \in Read(t) + 1..Len(table)}
         /\ \A m \in stable[t] : \A i \in 1..Len(ahead) : ahead[i] = m =>
              /\ \A j \in 1..Len(ahead) : ahead[j] = m => i = j
              /\ m \notin {table[j] : j \in Read(t) + 1..Len(table)}
         /\ ahead = <<>> => ToCome(t) = {}
<1>0. /\ Read(t) \in Nat /\ past[t] <= Read(t) /\ Read(t) <= Len(table)
      /\ past[t] \in Nat /\ Len(table) \in Nat
      /\ \A i, j \in 1..Len(table) : table[i] = table[j] => i = j
  BY AheadFacts, TableFacts DEF Types, SourceKept
<1>1. CASE stream[t] # <<>>
  <2>1. ahead = stream[t] /\ Read(t) = past[t]
    BY <1>1 DEF Ahead, Read
  <2> QED
    BY <1>1, <2>1 DEF ToCome, Unread, Surveyed, OnceEach
<1>2. CASE stream[t] = <<>>
  <2>1. /\ Len(ahead) = Read(t) - past[t]
        /\ \A i \in 1..Read(t) - past[t] : ahead[i] = table[past[t] + i]
        /\ ahead = <<>> => past[t] = Len(table)
    BY <1>2, AheadFacts DEF Types
  <2>0. ASSUME NEW i \in 1..Len(ahead)
        PROVE  /\ past[t] + i \in past[t] + 1..Read(t) /\ past[t] + i \in 1..Len(table)
               /\ ahead[i] = table[past[t] + i] /\ i \in Nat
    <3>1. Len(ahead) = Read(t) - past[t]
      BY <2>1
    <3>2. i \in 1..Read(t) - past[t]
      BY <3>1
    <3>3. past[t] + i \in past[t] + 1..Read(t) /\ past[t] + i \in 1..Len(table)
      BY <1>0, <3>2
    <3> QED
      BY <2>1, <3>2, <3>3
  <2>2. ToCome(t) = {table[i] : i \in past[t] + 1..Len(table)}
    <3>1. 1..Len(stream[t]) = {}
      BY <1>2
    <3> QED
      BY <3>1 DEF ToCome, Unread
  <2>3. {ahead[i] : i \in 1..Len(ahead)} = {table[i] : i \in past[t] + 1..Read(t)}
    <3>1. {ahead[i] : i \in 1..Len(ahead)} \subseteq {table[i] : i \in past[t] + 1..Read(t)}
      <4> SUFFICES ASSUME NEW i \in 1..Len(ahead)
                   PROVE  ahead[i] \in {table[j] : j \in past[t] + 1..Read(t)}
        OBVIOUS
      <4>1. past[t] + i \in past[t] + 1..Read(t) /\ ahead[i] = table[past[t] + i]
        BY <2>0
      <4> QED
        BY <4>1
    <3>2. ASSUME NEW i \in past[t] + 1..Read(t)
          PROVE  i - past[t] \in 1..Len(ahead) /\ ahead[i - past[t]] = table[i]
      <4>1. i - past[t] \in 1..Read(t) - past[t] /\ past[t] + (i - past[t]) = i
        BY <1>0
      <4> QED
        BY <2>1, <4>1
    <3>3. {table[i] : i \in past[t] + 1..Read(t)} \subseteq {ahead[i] : i \in 1..Len(ahead)}
      BY <3>2
    <3> QED
      BY <3>1, <3>3
  <2>4. past[t] + 1..Len(table) = (past[t] + 1..Read(t)) \cup (Read(t) + 1..Len(table))
    BY <1>0
  <2>5. ASSUME NEW i \in 1..Len(ahead), NEW j \in 1..Len(ahead), ahead[i] = ahead[j]
        PROVE  i = j
    <3>1. /\ past[t] + i \in 1..Len(table) /\ past[t] + j \in 1..Len(table)
          /\ ahead[i] = table[past[t] + i] /\ ahead[j] = table[past[t] + j]
      BY <2>0
    <3>2. past[t] + i = past[t] + j
      BY <1>0, <2>5, <3>1
    <3> QED
      BY <1>0, <3>2
  <2>6. ASSUME NEW i \in 1..Len(ahead), NEW j \in Read(t) + 1..Len(table), ahead[i] = table[j]
        PROVE  FALSE
    <3>1. /\ past[t] + i \in 1..Len(table) /\ past[t] + i \in past[t] + 1..Read(t)
          /\ ahead[i] = table[past[t] + i]
      BY <2>0
    <3>2. j \in 1..Len(table) /\ past[t] + i # j
      BY <1>0, <3>1
    <3> QED
      BY <1>0, <2>6, <3>1, <3>2
  <2>7. ASSUME ahead = <<>>
        PROVE  ToCome(t) = {}
    <3>1. past[t] + 1..Len(table) = {}
      BY <1>0, <2>1, <2>7
    <3> QED
      BY <2>2, <3>1
  <2>8. ToCome(t) = {ahead[i] : i \in 1..Len(ahead)}
                    \cup {table[i] : i \in Read(t) + 1..Len(table)}
    BY <2>2, <2>3, <2>4
  <2>9. ASSUME NEW i \in 1..Len(ahead)
        PROVE  ahead[i] \notin {table[j] : j \in Read(t) + 1..Len(table)}
    BY <2>6
  <2> QED
    BY <2>5, <2>7, <2>8, <2>9
<1> QED
  BY <1>1, <1>2

LEMMA SurveyGetMntEnt ==
  ASSUME Types, Types', Platform = "Linux", NEW t \in Scans, Surveyed(t), GetMntEnt(t)
  PROVE  Surveyed(t)'
<1> DEFINE ahead == Ahead(t, Read(t))
           rest == {table[i] : i \in Read(t) + 1..Len(table)}
<1>0. /\ pc[t] = "next" /\ UNCHANGED <<setting, table, at, disks, stable>>
      /\ UNCHANGED Platform
      /\ pc \in [Scans -> Statements] /\ stream \in [Scans -> Seq(Mounts)]
      /\ past \in [Scans -> Nat] /\ at[t] = [idx |-> 1, count |-> 0]
  BY DEF GetMntEnt, Types, ScansKept, SourceKept, hostVars, Platform
<1>1. /\ ahead \in Seq(Mounts) /\ Read(t) \in Nat
      /\ ToCome(t) = {ahead[i] : i \in 1..Len(ahead)} \cup rest
      /\ \A m \in stable[t] : \A i \in 1..Len(ahead) : ahead[i] = m =>
           (\A j \in 1..Len(ahead) : ahead[j] = m => i = j) /\ m \notin rest
      /\ ahead = <<>> => ToCome(t) = {}
  BY AheadFacts, AheadToCome DEF Types
<1>2. CASE ahead = <<>>
  <2>1. pc' = [pc EXCEPT ![t] = "done"] /\ UNCHANGED <<stream, past>>
    BY <1>2 DEF GetMntEnt
  <2>2. ToCome(t)' = ToCome(t) /\ OnceEach(t)'
    BY <1>0, <2>1 DEF ToCome, Unread, OnceEach, Surveyed
  <2> QED
    BY <1>0, <1>1, <1>2, <2>1, <2>2, SurveyEnds
<1>3. CASE ahead # <<>>
  <2>1. /\ pc' = [pc EXCEPT ![t] = "mnt_type"] /\ buffer' = <<Head(ahead)>>
        /\ stream' = [stream EXCEPT ![t] = Tail(ahead)] /\ past' = [past EXCEPT ![t] = Read(t)]
    BY <1>3 DEF GetMntEnt
  <2> HIDE DEF ahead
  <2>2. Current(t)' = Head(ahead)
    BY <1>0, <2>1 DEF Current
  <2>3. /\ Tail(ahead) \in Seq(Mounts) /\ Len(Tail(ahead)) = Len(ahead) - 1
        /\ \A i \in 1..Len(Tail(ahead)) : Tail(ahead)[i] = ahead[i + 1]
        /\ Len(ahead) \in Nat /\ Len(ahead) > 0 /\ Head(ahead) = ahead[1]
    BY <1>1, <1>3, HeadTailProperties, EmptySeq
  <2>4. Unread(t)' = rest /\ stream'[t] = Tail(ahead)
    BY <1>0, <2>1 DEF Unread
  <2>5. ToCome(t)' = {ahead[i] : i \in 2..Len(ahead)} \cup rest
    <3>1. ToCome(t)' = {stream'[t][i] : i \in 1..Len(stream'[t])} \cup Unread(t)'
      BY <1>0 DEF ToCome
    <3>2. ASSUME NEW i \in 1..Len(Tail(ahead))
          PROVE  i + 1 \in 2..Len(ahead) /\ Tail(ahead)[i] = ahead[i + 1]
      BY <2>3
    <3>3. ASSUME NEW i \in 2..Len(ahead)
          PROVE  i - 1 \in 1..Len(Tail(ahead)) /\ Tail(ahead)[i - 1] = ahead[i]
      <4>1. i - 1 \in 1..Len(Tail(ahead)) /\ (i - 1) + 1 = i
        BY <2>3
      <4> QED
        BY <2>3, <4>1
    <3>4. {Tail(ahead)[i] : i \in 1..Len(Tail(ahead))} = {ahead[i] : i \in 2..Len(ahead)}
      BY <3>2, <3>3
    <3> QED
      BY <2>4, <3>1, <3>4
  <2>6. ASSUME NEW m \in stable[t]
        PROVE  /\ m \in ToCome(t) <=> m \in ToCome(t)' \/ m = Current(t)'
               /\ m = Current(t)' => m \notin ToCome(t)'
    <3>1. 1..Len(ahead) = {1} \cup (2..Len(ahead))
      BY <2>3
    <3>2. ToCome(t) = {ahead[1]} \cup {ahead[i] : i \in 2..Len(ahead)} \cup rest
      BY <1>1, <3>1
    <3>3. ASSUME m = ahead[1]
          PROVE  m \notin {ahead[i] : i \in 2..Len(ahead)} /\ m \notin rest
      <4>1. 1 \in 1..Len(ahead) /\ \A i \in 2..Len(ahead) : i \in 1..Len(ahead) /\ i # 1
        BY <2>3
      <4> QED
        BY <1>1, <3>3, <4>1
    <3> QED
      BY <2>2, <2>3, <2>5, <3>2, <3>3
  <2>7. OnceEach(t)'
    <3> SUFFICES ASSUME NEW m \in stable[t], NEW i \in 1..Len(Tail(ahead)), Tail(ahead)[i] = m
                 PROVE  /\ \A j \in 1..Len(Tail(ahead)) : Tail(ahead)[j] = m => i = j
                        /\ m \notin rest
      BY <1>0, <2>4 DEF OnceEach
    <3>1. i + 1 \in 1..Len(ahead) /\ ahead[i + 1] = m
      BY <2>3
    <3>2. ASSUME NEW j \in 1..Len(Tail(ahead)), Tail(ahead)[j] = m
          PROVE  i = j
      <4>1. j + 1 \in 1..Len(ahead) /\ ahead[j + 1] = m
        BY <2>3, <3>2
      <4>2. i + 1 = j + 1
        BY <1>1, <3>1, <4>1
      <4> QED
        BY <2>3, <4>2
    <3> QED
      BY <1>1, <3>1, <3>2
  <2>8. pc'[t] \in InBody
    BY <1>0, <2>1 DEF InBody
  <2> QED
    BY <1>0, <2>6, <2>7, <2>8, SurveyAdvances
<1> QED
  BY <1>2, <1>3

\* The body of the loop leaves what is to come as it is.
LEMMA SurveyBodyFacts ==
  ASSUME ScansKept, NEW t \in Scans, BodyStep(t), Surveyed(t)
  PROVE  /\ pc[t] \in InBody /\ pc'[t] \in InBody \cup {"next", "thrown"}
         /\ stable' = stable /\ Current(t)' = Current(t) /\ ToCome(t)' = ToCome(t)
         /\ OnceEach(t)'
<1>1. /\ UNCHANGED <<hostVars, sourceVars, stable>>
      /\ pc[t] \in InBody /\ pc'[t] \in InBody \cup {"next", "thrown"}
  BY BodyFacts
<1>2. UNCHANGED <<setting, table, buffer, stream, past, at>>
  BY <1>1 DEF hostVars, sourceVars
<1> QED
  BY <1>1, <1>2 DEF Platform, ToCome, Unread, OnceEach, Current, Surveyed

\* No row is added, and the entry at hand stays at hand, or is not reported.
LEMMA SurveySkips ==
  ASSUME ScansKept, NEW t \in Scans, BodyStep(t), Surveyed(t), disks' = disks,
         pc'[t] \in InBody
           \/ (pc'[t] = "next" /\ ~(Current(t) \in stable[t] /\ Reported(Current(t))))
  PROVE  Surveyed(t)'
<1>1. /\ pc[t] \in InBody /\ stable' = stable /\ OnceEach(t)'
      /\ Current(t)' = Current(t) /\ ToCome(t)' = ToCome(t)
  BY SurveyBodyFacts
<1>2. ASSUME NEW m \in stable[t], Reported(m)
      PROVE  Served(t, m)'
  <2>1. Served(t, m)
    BY <1>2 DEF Surveyed
  <2>2. Due(t, m)' <=> Due(t, m)
    BY <1>1, <1>2 DEF Due
  <2>3. (pc[t] \in InBody /\ m = Current(t))' => m \notin ToCome(t)'
    BY <1>1, <2>1 DEF Served
  <2> QED
    BY <1>1, <2>1, <2>2, <2>3, ServedSame
<1>3. pc'[t] # "done"
  BY DEF InBody
<1> QED
  BY <1>1, <1>2, <1>3 DEF Surveyed

\* The row is that of the entry at hand, and of no other.
LEMMA SurveyAddRow ==
  ASSUME Types, EntriesDiffer, EntryKept, SpaceKept, NEW t \in Scans, AddRow(t), Surveyed(t)
  PROVE  Surveyed(t)'
<1>a. PICK row : row = NewRow(t, Current(t))
  OBVIOUS
<1>b. PICK n : n = Len(disks[t])
  OBVIOUS
<1>0. BodyStep(t) /\ disks[t] \in Seq(Row)
  BY DEF BodyStep, Types, RowsKept
<1>1. /\ pc[t] \in InBody /\ stable' = stable /\ OnceEach(t)'
      /\ Current(t)' = Current(t) /\ ToCome(t)' = ToCome(t)
  BY <1>0, SurveyBodyFacts DEF Types
<1>2. pc[t] = "mnt_fsname" /\ pc'[t] = "next" /\ pc'[t] \notin InBody
  BY AddRowFacts DEF Types, InBody
<1>3. Current(t) \in Mounts /\ row \in Row /\ disks'[t] = Append(disks[t], row)
  BY <1>a, AddRowFacts, LookAlone DEF Types
<1>4. RowIsOf(row, Current(t))
  BY <1>a, <1>2 DEF EntryKept, InBody, NewRow, RowIsOf
<1>5. \A m \in stable[t] : row.mount_point = m.dir => row.space.of = m
  BY <1>a, <1>2 DEF NewRow, SpaceKept
<1>6. /\ n \in Nat /\ Len(disks'[t]) = n + 1 /\ disks'[t][n + 1] = row
      /\ \A i \in 1..n : disks'[t][i] = disks[t][i]
  BY <1>b, <1>0, <1>3, AppendProperties, LenProperties
<1>7. 1..n + 1 = (1..n) \cup {n + 1} /\ n + 1 \notin 1..n
  BY <1>6
<1>8. ASSUME NEW m \in stable[t], Reported(m)
      PROVE  Served(t, m)'
  <2>0. Served(t, m) /\ m \in Mounts
    BY <1>8 DEF Surveyed, Types, ScansKept
  <2>1. \A i \in 1..n : RowOf(t, disks[t][i], m)' <=> RowOf(t, disks[t][i], m)
    BY <1>1, <1>6 DEF RowOf
  <2>a. RowsOf(t, m) = {i \in 1..n : RowOf(t, disks[t][i], m)}
    BY <1>b DEF RowsOf
  <2>b. RowsOf(t, m)' = {i \in 1..n + 1 : RowOf(t, disks[t][i], m)'}
    BY <1>6 DEF RowsOf
  <2>c. RowOf(t, disks[t][n + 1], m)' <=> RowOf(t, row, m)'
    BY <1>1, <1>6 DEF RowOf
  <2>2. CASE m = Current(t)
    <3>1. RowsOf(t, m) = {} /\ ~Due(t, m)'
      BY <1>1, <1>2, <2>0, <2>2 DEF Served, Due
    <3>2. row.space.of = m
      BY <1>4, <1>5, <2>2 DEF RowIsOf
    <3>3. RowOf(t, row, m)'
      BY <1>1, <1>4, <1>6, <2>2, <3>2 DEF RowOf, RowIsOf
    <3>4. RowsOf(t, m)' = {n + 1}
      BY <1>6, <1>7, <2>1, <2>a, <2>b, <2>c, <3>1, <3>3
    <3> QED
      BY <1>2, <1>6, <1>7, <3>1, <3>4 DEF Served
  <2>3. CASE m # Current(t)
    <3>1. Due(t, m)' <=> Due(t, m)
      BY <1>1, <2>3 DEF Due
    <3>2. ~RowOf(t, row, m)'
      BY <1>3, <1>4, <1>6, <2>0, <2>3 DEF RowOf, RowIsOf, EntriesDiffer
    <3>3. RowsOf(t, m)' = RowsOf(t, m)
      BY <1>6, <1>7, <2>1, <2>a, <2>b, <2>c, <3>2
    <3>4. Due(t, m) => RowsOf(t, m) = {}
      BY <2>0 DEF Served
    <3>5. ~Due(t, m) => \E i \in 1..n : RowsOf(t, m) = {i}
      BY <1>b, <2>0 DEF Served
    <3>6. ~Due(t, m) => \E i \in 1..Len(disks'[t]) : RowsOf(t, m) = {i}
      BY <1>6, <1>7, <3>5
    <3> QED
      BY <1>2, <3>1, <3>3, <3>4, <3>6 DEF Served
  <2> QED
    BY <2>2, <2>3
<1> QED
  BY <1>1, <1>2, <1>8 DEF Surveyed

LEMMA SurveyBody ==
  ASSUME Types, EntriesDiffer, EntryKept, SpaceKept,
         NEW t \in Scans, BodyStep(t), pc'[t] # "thrown", Surveyed(t)
  PROVE  Surveyed(t)'
<1>0. pc \in [Scans -> Statements]
  BY DEF Types, ScansKept
<1>1. CASE ReadType(t)
  <2>1. pc'[t] \in InBody /\ disks' = disks
    BY <1>0, <1>1 DEF ReadType, Goto, InBody
  <2> QED
    BY <2>1, SurveySkips DEF Types
<1>2. CASE ReadDir(t)
  <2>1. PICK m \in Look(t) :
          pc' = [pc EXCEPT ![t] = AfterFilter(\/ IgnoreFileSystemType(ent[t].fs_type)
                                             \/ IgnoreMountPoint(m.dir))]
    BY <1>2 DEF ReadDir, Goto
  <2>2. m = Current(t)
    BY <2>1, LookAlone
  <2>3. ent[t].fs_type = Current(t).type
    BY <1>2 DEF ReadDir, EntryKept, InBody
  <2>4. CASE IgnoreFileSystemType(ent[t].fs_type) \/ IgnoreMountPoint(m.dir)
    <3>1. pc'[t] = "next" /\ ~Reported(Current(t))
      BY <1>0, <2>1, <2>2, <2>3, <2>4 DEF AfterFilter, Reported
    <3> QED
      BY <1>2, <3>1, SurveySkips DEF Types, ReadDir
  <2>5. CASE ~(IgnoreFileSystemType(ent[t].fs_type) \/ IgnoreMountPoint(m.dir))
    <3>1. pc'[t] \in InBody
      BY <1>0, <2>1, <2>5 DEF AfterFilter, InBody
    <3> QED
      BY <1>2, <3>1, SurveySkips DEF Types, ReadDir
  <2> QED
    BY <2>4, <2>5
<1>3. CASE StatVfs(t)
  <2> DEFINE m == Resolve(Asked(t))
  <2>0. pc[t] = "statvfs" /\ disks' = disks
    BY <1>3 DEF StatVfs
  <2>1. CASE Current(t) \in stable[t] /\ Reported(Current(t))
    <3>1. ent[t].mount_point = Current(t).dir
      BY <2>0 DEF EntryKept
    <3>2. Current(t) \in Visible(table) /\ Current(t) \in Mounts
      BY <2>1 DEF Types, ScansKept
    <3>3. m = Current(t)
      BY <2>0, <3>1, <3>2, AskedFacts DEF Types
    <3>4. m.reachable /\ m.dir = ent[t].mount_point
      BY <2>1, <3>1, <3>3 DEF Reported
    <3>5. Reportable(Space(m))
      <4>1. Space(m).total = (m.blocks * m.bsize) % Word
        BY <3>2, <3>3, SpaceFacts DEF Types
      <4> QED
        BY <2>1, <3>3, <4>1 DEF Reported, Reportable
    <3>6. pc' = [pc EXCEPT ![t] = "mnt_fsname"]
      BY <1>3, <3>4, <3>5 DEF StatVfs
    <3>7. pc'[t] \in InBody
      BY <1>0, <3>6 DEF InBody
    <3> QED
      BY <1>3, <2>0, <3>7, SurveySkips DEF Types
  <2>2. CASE ~(Current(t) \in stable[t] /\ Reported(Current(t)))
    <3>1. pc'[t] \in {"mnt_fsname", "next"}
      BY <1>0, <1>3 DEF StatVfs, AfterFailure
    <3>2. pc'[t] \in InBody \/ pc'[t] = "next"
      BY <3>1 DEF InBody
    <3> QED
      BY <1>3, <2>0, <2>2, <3>2, SurveySkips DEF Types
  <2> QED
    BY <2>1, <2>2
<1>4. CASE Throw(t)
  BY <1>0, <1>4 DEF Throw
<1> QED
  BY <1>1, <1>2, <1>3, <1>4, SurveyAddRow DEF BodyStep

LEMMA SurveyScanStep ==
  ASSUME Types, Types', Alone, EntriesDiffer, EntryKept, SpaceKept, SurveyKept,
         NEW t \in Scans, t \in Settings[setting].scans, ScanStep(t)
  PROVE  SurveyKept'
<1>0. /\ pc \in [Scans -> Statements] /\ \A s \in Scans \ {t} : pc[s] = "start"
      /\ "start" \notin InBody \cup {"next", "done"}
      /\ Platform \in {"Linux", "macOS"}
      /\ stream \in [Scans -> Seq(Mounts)] /\ past \in [Scans -> Nat]
  BY OthersWait, SettingFacts DEF Types, ScansKept, SourceKept, HostKept, Platform, InBody
<1>1. \A s \in Scans \ {t} : pc'[s] = "start" /\ stream'[s] = stream[s] /\ past'[s] = past[s]
  <2>1. CASE BodyStep(t)
    BY <1>0, <2>1, BodyFacts DEF Types, sourceVars
  <2>2. CASE Open(t) \/ GetMntInfo(t) \/ NextIndex(t)
    BY <1>0, <2>2 DEF Open, GetMntInfo, NextIndex, Goto
  <2>3. CASE GetMntEnt(t)
    BY <1>0, <2>3 DEF GetMntEnt
  <2> QED
    BY <2>1, <2>2, <2>3 DEF ScanStep, BodyStep
<1>2. pc'[t] # "start"
  <2>1. CASE BodyStep(t)
    BY <1>0, <2>1, BodyFacts DEF Types
  <2>2. CASE Open(t) \/ GetMntInfo(t) \/ NextIndex(t)
    BY <1>0, <2>2 DEF Open, GetMntInfo, NextIndex, Goto
  <2>3. CASE GetMntEnt(t)
    BY <1>0, <2>3 DEF GetMntEnt
  <2> QED
    BY <2>1, <2>2, <2>3 DEF ScanStep, BodyStep
<1>3. ASSUME pc'[t] \in InBody \cup {"next", "done"}
      PROVE  Surveyed(t)'
  <2>0. pc'[t] \notin {"failed", "thrown"}
    BY <1>3 DEF InBody
  <2>1. CASE BodyStep(t)
    <3>1. pc[t] \in InBody
      BY <2>1, BodyFacts DEF Types
    <3> QED
      BY <2>0, <2>1, <3>1, SurveyBody DEF SurveyKept
  <2>2. CASE Platform = "Linux" /\ Open(t)
    <3>1. pc'[t] = "next"
      BY <1>0, <2>0, <2>2 DEF Open, Goto
    <3> QED
      BY <2>2, <3>1, SurveyOpen
  <2>3. CASE Platform = "macOS" /\ GetMntInfo(t)
    <3>1. pc'[t] = "next"
      BY <1>0, <2>0, <2>3 DEF GetMntInfo, Goto
    <3> QED
      BY <2>3, <3>1, SurveyGetMntInfo
  <2>4. CASE Platform = "Linux" /\ GetMntEnt(t)
    <3>1. pc[t] = "next"
      BY <2>4 DEF GetMntEnt
    <3> QED
      BY <2>4, <3>1, SurveyGetMntEnt DEF SurveyKept
  <2>5. CASE Platform = "macOS" /\ NextIndex(t)
    <3>1. pc[t] = "next"
      BY <2>5 DEF NextIndex, Goto
    <3> QED
      BY <2>5, <3>1, SurveyNextIndex DEF SurveyKept
  <2> QED
    BY <2>1, <2>2, <2>3, <2>4, <2>5 DEF ScanStep, BodyStep
<1>4. ASSUME NEW s \in Scans
      PROVE  /\ pc'[s] = "start" => stream'[s] = <<>> /\ past'[s] = 0
             /\ pc'[s] \in InBody \cup {"next", "done"} => Surveyed(s)'
  <2>1. CASE s = t
    BY <1>2, <1>3, <2>1
  <2>2. CASE s # t
    BY <1>0, <1>1, <2>2 DEF SurveyKept
  <2> QED
    BY <2>1, <2>2
<1> QED
  BY <1>4 DEF SurveyKept

LEMMA SurveyStep ==
  ASSUME Types, Types', Alone, EntriesDiffer, EntryKept, SpaceKept, SurveyKept, [Next]_vars
  PROVE  SurveyKept'
<1>1. CASE Mount \/ Unmount
  <2>1. UNCHANGED <<stream, pc>> /\ \A t \in Scans : past[t] = 0 => past'[t] = 0
    <3>1. UNCHANGED <<stream, pc>>
      BY <1>1, TableStep DEF Types
    <3>2. ASSUME NEW t \in Scans, past[t] = 0
          PROVE  past'[t] = 0
      <4>1. \A i \in 1..Len(table) : ~(i <= past[t])
        BY <3>2, TableFacts DEF Types
      <4>2. Len(table') \in Nat /\ past'[t] \in Nat
        <5>1. (HostKept => Len(table) \in Nat)'
          BY TableFacts, PTL
        <5> QED
          BY <5>1 DEF Types, SourceKept
      <4> QED
        BY <1>1, <3>2, <4>1, <4>2, TableStep DEF Types
    <3> QED
      BY <3>1, <3>2
  <2> QED
    BY <1>1, <2>1, SurveyTable DEF SurveyKept
<1>2. CASE Write \/ UNCHANGED vars
  <2>1. UNCHANGED <<setting, table, buffer, stream, past, at, pc, disks, stable>>
    BY <1>2 DEF Write, vars, hostVars, sourceVars
  <2>2. UNCHANGED Platform /\ \A t : ToCome(t)' = ToCome(t) /\ Current(t)' = Current(t)
    BY <2>1 DEF Platform, ToCome, Unread, Current
  <2>3. \A t : OnceEach(t)' <=> OnceEach(t)
    BY <2>1, <2>2 DEF OnceEach, Unread
  <2>4. \A t : \A m : RowsOf(t, m)' = RowsOf(t, m)
    BY <2>1 DEF RowsOf, RowOf
  <2>5. \A t : \A m : Served(t, m)' <=> Served(t, m)
    BY <2>1, <2>2, <2>4 DEF Served, Due
  <2>6. \A t : Surveyed(t)' <=> Surveyed(t)
    BY <2>1, <2>2, <2>3, <2>5 DEF Surveyed
  <2> QED
    BY <2>1, <2>6 DEF SurveyKept
<1> QED
  BY <1>1, <1>2, StepCases, SurveyScanStep

LEMMA SurveyInit ==
  ASSUME Init
  PROVE  SurveyKept
<1>1. /\ pc = [t \in Scans |-> "start"] /\ stream = [t \in Scans |-> <<>>]
      /\ past = [t \in Scans |-> 0]
  BY DEF Init
<1>2. \A t \in Scans : pc[t] = "start" /\ pc[t] \notin InBody \cup {"next", "done"}
  BY <1>1 DEF InBody
<1> QED
  BY <1>1, <1>2 DEF SurveyKept

\* A scan that ran to the end of the table, overlapping no other, has exactly
\* one row for each reportable file system that was mounted all along: the
\* entries before it, the ones that came and went and the ones skipped make it
\* neither missed nor reported twice.  Two entries may share their name, their
\* directory or their type, but not all three.
THEOREM StableMountsAreReported ==
  ASSUME EntriesDiffer
  PROVE  Spec => []StableMountsReported
<1>1. Spec => [](Alone => SpaceKept /\ EntryKept)
  BY SpacesKept, EntriesKept, PTL
<1>2. Init => (Alone => SurveyKept)
  BY SurveyInit
<1>3. Types /\ Types' /\ (Alone => SpaceKept /\ EntryKept) /\ (Alone => SurveyKept) /\ [Next]_vars
        => (Alone => SurveyKept)'
  <2> SUFFICES ASSUME Types, Types', Alone => SpaceKept /\ EntryKept, Alone => SurveyKept,
                      [Next]_vars, Alone'
               PROVE  SurveyKept'
    OBVIOUS
  <2>1. UNCHANGED setting
    BY StepCases, TableStep, ScanLeavesHost DEF Types, Write, vars, hostVars
  <2>2. Alone
    BY <2>1 DEF Alone
  <2> QED
    BY <2>2, SurveyStep
<1>4. Spec => [](Alone => SurveyKept)
  BY <1>1, <1>2, <1>3, TypesKept, PTL DEF Spec
<1>5. Types /\ (Alone => SurveyKept) => StableMountsReported
  <2> SUFFICES ASSUME Types, SurveyKept, NEW t \in Scans, pc[t] = "done",
                      NEW m \in stable[t], Reported(m)
               PROVE  Cardinality(RowsOf(t, m)) = 1
    BY DEF StableMountsReported, Reported, RowsOf
  <2>1. pc[t] \notin InBody /\ Surveyed(t)
    BY DEF SurveyKept, InBody
  <2>2. ~Due(t, m)
    BY <2>1 DEF Surveyed, Due
  <2>3. PICK i \in 1..Len(disks[t]) : RowsOf(t, m) = {i}
    BY <2>1, <2>2 DEF Surveyed, Served
  <2> QED
    BY <2>3, FS_Singleton
<1> QED
  BY <1>4, <1>5, TypesKept, PTL

=============================================================================
