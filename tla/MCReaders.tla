----------------------------- MODULE MCReaders -----------------------------
(***************************************************************************)
(* The readers that are a sequence of questions to the host, each of which *)
(* may be refused: sys_memory_info's, the fields of sys_cpu_info, the      *)
(* texts of sys_os_info and, on macOS, its counts.  One of them runs, as   *)
(* it is built for one platform or the other.                              *)
(***************************************************************************)
EXTENDS Naturals, Sequences, FiniteSets

CONSTANTS
  MemStates, Optional, Unit, Width,           \* of MemoryInfo
  Sizes, KiB,                                 \* of CpuFields
  OsReleases, Prefix,                         \* of OSDescription
  Pids, Self, Kinds, Unwritten, Spare, FdSpare  \* of OSInfoMac

(* The host of the run. *)

Mem(total, free, inactive, cached, swap_total, swap_free) ==
  [total |-> total, free |-> free, inactive |-> inactive, cached |-> cached,
   swap_total |-> swap_total, swap_free |-> swap_free]

\* Two sizes of memory, each with some, little or nothing free.
MCMemStates ==
  {Mem(4, 2, 1, 1, 3, 2), Mem(4, 0, 1, 2, 3, 0), Mem(4, 1, 3, 2, 0, 0),
   Mem(3, 1, 1, 2, 2, 1), Mem(3, 0, 0, 1, 2, 2)}

MCOptional == {<<"Swap", "Cached">>, <<"Mem", "Available">>}

MCPrefix == "PRETTY_NAME="
MCQuote == "\""

Names == {<<"a">>, <<"a", " ", "b">>, <<"a", MCQuote, "b">>}
Other == {<<"#", " ", "a">>, <<"ID=", "a">>}

\* A name as a distribution may write it, or none.
Pretty ==
  {[name |-> n, line |-> <<MCPrefix, MCQuote>> \o n \o <<MCQuote>>] : n \in Names} \cup
  {[name |-> n, line |-> <<MCPrefix>> \o n \o <<" ">>] : n \in {<<"a">>}} \cup
  {[name |-> <<>>, line |-> <<MCPrefix, MCQuote, MCQuote>>], [name |-> <<>>, line |-> <<"ID=", "b">>]}

\* Files with one or no pretty name among other lines.
MCOsReleases ==
  LET around == {<<>>} \cup {<<l>> : l \in Other}
  IN  {[name |-> p.name, lines |-> before \o <<p.line>> \o after] :
         p \in Pretty, before \in around, after \in around}

\* Processes of this user with one or two threads and of another user.
MCKinds == {[threads |-> 1, fds |-> 1, readable |-> TRUE],
            [threads |-> 2, fds |-> 0, readable |-> TRUE],
            [threads |-> 1, fds |-> 1, readable |-> FALSE]}
-----------------------------------------------------------------------------
VARIABLES
  reader,                                   \* which reader runs
  platform,                                 \* for which it is built
  host,                                     \* what it asks
  pc, info, refused,                        \* of every reader
  keys, text, printed, parsed_count,        \* of the reader of memory
  step, val,                                \* of the reader of the processor
  uts,                                      \* of the reader of the texts
  sum, len, buf, idx, held, total,          \* of the reader of the counts
  stable

memoryVars == <<keys, text, printed, parsed_count>>
fieldsVars == <<step, val>>
countsVars == <<sum, len, buf, idx, held, total, stable>>
vars == <<reader, platform, host, pc, info, refused, memoryVars, fieldsVars, uts, countsVars>>

Memory == INSTANCE MemoryInfo WITH mem <- host, failed <- refused
Fields == INSTANCE CpuFields WITH machine <- host
Texts  == INSTANCE OSDescription WITH file <- host
Counts == INSTANCE OSInfoMac WITH procs <- host

ASSUME ReadersAssumption ==
  /\ Memory!MemoryAssumption /\ Fields!FieldsAssumption
  /\ Texts!DescriptionAssumption /\ Counts!OSMacAssumption

None == <<>>
NoMemory == keys = None /\ text = None /\ printed = None /\ parsed_count = None
NoFields == step = None /\ val = None
NoTexts  == uts = None
NoCounts == sum = None /\ len = None /\ buf = None /\ idx = None
              /\ held = None /\ total = None /\ stable = None

Init ==
  \/ /\ reader = "memory" /\ platform \in {"Linux", "macOS"}
     /\ Memory!Init /\ NoFields /\ NoTexts /\ NoCounts
  \/ reader = "fields" /\ Fields!Init /\ NoMemory /\ NoTexts /\ NoCounts
  \/ reader = "texts" /\ Texts!Init /\ NoMemory /\ NoFields /\ NoCounts
  \/ /\ reader = "counts" /\ platform = "macOS" /\ refused = None
     /\ Counts!Init /\ NoMemory /\ NoFields /\ NoTexts

NextMemory ==
  /\ reader = "memory"
  /\ \/ platform = "Linux" /\ Memory!NextLinux
     \/ platform = "macOS" /\ Memory!NextMacOS
  /\ UNCHANGED <<reader, platform, fieldsVars, uts, countsVars>>

NextFields == reader = "fields" /\ Fields!Next /\ UNCHANGED <<reader, memoryVars, uts, countsVars>>

NextTexts ==
  reader = "texts" /\ Texts!Next /\ UNCHANGED <<reader, memoryVars, fieldsVars, countsVars>>

NextCounts ==
  /\ reader = "counts" /\ Counts!Next
  /\ UNCHANGED <<reader, platform, refused, memoryVars, fieldsVars, uts>>

Next == NextMemory \/ NextFields \/ NextTexts \/ NextCounts

Spec == Init /\ [][Next]_vars
-----------------------------------------------------------------------------
\* The unsigned differences of memory and of swap do not wrap: used and free
\* add up to the total, whatever order the lines of /proc/meminfo come in and
\* whatever memory does between two questions (memory_stats.cpp:83, 121).
UsedAndFreeAddUp == reader = "memory" => Memory!UsedAndFreeAddUp

\* Linux: every field of memory is the value of the line of its own name, in
\* bytes, as printed at one moment (memory_stats.cpp:50-80).
FieldsOfOneText == reader = "memory" /\ platform = "Linux" => Memory!FieldsOfOneText

\* No column has the answer to another question, an older one or none: a
\* column whose question was refused keeps its default, and every other has
\* its own answer, whichever of the questions are refused, of the processor
\* (cpu_stats.cpp:239-263) as of the texts (os_info.cpp:258, 277, 406).
EachRefusalItsOwn ==
  /\ reader = "fields" => Fields!ColumnsOfTheirOwn
  /\ reader = "texts" => Texts!EachRefusalItsOwn

\* Linux: the name is the one the distribution gave itself, as it was before
\* it was put between quotes, and the kernel's name where it gave none
\* (os_info.cpp:275-280).
NameOfTheFile == reader = "texts" => Texts!NameOfTheFile

\* macOS: the buffer is held while the loop reads it, only entries the kernel
\* has written are read, and no way out leaks it (os_info.cpp:305-345).
MemoryHeld == reader = "counts" => Counts!MemoryHeld

\* macOS: a process that cannot be asked hides none behind it from the sum
\* (os_info.cpp:335-343).
SumCoversStable == reader = "counts" => Counts!SumCoversStable
=============================================================================
