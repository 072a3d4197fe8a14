------------------------------ MODULE CpuInfo ------------------------------
(***************************************************************************)
(* The counts and the model name of GetCPUInfoLinux (cpu_stats.cpp): one   *)
(* pass over the lines of /proc/cpuinfo while processors come online and   *)
(* go offline.  The kernel fills the stream one record of lines per online *)
(* processor at a time, so a pass may see processors that were never       *)
(* online together.  The fields that are asked one by one, the cache sizes *)
(* and the architecture, are in CpuFields.                                 *)
(***************************************************************************)
EXTENDS Naturals, Sequences, FiniteSets, FiniteSetsExt

CONSTANTS
  Cpus,     \* the numbers of the host's logical processors
  PhysIds,  \* package ids the firmware gives; they may have gaps
  Models    \* kinds of processors; a host may have several (big.LITTLE)

NoName == [kind |-> "empty"]
NoValue == "empty"

\* An ARM processor has an implementer and a part number.
ASSUME CpuAssumption ==
  /\ 0 \in Cpus /\ Cpus \subseteq Nat /\ IsFiniteSet(Cpus)
  /\ PhysIds \subseteq Nat /\ NoValue \notin Models

VARIABLES
  machine, \* the host: the form of its records, each processor's package and model
  online,  \* the host: processors online
  pc,      \* the statement the call is at
  lines,   \* the keys of the lines read from the kernel but not yet by getline,
           \* which are of processor at - 1
  at,      \* the first processor the kernel has not yet considered
  info,    \* struct CPUInfo
  local,   \* processor_count and the ARM strings
  stable,  \* history: processors online during the whole pass
  seen     \* history: processors online at some moment of the pass

vars == <<machine, online, pc, lines, at, info, local, stable, seen>>
host == <<machine, online>>
history == <<stable, seen>>

\* The forms of a record: x86, x86 without a clock line (the processor has no
\* time stamp counter) or without package ids (a kernel for one processor), ARM.
Forms == {"x86", "x86 without MHz", "x86 without SMP", "arm"}

\* A processor's record (external): its keys in the kernel's order; those
\* GetCPUInfoLinux takes no notice of are one key "other".
Keys ==
  [form \in Forms |->
     CASE form = "x86" -> <<"processor", "model name", "cpu MHz", "physical id">>
       [] form = "x86 without MHz" -> <<"processor", "model name", "physical id">>
       [] form = "x86 without SMP" -> <<"processor", "model name", "cpu MHz">>
       [] OTHER -> <<"processor", "other", "CPU implementer", "CPU part">>]

\* The line of a record with a key (external).
Line(c, key) ==
  [key |-> key,
   value |-> CASE key = "processor" -> c
               [] key = "physical id" -> machine.package[c]
               [] key \in {"model name", "CPU implementer", "CPU part"} -> machine.model[c]
               [] OTHER -> 0]

Init ==
  /\ machine \in [form : Forms, package : [Cpus -> PhysIds], model : [Cpus -> Models]]
  /\ online \in SUBSET Cpus /\ 0 \in online
  /\ machine.form = "x86 without SMP" => online = {0}
  /\ pc = "open" /\ lines = <<>> /\ at = 0
  /\ info = [model_name |-> NoName, logical_cpus |-> 0, physical_cpus |-> 0]
  /\ local = [processor_count |-> 0, cpu_implementer |-> NoValue, cpu_part |-> NoValue]
  /\ stable = {} /\ seen = {}
-----------------------------------------------------------------------------
(* The host (external). *)

\* Processor 0 starts the machine and stays.
Offline ==
  \E c \in online \ {0} :
    /\ online' = online \ {c} /\ stable' = stable \ {c}
    /\ UNCHANGED <<machine, pc, lines, at, info, local, seen>>

Online ==
  \E c \in Cpus \ online :
    /\ machine.form # "x86 without SMP"
    /\ online' = online \cup {c}
    /\ seen' = IF pc = "getline" THEN seen \cup {c} ELSE seen
    /\ UNCHANGED <<machine, pc, lines, at, info, local, stable>>
-----------------------------------------------------------------------------
(* The call. *)

\* A file that cannot be opened leaves the counts at 0.
OpenCpuInfo ==
  /\ pc = "open"
  /\ \/ pc' = "getline" /\ stable' = online /\ seen' = online
     \/ pc' = "done" /\ UNCHANGED history
  /\ UNCHANGED <<host, lines, at, info, local>>

\* The processors whose records the kernel has still to give (external).
Ahead == {c \in online : c >= at}

\* The kernel gives the record of the next processor online (external).
Fill ==
  /\ pc = "getline" /\ lines = <<>> /\ Ahead # {}
  /\ \E c \in {Min(Ahead)} : lines' = Keys[machine.form] /\ at' = c + 1
  /\ UNCHANGED <<host, pc, info, local, history>>

\* Mutant: the package ids are counted from 1.
PhysicalCpusFromOne(known, phys_id) == IF phys_id > known THEN phys_id ELSE known

\* An ARM string is taken from the first processor that has it.
KeepFirst(old, value) == IF old = NoValue THEN value ELSE old

\* One more than the greatest package id so far.
PhysicalCpus(known, phys_id) == IF phys_id + 1 > known THEN phys_id + 1 ELSE known

\* Mutant: the part is that of the last processor.
PartAfterLast(old, value) == value

PartAfter(old, value) == KeepFirst(old, value)

\* Mutant: a processor is counted at its number and at its clock.
CountedKeysTwo == {"cpu MHz", "processor"}

\* The lines that stand for one logical processor each.
CountedKeys == {"cpu MHz"}

InfoAfter(line) ==
  CASE line.key = "model name" ->
         [info EXCEPT !.model_name = [kind |-> "model name", name |-> line.value]]
    [] line.key \in CountedKeys -> [info EXCEPT !.logical_cpus = @ + 1]
    [] line.key = "physical id" -> [info EXCEPT !.physical_cpus = PhysicalCpus(@, line.value)]
    [] OTHER -> info

ProcessorKeys == {"processor"}

LocalAfter(line) ==
  CASE line.key \in ProcessorKeys -> [local EXCEPT !.processor_count = @ + 1]
    [] line.key = "CPU implementer" ->
         [local EXCEPT !.cpu_implementer = KeepFirst(@, line.value)]
    [] line.key = "CPU part" -> [local EXCEPT !.cpu_part = PartAfter(@, line.value)]
    [] OTHER -> local

GetLine ==
  /\ pc = "getline" /\ lines # <<>>
  /\ lines' = Tail(lines)
  /\ info' = InfoAfter(Line(at - 1, Head(lines)))
  /\ local' = LocalAfter(Line(at - 1, Head(lines)))
  /\ UNCHANGED <<host, pc, at, history>>

\* Mutant: only ARM processors are counted by their numbers.
FallbackOnArm == info.logical_cpus = 0 /\ local.cpu_implementer # NoValue

\* No clock line was found.
Fallback == local.processor_count > 0 /\ info.logical_cpus = 0

\* The end of the file; without a clock line, every processor is taken for a
\* physical one and an ARM name is put together.
EndOfFile ==
  /\ pc = "getline" /\ lines = <<>> /\ Ahead = {} /\ pc' = "done"
  /\ info' =
       IF Fallback
       THEN [model_name |->
               IF info.model_name = NoName /\ local.cpu_implementer # NoValue
               THEN [kind |-> "ARM", implementer |-> local.cpu_implementer,
                     part |-> local.cpu_part]
               ELSE info.model_name,
             logical_cpus |-> local.processor_count,
             physical_cpus |-> local.processor_count]
       ELSE info
  /\ UNCHANGED <<host, lines, at, local, history>>

Step == OpenCpuInfo \/ Fill \/ GetLine \/ EndOfFile

Next == Offline \/ Online \/ Step

Spec == Init /\ [][Next]_vars
-----------------------------------------------------------------------------
Packages(cpus) == {machine.package[c] : c \in cpus}

\* Type invariant.
TypeOK ==
  /\ online \subseteq Cpus /\ pc \in {"open", "getline", "done"}
  /\ at \in Nat
  /\ info.logical_cpus \in Nat /\ info.physical_cpus \in Nat
  /\ local.processor_count \in Nat
  /\ stable \subseteq seen /\ seen \subseteq Cpus
  /\ local.processor_count <= Cardinality(seen)

\* With clock lines, physical_processor bounds the id of every package that
\* had a processor all along, and it is an id of the host plus one: it covers
\* the packages and comes from one of them.
PhysicalCpusCoverPackages ==
  pc = "done" /\ seen # {} /\ machine.form = "x86" =>
    /\ \A id \in Packages(stable) : id < info.physical_cpus
    /\ \E id \in Packages(seen) : info.physical_cpus = id + 1

\* A host with processors reports some, whatever the form of its records
\* (test/sql/system_stats_cpu.test:20-24): each form has a line by which the
\* loop or the fallback counts.  Where the records name packages or have no
\* clock line, it reports physical ones too.
SomeProcessor ==
  pc = "done" /\ seen # {} =>
    /\ info.logical_cpus > 0
    /\ machine.form # "x86 without SMP" => info.physical_cpus > 0

\* The ARM name describes one processor, not a mixture of two, and a name is
\* always found.
NameOfOneCpu ==
  pc = "done" /\ seen # {} =>
    \E c \in seen :
      \/ info.model_name = [kind |-> "model name", name |-> machine.model[c]]
      \/ info.model_name = [kind |-> "ARM", implementer |-> machine.model[c],
                            part |-> machine.model[c]]

\* Refinement: however processors come and go, logical_processor counts each
\* that was there all along, and no more than were ever there.
SurveyStatus ==
  CASE pc = "open" -> "waiting"
    [] pc = "getline" -> "counting"
    [] OTHER -> IF seen = {} THEN "failed" ELSE "done"

surveyCount == IF pc = "done" THEN info.logical_cpus ELSE 0

Processors == INSTANCE Survey WITH
  Things <- Cpus, present <- online, status <- SurveyStatus, count <- surveyCount

ImplementsSurvey == Processors!Spec

\* "Test that physical_processor is greater than 0"
\* (test/sql/system_stats_cpu.test:26), on any host.
PhysicalProcessorReported ==
  pc = "done" /\ seen # {} => info.physical_cpus > 0

\* "Count unique physical processors" (src/cpu_stats.cpp:131).
UniquePhysicalCpus ==
  pc = "done" /\ seen # {} /\ seen = stable /\ machine.form = "x86" =>
    info.physical_cpus = Cardinality(Packages(stable))
=============================================================================
