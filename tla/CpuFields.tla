----------------------------- MODULE CpuFields -----------------------------
(***************************************************************************)
(* The fields of CPUInfo (cpu_stats.cpp) that are asked one by one: the    *)
(* cache sizes and the architecture on Linux, all of them on macOS, where  *)
(* the questions share the variables they are answered in.  A question may *)
(* be refused: containers hide the caches, and not every Mac has each      *)
(* level.  What GetCPUInfoLinux takes from /proc/cpuinfo is in CpuInfo.    *)
(***************************************************************************)
EXTENDS Naturals, Sequences, SequencesExt

CONSTANTS
  Sizes,   \* sizes of a cache in KiB
  KiB      \* 1024

\* Assumed of the constants.
FieldsAssumption == Sizes \subseteq Nat \ {0} /\ KiB \in Nat \ {0}

VARIABLES
  platform, \* for which the extension was built
  machine,  \* the host: cache sizes in KiB, numbers of processors, byte order
  pc,       \* "asking", "done" or "thrown"
  step,     \* the question asked next
  val,      \* the variables of the call that take an answer, by their type
  info,     \* struct CPUInfo
  refused   \* history: the questions that were not answered

vars == <<platform, machine, pc, step, val, info, refused>>

Caches == {"l1d_cache_kb", "l1i_cache_kb", "l2_cache_kb", "l3_cache_kb"}

\* The order of the questions.
Questions ==
  IF platform = "Linux"
  THEN <<"architecture", "l1d_cache_kb", "l1i_cache_kb", "l2_cache_kb", "l3_cache_kb">>
  ELSE <<"byte_order", "logical_cpus", "physical_cpus", "l1d_cache_kb", "l1i_cache_kb",
         "l2_cache_kb", "l3_cache_kb", "model_name", "architecture">>

\* The variable an answer goes to: GetByteOrderMacOS and ReadCPUCacheSize
\* have their own, uname fills a struct.
Variable(f) ==
  IF platform = "Linux" \/ f = "byte_order"
  THEN IF f = "architecture" THEN "uts" ELSE "local"
  ELSE CASE f \in {"logical_cpus", "physical_cpus"}  -> "int_val"
         [] f \in Caches                       -> "uint64_val"
         [] OTHER                                    -> "str_val"

\* What the host answers (external): the /sys files of the caches have KiB,
\* sysctl has bytes.
Answer(f) ==
  IF platform = "macOS" /\ f \in Caches THEN machine[f] * KiB ELSE machine[f]

\* From an answer to the field.
Converted(f, v) ==
  CASE platform = "macOS" /\ f \in Caches -> v \div KiB
    [] f = "byte_order" -> IF v = 1234 THEN "LittleEndian" ELSE "BigEndian"
    [] OTHER -> v

\* A field before it is asked; the byte order has a text for a refusal.
Default(f) ==
  CASE f \in Caches \cup {"logical_cpus", "physical_cpus"} -> 0
    [] f = "byte_order" /\ platform = "macOS" -> "(Unknown)"
    [] OTHER -> ""

Machines ==
  [l1d_cache_kb : Sizes, l1i_cache_kb : Sizes, l2_cache_kb : Sizes, l3_cache_kb : Sizes,
   logical_cpus : {4}, physical_cpus : {2}, byte_order : {1234, 4321},
   model_name : {"model"}, architecture : {"machine"}]

Init ==
  /\ platform \in {"Linux", "macOS"} /\ machine \in Machines
  /\ pc = "asking" /\ step = 1 /\ refused = {}
  /\ val = [int_val |-> 0, uint64_val |-> 0, str_val |-> "", local |-> 0, uts |-> ""]
  /\ info = [f \in DOMAIN machine |-> Default(f)]

\* Mutant: the answer is taken from the variable whether there was one.
AfterRefusalTaken(f) == Converted(f, val[Variable(f)])

AfterRefusal(f) == Default(f)

\* uname, ReadCPUCacheSize, sysctlbyname: a refusal leaves the variable with
\* what the question before has put there.
AskNext ==
  /\ pc = "asking" /\ step <= Len(Questions)
  /\ step' = step + 1
  /\ \E f \in {Questions[step]} :
       \/ /\ val' = [val EXCEPT ![Variable(f)] = Answer(f)]
          /\ info' = [info EXCEPT ![f] = Converted(f, val'[Variable(f)])]
          /\ UNCHANGED refused
       \/ /\ info' = [info EXCEPT ![f] = AfterRefusal(f)] /\ refused' = refused \cup {f}
          /\ UNCHANGED val
  /\ UNCHANGED <<platform, machine, pc>>

\* On to /proc/cpuinfo, or to the end.
Return ==
  /\ pc = "asking" /\ step > Len(Questions) /\ pc' = "done"
  /\ UNCHANGED <<platform, machine, step, val, info, refused>>

\* GetDbInstance throws where a refusal is logged: of everything on Linux, of
\* the architecture and of the number of processors, which nothing uses, on
\* macOS.
Throw ==
  /\ pc = "asking" /\ step <= Len(Questions) /\ pc' = "thrown"
  /\ platform = "Linux" \/ step = 1 \/ Questions[step] = "architecture"
  /\ UNCHANGED <<platform, machine, step, val, info, refused>>

Next == AskNext \/ Return \/ Throw

Spec == Init /\ [][Next]_vars
-----------------------------------------------------------------------------
\* No column has the answer to another question or an older one: a column
\* whose question was refused is as it was, 0 for a cache (docs/README.md:67),
\* and every other one is the host's, a cache in KiB on either platform,
\* whichever of the other questions are refused (cpu_stats.cpp:239-263).
ColumnsOfTheirOwn ==
  pc = "done" =>
    \A f \in ToSet(Questions) :
      IF f \in refused THEN info[f] = Default(f)
      ELSE IF f = "byte_order" THEN info[f] = IF machine[f] = 1234 THEN "LittleEndian" ELSE "BigEndian"
      ELSE info[f] = machine[f]
=============================================================================
