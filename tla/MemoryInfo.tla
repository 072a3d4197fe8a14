----------------------------- MODULE MemoryInfo -----------------------------
(***************************************************************************)
(* GetMemoryInfo (memory_stats.cpp): on Linux one reading of /proc/meminfo *)
(* taken apart line by line, on macOS three questions to the kernel at     *)
(* three moments, while memory is used and given back.                     *)
(***************************************************************************)
EXTENDS Naturals, Sequences, FiniteSets, SequencesExt

CONSTANTS
  MemStates,  \* what a kernel can have: [total, free, inactive, cached,
              \* swap_total, swap_free] records, counted in units
  Optional,   \* the keys of /proc/meminfo only some kernels print
  Unit,       \* bytes per unit: a kB, a page
  Width       \* 2^64

\* A key of /proc/meminfo, as the words it is made of.
Wanted == {<<"Mem", "Total">>, <<"Mem", "Free">>, <<"Cached">>,
           <<"Swap", "Total">>, <<"Swap", "Free">>}

\* Assumed of the constants.
MemoryAssumption ==
  /\ Unit \in Nat \ {0} /\ Width \in Nat \ {0}
  /\ Optional \cap Wanted = {}
  /\ MemStates \subseteq [total : Nat, free : Nat, inactive : Nat, cached : Nat,
                          swap_total : Nat, swap_free : Nat]
  /\ \A m \in MemStates :
       /\ \A f \in DOMAIN m : m[f] * Unit < Width
       /\ m.free + m.inactive <= m.total /\ m.swap_free <= m.swap_total

VARIABLES
  mem,           \* what the kernel has now
  keys,          \* the keys this kernel prints
  pc,            \* the statement the call is at
  text,          \* /proc/meminfo as the first getline has read it
  printed,       \* the keys of the lines got so far
  parsed_count,
  info,          \* struct MemoryInfo
  failed         \* history: the questions the kernel did not answer

vars == <<mem, keys, pc, text, printed, parsed_count, info, failed>>

Init ==
  /\ mem \in MemStates /\ text = mem
  /\ keys \in {Wanted \cup o : o \in SUBSET Optional}
  /\ pc = "start" /\ printed = {} /\ parsed_count = 0 /\ failed = {}
  /\ info = [f \in {"total_memory", "used_memory", "free_memory", "cached_memory",
                    "total_swap", "used_swap", "free_swap"} |-> 0]

\* Programs use memory and give it back; memory is plugged in or ballooned
\* away (external).
Change ==
  /\ mem' \in MemStates
  /\ UNCHANGED <<keys, pc, text, printed, parsed_count, info, failed>>

\* uint64_t.
Minus(a, b) == (a + Width - b) % Width

\* Logging of a failure: GetDbInstance can throw.
Throw == pc' = "thrown" /\ UNCHANGED <<mem, keys, text, printed, parsed_count, info>>
-----------------------------------------------------------------------------
(* Linux. *)

\* What the kernel prints after a key (external).
Value(key) ==
  CASE key = <<"Mem", "Total">>  -> text.total
    [] key = <<"Mem", "Free">>   -> text.free
    [] key = <<"Cached">>        -> text.cached
    [] key = <<"Swap", "Total">> -> text.swap_total
    [] key = <<"Swap", "Free">>  -> text.swap_free
    [] OTHER                     -> text.inactive

OpenFile ==
  /\ pc = "start"
  /\ \/ pc' = "getline" /\ text' = mem /\ UNCHANGED failed
     \/ pc' = "done" /\ failed' = {"meminfo"} /\ UNCHANGED text
  /\ UNCHANGED <<mem, keys, printed, parsed_count, info>>

ParseBytesValue(key) == (Value(key) * Unit) % Width

\* line.find(name) == 0; the name ends in the colon.
IsLineOf(key, name) == key = name

\* Mutant: a line too early.
EnoughAtFour == parsed_count >= 4

Enough == parsed_count >= 5

Field == [total_memory |-> <<"Mem", "Total">>, free_memory |-> <<"Mem", "Free">>,
          cached_memory |-> <<"Cached">>, total_swap |-> <<"Swap", "Total">>,
          free_swap |-> <<"Swap", "Free">>]

\* getline and the five comparisons, in whatever order the lines come.
GetLine ==
  /\ pc = "getline" /\ ~Enough
  /\ \E key \in keys \ printed :
       LET hit == {f \in DOMAIN Field : IsLineOf(key, Field[f])}
       IN  /\ printed' = printed \cup {key}
           /\ info' = [f \in DOMAIN info |-> IF f \in hit THEN ParseBytesValue(key) ELSE info[f]]
           /\ parsed_count' = parsed_count + Cardinality(hit)
  /\ UNCHANGED <<mem, keys, pc, text, failed>>

\* Mutant: the other way round.
UsedOfSwapped(total, free) == Minus(free, total)

UsedOf(total, free) == Minus(total, free)

Subtract ==
  /\ pc = "getline" /\ (Enough \/ printed = keys)
  /\ pc' = "done"
  /\ info' = [info EXCEPT !.used_memory = UsedOf(info.total_memory, info.free_memory),
                          !.used_swap = UsedOf(info.total_swap, info.free_swap)]
  /\ UNCHANGED <<mem, keys, text, printed, parsed_count, failed>>

ThrowLinux == pc = "start" /\ failed' = {"meminfo"} /\ Throw

NextLinux == Change \/ OpenFile \/ GetLine \/ Subtract \/ ThrowLinux

SpecLinux == Init /\ [][NextLinux]_vars
-----------------------------------------------------------------------------
(* macOS. *)

\* HW_MEMSIZE.
SysctlMemSize ==
  /\ pc = "start"
  /\ \/ pc' = "statistics" /\ UNCHANGED failed
        /\ info' = [info EXCEPT !.total_memory = mem.total * Unit]
     \/ pc' = "done" /\ failed' = {"memsize"} /\ UNCHANGED info
  /\ UNCHANGED <<mem, keys, text, printed, parsed_count>>

FreePages(m) == m.inactive + m.free

\* host_statistics, getpagesize.
HostStatistics ==
  /\ pc = "statistics"
  /\ \/ /\ pc' = "swap" /\ UNCHANGED failed
        /\ \E free \in {FreePages(mem) * Unit} :
             info' = [info EXCEPT !.free_memory = free,
                                  !.used_memory = Minus(info.total_memory, free)]
     \/ pc' = "done" /\ failed' = {"statistics"} /\ UNCHANGED info
  /\ UNCHANGED <<mem, keys, text, printed, parsed_count>>

\* struct xsw_usage.
SwapUsage(m) == [total |-> m.swap_total, used |-> m.swap_total - m.swap_free, avail |-> m.swap_free]

\* VM_SWAPUSAGE.
SysctlSwap ==
  /\ pc = "swap" /\ pc' = "done"
  /\ \/ /\ \E swap \in {SwapUsage(mem)} :
             info' = [info EXCEPT !.total_swap = swap.total * Unit, !.used_swap = swap.used * Unit,
                                  !.free_swap = swap.avail * Unit]
        /\ UNCHANGED failed
     \/ failed' = {"swap"} /\ UNCHANGED info
  /\ UNCHANGED <<mem, keys, text, printed, parsed_count>>

ThrowMacOS ==
  \E q \in {"memsize", "statistics", "swap"} :
    /\ pc = IF q = "memsize" THEN "start" ELSE q
    /\ failed' = {q} /\ Throw

\* The memory of a Mac does not change.
NextMacOS ==
  \/ Change /\ mem'.total = mem.total
  \/ SysctlMemSize \/ HostStatistics \/ SysctlSwap \/ ThrowMacOS

SpecMacOS == Init /\ [][NextMacOS]_vars
-----------------------------------------------------------------------------
\* Type invariant; a line counts for one field at most.
TypeOK ==
  /\ mem \in MemStates /\ text \in MemStates
  /\ pc \in {"start", "getline", "statistics", "swap", "done", "thrown"}
  /\ printed \subseteq keys
  /\ parsed_count = Cardinality(printed \cap Wanted)
  /\ \A f \in DOMAIN info : info[f] \in 0..Width - 1

\* The unsigned differences do not wrap: used and free memory, and used and
\* free swap, add up to the total, whatever order the lines come in and
\* whatever memory does between two questions.  Statistics the kernel has
\* refused leave both at 0 (memory_stats.cpp:83, 121).
UsedAndFreeAddUp ==
  pc = "done" =>
    /\ IF failed = {"statistics"} THEN info.used_memory = 0 /\ info.free_memory = 0
       ELSE info.used_memory + info.free_memory = info.total_memory
    /\ info.used_swap + info.free_swap = info.total_swap

\* On Linux every field is the value of the line of its own name, in bytes,
\* as the kernel printed them at one moment; SwapCached is not Cached, and the
\* loop does not end before the last of the five.
FieldsOfOneText ==
  pc = "done" /\ failed = {} =>
    \A f \in DOMAIN Field : info[f] = Value(Field[f]) * Unit
=============================================================================
