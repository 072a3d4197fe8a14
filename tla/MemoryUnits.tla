---------------------------- MODULE MemoryUnits ----------------------------
(***************************************************************************)
(* The units of sys_memory_info and sys_disk_info (memory_unit_util.cpp):  *)
(* the names the "unit" parameter accepts and the division each one makes. *)
(*                                                                         *)
(* The code's 1000 and 1024 are the constants Kilo and Kibi, so that TLC   *)
(* can use small ones; every result is a C++ integer division, \div.       *)
(***************************************************************************)
EXTENDS Naturals

CONSTANTS
  Kilo,   \* 1000 in the code
  Kibi    \* 1024 in the code

ASSUME ScaleAssumption ==
  /\ Kilo \in Nat \ {0}
  /\ Kibi \in Nat \ {0}

MemoryUnit == {"BYTES", "KB", "KiB", "MB", "MiB", "GB", "GiB", "TB", "TiB"}

\* The number of bytes in one unit.
Divisor(unit) ==
  CASE unit = "KB"  -> Kilo
    [] unit = "KiB" -> Kibi
    [] unit = "MB"  -> Kilo * Kilo
    [] unit = "MiB" -> Kibi * Kibi
    [] unit = "GB"  -> Kilo * Kilo * Kilo
    [] unit = "GiB" -> Kibi * Kibi * Kibi
    [] unit = "TB"  -> Kilo * Kilo * Kilo * Kilo
    [] unit = "TiB" -> Kibi * Kibi * Kibi * Kibi
    [] OTHER        -> 1

ConvertBytes(bytes, unit) == bytes \div Divisor(unit)

\* ParseUnit compares in lower case, so an argument is named here by its
\* lower-case letters; any other argument is rejected with an exception.
Spelling ==
  [bytes |-> "BYTES", b  |-> "BYTES",
   kb |-> "KB", kib |-> "KiB", mb |-> "MB", mib |-> "MiB",
   gb |-> "GB", gib |-> "GiB", tb |-> "TB", tib |-> "TiB"]

IsUnit(unit_str) == unit_str \in DOMAIN Spelling

\* Mutant: the argument is kept as it was spelled.
ParseUnitVerbatim(unit_str) == unit_str

ParseUnit(unit_str) == Spelling[unit_str]
=============================================================================
