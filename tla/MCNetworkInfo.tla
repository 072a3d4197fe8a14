--------------------------- MODULE MCNetworkInfo ---------------------------
(***************************************************************************)
(* sys_network_info's reader as it is built for one platform or the other, *)
(* on one host: an interface with two IPv4 addresses, whose driver does    *)
(* not know its speed, and one without any.                                *)
(***************************************************************************)
EXTENDS NetworkHost

CONSTANT Spare

ASSUME MCAssumption == Spare \in Nat

Eth == [name |-> "eth0", families |-> <<"packet", "inet", "inet">>, speed |-> -1]
Tun == [name |-> "tun0", families |-> <<"null", "inet6">>, speed |-> 10]

MCInterfaces == {Eth, Tun}

VARIABLES
  platform,                       \* for which the extension was built
  pc, ifaddr, networks,           \* of either reader
  ifa, info,                      \* of the Linux reader
  len, buf, next_ptr, held        \* of the macOS reader

linuxVars == <<ifa, info>>
macVars == <<len, buf, next_ptr, held>>
vars == <<hostVars, history, platform, pc, ifaddr, networks, linuxVars, macVars>>

Linux == INSTANCE NetworkInfo
MacOS == INSTANCE NetworkInfoMac

Init ==
  \/ /\ platform = "Linux" /\ Linux!Init
     /\ len = 0 /\ buf = <<>> /\ next_ptr = 0 /\ held = {}
  \/ /\ platform = "macOS" /\ MacOS!Init
     /\ ifa = 0 /\ info = <<>>

Next ==
  \/ platform = "Linux" /\ Linux!Next /\ UNCHANGED <<platform, macVars>>
  \/ platform = "macOS" /\ MacOS!Next /\ UNCHANGED <<platform, linuxVars>>

Spec == Init /\ [][Next]_vars
-----------------------------------------------------------------------------
\* Each statistic of a row is that of its own column and interface.  Linux:
\* with a value the interface had while the scan ran, although the eight are
\* read at eight moments (network_stats.cpp:115), or 0 if just that column's
\* file could not be opened (:45); macOS: of one moment (:159).
CountersWithinScan ==
  IF platform = "Linux" THEN Linux!CountersWithinScan ELSE MacOS!CountersOfOneMoment

\* Linux: the bytes of a row are never more than its packets can carry, if
\* these could be read: the code reads the bytes first
\* (network_stats.cpp:115-118).
BytesFitPackets == platform = "Linux" => Linux!BytesFitPackets

\* Linux: one row for each IPv4 address of an interface that stayed, whatever
\* became of the others and their files (network_stats.cpp:87-126).  macOS: an
\* interface has one row at most, and has it if it stayed and has an IPv4
\* address (:196-237).
OneRowEach ==
  IF platform = "Linux" THEN Linux!RowPerAddress ELSE MacOS!RowPerInterface

\* Linux: "0 if not available" (docs/README.md:111).
LinkSpeedZeroIfUnknown == platform = "Linux" => Linux!LinkSpeedZeroIfUnknown

\* macOS: only memory the kernel has written is read, and none is held after
\* any way out (network_stats.cpp:155-177).
MemoryHeld == platform = "macOS" => MacOS!MemoryHeld
=============================================================================
