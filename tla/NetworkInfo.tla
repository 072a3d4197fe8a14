---------------------------- MODULE NetworkInfo ----------------------------
(***************************************************************************)
(* GetNetworkInfoLinux (network_stats.cpp): a snapshot of the interface    *)
(* addresses, then for each IPv4 address nine files of /sys/class/net read *)
(* one after the other, while packets flow and interfaces come and go.     *)
(***************************************************************************)
EXTENDS NetworkHost

\* Mutant: the packets are read before the bytes.
StatsPacketsFirst ==
  <<"rx_packets", "tx_packets", "rx_bytes", "tx_bytes",
    "rx_errors", "tx_errors", "rx_dropped", "tx_dropped">>

\* The statistics of a row, in the order the code reads them.
Stats == <<"rx_bytes", "tx_bytes", "rx_packets", "tx_packets",
           "rx_errors", "tx_errors", "rx_dropped", "tx_dropped">>

VARIABLES
  pc,        \* the statement the scan is at
  ifaddr,    \* the list of getifaddrs: [of, family] records
  ifa,       \* position in ifaddr
  info,      \* the row being filled
  networks   \* the rows found so far

scanVars == <<pc, ifaddr, ifa, info, networks>>
vars == <<hostVars, history, scanVars>>

\* struct NetworkInfo as it is constructed.  refused is history: the columns
\* whose file could not be opened.
NoInfo == [of |-> [name |-> ""], ipv4_address |-> FALSE, speed_mbps |-> 0,
           stat |-> ZeroStats, refused |-> {}]

Init ==
  /\ HostInit
  /\ pc = "getifaddrs"
  /\ ifaddr = <<>> /\ ifa = 1 /\ info = NoInfo /\ networks = <<>>
-----------------------------------------------------------------------------
\* A failure returns no rows.
GetIfAddrs ==
  /\ pc = "getifaddrs"
  /\ \/ pc' = "entry" /\ ifaddr' = AddressList /\ Taken
     \/ pc' = "failed" /\ UNCHANGED <<ifaddr, history>>
  /\ UNCHANGED <<hostVars, ifa, info, networks>>

\* The loop test and the two filters; freeifaddrs at the end.
Entry ==
  /\ pc = "entry"
  /\ \/ /\ ifa > Len(ifaddr)
        /\ pc' = "done" /\ ifaddr' = <<>>
        /\ UNCHANGED <<ifa, info>>
     \/ /\ ifa <= Len(ifaddr) /\ ifaddr[ifa].family # "inet"
        /\ ifa' = ifa + 1
        /\ UNCHANGED <<pc, ifaddr, info>>
     \/ /\ ifa <= Len(ifaddr) /\ ifaddr[ifa].family = "inet"
        /\ \E ok \in BOOLEAN :  \* getnameinfo may fail
             info' = [NoInfo EXCEPT !.of = ifaddr[ifa].of, !.ipv4_address = ok]
        /\ pc' = "speed"
        /\ UNCHANGED <<ifa, ifaddr>>
  /\ UNCHANGED <<hostVars, networks, history>>

\* file >> uint64_t: a minus sign negates modulo 2^64.
Extract(n) == n % Word

\* A file that cannot be opened or read (no interface, no link) leaves 0.
ReadSpeedMbps ==
  /\ pc = "speed"
  /\ \E speed \in {0} \cup {Extract(i.speed) : i \in present \cap {info.of}} :
       info' = [info EXCEPT !.speed_mbps = speed]
  /\ pc' = Stats[1]
  /\ UNCHANGED <<hostVars, ifaddr, ifa, networks, history>>

\* Mutant: tx_dropped is read from the file of tx_packets.
FileMixedUp(stat) == IF stat = "tx_dropped" THEN "tx_packets" ELSE stat

\* The file of a column.
File(stat) == stat

\* The interface has vanished; or it is there and the file is refused: no
\* descriptor is left, /sys is hidden, or the name is an address's label.
OpenFails ==
  \/ info.of \notin present /\ UNCHANGED events
  \/ info.of \in present /\ events < MaxEvents /\ events' = events + 1

\* One statistics file, 0 if it cannot be opened.  The last completes the row.
ReadSysNetValue ==
  \E k \in 1..Len(Stats) :
    /\ pc = Stats[k]
    /\ \/ /\ info.of \in present /\ UNCHANGED events
          /\ info' = [info EXCEPT !.stat[Stats[k]] = counter[info.of][File(Stats[k])]]
       \/ /\ OpenFails
          /\ info' = [info EXCEPT !.stat[Stats[k]] = 0, !.refused = @ \cup {Stats[k]}]
    /\ IF k < Len(Stats)
       THEN pc' = Stats[k + 1] /\ UNCHANGED <<networks, ifa>>
       ELSE pc' = "entry" /\ networks' = Append(networks, info') /\ ifa' = ifa + 1
    /\ UNCHANGED <<present, counter, ifaddr, history>>

\* Logging a failure may throw: at getifaddrs, at the getnameinfo of an entry
\* and at each file.  The rows are lost and the list is freed.
Throw ==
  /\ pc \in {"getifaddrs", "entry", "speed"} \cup Stat
  /\ pc = "entry" => ifa <= Len(ifaddr) /\ ifaddr[ifa].family = "inet"
  /\ pc' = "thrown" /\ ifaddr' = <<>> /\ info' = NoInfo /\ networks' = <<>>
  /\ UNCHANGED <<hostVars, ifa, history>>

Step == GetIfAddrs \/ Entry \/ ReadSpeedMbps \/ ReadSysNetValue \/ Throw

Over == pc \in {"done", "failed", "thrown"}

Finished == Over /\ UNCHANGED vars

Next == (HostStep /\ UNCHANGED scanVars) \/ Step \/ Finished

Spec == Init /\ [][Next]_vars
-----------------------------------------------------------------------------
\* Type invariant.
TypeOK ==
  /\ HostTypeOK
  /\ Over \/ pc \in {"getifaddrs", "entry", "speed"} \cup Stat
  /\ ifa \in 1..Len(ifaddr) + 1 \/ Over
  /\ \A row \in Range(networks) :
       /\ row.of \in Interfaces /\ row.ipv4_address \in BOOLEAN
       /\ row.speed_mbps \in 0..Word - 1 /\ row.refused \subseteq Stat
       /\ \A s \in Stat : row.stat[s] \in Nat

\* Each statistic of a row is a value the interface had while the scan ran,
\* although the eight are read at eight moments, or 0 if its own file was
\* refused: no column is filled from another statistic or another interface,
\* and a file that fails spoils no other column.  (An interface that vanished
\* reads as 0, one created anew as its second life's value.)
CountersWithinScan ==
  \A row \in Range(networks) : row.of \in same =>
    \A s \in Stat :
      IF s \in row.refused THEN row.stat[s] = 0
      ELSE since[row.of][s] <= row.stat[s] /\ row.stat[s] <= counter[row.of][s]

\* The bytes of a row are never more than its packets can carry, although
\* packets arrive between the reads: the code reads the bytes first.  Where
\* the file of the packets was refused there is nothing to compare with.
BytesFitPackets ==
  \A row \in Range(networks) : row.of \in same =>
    /\ "rx_packets" \notin row.refused =>
         row.stat["rx_bytes"] - since[row.of]["rx_bytes"]
           <= MTU * (row.stat["rx_packets"] - since[row.of]["rx_packets"])
    /\ "tx_packets" \notin row.refused =>
         row.stat["tx_bytes"] - since[row.of]["tx_bytes"]
           <= MTU * (row.stat["tx_packets"] - since[row.of]["tx_packets"])

\* A finished scan has one row for each IPv4 address of an interface that
\* stayed, in the list's order, whatever became of the others: a file that
\* cannot be read never drops or repeats a row.
RowPerAddress ==
  pc = "done" => \A i \in same :
    Cardinality({k \in 1..Len(networks) : networks[k].of = i})
      = Cardinality({n \in 1..Len(i.families) : i.families[n] = "inet"})

\* docs/README.md: link_speed_mbps is "0 if not available".  An interface
\* whose driver does not know the speed has -1 in its speed file.
LinkSpeedZeroIfUnknown ==
  \A row \in Range(networks) : row.of.speed = -1 => row.speed_mbps = 0
=============================================================================
