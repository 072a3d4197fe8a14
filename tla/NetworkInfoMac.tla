--------------------------- MODULE NetworkInfoMac ---------------------------
(***************************************************************************)
(* GetNetworkInfoMacOS (network_stats.cpp): the kernel's list of interface *)
(* messages, asked for its size first and then for its contents, joined    *)
(* with the addresses of getifaddrs, each at a moment of its own while     *)
(* packets flow and interfaces come and go.  The join itself reads local   *)
(* memory only; one step of the model handles one message.                 *)
(***************************************************************************)
EXTENDS NetworkHost

CONSTANT Spare  \* messages by which the kernel rounds the size up (external)

VARIABLES
  pc,        \* the statement the call is at
  len,       \* room in buf, then what is used of it, in messages
  buf,       \* the messages: [type, of, stat] records
  next_ptr,  \* the message at hand
  ifaddr,    \* the list of getifaddrs: [of, family] records
  held,      \* the memory the call holds
  networks   \* the rows found so far

callVars == <<pc, len, buf, next_ptr, ifaddr, held, networks>>
vars == <<hostVars, history, callVars>>

Init ==
  /\ HostInit
  /\ pc = "size" /\ len = 0 /\ buf = <<>> /\ next_ptr = 1
  /\ ifaddr = <<>> /\ held = {} /\ networks = <<>>
-----------------------------------------------------------------------------
\* The messages of NET_RT_IFLIST2 (external): for each interface RTM_IFINFO2
\* with its counters, then one message for each of its addresses.
MessagesOf(i) ==
  [n \in 1..Len(i.families) + 1 |->
     [type |-> IF n = 1 THEN "RTM_IFINFO2" ELSE "RTM_NEWADDR", of |-> i, stat |-> counter[i]]]

Messages ==
  FlattenSeq([k \in 1..Cardinality(present) |-> MessagesOf(SetToSeq(present)[k])])

\* Memory from malloc that the kernel has not written.
Garbage == [type |-> "garbage"]

\* Mutant: len is not updated.
UsedAll == len

\* What the second sysctl puts into len.
Used == Len(Messages)

\* What is left after the SCOPE_EXITs.
HeldAfterReturn == {}

Fails ==
  /\ pc' = "failed" /\ held' = HeldAfterReturn
  /\ UNCHANGED <<len, buf, next_ptr, ifaddr, networks, hostVars, history>>

\* The first sysctl, and malloc.
AskSize ==
  /\ pc = "size"
  /\ \/ /\ pc' = "fetch" /\ len' = Len(Messages) + Spare /\ held' = held \cup {"buf"}
        /\ UNCHANGED <<buf, next_ptr, ifaddr, networks, hostVars, history>>
     \/ Fails

\* The second sysctl: ENOMEM if the list has outgrown the buffer.
Fetch ==
  /\ pc = "fetch"
  /\ \/ /\ Len(Messages) <= len
        /\ pc' = "getifaddrs" /\ len' = Used /\ Taken
        /\ buf' = Messages \o [k \in 1..len - Len(Messages) |-> Garbage]
        /\ UNCHANGED <<next_ptr, ifaddr, held, networks, hostVars>>
     \/ Fails

GetIfAddrs ==
  /\ pc = "getifaddrs"
  /\ \/ /\ pc' = "message" /\ ifaddr' = AddressList /\ held' = held \cup {"ifaddr"}
        /\ UNCHANGED <<len, buf, next_ptr, networks, hostVars, history>>
     \/ Fails

\* The IPv4 addresses of the name.
Addresses(name) ==
  {n \in 1..Len(ifaddr) : ifaddr[n].of.name = name /\ ifaddr[n].family = "inet"}

\* Mutant: no break.
MatchesAll(name) == Addresses(name)

\* Those that give a row: the first, if any.
Matches(name) == {n \in Addresses(name) : \A o \in Addresses(name) : n <= o}

\* The columns from if_msghdr2; macOS has no count of dropped output.
Columns(k) == [buf[k].stat EXCEPT !["tx_dropped"] = 0]

IsInterface(k) == buf[k].type = "RTM_IFINFO2"

\* One message; both blocks of memory are released at the end.
ReadMessage ==
  /\ pc = "message"
  /\ IF next_ptr > len
     THEN /\ pc' = "done" /\ held' = HeldAfterReturn
          /\ UNCHANGED <<next_ptr, networks>>
     ELSE /\ next_ptr' = next_ptr + 1
          /\ networks' =
               IF ~IsInterface(next_ptr) THEN networks
               ELSE networks \o [m \in 1..Cardinality(Matches(buf[next_ptr].of.name)) |->
                      [of |-> buf[next_ptr].of, stat |-> Columns(next_ptr)]]
          /\ UNCHANGED <<pc, held>>
  /\ UNCHANGED <<len, buf, ifaddr, hostVars, history>>

\* Logging a failure may throw, also that of getnameinfo for a row; the
\* SCOPE_EXITs run and the rows are lost.
Throw ==
  /\ pc \in {"size", "fetch", "getifaddrs", "message"}
  /\ pc = "message" =>
       /\ next_ptr <= len /\ IsInterface(next_ptr)
       /\ Matches(buf[next_ptr].of.name) # {}
  /\ pc' = "thrown" /\ held' = HeldAfterReturn /\ networks' = <<>>
  /\ UNCHANGED <<len, buf, next_ptr, ifaddr, hostVars, history>>

Step == AskSize \/ Fetch \/ GetIfAddrs \/ ReadMessage \/ Throw

Over == pc \in {"done", "failed", "thrown"}

Finished == Over /\ UNCHANGED vars

Next == (HostStep /\ UNCHANGED callVars) \/ Step \/ Finished

Spec == Init /\ [][Next]_vars
-----------------------------------------------------------------------------
\* Type invariant.
TypeOK ==
  /\ HostTypeOK
  /\ Over \/ pc \in {"size", "fetch", "getifaddrs", "message"}
  /\ Len(networks) <= Cardinality(Interfaces)
  /\ \A row \in Range(networks) : row.of \in Interfaces /\ row.stat \in [Stat -> Nat]

\* The loop reads only messages the kernel has written and addresses that are
\* still there, and nothing is held once the call is over, whichever of the
\* four calls failed and whether logging it threw.
MemoryHeld ==
  /\ pc = "message" =>
       /\ held = {"buf", "ifaddr"}
       /\ next_ptr <= len => next_ptr <= Len(buf) /\ buf[next_ptr] # Garbage
  /\ Over => held = {}

\* The columns of a row are one interface's at one moment, that of the second
\* sysctl, whatever happens before and after it.
CountersOfOneMoment ==
  \A row \in Range(networks) : row.of \in same =>
    row.stat = [since[row.of] EXCEPT !["tx_dropped"] = 0]

\* An interface has one row however many addresses it has and however often
\* it is created again between the two lists, and a finished call has that
\* row if it stayed and has an IPv4 address.
RowPerInterface ==
  \A i \in Interfaces :
    LET rows == {k \in 1..Len(networks) : networks[k].of = i} IN
    /\ Cardinality(rows) <= 1
    /\ pc = "done" /\ i \in same =>
         (rows # {} <=> \E n \in 1..Len(i.families) : i.families[n] = "inet")
=============================================================================
