---------------------------- MODULE NetworkHost ----------------------------
(***************************************************************************)
(* The network interfaces of a living host (external), as the readers of   *)
(* NetworkInfo and NetworkInfoMac see them.                                *)
(***************************************************************************)
EXTENDS Integers, Sequences, FiniteSets, SequencesExt

CONSTANTS
  Interfaces,  \* what may exist: [name, families, speed] records (below)
  MTU,         \* bytes in the largest packet
  Word,        \* 2^64 in the code
  MaxEvents    \* bound of the model: changes of the host and files it refuses

\* families: the address families of the interface's entries in the list of
\* getifaddrs ("null": no address); speed: the number in its speed file.
\* No two interfaces have the same name.
ASSUME NetworkAssumption ==
  /\ IsFiniteSet(Interfaces)
  /\ \A i, j \in Interfaces : i.name = j.name => i = j
  /\ \A i \in Interfaces :
       /\ i.families \in Seq({"inet", "inet6", "packet", "null"})
       /\ i.speed \in -1..Word - 1
  /\ MTU \in Nat \ {0} /\ Word \in Nat \ {0} /\ MaxEvents \in Nat

VARIABLES
  present,  \* the interfaces there are
  counter,  \* counter[i][s]: the kernel's statistics of interface i
  events,   \* how often the host has changed or refused a file
  since,    \* history: the counters when the reader took its list
  same      \* history: interfaces that stayed since then

hostVars == <<present, counter, events>>
history == <<since, same>>

Stat == {"rx_bytes", "tx_bytes", "rx_packets", "tx_packets",
         "rx_errors", "tx_errors", "rx_dropped", "tx_dropped"}

ZeroStats == [s \in Stat |-> 0]

HostInit ==
  /\ present = Interfaces /\ events = 0
  /\ counter = [i \in Interfaces |-> ZeroStats]
  /\ since = counter /\ same = {}

Happens == events < MaxEvents /\ events' = events + 1 /\ UNCHANGED since

\* A packet is received or sent: both counters move in one update.
Packet ==
  \E i \in present : \E d \in {[b |-> "rx_bytes", p |-> "rx_packets"],
                               [b |-> "tx_bytes", p |-> "tx_packets"]} :
  \E size \in {1, MTU} :
    /\ counter' = [counter EXCEPT ![i][d.b] = @ + size, ![i][d.p] = @ + 1]
    /\ Happens /\ UNCHANGED <<present, same>>

Mishap ==
  \E i \in present : \E s \in {"rx_errors", "tx_errors", "rx_dropped", "tx_dropped"} :
    /\ counter' = [counter EXCEPT ![i][s] = @ + 1]
    /\ Happens /\ UNCHANGED <<present, same>>

Vanish ==
  \E i \in present :
    /\ present' = present \ {i} /\ same' = same \ {i}
    /\ Happens /\ UNCHANGED counter

\* An interface of the same name is created: its counters start again.
Appear ==
  \E i \in Interfaces \ present :
    /\ present' = present \cup {i}
    /\ counter' = [counter EXCEPT ![i] = ZeroStats]
    /\ Happens /\ UNCHANGED same

HostStep == Packet \/ Mishap \/ Vanish \/ Appear

\* The reader's list is taken.
Taken == since' = counter /\ same' = present

\* getifaddrs: the entries of the interfaces there are, interface by interface.
Entries(i) == [n \in 1..Len(i.families) |-> [of |-> i, family |-> i.families[n]]]

AddressList ==
  FlattenSeq([k \in 1..Cardinality(present) |-> Entries(SetToSeq(present)[k])])

HostTypeOK ==
  /\ present \subseteq Interfaces /\ same \subseteq present
  /\ \A i \in Interfaces : \A s \in Stat : counter[i][s] \in Nat /\ since[i][s] \in Nat
  /\ events \in 0..MaxEvents
=============================================================================
