----------------------------- MODULE OSInfoMac -----------------------------
(***************************************************************************)
(* The counts of GetOSInfoMacOS (os_info.cpp).  Processes are counted by   *)
(* the size sysctl wants for its table; threads and handles each by asking *)
(* for that size, then for the table, then process by process, while       *)
(* processes are forked and exit and their pids are used again; nothing    *)
(* bounds how often.                                                       *)
(***************************************************************************)
EXTENDS Naturals, Sequences, FiniteSets, SequencesExt, FiniteSetsExt

CONSTANTS
  Pids,     \* the pids of the host
  Self,     \* the pid of this process
  Kinds,    \* what processes can be: [threads, fds, readable] records
  Unwritten,  \* memory from malloc that the kernel has not written
  Spare,    \* entries by which the kernel rounds the size of its table up
  FdSpare   \* entries by which it rounds the size of a process's handles up

\* Assumed of the constants.
OSMacAssumption ==
  /\ IsFiniteSet(Pids) /\ Self \in Pids /\ Unwritten \notin Pids
  /\ Kinds \subseteq [threads : Nat \ {0}, fds : Nat, readable : BOOLEAN]
  /\ \E k \in Kinds : k.readable
  /\ Spare \in Nat /\ FdSpare \in Nat

VARIABLES
  procs,    \* procs[p]: the process with pid p, or Gone
  pc,       \* the statement the call is at
  sum,      \* what is summed up: "threads" or "fds"
  len,      \* room in the buffer, then what is used of it, in entries
  buf,      \* the table fetched
  idx,      \* the entry of the table the loop is at
  held,     \* the memory the call holds
  total,    \* the sum so far
  info,     \* struct OSInfo
  stable    \* history: processes that have lived since the table was fetched

callVars == <<pc, sum, len, buf, idx, held, total, info>>
vars == <<procs, callVars, stable>>

Gone == [threads |-> 0, fds |-> 0, readable |-> FALSE]
Alive == {p \in Pids : procs[p] # Gone}

Init ==
  /\ procs \in [Pids -> Kinds \cup {Gone}] /\ procs[Self] # Gone /\ procs[Self].readable
  /\ pc = "process_count" /\ sum = "threads"
  /\ len = 0 /\ buf = <<>> /\ idx = 1 /\ held = {} /\ total = 0
  /\ info = [process_count |-> 0, thread_count |-> 0, handle_count |-> 0]
  /\ stable = {}
-----------------------------------------------------------------------------
(* The host (external). *)

Fork ==
  \E p \in Pids \ Alive : \E k \in Kinds :
    /\ procs' = [procs EXCEPT ![p] = k]
    /\ UNCHANGED <<callVars, stable>>

Exit ==
  \E p \in Alive \ {Self} :
    /\ procs' = [procs EXCEPT ![p] = Gone]
    /\ stable' = stable \ {p}
    /\ UNCHANGED callVars
-----------------------------------------------------------------------------
(* The call. *)

\* KERN_PROC without a buffer (external): more than there is.
TableSize == Cardinality(Alive) + Spare

CountProcesses ==
  /\ pc = "process_count" /\ pc' = "size"
  /\ \/ info' = [info EXCEPT !.process_count = TableSize]
     \/ UNCHANGED info
  /\ UNCHANGED <<procs, sum, len, buf, idx, held, total, stable>>

\* Mutant: a failure returns past the SCOPE_EXIT.
HeldAfterReturnAll == held

HeldAfterReturn == {}

\* One function returns n: first GetThreadCountMacOS, then GetHandleCountMacOS.
Returns(n) ==
  /\ held' = HeldAfterReturn /\ len' = 0 /\ buf' = <<>> /\ total' = 0 /\ idx' = 1
  /\ stable' = {}
  /\ IF sum = "threads"
     THEN info' = [info EXCEPT !.thread_count = n] /\ sum' = "fds" /\ pc' = "size"
     ELSE info' = [info EXCEPT !.handle_count = n] /\ pc' = "done" /\ UNCHANGED sum

\* The first sysctl, and malloc; a failure returns 0.
AskSize ==
  /\ pc = "size"
  /\ \/ /\ pc' = "fetch" /\ len' = TableSize /\ held' = {"buf"}
        /\ UNCHANGED <<sum, buf, idx, total, info, stable>>
     \/ Returns(0)
  /\ UNCHANGED procs

\* Mutant: the loop runs over the room that was asked for.
UsedAll == len

\* What the second sysctl puts into len.
Used == Cardinality(Alive)

\* The second sysctl: ENOMEM if the table has outgrown the buffer.
Fetch ==
  /\ pc = "fetch"
  /\ \/ /\ Cardinality(Alive) <= len
        /\ pc' = "loop" /\ len' = Used
        /\ buf' = SetToSeq(Alive) \o [k \in 1..len - Cardinality(Alive) |-> Unwritten]
        /\ stable' = Alive
        /\ UNCHANGED <<sum, idx, held, total, info>>
     \/ Returns(0)
  /\ UNCHANGED procs

\* Mutant: a process that cannot be asked ends the loop.
AfterFailureBreak == len + 1

AfterFailure == idx + 1

\* proc_pidinfo: nothing of a process that has gone, is a zombie or belongs
\* to another user; the handles are counted by the size the kernel wants.
PidInfo ==
  /\ pc = "loop" /\ idx <= len
  /\ \E proc \in {IF buf[idx] \in Alive THEN procs[buf[idx]] ELSE Gone} :
       IF proc.readable
       THEN /\ total' = total + IF sum = "threads" THEN proc.threads ELSE proc.fds + FdSpare
            /\ idx' = idx + 1
       ELSE idx' = AfterFailure /\ UNCHANGED total
  /\ UNCHANGED <<procs, pc, sum, len, buf, held, info, stable>>

EndLoop ==
  /\ pc = "loop" /\ idx > len
  /\ Returns(total)
  /\ UNCHANGED procs

\* GetDbInstance throws where a failure is logged.
Throw ==
  /\ pc \in {"process_count", "size", "fetch"}
  /\ pc' = "thrown" /\ held' = {}
  /\ UNCHANGED <<procs, sum, len, buf, idx, total, info, stable>>

Step == CountProcesses \/ AskSize \/ Fetch \/ PidInfo \/ EndLoop \/ Throw

Next == Fork \/ Exit \/ Step

Spec == Init /\ [][Next]_vars
-----------------------------------------------------------------------------
\* Type invariant; the loop never steps over the end of the table.
TypeOK ==
  /\ procs \in [Pids -> Kinds \cup {Gone}]
  /\ pc \in {"process_count", "size", "fetch", "loop", "done", "thrown"}
  /\ sum \in {"threads", "fds"}
  /\ stable \subseteq Alive
  /\ idx \in 1..len + 1

\* The buffer is held while the loop reads it, the loop reads only entries
\* the kernel has written, and no way out of the three functions leaks it.
MemoryHeld ==
  /\ pc \in {"fetch", "loop"} <=> held # {}
  /\ pc = "loop" /\ idx <= len => buf[idx] # Unwritten

\* While the loop runs, the sum has what the stable processes passed so far
\* have, whichever of the others failed: a process that cannot be asked hides
\* none behind it.
SumCoversStable ==
  pc = "loop" =>
    LET passed == {p \in stable : procs[p].readable /\ \E k \in 1..idx - 1 : buf[k] = p}
        of == [p \in Pids |-> IF sum = "threads" THEN procs[p].threads ELSE procs[p].fds + FdSpare]
    IN  total >= SumFunctionOnSet(of, passed)
=============================================================================
