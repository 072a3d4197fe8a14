--------------------------- MODULE TableFunctions ---------------------------
(***************************************************************************)
(* The five table functions of the extension as DuckDB drives them: Bind   *)
(* once per prepared query, then, for every execution, the global Init and *)
(* calls of the function until it returns an empty chunk, while the host   *)
(* they report on keeps changing.                                          *)
(*                                                                         *)
(* sys_disk_info, sys_network_info and sys_os_info read the host in Init   *)
(* and serve rows from that copy; sys_memory_info and sys_cpu_info read it *)
(* inside their first call.  A row is one number: what its columns hold is *)
(* the subject of the component modules (DiskInfo, ...).                   *)
(***************************************************************************)
EXTENDS MemoryUnits, Sequences

CONSTANTS
  Queries,               \* prepared queries, each scanning one function
  Samples,               \* Samples[f]: the results Get...Info can return for f
  UnitArgs,              \* spellings of the "unit" argument that queries use
  NoArgument,            \* the query passes no "unit" argument
  STANDARD_VECTOR_SIZE,  \* capacity of a DataChunk
  MaxFetched             \* bound of the model: rows the client keeps

FunctionName ==
  {"sys_memory_info", "sys_cpu_info", "sys_disk_info", "sys_network_info",
   "sys_os_info"}

OneRow == {"sys_memory_info", "sys_cpu_info", "sys_os_info"}
ReadsInCall == {"sys_memory_info", "sys_cpu_info"}

ASSUME TableAssumption ==
  /\ STANDARD_VECTOR_SIZE \in Nat \ {0}
  /\ MaxFetched \in Nat
  /\ NoArgument \notin UnitArgs
  /\ \A f \in FunctionName :
       /\ Samples[f] \subseteq Seq(Nat)
       /\ Samples[f] # {}
       /\ f \in OneRow => \A rows \in Samples[f] : Len(rows) = 1

VARIABLES
  host,     \* host[f]: what Get...Info would return for f now
  phase,    \* phase[q]: where the engine is with q
  bind,     \* bind[q]: the function bound and the unit in its bind data
  state,    \* state[q]: the GlobalTableFunctionState of the execution
  output,   \* output[q]: the DataChunk the function fills
  result,   \* result[q]: the rows the engine has taken in this execution
  seen      \* history: the reading of the host this execution reports

vars == <<host, phase, bind, state, output, result, seen>>

Phase == {"idle", "bound", "ready", "returned", "done", "error"}

GlobalState == [finished : BOOLEAN, current_index : Nat, rows : Seq(Nat)]

FreshState(rows) == [finished |-> FALSE, current_index |-> 0, rows |-> rows]

HostStates ==
  {h \in [FunctionName -> UNION {Samples[f] : f \in FunctionName}] :
     \A f \in FunctionName : h[f] \in Samples[f]}

Init ==
  /\ host \in HostStates
  /\ phase = [q \in Queries |-> "idle"]
  /\ bind = [q \in Queries |-> [fn |-> "none", unit |-> "BYTES"]]
  /\ state = [q \in Queries |-> FreshState(<<>>)]
  /\ output = [q \in Queries |-> <<>>]
  /\ result = [q \in Queries |-> <<>>]
  /\ seen = [q \in Queries |-> <<>>]

HostChanges ==
  /\ \E f \in FunctionName : \E rows \in Samples[f] :
       host' = [host EXCEPT ![f] = rows]
  /\ UNCHANGED <<phase, bind, state, output, result, seen>>
-----------------------------------------------------------------------------
(* Bind: the parameters of the call become bind data, or an exception. *)

Bound(q, f, unit) ==
  /\ phase[q] = "idle"
  /\ phase' = [phase EXCEPT ![q] = "bound"]
  /\ bind' = [bind EXCEPT ![q] = [fn |-> f, unit |-> unit]]
  /\ UNCHANGED <<host, state, output, result, seen>>

BindThrows(q) ==
  /\ phase[q] = "idle"
  /\ phase' = [phase EXCEPT ![q] = "error"]
  /\ UNCHANGED <<host, bind, state, output, result, seen>>

BindUnit(q, f, arg) ==
  \/ arg = NoArgument /\ Bound(q, f, "BYTES")
  \/ arg # NoArgument /\ IsUnit(arg) /\ Bound(q, f, ParseUnit(arg))
  \/ arg # NoArgument /\ ~IsUnit(arg) /\ BindThrows(q)

SysMemoryInfoBind(q) ==
  \E arg \in UnitArgs \cup {NoArgument} : BindUnit(q, "sys_memory_info", arg)
SysDiskInfoBind(q) ==
  \E arg \in UnitArgs \cup {NoArgument} : BindUnit(q, "sys_disk_info", arg)
SysCPUInfoBind(q)     == Bound(q, "sys_cpu_info", "BYTES")
SysNetworkInfoBind(q) == Bound(q, "sys_network_info", "BYTES")
SysOSInfoBind(q)      == Bound(q, "sys_os_info", "BYTES")
-----------------------------------------------------------------------------
(* Init: an execution of a bound query gets a global state of its own. *)

\* Mutant: a re-execution finds the state the previous one left.
NewStateKept(q, rows) ==
  IF phase[q] = "done" THEN state ELSE [state EXCEPT ![q] = FreshState(rows)]

NewState(q, rows) == [state EXCEPT ![q] = FreshState(rows)]

Start(q, f, rows) ==
  /\ phase[q] \in {"bound", "done"}
  /\ bind[q].fn = f
  /\ phase' = [phase EXCEPT ![q] = "ready"]
  /\ state' = NewState(q, rows)
  /\ result' = [result EXCEPT ![q] = <<>>]
  /\ seen' = [seen EXCEPT ![q] = rows]
  /\ UNCHANGED <<host, bind, output>>

SysMemoryInfoInit(q)  == Start(q, "sys_memory_info", <<>>)
SysCPUInfoInit(q)     == Start(q, "sys_cpu_info", <<>>)
SysDiskInfoInit(q)    == Start(q, "sys_disk_info", host["sys_disk_info"])
SysNetworkInfoInit(q) == Start(q, "sys_network_info", host["sys_network_info"])
SysOSInfoInit(q)      == Start(q, "sys_os_info", host["sys_os_info"])
-----------------------------------------------------------------------------
(* The call: one chunk of output, empty once the scan is finished. *)

View(rows, unit) == [i \in 1..Len(rows) |-> ConvertBytes(rows[i], unit)]

Called(q, f) ==
  /\ phase[q] = "ready"
  /\ bind[q].fn = f
  /\ phase' = [phase EXCEPT ![q] = "returned"]
  /\ UNCHANGED <<host, bind, result>>

\* "if (data.finished) return": the chunk stays as the engine passed it.
ReturnFinished(q) ==
  /\ state[q].finished
  /\ UNCHANGED <<state, output, seen>>

\* Mutant: output_count <= STANDARD_VECTOR_SIZE.
BatchEndPastChunk(index, size) ==
  IF size <= index + STANDARD_VECTOR_SIZE THEN size ELSE index + STANDARD_VECTOR_SIZE + 1

\* Where the batch loop stops: at the end of the rows or of the chunk.
BatchEnd(index, size) ==
  IF size < index + STANDARD_VECTOR_SIZE THEN size ELSE index + STANDARD_VECTOR_SIZE

\* Mutant: disks[output_count] for disks[current_index].
BatchFromStart(values, first, last) == SubSeq(values, 1, last - first)

Batch(values, first, last) == SubSeq(values, first + 1, last)

\* Mutant: finished is set after every batch.
AllServedAlways(q, last) == TRUE

AllServed(q, last) == last >= Len(state[q].rows)

EmitBatch(q, values) ==
  LET first == state[q].current_index
      last  == BatchEnd(first, Len(state[q].rows)) IN
  /\ ~state[q].finished
  /\ output' = [output EXCEPT ![q] = Batch(values, first, last)]
  /\ state' = [state EXCEPT ![q] = [@ EXCEPT !.current_index = last,
                                             !.finished = AllServed(q, last)]]
  /\ UNCHANGED seen

\* Mutant: data.finished is never set.
EmitReadingForever(q, rows) ==
  /\ ~state[q].finished
  /\ output' = [output EXCEPT ![q] = View(rows, bind[q].unit)]
  /\ seen' = [seen EXCEPT ![q] = rows]
  /\ UNCHANGED state

\* The one row of a function that reads the host in its first call.
EmitReading(q, rows) ==
  /\ ~state[q].finished
  /\ output' = [output EXCEPT ![q] = View(rows, bind[q].unit)]
  /\ state' = [state EXCEPT ![q].finished = TRUE]
  /\ seen' = [seen EXCEPT ![q] = rows]

SysMemoryInfoFunc(q) ==
  /\ Called(q, "sys_memory_info")
  /\ ReturnFinished(q) \/ EmitReading(q, host["sys_memory_info"])

SysCPUInfoFunc(q) ==
  /\ Called(q, "sys_cpu_info")
  /\ ReturnFinished(q) \/ EmitReading(q, host["sys_cpu_info"])

SysDiskInfoFunc(q) ==
  /\ Called(q, "sys_disk_info")
  /\ ReturnFinished(q) \/ EmitBatch(q, View(state[q].rows, bind[q].unit))

SysNetworkInfoFunc(q) ==
  /\ Called(q, "sys_network_info")
  /\ ReturnFinished(q) \/ EmitBatch(q, state[q].rows)

SysOSInfoFunc(q) ==
  /\ Called(q, "sys_os_info")
  /\ \/ ReturnFinished(q)
     \/ /\ ~state[q].finished
        /\ output' = [output EXCEPT ![q] = state[q].rows]
        /\ state' = [state EXCEPT ![q].finished = TRUE]
        /\ UNCHANGED seen
-----------------------------------------------------------------------------
(* The engine (DuckDB, external): its executor calls a source from one     *)
(* thread at a time (MaxThreads of these states is the default 1), resets  *)
(* the chunk before each call and stops at the first empty one.            *)

Fetch(q) ==
  /\ phase[q] = "returned"
  /\ Len(result[q]) + Len(output[q]) <= MaxFetched
  /\ phase' = [phase EXCEPT ![q] = IF output[q] = <<>> THEN "done" ELSE "ready"]
  /\ result' = [result EXCEPT ![q] = @ \o output[q]]
  /\ output' = [output EXCEPT ![q] = <<>>]
  /\ UNCHANGED <<host, bind, state, seen>>

\* The execution's global state and result go away.
Discard(q) ==
  /\ state' = [state EXCEPT ![q] = FreshState(<<>>)]
  /\ output' = [output EXCEPT ![q] = <<>>]
  /\ result' = [result EXCEPT ![q] = <<>>]
  /\ seen' = [seen EXCEPT ![q] = <<>>]
  /\ UNCHANGED <<host, bind>>

\* A satisfied LIMIT, an interrupt or an error elsewhere in the query.
Close(q) ==
  /\ phase[q] \in {"ready", "returned"}
  /\ phase' = [phase EXCEPT ![q] = "bound"]
  /\ Discard(q)

\* Get...Info throws where it is called, in Init or in the first call: this
\* execution fails, the prepared query can be executed again.
GetInfoThrows(q) ==
  /\ \/ phase[q] \in {"bound", "done"} /\ bind[q].fn \notin ReadsInCall
     \/ phase[q] = "ready" /\ bind[q].fn \in ReadsInCall /\ ~state[q].finished
  /\ phase' = [phase EXCEPT ![q] = "bound"]
  /\ Discard(q)

Deallocate(q) ==
  /\ phase[q] \in {"bound", "done", "error"}
  /\ phase' = [phase EXCEPT ![q] = "idle"]
  /\ Discard(q)
-----------------------------------------------------------------------------
BindStep(q) ==
  \/ SysMemoryInfoBind(q) \/ SysCPUInfoBind(q) \/ SysDiskInfoBind(q)
  \/ SysNetworkInfoBind(q) \/ SysOSInfoBind(q)

InitStep(q) ==
  \/ SysMemoryInfoInit(q) \/ SysCPUInfoInit(q) \/ SysDiskInfoInit(q)
  \/ SysNetworkInfoInit(q) \/ SysOSInfoInit(q)

CallStep(q) ==
  \/ SysMemoryInfoFunc(q) \/ SysCPUInfoFunc(q) \/ SysDiskInfoFunc(q)
  \/ SysNetworkInfoFunc(q) \/ SysOSInfoFunc(q)

Next ==
  \/ HostChanges
  \/ \E q \in Queries :
       \/ BindStep(q) \/ InitStep(q) \/ CallStep(q)
       \/ Fetch(q) \/ Close(q) \/ GetInfoThrows(q) \/ Deallocate(q)

Spec == Init /\ [][Next]_vars

\* The executor keeps driving a source it has started: it calls the function
\* and takes what it returned.  Nothing makes the host change, a client
\* prepare or start a query, or anyone give one up.
Fairness == \A q \in Queries : WF_vars(CallStep(q)) /\ WF_vars(Fetch(q))

FairSpec == Spec /\ Fairness
-----------------------------------------------------------------------------
Running(q) == phase[q] \in {"ready", "returned"}

\* How many rows of its reading an execution has handed to the engine.
Served(q) ==
  IF bind[q].fn \in OneRow
  THEN IF state[q].finished THEN 1 ELSE 0
  ELSE state[q].current_index

\* Type invariant.
TypeOK ==
  /\ host \in HostStates
  /\ phase \in [Queries -> Phase]
  /\ bind \in [Queries -> [fn : FunctionName \cup {"none"}, unit : MemoryUnit]]
  /\ state \in [Queries -> GlobalState]
  /\ output \in [Queries -> Seq(Nat)]
  /\ result \in [Queries -> Seq(Nat)]
  /\ seen \in [Queries -> Seq(Nat)]

\* However calls, host changes and re-executions interleave, what the client
\* has plus the chunk in flight are the first rows of the one reading of this
\* execution, in order, none lost or repeated, all in the unit bound
\* (the current_index / finished bookkeeping of the ...Func handlers).
RowsInOrderOf(q) ==
  result[q] \o output[q] = SubSeq(View(seen[q], bind[q].unit), 1, Served(q))

RowsInOrder == \A q \in Queries : RowsInOrderOf(q)

\* No call writes past the capacity of the chunk it is given
\* (the output_count < STANDARD_VECTOR_SIZE test of the batch loops).
ChunkFits == \A q \in Queries : Len(output[q]) <= STANDARD_VECTOR_SIZE

\* A scan the engine saw end by itself delivered every row of its reading:
\* no empty chunk is returned while rows remain.
CompleteWhenDone ==
  \A q \in Queries :
    phase[q] = "done" => result[q] = View(seen[q], bind[q].unit)

\* The bookkeeping the rows depend on, in every state: a batch function owns
\* the reading it serves from and has finished exactly when its cursor is at
\* the end (an empty reading needs one call to notice); a one-row function
\* that has finished has a reading of one row; an empty chunk is returned only
\* by a finished function; and nothing is left of an execution that is over.
BookkeepingOf(q) ==
  LET f == bind[q].fn
      s == state[q] IN
  /\ f \notin {"sys_memory_info", "sys_disk_info"} => bind[q].unit = "BYTES"
  /\ f \notin ReadsInCall => seen[q] = s.rows
  /\ f \notin OneRow =>
       /\ s.current_index <= Len(s.rows)
       /\ s.finished => s.current_index = Len(s.rows)
       /\ s.current_index = Len(s.rows) => s.finished \/ s.current_index = 0
  /\ f \in ReadsInCall /\ s.finished => Len(seen[q]) = 1
  /\ f = "sys_os_info" /\ (Running(q) \/ phase[q] = "done") => Len(s.rows) = 1
  /\ phase[q] # "returned" => output[q] = <<>>
  /\ phase[q] = "returned" /\ output[q] = <<>> => s.finished
  /\ phase[q] = "done" => s.finished
  /\ ~Running(q) /\ phase[q] # "done" =>
       s = FreshState(<<>>) /\ result[q] = <<>> /\ seen[q] = <<>>
  /\ f = "none" => ~Running(q) /\ phase[q] # "done"

Bookkeeping == \A q \in Queries : BookkeepingOf(q)

\* Every execution the engine drives comes to an end: the functions do
\* return an empty chunk eventually.
ScanEnds == \A q \in Queries : Running(q) ~> ~Running(q)

\* Refinement: the promise of TableScan.  The host is read in Init or in the
\* first call; rows count as delivered when the function returns them.
HostWasRead(q) == bind[q].fn \notin ReadsInCall \/ state[q].finished

ScanStatus(q) ==
  IF Running(q)
  THEN IF HostWasRead(q) THEN "reading" ELSE "waiting"
  ELSE IF phase[q] = "done" THEN "complete" ELSE "closed"

scanStatus    == [q \in Queries |-> ScanStatus(q)]
scanReading   == [q \in Queries |-> View(seen[q], bind[q].unit)]
scanDelivered == [q \in Queries |-> result[q] \o output[q]]

Scan == INSTANCE TableScan WITH
  request <- bind,
  status <- scanStatus,
  reading <- scanReading,
  delivered <- scanDelivered

ImplementsTableScan == Scan!Spec
=============================================================================
