----------------------------- MODULE TableScan -----------------------------
(***************************************************************************)
(* What a system_stats table function promises to the query that scans it: *)
(* the rows of ONE reading of the host, taken while the scan is open, in   *)
(* the unit asked for, in order, each once, in chunks that fit a DuckDB    *)
(* vector; and a scan is complete only when all of them were delivered.    *)
(* TableFunctions implements this specification.                           *)
(***************************************************************************)
EXTENDS MemoryUnits, Sequences

CONSTANTS
  Queries,               \* the prepared queries of the connected clients
  Samples,               \* Samples[f]: the results Get...Info can return for f
  STANDARD_VECTOR_SIZE   \* rows that fit one DataChunk (2048 in DuckDB)

VARIABLES
  host,       \* host[f]: what reading the host for f would return now
  request,    \* request[q]: the function scanned and the unit asked for
  status,     \* "closed", "waiting" (open, host not read), "reading", "complete"
  reading,    \* reading[q]: the rows of the one reading of the host
  delivered   \* delivered[q]: the rows handed over so far

vars == <<host, request, status, reading, delivered>>

FunctionName ==
  {"sys_memory_info", "sys_cpu_info", "sys_disk_info", "sys_network_info",
   "sys_os_info"}

Request == [fn : FunctionName \cup {"none"}, unit : MemoryUnit]

\* The rows a reading contributes to a result in the given unit.
View(rows, unit) == [i \in 1..Len(rows) |-> ConvertBytes(rows[i], unit)]

Init ==
  /\ host \in [FunctionName -> UNION {Samples[f] : f \in FunctionName}]
  /\ \A f \in FunctionName : host[f] \in Samples[f]
  /\ request = [q \in Queries |-> [fn |-> "none", unit |-> "BYTES"]]
  /\ status = [q \in Queries |-> "closed"]
  /\ reading = [q \in Queries |-> <<>>]
  /\ delivered = [q \in Queries |-> <<>>]

\* The host goes on living while queries run.
HostChanges ==
  /\ \E f \in FunctionName : \E rows \in Samples[f] :
       host' = [host EXCEPT ![f] = rows]
  /\ UNCHANGED <<request, status, reading, delivered>>

Ask(q) ==
  /\ status[q] = "closed"
  /\ \E r \in Request : request' = [request EXCEPT ![q] = r]
  /\ UNCHANGED <<host, status, reading, delivered>>

\* Reading the host, and delivering the first n rows in the same step.
Read(q, n) ==
  LET rows == View(host[request[q].fn], request[q].unit) IN
  /\ n <= STANDARD_VECTOR_SIZE
  /\ status' = [status EXCEPT ![q] = "reading"]
  /\ reading' = [reading EXCEPT ![q] = rows]
  /\ delivered' = [delivered EXCEPT ![q] = SubSeq(rows, 1, n)]
  /\ UNCHANGED <<host, request>>

Open(q) ==
  /\ status[q] \in {"closed", "complete"}
  /\ request[q].fn # "none"
  /\ \/ Read(q, 0)
     \/ /\ status' = [status EXCEPT ![q] = "waiting"]
        /\ reading' = [reading EXCEPT ![q] = <<>>]
        /\ delivered' = [delivered EXCEPT ![q] = <<>>]
        /\ UNCHANGED <<host, request>>

FirstChunk(q) ==
  /\ status[q] = "waiting"
  /\ \E n \in 0..Len(host[request[q].fn]) : Read(q, n)

NextChunk(q) ==
  /\ status[q] = "reading"
  /\ \E n \in Len(delivered[q])..Len(reading[q]) :
       /\ n <= Len(delivered[q]) + STANDARD_VECTOR_SIZE
       /\ delivered' = [delivered EXCEPT ![q] = SubSeq(reading[q], 1, n)]
  /\ UNCHANGED <<host, request, status, reading>>

Complete(q) ==
  /\ status[q] = "reading"
  /\ delivered[q] = reading[q]
  /\ status' = [status EXCEPT ![q] = "complete"]
  /\ UNCHANGED <<host, request, reading, delivered>>

\* The engine gives the scan up (LIMIT, interrupt, error) or lets it go.
Stop(q) ==
  /\ status[q] # "closed"
  /\ status' = [status EXCEPT ![q] = "closed"]
  /\ reading' = [reading EXCEPT ![q] = <<>>]
  /\ delivered' = [delivered EXCEPT ![q] = <<>>]
  /\ UNCHANGED <<host, request>>

Next ==
  \/ HostChanges
  \/ \E q \in Queries :
       Ask(q) \/ Open(q) \/ FirstChunk(q) \/ NextChunk(q) \/ Complete(q) \/ Stop(q)

Spec == Init /\ [][Next]_vars
=============================================================================
