--------------------------- MODULE InstanceCache ---------------------------
(***************************************************************************)
(* How the readers of the extension find the database whose log they write *)
(* to: LoadInternal puts a DatabaseInstanceCacheEntry, a weak pointer to   *)
(* its own DatabaseInstance, into that database's object cache and then    *)
(* registers the table functions one by one; a reader that meets a failure *)
(* looks the entry up, locks the weak pointer and logs.                    *)
(*                                                                         *)
(* Several databases live in one process.  A DatabaseInstance lives as     *)
(* long as a shared_ptr to it does: the application's handle, the db of a  *)
(* ClientContext, a local variable of LoadInternal or of a reader.         *)
(***************************************************************************)
EXTENDS Naturals, Sequences

CONSTANTS
  Databases,    \* the DatabaseInstances the process ever opens
  Connections,  \* the ClientContexts it ever has open at one time
  None          \* no database

ASSUME NoneAssumption == None \notin Databases

FunctionName ==
  {"sys_memory_info", "sys_cpu_info", "sys_disk_info", "sys_network_info",
   "sys_os_info"}

VARIABLES
  handle,      \* handle[d]: "unopened", "held" or "released" by the application
  connected,   \* connected[c]: the database of context c (its db), or None
  load,        \* load[d]: steps of LoadInternal done; 0 when it is not running
  cache,       \* cache[d]: what the weak pointer in d's object cache points to
  registered,  \* registered[d]: the table functions in d's catalog
  loaded,      \* loaded[d]: a LOAD of the extension in d has succeeded
  call,        \* call[c]: where c's reader is
  found,       \* found[c]: the target of the entry cache.Get returned to c
  logger       \* logger[c]: the database the reader holds and logs to

vars == <<handle, connected, load, cache, registered, loaded, call, found, logger>>

Init ==
  /\ handle = [d \in Databases |-> "unopened"]
  /\ connected = [c \in Connections |-> None]
  /\ load = [d \in Databases |-> 0]
  /\ cache = [d \in Databases |-> None]
  /\ registered = [d \in Databases |-> {}]
  /\ loaded = [d \in Databases |-> FALSE]
  /\ call = [c \in Connections |-> "idle"]
  /\ found = [c \in Connections |-> None]
  /\ logger = [c \in Connections |-> None]
-----------------------------------------------------------------------------
(* Lifetimes. *)

\* Mutant: the entry holds a shared_ptr.
StrongRefsOfEntryToo(d) ==
  {c \in Connections : connected[c] = d \/ logger[c] = d}
    \cup {e \in Databases : e = d /\ (handle[d] = "held" \/ load[d] # 0)}
    \cup {e \in Databases : cache[e] = d}

\* The owners of a shared_ptr to d: contexts and readers, and the application
\* or LoadInternal (named by d itself).  The entry's pointer is a weak_ptr.
StrongRefs(d) ==
  {c \in Connections : connected[c] = d \/ logger[c] = d}
    \cup {e \in Databases : e = d /\ (handle[d] = "held" \/ load[d] # 0)}

Alive(d) == d \in Databases /\ StrongRefs(d) # {}

OpenDatabase(d) ==
  /\ handle[d] = "unopened"
  /\ handle' = [handle EXCEPT ![d] = "held"]
  /\ UNCHANGED <<connected, load, cache, registered, loaded, call, found, logger>>

\* The application lets its handle go; open connections keep the database.
CloseDatabase(d) ==
  /\ handle[d] = "held"
  /\ handle' = [handle EXCEPT ![d] = "released"]
  /\ UNCHANGED <<connected, load, cache, registered, loaded, call, found, logger>>

Connect(c, d) ==
  /\ handle[d] = "held"
  /\ connected[c] = None
  /\ connected' = [connected EXCEPT ![c] = d]
  /\ UNCHANGED <<handle, load, cache, registered, loaded, call, found, logger>>

Disconnect(c) ==
  /\ connected[c] # None
  /\ call[c] \in {"idle", "threw"}
  /\ connected' = [connected EXCEPT ![c] = None]
  /\ call' = [call EXCEPT ![c] = "idle"]
  /\ UNCHANGED <<handle, load, cache, registered, loaded, found, logger>>
-----------------------------------------------------------------------------
(* LoadInternal, run by a LOAD statement of some connection or, when the   *)
(* extension is linked in, by the opening of the database.  DuckDB runs    *)
(* one load of an extension in a database at a time and makes a registered *)
(* function visible at once; a step that throws ends the load, what was    *)
(* done stays, and the LOAD can be repeated.                               *)

\* Mutant: the entry is stored once the functions are there.
LoadOrderEntryLast ==
  <<"sys_memory_info", "sys_cpu_info", "sys_disk_info", "sys_network_info",
    "sys_os_info", "put", "description">>

\* Mutant: one function is forgotten.
LoadOrderWithoutOS ==
  <<"put", "sys_memory_info", "sys_cpu_info", "sys_disk_info",
    "sys_network_info", "description">>

LoadOrder ==
  <<"put", "sys_memory_info", "sys_cpu_info", "sys_disk_info",
    "sys_network_info", "sys_os_info", "description">>

\* Mutant: one slot for the whole process.
PutEntryGlobal(d) == cache' = [e \in Databases |-> d]

\* cache.Put: an entry for db.shared_from_this() replaces any earlier one.
PutEntry(d) == cache' = [cache EXCEPT ![d] = d]

BeginLoad(d) ==
  /\ load[d] = 0 /\ ~loaded[d]
  /\ \/ handle[d] = "held"
     \/ \E c \in Connections : connected[c] = d /\ call[c] = "idle"
  /\ load' = [load EXCEPT ![d] = 1]
  /\ UNCHANGED <<handle, connected, cache, registered, loaded, call, found, logger>>

AtLastStep(d) == load[d] = Len(LoadOrder)

LoadStep(d) ==
  /\ load[d] # 0
  /\ LET step == LoadOrder[load[d]] IN
     /\ IF step = "put" THEN PutEntry(d) ELSE UNCHANGED cache
     /\ registered' = [registered EXCEPT ![d] = @ \cup ({step} \cap FunctionName)]
  /\ IF AtLastStep(d)
     THEN /\ load' = [load EXCEPT ![d] = 0]
          /\ loaded' = [loaded EXCEPT ![d] = TRUE]
     ELSE /\ load' = [load EXCEPT ![d] = @ + 1]
          /\ UNCHANGED loaded
  /\ UNCHANGED <<handle, connected, call, found, logger>>

LoadThrows(d) ==
  /\ load[d] # 0
  /\ load' = [load EXCEPT ![d] = 0]
  /\ UNCHANGED <<handle, connected, cache, registered, loaded, call, found, logger>>
-----------------------------------------------------------------------------
(* GetDbInstance(context), as a reader calls it on a failed system call. *)

\* A query of c scans a registered function, and a system call fails in it.
ReaderFails(c) ==
  /\ connected[c] # None
  /\ call[c] = "idle"
  /\ registered[connected[c]] # {}
  /\ call' = [call EXCEPT ![c] = "lookup"]
  /\ UNCHANGED <<handle, connected, load, cache, registered, loaded, found, logger>>

\* context.db->GetObjectCache().Get: the entry, or "cache entry not found".
LookUp(c) ==
  /\ call[c] = "lookup"
  /\ found' = [found EXCEPT ![c] = cache[connected[c]]]
  /\ call' = [call EXCEPT ![c] = IF cache[connected[c]] = None THEN "threw" ELSE "lock"]
  /\ UNCHANGED <<handle, connected, load, cache, registered, loaded, logger>>

\* db_weak.lock(): the database, or "DatabaseInstance has been destroyed".
Lock(c) ==
  /\ call[c] = "lock"
  /\ IF Alive(found[c])
     THEN /\ logger' = [logger EXCEPT ![c] = found[c]]
          /\ call' = [call EXCEPT ![c] = "log"]
     ELSE /\ call' = [call EXCEPT ![c] = "threw"]
          /\ UNCHANGED logger
  /\ found' = [found EXCEPT ![c] = None]
  /\ UNCHANGED <<handle, connected, load, cache, registered, loaded>>

\* DUCKDB_LOG_DEBUG(*db, ...); the reader's pointer then goes out of scope.
Log(c) ==
  /\ call[c] = "log"
  /\ logger' = [logger EXCEPT ![c] = None]
  /\ call' = [call EXCEPT ![c] = "idle"]
  /\ UNCHANGED <<handle, connected, load, cache, registered, loaded, found>>
-----------------------------------------------------------------------------
Next ==
  \/ \E d \in Databases :
       OpenDatabase(d) \/ CloseDatabase(d) \/ BeginLoad(d) \/ LoadStep(d) \/ LoadThrows(d)
  \/ \E c \in Connections :
       \/ \E d \in Databases : Connect(c, d)
       \/ Disconnect(c) \/ ReaderFails(c) \/ LookUp(c) \/ Lock(c) \/ Log(c)

Spec == Init /\ [][Next]_vars
-----------------------------------------------------------------------------
\* Type invariant.
TypeOK ==
  /\ handle \in [Databases -> {"unopened", "held", "released"}]
  /\ connected \in [Connections -> Databases \cup {None}]
  /\ load \in [Databases -> 0..Len(LoadOrder)]
  /\ cache \in [Databases -> Databases \cup {None}]
  /\ registered \in [Databases -> SUBSET FunctionName]
  /\ loaded \in [Databases -> BOOLEAN]
  /\ call \in [Connections -> {"idle", "lookup", "lock", "log", "threw"}]
  /\ found \in [Connections -> Databases \cup {None}]
  /\ logger \in [Connections -> Databases \cup {None}]

\* Reporting a failed system call never turns into an InternalException of the
\* query: any function a query can reach was registered after the entry, and
\* the querying context keeps the entry's target alive.  The two throws of
\* database_instance_cache.cpp cannot be reached from a table function, even
\* from one that runs while LoadInternal does or after it failed half-way.
LookupNeverThrows == \A c \in Connections : call[c] # "threw"

\* What a query of one database logs never reaches another one's log,
\* whatever is loaded, closed or running elsewhere in the process.
LogsToOwnDatabase ==
  \A c \in Connections : logger[c] # None => logger[c] = connected[c]

\* A database nobody uses any more is destroyed: the cached pointer to it is
\* no owner ("Using weak_ptr prevents circular references").
NoLeak ==
  \A d \in Databases :
    /\ handle[d] # "held" /\ load[d] = 0
    /\ \A c \in Connections : connected[c] # d
    => ~Alive(d)

\* A LOAD that succeeds has registered all five functions.
LoadedIsComplete == \A d \in Databases : loaded[d] => registered[d] = FunctionName

\* Why the lookup cannot fail: a database with a registered function has its
\* own entry, stored by the same or an earlier load; a load past its first
\* step has stored it; and a reader works for a context that is still open.
EntryBeforeFunctions ==
  /\ \A d \in Databases :
       /\ cache[d] \in {d, None}
       /\ registered[d] # {} \/ load[d] > 1 => cache[d] = d
       /\ loaded[d] => load[d] = 0 /\ registered[d] = FunctionName
       /\ FunctionName \cap {LoadOrder[i] : i \in 1..load[d] - 1} \subseteq registered[d]
  /\ \A c \in Connections :
       /\ call[c] # "threw"
       /\ call[c] # "idle" => connected[c] # None /\ registered[connected[c]] # {}
       /\ found[c] = IF call[c] = "lock" THEN connected[c] ELSE None
       /\ logger[c] = IF call[c] = "log" THEN connected[c] ELSE None
=============================================================================
