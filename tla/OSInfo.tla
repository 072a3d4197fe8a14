------------------------------- MODULE OSInfo -------------------------------
(***************************************************************************)
(* The counts of GetOSInfoLinux (os_info.cpp): a file and one or two walks *)
(* of /proc, while processes are forked, change state and exit, and their  *)
(* pids are used again; nothing bounds how often.  The texts and the       *)
(* uptime are the subject of OSDescription.                                *)
(*                                                                         *)
(* The handles the walks hold are modelled because SCOPE_EXIT has to close *)
(* them at each of the many continue statements and when an exception      *)
(* passes, and because the walk that counts handles also meets its own.    *)
(***************************************************************************)
EXTENDS Naturals, FiniteSets, FiniteSetsExt

CONSTANTS
  Pids,       \* the pids of the host
  Self,       \* the pid of this process
  States,     \* process states, the letters of /proc/pid/stat
  MaxThreads, \* bound of the model: threads of a process
  ReadAhead   \* entries one read of /proc brings into the directory stream

ASSUME OSAssumption ==
  /\ Pids \subseteq Nat \ {0} /\ IsFiniteSet(Pids) /\ Self \in Pids
  /\ States \subseteq {"R", "S", "D", "T", "t", "Z", "X", "I"} /\ "R" \in States
  /\ MaxThreads \in Nat \ {0} /\ ReadAhead \in Nat \ {0}

VARIABLES
  procs,   \* procs[p]: the process with pid p, or Gone
  pc,      \* the statement the call is at
  walk,    \* the walk of /proc under way: "fd" or "stat"
  stream,  \* entries of /proc read from the kernel but not yet returned, which
           \* come by ascending pid
  at,      \* the pid the kernel's cursor in /proc is at
  ent,     \* the entry at hand, [pid, alive]: does the process opened still exist
  open,    \* the handles the call holds
  status,  \* struct ProcessStatus
  info,    \* struct OSInfo
  stable,  \* history: processes that lived through the whole stat walk
  seen,    \* history: pids in use at some moment of the stat walk
  skipped  \* history: pids whose iteration of this walk was left by a continue

dirVars == <<walk, stream, at>>
callVars == <<pc, dirVars, open, status, info>>
history == <<stable, seen, skipped>>
vars == <<procs, callVars, ent, history>>

Proc == [state : States, threads : 1..MaxThreads]
Gone == [state |-> "none", threads |-> 0]
Alive == {p \in Pids : procs[p] # Gone}

\* The entries of /proc that are no process directories (".", "sys", ...).
NotAPid == 0

NoStatus ==
  [active |-> 0, running |-> 0, sleeping |-> 0, stopped |-> 0, zombie |-> 0, threads |-> 0]

Init ==
  /\ procs \in [Pids -> {Gone} \cup [state : {"R"}, threads : 1..MaxThreads]]
  /\ procs[Self] # Gone
  /\ pc = "file-nr" /\ walk = "fd" /\ stream = {} /\ at = 0
  /\ ent = [pid |-> NotAPid, alive |-> FALSE]
  /\ open = {} /\ status = NoStatus
  /\ info = [handle_count |-> 0, process_count |-> 0, thread_count |-> 0]
  /\ stable = {} /\ seen = {} /\ skipped = {}
-----------------------------------------------------------------------------
(* The host (external). *)

\* The stat walk has /proc open.
Surveying == walk = "stat" /\ "/proc" \in open

Fork ==
  \E p \in Pids \ Alive : \E q \in {r \in Proc : r.state = "R"} :
    /\ procs' = [procs EXCEPT ![p] = q]
    /\ seen' = IF Surveying THEN seen \cup {p} ELSE seen
    /\ UNCHANGED <<callVars, ent, stable, skipped>>

\* A zombie stays one; this process runs the call.
ChangeState ==
  \E p \in Alive : \E s \in States :
    /\ procs[p].state # "Z" /\ (p = Self => s \notin {"Z", "X"})
    /\ procs' = [procs EXCEPT ![p].state = s]
    /\ UNCHANGED <<callVars, ent, history>>

Reap ==
  \E p \in Alive \ {Self} :
    /\ procs' = [procs EXCEPT ![p] = Gone]
    /\ stable' = stable \ {p}
    /\ ent' = IF ent.pid = p THEN [ent EXCEPT !.alive = FALSE] ELSE ent
    /\ UNCHANGED <<callVars, seen, skipped>>
-----------------------------------------------------------------------------
(* The call. *)

\* The allocated handles; 0 if the file cannot be opened or parsed, and then
\* the fallback walks /proc/*/fd.
ReadHandleCount ==
  /\ pc = "file-nr" /\ pc' = "opendir"
  /\ \E n \in {0, 1} :
       /\ info' = [info EXCEPT !.handle_count = n]
       /\ walk' = IF n = 0 THEN "fd" ELSE "stat"
  /\ UNCHANGED <<procs, stream, at, ent, open, status, history>>

\* An exception: bad_alloc of a path, GetDbInstance for the log.  Each handle
\* was given its SCOPE_EXIT as it was opened, so unwinding closes them all.
Throw ==
  /\ pc \in {"file-nr", "opendir fd", "fopen"} /\ pc' = "thrown"
  /\ open' = {}
  /\ UNCHANGED <<procs, dirVars, ent, status, info, history>>
-----------------------------------------------------------------------------
(* The walks of /proc: ReadHandleCountFallback and ReadProcessStatus. *)

OpenProc ==
  /\ pc = "opendir"
  /\ \/ /\ pc' = "readdir" /\ open' = open \cup {"/proc"}
        /\ stream' = {NotAPid} /\ at' = 0 /\ skipped' = {}
        /\ IF walk = "stat" THEN stable' = Alive /\ seen' = Alive ELSE UNCHANGED <<stable, seen>>
     \/ pc' = "return" /\ UNCHANGED <<stream, at, open, history>>
  /\ UNCHANGED <<procs, walk, ent, status, info>>

\* closedir; the fallback is followed by the stat walk, that by the result.
Return ==
  /\ pc = "return" /\ open' = open \ {"/proc"}
  /\ IF walk = "fd"
     THEN walk' = "stat" /\ pc' = "opendir" /\ UNCHANGED info
     ELSE /\ pc' = "done" /\ UNCHANGED walk
          /\ info' = [info EXCEPT !.process_count = status.active,
                                  !.thread_count = status.threads]
  /\ UNCHANGED <<procs, stream, at, ent, status, history>>

\* What the directory stream holds (external): when it is empty, one read
\* brings the first processes beyond the kernel's cursor.
Ahead ==
  LET rest == {p \in Alive : p > at}
  IN  IF stream # {} THEN stream
      ELSE {p \in rest : Cardinality({q \in rest : q < p}) < ReadAhead}

\* Mutant: every entry of /proc is taken for a process.
IsProcessAlways(pid) == TRUE

IsProcess(pid) == pid # NotAPid

\* Mutant: continue at an entry that is no process without reading the next.
ReturnedNone(ahead) == IF NotAPid \in ahead THEN ahead ELSE ahead \ {Min(ahead)}

Returned(ahead) == ahead \ {Min(ahead)}

\* A process is counted before its stat file is opened.
ReadDir ==
  /\ pc = "readdir"
  /\ \E ahead \in {Ahead} :
       IF ahead = {} THEN pc' = "return" /\ UNCHANGED <<stream, at, ent, status>>
       ELSE /\ stream' = Returned(ahead) /\ at' = Max(ahead)
            /\ ent' = [pid |-> Min(ahead), alive |-> FALSE]
            /\ IF ~IsProcess(Min(ahead)) THEN UNCHANGED <<pc, status>>
               ELSE IF walk = "fd" THEN pc' = "opendir fd" /\ UNCHANGED status
               ELSE pc' = "fopen" /\ status' = [status EXCEPT !.active = @ + 1]
  /\ UNCHANGED <<procs, walk, open, info, history>>

\* Mutant: break.
ContinueNot == "return"

\* Where an iteration goes on that met an obstacle.
Continue == "readdir"

Skip == pc' = Continue /\ skipped' = skipped \cup {ent.pid}

\* A process may have gone; and a directory of one that is there may not be
\* opened: it is another user's, or no descriptor is left.
OpenFd ==
  /\ pc = "opendir fd"
  /\ \/ /\ ent.pid \in Alive
        /\ ent' = [ent EXCEPT !.alive = TRUE]
        /\ open' = open \cup {"fd"} /\ pc' = "count fd" /\ UNCHANGED skipped
     \/ Skip /\ UNCHANGED <<ent, open>>
  /\ UNCHANGED <<procs, dirVars, status, info, stable, seen>>

\* Mutant: the count starts again in each directory.
AddHandlesAfresh(total, n) == n

AddHandles(total, n) == total + n

\* The handles in the directory: of this process, those of the call among
\* them; none of a process that is gone.  The inner loop is one step.
CountFd ==
  /\ pc = "count fd" /\ pc' = "readdir"
  /\ \E n \in {0, 1} :
       info' = [info EXCEPT !.handle_count = AddHandles(@,
                  CASE ent.pid = Self -> Cardinality(open) + n
                    [] ent.pid # Self /\ ent.alive -> n
                    [] OTHER -> 0)]
  /\ open' = open \ {"fd"}
  /\ UNCHANGED <<procs, dirVars, ent, status, history>>

\* Nor may the stat file, for the same reasons.
FOpen ==
  /\ pc = "fopen"
  /\ \/ /\ ent.pid \in Alive
        /\ ent' = [ent EXCEPT !.alive = TRUE]
        /\ open' = open \cup {"stat"} /\ pc' = "fgets" /\ UNCHANGED skipped
     \/ Skip /\ UNCHANGED <<ent, open>>
  /\ UNCHANGED <<procs, dirVars, status, info, stable, seen>>

\* The process states of each count; the other letters are not counted.
Letters ==
  [running |-> {"R"}, sleeping |-> {"S", "D"}, stopped |-> {"T"}, zombie |-> {"Z"}]

CountState(proc) ==
  [f \in DOMAIN status |->
     status[f] + CASE f = "threads" -> proc.threads
                   [] f = "active" -> 0
                   [] OTHER -> IF proc.state \in Letters[f] THEN 1 ELSE 0]

\* Mutant: fclose at the end of the iteration only.
IterationLeavesAtEnd == IF ent.alive THEN open \ {"stat"} ELSE open

\* SCOPE_EXIT of an iteration.
IterationLeaves == open \ {"stat"}

\* The stat line of the process opened, not of a later one with its pid.  A
\* process that has gone since gives none; and that of one that is there may be
\* no record either: its name has the end of a line (StatLine), or the read
\* fails.
FGets ==
  /\ pc = "fgets"
  /\ \/ /\ ent.alive /\ pc' = "readdir"
        /\ status' = CountState(procs[ent.pid]) /\ UNCHANGED skipped
     \/ Skip /\ UNCHANGED status
  /\ open' = IterationLeaves
  /\ UNCHANGED <<procs, dirVars, ent, info, stable, seen>>

Step ==
  \/ ReadHandleCount \/ OpenProc \/ Return \/ ReadDir \/ OpenFd \/ CountFd
  \/ FOpen \/ FGets \/ Throw

Next == Fork \/ ChangeState \/ Reap \/ Step

Spec == Init /\ [][Next]_vars

\* The thread that runs the call is scheduled again and again.
FairSpec == Spec /\ WF_vars(Step)
-----------------------------------------------------------------------------
\* Type invariant.
TypeOK ==
  /\ procs \in [Pids -> Proc \cup {Gone}]
  /\ pc \in {"file-nr", "opendir", "readdir", "opendir fd", "count fd", "fopen",
             "fgets", "return", "done", "thrown"}
  /\ walk \in {"fd", "stat"}
  /\ stream \subseteq Pids \cup {NotAPid} /\ skipped \subseteq Pids
  /\ ent \in [pid : Pids \cup {NotAPid}, alive : BOOLEAN]
  /\ \A f \in DOMAIN status : status[f] \in Nat
  /\ status.active <= Cardinality(Pids)
  /\ info.handle_count \in Nat

\* thread_count has the threads of every process that was there all along
\* (test/sql/system_stats_os.test: it is greater than 0) and whose own record
\* was not left out: no continue costs more than its own process.
ThreadsOfStableCounted ==
  pc = "done" /\ seen # {} =>
    info.thread_count >=
      SumFunctionOnSet([p \in Pids |-> procs[p].threads], stable \ skipped)

\* handle_count is greater than 0 (test/sql/system_stats_os.test) even if
\* file-nr cannot be read: the fallback meets at least its own two handles,
\* so 0 remains only if /proc or this process's own directory in it cannot be
\* opened.
HandlesCounted ==
  pc = "opendir" /\ walk = "stat" /\ ent.pid # NotAPid /\ Self \notin skipped =>
    info.handle_count >= 2

\* The call never holds more than /proc and one file or directory in it, a
\* file only of the entry at hand, and it returns or throws with none: every
\* continue of the loops closes what the iteration opened.
HandlesClosed ==
  /\ (open \cap {"fd", "stat"} # {}) <=> pc \in {"count fd", "fgets"}
  /\ Cardinality(open) <= 2
  /\ pc \in {"opendir", "done", "thrown"} => open = {}

\* The call returns although processes are forked without end.
CallReturns == <>(pc \in {"done", "thrown"})

\* Refinement: process_count is right as far as a walk can be.  It counts
\* every process that was there all along, and no pid twice nor one that
\* nobody had, however processes come and go and pids are used again.
SurveyStatus ==
  CASE pc = "thrown" -> "failed"
    [] pc = "done" -> IF seen = {} THEN "failed" ELSE "done"
    [] OTHER -> IF Surveying THEN "counting" ELSE "waiting"

Processes == INSTANCE Survey WITH
  Things <- Pids, present <- Alive, status <- SurveyStatus, count <- info.process_count

ImplementsSurvey == Processes!Spec
=============================================================================
