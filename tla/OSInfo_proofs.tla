---------------------------- MODULE OSInfo_proofs ----------------------------
(***************************************************************************)
(* Proofs about OSInfo, for any number of pids and threads and any size of *)
(* the directory stream.                                                   *)
(***************************************************************************)
EXTENDS OSInfo, OperatorLemmas

-----------------------------------------------------------------------------
(* The inductive invariant. *)

\* Which handles the call holds at each statement.
HandlesHeld ==
  /\ pc \in {"file-nr", "opendir", "readdir", "opendir fd", "count fd", "fopen",
             "fgets", "return", "done", "thrown"}
  /\ walk \in {"fd", "stat"}
  /\ pc \in {"file-nr", "opendir fd", "count fd"} => walk = "fd"
  /\ pc \in {"fopen", "fgets", "done"} => walk = "stat"
  /\ CASE pc \in {"file-nr", "opendir", "done", "thrown"} -> open = {}
       [] pc \in {"readdir", "opendir fd", "fopen"} -> open = {"/proc"}
       [] pc = "count fd" -> open = {"/proc", "fd"}
       [] pc = "fgets" -> open = {"/proc", "stat"}
       [] OTHER -> open \in {{}, {"/proc"}}

\* The host, and the directory stream: what was read and not yet returned is
\* behind the cursor.
StreamInOrder ==
  /\ procs \in [Pids -> Proc \cup {Gone}] /\ procs[Self] # Gone
  /\ at \in Nat /\ stream \subseteq Pids \cup {NotAPid}
  /\ \A p \in stream : p <= at
  /\ stream # {} => at \in stream
  /\ ent \in [pid : Pids \cup {NotAPid}, alive : BOOLEAN]
  /\ pc \in {"opendir fd", "count fd", "fopen", "fgets"} => ent.pid \in Pids

\* The fallback: this process is still ahead, at hand, counted, or skipped.
SelfAhead ==
  /\ DOMAIN info = {"handle_count", "process_count", "thread_count"}
  /\ info.handle_count \in Nat
  /\ pc \in {"file-nr", "opendir"} /\ walk = "fd" => ent.pid = NotAPid
  /\ walk = "fd" /\ pc = "return" =>
       ent.pid = NotAPid \/ info.handle_count >= 2 \/ Self \in skipped
  /\ walk = "fd" /\ pc \in {"readdir", "opendir fd", "count fd"} =>
       \/ Self \in stream \/ at < Self \/ info.handle_count >= 2 \/ Self \in skipped
       \/ ent.pid = Self /\ pc # "readdir"
  /\ HandlesCounted

Threads == [p \in Pids |-> procs[p].threads]

\* Counted, but its stat file is still to be read.
Pending == IF pc \in {"fopen", "fgets"} THEN {ent.pid} ELSE {}

\* Of those counted, the processes whose threads are in the sum.
Summed(counted) == ((stable \cap counted) \ Pending) \ skipped

\* The processes counted so far, among them every one that was there all along
\* and is not ahead.
Counts(counted) ==
  /\ Cardinality(counted) = status.active
  /\ counted \cap stream = {} /\ \A p \in counted : p <= at
  /\ Surveying => stable \subseteq counted \cup stream \cup {p \in Pids : p > at}
  /\ pc \in {"return", "done"} => stable \subseteq counted
  /\ pc \in {"fopen", "fgets"} => ent.pid \in counted
  /\ status.threads >= SumFunctionOnSet(Threads, Summed(counted))

SurveyKept ==
  /\ status \in [DOMAIN NoStatus -> Nat]
  /\ stable \subseteq Alive /\ stable \subseteq seen /\ seen \subseteq Pids
  /\ Surveying => seen # {} /\ stream \subseteq seen \cup {NotAPid} /\ Alive \subseteq seen
  /\ seen = {} => status = NoStatus
  /\ seen # {} => Surveying \/ pc \in {"done", "thrown"}
  /\ info.process_count = IF pc = "done" THEN status.active ELSE 0
  /\ pc = "done" => info.thread_count = status.threads
  /\ pc # "thrown" => \E counted \in SUBSET seen : Counts(counted)

IInv == HandlesHeld /\ StreamInOrder /\ SelfAhead /\ SurveyKept
-----------------------------------------------------------------------------
(* The directory stream. *)

LEMMA PidFacts ==
  Self \in Pids /\ NotAPid \notin Pids /\ NotAPid \in Nat /\ \A p \in Pids : p \in Nat
BY OSAssumption DEF NotAPid

LEMMA PidSets ==
  ASSUME NEW S, S \subseteq Pids \cup {NotAPid}
  PROVE  IsFiniteSet(S) /\ Cardinality(S) \in Nat /\ S \subseteq Nat
<1>1. IsFiniteSet(Pids \cup {NotAPid})
  BY OSAssumption, FS_AddElement
<1>2. IsFiniteSet(S)
  BY <1>1, FS_Subset
<1> QED
  BY <1>2, FS_CardinalityType, PidFacts

\* What is ahead is a beginning of what is left, and empty only at the end.
LEMMA AheadFacts ==
  ASSUME StreamInOrder
  PROVE  /\ Ahead \subseteq Pids \cup {NotAPid} /\ Ahead \subseteq Nat /\ IsFiniteSet(Ahead)
         /\ Ahead \subseteq stream \cup Alive /\ stream \subseteq Ahead
         /\ Ahead = {} => \A p \in Alive : p <= at
         /\ Ahead # {} =>
              /\ Min(Ahead) \in Ahead /\ \A p \in Ahead : Min(Ahead) <= p
              /\ Max(Ahead) \in Ahead /\ \A p \in Ahead : p <= Max(Ahead)
              /\ at <= Max(Ahead)
              /\ \A p \in Alive : p > at => p \in Ahead \/ p > Max(Ahead)
              /\ stream = {} => at < Min(Ahead)
<1> DEFINE rest == {p \in Alive : p > at}
           before(p) == {q \in rest : q < p}
<1>0. rest \in SUBSET Pids /\ \A p \in Pids : before(p) \in SUBSET Pids
  BY DEF Alive
<1>1. /\ Ahead \subseteq Pids \cup {NotAPid} /\ Ahead \subseteq Nat /\ IsFiniteSet(Ahead)
      /\ Ahead \subseteq stream \cup Alive /\ stream \subseteq Ahead
  <2>1. Ahead \in SUBSET (Pids \cup {NotAPid}) /\ Ahead \subseteq stream \cup Alive /\ stream \subseteq Ahead
    BY DEF Ahead, StreamInOrder, Alive
  <2> QED
    BY <2>1, PidSets
<1>2. CASE stream # {}
  <2>1. Ahead = stream
    BY <1>2 DEF Ahead
  <2>2. /\ Min(Ahead) \in Ahead /\ \A p \in Ahead : Min(Ahead) <= p
        /\ Max(Ahead) \in Ahead /\ \A p \in Ahead : p <= Max(Ahead)
    BY <1>1, <1>2, <2>1, MinOfNats, MaxOfNats
  <2>3. Max(Ahead) = at
    <3>1. at \in Ahead /\ Max(Ahead) <= at
      BY <1>2, <2>1, <2>2 DEF StreamInOrder
    <3>2. at <= Max(Ahead) /\ at \in Nat /\ Max(Ahead) \in Nat
      BY <1>1, <2>2, <3>1
    <3> QED
      BY <3>1, <3>2
  <2> QED
    BY <1>1, <1>2, <2>1, <2>2, <2>3, PidFacts DEF StreamInOrder, Alive
<1>3. CASE stream = {}
  <2>1. Ahead = {p \in rest : Cardinality(before(p)) < ReadAhead}
    BY <1>3 DEF Ahead
  <2>2. ASSUME rest # {}
        PROVE  Ahead # {}
    <3>1. Min(rest) \in rest /\ \A p \in rest : Min(rest) <= p
      BY <1>0, <2>2, PidFacts, MinOfNats
    <3>2. ASSUME NEW q \in rest, q < Min(rest)
          PROVE  FALSE
      <4>1. q \in Nat /\ Min(rest) \in Nat /\ Min(rest) <= q
        BY <1>0, <3>1, PidFacts
      <4> QED
        BY <3>2, <4>1
    <3>3. before(Min(rest)) = {}
      BY <3>2
    <3>4. Cardinality(before(Min(rest))) < ReadAhead
      <4>1. 0 < ReadAhead
        BY OSAssumption
      <4> QED
        BY <3>3, <4>1, FS_EmptySet
    <3> QED
      BY <2>1, <3>1, <3>4
  <2>3. ASSUME Ahead = {}, NEW p \in Alive
        PROVE  p <= at
    <3>1. ~ (p > at)
      BY <2>2, <2>3
    <3>2. p \in Nat /\ at \in Nat
      BY PidFacts DEF StreamInOrder, Alive
    <3> QED
      BY <3>1, <3>2
  <2>4. ASSUME Ahead # {}
        PROVE  /\ Min(Ahead) \in Ahead /\ \A p \in Ahead : Min(Ahead) <= p
               /\ Max(Ahead) \in Ahead /\ \A p \in Ahead : p <= Max(Ahead)
    BY <1>1, <2>4, MinOfNats, MaxOfNats
  <2>5. Ahead # {} => at < Max(Ahead) /\ at < Min(Ahead)
    BY <2>1, <2>4
  <2>6. ASSUME Ahead # {}, NEW p \in Alive, p > at, ~(p > Max(Ahead))
        PROVE  p \in Ahead
    <3>1. p \in rest /\ p \in Pids /\ Max(Ahead) \in rest
      BY <2>1, <2>4, <2>6 DEF Alive
    <3>2. before(p) \subseteq before(Max(Ahead))
      <4>1. p \in Nat /\ Max(Ahead) \in Nat /\ p <= Max(Ahead)
        BY <2>6, <3>1, <1>0, PidFacts
      <4>2. ASSUME NEW q \in rest, q < p
            PROVE  q < Max(Ahead)
        <5>1. q \in Nat
          BY <1>0, PidFacts
        <5> QED
          BY <4>1, <4>2, <5>1
      <4> QED
        BY <4>2
    <3>3. /\ IsFiniteSet(before(Max(Ahead))) /\ Cardinality(before(Max(Ahead))) \in Nat
          /\ Cardinality(before(p)) \in Nat
      BY <1>0, <3>1, PidSets
    <3>4. Cardinality(before(p)) <= Cardinality(before(Max(Ahead)))
      BY <3>2, <3>3, FS_Subset
    <3>5. Cardinality(before(Max(Ahead))) < ReadAhead
      BY <2>1, <2>4, <2>6
    <3> QED
      BY <2>1, <3>1, <3>3, <3>4, <3>5, OSAssumption
  <2> HIDE DEF rest, before
  <2>7. Ahead # {} => at <= Max(Ahead)
    <3>1. Ahead # {} => Max(Ahead) \in Nat /\ at \in Nat
      BY <1>1, <2>4 DEF StreamInOrder
    <3> QED
      BY <2>5, <3>1
  <2> QED
    BY <1>1, <1>3, <2>3, <2>4, <2>5, <2>6, <2>7
<1> QED
  BY <1>2, <1>3
-----------------------------------------------------------------------------
(* The handles. *)

LEMMA HandlesHeldInit == Init => HandlesHeld
BY DEF Init, HandlesHeld

LEMMA HandlesHeldNext == HandlesHeld /\ [Next]_vars => HandlesHeld'
<1> SUFFICES ASSUME HandlesHeld, [Next]_vars
             PROVE  HandlesHeld'
  OBVIOUS
<1> USE DEF HandlesHeld
<1>1. CASE Fork \/ ChangeState \/ Reap
  BY <1>1 DEF Fork, ChangeState, Reap, callVars, dirVars
<1>2. CASE ReadHandleCount
  BY <1>2 DEF ReadHandleCount
<1>3. CASE OpenProc
  BY <1>3 DEF OpenProc
<1>4. CASE Return
  BY <1>4 DEF Return
<1>5. CASE ReadDir
  BY <1>5 DEF ReadDir
<1>6. CASE OpenFd
  BY <1>6 DEF OpenFd, Skip, Continue, dirVars
<1>7. CASE CountFd
  BY <1>7 DEF CountFd, dirVars
<1>8. CASE FOpen
  BY <1>8 DEF FOpen, Skip, Continue, dirVars
<1>9. CASE FGets
  BY <1>9 DEF FGets, Skip, Continue, IterationLeaves, dirVars
<1>10. CASE Throw
  BY <1>10 DEF Throw, dirVars
<1>11. CASE UNCHANGED vars
  BY <1>11 DEF vars, callVars, dirVars
<1> QED
  BY <1>1, <1>2, <1>3, <1>4, <1>5, <1>6, <1>7, <1>8, <1>9, <1>10, <1>11 DEF Next, Step

THEOREM HandlesInvariant == Spec => []HandlesHeld
BY HandlesHeldInit, HandlesHeldNext, PTL DEF Spec

\* No way through the loops keeps a handle open (os_info.cpp:60-180), however
\* many processes there are.
THEOREM HandlesAreClosed == Spec => []HandlesClosed
<1>1. ASSUME HandlesHeld
      PROVE  HandlesClosed
  <2>1. open \subseteq {"/proc", "fd", "stat"}
    BY <1>1 DEF HandlesHeld
  <2>2. (open \cap {"fd", "stat"} # {}) <=> pc \in {"count fd", "fgets"}
    BY <1>1 DEF HandlesHeld
  <2>3. pc \in {"opendir", "done", "thrown"} => open = {}
    BY <1>1 DEF HandlesHeld
  <2>4. open \subseteq {"/proc", "fd"} \/ open \subseteq {"/proc", "stat"}
    BY <1>1 DEF HandlesHeld
  <2>5. ASSUME NEW a, NEW b, NEW S, S \subseteq {a, b}
        PROVE  Cardinality(S) <= 2
    <3>1. IsFiniteSet({a}) /\ Cardinality({a}) = 1
      BY FS_Singleton
    <3>2. IsFiniteSet({a} \cup {b}) /\ Cardinality({a} \cup {b}) <= 2
      BY <3>1, FS_AddElement
    <3>3. S \in SUBSET ({a} \cup {b})
      BY <2>5
    <3>4. IsFiniteSet(S) /\ Cardinality(S) <= Cardinality({a} \cup {b})
      BY <3>2, <3>3, FS_Subset
    <3>5. PICK m, n : m = Cardinality(S) /\ n = Cardinality({a} \cup {b})
      OBVIOUS
    <3>6. m \in Nat /\ n \in Nat
      BY <3>2, <3>4, <3>5, FS_CardinalityType
    <3>7. m <= n /\ n <= 2
      BY <3>2, <3>4, <3>5
    <3>8. m <= 2
      BY <3>6, <3>7
    <3> QED
      BY <3>5, <3>8
  <2> QED
    BY <2>2, <2>3, <2>4, <2>5 DEF HandlesClosed
<1> QED
  BY <1>1, HandlesInvariant, PTL
-----------------------------------------------------------------------------
(* The stream and the host stay in order. *)

LEMMA GoneIsNoProcess == Gone \notin Proc /\ \A q \in Proc : q.threads \in Nat
BY OSAssumption DEF Gone, Proc

LEMMA StreamInit == Init => StreamInOrder
<1> SUFFICES ASSUME Init
             PROVE  StreamInOrder
  OBVIOUS
<1>1. [state : {"R"}, threads : 1..MaxThreads] \subseteq Proc
  BY OSAssumption DEF Proc
<1> QED
  BY <1>1 DEF Init, StreamInOrder

LEMMA StreamNext == HandlesHeld /\ StreamInOrder /\ [Next]_vars => StreamInOrder'
<1> SUFFICES ASSUME HandlesHeld, StreamInOrder, [Next]_vars
             PROVE  StreamInOrder'
  OBVIOUS
<1>1. CASE Fork
  <2>1. PICK p \in Pids \ Alive, q \in Proc : procs' = [procs EXCEPT ![p] = q]
    BY <1>1 DEF Fork
  <2>2. procs' \in [Pids -> Proc \cup {Gone}] /\ procs'[Self] # Gone
    BY <2>1, PidFacts, GoneIsNoProcess DEF StreamInOrder
  <2>3. UNCHANGED <<pc, stream, at, ent>>
    BY <1>1 DEF Fork, callVars, dirVars
  <2> QED
    BY <2>2, <2>3 DEF StreamInOrder
<1>2. CASE ChangeState
  <2>1. PICK p \in Alive, s \in States : procs' = [procs EXCEPT ![p].state = s]
    BY <1>2 DEF ChangeState
  <2>2. p \in Pids /\ procs[p] \in Proc
    BY <2>1 DEF Alive, StreamInOrder
  <2>3. [procs[p] EXCEPT !.state = s] \in Proc
    BY <2>1, <2>2 DEF Proc
  <2>4. procs' \in [Pids -> Proc \cup {Gone}] /\ procs'[Self] # Gone
    BY <2>1, <2>2, <2>3, PidFacts, GoneIsNoProcess DEF StreamInOrder
  <2>5. UNCHANGED <<pc, stream, at, ent>>
    BY <1>2 DEF ChangeState, callVars, dirVars
  <2> QED
    BY <2>4, <2>5 DEF StreamInOrder
<1>3. CASE Reap
  <2>1. PICK p \in Alive \ {Self} :
          /\ procs' = [procs EXCEPT ![p] = Gone]
          /\ ent' = IF ent.pid = p THEN [ent EXCEPT !.alive = FALSE] ELSE ent
    BY <1>3 DEF Reap
  <2>2. procs' \in [Pids -> Proc \cup {Gone}] /\ procs'[Self] # Gone
    <3>1. p # Self /\ p \in Pids /\ procs \in [Pids -> Proc \cup {Gone}] /\ procs[Self] # Gone
      BY <2>1 DEF StreamInOrder, Alive
    <3> QED
      BY <2>1, <3>1, PidFacts
  <2>3. ent' \in [pid : Pids \cup {NotAPid}, alive : BOOLEAN] /\ ent'.pid = ent.pid
    BY <2>1 DEF StreamInOrder
  <2>4. UNCHANGED <<pc, stream, at>>
    BY <1>3 DEF Reap, callVars, dirVars
  <2> QED
    BY <2>2, <2>3, <2>4 DEF StreamInOrder
<1>4. CASE ReadHandleCount \/ Return \/ CountFd \/ FGets \/ Throw
  <2>1. UNCHANGED <<procs, stream, at, ent>>
    BY <1>4 DEF ReadHandleCount, Return, CountFd, FGets, Throw, dirVars
  <2>2. pc' \notin {"opendir fd", "count fd", "fopen", "fgets"}
    BY <1>4 DEF ReadHandleCount, Return, CountFd, FGets, Skip, Throw, Continue
  <2> QED
    BY <2>1, <2>2 DEF StreamInOrder
<1>5. CASE OpenProc
  <2>1. UNCHANGED <<procs, ent>> /\ pc' \in {"readdir", "return"}
    BY <1>5 DEF OpenProc
  <2>2. \/ stream' = {NotAPid} /\ at' = 0
        \/ UNCHANGED <<stream, at>>
    BY <1>5 DEF OpenProc
  <2>3. /\ at' \in Nat /\ stream' \subseteq Pids \cup {NotAPid}
        /\ \A p \in stream' : p <= at'
        /\ stream' # {} => at' \in stream'
    <3>1. CASE stream' = {NotAPid} /\ at' = 0
      BY <3>1 DEF NotAPid
    <3>2. CASE UNCHANGED <<stream, at>>
      BY <3>2 DEF StreamInOrder
    <3> QED
      BY <2>2, <3>1, <3>2
  <2> QED
    BY <2>1, <2>3 DEF StreamInOrder
<1>6. CASE ReadDir
  <2>1. UNCHANGED procs
    BY <1>6 DEF ReadDir
  <2>2. CASE Ahead = {}
    <3>1. UNCHANGED <<stream, at, ent>> /\ pc' = "return"
      BY <1>6, <2>2 DEF ReadDir
    <3> QED
      BY <2>1, <3>1 DEF StreamInOrder
  <2>3. CASE Ahead # {}
    <3> DEFINE first == Min(Ahead)
               last == Max(Ahead)
    <3>1. /\ stream' = Ahead \ {first} /\ at' = last
          /\ ent' = [pid |-> first, alive |-> FALSE]
          /\ pc' # pc => first # NotAPid
      BY <1>6, <2>3 DEF ReadDir, Returned, IsProcess
    <3>2. /\ first \in Ahead /\ \A p \in Ahead : first <= p
          /\ last \in Ahead /\ \A p \in Ahead : p <= last
          /\ Ahead \subseteq Pids \cup {NotAPid} /\ Ahead \subseteq Nat
      BY <2>3, AheadFacts
    <3>3. pc = "readdir"
      BY <1>6 DEF ReadDir
    <3> HIDE DEF first, last
    <3>4. stream' # {} => last \in stream'
      <4>1. ASSUME NEW p \in Ahead \ {first}, last = first
            PROVE  FALSE
        <5>1. p \in Nat /\ first \in Nat /\ first <= p /\ p <= first
          BY <3>2, <4>1
        <5> QED
          BY <4>1, <5>1
      <4> QED
        BY <3>1, <3>2, <4>1
    <3> QED
      BY <2>1, <3>1, <3>2, <3>3, <3>4 DEF StreamInOrder
  <2> QED
    BY <2>2, <2>3
<1>7. CASE OpenFd \/ FOpen
  <2>1. UNCHANGED <<procs, stream, at>> /\ pc \in {"opendir fd", "fopen"}
    BY <1>7 DEF OpenFd, FOpen, dirVars
  <2>2. ent' = [ent EXCEPT !.alive = TRUE] \/ ent' = ent
    BY <1>7 DEF OpenFd, FOpen
  <2> QED
    BY <2>1, <2>2 DEF StreamInOrder
<1>8. CASE UNCHANGED vars
  BY <1>8 DEF vars, callVars, dirVars, StreamInOrder
<1> QED
  BY <1>1, <1>2, <1>3, <1>4, <1>5, <1>6, <1>7, <1>8 DEF Next, Step
-----------------------------------------------------------------------------
(* The fallback meets this process. *)

LEMMA SelfAheadInit == Init => SelfAhead
BY DEF Init, SelfAhead, HandlesCounted

LEMMA SelfAheadNext ==
  HandlesHeld /\ StreamInOrder /\ SelfAhead /\ [Next]_vars => SelfAhead'
<1> SUFFICES ASSUME HandlesHeld, StreamInOrder, SelfAhead, [Next]_vars
             PROVE  SelfAhead'
  OBVIOUS
<1>0. Self \in Pids /\ Self \in Nat /\ Self # NotAPid /\ Self \in Alive
  BY PidFacts DEF Alive, StreamInOrder
<1>1. CASE Fork \/ ChangeState \/ Reap
  <2>1. UNCHANGED <<pc, walk, stream, at, info, skipped>>
    BY <1>1 DEF Fork, ChangeState, Reap, callVars, dirVars, history
  <2>2. ent'.pid = ent.pid
    <3>1. CASE Fork \/ ChangeState
      BY <3>1 DEF Fork, ChangeState
    <3>2. CASE Reap
      <4>1. ent' = ent \/ ent' = [ent EXCEPT !.alive = FALSE]
        BY <3>2 DEF Reap
      <4> QED
        BY <4>1 DEF StreamInOrder
    <3> QED
      BY <1>1, <3>1, <3>2
  <2> QED
    BY <2>1, <2>2 DEF SelfAhead, HandlesCounted
<1>2. CASE ReadHandleCount
  <2>1. PICK n \in {0, 1} : /\ info' = [info EXCEPT !.handle_count = n]
                            /\ walk' = IF n = 0 THEN "fd" ELSE "stat"
    BY <1>2 DEF ReadHandleCount
  <2>2. pc = "file-nr" /\ pc' = "opendir" /\ UNCHANGED <<stream, at, ent>> /\ walk = "fd"
    BY <1>2 DEF ReadHandleCount, HandlesHeld
  <2>3. info'.handle_count \in Nat /\ DOMAIN info' = DOMAIN info
    <3>1. info'.handle_count = n /\ DOMAIN info' = DOMAIN info
      BY <2>1 DEF SelfAhead
    <3>2. n \in Nat
      OBVIOUS
    <3> QED
      BY <3>1, <3>2
  <2> QED
    BY <2>2, <2>3 DEF SelfAhead, HandlesCounted
<1>3. CASE OpenProc
  <2>1. pc = "opendir" /\ UNCHANGED <<walk, info, ent>>
    BY <1>3 DEF OpenProc
  <2>2. \/ pc' = "readdir" /\ at' = 0
        \/ pc' = "return" /\ UNCHANGED <<stream, at, skipped>>
    BY <1>3 DEF OpenProc, history
  <2>3. 0 < Self
    BY <1>0 DEF NotAPid
  <2> QED
    BY <2>1, <2>2, <2>3 DEF SelfAhead, HandlesCounted
<1>4. CASE Return
  <2>1. /\ pc = "return" /\ UNCHANGED <<stream, at, ent, skipped>>
        /\ info'.handle_count = info.handle_count /\ DOMAIN info' = DOMAIN info
    BY <1>4 DEF Return, SelfAhead, history
  <2>2. \/ walk = "fd" /\ walk' = "stat" /\ pc' = "opendir"
        \/ walk # "fd" /\ pc' = "done" /\ UNCHANGED walk
    BY <1>4 DEF Return
  <2> QED
    BY <2>1, <2>2 DEF SelfAhead, HandlesCounted
<1>5. CASE ReadDir
  <2>1. pc = "readdir" /\ UNCHANGED <<walk, info, skipped>>
    BY <1>5 DEF ReadDir, history
  <2>2. CASE Ahead = {}
    <3>1. UNCHANGED <<stream, at, ent>> /\ pc' = "return"
      BY <1>5, <2>2 DEF ReadDir
    <3>2. Self \notin stream /\ Self <= at
      BY <1>0, <2>2, AheadFacts
    <3>3. ~ (at < Self)
      <4>1. at \in Nat
        BY DEF StreamInOrder
      <4> QED
        BY <1>0, <3>2, <4>1
    <3> QED
      BY <2>1, <3>1, <3>2, <3>3 DEF SelfAhead, HandlesCounted
  <2>3. CASE Ahead # {}
    <3> DEFINE first == Min(Ahead)
    <3>1. /\ stream' = Ahead \ {first} /\ at' = Max(Ahead)
          /\ ent' = [pid |-> first, alive |-> FALSE]
          /\ pc' = IF first = NotAPid THEN "readdir"
                   ELSE IF walk = "fd" THEN "opendir fd" ELSE "fopen"
      BY <1>5, <2>1, <2>3 DEF ReadDir, Returned, IsProcess
    <3>2. Self \in stream \/ at < Self => Self \in Ahead \/ Max(Ahead) < Self
      BY <1>0, <2>3, AheadFacts
    <3> HIDE DEF first
    <3> QED
      BY <1>0, <2>1, <3>1, <3>2 DEF SelfAhead, HandlesCounted, HandlesHeld
  <2> QED
    BY <2>2, <2>3
<1>6. CASE OpenFd
  <2>1. pc = "opendir fd" /\ UNCHANGED <<walk, stream, at, info>> /\ walk = "fd"
    BY <1>6 DEF OpenFd, dirVars, HandlesHeld
  <2>2. \/ pc' = "count fd" /\ ent'.pid = ent.pid /\ UNCHANGED skipped
        \/ pc' = "readdir" /\ ent' = ent /\ skipped' = skipped \cup {ent.pid}
    BY <1>6 DEF OpenFd, Skip, Continue, StreamInOrder
  <2> QED
    BY <2>1, <2>2 DEF SelfAhead, HandlesCounted
<1>7. CASE CountFd
  <2>1. /\ pc = "count fd" /\ pc' = "readdir" /\ UNCHANGED <<walk, stream, at, ent, skipped>>
        /\ walk = "fd" /\ open = {"/proc", "fd"}
    BY <1>7 DEF CountFd, dirVars, HandlesHeld, history
  <2>2. Cardinality(open) = 2
    <3>1. IsFiniteSet({"/proc"}) /\ Cardinality({"/proc"}) = 1 /\ "fd" \notin {"/proc"}
      BY FS_Singleton
    <3>2. Cardinality({"/proc"} \cup {"fd"}) = 2
      BY <3>1, FS_AddElement
    <3> QED
      BY <2>1, <3>2
  <2>3. PICK n \in {0, 1} :
          info' = [info EXCEPT !.handle_count = AddHandles(@,
                     CASE ent.pid = Self -> Cardinality(open) + n
                       [] ent.pid # Self /\ ent.alive -> n
                       [] OTHER -> 0)]
    BY <1>7 DEF CountFd
  <2> DEFINE m == CASE ent.pid = Self -> Cardinality(open) + n
                    [] ent.pid # Self /\ ent.alive -> n
                    [] OTHER -> 0
  <2>4. m \in Nat /\ (ent.pid = Self => m >= 2)
    BY <2>2
  <2>5. info'.handle_count = info.handle_count + m /\ DOMAIN info' = DOMAIN info
    BY <2>3 DEF AddHandles, SelfAhead
  <2> HIDE DEF m
  <2>6. /\ info.handle_count \in Nat /\ info'.handle_count \in Nat
        /\ info.handle_count >= 2 \/ ent.pid = Self => info'.handle_count >= 2
    <3>1. info.handle_count \in Nat
      BY DEF SelfAhead
    <3> QED
      BY <2>4, <2>5, <3>1
  <2> QED
    BY <2>1, <2>5, <2>6 DEF SelfAhead, HandlesCounted
<1>8. CASE FOpen \/ FGets \/ Throw
  <2>1. UNCHANGED <<walk, stream, at, info>>
    BY <1>8 DEF FOpen, FGets, Throw, dirVars
  <2>2. pc' = "thrown" \/ (walk = "stat" /\ pc' \in {"readdir", "fgets"})
    BY <1>8 DEF FOpen, FGets, Skip, Throw, Continue, HandlesHeld
  <2> QED
    BY <2>1, <2>2 DEF SelfAhead, HandlesCounted
<1>9. CASE UNCHANGED vars
  BY <1>9 DEF vars, callVars, dirVars, history, SelfAhead, HandlesCounted
<1> QED
  BY <1>1, <1>2, <1>3, <1>4, <1>5, <1>6, <1>7, <1>8, <1>9 DEF Next, Step
-----------------------------------------------------------------------------
(* The counts. *)

\* What the survey has, apart from who was counted.
SurveyFrame ==
  /\ status \in [DOMAIN NoStatus -> Nat]
  /\ stable \subseteq Alive /\ stable \subseteq seen /\ seen \subseteq Pids
  /\ Surveying => seen # {} /\ stream \subseteq seen \cup {NotAPid} /\ Alive \subseteq seen
  /\ seen = {} => status = NoStatus
  /\ seen # {} => Surveying \/ pc \in {"done", "thrown"}
  /\ info.process_count = IF pc = "done" THEN status.active ELSE 0
  /\ pc = "done" => info.thread_count = status.threads

LEMMA SurveyParts ==
  SurveyKept <=> SurveyFrame /\ (pc # "thrown" => \E counted \in SUBSET seen : Counts(counted))
BY DEF SurveyKept, SurveyFrame

\* The sum over some of the processes.
LEMMA ThreadsSum ==
  ASSUME StreamInOrder, NEW S, S \subseteq Pids
  PROVE  /\ SumFunctionOnSet(Threads, S) \in Nat
         /\ \A p \in Pids : procs[p].threads \in Nat
         /\ \A p \in S : SumFunctionOnSet(Threads, S) =
                           procs[p].threads + SumFunctionOnSet(Threads, S \ {p})
<1>1. \A p \in Pids : Threads[p] = procs[p].threads /\ procs[p].threads \in Nat
  <2>1. \A p \in Pids : procs[p] \in Proc \cup {Gone}
    BY DEF StreamInOrder
  <2>2. Gone.threads \in Nat
    BY DEF Gone
  <2> QED
    BY <2>1, <2>2, GoneIsNoProcess DEF Threads
<1>2. IsFiniteSet(S) /\ \A p \in S : Threads[p] \in Nat
  BY <1>1, PidSets
<1>3. SumFunctionOnSet(Threads, S) \in Nat
  BY <1>2, SumType
<1>4. ASSUME NEW p \in S
      PROVE  SumFunctionOnSet(Threads, S) = procs[p].threads + SumFunctionOnSet(Threads, S \ {p})
  BY <1>1, <1>2, SumRemove
<1> QED
  BY <1>1, <1>3, <1>4

\* A process that leaves takes nothing from the counts but its own threads.
LEMMA SumWithout ==
  ASSUME StreamInOrder, NEW S, S \subseteq Pids, NEW p
  PROVE  SumFunctionOnSet(Threads, S \ {p}) <= SumFunctionOnSet(Threads, S)
<1>1. /\ SumFunctionOnSet(Threads, S) \in Nat
      /\ SumFunctionOnSet(Threads, S \ {p}) \in Nat
  BY ThreadsSum
<1>2. CASE p \in S
  BY <1>1, <1>2, ThreadsSum
<1>3. CASE p \notin S
  <2>1. S \ {p} = S
    BY <1>3
  <2> QED
    BY <1>1, <2>1
<1> QED
  BY <1>2, <1>3

LEMMA SurveyInit == Init => SurveyKept
<1> SUFFICES ASSUME Init
             PROVE  SurveyKept
  OBVIOUS
<1>1. SumFunctionOnSet(Threads, Summed({})) = 0
  <2>1. Summed({}) = {}
    BY DEF Summed
  <2> QED
    BY <2>1, SumChosen, FS_EmptySet
<1>2. Counts({})
  BY <1>1, FS_EmptySet DEF Init, Counts, Surveying, NoStatus
<1>3. SurveyFrame
  BY DEF Init, SurveyFrame, Surveying, NoStatus
<1> QED
  BY <1>2, <1>3, SurveyParts

\* The survey's frame is kept.
LEMMA FrameNext ==
  HandlesHeld /\ StreamInOrder /\ SelfAhead /\ SurveyFrame /\ [Next]_vars => SurveyFrame'
<1> SUFFICES ASSUME HandlesHeld, StreamInOrder, SelfAhead, SurveyFrame, [Next]_vars
             PROVE  SurveyFrame'
  OBVIOUS
<1> DEFINE StatusKept(st) == st \in [DOMAIN NoStatus -> Nat]
           InfoKept == /\ info.process_count = IF pc = "done" THEN status.active ELSE 0
                       /\ pc = "done" => info.thread_count = status.threads
<1>0. /\ status \in [DOMAIN NoStatus -> Nat] /\ InfoKept
      /\ DOMAIN info = {"handle_count", "process_count", "thread_count"}
  BY DEF SurveyFrame, SelfAhead
<1>1. CASE Fork
  <2>1. PICK p \in Pids \ Alive, q \in Proc : procs' = [procs EXCEPT ![p] = q]
                               /\ seen' = IF Surveying THEN seen \cup {p} ELSE seen
    BY <1>1 DEF Fork
  <2>2. UNCHANGED <<pc, walk, stream, at, open, status, info, ent, stable>>
    BY <1>1 DEF Fork, callVars, dirVars
  <2>3. Alive' = Alive \cup {p}
    BY <2>1, GoneIsNoProcess DEF Alive, StreamInOrder
  <2>4. Surveying' = Surveying
    BY <2>2 DEF Surveying
  <2> QED
    BY <2>1, <2>2, <2>3, <2>4 DEF SurveyFrame
<1>2. CASE ChangeState
  <2>1. PICK p \in Alive, s \in States : procs' = [procs EXCEPT ![p].state = s]
    BY <1>2 DEF ChangeState
  <2>2. UNCHANGED <<pc, walk, stream, at, open, status, info, ent, stable, seen>>
    BY <1>2 DEF ChangeState, callVars, dirVars, history
  <2>3. Alive' = Alive
    <3>1. p \in Pids /\ procs[p] \in Proc
      BY <2>1 DEF Alive, StreamInOrder
    <3>2. [procs[p] EXCEPT !.state = s] \in Proc
      BY <2>1, <3>1 DEF Proc
    <3> QED
      BY <2>1, <3>1, <3>2, GoneIsNoProcess DEF Alive, StreamInOrder
  <2>4. Surveying' = Surveying
    BY <2>2 DEF Surveying
  <2> QED
    BY <2>2, <2>3, <2>4 DEF SurveyFrame
<1>3. CASE Reap
  <2>1. PICK p \in Alive \ {Self} :
          /\ procs' = [procs EXCEPT ![p] = Gone]
          /\ stable' = stable \ {p}
          /\ ent' = IF ent.pid = p THEN [ent EXCEPT !.alive = FALSE] ELSE ent
    BY <1>3 DEF Reap
  <2>2. UNCHANGED <<pc, walk, stream, at, open, status, info, seen>>
    BY <1>3 DEF Reap, callVars, dirVars
  <2>3. Alive' = Alive \ {p}
    BY <2>1 DEF Alive, StreamInOrder
  <2>4. Surveying' = Surveying
    BY <2>2 DEF Surveying
  <2>5. ent'.pid = ent.pid /\ (ent.pid # p => ent' = ent)
    BY <2>1 DEF StreamInOrder
  <2> QED
    BY <2>1, <2>2, <2>3, <2>4, <2>5 DEF SurveyFrame
<1>4. CASE ReadHandleCount
  <2>1. PICK n \in {0, 1} : info' = [info EXCEPT !.handle_count = n]
    BY <1>4 DEF ReadHandleCount
  <2>2. /\ pc = "file-nr" /\ pc' = "opendir" /\ open = {}
        /\ UNCHANGED <<procs, stream, at, ent, open, status, stable, seen>>
    BY <1>4 DEF ReadHandleCount, HandlesHeld, history
  <2>3. info'.process_count = info.process_count
    BY <1>0, <2>1
  <2>4. ~Surveying /\ ~Surveying'
    BY <2>2 DEF Surveying
  <2> QED
    BY <2>2, <2>3, <2>4 DEF SurveyFrame, Alive
<1>5. CASE OpenProc
  <2>1. /\ pc = "opendir" /\ UNCHANGED <<procs, walk, ent, status, info>>
        /\ pc' \in {"readdir", "return"} /\ open = {} /\ Alive' = Alive
    BY <1>5 DEF OpenProc, HandlesHeld, Alive
  <2>2. ~Surveying
    BY <2>1 DEF Surveying
  <2>3. seen = {}
    BY <2>1, <2>2 DEF SurveyFrame
  <2>4. CASE UNCHANGED <<open, stream, stable, seen>>
    <3>1. ~Surveying'
      BY <2>1, <2>4 DEF Surveying
    <3> QED
      BY <2>1, <2>2, <2>3, <2>4, <3>1 DEF SurveyFrame
  <2>5. CASE walk = "stat" /\ stable' = Alive /\ seen' = Alive /\ stream' = {NotAPid}
             /\ open' = open \cup {"/proc"}
    <3>1. Alive # {} /\ Alive \subseteq Pids
      BY PidFacts DEF Alive, StreamInOrder
    <3>2. Surveying'
      BY <2>1, <2>5 DEF Surveying
    <3>3. status = NoStatus
      BY <2>3 DEF SurveyFrame
    <3> QED
      BY <2>1, <2>5, <3>1, <3>2, <3>3 DEF SurveyFrame
  <2>6. CASE walk = "fd" /\ UNCHANGED <<stable, seen>>
    <3>1. ~Surveying'
      BY <2>1, <2>6 DEF Surveying
    <3> QED
      BY <2>1, <2>3, <2>6, <3>1 DEF SurveyFrame
  <2> QED
    BY <1>5, <2>1, <2>4, <2>5, <2>6 DEF OpenProc, history, HandlesHeld
<1>6. CASE Return
  <2>1. /\ pc = "return" /\ UNCHANGED <<procs, stream, ent, status, stable, seen>>
        /\ open' = open \ {"/proc"} /\ Alive' = Alive
    BY <1>6 DEF Return, history, Alive
  <2>2. ~Surveying'
    BY <2>1 DEF Surveying
  <2>3. CASE walk = "fd"
    <3>1. pc' = "opendir" /\ UNCHANGED info
      BY <1>6, <2>3 DEF Return
    <3>2. seen = {}
      BY <2>1, <2>3 DEF SurveyFrame, Surveying
    <3> QED
      BY <2>1, <2>2, <3>1, <3>2 DEF SurveyFrame
  <2>4. CASE walk # "fd"
    <3>1. /\ pc' = "done"
          /\ info' = [info EXCEPT !.process_count = status.active,
                                  !.thread_count = status.threads]
      BY <1>6, <2>4 DEF Return
    <3>2. info'.process_count = status.active /\ info'.thread_count = status.threads
      BY <1>0, <3>1
    <3> QED
      BY <2>1, <2>2, <3>1, <3>2 DEF SurveyFrame
  <2> QED
    BY <2>3, <2>4
<1>7. CASE ReadDir
  <2>1. /\ pc = "readdir" /\ UNCHANGED <<procs, walk, open, info, stable, seen>>
        /\ pc' \in {"return", "readdir", "opendir fd", "fopen"} /\ Alive' = Alive
        /\ open = {"/proc"}
    BY <1>7 DEF ReadDir, history, Alive, HandlesHeld
  <2>2. Surveying' = Surveying /\ (walk = "stat" => Surveying)
    BY <2>1 DEF Surveying
  <2>3. stream' \subseteq stream \cup Alive
    <3>1. stream' = stream \/ stream' = Ahead \ {Min(Ahead)}
      BY <1>7 DEF ReadDir, Returned
    <3> QED
      BY <3>1, AheadFacts
  <2>4. \/ status' = status
        \/ walk = "stat" /\ status' = [status EXCEPT !.active = @ + 1]
    BY <1>7 DEF ReadDir, HandlesHeld
  <2>5. status' \in [DOMAIN NoStatus -> Nat]
    BY <1>0, <2>4 DEF NoStatus
  <2>6. seen = {} => status' = NoStatus
    BY <2>2, <2>4 DEF SurveyFrame
  <2>7. seen # {} => Surveying
    BY <2>1 DEF SurveyFrame
  <2> QED
    BY <2>1, <2>2, <2>3, <2>5, <2>6, <2>7 DEF SurveyFrame
<1>8. CASE OpenFd \/ FOpen
  <2>1. /\ pc \in {"opendir fd", "fopen"}
        /\ UNCHANGED <<procs, walk, stream, at, status, info, stable, seen>>
        /\ pc' \in {"count fd", "fgets", "readdir"} /\ Alive' = Alive
        /\ open' \in {open, open \cup {"fd"}, open \cup {"stat"}}
    BY <1>8 DEF OpenFd, FOpen, Skip, dirVars, Alive, Continue
  <2>2. Surveying' = Surveying
    BY <2>1 DEF Surveying
  <2> QED
    BY <2>1, <2>2 DEF SurveyFrame
<1>9. CASE CountFd
  <2>1. /\ pc = "count fd" /\ pc' = "readdir" /\ open' = open \ {"fd"} /\ Alive' = Alive
        /\ UNCHANGED <<procs, walk, stream, status, stable, seen>>
    BY <1>9 DEF CountFd, dirVars, history, Alive
  <2>2. \E n : info' = [info EXCEPT !.handle_count = n]
    BY <1>9 DEF CountFd
  <2>3. info'.process_count = info.process_count
    BY <1>0, <2>2
  <2>4. Surveying' = Surveying
    BY <2>1 DEF Surveying
  <2> QED
    BY <2>1, <2>3, <2>4 DEF SurveyFrame
<1>10. CASE FGets
  <2>1. /\ pc = "fgets" /\ pc' = "readdir" /\ open' = open \ {"stat"} /\ Alive' = Alive
        /\ UNCHANGED <<procs, walk, stream, info, stable, seen>>
        /\ walk = "stat" /\ open = {"/proc", "stat"}
    BY <1>10 DEF FGets, Skip, dirVars, Alive, Continue, IterationLeaves, HandlesHeld
  <2>2. Surveying /\ Surveying'
    BY <2>1 DEF Surveying
  <2>3. status' \in [DOMAIN NoStatus -> Nat]
    <3>1. CASE status' = CountState(procs[ent.pid])
      <4>2. procs[ent.pid].threads \in Nat
        BY <2>1, ThreadsSum DEF StreamInOrder
      <4>3. ASSUME NEW f \in DOMAIN NoStatus
            PROVE  CountState(procs[ent.pid])[f] \in Nat
        BY <1>0, <4>2 DEF CountState
      <4> QED
        BY <1>0, <3>1, <4>3 DEF CountState
    <3>2. CASE UNCHANGED status
      BY <1>0, <3>2
    <3> QED
      BY <1>10, <3>1, <3>2 DEF FGets
  <2> QED
    BY <2>1, <2>2, <2>3 DEF SurveyFrame
<1>11. CASE Throw
  <2>1. /\ pc' = "thrown" /\ pc # "done" /\ open' = {} /\ Alive' = Alive
        /\ UNCHANGED <<procs, status, info, stable, seen>>
    BY <1>11 DEF Throw, dirVars, history, Alive
  <2>2. ~Surveying'
    BY <2>1 DEF Surveying
  <2> QED
    BY <2>1, <2>2 DEF SurveyFrame
<1>12. CASE UNCHANGED vars
  BY <1>12 DEF vars, callVars, dirVars, history, SurveyFrame, Surveying, Alive
<1> QED
  BY <1>1, <1>2, <1>3, <1>4, <1>5, <1>6, <1>7, <1>8, <1>9, <1>10, <1>11, <1>12 DEF Next, Step

\* Processes whose threads do not change have the same sum.
LEMMA SumUnchanged ==
  ASSUME NEW S, S \subseteq Pids, \A p \in S : procs'[p].threads = procs[p].threads
  PROVE  SumFunctionOnSet(Threads', S) = SumFunctionOnSet(Threads, S)
<1>1. \A p \in S : Threads'[p] = Threads[p]
  BY DEF Threads
<1>2. IsFiniteSet(S)
  BY PidSets
<1> QED
  BY <1>1, <1>2, SumSame

\* Whoever comes and goes, the counts remain right.
LEMMA CountsOfHost ==
  ASSUME StreamInOrder, SurveyFrame, NEW counted \in SUBSET seen, Counts(counted),
         Fork \/ ChangeState \/ Reap
  PROVE  counted \in SUBSET seen' /\ Counts(counted)'
<1>0. PICK T : T = Summed(counted)
  OBVIOUS
<1>1. T \subseteq Pids /\ T \subseteq Alive
  BY <1>0 DEF SurveyFrame, Summed
<1>2. UNCHANGED <<pc, walk, stream, at, open, status, skipped>>
  BY DEF Fork, ChangeState, Reap, callVars, dirVars, history
<1>3. Surveying' = Surveying
  BY <1>2 DEF Surveying
<1>4. seen \subseteq seen'
  BY DEF Fork, ChangeState, Reap, history
<1>5. CASE Fork
  <2>1. PICK p \in Pids \ Alive, q \in Proc : procs' = [procs EXCEPT ![p] = q]
    BY <1>5 DEF Fork
  <2>2. \A x \in T : procs'[x].threads = procs[x].threads
    BY <1>1, <2>1 DEF StreamInOrder
  <2>3. UNCHANGED <<ent, stable>>
    BY <1>5 DEF Fork
  <2>4. SumFunctionOnSet(Threads', T) = SumFunctionOnSet(Threads, T)
    BY <1>1, <2>2, SumUnchanged
  <2>5. Summed(counted)' = T
    BY <1>0, <1>2, <2>3 DEF Summed, Pending
  <2> QED
    BY <1>0, <1>2, <1>3, <1>4, <2>3, <2>4, <2>5 DEF Counts
<1>6. CASE ChangeState
  <2>1. PICK p \in Alive, s \in States : procs' = [procs EXCEPT ![p].state = s]
    BY <1>6 DEF ChangeState
  <2>2. \A x \in T : procs'[x].threads = procs[x].threads
    <3>1. p \in Pids /\ procs[p] \in Proc
      BY <2>1 DEF Alive, StreamInOrder
    <3>2. [procs[p] EXCEPT !.state = s].threads = procs[p].threads
      BY <3>1 DEF Proc
    <3> QED
      BY <1>1, <2>1, <3>1, <3>2 DEF StreamInOrder
  <2>3. UNCHANGED <<ent, stable>>
    BY <1>6 DEF ChangeState, history
  <2>4. SumFunctionOnSet(Threads', T) = SumFunctionOnSet(Threads, T)
    BY <1>1, <2>2, SumUnchanged
  <2>5. Summed(counted)' = T
    BY <1>0, <1>2, <2>3 DEF Summed, Pending
  <2> QED
    BY <1>0, <1>2, <1>3, <1>4, <2>3, <2>4, <2>5 DEF Counts
<1>7. CASE Reap
  <2>1. PICK p \in Alive \ {Self} :
          /\ procs' = [procs EXCEPT ![p] = Gone]
          /\ stable' = stable \ {p}
          /\ ent' = IF ent.pid = p THEN [ent EXCEPT !.alive = FALSE] ELSE ent
    BY <1>7 DEF Reap
  <2>2. \A x \in T \ {p} : procs'[x].threads = procs[x].threads
    BY <1>1, <2>1 DEF StreamInOrder
  <2>3. ent'.pid = ent.pid
    BY <2>1 DEF StreamInOrder
  <2>4. SumFunctionOnSet(Threads', T \ {p}) = SumFunctionOnSet(Threads, T \ {p})
    BY <1>1, <2>2, SumUnchanged
  <2>5. SumFunctionOnSet(Threads, T \ {p}) <= SumFunctionOnSet(Threads, T)
    BY <1>1, SumWithout
  <2>6. SumFunctionOnSet(Threads, T) \in Nat /\ SumFunctionOnSet(Threads, T \ {p}) \in Nat
    BY <1>1, ThreadsSum
  <2>7. Pending' = Pending /\ Summed(counted)' = T \ {p}
    BY <1>0, <1>2, <2>1, <2>3 DEF Pending, Summed
  <2>8. status.threads \in Nat /\ status.threads >= SumFunctionOnSet(Threads, T)
    BY <1>0 DEF Counts, SurveyFrame, NoStatus
  <2>9. status'.threads >= SumFunctionOnSet(Threads', T \ {p})
    BY <1>2, <2>4, <2>5, <2>6, <2>8
  <2>10. status'.threads >= SumFunctionOnSet(Threads', Summed(counted)')
    BY <2>7, <2>9
  <2> QED
    BY <1>2, <1>3, <1>4, <2>1, <2>3, <2>10 DEF Counts
<1> QED
  BY <1>5, <1>6, <1>7

\* Nobody is counted before the survey.
LEMMA CountsNone ==
  ASSUME StreamInOrder, status = NoStatus, pc \notin {"fopen", "fgets"},
         stable = {} \/ (Surveying /\ at = 0 /\ stable \subseteq Pids /\ pc = "readdir")
  PROVE  Counts({})
<1>1. SumFunctionOnSet(Threads, Summed({})) = 0
  <2>1. Summed({}) = {}
    BY DEF Summed
  <2> QED
    BY <2>1, SumChosen, FS_EmptySet
<1>2. stable \subseteq {p \in Pids : p > at} \/ stable = {}
  <2>1. \A p \in Pids : p > 0
    BY OSAssumption
  <2> QED
    BY <2>1
<1>3. status.active = 0 /\ status.threads = 0
  BY DEF NoStatus
<1> QED
  BY <1>1, <1>2, <1>3, FS_EmptySet DEF Counts

\* An entry of /proc is counted once, and none that was there all along is
\* passed over.
LEMMA CountsOfReadDir ==
  ASSUME HandlesHeld, StreamInOrder, SurveyFrame,
         NEW counted \in SUBSET seen, Counts(counted), ReadDir
  PROVE  \E c \in SUBSET seen' : Counts(c)'
<1>1. /\ pc = "readdir" /\ open = {"/proc"}
      /\ UNCHANGED <<procs, walk, open, stable, seen, skipped>>
  BY DEF ReadDir, history, HandlesHeld
<1>2. /\ Surveying' = Surveying
      /\ walk = "stat" => Surveying
      /\ ~Surveying => seen = {} /\ stable = {} /\ counted = {}
  BY <1>1 DEF Surveying, SurveyFrame
<1>3. Pending = {} /\ Threads' = Threads /\ stable \subseteq Alive
  BY <1>1 DEF Pending, Threads, SurveyFrame
<1>4. at \in Nat /\ counted \subseteq Pids /\ counted \subseteq Nat
  BY PidFacts DEF StreamInOrder, SurveyFrame
<1>5. CASE Ahead = {}
  <2>1. UNCHANGED <<stream, at, ent, status>> /\ pc' = "return"
    BY <1>5 DEF ReadDir
  <2>2. stream = {} /\ \A p \in Alive : p <= at
    BY <1>5, AheadFacts
  <2>3. Surveying => stable \subseteq counted
    <3>1. \A p \in Alive : ~ (p > at)
      <4>1. \A p \in Alive : p \in Nat
        BY PidFacts DEF Alive
      <4> QED
        BY <1>4, <2>2, <4>1
    <3> QED
      BY <1>3, <2>2, <3>1 DEF Counts
  <2>4. Pending' = {}
    BY <2>1 DEF Pending
  <2> QED
    BY <1>1, <1>2, <1>3, <2>1, <2>3, <2>4 DEF Counts, Summed
<1>6. CASE Ahead # {}
  <2> DEFINE first == Min(Ahead)
             last == Max(Ahead)
  <2>1. /\ stream' = Ahead \ {first} /\ at' = last
        /\ ent' = [pid |-> first, alive |-> FALSE]
    BY <1>6 DEF ReadDir, Returned
  <2>2. \/ first = NotAPid /\ pc' = pc /\ UNCHANGED status
        \/ first # NotAPid /\ walk = "fd" /\ pc' = "opendir fd" /\ UNCHANGED status
        \/ /\ first # NotAPid /\ walk # "fd" /\ pc' = "fopen"
           /\ status' = [status EXCEPT !.active = @ + 1]
    BY <1>6 DEF ReadDir, IsProcess
  <2>3. /\ Ahead \subseteq Pids \cup {NotAPid} /\ Ahead \subseteq Nat
        /\ Ahead \subseteq stream \cup Alive /\ stream \subseteq Ahead
        /\ first \in Ahead /\ \A p \in Ahead : first <= p
        /\ last \in Ahead /\ \A p \in Ahead : p <= last
        /\ at <= last
        /\ \A p \in Alive : p > at => p \in Ahead \/ p > last
        /\ stream = {} => at < first
    BY <1>6, AheadFacts
  <2> HIDE DEF first, last
  <2>4. counted \cap Ahead = {}
    <3>1. CASE stream # {}
      <4>1. Ahead = stream
        BY <3>1 DEF Ahead
      <4> QED
        BY <4>1 DEF Counts
    <3>2. CASE stream = {}
      <4>1. ASSUME NEW p \in counted, p \in Ahead
            PROVE  FALSE
        <5>1. p <= at /\ at < first /\ first <= p
          BY <2>3, <3>2, <4>1 DEF Counts
        <5>2. p \in Nat /\ first \in Nat
          BY <1>4, <2>3
        <5> QED
          BY <1>4, <5>1, <5>2
      <4> QED
        BY <4>1
    <3> QED
      BY <3>1, <3>2
  <2>5. \A p \in counted : p <= at'
    <3>1. \A p \in counted : p <= at
      BY DEF Counts
    <3>2. at' \in Nat /\ at <= at'
      BY <2>1, <2>3
    <3> QED
      BY <1>4, <3>1, <3>2
  <2>6. Surveying => stable \subseteq counted \cup Ahead \cup {p \in Pids : p > at'}
    <3>1. ASSUME Surveying, NEW p \in stable, p \notin counted
          PROVE  p \in Ahead \/ p > at'
      <4>1. p \in stream \/ p > at
        BY <3>1 DEF Counts
      <4> QED
        BY <1>3, <2>1, <2>3, <4>1
    <3> QED
      BY <1>3, <3>1 DEF Alive
  <2>7. CASE first = NotAPid /\ pc' = pc /\ UNCHANGED status
    <3>1. Pending' = {}
      BY <1>1, <2>7 DEF Pending
    <3>2. Surveying => stable \subseteq counted \cup stream' \cup {p \in Pids : p > at'}
      BY <1>3, <2>1, <2>6, <2>7, PidFacts DEF Alive
    <3>3. counted \cap stream' = {}
      BY <2>1, <2>4
    <3> QED
      BY <1>1, <1>2, <1>3, <2>5, <2>7, <3>1, <3>2, <3>3 DEF Counts, Summed
  <2>8. CASE first # NotAPid /\ walk = "fd" /\ pc' = "opendir fd" /\ UNCHANGED status
    <3>1. Pending' = {}
      BY <2>8 DEF Pending
    <3>2. ~Surveying
      BY <2>8 DEF Surveying
    <3>3. counted \cap stream' = {}
      BY <2>1, <2>4
    <3> QED
      BY <1>1, <1>2, <1>3, <2>5, <2>8, <3>1, <3>2, <3>3 DEF Counts, Summed
  <2>9. CASE /\ first # NotAPid /\ walk # "fd" /\ pc' = "fopen"
             /\ status' = [status EXCEPT !.active = @ + 1]
    <3>0. PICK c : c = counted \cup {first}
      OBVIOUS
    <3>1. Surveying /\ Surveying'
      BY <1>1, <1>2, <2>9 DEF HandlesHeld
    <3>2. first \in seen' /\ first \in Nat
      BY <1>1, <2>3, <2>9, <3>1 DEF SurveyFrame
    <3>3. /\ first \notin counted /\ c \cap stream' = {}
          /\ first <= at'
      BY <3>0, <2>1, <2>3, <2>4
    <3>4. Pending' = {first} /\ ent'.pid = first
      BY <2>1, <2>9 DEF Pending
    <3>5. /\ Cardinality(counted) = status.active /\ status.active \in Nat
          /\ status'.active = status.active + 1 /\ status'.threads = status.threads
      BY <2>9 DEF Counts, SurveyFrame, NoStatus
    <3>6. Cardinality(c) = status'.active
      <4>1. IsFiniteSet(counted)
        BY <1>4, PidSets
      <4>2. first \notin counted
        BY <3>3
      <4>3. Cardinality(counted \cup {first}) = Cardinality(counted) + 1
        BY <4>1, <4>2, FS_AddElement
      <4> QED
        BY <3>0, <3>5, <4>3
    <3>7. Summed(c)' = Summed(counted)
      BY <3>0, <1>1, <1>3, <3>3, <3>4 DEF Summed
    <3>8. stable \subseteq c \cup stream' \cup {p \in Pids : p > at'}
      BY <3>0, <2>1, <2>6, <3>1
    <3>9. status'.threads >= SumFunctionOnSet(Threads', Summed(c)')
      BY <1>1, <1>3, <3>5, <3>7 DEF Counts
    <3>10. c \in SUBSET seen' /\ first \in c /\ \A p \in c : p <= at'
      BY <3>0, <1>1, <2>5, <3>2, <3>3
    <3>11. Counts(c)'
      BY <1>1, <2>9, <3>3, <3>4, <3>6, <3>8, <3>9, <3>10 DEF Counts
    <3> QED
      BY <3>10, <3>11
  <2> QED
    BY <2>2, <2>7, <2>8, <2>9
<1> QED
  BY <1>5, <1>6

\* The stat file of an entry adds its threads, or the entry is skipped.
LEMMA CountsOfStatFile ==
  ASSUME HandlesHeld, StreamInOrder, SurveyFrame,
         NEW counted \in SUBSET seen, Counts(counted), FOpen \/ FGets
  PROVE  Counts(counted)'
<1>1. /\ pc \in {"fopen", "fgets"} /\ pc' \in {"fgets", "readdir"}
      /\ UNCHANGED <<procs, walk, stream, at, stable, seen>>
  BY DEF FOpen, FGets, Skip, dirVars, Continue
<1>2. Surveying /\ Surveying' /\ Threads' = Threads
  BY <1>1 DEF FOpen, FGets, IterationLeaves, Surveying, HandlesHeld, Threads
<1>3. PICK T : T = Summed(counted)
  OBVIOUS
<1>4. /\ ent.pid \in Pids /\ ent.pid \in counted /\ Pending = {ent.pid}
      /\ T = ((stable \cap counted) \ {ent.pid}) \ skipped
      /\ stable \cap counted \subseteq Pids /\ T \subseteq Pids
  BY <1>1, <1>3 DEF Counts, StreamInOrder, Pending, SurveyFrame, Summed
<1>5. /\ status.threads \in Nat
      /\ status.threads >= SumFunctionOnSet(Threads, T)
      /\ SumFunctionOnSet(Threads, T) \in Nat
      /\ Cardinality(counted) = status.active
      /\ procs[ent.pid].threads \in Nat
  BY <1>3, <1>4, ThreadsSum DEF Counts, SurveyFrame, NoStatus
<1>6. CASE pc' = "fgets"
  <2>1. FOpen /\ UNCHANGED <<status, skipped>> /\ ent' = [ent EXCEPT !.alive = TRUE]
    BY <1>6 DEF FOpen, FGets, Skip, Continue
  <2>2. ent'.pid = ent.pid
    BY <2>1 DEF StreamInOrder
  <2>3. Pending' = Pending
    BY <1>4, <1>6, <2>2 DEF Pending
  <2> QED
    BY <1>1, <1>2, <1>4, <1>6, <2>1, <2>2, <2>3 DEF Counts, Summed
<1>7. CASE Skip /\ UNCHANGED status
  <2>1. pc' = "readdir" /\ skipped' = skipped \cup {ent.pid}
    BY <1>7 DEF Skip, Continue
  <2>2. Pending' = {}
    BY <2>1 DEF Pending
  <2>3. Summed(counted)' = T
    BY <1>1, <1>4, <2>1, <2>2 DEF Summed
  <2> QED
    BY <1>1, <1>2, <1>5, <1>7, <2>1, <2>3 DEF Counts
<1>8. CASE pc' = "readdir" /\ status' = CountState(procs[ent.pid]) /\ UNCHANGED skipped
  <2>1. PICK U : U = (stable \cap counted) \ skipped
    OBVIOUS
  <2>2. /\ status'.active = status.active
        /\ status'.threads = status.threads + procs[ent.pid].threads
    <3>1. DOMAIN status = DOMAIN NoStatus /\ status.active \in Nat
      BY DEF SurveyFrame, NoStatus
    <3> QED
      BY <1>8, <3>1 DEF CountState, NoStatus
  <2>3. Summed(counted)' = U
    <3>1. Pending' = {}
      BY <1>8 DEF Pending
    <3> QED
      BY <1>1, <1>8, <2>1, <3>1 DEF Summed
  <2>4. U \subseteq Pids /\ U \ {ent.pid} = T
    BY <1>4, <2>1
  <2>5. SumFunctionOnSet(Threads, U) \in Nat
    BY <2>4, ThreadsSum
  <2>6. SumFunctionOnSet(Threads, U) <= procs[ent.pid].threads + SumFunctionOnSet(Threads, T)
    <3>1. CASE ent.pid \in U
      <4>1. SumFunctionOnSet(Threads, U) =
              procs[ent.pid].threads + SumFunctionOnSet(Threads, U \ {ent.pid})
        BY <2>4, <3>1, ThreadsSum
      <4> QED
        BY <1>5, <2>4, <2>5, <4>1
    <3>2. CASE ent.pid \notin U
      <4>1. U = T
        BY <2>4, <3>2
      <4> QED
        BY <1>5, <4>1
    <3> QED
      BY <3>1, <3>2
  <2>7. status'.threads >= SumFunctionOnSet(Threads, U)
    BY <1>5, <2>2, <2>5, <2>6
  <2>8. status'.threads >= SumFunctionOnSet(Threads', Summed(counted)')
    BY <1>2, <2>3, <2>7
  <2>9. Cardinality(counted) = status'.active
    BY <1>5, <2>2
  <2> QED
    BY <1>1, <1>2, <1>8, <2>8, <2>9 DEF Counts
<1>9. \/ pc' = "fgets"
      \/ Skip /\ UNCHANGED status
      \/ pc' = "readdir" /\ status' = CountState(procs[ent.pid]) /\ UNCHANGED skipped
  BY DEF FOpen, FGets
<1> QED
  BY <1>6, <1>7, <1>8, <1>9

LEMMA SurveyNext ==
  HandlesHeld /\ StreamInOrder /\ SelfAhead /\ SurveyKept /\ [Next]_vars => SurveyKept'
<1> SUFFICES ASSUME HandlesHeld, StreamInOrder, SelfAhead, SurveyKept, [Next]_vars
             PROVE  SurveyKept'
  OBVIOUS
<1>1. SurveyFrame /\ SurveyFrame' /\ StreamInOrder'
  BY FrameNext, StreamNext, SurveyParts
<1>2. SUFFICES ASSUME pc' # "thrown"
               PROVE  \E c \in SUBSET seen' : Counts(c)'
  BY <1>1 DEF SurveyKept, SurveyFrame
<1>3. pc # "thrown"
  <2>1. pc = "thrown" => pc' = "thrown"
    BY DEF Next, Step, Fork, ChangeState, Reap, ReadHandleCount, OpenProc, Return, ReadDir,
           OpenFd, CountFd, FOpen, FGets, Skip, Throw, vars, callVars, dirVars
  <2> QED
    BY <1>2, <2>1
<1>4. PICK counted \in SUBSET seen : Counts(counted)
  BY <1>3 DEF SurveyKept
<1>5. CASE Fork \/ ChangeState \/ Reap
  BY <1>1, <1>4, <1>5, CountsOfHost
<1>6. CASE ReadHandleCount \/ OpenFd \/ CountFd \/ Return
  <2>1. /\ UNCHANGED <<procs, stream, at, status, stable, seen>>
        /\ pc' \notin {"fopen", "fgets"} /\ pc \notin {"fopen", "fgets"}
        /\ pc' \in {"return", "done"} => pc = "return"
    BY <1>6 DEF ReadHandleCount, OpenFd, CountFd, Return, Skip, dirVars, history, Continue
  <2>2. Surveying' => Surveying
    BY <1>6 DEF ReadHandleCount, OpenFd, CountFd, Return, dirVars, Surveying, HandlesHeld
  <2>3. Pending = {} /\ Pending' = {} /\ Threads' = Threads
    BY <2>1 DEF Pending, Threads
  <2>5. Summed(counted)' = Summed(counted)
    <3>1. CASE OpenFd
      <4>1. walk = "fd" /\ pc = "opendir fd"
        BY <3>1 DEF OpenFd, HandlesHeld
      <4>2. stable = {}
        BY <1>1, <4>1 DEF SurveyFrame, Surveying
      <4> QED
        BY <2>1, <4>2 DEF Summed
    <3>2. CASE ReadHandleCount \/ CountFd \/ Return
      <4>1. UNCHANGED skipped
        BY <3>2 DEF ReadHandleCount, CountFd, Return, history
      <4> QED
        BY <2>1, <2>3, <4>1 DEF Summed
    <3> QED
      BY <1>6, <3>1, <3>2
  <2>4. Counts(counted)'
    BY <1>4, <2>1, <2>2, <2>3, <2>5 DEF Counts
  <2> QED
    BY <1>4, <2>1, <2>4
<1>7. CASE OpenProc
  <2>1. /\ pc = "opendir" /\ pc' \in {"readdir", "return"} /\ open = {}
        /\ UNCHANGED <<procs, walk, status>>
    BY <1>7 DEF OpenProc, HandlesHeld
  <2>2. ~Surveying
    BY <2>1 DEF Surveying
  <2>3. seen = {} /\ stable = {} /\ status = NoStatus
    BY <1>1, <2>1, <2>2 DEF SurveyFrame
  <2>4. \/ stable' = {}
        \/ Surveying' /\ at' = 0 /\ stable' = Alive /\ pc' = "readdir"
    BY <1>7, <2>1, <2>3 DEF OpenProc, history, Surveying, HandlesHeld
  <2>5. Alive \subseteq Pids /\ status' = NoStatus /\ pc' \notin {"fopen", "fgets"}
    BY <2>1, <2>3 DEF Alive
  <2>6. Counts({})'
    <3>1. StreamInOrder'
      BY <1>1
    <3>2. \/ stable' = {}
          \/ Surveying' /\ at' = 0 /\ stable' \subseteq Pids /\ pc' = "readdir"
      BY <2>4, <2>5
    <3>3. (StreamInOrder /\ status = NoStatus /\ pc \notin {"fopen", "fgets"}
           /\ (stable = {} \/ (Surveying /\ at = 0 /\ stable \subseteq Pids /\ pc = "readdir"))
             => Counts({}))'
      BY CountsNone, PTL
    <3> QED
      BY <2>5, <3>1, <3>2, <3>3
  <2> QED
    BY <2>6
<1>8. CASE ReadDir
  BY <1>1, <1>4, <1>8, CountsOfReadDir
<1>9. CASE FOpen \/ FGets
  <2>1. UNCHANGED seen
    BY <1>9 DEF FOpen, FGets
  <2> QED
    BY <1>1, <1>4, <1>9, <2>1, CountsOfStatFile
<1>10. CASE Throw
  BY <1>2, <1>10 DEF Throw
<1>11. CASE UNCHANGED vars
  BY <1>4, <1>11 DEF vars, callVars, dirVars, history, Counts, Surveying, Pending, Summed, Threads
<1> QED
  BY <1>5, <1>6, <1>7, <1>8, <1>9, <1>10, <1>11 DEF Next, Step

\* All of the invariant together.
THEOREM Invariant == Spec => []IInv
<1>1. Init => IInv
  BY HandlesHeldInit, StreamInit, SelfAheadInit, SurveyInit DEF IInv
<1>2. IInv /\ [Next]_vars => IInv'
  BY HandlesHeldNext, StreamNext, SelfAheadNext, SurveyNext DEF IInv
<1> QED
  BY <1>1, <1>2, PTL DEF Spec

\* The fallback counts the handles of this process, so handle_count is greater
\* than 0 if /proc and its own directory in it can be opened
\* (os_info.cpp:60-105), at any position of this process among the others and
\* with any size of the directory stream.
THEOREM HandlesAreCounted == Spec => []HandlesCounted
<1>1. IInv => HandlesCounted
  BY DEF IInv, SelfAhead
<1> QED
  BY <1>1, Invariant, PTL

\* thread_count has the threads of every process that was there during the
\* whole walk and whose own record was not left out (os_info.cpp:107-180),
\* whoever else came and went and whatever files and records of others failed.
THEOREM StableThreadsAreCounted == Spec => []ThreadsOfStableCounted
<1>1. ASSUME IInv, pc = "done", seen # {}
      PROVE  info.thread_count >=
               SumFunctionOnSet([p \in Pids |-> procs[p].threads], stable \ skipped)
  <2>1. info.thread_count = status.threads
    BY <1>1 DEF IInv, SurveyKept
  <2>2. PICK counted \in SUBSET seen : Counts(counted)
    BY <1>1 DEF IInv, SurveyKept
  <2>3. Summed(counted) = stable \ skipped
    BY <1>1, <2>2 DEF Counts, Pending, Summed
  <2> QED
    BY <2>1, <2>2, <2>3 DEF Counts, Threads
<1>2. IInv => ThreadsOfStableCounted
  BY <1>1 DEF ThreadsOfStableCounted
<1> QED
  BY <1>2, Invariant, PTL
-----------------------------------------------------------------------------
(* The refinement. *)

\* The instance of the survey counts as this module does.
LEMMA SameCardinality == \A S : Processes!Cardinality(S) = Cardinality(S)
BY DEF Processes!Cardinality, Cardinality

\* What the invariant says of a call that returns.
LEMMA CountWithinBounds ==
  ASSUME IInv, pc = "return", walk = "stat", seen # {}
  PROVE  status.active \in Cardinality(stable)..Cardinality(seen)
<1>1. PICK counted \in SUBSET seen : Counts(counted)
  BY DEF IInv, SurveyKept
<1>2. /\ stable \subseteq counted /\ counted \subseteq seen /\ seen \subseteq Pids
      /\ Cardinality(counted) = status.active
  BY <1>1 DEF Counts, IInv, SurveyKept
<1>3. IsFiniteSet(seen) /\ IsFiniteSet(counted) /\ IsFiniteSet(stable)
  BY <1>2, PidSets
<1>4. Cardinality(stable) <= Cardinality(counted) /\ Cardinality(counted) <= Cardinality(seen)
  BY <1>2, <1>3, FS_Subset
<1>5. Cardinality(stable) \in Nat /\ Cardinality(counted) \in Nat /\ Cardinality(seen) \in Nat
  BY <1>3, FS_CardinalityType
<1> QED
  BY <1>2, <1>4, <1>5

\* Every step is one of the survey or changes nothing of it.
LEMMA SurveyStep == IInv /\ [Next]_vars => [Processes!Next]_(Processes!vars)
<1> SUFFICES ASSUME IInv, [Next]_vars
             PROVE  Processes!Next \/ UNCHANGED Processes!vars
  OBVIOUS
<1> USE DEF IInv
<1>1. /\ HandlesHeld /\ StreamInOrder /\ SelfAhead /\ SurveyFrame
  BY SurveyParts
<1>2. CASE Fork
  <2>1. PICK p \in Pids \ Alive, q \in Proc : procs' = [procs EXCEPT ![p] = q]
                               /\ seen' = IF Surveying THEN seen \cup {p} ELSE seen
    BY <1>2 DEF Fork
  <2>2. UNCHANGED <<pc, walk, open, info, stable>>
    BY <1>2 DEF Fork, callVars, dirVars
  <2>3. Alive' = Alive \cup {p}
    BY <1>1, <2>1, GoneIsNoProcess DEF Alive, StreamInOrder
  <2>4. Surveying' = Surveying /\ (Surveying => pc \notin {"done", "thrown"})
    BY <1>1, <2>2 DEF Surveying, HandlesHeld
  <2>5. SurveyStatus' = SurveyStatus /\ (SurveyStatus = "counting" <=> Surveying)
    <3>1. Surveying => seen # {} /\ seen' # {}
      BY <1>1, <2>1 DEF SurveyFrame
    <3>2. ~Surveying => seen' = seen
      BY <2>1
    <3> QED
      BY <2>2, <2>4, <3>1, <3>2 DEF SurveyStatus
  <2>6. Processes!Arrive(p)
    BY <2>1, <2>2, <2>3, <2>5 DEF Processes!Arrive
  <2> QED
    BY <2>1, <2>6 DEF Processes!Next
<1>3. CASE ChangeState
  <2>1. PICK p \in Alive, s \in States : procs' = [procs EXCEPT ![p].state = s]
    BY <1>3 DEF ChangeState
  <2>2. UNCHANGED <<pc, walk, open, info, stable, seen>>
    BY <1>3 DEF ChangeState, callVars, dirVars, history
  <2>3. Alive' = Alive
    <3>1. p \in Pids /\ procs[p] \in Proc
      BY <1>1, <2>1 DEF Alive, StreamInOrder
    <3>2. [procs[p] EXCEPT !.state = s] \in Proc
      BY <2>1, <3>1 DEF Proc
    <3> QED
      BY <1>1, <2>1, <3>1, <3>2, GoneIsNoProcess DEF Alive, StreamInOrder
  <2> QED
    BY <2>2, <2>3 DEF Processes!vars, SurveyStatus, Surveying
<1>4. CASE Reap
  <2>1. PICK p \in Alive \ {Self} :
          procs' = [procs EXCEPT ![p] = Gone] /\ stable' = stable \ {p}
    BY <1>4 DEF Reap
  <2>2. UNCHANGED <<pc, walk, open, info, seen>>
    BY <1>4 DEF Reap, callVars, dirVars
  <2>3. Alive' = Alive \ {p}
    BY <1>1, <2>1 DEF Alive, StreamInOrder
  <2>4. SurveyStatus' = SurveyStatus
    BY <2>2 DEF SurveyStatus, Surveying
  <2>5. p \in Pids /\ Processes!Leave(p)
    BY <2>1, <2>2, <2>3, <2>4 DEF Processes!Leave, Alive
  <2> QED
    BY <2>5 DEF Processes!Next
<1>5. CASE ReadHandleCount \/ ReadDir \/ OpenFd \/ CountFd \/ FOpen \/ FGets
  <2>1. /\ UNCHANGED <<procs, stable, seen>>
        /\ pc \notin {"done", "thrown"} /\ pc' \notin {"done", "thrown"}
    BY <1>5 DEF ReadHandleCount, ReadDir, OpenFd, CountFd, FOpen, FGets, Skip, dirVars, history,
                Continue
  <2>2. Surveying' = Surveying
    BY <1>1, <1>5 DEF ReadHandleCount, ReadDir, OpenFd, CountFd, FOpen, FGets, dirVars,
                      Surveying, IterationLeaves, HandlesHeld
  <2>3. info'.process_count = info.process_count
    <3>1. SurveyFrame'
      BY <1>1, FrameNext
    <3> QED
      BY <1>1, <2>1, <3>1 DEF SurveyFrame
  <2> QED
    BY <2>1, <2>2, <2>3 DEF Processes!vars, SurveyStatus, Alive
<1>6. CASE OpenProc
  <2>1. /\ pc = "opendir" /\ pc' \in {"readdir", "return"} /\ open = {}
        /\ UNCHANGED <<procs, walk, info>> /\ Alive' = Alive
    BY <1>1, <1>6 DEF OpenProc, HandlesHeld, Alive
  <2>2. ~Surveying /\ SurveyStatus = "waiting"
    BY <2>1 DEF Surveying, SurveyStatus
  <2>3. CASE walk = "stat" /\ open' = {"/proc"} /\ stable' = Alive /\ seen' = Alive
    <3>1. SurveyStatus' = "counting"
      BY <2>1, <2>3 DEF SurveyStatus, Surveying
    <3>2. Processes!Begin
      BY <2>1, <2>2, <2>3, <3>1 DEF Processes!Begin
    <3> QED
      BY <3>2 DEF Processes!Next
  <2>4. CASE (walk = "fd" \/ open' = {}) /\ UNCHANGED <<stable, seen>>
    <3>1. SurveyStatus' = "waiting"
      BY <2>1, <2>4 DEF SurveyStatus, Surveying
    <3> QED
      BY <2>1, <2>2, <2>4, <3>1 DEF Processes!vars
  <2> QED
    BY <1>1, <1>6, <2>1, <2>3, <2>4 DEF OpenProc, history, HandlesHeld
<1>7. CASE Return
  <2>1. pc = "return" /\ UNCHANGED <<procs, status, stable, seen>> /\ Alive' = Alive
    BY <1>7 DEF Return, history, Alive
  <2>2. CASE walk = "fd"
    <3>1. walk' = "stat" /\ pc' = "opendir" /\ open' = open \ {"/proc"} /\ UNCHANGED info
      BY <1>7, <2>2 DEF Return
    <3>2. SurveyStatus = "waiting" /\ SurveyStatus' = "waiting"
      BY <2>1, <2>2, <3>1 DEF SurveyStatus, Surveying
    <3> QED
      BY <2>1, <3>1, <3>2 DEF Processes!vars
  <2>3. CASE walk # "fd"
    <3>1. /\ walk = "stat" /\ pc' = "done"
          /\ info' = [info EXCEPT !.process_count = status.active,
                                  !.thread_count = status.threads]
      BY <1>1, <1>7, <2>3 DEF Return, HandlesHeld
    <3>2. info'.process_count = status.active /\ info.process_count = 0
      BY <1>1, <2>1, <3>1 DEF SelfAhead, SurveyFrame
    <3>3. CASE seen = {}
      <4>1. SurveyStatus \in {"waiting", "counting"} /\ SurveyStatus' = "failed"
        BY <2>1, <3>1, <3>3 DEF SurveyStatus
      <4>2. status.active = 0
        BY <1>1, <3>3 DEF SurveyFrame, NoStatus
      <4>3. Processes!Fail
        BY <2>1, <3>2, <4>1, <4>2 DEF Processes!Fail
      <4> QED
        BY <4>3 DEF Processes!Next
    <3>4. CASE seen # {}
      <4>1. SurveyStatus = "counting" /\ SurveyStatus' = "done"
        BY <1>1, <2>1, <3>1, <3>4 DEF SurveyStatus, SurveyFrame
      <4>2. info'.process_count \in Cardinality(stable)..Cardinality(seen)
        BY <2>1, <3>1, <3>2, <3>4, CountWithinBounds
      <4>3. Processes!Finish
        BY <2>1, <4>1, <4>2, SameCardinality DEF Processes!Finish
      <4> QED
        BY <4>3 DEF Processes!Next
    <3> QED
      BY <3>3, <3>4
  <2> QED
    BY <2>2, <2>3
<1>8. CASE Throw
  <2>1. /\ pc \notin {"done", "thrown"} /\ pc' = "thrown"
        /\ UNCHANGED <<procs, info, stable, seen>> /\ Alive' = Alive
    BY <1>8 DEF Throw, history, Alive
  <2>2. SurveyStatus \in {"waiting", "counting"} /\ SurveyStatus' = "failed"
    BY <2>1 DEF SurveyStatus
  <2>3. Processes!Fail
    BY <2>1, <2>2 DEF Processes!Fail
  <2> QED
    BY <2>3 DEF Processes!Next
<1>9. CASE UNCHANGED vars
  BY <1>9 DEF vars, callVars, dirVars, history, Processes!vars, SurveyStatus, Surveying, Alive
<1> QED
  BY <1>2, <1>3, <1>4, <1>5, <1>6, <1>7, <1>8, <1>9 DEF Next, Step

\* process_count is what a survey of a living host can promise
\* (os_info.cpp:107-180): no process that stayed is missed, no pid counted twice
\* and none that nobody had, however pids come, go and are used again.
THEOREM ProcessesAreSurveyed == Spec => ImplementsSurvey
<1>1. Init => Processes!Init
  BY DEF Init, Processes!Init, SurveyStatus, Surveying, Alive
<1> QED
  BY <1>1, SurveyStep, Invariant, PTL DEF Spec, ImplementsSurvey, Processes!Spec
=============================================================================
