--------------------------- MODULE Support_proofs ---------------------------
(***************************************************************************)
(* Proofs about what the readers and the table functions stand on: the     *)
(* cache of database instances (InstanceCache), for any number of          *)
(* databases and contexts, and the helpers (MCHelpers): the scope guards,  *)
(* for any number of functions and scopes, the string utilities, for any   *)
(* text, and the line of a process, for any comm and number of fields.     *)
(***************************************************************************)
EXTENDS InstanceCache, MCHelpers, OperatorLemmas

(* The cache of database instances. *)

LEMMA LoadOrderFacts ==
  /\ Len(LoadOrder) = 7
  /\ LoadOrder[1] = "put" /\ LoadOrder[7] = "description"
  /\ \A i \in 2..6 : LoadOrder[i] \in FunctionName
  /\ FunctionName = {LoadOrder[i] : i \in 2..6}
  /\ "put" \notin FunctionName /\ "description" \notin FunctionName
BY DEF LoadOrder, FunctionName

LEMMA TypeInit == Init => TypeOK
BY LoadOrderFacts DEF Init, TypeOK


\* The inductive invariant.  Neither part is inductive alone: what a lookup
\* returns has a type only because the reader's context is still open.
IInv == TypeOK /\ EntryBeforeFunctions

LEMMA InvInit == Init => IInv
<1> SUFFICES ASSUME Init
             PROVE  EntryBeforeFunctions
  BY TypeInit DEF IInv
<1>1. ASSUME NEW d \in Databases
      PROVE  {LoadOrder[i] : i \in 1..load[d] - 1} = {}
  <2>1. load[d] = 0
    BY DEF Init
  <2>2. 1..0 - 1 = {}
    OBVIOUS
  <2> QED
    BY <2>1, <2>2
<1> QED
  BY <1>1 DEF Init, EntryBeforeFunctions

LEMMA TypeNext == IInv /\ [Next]_vars => TypeOK'
<1> SUFFICES ASSUME IInv, [Next]_vars
             PROVE  TypeOK'
  OBVIOUS
<1>0. TypeOK
  BY DEF IInv
<1>1. ASSUME NEW d \in Databases, OpenDatabase(d) \/ CloseDatabase(d)
      PROVE  TypeOK'
  BY <1>0, <1>1 DEF OpenDatabase, CloseDatabase, TypeOK
<1>2. ASSUME NEW d \in Databases, BeginLoad(d) \/ LoadThrows(d)
      PROVE  TypeOK'
  BY <1>0, <1>2, LoadOrderFacts DEF BeginLoad, LoadThrows, TypeOK
<1>3. ASSUME NEW d \in Databases, LoadStep(d)
      PROVE  TypeOK'
  <2> DEFINE step == LoadOrder[load[d]]
  <2>1. cache' \in [Databases -> Databases \cup {None}]
    BY <1>0, <1>3 DEF LoadStep, AtLastStep, PutEntry, TypeOK
  <2>2. registered' \in [Databases -> SUBSET FunctionName]
    <3>1. registered' = [registered EXCEPT ![d] = @ \cup ({step} \cap FunctionName)]
      BY <1>3 DEF LoadStep, AtLastStep
    <3> HIDE DEF step
    <3> QED
      BY <1>0, <3>1 DEF TypeOK
  <2>3. /\ load' \in [Databases -> 0..Len(LoadOrder)]
        /\ loaded' \in [Databases -> BOOLEAN]
    <3>1. load[d] \in 1..7
      BY <1>0, <1>3, LoadOrderFacts DEF LoadStep, AtLastStep, TypeOK
    <3>2. CASE load[d] = 7
      <4>1. load' = [load EXCEPT ![d] = 0] /\ loaded' = [loaded EXCEPT ![d] = TRUE]
        BY <1>3, <3>2, LoadOrderFacts DEF LoadStep, AtLastStep
      <4> QED
        BY <1>0, <4>1, LoadOrderFacts DEF TypeOK
    <3>3. CASE load[d] # 7
      <4>1. load' = [load EXCEPT ![d] = load[d] + 1] /\ loaded' = loaded
        BY <1>3, <3>3, LoadOrderFacts DEF LoadStep, AtLastStep
      <4>2. load[d] + 1 \in 0..Len(LoadOrder)
        BY <3>1, <3>3, LoadOrderFacts
      <4> QED
        BY <1>0, <4>1, <4>2 DEF TypeOK
    <3> QED
      BY <3>2, <3>3
  <2> QED
    BY <1>0, <1>3, <2>1, <2>2, <2>3 DEF LoadStep, AtLastStep, TypeOK
<1>4. ASSUME NEW c \in Connections, NEW d \in Databases, Connect(c, d)
      PROVE  TypeOK'
  BY <1>0, <1>4 DEF Connect, TypeOK
<1>5. ASSUME NEW c \in Connections, Disconnect(c) \/ ReaderFails(c) \/ Log(c)
      PROVE  TypeOK'
  BY <1>0, <1>5 DEF Disconnect, ReaderFails, Log, TypeOK
<1>6. ASSUME NEW c \in Connections, LookUp(c)
      PROVE  TypeOK'
  <2>1. connected[c] \in Databases
    BY <1>0, <1>6 DEF LookUp, IInv, EntryBeforeFunctions, TypeOK
  <2> QED
    BY <1>0, <1>6, <2>1 DEF LookUp, TypeOK
<1>7. ASSUME NEW c \in Connections, Lock(c)
      PROVE  TypeOK'
  BY <1>0, <1>7 DEF Lock, TypeOK
<1>8. CASE UNCHANGED vars
  BY <1>0, <1>8 DEF vars, TypeOK
<1> QED
  BY <1>1, <1>2, <1>3, <1>4, <1>5, <1>6, <1>7, <1>8 DEF Next
-----------------------------------------------------------------------------
\* The two halves of EntryBeforeFunctions, for one database and one context.
DatabaseHolds(d) ==
  /\ cache[d] \in {d, None}
  /\ registered[d] # {} \/ load[d] > 1 => cache[d] = d
  /\ loaded[d] => load[d] = 0 /\ registered[d] = FunctionName
  /\ FunctionName \cap {LoadOrder[i] : i \in 1..load[d] - 1} \subseteq registered[d]

ContextHolds(c) ==
  /\ call[c] # "threw"
  /\ call[c] # "idle" => connected[c] # None /\ registered[connected[c]] # {}
  /\ found[c] = IF call[c] = "lock" THEN connected[c] ELSE None
  /\ logger[c] = IF call[c] = "log" THEN connected[c] ELSE None

LEMMA Parts ==
  EntryBeforeFunctions <=>
    (\A d \in Databases : DatabaseHolds(d)) /\ (\A c \in Connections : ContextHolds(c))
BY DEF EntryBeforeFunctions, DatabaseHolds, ContextHolds

\* Steps outside LoadInternal leave the databases' halves alone.
LEMMA DatabaseFrame ==
  ASSUME NEW d, DatabaseHolds(d), cache'[d] = cache[d], load'[d] = load[d],
         registered'[d] = registered[d], loaded'[d] = loaded[d]
  PROVE  DatabaseHolds(d)'
BY DEF DatabaseHolds

\* Steps outside c leave its half alone: functions are never unregistered.
LEMMA ContextFrame ==
  ASSUME NEW c, ContextHolds(c), connected'[c] = connected[c], call'[c] = call[c],
         found'[c] = found[c], logger'[c] = logger[c],
         registered[connected[c]] # {} => registered'[connected[c]] # {}
  PROVE  ContextHolds(c)'
BY DEF ContextHolds

\* One step of LoadInternal: the entry comes first, then one function each.
LEMMA LoadStepHolds ==
  ASSUME TypeOK, NEW d \in Databases, DatabaseHolds(d), LoadStep(d)
  PROVE  /\ DatabaseHolds(d)'
         /\ registered[d] \subseteq registered'[d]
         /\ \A e \in Databases \ {d} :
              /\ cache'[e] = cache[e] /\ load'[e] = load[e]
              /\ registered'[e] = registered[e] /\ loaded'[e] = loaded[e]
<1> DEFINE step == LoadOrder[load[d]]
           Done(n) == FunctionName \cap {LoadOrder[i] : i \in 1..n}
<1>1. load[d] \in 1..7 /\ load[d] \in Nat
  BY LoadOrderFacts DEF LoadStep, AtLastStep, TypeOK
<1>2. registered'[d] = registered[d] \cup ({step} \cap FunctionName)
  BY DEF LoadStep, AtLastStep, TypeOK
<1>3. cache'[d] = IF step = "put" THEN d ELSE cache[d]
  BY DEF LoadStep, AtLastStep, PutEntry, TypeOK
<1>4. /\ load'[d] = IF load[d] = 7 THEN 0 ELSE load[d] + 1
      /\ loaded'[d] = IF load[d] = 7 THEN TRUE ELSE loaded[d]
  <2>1. CASE load[d] = 7
    BY <2>1, LoadOrderFacts DEF LoadStep, AtLastStep, TypeOK
  <2>2. CASE load[d] # 7
    BY <2>2, LoadOrderFacts DEF LoadStep, AtLastStep, TypeOK
  <2> QED
    BY <2>1, <2>2
<1>5. \A e \in Databases \ {d} :
        /\ cache'[e] = cache[e] /\ load'[e] = load[e]
        /\ registered'[e] = registered[e] /\ loaded'[e] = loaded[e]
  <2>1. \A e \in Databases \ {d} : cache'[e] = cache[e] /\ registered'[e] = registered[e]
    BY DEF LoadStep, AtLastStep, PutEntry, TypeOK
  <2>2. \A e \in Databases \ {d} : load'[e] = load[e] /\ loaded'[e] = loaded[e]
    BY DEF LoadStep, AtLastStep, TypeOK
  <2> QED
    BY <2>1, <2>2
<1>6. Done(load[d]) \subseteq registered'[d]
  <2>1. Done(load[d] - 1) \subseteq registered[d]
    BY DEF DatabaseHolds
  <2>2. \A i \in 1..load[d] : i = load[d] \/ i \in 1..load[d] - 1
    BY <1>1
  <2>3. Done(load[d]) \subseteq Done(load[d] - 1) \cup ({step} \cap FunctionName)
    BY <2>2
  <2> HIDE DEF step, Done
  <2> QED
    BY <1>2, <2>1, <2>3
<1>7. cache'[d] = d
  <2>1. CASE load[d] = 1
    BY <1>3, <2>1, LoadOrderFacts
  <2>2. CASE load[d] > 1
    BY <1>3, <2>2 DEF DatabaseHolds
  <2> QED
    BY <1>1, <2>1, <2>2
<1>8. CASE load[d] = 7
  <2>1. FunctionName = Done(7)
    <3>1. \A i \in 2..6 : i \in 1..7
      OBVIOUS
    <3> QED
      BY <3>1, LoadOrderFacts
  <2>2. registered'[d] = FunctionName
    <3>1. registered[d] \subseteq FunctionName
      BY DEF TypeOK
    <3> HIDE DEF step, Done
    <3> QED
      BY <1>2, <1>6, <1>8, <2>1, <3>1
  <2>3. {LoadOrder[i] : i \in 1..0 - 1} = {}
    OBVIOUS
  <2>4. load'[d] = 0
    BY <1>4, <1>8
  <2>5. DatabaseHolds(d)'
    BY <1>7, <2>2, <2>3, <2>4 DEF DatabaseHolds
  <2> QED
    BY <1>2, <1>5, <2>5
<1>9. CASE load[d] # 7
  <2>1. load'[d] = load[d] + 1 /\ ~loaded'[d]
    <3>1. loaded[d] => load[d] = 0
      BY DEF DatabaseHolds
    <3> QED
      BY <1>1, <1>4, <1>9, <3>1
  <2>2. load'[d] - 1 = load[d]
    BY <1>1, <2>1
  <2>3. FunctionName \cap {LoadOrder[i] : i \in 1..load'[d] - 1} \subseteq registered'[d]
    BY <1>6, <2>2
  <2>4. DatabaseHolds(d)'
    BY <1>7, <2>1, <2>3 DEF DatabaseHolds
  <2> QED
    BY <1>2, <1>5, <2>4
<1> QED
  BY <1>8, <1>9

LEMMA HoldsNext == IInv /\ [Next]_vars => EntryBeforeFunctions'
<1> SUFFICES ASSUME IInv, [Next]_vars
             PROVE  /\ \A d \in Databases : DatabaseHolds(d)'
                    /\ \A c \in Connections : ContextHolds(c)'
  BY Parts DEF EntryBeforeFunctions, DatabaseHolds, ContextHolds
<1>0. /\ TypeOK
      /\ \A d \in Databases : DatabaseHolds(d)
      /\ \A c \in Connections : ContextHolds(c)
  BY Parts DEF IInv
<1>1. ASSUME UNCHANGED <<cache, load, registered, loaded>>
      PROVE  \A d \in Databases : DatabaseHolds(d)'
  BY <1>0, <1>1, DatabaseFrame
<1>2. ASSUME UNCHANGED <<connected, call, found, logger>>,
             \A d \in Databases : registered[d] \subseteq registered'[d]
      PROVE  \A c \in Connections : ContextHolds(c)'
  <2> SUFFICES ASSUME NEW c \in Connections
               PROVE  ContextHolds(c)'
    OBVIOUS
  <2>1. CASE connected[c] = None
    BY <1>0, <1>2, <2>1 DEF ContextHolds
  <2>2. CASE connected[c] \in Databases
    BY <1>0, <1>2, <2>2, ContextFrame
  <2> QED
    BY <1>0, <2>1, <2>2 DEF TypeOK
<1>3. ASSUME NEW d \in Databases, OpenDatabase(d) \/ CloseDatabase(d)
      PROVE  /\ \A e \in Databases : DatabaseHolds(e)'
             /\ \A c \in Connections : ContextHolds(c)'
  BY <1>1, <1>2, <1>3 DEF OpenDatabase, CloseDatabase
<1>4. ASSUME NEW d \in Databases, BeginLoad(d) \/ LoadThrows(d)
      PROVE  /\ \A e \in Databases : DatabaseHolds(e)'
             /\ \A c \in Connections : ContextHolds(c)'
  <2>1. /\ UNCHANGED <<handle, connected, cache, registered, loaded, call, found, logger>>
        /\ load'[d] \in {0, 1} /\ (load'[d] = 1 => ~loaded[d])
        /\ \A e \in Databases \ {d} : load'[e] = load[e]
    BY <1>0, <1>4 DEF BeginLoad, LoadThrows, TypeOK
  <2>2. {LoadOrder[i] : i \in 1..load'[d] - 1} = {}
    <3>1. 1..0 - 1 = {} /\ 1..1 - 1 = {}
      OBVIOUS
    <3> QED
      BY <2>1, <3>1
  <2>3. DatabaseHolds(d)'
    BY <1>0, <2>1, <2>2 DEF DatabaseHolds
  <2>4. \A e \in Databases \ {d} : DatabaseHolds(e)'
    BY <1>0, <2>1, DatabaseFrame
  <2> QED
    BY <1>2, <2>1, <2>3, <2>4
<1>5. ASSUME NEW d \in Databases, LoadStep(d)
      PROVE  /\ \A e \in Databases : DatabaseHolds(e)'
             /\ \A c \in Connections : ContextHolds(c)'
  <2>1. /\ DatabaseHolds(d)'
        /\ registered[d] \subseteq registered'[d]
        /\ \A e \in Databases \ {d} :
              /\ cache'[e] = cache[e] /\ load'[e] = load[e]
              /\ registered'[e] = registered[e] /\ loaded'[e] = loaded[e]
    BY <1>0, <1>5, LoadStepHolds
  <2>2. \A e \in Databases \ {d} : DatabaseHolds(e)'
    BY <1>0, <2>1, DatabaseFrame
  <2>3. \A e \in Databases : registered[e] \subseteq registered'[e]
    BY <2>1
  <2>4. UNCHANGED <<connected, call, found, logger>>
    BY <1>5 DEF LoadStep, AtLastStep
  <2> QED
    BY <1>2, <2>1, <2>2, <2>3, <2>4
<1>6. ASSUME NEW c \in Connections,
             \/ \E d \in Databases : Connect(c, d)
             \/ Disconnect(c) \/ ReaderFails(c) \/ LookUp(c) \/ Lock(c) \/ Log(c)
      PROVE  /\ \A e \in Databases : DatabaseHolds(e)'
             /\ \A b \in Connections : ContextHolds(b)'
  <2>1. UNCHANGED <<cache, load, registered, loaded>>
    BY <1>6 DEF Connect, Disconnect, ReaderFails, LookUp, Lock, Log
  <2>2. \A b \in Connections \ {c} :
          /\ connected'[b] = connected[b] /\ call'[b] = call[b]
          /\ found'[b] = found[b] /\ logger'[b] = logger[b]
    <3>1. ASSUME Lock(c)
          PROVE  \A b \in Connections \ {c} :
                   /\ connected'[b] = connected[b] /\ call'[b] = call[b]
                   /\ found'[b] = found[b] /\ logger'[b] = logger[b]
      BY <1>0, <3>1 DEF Lock, TypeOK
    <3> QED
      BY <1>0, <1>6, <3>1 DEF Connect, Disconnect, ReaderFails, LookUp, Log, TypeOK
  <2>3. \A b \in Connections \ {c} : ContextHolds(b)'
    BY <1>0, <2>1, <2>2, ContextFrame
  <2>4. ContextHolds(c)'
    <3>1. CASE \E d \in Databases : Connect(c, d)
      BY <1>0, <3>1 DEF Connect, ContextHolds, TypeOK
    <3>2. CASE Disconnect(c)
      BY <1>0, <3>2 DEF Disconnect, ContextHolds, TypeOK
    <3>3. CASE ReaderFails(c)
      BY <1>0, <3>3 DEF ReaderFails, ContextHolds, TypeOK
    <3>4. CASE LookUp(c)
      <4>1. connected[c] \in Databases /\ registered[connected[c]] # {}
        BY <1>0, <3>4 DEF LookUp, ContextHolds, TypeOK
      <4>2. cache[connected[c]] = connected[c] /\ connected[c] # None
        BY <1>0, <4>1, NoneAssumption DEF DatabaseHolds
      <4> QED
        BY <1>0, <3>4, <4>1, <4>2 DEF LookUp, ContextHolds, TypeOK
    <3>5. CASE Lock(c)
      <4>1. /\ found[c] = connected[c] /\ connected[c] \in Databases
            /\ registered[connected[c]] # {}
        BY <1>0, <3>5 DEF Lock, ContextHolds, TypeOK
      <4>2. Alive(found[c])
        BY <4>1 DEF Alive, StrongRefs
      <4> QED
        BY <1>0, <3>5, <4>1, <4>2 DEF Lock, ContextHolds, TypeOK
    <3>6. CASE Log(c)
      BY <1>0, <3>6 DEF Log, ContextHolds, TypeOK
    <3> QED
      BY <1>6, <3>1, <3>2, <3>3, <3>4, <3>5, <3>6
  <2> QED
    BY <1>1, <2>1, <2>3, <2>4
<1>7. CASE UNCHANGED vars
  BY <1>1, <1>2, <1>7 DEF vars
<1> QED
  BY <1>3, <1>4, <1>5, <1>6, <1>7 DEF Next

THEOREM Invariance == Spec => []IInv
<1>1. IInv /\ [Next]_vars => IInv'
  BY TypeNext, HoldsNext DEF IInv
<1> QED
  BY InvInit, <1>1, PTL DEF Spec

\* Every variable keeps its type.
THEOREM TypeCorrect == Spec => []TypeOK
<1>1. IInv => TypeOK
  BY DEF IInv
<1> QED
  BY <1>1, Invariance, PTL

\* An entry precedes every function it is looked up from.
THEOREM EntryComesFirst == Spec => []EntryBeforeFunctions
<1>1. IInv => EntryBeforeFunctions
  BY DEF IInv
<1> QED
  BY <1>1, Invariance, PTL

\* GetDbInstance throws neither of its exceptions, whatever is loaded, opened
\* or closed meanwhile, for any number of databases and connections.
THEOREM LookupsSucceed == Spec => []LookupNeverThrows
<1>1. IInv => LookupNeverThrows
  BY DEF IInv, EntryBeforeFunctions, LookupNeverThrows
<1> QED
  BY <1>1, Invariance, PTL

\* A reader logs to the database of its own query.
THEOREM LogsStayHome == Spec => []LogsToOwnDatabase
<1>1. IInv => LogsToOwnDatabase
  BY DEF IInv, EntryBeforeFunctions, LogsToOwnDatabase
<1> QED
  BY <1>1, Invariance, PTL

\* The cache owns no database: one without users is destroyed.
THEOREM CacheOwnsNothing == Spec => []NoLeak
<1>1. IInv => NoLeak
  <2> SUFFICES ASSUME IInv, NEW d \in Databases, handle[d] # "held", load[d] = 0,
                      \A c \in Connections : connected[c] # d
               PROVE  StrongRefs(d) = {}
    BY DEF NoLeak, Alive
  <2>1. \A c \in Connections : logger[c] # d
    BY NoneAssumption DEF IInv, EntryBeforeFunctions
  <2> QED
    BY <2>1 DEF StrongRefs
<1> QED
  BY <1>1, Invariance, PTL

\* A successful LOAD leaves no function out.
THEOREM LoadsAreComplete == Spec => []LoadedIsComplete
<1>1. IInv => LoadedIsComplete
  BY DEF IInv, EntryBeforeFunctions, LoadedIsComplete
<1> QED
  BY <1>1, Invariance, PTL
-----------------------------------------------------------------------------
(* The guards of the open scopes, and what is to be known of them. *)

GuardRecord == [id : 1..guards, calls : Seq(Nat)]

Open == UNION {{scopes[s][k] : k \in 1..Len(scopes[s])} : s \in 1..Len(scopes)}

\* What the variables are.
GuardTypes ==
  /\ guards \in Nat
  /\ functions \in Seq([guard : 1..guards, after : Nat])
  /\ scopes \in Seq(Seq(GuardRecord))
  /\ ran \in Seq(1..Len(functions))
  /\ exit \in {"none", "leaving", "unwinding", "terminated"}
  /\ exit \in {"leaving", "unwinding"} => scopes # <<>>

\* Later guards are further in, or behind in their scope.
GuardsInOrder ==
  \A s, t \in 1..Len(scopes) : \A k \in 1..Len(scopes[s]), l \in 1..Len(scopes[t]) :
    s < t \/ (s = t /\ k < l) => scopes[s][k].id < scopes[t][l].id

\* A guard calls its functions last registered first, and what an allocation
\* that failed has left behind them.
CallsFall ==
  \A g \in Open : \A i, j \in 1..Len(g.calls) : i < j => g.calls[j] < g.calls[i]

\* What a guard is to call was registered with it and has not run.
CallsWait ==
  \A g \in Open : \A i \in 1..Len(g.calls) : g.calls[i] # 0 =>
    /\ g.calls[i] \in 1..Len(functions)
    /\ functions[g.calls[i]].guard = g.id
    /\ \A n \in 1..Len(ran) : ran[n] # g.calls[i]

\* A function that has not run is to be called by its guard, or was lost when
\* the guard was emptied.
NoneForgotten ==
  \A f \in 1..Len(functions) :
    \/ \E n \in 1..Len(ran) : ran[n] = f
    \/ \E g \in Open : g.id = functions[f].guard /\ \E i \in 1..Len(g.calls) : g.calls[i] \in {f, 0}

RanOnce == \A i, j \in 1..Len(ran) : i # j => ran[i] # ran[j]

\* Of two functions that wait together, g is to run after f.
RunsAfter(of, g, f) ==
  \/ of[g].guard < of[f].guard
  \/ of[g].guard = of[f].guard /\ g < f

RanInOrder ==
  \A i, j \in 1..Len(ran) : i < j /\ functions[ran[j]].after < i => RunsAfter(functions, ran[j], ran[i])

\* What waits is to run after whatever has run while it waited.
WaitInOrder ==
  \A i \in 1..Len(ran) : \A g \in Open : \A c \in 1..Len(g.calls) :
    g.calls[c] # 0 /\ functions[g.calls[c]].after < i => RunsAfter(functions, g.calls[c], ran[i])

GuardInv ==
  /\ GuardTypes /\ GuardsInOrder /\ CallsFall /\ CallsWait /\ NoneForgotten
  /\ RanOnce /\ RanInOrder /\ WaitInOrder

LEMMA HistoryFacts ==
  ASSUME GuardTypes
  PROVE  /\ guards \in Nat
         /\ Len(functions) \in Nat
         /\ \A f \in 1..Len(functions) : functions[f].guard \in 1..guards /\ functions[f].after \in Nat
         /\ Len(ran) \in Nat
         /\ \A n \in 1..Len(ran) : ran[n] \in 1..Len(functions)
<1>1. Len(functions) \in Nat /\ \A f \in 1..Len(functions) : functions[f] \in [guard : 1..guards, after : Nat]
  BY ElementOfSeq, LenProperties DEF GuardTypes
<1>2. Len(ran) \in Nat /\ \A n \in 1..Len(ran) : ran[n] \in 1..Len(functions)
  BY ElementOfSeq, LenProperties DEF GuardTypes
<1> QED
  BY <1>1, <1>2 DEF GuardTypes

LEMMA ScopesFacts ==
  ASSUME GuardTypes
  PROVE  /\ Len(scopes) \in Nat
         /\ \A s \in 1..Len(scopes) :
              /\ scopes[s] \in Seq(GuardRecord) /\ Len(scopes[s]) \in Nat
              /\ \A k \in 1..Len(scopes[s]) : scopes[s][k] \in GuardRecord /\ scopes[s][k] \in Open
         /\ \A g \in Open : \E s \in 1..Len(scopes) : \E k \in 1..Len(scopes[s]) : g = scopes[s][k]
<1>1. ASSUME NEW s \in 1..Len(scopes)
      PROVE  /\ scopes[s] \in Seq(GuardRecord) /\ Len(scopes[s]) \in Nat
             /\ \A k \in 1..Len(scopes[s]) : scopes[s][k] \in GuardRecord
  <2>1. scopes[s] \in Seq(GuardRecord)
    BY <1>1, ElementOfSeq DEF GuardTypes
  <2> QED
    BY <2>1, ElementOfSeq, LenProperties
<1>2. Len(scopes) \in Nat
  BY LenProperties DEF GuardTypes
<1>3. \A s \in 1..Len(scopes) : \A k \in 1..Len(scopes[s]) : scopes[s][k] \in Open
  BY DEF Open
<1>4. \A g \in Open : \E s \in 1..Len(scopes) : \E k \in 1..Len(scopes[s]) : g = scopes[s][k]
  BY DEF Open
<1> QED
  BY <1>1, <1>2, <1>3, <1>4

LEMMA OpenFacts ==
  ASSUME GuardTypes, NEW g \in Open
  PROVE  /\ g \in GuardRecord /\ g.id \in 1..guards /\ g.calls \in Seq(Nat)
         /\ Len(g.calls) \in Nat
         /\ \A i \in 1..Len(g.calls) : g.calls[i] \in Nat
<1>1. g \in GuardRecord
  BY ScopesFacts
<1>2. g.id \in 1..guards /\ g.calls \in Seq(Nat)
  BY <1>1 DEF GuardRecord
<1> QED
  BY <1>1, <1>2, ElementOfSeq, LenProperties

\* A step that leaves the history alone, makes no guard and takes away only
\* guards with nothing to call.
LEMMA GuardsTakenAway ==
  ASSUME GuardInv, GuardTypes', GuardsInOrder', functions' = functions, ran' = ran,
         Open' \subseteq Open, \A g \in Open \ Open' : g.calls = <<>>
  PROVE  GuardInv'
<1>2. CallsFall'
  BY DEF GuardInv, CallsFall
<1>3. CallsWait'
  BY DEF GuardInv, CallsWait
<1>4. NoneForgotten'
  <2>1. \A g \in Open : g.calls = <<>> => ~ \E i \in 1..Len(g.calls) : TRUE
    OBVIOUS
  <2> QED
    BY <2>1 DEF GuardInv, NoneForgotten
<1>5. RanOnce' /\ RanInOrder'
  BY DEF GuardInv, RanOnce, RanInOrder, RunsAfter
<1>6. WaitInOrder'
  BY DEF GuardInv, WaitInOrder, RunsAfter
<1> QED
  BY <1>2, <1>3, <1>4, <1>5, <1>6 DEF GuardInv

LEMMA GuardsInit ==
  ASSUME Guards!Init
  PROVE  GuardInv
<1>0. /\ Len(<<<<>>>>) = 1 /\ <<<<>>>>[1] = <<>> /\ Len(<<>>) = 0
      /\ \A S : <<>> \in Seq(S) 
  OBVIOUS
<1>1. <<<<>>>> \in Seq(Seq(GuardRecord)) /\ <<<<>>>> # <<>>
  BY <1>0
<1>2. Len(scopes) = 1 /\ scopes[1] = <<>> /\ Len(scopes[1]) = 0 /\ Len(ran) = 0 /\ Len(functions) = 0
  BY <1>0 DEF Guards!Init
<1>3. GuardTypes
  BY <1>0, <1>1 DEF Guards!Init, GuardTypes
<1>4. Open = {}
  BY <1>2 DEF Open
<1> QED
  BY <1>2, <1>3, <1>4 DEF GuardInv, GuardsInOrder, CallsFall, CallsWait, NoneForgotten, RanOnce, RanInOrder, WaitInOrder

LEMMA IdsDiffer ==
  ASSUME GuardTypes, GuardsInOrder, NEW g \in Open, NEW h \in Open, g.id = h.id
  PROVE  g = h
<1>1. PICK s \in 1..Len(scopes) : \E k \in 1..Len(scopes[s]) : g = scopes[s][k]
  BY ScopesFacts
<1>2. PICK k \in 1..Len(scopes[s]) : g = scopes[s][k]
  BY <1>1
<1>3. PICK t \in 1..Len(scopes) : \E l \in 1..Len(scopes[t]) : h = scopes[t][l]
  BY ScopesFacts
<1>4. PICK l \in 1..Len(scopes[t]) : h = scopes[t][l]
  BY <1>3
<1>5. g.id \in Nat /\ h.id \in Nat
  BY OpenFacts, HistoryFacts
<1>6. ~(s < t \/ (s = t /\ k < l)) /\ ~(t < s \/ (t = s /\ l < k))
  BY <1>2, <1>4, <1>5 DEF GuardsInOrder
<1>7. s \in Nat /\ t \in Nat /\ k \in Nat /\ l \in Nat
  BY ScopesFacts
<1> QED
  BY <1>2, <1>4, <1>6, <1>7

\* The guard destroyed first is the one made last.
LEMMA LastHasLastId ==
  ASSUME GuardTypes, GuardsInOrder, scopes # <<>>, Last(scopes) # <<>>
  PROVE  /\ Len(scopes) \in 1..Len(scopes) /\ Len(Last(scopes)) \in 1..Len(scopes[Len(scopes)])
         /\ Last(scopes) = scopes[Len(scopes)]
         /\ Last(Last(scopes)) = scopes[Len(scopes)][Len(Last(scopes))]
         /\ Last(Last(scopes)) \in Open
         /\ \A h \in Open : h = Last(Last(scopes)) \/ h.id < Last(Last(scopes)).id
<1> DEFINE n == Len(scopes)
           m == Len(Last(scopes))
<1>1. n \in 1..n
  BY ScopesFacts, EmptySeq DEF GuardTypes
<1>2. Last(scopes) = scopes[n]
  BY DEF Last
<1>3. m \in 1..Len(scopes[n])
  BY <1>1, <1>2, ScopesFacts, EmptySeq
<1>4. Last(Last(scopes)) = scopes[n][m]
  BY <1>2 DEF Last
<1>5. scopes[n][m] \in Open
  BY <1>1, <1>3, ScopesFacts
<1>6. ASSUME NEW h \in Open
      PROVE  h = scopes[n][m] \/ h.id < scopes[n][m].id
  <2>1. PICK s \in 1..Len(scopes) : \E k \in 1..Len(scopes[s]) : h = scopes[s][k]
    BY ScopesFacts
  <2>2. PICK k \in 1..Len(scopes[s]) : h = scopes[s][k]
    BY <2>1
  <2>3. s < n \/ (s = n /\ k < m) \/ (s = n /\ k = m)
    BY <1>1, <1>2, <1>3, ScopesFacts
  <2>4. CASE s = n /\ k = m
    BY <2>2, <2>4
  <2>5. CASE s < n \/ (s = n /\ k < m)
    BY <2>2, <2>5, <1>1, <1>3 DEF GuardsInOrder
  <2> QED
    BY <2>3, <2>4, <2>5
<1> QED
  BY <1>1, <1>2, <1>3, <1>4, <1>5, <1>6

LEMMA ScopeReplaced ==
  ASSUME NEW R, scopes \in Seq(Seq(R)), NEW s \in 1..Len(scopes), NEW scope \in Seq(R),
         scopes' = [scopes EXCEPT ![s] = scope]
  PROVE  /\ scopes' \in Seq(Seq(R)) /\ Len(scopes') = Len(scopes)
         /\ \A t \in 1..Len(scopes) : scopes'[t] = IF t = s THEN scope ELSE scopes[t]
<1> DEFINE S == Seq(R)
<1>1. scopes \in Seq(S) /\ scope \in S
  OBVIOUS
<1> HIDE DEF S
<1>2. /\ scopes' \in Seq(S) /\ Len(scopes') = Len(scopes)
      /\ \A t \in 1..Len(scopes) : scopes'[t] = IF t = s THEN scope ELSE scopes[t]
  BY <1>1, ExceptSeq
<1> QED
  BY <1>2 DEF S

\* The guard g, the k-th of scope s, becomes h, with other functions to call.
Becomes(s, k, g, h) ==
  /\ s \in 1..Len(scopes) /\ k \in 1..Len(scopes[s]) /\ g = scopes[s][k]
  /\ h \in GuardRecord /\ h.id = g.id
  /\ scopes' = [scopes EXCEPT ![s][k].calls = h.calls]

LEMMA CallsReplaced ==
  ASSUME GuardTypes, GuardsInOrder, guards' = guards,
         NEW s, NEW k, NEW g, NEW h, Becomes(s, k, g, h)
  PROVE  /\ scopes' \in Seq(Seq(GuardRecord))' /\ scopes' # <<>>
         /\ GuardsInOrder'
         /\ Open' = (Open \ {g}) \cup {h}
<1>2. /\ s \in 1..Len(scopes) /\ k \in 1..Len(scopes[s]) /\ g = scopes[s][k]
      /\ h \in GuardRecord /\ h.id = g.id
  BY DEF Becomes
<1>1. g \in GuardRecord /\ scopes[s] \in Seq(GuardRecord) /\ scopes \in Seq(Seq(GuardRecord))
  BY <1>2, ScopesFacts DEF GuardTypes
<1>3. PICK scope : scope = [scopes[s] EXCEPT ![k] = h] /\ scopes' = [scopes EXCEPT ![s] = scope]
  <2>1. h = [scopes[s][k] EXCEPT !.calls = h.calls]
    BY <1>1, <1>2 DEF GuardRecord
  <2>2. scopes' = [scopes EXCEPT ![s] = [scopes[s] EXCEPT ![k] = h]]
    BY <2>1 DEF Becomes
  <2> QED
    BY <2>2
<1>4. /\ scope \in Seq(GuardRecord) /\ Len(scope) = Len(scopes[s])
      /\ \A l \in 1..Len(scope) : scope[l] = IF l = k THEN h ELSE scopes[s][l]
  BY <1>1, <1>2, <1>3, ExceptSeq
<1>5. /\ scopes' \in Seq(Seq(GuardRecord)) /\ Len(scopes') = Len(scopes)
      /\ \A t \in 1..Len(scopes) : scopes'[t] = IF t = s THEN scope ELSE scopes[t]
  BY <1>1, <1>2, <1>3, <1>4, ScopeReplaced
<1>6. scopes' \in Seq(Seq(GuardRecord))' /\ scopes' # <<>>
  <2>1. scopes' \in Seq(Seq(GuardRecord))'
    BY <1>5 DEF GuardRecord
  <2>2. Len(scopes') # 0
    BY <1>2, <1>5, ScopesFacts
  <2> QED
    BY <2>1, <2>2, EmptySeq
<1>7. \A t \in 1..Len(scopes) :
        /\ Len(scopes'[t]) = Len(scopes[t])
        /\ \A l \in 1..Len(scopes[t]) : scopes'[t][l] = IF t = s /\ l = k THEN h ELSE scopes[t][l]
  <2>1. ASSUME NEW t \in 1..Len(scopes), t = s
        PROVE  /\ Len(scopes'[t]) = Len(scopes[t])
               /\ \A l \in 1..Len(scopes[t]) : scopes'[t][l] = IF l = k THEN h ELSE scopes[t][l]
    <3>1. scopes'[t] = scope
      BY <2>1, <1>5
    <3> QED
      BY <3>1, <2>1, <1>2, <1>4
  <2>2. ASSUME NEW t \in 1..Len(scopes), t # s
        PROVE  scopes'[t] = scopes[t]
    BY <2>2, <1>5
  <2> QED
    BY <2>1, <2>2
<1>8. \A t \in 1..Len(scopes) : \A l \in 1..Len(scopes[t]) : scopes'[t][l].id = scopes[t][l].id
  BY <1>2, <1>7
<1>9. GuardsInOrder'
  BY <1>5, <1>7, <1>8 DEF GuardsInOrder
<1>10. \A t \in 1..Len(scopes) : \A l \in 1..Len(scopes[t]) : scopes[t][l] = g => t = s /\ l = k
  <2> SUFFICES ASSUME NEW t \in 1..Len(scopes), NEW l \in 1..Len(scopes[t]), scopes[t][l] = g
               PROVE  t = s /\ l = k
    OBVIOUS
  <2>1. scopes[t][l].id = g.id
    OBVIOUS
  <2>3. g.id \in Nat
    <3>1. g.id \in 1..guards
      BY <1>1 DEF GuardRecord
    <3> QED
      BY <3>1
  <2>2. ~(s < t \/ (s = t /\ k < l)) /\ ~(t < s \/ (t = s /\ l < k))
    BY <2>1, <2>3, <1>2 DEF GuardsInOrder
  <2>4. s \in Nat /\ t \in Nat /\ k \in Nat /\ l \in Nat
    BY <1>2, ScopesFacts
  <2> QED
    BY <2>2, <2>4
<1>11. Open' \subseteq (Open \ {g}) \cup {h}
  <2> SUFFICES ASSUME NEW x \in Open', x # h
               PROVE  x \in Open \ {g}
    OBVIOUS
  <2>1. PICK t \in 1..Len(scopes') : \E l \in 1..Len(scopes'[t]) : x = scopes'[t][l]
    BY DEF Open
  <2>2. PICK l \in 1..Len(scopes'[t]) : x = scopes'[t][l]
    BY <2>1
  <2>3. t \in 1..Len(scopes) /\ l \in 1..Len(scopes[t]) /\ ~(t = s /\ l = k) /\ x = scopes[t][l]
    BY <2>2, <1>5, <1>7
  <2> QED
    BY <2>3, <1>10, ScopesFacts
<1>12. (Open \ {g}) \cup {h} \subseteq Open'
  <2>1. h \in Open'
    <3>1. s \in 1..Len(scopes') /\ k \in 1..Len(scopes'[s]) /\ h = scopes'[s][k]
      BY <1>2, <1>5, <1>7
    <3> QED
      BY <3>1 DEF Open
  <2>2. ASSUME NEW x \in Open, x # g
        PROVE  x \in Open'
    <3>1. PICK t \in 1..Len(scopes) : \E l \in 1..Len(scopes[t]) : x = scopes[t][l]
      BY ScopesFacts
    <3>2. PICK l \in 1..Len(scopes[t]) : x = scopes[t][l]
      BY <3>1
    <3>3. t \in 1..Len(scopes') /\ l \in 1..Len(scopes'[t]) /\ x = scopes'[t][l]
      BY <3>2, <2>2, <1>2, <1>5, <1>7
    <3> QED
      BY <3>3 DEF Open
  <2> QED
    BY <2>1, <2>2
<1> QED
  BY <1>6, <1>9, <1>11, <1>12

\* The operators the model takes from the library.
LEMMA SameSequenceOperators ==
  /\ \A q : Guards!Last(q) = Last(q) /\ Guards!Front(q) = Front(q) /\ Guards!ToSet(q) = ToSet(q)
  /\ \A q, e : Guards!Contains(q, e) = Contains(q, e)
BY DEF Guards!Last, Last, Guards!Front, Front, Guards!ToSet, ToSet, Guards!Contains, Contains

LEMMA PlacesKept ==
  ASSUME GuardTypes, GuardsInOrder,
         \A s \in 1..Len(scopes') : \A k \in 1..Len(scopes'[s]) :
           s \in 1..Len(scopes) /\ k \in 1..Len(scopes[s]) /\ scopes'[s][k] = scopes[s][k]
  PROVE  GuardsInOrder' /\ Open' \subseteq Open
<1>1. GuardsInOrder'
  <2> SUFFICES ASSUME NEW s \in 1..Len(scopes'), NEW t \in 1..Len(scopes'),
                      NEW k \in 1..Len(scopes'[s]), NEW l \in 1..Len(scopes'[t]),
                      s < t \/ (s = t /\ k < l)
               PROVE  scopes'[s][k].id < scopes'[t][l].id
    BY DEF GuardsInOrder
  <2>1. s \in 1..Len(scopes) /\ k \in 1..Len(scopes[s]) /\ scopes'[s][k] = scopes[s][k]
    OBVIOUS
  <2>2. t \in 1..Len(scopes) /\ l \in 1..Len(scopes[t]) /\ scopes'[t][l] = scopes[t][l]
    OBVIOUS
  <2>3. scopes[s][k].id < scopes[t][l].id
    BY <2>1, <2>2 DEF GuardsInOrder
  <2> QED
    BY <2>1, <2>2, <2>3
<1>2. Open' \subseteq Open
  BY DEF Open
<1> QED
  BY <1>1, <1>2

LEMMA LeaveKeeps ==
  ASSUME GuardInv, Guards!Leave
  PROVE  GuardInv'
<1>1. UNCHANGED <<scopes, guards, functions, ran>>
  BY DEF Guards!Leave
<1>2. Open' = Open /\ GuardsInOrder'
  BY <1>1 DEF Open, GuardInv, GuardsInOrder
<1>3. GuardTypes'
  BY DEF Guards!Leave, GuardInv, GuardTypes, GuardRecord
<1> QED
  BY <1>1, <1>2, <1>3, GuardsTakenAway

LEMMA OpenScopeKeeps ==
  ASSUME GuardInv, Guards!OpenScope
  PROVE  GuardInv'
<1>0. GuardTypes /\ GuardsInOrder
  BY DEF GuardInv
<1>1. <<>> \in Seq(GuardRecord) /\ Len(<<>>) = 0
  OBVIOUS
<1>2. scopes' = Append(scopes, <<>>) /\ UNCHANGED <<exit, guards, functions, ran>>
  BY DEF Guards!OpenScope
<1>3. /\ scopes' \in Seq(Seq(GuardRecord)) /\ scopes' # <<>> /\ Len(scopes') = Len(scopes) + 1
      /\ \A s \in 1..Len(scopes) : scopes'[s] = scopes[s]
      /\ scopes'[Len(scopes) + 1] = <<>>
  <2> DEFINE S == Seq(GuardRecord)
  <2>1. scopes \in Seq(S) /\ <<>> \in S
    BY <1>0, <1>1 DEF GuardTypes
  <2> HIDE DEF S
  <2>2. /\ scopes' \in Seq(S) /\ scopes' # <<>> /\ Len(scopes') = Len(scopes) + 1
        /\ \A s \in 1..Len(scopes) : scopes'[s] = scopes[s]
        /\ scopes'[Len(scopes) + 1] = <<>>
    BY <1>2, <2>1, AppendProperties
  <2> QED
    BY <2>2 DEF S
<1>4. GuardTypes'
  BY <1>0, <1>2, <1>3 DEF GuardTypes, GuardRecord
<1>5. \A s \in 1..Len(scopes') : s \in 1..Len(scopes) \/ (s = Len(scopes) + 1 /\ Len(scopes'[s]) = 0)
  BY <1>0, <1>1, <1>3, ScopesFacts
<1>6. GuardsInOrder' /\ Open' \subseteq Open
  BY <1>0, <1>3, <1>5, PlacesKept
<1>7. Open \subseteq Open'
  <2>1. \A s \in 1..Len(scopes) : s \in 1..Len(scopes')
    BY <1>0, <1>3, ScopesFacts
  <2> QED
    BY <1>3, <2>1 DEF Open
<1> QED
  BY <1>2, <1>4, <1>6, <1>7, GuardsTakenAway

\* The part of a sequence before its last element.
LEMMA FrontOf ==
  ASSUME NEW S, NEW q \in Seq(S), q # <<>>
  PROVE  /\ Front(q) \in Seq(S) /\ Len(Front(q)) = Len(q) - 1
         /\ \A i \in 1..Len(Front(q)) : i \in 1..Len(q) /\ Front(q)[i] = q[i]
<1>1. Len(q) \in Nat \ {0} /\ \A i \in 1..Len(q) : q[i] \in S
  BY EmptySeq, ElementOfSeq
<1> DEFINE m == Len(q) - 1
<1>2. m \in Int /\ 1 \in Int /\ \A i \in 1..m : i \in 1..Len(q) /\ q[i] \in S
  BY <1>1
<1>3. /\ SubSeq(q, 1, m) \in Seq(S)
      /\ Len(SubSeq(q, 1, m)) = IF 1 <= m THEN m - 1 + 1 ELSE 0
      /\ \A i \in 1..m - 1 + 1 : SubSeq(q, 1, m)[i] = q[1 + i - 1]
  BY <1>2, SubSeqProperties
<1>4. Len(SubSeq(q, 1, m)) = m
  <2>1. m \in Nat
    BY <1>1
  <2>2. Len(SubSeq(q, 1, m)) = IF 1 <= m THEN m - 1 + 1 ELSE 0
    BY <1>3
  <2> DEFINE l == Len(SubSeq(q, 1, m))
  <2> HIDE DEF m, l
  <2>3. l = IF 1 <= m THEN m - 1 + 1 ELSE 0
    BY <2>2 DEF l
  <2>4. l = m
    BY <2>1, <2>3
  <2> QED
    BY <2>4 DEF l
<1>5. \A i \in 1..m : SubSeq(q, 1, m)[i] = q[i]
  BY <1>1, <1>3
<1> QED
  BY <1>2, <1>3, <1>4, <1>5 DEF Front

LEMMA GoneKeeps ==
  ASSUME GuardInv, Guards!Gone
  PROVE  GuardInv'
<1>0. GuardTypes /\ GuardsInOrder
  BY DEF GuardInv
<1>1. /\ scopes # <<>> /\ Last(scopes) = <<>> /\ scopes' = Front(scopes)
      /\ UNCHANGED <<guards, functions, ran>>
      /\ exit' \in {"none", "unwinding"} /\ (scopes' = <<>> => exit' = "none")
  <2>1. scopes' = Front(scopes) /\ Last(scopes) = <<>> /\ UNCHANGED <<guards, functions, ran>>
    BY SameSequenceOperators DEF Guards!Gone
  <2>2. scopes # <<>>
    BY <1>0 DEF Guards!Gone, GuardTypes
  <2>3. exit' \in {"none", "unwinding"} /\ (scopes' = <<>> => exit' = "none")
    BY DEF Guards!Gone
  <2> QED
    BY <2>1, <2>2, <2>3
<1>2. /\ scopes' \in Seq(Seq(GuardRecord)) /\ Len(scopes') = Len(scopes) - 1
      /\ \A s \in 1..Len(scopes') : s \in 1..Len(scopes) /\ scopes'[s] = scopes[s]
  <2> DEFINE S == Seq(GuardRecord)
  <2>1. scopes \in Seq(S)
    BY <1>0 DEF GuardTypes
  <2> HIDE DEF S
  <2>2. /\ scopes' \in Seq(S) /\ Len(scopes') = Len(scopes) - 1
        /\ \A s \in 1..Len(scopes') : s \in 1..Len(scopes) /\ scopes'[s] = scopes[s]
    BY <1>1, <2>1, FrontOf
  <2> QED
    BY <2>2 DEF S
<1>3. GuardTypes'
  BY <1>0, <1>1, <1>2 DEF GuardTypes, GuardRecord
<1>4. GuardsInOrder' /\ Open' \subseteq Open
  BY <1>0, <1>2, PlacesKept
<1>5. \A s \in 1..Len(scopes) : s \in 1..Len(scopes') \/ Len(scopes[s]) = 0
  <2>1. Len(scopes[Len(scopes)]) = 0
    BY <1>1 DEF Last
  <2> QED
    BY <1>0, <1>2, <2>1, ScopesFacts
<1>6. Open \subseteq Open'
  <2> SUFFICES ASSUME NEW g \in Open
               PROVE  g \in Open'
    OBVIOUS
  <2>1. PICK s \in 1..Len(scopes) : \E k \in 1..Len(scopes[s]) : g = scopes[s][k]
    BY <1>0, ScopesFacts
  <2>2. PICK k \in 1..Len(scopes[s]) : g = scopes[s][k]
    BY <2>1
  <2>3. s \in 1..Len(scopes')
    BY <1>0, <1>5, <2>2, ScopesFacts
  <2>4. k \in 1..Len(scopes'[s]) /\ g = scopes'[s][k]
    BY <1>2, <2>2, <2>3
  <2> QED
    BY <2>3, <2>4 DEF Open
<1> QED
  BY <1>1, <1>3, <1>4, <1>6, GuardsTakenAway

\* A guard is made: behind the others of the innermost scope.
LEMMA PlaceAppended ==
  ASSUME GuardTypes, scopes # <<>>, guards' = guards + 1,
         NEW g \in GuardRecord', g.id = guards', 
         NEW scope, scope = Append(scopes[Len(scopes)], g),
         scopes' = [scopes EXCEPT ![Len(scopes)] = scope]
  PROVE  /\ scopes' \in Seq(Seq(GuardRecord))' /\ scopes' # <<>>
         /\ Len(scopes') = Len(scopes)
         /\ \A t \in 1..Len(scopes) : \A l \in 1..Len(scopes'[t]) :
              \/ l \in 1..Len(scopes[t]) /\ scopes'[t][l] = scopes[t][l]
              \/ t = Len(scopes) /\ l = Len(scopes[Len(scopes)]) + 1 /\ scopes'[t][l] = g
         /\ \A t \in 1..Len(scopes) : \A l \in 1..Len(scopes[t]) :
              l \in 1..Len(scopes'[t]) /\ scopes'[t][l] = scopes[t][l]
         /\ \E l \in 1..Len(scopes'[Len(scopes)]) : scopes'[Len(scopes)][l] = g
<1> DEFINE n == Len(scopes)
           m == Len(scopes[n])
           R == GuardRecord'
<1>1. n \in 1..n /\ n \in Nat /\ m \in Nat
  BY ScopesFacts, EmptySeq DEF GuardTypes
<1>2. GuardRecord \subseteq R
  BY HistoryFacts DEF GuardRecord
<1>3. \A s \in 1..n : scopes[s] \in Seq(R)
  BY <1>2, ScopesFacts, SeqMonotonic
<1>4. scopes \in Seq(Seq(R))
  <2>1. Seq(GuardRecord) \subseteq Seq(R)
    BY <1>2, SeqMonotonic
  <2>2. scopes \in Seq(Seq(GuardRecord))
    BY DEF GuardTypes
  <2> DEFINE S == Seq(GuardRecord)
             T == Seq(R)
  <2>3. scopes \in Seq(S) /\ S \subseteq T
    BY <2>1, <2>2
  <2> HIDE DEF S, T
  <2>4. scopes \in Seq(T)
    BY <2>3, SeqMonotonic
  <2> QED
    BY <2>4 DEF T
<1> HIDE DEF R
<1>5. /\ scope \in Seq(R) /\ Len(scope) = m + 1
      /\ \A k \in 1..m : scope[k] = scopes[n][k]
      /\ scope[m + 1] = g
  <2>1. g \in R
    BY DEF R
  <2> QED
    BY <1>1, <1>3, <2>1, AppendProperties
<1>6. /\ scopes' \in Seq(Seq(R)) /\ Len(scopes') = n
      /\ \A t \in 1..n : scopes'[t] = IF t = n THEN scope ELSE scopes[t]
  BY <1>1, <1>4, <1>5, ScopeReplaced
<1>7. \A t \in 1..n : \A l \in 1..Len(scopes'[t]) :
        \/ l \in 1..Len(scopes[t]) /\ scopes'[t][l] = scopes[t][l]
        \/ t = n /\ l = m + 1 /\ scopes'[t][l] = g
  <2>1. ASSUME NEW l \in 1..Len(scope)
        PROVE  \/ l \in 1..m /\ scope[l] = scopes[n][l]
               \/ l = m + 1 /\ scope[l] = g
    BY <1>1, <1>5
  <2>2. scopes'[n] = scope /\ \A t \in 1..n : t # n => scopes'[t] = scopes[t]
    BY <1>1, <1>6
  <2> QED
    BY <2>1, <2>2
<1>8. \A t \in 1..n : \A l \in 1..Len(scopes[t]) :
        l \in 1..Len(scopes'[t]) /\ scopes'[t][l] = scopes[t][l]
  <2>1. \A l \in 1..m : l \in 1..Len(scope) /\ scope[l] = scopes[n][l]
    BY <1>1, <1>5
  <2>2. scopes'[n] = scope /\ \A t \in 1..n : t # n => scopes'[t] = scopes[t]
    BY <1>1, <1>6
  <2> QED
    BY <2>1, <2>2
<1>0. Len(scopes') = n
  BY <1>6
<1>11. \E l \in 1..Len(scopes'[n]) : scopes'[n][l] = g
  <2>1. m + 1 \in 1..Len(scopes'[n]) /\ scopes'[n][m + 1] = g
    BY <1>1, <1>5, <1>6
  <2> QED
    BY <2>1
<1>13. scopes' # <<>>
  <2>1. Len(scopes') # 0
    BY <1>0, <1>1
  <2> QED
    BY <2>1, EmptySeq
<1>14. scopes' \in Seq(Seq(GuardRecord))'
  BY <1>6 DEF R
<1> QED
  BY <1>0, <1>7, <1>8, <1>11, <1>13, <1>14

LEMMA GuardAppended ==
  ASSUME GuardTypes, GuardsInOrder, scopes # <<>>, guards' = guards + 1,
         NEW g, g.id = guards',
         Len(scopes') = Len(scopes),
         \A t \in 1..Len(scopes) : \A l \in 1..Len(scopes'[t]) :
           \/ l \in 1..Len(scopes[t]) /\ scopes'[t][l] = scopes[t][l]
           \/ t = Len(scopes) /\ l = Len(scopes[Len(scopes)]) + 1 /\ scopes'[t][l] = g,
         \A t \in 1..Len(scopes) : \A l \in 1..Len(scopes[t]) :
           l \in 1..Len(scopes'[t]) /\ scopes'[t][l] = scopes[t][l],
         \E l \in 1..Len(scopes'[Len(scopes)]) : scopes'[Len(scopes)][l] = g
  PROVE  GuardsInOrder' /\ Open' = Open \cup {g}
<1> DEFINE n == Len(scopes)
           m == Len(scopes[n])
<1>1. n \in 1..n /\ n \in Nat /\ m \in Nat
  BY ScopesFacts, EmptySeq DEF GuardTypes
<1>9. \A t \in 1..n : \A l \in 1..Len(scopes[t]) : scopes[t][l].id \in Nat /\ scopes[t][l].id < g.id
  <2> SUFFICES ASSUME NEW t \in 1..n, NEW l \in 1..Len(scopes[t])
               PROVE  scopes[t][l].id \in 1..guards
    BY HistoryFacts
  <2> QED
    BY ScopesFacts, OpenFacts
<1>10. GuardsInOrder'
  <2> SUFFICES ASSUME NEW s \in 1..n, NEW t \in 1..n,
                      NEW k \in 1..Len(scopes'[s]), NEW l \in 1..Len(scopes'[t]),
                      s < t \/ (s = t /\ k < l)
               PROVE  scopes'[s][k].id < scopes'[t][l].id
    BY DEF GuardsInOrder
  <2>1. CASE l \in 1..Len(scopes[t]) /\ scopes'[t][l] = scopes[t][l]
    <3>1. ~(s = n /\ k = m + 1)
      BY <1>1, <2>1, ScopesFacts
    <3>2. k \in 1..Len(scopes[s]) /\ scopes'[s][k] = scopes[s][k]
      BY <3>1
    <3> QED
      BY <2>1, <3>2 DEF GuardsInOrder
  <2>2. CASE t = n /\ l = m + 1 /\ scopes'[t][l] = g
    <3>1. ~(s = n /\ k = m + 1)
      BY <1>1, <2>2
    <3>2. k \in 1..Len(scopes[s]) /\ scopes'[s][k] = scopes[s][k]
      BY <3>1
    <3> QED
      BY <2>2, <3>2, <1>9
  <2> QED
    BY <2>1, <2>2
<1>11. Open' \subseteq Open \cup {g}
  <2> SUFFICES ASSUME NEW x \in Open'
               PROVE  x \in Open \cup {g}
    OBVIOUS
  <2>1. PICK t \in 1..n : \E l \in 1..Len(scopes'[t]) : x = scopes'[t][l]
    BY DEF Open
  <2> QED
    BY <2>1, ScopesFacts
<1>12. Open \cup {g} \subseteq Open'
  <2>1. ASSUME NEW x \in Open
        PROVE  x \in Open'
    <3>1. PICK t \in 1..n : \E l \in 1..Len(scopes[t]) : x = scopes[t][l]
      BY ScopesFacts
    <3>2. \E l \in 1..Len(scopes'[t]) : x = scopes'[t][l]
      BY <3>1
    <3> QED
      BY <3>2 DEF Open
  <2>2. g \in Open'
    BY <1>1 DEF Open
  <2> QED
    BY <2>1, <2>2
<1> QED
  BY <1>10, <1>11, <1>12

\* Another function is registered.
LEMMA FunctionRegistered ==
  ASSUME GuardTypes, NEW i, functions' = Append(functions, [guard |-> i, after |-> Len(ran)])
  PROVE  /\ Len(functions') = Len(functions) + 1
         /\ \A f \in 1..Len(functions) : f \in 1..Len(functions') /\ functions'[f] = functions[f]
         /\ Len(functions) + 1 \in 1..Len(functions')
         /\ functions'[Len(functions) + 1].guard = i
         /\ functions'[Len(functions) + 1].after = Len(ran)
         /\ \A f \in 1..Len(functions') : f \in 1..Len(functions) \/ f = Len(functions) + 1
<1> DEFINE r == [guard |-> i, after |-> Len(ran)]
<1>1. r.guard = i /\ r.after = Len(ran)
  OBVIOUS
<1> HIDE DEF r
<1>2. PICK S : functions \in Seq(S)
  BY DEF GuardTypes
<1>3. functions \in Seq(S \cup {r}) /\ Len(functions) \in Nat
  BY <1>2, SeqMonotonic
<1>4. functions' = Append(functions, r)
  BY DEF r
<1>5. /\ Len(functions') = Len(functions) + 1
      /\ \A f \in 1..Len(functions) : functions'[f] = functions[f]
      /\ functions'[Len(functions) + 1] = r
  BY <1>3, <1>4, AppendProperties
<1> QED
  BY <1>1, <1>3, <1>5

LEMMA GuardMade ==
  ASSUME GuardInv, GuardTypes', GuardsInOrder', ran' = ran,
         NEW g, g.calls = <<>>, functions' = functions, Open' = Open \cup {g}
  PROVE  GuardInv'
<1>1. Len(g.calls) = 0
  OBVIOUS
<1>2. \A i \in 1..Len(g.calls) : FALSE
  BY <1>1
<1>3. CallsFall'
  BY <1>2 DEF GuardInv, CallsFall
<1>4. CallsWait'
  BY <1>2 DEF GuardInv, CallsWait
<1>5. NoneForgotten'
  BY DEF GuardInv, NoneForgotten
<1>6. RanOnce' /\ RanInOrder'
  BY DEF GuardInv, RanOnce, RanInOrder, RunsAfter
<1>7. WaitInOrder'
  BY <1>2 DEF GuardInv, WaitInOrder, RunsAfter
<1> QED
  BY <1>3, <1>4, <1>5, <1>6, <1>7 DEF GuardInv

\* A function is registered with a guard that is made for it or has others:
\* rest is what was to be called with the guard's id before.
\* h has what the guards it takes the place of, none or one, were to call, and
\* another function before it.
CallsMore(old, h) ==
  /\ old \subseteq Open /\ \A g \in old : g.id = h.id
  /\ \A g, k \in old : g = k
  /\ h.calls \in Seq(Nat) /\ 1 \in 1..Len(h.calls)
  /\ \A c \in 1..Len(h.calls) :
       \/ c = 1 /\ h.calls[c] = Len(functions) + 1
       \/ c > 1 /\ \E g \in old : c - 1 \in 1..Len(g.calls) /\ h.calls[c] = g.calls[c - 1]
  /\ \A g \in old : \A c \in 1..Len(g.calls) :
       c + 1 \in 1..Len(h.calls) /\ h.calls[c + 1] = g.calls[c]

LEMMA FunctionAdded ==
  ASSUME GuardInv, GuardTypes', GuardsInOrder', ran' = ran, NEW i,
         functions' = Append(functions, [guard |-> i, after |-> Len(ran)]),
         NEW old, NEW h, h.id = i, CallsMore(old, h), Open' = (Open \ old) \cup {h}
  PROVE  GuardInv'
<1>   /\ old \subseteq Open /\ \A g \in old : g.id = i
      /\ \A g, k \in old : g = k
      /\ h.calls \in Seq(Nat) /\ 1 \in 1..Len(h.calls)
      /\ \A c \in 1..Len(h.calls) :
           \/ c = 1 /\ h.calls[c] = Len(functions) + 1
           \/ c > 1 /\ \E g \in old : c - 1 \in 1..Len(g.calls) /\ h.calls[c] = g.calls[c - 1]
      /\ \A g \in old : \A c \in 1..Len(g.calls) :
           c + 1 \in 1..Len(h.calls) /\ h.calls[c + 1] = g.calls[c]
  BY DEF CallsMore
<1>0. GuardTypes
  BY DEF GuardInv
<1> DEFINE new == Len(functions) + 1
<1>1. /\ Len(functions') = new /\ new \in 1..Len(functions')
      /\ \A f \in 1..Len(functions) : f \in 1..Len(functions') /\ functions'[f] = functions[f]
      /\ functions'[new].guard = i /\ functions'[new].after = Len(ran)
      /\ \A f \in 1..Len(functions') : f \in 1..Len(functions) \/ f = new
  BY <1>0, FunctionRegistered
<1>2. /\ Len(functions) \in Nat /\ Len(ran) \in Nat /\ new \in Nat /\ new # 0
      /\ \A n \in 1..Len(ran) : ran[n] \in 1..Len(functions) /\ ran[n] # new
      /\ \A f \in 1..Len(functions) : f # new /\ f < new
  BY <1>0, HistoryFacts
<1>3. \A f, g \in 1..Len(functions) : RunsAfter(functions', g, f) <=> RunsAfter(functions, g, f)
  BY <1>1 DEF RunsAfter
<1>4. h.calls[1] = new /\ \A c \in 1..Len(h.calls) : c > 1 => \E g \in old : c - 1 \in 1..Len(g.calls) /\ h.calls[c] = g.calls[c - 1]
  OBVIOUS
<1>5. \A g \in Open : \A c \in 1..Len(g.calls) : g.calls[c] \in Nat /\ g.calls[c] # new /\ g.calls[c] < new
  <2> SUFFICES ASSUME NEW g \in Open, NEW c \in 1..Len(g.calls)
               PROVE  g.calls[c] \in Nat /\ g.calls[c] # new /\ g.calls[c] < new
    OBVIOUS
  <2>1. g.calls[c] \in Nat
    BY <1>0, OpenFacts
  <2>2. g.calls[c] = 0 \/ g.calls[c] \in 1..Len(functions)
    BY DEF GuardInv, CallsWait
  <2> QED
    BY <1>2, <2>1, <2>2
<1>6. \A c \in 1..Len(h.calls) : c \in Nat /\ (c = 1 \/ c - 1 \in Nat)
  OBVIOUS
<1> HIDE DEF new
<1>7. CallsFall'
  <2> SUFFICES ASSUME NEW g \in Open', NEW a \in 1..Len(g.calls), NEW b \in 1..Len(g.calls), a < b
               PROVE  g.calls[b] < g.calls[a]
    BY DEF CallsFall
  <2>1. CASE g \in Open
    BY <2>1 DEF GuardInv, CallsFall
  <2>2. CASE g = h
    <3>1. b > 1
      BY <2>2, <1>6
    <3>2. PICK k \in old : b - 1 \in 1..Len(k.calls) /\ h.calls[b] = k.calls[b - 1]
      BY <2>2, <3>1, <1>4
    <3>3. CASE a = 1
      <4>1. k \in Open /\ k.calls[b - 1] < new
        BY <3>2, <1>5
      <4> QED
        BY <4>1, <3>2, <3>3, <2>2, <1>4
    <3>4. CASE a > 1
      <4>1. PICK l \in old : a - 1 \in 1..Len(l.calls) /\ h.calls[a] = l.calls[a - 1]
        BY <2>2, <3>4, <1>4
      <4>2. l = k /\ a - 1 < b - 1 /\ k \in Open
        BY <2>2, <1>6
      <4>3. CallsFall
        BY DEF GuardInv
      <4>4. k.calls[b - 1] < k.calls[a - 1]
        BY <3>2, <4>1, <4>2, <4>3 DEF CallsFall
      <4> QED
        BY <2>2, <3>2, <4>1, <4>2, <4>4
    <3> QED
      BY <2>2, <3>3, <3>4, <1>6
  <2> QED
    BY <2>1, <2>2
<1>8. CallsWait'
  <2> SUFFICES ASSUME NEW g \in Open', NEW c \in 1..Len(g.calls), g.calls[c] # 0
               PROVE  /\ g.calls[c] \in 1..Len(functions')
                      /\ functions'[g.calls[c]].guard = g.id
                      /\ \A n \in 1..Len(ran) : ran[n] # g.calls[c]
    BY DEF CallsWait
  <2>1. ASSUME NEW k \in Open, NEW d \in 1..Len(k.calls), k.calls[d] # 0
        PROVE  /\ k.calls[d] \in 1..Len(functions')
               /\ functions'[k.calls[d]].guard = k.id
               /\ \A n \in 1..Len(ran) : ran[n] # k.calls[d]
    BY <2>1, <1>1 DEF GuardInv, CallsWait
  <2>2. CASE g \in Open
    BY <2>1, <2>2
  <2>3. CASE g = h /\ c = 1
    BY <2>3, <1>1, <1>2, <1>4
  <2>4. CASE g = h /\ c > 1
    <3>1. PICK k \in old : c - 1 \in 1..Len(k.calls) /\ h.calls[c] = k.calls[c - 1]
      BY <2>4, <1>4
    <3> DEFINE d == c - 1
    <3>2. k \in Open /\ k.id = i /\ d \in 1..Len(k.calls) /\ k.calls[d] # 0 /\ g.calls[c] = k.calls[d] /\ g.id = i
      BY <2>4, <3>1
    <3> HIDE DEF d
    <3>3. /\ k.calls[d] \in 1..Len(functions')
          /\ functions'[k.calls[d]].guard = k.id
          /\ \A n \in 1..Len(ran) : ran[n] # k.calls[d]
      BY <2>1, <3>2
    <3> QED
      BY <3>2, <3>3
  <2> QED
    BY <2>2, <2>3, <2>4, <1>6
<1>9. NoneForgotten'
  <2> SUFFICES ASSUME NEW f \in 1..Len(functions'), ~ \E n \in 1..Len(ran) : ran[n] = f
               PROVE  \E g \in Open' : /\ g.id = functions'[f].guard
                                       /\ \E c \in 1..Len(g.calls) : g.calls[c] \in {f, 0}
    BY DEF NoneForgotten
  <2>1. CASE f = new
    BY <2>1, <1>1, <1>4
  <2>2. CASE f \in 1..Len(functions)
    <3>1. PICK g \in Open : g.id = functions[f].guard /\ \E c \in 1..Len(g.calls) : g.calls[c] \in {f, 0}
      BY <2>2 DEF GuardInv, NoneForgotten
    <3>2. functions'[f].guard = g.id
      BY <3>1, <2>2, <1>1
    <3>3. CASE g \in old
      <4>1. PICK c \in 1..Len(g.calls) : g.calls[c] \in {f, 0}
        BY <3>1
      <4>2. c + 1 \in 1..Len(h.calls) /\ h.calls[c + 1] \in {f, 0}
        BY <3>3, <4>1
      <4>3. h.id = functions'[f].guard /\ h \in Open'
        BY <3>2, <3>3
      <4> QED
        BY <4>2, <4>3
    <3>4. CASE g \notin old
      BY <3>1, <3>2, <3>4
    <3> QED
      BY <3>3, <3>4
  <2> QED
    BY <2>1, <2>2, <1>1
<1>10. RanOnce'
  <2>1. RanOnce
    BY DEF GuardInv
  <2> QED
    BY <2>1, Zenon DEF RanOnce
<1>11. RanInOrder'
  <2>1. RanInOrder
    BY DEF GuardInv
  <2> SUFFICES ASSUME NEW m \in 1..Len(ran), NEW n \in 1..Len(ran), m < n, functions'[ran[n]].after < m
               PROVE  RunsAfter(functions', ran[n], ran[m])
    BY DEF RanInOrder
  <2>2. ran[m] \in 1..Len(functions) /\ ran[n] \in 1..Len(functions)
    BY <1>2
  <2>3. functions'[ran[n]] = functions[ran[n]]
    BY <1>1, <2>2
  <2>4. RunsAfter(functions, ran[n], ran[m])
    BY <2>1, <2>3 DEF RanInOrder
  <2> QED
    BY <1>3, <2>2, <2>4
<1>12. WaitInOrder'
  <2> SUFFICES ASSUME NEW n \in 1..Len(ran), NEW g \in Open', NEW c \in 1..Len(g.calls),
                      g.calls[c] # 0, functions'[g.calls[c]].after < n
               PROVE  RunsAfter(functions', g.calls[c], ran[n])
    BY DEF WaitInOrder
  <2>1. ASSUME NEW k \in Open, NEW d \in 1..Len(k.calls), k.calls[d] # 0,
               functions'[k.calls[d]].after < n
        PROVE  RunsAfter(functions', k.calls[d], ran[n])
    <3>1. k.calls[d] \in 1..Len(functions)
      BY <2>1 DEF GuardInv, CallsWait
    <3>2. RunsAfter(functions, k.calls[d], ran[n])
      BY <2>1, <3>1, <1>1 DEF GuardInv, WaitInOrder
    <3> QED
      BY <3>1, <3>2, <1>2, <1>3
  <2>2. CASE g \in Open
    BY <2>1, <2>2
  <2>3. CASE g = h /\ c = 1
    <3>1. g.calls[c] = new
      BY <2>3, <1>4
    <3> DEFINE after == functions'[g.calls[c]].after
    <3>2. after = Len(ran) /\ after < n
      BY <3>1, <1>1
    <3> HIDE DEF after
    <3> QED
      BY <3>2, <1>2
  <2>4. CASE g = h /\ c > 1
    <3>1. PICK k \in old : c - 1 \in 1..Len(k.calls) /\ h.calls[c] = k.calls[c - 1]
      BY <2>4, <1>4
    <3> DEFINE d == c - 1
    <3>2. k \in Open /\ d \in 1..Len(k.calls) /\ g.calls[c] = k.calls[d]
      BY <2>4, <3>1
    <3> HIDE DEF d
    <3>3. k.calls[d] # 0 /\ functions'[k.calls[d]].after < n
      BY <3>2
    <3>4. RunsAfter(functions', k.calls[d], ran[n])
      BY <2>1, <3>2, <3>3
    <3> QED
      BY <3>2, <3>4
  <2> QED
    BY <2>2, <2>3, <2>4, <1>6
<1> QED
  BY <1>7, <1>8, <1>9, <1>10, <1>11, <1>12 DEF GuardInv

\* The allocation for another function fails: what the guard was to call is
\* lost, and it has an empty function.
LEMMA GuardEmptied ==
  ASSUME GuardInv, GuardTypes', GuardsInOrder', ran' = ran, functions' = functions,
         NEW g \in Open, NEW h, h.id = g.id, h.calls = << 0 >>,
         Open' = (Open \ {g}) \cup {h}
  PROVE  GuardInv'
<1>1. 1 \in 1..Len(h.calls) /\ \A c \in 1..Len(h.calls) : c = 1 /\ h.calls[c] = 0
  OBVIOUS
<1>2. CallsFall'
  <2>1. \A a, b \in 1..Len(h.calls) : ~(a < b)
    BY <1>1
  <2> QED
    BY <2>1 DEF GuardInv, CallsFall
<1>3. CallsWait'
  BY <1>1 DEF GuardInv, CallsWait
<1>4. NoneForgotten'
  <2> SUFFICES ASSUME NEW f \in 1..Len(functions), ~ \E n \in 1..Len(ran) : ran[n] = f
               PROVE  \E x \in Open' : /\ x.id = functions[f].guard
                                       /\ \E c \in 1..Len(x.calls) : x.calls[c] \in {f, 0}
    BY DEF NoneForgotten
  <2>1. PICK x \in Open : x.id = functions[f].guard /\ \E c \in 1..Len(x.calls) : x.calls[c] \in {f, 0}
    BY DEF GuardInv, NoneForgotten
  <2>2. CASE x = g
    BY <2>1, <2>2, <1>1
  <2>3. CASE x # g
    BY <2>1, <2>3
  <2> QED
    BY <2>2, <2>3
<1>5. RanOnce' /\ RanInOrder'
  BY DEF GuardInv, RanOnce, RanInOrder
<1>6. WaitInOrder'
  BY <1>1 DEF GuardInv, WaitInOrder
<1> QED
  BY <1>2, <1>3, <1>4, <1>5, <1>6 DEF GuardInv

\* The guard made last runs the first of its functions.
LEMMA FunctionRuns ==
  ASSUME GuardInv, GuardTypes', GuardsInOrder', functions' = functions,
         NEW g \in Open, \A x \in Open : x = g \/ x.id < g.id,
         g.calls # <<>>, Head(g.calls) # 0,
         NEW h, h.id = g.id, h.calls = Tail(g.calls),
         Open' = (Open \ {g}) \cup {h},
         ran' = Append(ran, Head(g.calls))
  PROVE  GuardInv'
<1>0. GuardTypes
  BY DEF GuardInv
<1> DEFINE f == g.calls[1]
           last == Len(ran) + 1
<1>1. /\ 1 \in 1..Len(g.calls) /\ Head(g.calls) = f /\ f # 0 /\ f \in Nat
      /\ \A c \in 1..Len(g.calls) : g.calls[c] \in Nat /\ c \in Nat
      /\ \A c \in 1..Len(h.calls) : c + 1 \in 1..Len(g.calls) /\ h.calls[c] = g.calls[c + 1]
      /\ \A c \in 1..Len(g.calls) : c = 1 \/ (c - 1 \in 1..Len(h.calls) /\ h.calls[c - 1] = g.calls[c])
  <2>1. g.calls \in Seq(Nat) /\ \A c \in 1..Len(g.calls) : g.calls[c] \in Nat
    BY <1>0, OpenFacts
  <2>2. Len(g.calls) \in Nat \ {0}
    BY <2>1, EmptySeq
  <2>3. Head(g.calls) = g.calls[1]
    BY <2>1
  <2>4. Len(h.calls) = Len(g.calls) - 1 /\ \A c \in 1..Len(g.calls) - 1 : h.calls[c] = g.calls[c + 1]
    BY <2>1, <2>2, HeadTailProperties
  <2>5. \A c \in 1..Len(g.calls) : c = 1 \/ c - 1 \in 1..Len(g.calls) - 1
    BY <2>2
  <2> QED
    BY <2>1, <2>2, <2>3, <2>4, <2>5
<1>2. /\ f \in 1..Len(functions) /\ functions[f].guard = g.id
      /\ \A n \in 1..Len(ran) : ran[n] # f
  BY <1>1 DEF GuardInv, CallsWait
<1>3. /\ Len(ran) \in Nat /\ \A n \in 1..Len(ran) : ran[n] \in 1..Len(functions)
      /\ Len(ran') = last /\ last \in 1..Len(ran')
      /\ \A n \in 1..Len(ran) : n \in 1..Len(ran') /\ ran'[n] = ran[n]
      /\ ran'[last] = f
      /\ \A n \in 1..Len(ran') : (n \in 1..Len(ran) \/ n = last) /\ ~(last < n)
  <2>1. ran \in Seq(1..Len(functions)) /\ ran' = Append(ran, f)
    BY <1>0, <1>1 DEF GuardTypes
  <2>2. /\ Len(ran') = Len(ran) + 1 /\ Len(ran) \in Nat
        /\ \A n \in 1..Len(ran) : ran'[n] = ran[n]
        /\ ran'[Len(ran) + 1] = f
    BY <2>1, <1>2, AppendProperties, LenProperties
  <2> QED
    BY <1>0, <2>2, HistoryFacts
<1>4. \A c \in 1..Len(h.calls) : h.calls[c] < f
  <2>1. \A c \in 1..Len(h.calls) : 1 < c + 1
    BY <1>1
  <2> QED
    BY <1>1, <2>1 DEF GuardInv, CallsFall
<1> HIDE DEF f, last
<1>5. CallsFall'
  <2> SUFFICES ASSUME NEW x \in Open', NEW a \in 1..Len(x.calls), NEW b \in 1..Len(x.calls), a < b
               PROVE  x.calls[b] < x.calls[a]
    BY DEF CallsFall
  <2>1. CASE x \in Open
    BY <2>1 DEF GuardInv, CallsFall
  <2>2. CASE x = h
    <3>1. a + 1 < b + 1
      OBVIOUS
    <3> QED
      BY <2>2, <3>1, <1>1 DEF GuardInv, CallsFall
  <2> QED
    BY <2>1, <2>2
\* What is still to be called was to be called before.
<1>6. \A x \in Open' : \A c \in 1..Len(x.calls) :
        \E y \in Open : \E d \in 1..Len(y.calls) :
          x.id = y.id /\ x.calls[c] = y.calls[d] /\ (y = g => d # 1)
  <2> SUFFICES ASSUME NEW x \in Open', NEW c \in 1..Len(x.calls)
               PROVE  \E y \in Open : \E d \in 1..Len(y.calls) :
                        x.id = y.id /\ x.calls[c] = y.calls[d] /\ (y = g => d # 1)
    OBVIOUS
  <2>1. CASE x \in Open /\ x # g
    BY <2>1
  <2>2. CASE x = h
    <3>1. c + 1 \in 1..Len(g.calls) /\ h.calls[c] = g.calls[c + 1] /\ c + 1 # 1
      <4>1. c \in 1..Len(h.calls)
        BY <2>2, Zenon
      <4>2. c + 1 \in 1..Len(g.calls) /\ h.calls[c] = g.calls[c + 1]
        BY <4>1, <1>1
      <4>3. \A n \in 1..Len(h.calls) : n + 1 # 1
        OBVIOUS
      <4> QED
        BY <4>1, <4>2, <4>3
    <3> QED
      BY <2>2, <3>1
  <2> QED
    BY <2>1, <2>2
<1>7. \A y \in Open : \A d \in 1..Len(y.calls) : y.calls[d] = f => y = g /\ d = 1
  <2> SUFFICES ASSUME NEW y \in Open, NEW d \in 1..Len(y.calls), y.calls[d] = f
               PROVE  y = g /\ d = 1
    OBVIOUS
  <2>1. functions[f].guard = y.id
    <3>1. y.calls[d] # 0
      BY <1>1
    <3>2. functions[y.calls[d]].guard = y.id
      BY <3>1 DEF GuardInv, CallsWait
    <3> QED
      BY <3>2
  <2>2. y = g
    BY <1>0, <1>2, <2>1, IdsDiffer DEF GuardInv
  <2>3. CASE d # 1
    <3>1. 1 < d
      BY <2>2, <2>3
    <3>2. g.calls[d] < g.calls[1]
      BY <1>1, <2>2, <3>1 DEF GuardInv, CallsFall
    <3> QED
      BY <1>1, <2>2, <3>2 DEF f
  <2> QED
    BY <2>2, <2>3
<1>8. CallsWait'
  <2> SUFFICES ASSUME NEW x \in Open', NEW c \in 1..Len(x.calls), x.calls[c] # 0
               PROVE  /\ x.calls[c] \in 1..Len(functions)
                      /\ functions[x.calls[c]].guard = x.id
                      /\ \A n \in 1..Len(ran') : ran'[n] # x.calls[c]
    BY DEF CallsWait
  <2>1. PICK y \in Open : \E d \in 1..Len(y.calls) :
               x.id = y.id /\ x.calls[c] = y.calls[d] /\ (y = g => d # 1)
    BY <1>6
  <2>2. PICK d \in 1..Len(y.calls) : x.id = y.id /\ x.calls[c] = y.calls[d] /\ (y = g => d # 1)
    BY <2>1
  <2>3. /\ y.calls[d] \in 1..Len(functions) /\ functions[y.calls[d]].guard = y.id
        /\ \A n \in 1..Len(ran) : ran[n] # y.calls[d]
    BY <2>2 DEF GuardInv, CallsWait
  <2>4. y.calls[d] # f
    BY <1>7, <2>2
  <2> QED
    BY <1>3, <2>2, <2>3, <2>4
<1>9. NoneForgotten'
  <2> SUFFICES ASSUME NEW k \in 1..Len(functions), ~ \E n \in 1..Len(ran') : ran'[n] = k
               PROVE  \E x \in Open' : /\ x.id = functions[k].guard
                                       /\ \E c \in 1..Len(x.calls) : x.calls[c] \in {k, 0}
    BY DEF NoneForgotten
  <2>1. k # f /\ ~ \E n \in 1..Len(ran) : ran[n] = k
    BY <1>3
  <2>2. PICK x \in Open : x.id = functions[k].guard /\ \E c \in 1..Len(x.calls) : x.calls[c] \in {k, 0}
    BY <2>1 DEF GuardInv, NoneForgotten
  <2>3. PICK c \in 1..Len(x.calls) : x.calls[c] \in {k, 0}
    BY <2>2
  <2>4. CASE x = g
    <3>1. c # 1
      BY <1>1, <2>1, <2>3, <2>4 DEF f
    <3>2. c - 1 \in 1..Len(h.calls) /\ h.calls[c - 1] \in {k, 0}
      BY <1>1, <2>3, <2>4, <3>1
    <3> QED
      BY <2>2, <2>4, <3>2
  <2>5. CASE x # g
    BY <2>2, <2>5
  <2> QED
    BY <2>4, <2>5
<1>10. RanOnce'
  BY <1>2, <1>3 DEF GuardInv, RanOnce
<1>11. RanInOrder'
  <2> SUFFICES ASSUME NEW i \in 1..Len(ran'), NEW j \in 1..Len(ran'), i < j,
                      functions[ran'[j]].after < i
               PROVE  RunsAfter(functions, ran'[j], ran'[i])
    BY DEF RanInOrder
  <2>1. i \in 1..Len(ran) /\ ran'[i] = ran[i]
    BY <1>3
  <2>2. CASE j \in 1..Len(ran)
    BY <1>3, <2>1, <2>2 DEF GuardInv, RanInOrder
  <2>3. CASE j = last
    <3>1. ran'[j] = f
      BY <1>3, <2>3
    <3>2. functions[g.calls[1]].after < i /\ g.calls[1] # 0
      BY <1>1, <3>1 DEF f
    <3>3. RunsAfter(functions, g.calls[1], ran[i])
      BY <1>1, <2>1, <3>2 DEF GuardInv, WaitInOrder
    <3> QED
      BY <2>1, <3>1, <3>3 DEF f
  <2> QED
    BY <1>3, <2>2, <2>3
<1>12. WaitInOrder'
  <2> SUFFICES ASSUME NEW i \in 1..Len(ran'), NEW x \in Open', NEW c \in 1..Len(x.calls),
                      x.calls[c] # 0, functions[x.calls[c]].after < i
               PROVE  RunsAfter(functions, x.calls[c], ran'[i])
    BY DEF WaitInOrder
  <2>1. PICK y \in Open : \E d \in 1..Len(y.calls) :
               x.id = y.id /\ x.calls[c] = y.calls[d] /\ (y = g => d # 1)
    BY <1>6
  <2>2. PICK d \in 1..Len(y.calls) : x.id = y.id /\ x.calls[c] = y.calls[d] /\ (y = g => d # 1)
    BY <2>1
  <2>3. CASE i \in 1..Len(ran)
    <3>1. RunsAfter(functions, y.calls[d], ran[i])
      BY <2>2, <2>3 DEF GuardInv, WaitInOrder
    <3> QED
      BY <1>3, <2>2, <2>3, <3>1
  <2>4. CASE i = last
    <3>1. functions[y.calls[d]].guard = y.id
      BY <2>2 DEF GuardInv, CallsWait
    <3>2. CASE y # g
      <4>1. functions[y.calls[d]].guard < functions[f].guard
        BY <1>2, <3>1, <3>2
      <4> QED
        BY <1>3, <2>2, <2>4, <4>1 DEF RunsAfter
    <3>3. CASE y = g
      <4>1. 1 < d
        BY <2>2, <3>3
      <4>2. g.calls[d] < g.calls[1]
        BY <1>1, <3>3, <4>1 DEF GuardInv, CallsFall
      <4>3. y.calls[d] < f /\ functions[y.calls[d]].guard = functions[f].guard
        BY <1>2, <3>1, <3>3, <4>2 DEF f
      <4> QED
        BY <1>3, <2>2, <2>4, <4>3 DEF RunsAfter
    <3> QED
      BY <3>2, <3>3
  <2> QED
    BY <1>3, <2>3, <2>4
<1> QED
  BY <1>5, <1>8, <1>9, <1>10, <1>11, <1>12 DEF GuardInv

LEMMA RegisteredTypes ==
  ASSUME GuardTypes, guards' \in Nat, guards <= guards', ran' = ran, NEW i \in 1..guards',
         functions' = Append(functions, [guard |-> i, after |-> Len(ran)])
  PROVE  /\ functions' \in Seq([guard : 1..guards', after : Nat])
         /\ ran' \in Seq(1..Len(functions'))
<1> DEFINE S == [guard : 1..guards', after : Nat]
           r == [guard |-> i, after |-> Len(ran)]
<1>1. r \in S
  BY HistoryFacts
<1>2. [guard : 1..guards, after : Nat] \subseteq S
  BY HistoryFacts
<1>3. functions \in Seq(S)
  BY <1>2, SeqMonotonic DEF GuardTypes
<1>4. functions' = Append(functions, r)
  OBVIOUS
<1> HIDE DEF S, r
<1>5. functions' \in Seq(S) /\ Len(functions') = Len(functions) + 1
  BY <1>1, <1>3, <1>4, AppendProperties
<1>6. 1..Len(functions) \subseteq 1..Len(functions')
  BY <1>5, HistoryFacts
<1>7. ran \in Seq(1..Len(functions'))
  BY <1>6, SeqMonotonic DEF GuardTypes
<1> QED
  BY <1>5, <1>7 DEF S

LEMMA GuardKeeps ==
  ASSUME GuardInv, Guards!Guard
  PROVE  GuardInv'
<1>0. GuardTypes /\ GuardsInOrder
  BY DEF GuardInv
<1>1. /\ scopes # <<>> /\ guards' = guards + 1 /\ exit' = exit /\ ran' = ran
  BY DEF Guards!Guard
<1>2. PICK func \in {<<>>, <<Len(functions) + 1>>} :
        /\ functions' = IF func = <<>> THEN functions ELSE Guards!Registered(guards')
        /\ scopes' = [scopes EXCEPT ![Len(scopes)] = Append(@, [id |-> guards', calls |-> func])]
  BY DEF Guards!Guard
<1> DEFINE g == [id |-> guards', calls |-> func]
           scope == Append(scopes[Len(scopes)], g)
<1>3. scopes' = [scopes EXCEPT ![Len(scopes)] = scope]
  BY <1>2
<1>4. g \in GuardRecord' /\ g.id = guards' /\ g.calls = func
  <2>1. guards' \in 1..guards' /\ guards \in Nat /\ Len(functions) + 1 \in Nat
    BY <1>0, <1>1, HistoryFacts
  <2>2. func \in Seq(Nat)
    <3>1. func = <<>> \/ func = <<Len(functions) + 1>>
      BY <1>2
    <3>2. <<>> \in Seq(Nat) /\ <<Len(functions) + 1>> \in Seq(Nat)
      BY <2>1
    <3> QED
      BY <3>1, <3>2, Zenon
  <2> QED
    BY <2>1, <2>2 DEF GuardRecord
<1> HIDE DEF g
<1>5. PICK sc : sc = scope
  OBVIOUS
<1>6. /\ scopes' \in Seq(Seq(GuardRecord))' /\ scopes' # <<>>
      /\ GuardsInOrder' /\ Open' = Open \cup {g}
  <2>1. scopes' = [scopes EXCEPT ![Len(scopes)] = sc] /\ sc = Append(scopes[Len(scopes)], g)
    BY <1>3, <1>5
  <2> HIDE DEF scope
  <2> QED
    BY <1>0, <1>1, <1>4, <2>1, PlaceAppended, GuardAppended
<1>7. CASE func = <<>>
  <2>1. functions' = functions
    BY <1>2, <1>7
  <2>2. functions' \in Seq([guard : 1..guards', after : Nat])
    <3>1. guards \in Nat /\ 1..guards \subseteq 1..guards'
      BY <1>0, <1>1, HistoryFacts
    <3>2. [guard : 1..guards, after : Nat] \subseteq [guard : 1..guards', after : Nat]
      BY <3>1
    <3> QED
      BY <1>0, <2>1, <3>2, SeqMonotonic DEF GuardTypes
  <2>3. GuardTypes'
    BY <1>0, <1>1, <1>6, <2>1, <2>2, HistoryFacts DEF GuardTypes
  <2> QED
    BY <1>1, <1>4, <1>6, <1>7, <2>1, <2>3, GuardMade
<1>8. CASE func # <<>>
  <2>1. func = <<Len(functions) + 1>> /\ functions' = Append(functions, [guard |-> guards', after |-> Len(ran)])
    BY <1>2, <1>8 DEF Guards!Registered
  <2>2. guards' \in Nat /\ guards <= guards' /\ guards' \in 1..guards'
    BY <1>0, <1>1, HistoryFacts
  <2>3. GuardTypes'
    BY <1>0, <1>1, <1>6, <2>1, <2>2, RegisteredTypes DEF GuardTypes
  <2>4. /\ 1 \in 1..Len(g.calls) /\ g.calls \in Seq(Nat)
        /\ \A c \in 1..Len(g.calls) : c = 1 /\ g.calls[c] = Len(functions) + 1
    BY <1>0, <1>4, <2>1, HistoryFacts
  <2>5. PICK old : old = {}
    OBVIOUS
  <2>6. /\ old \subseteq Open /\ \A x \in old : FALSE
        /\ Open' = (Open \ old) \cup {g}
    BY <1>6, <2>5
  <2>7. CallsMore(old, g)
    BY <2>4, <2>6 DEF CallsMore
  <2> QED
    BY <1>1, <1>4, <1>6, <2>1, <2>3, <2>6, <2>7, FunctionAdded
<1> QED
  BY <1>7, <1>8

LEMMA AddKeeps ==
  ASSUME GuardInv, Guards!Add
  PROVE  GuardInv'
<1>0. GuardTypes /\ GuardsInOrder
  BY DEF GuardInv
<1>1. guards' = guards /\ ran' = ran
  BY DEF Guards!Add
<1>2. PICK s \in 1..Len(scopes) : \E k \in 1..Len(scopes[s]) :
        \/ /\ scopes' = [scopes EXCEPT ![s][k].calls =
                           Guards!Calls(scopes[s][k].calls, Len(functions) + 1)]
           /\ functions' = Guards!Registered(scopes[s][k].id) /\ exit' = exit
        \/ /\ exit' = "unwinding"
           /\ scopes' = [scopes EXCEPT ![s][k].calls = <<Guards!Empty>>]
           /\ functions' = functions
  BY DEF Guards!Add
<1>3. PICK k \in 1..Len(scopes[s]) :
        \/ /\ scopes' = [scopes EXCEPT ![s][k].calls =
                           Guards!Calls(scopes[s][k].calls, Len(functions) + 1)]
           /\ functions' = Guards!Registered(scopes[s][k].id) /\ exit' = exit
        \/ /\ exit' = "unwinding"
           /\ scopes' = [scopes EXCEPT ![s][k].calls = <<Guards!Empty>>]
           /\ functions' = functions
  BY <1>2
<1>4. PICK g : g = scopes[s][k]
  OBVIOUS
<1>5. g \in Open /\ g \in GuardRecord /\ g.id \in 1..guards /\ g.calls \in Seq(Nat)
  BY <1>0, <1>4, ScopesFacts, OpenFacts
\* The guard with other functions, and the scopes with it.
<1> DEFINE With(calls) == [id |-> g.id, calls |-> calls]
<1>6. ASSUME NEW calls \in Seq(Nat), scopes' = [scopes EXCEPT ![s][k].calls = calls]
      PROVE  /\ scopes' \in Seq(Seq(GuardRecord))' /\ scopes' # <<>> /\ GuardsInOrder'
             /\ Open' = (Open \ {g}) \cup {With(calls)}
  <2>1. With(calls) \in GuardRecord /\ With(calls).id = g.id /\ With(calls).calls = calls
    BY <1>5 DEF GuardRecord
  <2> HIDE DEF With
  <2>2. Becomes(s, k, g, With(calls))
    BY <1>4, <1>6, <2>1 DEF Becomes
  <2> QED
    BY <1>0, <1>1, <2>2, CallsReplaced
<1>7. ASSUME scopes' = [scopes EXCEPT ![s][k].calls = Guards!Calls(scopes[s][k].calls, Len(functions) + 1)],
             functions' = Guards!Registered(scopes[s][k].id), exit' = exit
      PROVE  GuardInv'
  <2> DEFINE new == Len(functions) + 1
  <2>1. PICK calls : calls = <<new>> \o g.calls
    OBVIOUS
  <2>2. scopes' = [scopes EXCEPT ![s][k].calls = calls]
    BY <1>4, <1>7, <2>1 DEF Guards!Calls
  <2>3. /\ calls \in Seq(Nat) /\ Len(calls) = Len(g.calls) + 1 /\ Len(g.calls) \in Nat
        /\ calls[1] = new
        /\ \A c \in 1..Len(g.calls) : calls[c + 1] = g.calls[c]
    <3>1. new \in Nat
      BY <1>0, HistoryFacts
    <3> HIDE DEF new
    <3>2. <<new>> \in Seq(Nat) /\ Len(<<new>>) = 1 /\ <<new>>[1] = new
      BY <3>1
    <3>3. Len(g.calls) \in Nat
      BY <1>5
    <3>4. /\ calls \in Seq(Nat) /\ Len(calls) = 1 + Len(g.calls)
          /\ \A c \in 1..1 + Len(g.calls) : calls[c] = IF c <= 1 THEN <<new>>[c] ELSE g.calls[c - 1]
      BY <1>5, <2>1, <3>2, ConcatProperties
    <3>5. calls[1] = new
      <4>1. 1 \in 1..1 + Len(g.calls) /\ 1 <= 1
        BY <3>3
      <4> QED
        BY <3>2, <3>4, <4>1
    <3>6. ASSUME NEW c \in 1..Len(g.calls)
          PROVE  calls[c + 1] = g.calls[c]
      <4>1. c + 1 \in 1..1 + Len(g.calls) /\ ~(c + 1 <= 1) /\ (c + 1) - 1 = c
        BY <3>3
      <4> QED
        BY <3>4, <4>1
    <3>7. Len(calls) = Len(g.calls) + 1
      BY <3>3, <3>4
    <3> QED
      BY <3>3, <3>4, <3>5, <3>6, <3>7
  <2>4. PICK h : h = With(calls)
    OBVIOUS
  <2>5. h.id = g.id /\ h.calls = calls
    BY <2>4
  <2> HIDE DEF With
  <2>6. /\ scopes' \in Seq(Seq(GuardRecord))' /\ scopes' # <<>> /\ GuardsInOrder'
        /\ Open' = (Open \ {g}) \cup {h}
    BY <1>6, <2>2, <2>3, <2>4
  <2>7. functions' = Append(functions, [guard |-> g.id, after |-> Len(ran)])
    BY <1>4, <1>7 DEF Guards!Registered
  <2>8. GuardTypes'
    <3>1. guards' \in Nat /\ guards <= guards' /\ g.id \in 1..guards'
      BY <1>0, <1>1, <1>5, HistoryFacts
    <3>2. /\ functions' \in Seq([guard : 1..guards', after : Nat])
          /\ ran' \in Seq(1..Len(functions'))
      BY <1>0, <1>1, <2>7, <3>1, RegisteredTypes
    <3> QED
      BY <1>0, <1>7, <2>6, <3>1, <3>2 DEF GuardTypes
  <2>9. \A c \in 1..Len(h.calls) :
          \/ c = 1 /\ h.calls[c] = new
          \/ c > 1 /\ c - 1 \in 1..Len(g.calls) /\ h.calls[c] = g.calls[c - 1]
    <3> SUFFICES ASSUME NEW c \in 1..Len(calls), c # 1
                 PROVE  c > 1 /\ c - 1 \in 1..Len(g.calls) /\ calls[c] = g.calls[c - 1]
      BY <2>3, <2>5
    <3>1. c - 1 \in 1..Len(g.calls) /\ c > 1 /\ (c - 1) + 1 = c
      BY <2>3
    <3> QED
      BY <2>3, <3>1
  <2>10. \A c \in 1..Len(g.calls) : c + 1 \in 1..Len(h.calls) /\ h.calls[c + 1] = g.calls[c]
    BY <2>3, <2>5
  <2>11. PICK old : old = {g}
    OBVIOUS
  <2>12. /\ old \subseteq Open /\ Open' = (Open \ old) \cup {h}
         /\ h.calls \in Seq(Nat) /\ 1 \in 1..Len(h.calls)
         /\ \A x \in old : x.id = h.id /\ \A y \in old : x = y
    BY <1>5, <2>3, <2>5, <2>6, <2>11
  <2>13. \A c \in 1..Len(h.calls) :
          \/ c = 1 /\ h.calls[c] = Len(functions) + 1
          \/ c > 1 /\ \E x \in old : c - 1 \in 1..Len(x.calls) /\ h.calls[c] = x.calls[c - 1]
    BY <2>9, <2>11
  <2>14. \A x \in old : \A c \in 1..Len(x.calls) :
           c + 1 \in 1..Len(h.calls) /\ h.calls[c + 1] = x.calls[c]
    BY <2>10, <2>11
  <2>15. CallsMore(old, h)
    BY <2>12, <2>13, <2>14 DEF CallsMore
  <2> HIDE DEF new
  <2> QED
    BY <1>1, <2>5, <2>6, <2>7, <2>8, <2>12, <2>15, FunctionAdded
<1>8. ASSUME scopes' = [scopes EXCEPT ![s][k].calls = <<Guards!Empty>>],
             exit' = "unwinding", functions' = functions
      PROVE  GuardInv'
  <2>1. PICK h : h = With(<< 0 >>)
    OBVIOUS
  <2>2. h.id = g.id /\ h.calls = << 0 >>
    BY <2>1
  <2>3. scopes' = [scopes EXCEPT ![s][k].calls = << 0 >>] /\ <<0>> \in Seq(Nat)
    BY <1>8 DEF Guards!Empty
  <2> HIDE DEF With
  <2>4. /\ scopes' \in Seq(Seq(GuardRecord))' /\ scopes' # <<>> /\ GuardsInOrder'
        /\ Open' = (Open \ {g}) \cup {h}
    BY <1>6, <2>1, <2>3
  <2>5. GuardTypes'
    BY <1>0, <1>1, <1>8, <2>4 DEF GuardTypes
  <2> QED
    BY <1>1, <1>5, <1>8, <2>2, <2>4, <2>5, GuardEmptied
<1> QED
  BY <1>3, <1>7, <1>8

\* A guard of a scope after a step is open after it.
LEMMA StaysOpen ==
  ASSUME NEW s \in 1..Len(scopes'), NEW k \in 1..Len(scopes'[s])
  PROVE  scopes'[s][k] \in Open'
<1>1. scopes'[s][k] \in {scopes'[s][j] : j \in 1..Len(scopes'[s])}
  OBVIOUS
<1> QED
  BY <1>1 DEF Open

\* A guard with nothing to call is gone, the last of the last scope.
LEMMA GuardGone ==
  ASSUME GuardInv, UNCHANGED <<guards, functions, exit, ran>>,
         scopes # <<>>, Last(scopes) # <<>>, Last(Last(scopes)).calls = <<>>,
         NEW scope, scope = Front(Last(scopes)),
         NEW n, n = Len(scopes), scopes' = [scopes EXCEPT ![n] = scope]
  PROVE  GuardInv'
<1>0. GuardTypes /\ GuardsInOrder
  BY DEF GuardInv
<1>1. /\ n \in 1..Len(scopes) /\ Len(scopes[n]) \in 1..Len(scopes[n]) /\ Last(scopes) = scopes[n]
      /\ scopes[n][Len(scopes[n])].calls = <<>>
  BY <1>0, LastHasLastId
<1>2. scopes \in Seq(Seq(GuardRecord)) /\ scopes[n] \in Seq(GuardRecord) /\ scopes[n] # <<>>
  BY <1>0, <1>1, ScopesFacts DEF GuardTypes
<1>3. /\ scope \in Seq(GuardRecord) /\ Len(scope) = Len(scopes[n]) - 1
      /\ \A k \in 1..Len(scope) : k \in 1..Len(scopes[n]) /\ scope[k] = scopes[n][k]
  BY <1>1, <1>2, FrontOf
<1>4. /\ scopes' \in Seq(Seq(GuardRecord)) /\ Len(scopes') = Len(scopes)
      /\ \A s \in 1..Len(scopes) : scopes'[s] = IF s = n THEN scope ELSE scopes[s]
  BY <1>1, <1>2, <1>3, ScopeReplaced
<1>5. GuardTypes'
  <2>1. Len(scopes') # 0
    BY <1>0, <1>1, <1>4, ScopesFacts
  <2>2. scopes' # <<>>
    BY <2>1, EmptySeq
  <2> QED
    BY <1>0, <1>4, <2>2 DEF GuardTypes, GuardRecord
<1>6. \A s \in 1..Len(scopes') : \A k \in 1..Len(scopes'[s]) :
        s \in 1..Len(scopes) /\ k \in 1..Len(scopes[s]) /\ scopes'[s][k] = scopes[s][k]
  <2> SUFFICES ASSUME NEW s \in 1..Len(scopes'), NEW k \in 1..Len(scopes'[s])
               PROVE  s \in 1..Len(scopes) /\ k \in 1..Len(scopes[s]) /\ scopes'[s][k] = scopes[s][k]
    OBVIOUS
  <2>1. s \in 1..Len(scopes)
    BY <1>4
  <2>2. CASE s = n
    <3>1. scopes'[s] = scope
      BY <2>1, <2>2, <1>4
    <3> QED
      BY <2>1, <2>2, <3>1, <1>3
  <2>3. CASE s # n
    <3>1. scopes'[s] = scopes[s]
      BY <2>1, <2>3, <1>4
    <3> QED
      BY <2>1, <3>1
  <2> QED
    BY <2>2, <2>3
<1>7. GuardsInOrder' /\ Open' \subseteq Open
  BY <1>0, <1>6, PlacesKept
<1>8. \A s \in 1..Len(scopes) : \A k \in 1..Len(scopes[s]) :
        \/ s \in 1..Len(scopes') /\ k \in 1..Len(scopes'[s]) /\ scopes'[s][k] = scopes[s][k]
        \/ scopes[s][k].calls = <<>>
  <2> SUFFICES ASSUME NEW s \in 1..Len(scopes), NEW k \in 1..Len(scopes[s])
               PROVE  \/ k \in 1..Len(scopes'[s]) /\ scopes'[s][k] = scopes[s][k]
                      \/ scopes[s][k].calls = <<>>
    BY <1>4
  <2>1. CASE s # n
    BY <2>1, <1>4
  <2>2. CASE s = n
    <3>1. k \in 1..Len(scope) \/ k = Len(scopes[n])
      BY <2>2, <1>0, <1>1, <1>3, ScopesFacts
    <3> QED
      BY <2>2, <3>1, <1>1, <1>3, <1>4
  <2> QED
    BY <2>1, <2>2
<1>9. \A g \in Open \ Open' : g.calls = <<>>
  <2> SUFFICES ASSUME NEW g \in Open, g.calls # <<>>
               PROVE  g \in Open'
    OBVIOUS
  <2>1. PICK s \in 1..Len(scopes) : \E k \in 1..Len(scopes[s]) : g = scopes[s][k]
    BY <1>0, ScopesFacts
  <2>2. PICK k \in 1..Len(scopes[s]) : g = scopes[s][k]
    BY <2>1
  <2>3. s \in 1..Len(scopes') /\ k \in 1..Len(scopes'[s]) /\ g = scopes'[s][k]
    <3>1. scopes[s][k].calls # <<>>
      BY <2>2
    <3>2. s \in 1..Len(scopes') /\ k \in 1..Len(scopes'[s]) /\ scopes'[s][k] = scopes[s][k]
      BY <1>8, <3>1, Zenon
    <3> QED
      BY <2>2, <3>2
  <2>4. scopes'[s][k] \in Open'
    BY <2>3, StaysOpen
  <2> QED
    BY <2>3, <2>4
<1> QED
  BY <1>5, <1>7, <1>9, GuardsTakenAway

LEMMA DestroyKeeps ==
  ASSUME GuardInv, Guards!Destroy
  PROVE  GuardInv'
<1>0. GuardTypes /\ GuardsInOrder
  BY DEF GuardInv
<1>1. /\ exit \in {"leaving", "unwinding"} /\ scopes # <<>> /\ Last(scopes) # <<>>
      /\ UNCHANGED <<guards, functions>>
  BY <1>0, SameSequenceOperators DEF Guards!Destroy, GuardTypes
<1>2. PICK g : g = Last(Last(scopes))
  OBVIOUS
<1>3. PICK calls \in {g.calls} :
        CASE calls = <<>> ->
               scopes' = [scopes EXCEPT ![Len(scopes)] = Guards!Front(@)] /\ UNCHANGED <<exit, ran>>
          [] calls # <<>> /\ Head(calls) = Guards!Empty ->
               exit' = "terminated" /\ UNCHANGED <<scopes, ran>>
          [] OTHER ->
               /\ ran' = Append(ran, Head(calls)) /\ exit' \in {exit, "terminated"}
               /\ scopes' = [scopes EXCEPT ![Len(scopes)][Len(Guards!Last(scopes))].calls = Tail(@)]
  BY <1>2, SameSequenceOperators DEF Guards!Destroy
<1>4. PICK n, m : n = Len(scopes) /\ m = Len(Last(scopes))
  OBVIOUS
<1>5. /\ n \in 1..Len(scopes) /\ m \in 1..Len(scopes[n]) /\ g = scopes[n][m] /\ g \in Open
      /\ \A x \in Open : x = g \/ x.id < g.id
      /\ Last(scopes) = scopes[n]
  BY <1>0, <1>1, <1>2, <1>4, LastHasLastId
<1>6. CASE calls = <<>>
  <2>1. scopes' = [scopes EXCEPT ![n] = Guards!Front(scopes[n])] /\ UNCHANGED <<exit, ran>>
    BY <1>3, <1>4, <1>6
  <2>2. PICK scope : scope = Front(Last(scopes))
    OBVIOUS
  <2>3. scope = Guards!Front(scopes[n])
    BY <2>2, <1>5, SameSequenceOperators
  <2>4. scopes' = [scopes EXCEPT ![n] = scope]
    BY <2>1, <2>3
  <2>5. Last(Last(scopes)).calls = <<>>
    BY <1>2, <1>3, <1>6
  <2> QED
    BY <1>1, <1>4, <2>1, <2>2, <2>4, <2>5, GuardGone
<1>7. CASE calls # <<>> /\ Head(calls) = Guards!Empty
  <2>1. exit' = "terminated" /\ UNCHANGED <<scopes, ran>>
    BY <1>3, <1>7
  <2>2. Open' = Open /\ GuardsInOrder' /\ GuardTypes'
    BY <1>0, <1>1, <2>1 DEF Open, GuardsInOrder, GuardTypes, GuardRecord
  <2> QED
    BY <1>1, <2>1, <2>2, GuardsTakenAway
<1>8. CASE calls # <<>> /\ Head(calls) # Guards!Empty
  <2>1. /\ ran' = Append(ran, Head(calls)) /\ exit' \in {exit, "terminated"}
        /\ scopes' = [scopes EXCEPT ![n][Len(Guards!Last(scopes))].calls = Tail(@)]
    BY <1>3, <1>4, <1>8
  <2>2. Len(Guards!Last(scopes)) = m
    BY <1>4, SameSequenceOperators
  <2>3. g \in GuardRecord /\ g.calls \in Seq(Nat) /\ g.calls # <<>> /\ Head(g.calls) # 0 /\ g.calls = calls
    BY <1>0, <1>3, <1>5, <1>8, OpenFacts DEF Guards!Empty
  <2>4. PICK h : h = [id |-> g.id, calls |-> Tail(g.calls)]
    OBVIOUS
  <2>5. h \in GuardRecord /\ h.id = g.id /\ h.calls = Tail(g.calls)
    BY <2>3, <2>4, HeadTailProperties DEF GuardRecord
  <2>6. scopes' = [scopes EXCEPT ![n][m].calls = h.calls]
    BY <2>1, <2>2, <2>5, <1>5
  <2>7. Becomes(n, m, g, h)
    BY <1>5, <2>5, <2>6 DEF Becomes
  <2>8. /\ scopes' \in Seq(Seq(GuardRecord))' /\ scopes' # <<>> /\ GuardsInOrder'
        /\ Open' = (Open \ {g}) \cup {h}
    BY <1>0, <1>1, <2>7, CallsReplaced
  <2>9. ran' \in Seq(1..Len(functions))
    <3>1. Head(g.calls) \in 1..Len(functions)
      <4>1. Len(g.calls) # 0
        BY <2>3, EmptySeq
      <4>2. 1 \in 1..Len(g.calls) /\ Head(g.calls) = g.calls[1]
        BY <2>3, <4>1, LenProperties
      <4> QED
        BY <1>5, <2>3, <4>2 DEF GuardInv, CallsWait
    <3> DEFINE S == 1..Len(functions)
    <3>2. ran \in Seq(S) /\ ran' = Append(ran, Head(g.calls))
      BY <1>0, <2>1, <2>3 DEF GuardTypes
    <3> HIDE DEF S
    <3>3. Head(g.calls) \in S
      BY <3>1 DEF S
    <3>4. ran' \in Seq(S)
      BY <3>2, <3>3, AppendProperties
    <3> QED
      BY <3>4 DEF S
  <2>10. GuardTypes'
    BY <1>0, <1>1, <2>1, <2>8, <2>9 DEF GuardTypes
  <2> QED
    BY <1>1, <1>5, <2>1, <2>3, <2>5, <2>8, <2>10, FunctionRuns
<1> QED
  BY <1>6, <1>7, <1>8

\* The guards are the only helper that changes the guards.
GuardsInv == helper = "guards" => GuardInv

LEMMA GuardsStart ==
  HelpersInit => GuardsInv
BY GuardsInit DEF HelpersInit, GuardsInv

LEMMA GuardsStutter ==
  ASSUME GuardInv, UNCHANGED guardVars
  PROVE  GuardInv'
<1>1. UNCHANGED <<scopes, exit, guards, functions, ran>>
  BY DEF guardVars
<1>2. Open' = Open /\ GuardsInOrder' /\ GuardTypes'
  BY <1>1 DEF Open, GuardInv, GuardsInOrder, GuardTypes, GuardRecord
<1> QED
  BY <1>1, <1>2, GuardsTakenAway

LEMMA GuardsStep ==
  GuardsInv /\ [HelpersNext]_helperVars => GuardsInv'
<1> SUFFICES ASSUME GuardsInv, [HelpersNext]_helperVars, helper' = "guards"
             PROVE  GuardInv'
  BY DEF GuardsInv
<1>1. ASSUME helper = "guards"
      PROVE  GuardInv
  BY <1>1 DEF GuardsInv
<1>2. CASE UNCHANGED helperVars
  <2>1. UNCHANGED guardVars /\ helper = "guards"
    BY <1>2 DEF helperVars
  <2> QED
    BY <1>1, <2>1, GuardsStutter
<1>3. CASE NextLine
  BY <1>3 DEF NextLine
<1>4. CASE Grow
  BY <1>4 DEF Grow
<1>5. CASE NextGuards
  <2>1. GuardInv /\ Guards!Next
    BY <1>1, <1>5 DEF NextGuards
  <2> QED
    BY <2>1, OpenScopeKeeps, GuardKeeps, AddKeeps, LeaveKeeps, DestroyKeeps, GoneKeeps DEF Guards!Next
<1> QED
  BY <1>2, <1>3, <1>4, <1>5 DEF HelpersNext

LEMMA GuardsInvHolds ==
  HelpersSpec => []GuardsInv
<1>1. HelpersInit => GuardsInv
  BY GuardsStart
<1>2. GuardsInv /\ [HelpersNext]_helperVars => GuardsInv'
  BY GuardsStep
<1> QED
  BY <1>1, <1>2, PTL DEF HelpersSpec

\* However many scopes, guards and functions there are, and wherever one
\* throws: of two functions that wait together, the one registered later, with
\* a guard or a scope further in or with the same guard, runs first
\* (scope_guard.hpp:42).
THEOREM LaterFunctionsRunFirst ==
  HelpersSpec => []LaterRunsFirst
<1>1. GuardsInv => LaterRunsFirst
  <2> SUFFICES ASSUME GuardInv
               PROVE  Guards!LaterRunsFirst
    BY DEF GuardsInv, LaterRunsFirst
  <2> QED
    BY DEF GuardInv, RanInOrder, RunsAfter, Guards!LaterRunsFirst
<1> QED
  BY <1>1, GuardsInvHolds, PTL

\* No function runs twice, and one whose guard is gone has run, by whatever
\* way its scope was left: none is forgotten (scope_guard.hpp:1-2).
THEOREM FunctionsRunOnceAtExit ==
  HelpersSpec => []RunOnceAtExit
<1>1. GuardsInv => RunOnceAtExit
  <2> SUFFICES ASSUME GuardInv
               PROVE  Guards!RunOnceAtExit
    BY DEF GuardsInv, RunOnceAtExit
  <2> DEFINE Waiting == UNION {{guard.id : guard \in Guards!ToSet(scope)} : scope \in Guards!ToSet(scopes)}
  <2>0. GuardTypes
    BY DEF GuardInv
  <2>1. ASSUME NEW g \in Open
        PROVE  g.id \in Waiting
    <3>1. PICK s \in 1..Len(scopes) : \E k \in 1..Len(scopes[s]) : g = scopes[s][k]
      BY <2>0, ScopesFacts
    <3>2. PICK k \in 1..Len(scopes[s]) : g = scopes[s][k]
      BY <3>1
    <3>3. DOMAIN scopes = 1..Len(scopes) /\ DOMAIN scopes[s] = 1..Len(scopes[s])
      BY <2>0, ScopesFacts, LenProperties DEF GuardTypes
    <3>4. scopes[s] \in Guards!ToSet(scopes) /\ g \in Guards!ToSet(scopes[s])
      BY <3>2, <3>3 DEF Guards!ToSet
    <3> QED
      BY <3>4
  <2>2. ASSUME NEW f \in 1..Len(functions)
        PROVE  functions[f].guard \in Waiting \/ Guards!Contains(ran, f)
    <3>1. CASE \E n \in 1..Len(ran) : ran[n] = f
      BY <3>1 DEF Guards!Contains
    <3>2. CASE \E g \in Open : g.id = functions[f].guard
      BY <3>2, <2>1
    <3> QED
      BY <3>1, <3>2 DEF GuardInv, NoneForgotten
  <2>3. \A i, j \in 1..Len(ran) : i # j => ran[i] # ran[j]
    BY DEF GuardInv, RanOnce
  <2> HIDE DEF Waiting
  <2>4. /\ \A i, j \in 1..Len(ran) : i # j => ran[i] # ran[j]
        /\ \A f \in 1..Len(functions) : functions[f].guard \in Waiting \/ Guards!Contains(ran, f)
    BY <2>2, <2>3
  <2> QED
    BY <2>4 DEF Guards!RunOnceAtExit, Waiting
<1> QED
  BY <1>1, GuardsInvHolds, PTL
-----------------------------------------------------------------------------
(* The string utilities. *)

LEMMA SameUtilities ==
  /\ Strings!Blanks = Blanks /\ Strings!Quote = Quote
  /\ \A str : Strings!TrimString(str) = TrimString(str)
  /\ \A str : Strings!RemoveQuotes(str) = RemoveQuotes(str)
<1>1. Strings!Blanks = Blanks /\ Strings!Quote = Quote
  BY DEF Strings!Blanks, Blanks, Strings!Quote, Quote
<1>2. \A set : Strings!Min(set) = Min(set) /\ Strings!Max(set) = Max(set)
  BY DEF Strings!Min, Min, Strings!Max, Max
<1>3. \A str, start, end : Strings!Trimmed(str, start, end) = Trimmed(str, start, end)
  BY <1>2 DEF Strings!Trimmed, Trimmed, Strings!Substr, Substr
<1>4. \A str : Strings!TrimString(str) = TrimString(str)
  BY <1>1, <1>2, <1>3 DEF Strings!TrimString, TrimString
<1>5. \A str : Strings!LongEnough(str) <=> LongEnough(str)
  BY DEF Strings!LongEnough, LongEnough
<1>6. \A str : Strings!RemoveQuotes(str) = RemoveQuotes(str)
  BY <1>1, <1>4, <1>5 DEF Strings!RemoveQuotes, RemoveQuotes
<1> QED
  BY <1>1, <1>4, <1>6

LEMMA OneOrTwo ==
  ASSUME NEW S, NEW B, NEW a \in S \cap B, NEW b \in S \cap B
  PROVE  /\ <<a>> \in Seq(S) /\ \A k \in 1..Len(<<a>>) : <<a>>[k] \in B
         /\ <<a, b>> \in Seq(S) /\ \A k \in 1..Len(<<a, b>>) : <<a, b>>[k] \in B
OBVIOUS

\* The characters of a text.
TextChars == {"a", " ", "\t", "\n", Quote}

IsText == text \in Seq(TextChars)

LEMMA TextHolds ==
  HelpersSpec => []IsText
<1>1. HelpersInit => IsText
  <2>1. HelpersInit => text = <<>>
    BY DEF HelpersInit, Absent
  <2> QED
    BY <2>1, EmptySeq DEF IsText
<1>2. ASSUME IsText, [HelpersNext]_helperVars
      PROVE  IsText'
  <2>1. CASE UNCHANGED text
    BY <1>2, <2>1 DEF IsText
  <2>2. CASE Grow
    <3>1. PICK c \in TextChars : text' = Append(text, c)
      BY <2>2, SameUtilities DEF Grow, TextChars
    <3> HIDE DEF TextChars
    <3> QED
      BY <1>2, <3>1, AppendProperties DEF IsText
  <2> QED
    BY <1>2, <2>1, <2>2 DEF HelpersNext, NextLine, NextGuards, helperVars
<1> QED
  BY <1>1, <1>2, PTL DEF HelpersSpec

\* For a text of any length: what TrimString returns is what is left of the
\* text without the blanks before and after it, and it has none of them
\* (string_utils.cpp:5-12).
THEOREM TrimStringTrims ==
  HelpersSpec => []TrimsOnlyBlanks
<1>1. ASSUME IsText
      PROVE  TrimsOnlyBlanks
  <2> DEFINE trimmed == TrimString(text)
             Kept(k) == k + 1..k + Len(trimmed)
  <2>0. text \in Seq(TextChars) /\ Len(text) \in Nat /\ DOMAIN text = 1..Len(text)
    BY <1>1, LenProperties DEF IsText
  <2>1. /\ IsSolid(trimmed)
        /\ \E k \in 0..Len(text) - Len(trimmed) :
             /\ SubSeq(text, k + 1, k + Len(trimmed)) = trimmed
             /\ \A j \in 1..Len(text) \ Kept(k) : text[j] \in Blanks
    <3>1. CASE \A k \in 1..Len(text) : text[k] \in Blanks
      <4>1. trimmed = <<>> /\ Len(trimmed) = 0
        BY <2>0, <3>1, TrimBlanks
      <4>2. IsSolid(trimmed)
        BY <4>1 DEF IsSolid
      <4> HIDE DEF trimmed
      <4>3. 0 \in 0..Len(text) - Len(trimmed) /\ 0 + Len(trimmed) = 0 /\ 0 + 1 = 1
        BY <2>0, <4>1
      <4>4. SubSeq(text, 1, 0) = <<>>
        BY SubSeqEmpty
      <4> QED
        BY <3>1, <4>1, <4>2, <4>3, <4>4
    <3>2. CASE \E lo, hi : SolidPart(text, lo, hi)
      <4>1. PICK lo, hi : SolidPart(text, lo, hi)
        BY <3>2
      <4>2. trimmed = SubSeq(text, lo, hi)
        BY <2>0, <4>1, TrimIs
      <4>3. lo \in 1..Len(text) /\ hi \in lo..Len(text)
        BY <4>1 DEF SolidPart
      <4> HIDE DEF trimmed
      <4>4. /\ trimmed \in Seq(TextChars) /\ Len(trimmed) = hi - lo + 1
            /\ \A i \in 1..hi - lo + 1 : trimmed[i] = text[lo + i - 1]
        BY <2>0, <4>2, <4>3, PartOf
      <4>5. IsSolid(trimmed)
        <5>1. Len(trimmed) \in Nat /\ 1 \in 1..hi - lo + 1 /\ hi - lo + 1 \in 1..hi - lo + 1
          BY <2>0, <4>3, <4>4
        <5>2. lo + 1 - 1 = lo /\ lo + (hi - lo + 1) - 1 = hi
          BY <2>0, <4>3
        <5>3. trimmed[1] = text[lo] /\ trimmed[Len(trimmed)] = text[hi]
          BY <4>4, <5>1, <5>2
        <5>4. Head(trimmed) = trimmed[1] /\ Last(trimmed) = trimmed[Len(trimmed)]
          BY <4>4 DEF Last
        <5> QED
          BY <4>1, <5>3, <5>4, SameUtilities DEF SolidPart, IsSolid
      <4>6. PICK k : k = lo - 1
        OBVIOUS
      <4>7. k \in 0..Len(text) - Len(trimmed) /\ k + 1 = lo /\ k + Len(trimmed) = hi
        BY <2>0, <4>3, <4>4, <4>6
      <4>8. \A j \in 1..Len(text) \ Kept(k) : text[j] \in Blanks
        <5> SUFFICES ASSUME NEW j \in 1..Len(text), j \notin lo..hi
                     PROVE  text[j] \in Blanks
          BY <4>7
        <5>1. j < lo \/ j > hi
          BY <2>0, <4>3
        <5> QED
          BY <5>1, <4>1 DEF SolidPart
      <4> QED
        BY <4>2, <4>5, <4>7, <4>8
    <3> QED
      BY <2>0, <3>1, <3>2, BlankOrSolid
  <2> QED
    BY <2>0, <2>1, SameUtilities DEF TrimsOnlyBlanks
<1> QED
  BY <1>1, TextHolds, PTL

\* For a text of any length: RemoveQuotes gives back what is between quotes,
\* and takes nothing but blanks from a text that is not between two of them
\* (string_utils.cpp:14-20).
THEOREM RemoveQuotesUndoesQuoting ==
  HelpersSpec => []QuotesInPairs
<1>1. ASSUME IsText
      PROVE  QuotesInPairs
  <2>0. text \in Seq(TextChars) /\ Quote \in TextChars
    BY <1>1 DEF IsText, TextChars
  <2>1. ASSUME NEW pad \in {<<>>, <<" ">>, <<"\t", "\n">>}
        PROVE  RemoveQuotes(pad \o Quoted(text) \o pad) = text
    <3>1. pad \in Seq(TextChars) /\ \A k \in 1..Len(pad) : pad[k] \in Blanks
      <4>1. PICK b, c, d \in TextChars : b = " " /\ c = "\t" /\ d = "\n" /\ {b, c, d} \subseteq Blanks
        BY DEF TextChars, Blanks
      <4> HIDE DEF TextChars
      <4>2. pad = <<>> \/ pad = <<b>> \/ pad = <<c, d>>
        BY <4>1
      <4>3. <<>> \in Seq(TextChars) /\ Len(<<>>) = 0
        BY EmptySeq
      <4>4. b \in TextChars \cap Blanks /\ c \in TextChars \cap Blanks /\ d \in TextChars \cap Blanks
        BY <4>1
      <4>5. <<b>> \in Seq(TextChars) /\ \A k \in 1..Len(<<b>>) : <<b>>[k] \in Blanks
        BY <4>4, OneOrTwo
      <4>6. <<c, d>> \in Seq(TextChars) /\ \A k \in 1..Len(<<c, d>>) : <<c, d>>[k] \in Blanks
        BY <4>4, OneOrTwo
      <4>7. CASE pad = <<>>
        BY <4>3, <4>7
      <4>8. CASE pad = <<b>>
        BY <4>5, <4>8, Zenon
      <4>9. CASE pad = <<c, d>>
        BY <4>6, <4>9, Zenon
      <4> QED
        BY <4>2, <4>7, <4>8, <4>9
    <3>2. Quoted(text) \in Seq(TextChars) /\ Firm(Quoted(text))
      BY <2>0, QuotedIsFirm
    <3>3. TrimString(pad \o Quoted(text) \o pad) = Quoted(text)
      BY <3>1, <3>2, TrimPadded
    <3> QED
      BY <2>0, <3>3, RemovesAround, UnquoteQuoted
  <2> DEFINE solid == Strings!TrimString(text)
  <2>2. solid \in Seq(TextChars)
    <3>1. CASE \A k \in 1..Len(text) : text[k] \in Blanks
      <4>1. TrimString(text) = <<>>
        BY <2>0, <3>1, TrimBlanks
      <4> QED
        BY <4>1, SameUtilities, EmptySeq
    <3>2. CASE \E lo, hi : SolidPart(text, lo, hi)
      <4>1. PICK lo, hi : SolidPart(text, lo, hi)
        BY <3>2
      <4>2. solid = SubSeq(text, lo, hi)
        BY <2>0, <4>1, TrimIs, SameUtilities
      <4>3. lo \in 1..Len(text) /\ hi \in lo..Len(text)
        BY <4>1 DEF SolidPart
      <4> HIDE DEF solid
      <4> QED
        BY <2>0, <4>2, <4>3, PartOf
    <3> QED
      BY <2>0, <3>1, <3>2, BlankOrSolid
  <2>3. ASSUME \A i, j \in 1..Len(solid) : solid # Quoted(SubSeq(solid, i, j))
        PROVE  RemoveQuotes(text) = solid
    <3>1. RemoveQuotes(text) = Unquoted(solid)
      BY RemovesAround, SameUtilities
    <3> HIDE DEF solid
    <3>2. ASSUME Unquoted(solid) # solid
          PROVE  FALSE
      <4>1. /\ Len(solid) \in Nat /\ Len(solid) >= 2
            /\ solid = Quoted(SubSeq(solid, 2, Len(solid) - 1))
        BY <2>2, <3>2, QuotedOrAsItWas
      <4>2. 2 \in 1..Len(solid) /\ Len(solid) - 1 \in 1..Len(solid)
        BY <4>1
      <4> QED
        BY <2>3, <4>1, <4>2
    <3> QED
      BY <3>1, <3>2
  <2>4. \A str : Quoted(str) = <<Strings!Quote>> \o str \o <<Strings!Quote>>
    BY SameUtilities DEF Quoted
  <2>5. \A pad \in {<<>>, <<" ">>, <<"\t", "\n">>} :
          Strings!RemoveQuotes(pad \o (<<Strings!Quote>> \o text \o <<Strings!Quote>>) \o pad) = text
    <3>1. \A pad \in {<<>>, <<" ">>, <<"\t", "\n">>} : Strings!RemoveQuotes(pad \o Quoted(text) \o pad) = text
      BY <2>1, SameUtilities, Zenon
    <3> QED
      BY <2>4, <3>1, Zenon
  <2>6. (\A i, j \in 1..Len(solid) : solid # <<Strings!Quote>> \o SubSeq(solid, i, j) \o <<Strings!Quote>>) =>
          Strings!RemoveQuotes(text) = solid
    <3> HIDE DEF solid
    <3>1. (\A i, j \in 1..Len(solid) : solid # Quoted(SubSeq(solid, i, j))) => Strings!RemoveQuotes(text) = solid
      BY <2>3, SameUtilities, Zenon
    <3> QED
      BY <2>4, <3>1, Zenon
  <2> QED
    BY <2>5, <2>6 DEF QuotesInPairs
<1> QED
  BY <1>1, TextHolds, PTL
-----------------------------------------------------------------------------
(* The numbers of a text: what the fold over its characters has after each. *)

Start == [seq |-> <<>>, inside |-> FALSE, ended |-> FALSE]

\* What one more character makes of the numbers so far.
Scan(acc, c) ==
  LET more(a, d) == IF a.inside
                    THEN [a.seq EXCEPT ![Len(a.seq)] = 10 * @ + d]
                    ELSE Append(a.seq, d)
  IN  IF acc.ended THEN acc
      ELSE CASE c \in {" ", "\n"}        -> [acc EXCEPT !.inside = FALSE]
             [] c \in DOMAIN Line!Digits ->
                  [acc EXCEPT !.seq = more(acc, Line!Digits[c]), !.inside = TRUE]
             [] OTHER                    -> [acc EXCEPT !.ended = TRUE]

Scanned(g, str, s) == IF s = {} THEN Start ELSE Scan(g[s \ {Max(s)}], str[Max(s)])

Scans(g, str, n) == g = [s \in SUBSET (1..n) |-> Scanned(g, str, s)]

LEMMA NumbersChosen ==
  ASSUME NEW str, DOMAIN str = 1..Len(str)
  PROVE  Line!Numbers(str) = ((CHOOSE g : Scans(g, str, Len(str)))[1..Len(str)]).seq
BY DEF Line!Numbers, Line!FoldLeft, Line!MapThenFoldSet, Line!Max, Max, Scans, Scanned, Scan, Start

LEMMA MaxOfInterval ==
  ASSUME NEW n \in Nat, NEW s \in SUBSET (1..n), s # {}
  PROVE  /\ Max(s) \in s /\ \A x \in s : x <= Max(s)
         /\ (n \in s => Max(s) = n)
<1>1. s \subseteq Nat /\ IsFiniteSet(1..n)
  BY FS_Interval
<1>2. IsFiniteSet(s)
  BY <1>1, FS_Subset
<1>3. Max(s) \in s /\ \A x \in s : Max(s) >= x
  BY <1>1, <1>2, MaxOfNats
<1> DEFINE m == Max(s)
<1>4. m \in 1..n /\ \A x \in s : x \in 1..n /\ m >= x
  BY <1>3
<1> HIDE DEF m
<1>5. (\A x \in s : x <= m) /\ (n \in s => m = n)
  BY <1>4
<1> QED
  BY <1>3, <1>5 DEF m

LEMMA ScansExist ==
  ASSUME NEW str, NEW N \in Nat
  PROVE  \E g : Scans(g, str, N)
<1> DEFINE Good == {n \in Nat : \E g : Scans(g, str, n)}
<1>1. 0 \in Good
  <2> DEFINE g == [s \in SUBSET (1..0) |-> Start]
  <2>1. \A s \in SUBSET (1..0) : s = {}
    OBVIOUS
  <2>2. Scans(g, str, 0)
    BY <2>1 DEF Scans, Scanned
  <2> QED
    BY <2>2
<1>2. ASSUME NEW n \in Nat, n \in Good
      PROVE  n + 1 \in Good
  <2>1. PICK g : Scans(g, str, n)
    BY <1>2
  <2> DEFINE h == [s \in SUBSET (1..n + 1) |->
                     IF n + 1 \in s THEN Scan(g[s \ {n + 1}], str[n + 1]) ELSE g[s]]
  <2>2. \A s \in SUBSET (1..n + 1) : n + 1 \notin s => s \in SUBSET (1..n)
    OBVIOUS
  <2>3. \A s \in SUBSET (1..n) : s \in SUBSET (1..n + 1) /\ n + 1 \notin s
    OBVIOUS
  <2>4. \A s \in SUBSET (1..n) : h[s] = g[s]
    BY <2>3
  <2>5. \A s \in SUBSET (1..n) : g[s] = Scanned(g, str, s)
    BY <2>1 DEF Scans
  <2>6. ASSUME NEW s \in SUBSET (1..n + 1)
        PROVE  h[s] = Scanned(h, str, s)
    <3>1. CASE n + 1 \in s
      <4>1. Max(s) = n + 1
        BY <3>1, MaxOfInterval
      <4>2. s \ {n + 1} \in SUBSET (1..n)
        BY <2>2
      <4>3. h[s] = Scan(g[s \ {n + 1}], str[n + 1]) /\ s # {}
        BY <3>1
      <4> HIDE DEF h
      <4> QED
        BY <2>4, <4>1, <4>2, <4>3 DEF Scanned
    <3>2. CASE n + 1 \notin s
      <4>1. s \in SUBSET (1..n) /\ s \ {Max(s)} \in SUBSET (1..n)
        BY <2>2, <3>2
      <4>2. h[s] = g[s] /\ h[s \ {Max(s)}] = g[s \ {Max(s)}] /\ g[s] = Scanned(g, str, s)
        BY <2>4, <2>5, <4>1
      <4> HIDE DEF h
      <4> QED
        BY <4>2 DEF Scanned
    <3> QED
      BY <3>1, <3>2
  <2>7. h = [s \in SUBSET (1..n + 1) |-> h[s]]
    OBVIOUS
  <2> HIDE DEF h
  <2>8. Scans(h, str, n + 1)
    BY <2>6, <2>7 DEF Scans
  <2> QED
    BY <2>8
<1> HIDE DEF Good
<1>3. N \in Good
  BY <1>1, <1>2, NatSetInduction
<1> QED
  BY <1>3 DEF Good

\* The numbers of a text, and how they come about from character to character.
LEMMA NumbersStepwise ==
  ASSUME NEW S, NEW str \in Seq(S)
  PROVE  \E f : /\ f[0] = Start
                /\ \A k \in 1..Len(str) : f[k] = Scan(f[k - 1], str[k])
                /\ Line!Numbers(str) = f[Len(str)].seq
<1>0. Len(str) \in Nat /\ DOMAIN str = 1..Len(str)
  BY LenProperties
<1>1. PICK g : /\ Scans(g, str, Len(str))
               /\ Line!Numbers(str) = (g[1..Len(str)]).seq
  <2> DEFINE g == CHOOSE g : Scans(g, str, Len(str))
  <2>1. Scans(g, str, Len(str))
    BY <1>0, ScansExist
  <2>2. Line!Numbers(str) = (g[1..Len(str)]).seq
    BY <1>0, NumbersChosen
  <2> QED
    BY <2>1, <2>2
<1> DEFINE f == [k \in 0..Len(str) |-> g[1..k]]
<1>2. f[0] = Start
  <2>1. 1..0 = {} /\ {} \in SUBSET (1..Len(str))
    OBVIOUS
  <2>2. g[1..0] = Start
    BY <1>1, <2>1 DEF Scans, Scanned
  <2> QED
    BY <1>0, <2>2
<1>3. ASSUME NEW k \in 1..Len(str)
      PROVE  f[k] = Scan(f[k - 1], str[k])
  <2>1. 1..k \in SUBSET (1..Len(str)) /\ k - 1 \in 0..Len(str) /\ k \in 0..Len(str) /\ k \in Nat
    BY <1>0
  <2>2. k \in 1..k /\ 1..k # {} /\ (1..k) \ {k} = 1..k - 1
    <3>1. \A x : x \in (1..k) \ {k} <=> x \in 1..k - 1
      BY <2>1
    <3>2. (1..k) \ {k} = 1..k - 1
      BY <3>1
    <3>3. k \in 1..k
      BY <1>0
    <3> QED
      BY <3>2, <3>3
  <2>3. Max(1..k) = k
    BY <2>1, <2>2, MaxOfInterval
  <2>4. g[1..k] = Scanned(g, str, 1..k)
    BY <1>1, <2>1 DEF Scans
  <2>5. g[1..k] = Scan(g[1..k - 1], str[k])
    BY <2>2, <2>3, <2>4 DEF Scanned
  <2> QED
    BY <2>1, <2>5
<1>4. f[Len(str)] = g[1..Len(str)]
  BY <1>0
<1> HIDE DEF f
<1> QED
  BY <1>1, <1>2, <1>3, <1>4

LEMMA DigitFacts ==
  /\ DOMAIN Line!Digits = {"0", "1", "2"}
  /\ \A d \in {"0", "1", "2"} : Line!Digits[d] \in Nat
  /\ Line!Digits["0"] = 0
BY DEF Line!Digits

LEMMA InsideChanged ==
  ASSUME NEW q, NEW a, NEW b, NEW c
  PROVE  [[seq |-> q, inside |-> a, ended |-> c] EXCEPT !.inside = b] =
           [seq |-> q, inside |-> b, ended |-> c]
OBVIOUS

LEMMA BlankScanned ==
  ASSUME NEW q, NEW b \in BOOLEAN, NEW c \in {" ", "\n"}
  PROVE  Scan([seq |-> q, inside |-> b, ended |-> FALSE], c) =
           [seq |-> q, inside |-> FALSE, ended |-> FALSE]
BY InsideChanged, DigitFacts DEF Scan

LEMMA DigitScanned ==
  ASSUME NEW q, NEW d \in {"0", "1", "2"}
  PROVE  Scan([seq |-> q, inside |-> FALSE, ended |-> FALSE], d) =
           [seq |-> Append(q, Line!Digits[d]), inside |-> TRUE, ended |-> FALSE]
BY DigitFacts DEF Scan

LEMMA OneMore ==
  ASSUME NEW q \in Seq(Nat), NEW e \in Nat
  PROVE  /\ Append(q, e) \in Seq(Nat) /\ Len(Append(q, e)) = Len(q) + 1
         /\ Append(q, e)[Len(q) + 1] = e
         /\ \A i \in 1..Len(q) : Append(q, e)[i] = q[i]
BY AppendProperties, LenProperties

\* The numbers so far are q, and no end has been met.
Holds(acc, q) == \E b \in BOOLEAN : acc = [seq |-> q, inside |-> b, ended |-> FALSE]

NumberMore(r, q, e) ==
  /\ r \in Seq(Nat) /\ Len(r) = Len(q) + 1 /\ r[Len(q) + 1] = e
  /\ \A i \in 1..Len(q) : r[i] = q[i]

\* A blank and a digit are one number more.
LEMMA NumberScanned ==
  ASSUME NEW q \in Seq(Nat), NEW d \in {"0", "1", "2"},
         NEW acc, Holds(acc, q)
  PROVE  \E r : Holds(Scan(Scan(acc, " "), d), r) /\ NumberMore(r, q, Line!Digits[d])
<1>1. Scan(acc, " ") = [seq |-> q, inside |-> FALSE, ended |-> FALSE]
  BY BlankScanned DEF Holds
<1>2. PICK e \in Nat : e = Line!Digits[d]
  BY DigitFacts
<1>3. Holds(Scan(Scan(acc, " "), d), Append(q, e))
  <2>1. Scan(Scan(acc, " "), d) = [seq |-> Append(q, e), inside |-> TRUE, ended |-> FALSE]
    BY <1>1, <1>2, DigitScanned
  <2> QED
    BY <2>1 DEF Holds
<1>4. NumberMore(Append(q, e), q, e)
  BY OneMore DEF NumberMore
<1> QED
  BY <1>2, <1>3, <1>4

\* What follows the state in the kernel's text, n numbers of which the last is d.
Record(str, n, d) ==
  /\ Len(str) = 2 * n + 3
  /\ \A i \in 1..n : str[2 * i - 1] = " " /\ str[2 * i] = IF i = n THEN d ELSE "0"
  /\ str[2 * n + 1] = " " /\ str[2 * n + 2] = "0" /\ str[2 * n + 3] = "\n"

\* The first i of them have been scanned.
RecordScanned(acc, i, n, d) ==
  \E q \in Seq(Nat) :
    /\ Holds(acc, q)
    /\ Len(q) = i
    /\ i = n /\ i # 0 => q[i] = Line!Digits[d]

\* It is scanned to its last number, of which there is one more than n.
LEMMA NumbersOfRecord ==
  ASSUME NEW S, NEW str \in Seq(S), NEW n \in Nat, NEW d \in {"0", "1", "2"}, Record(str, n, d)
  PROVE  /\ Len(Line!Numbers(str)) = n + 1
         /\ n # 0 => Line!Numbers(str)[n] = Line!Digits[d]
<1>0. Len(str) = 2 * n + 3
  BY DEF Record
<1>1. PICK f : /\ f[0] = Start
               /\ \A k \in 1..Len(str) : f[k] = Scan(f[k - 1], str[k])
               /\ Line!Numbers(str) = f[Len(str)].seq
  BY NumbersStepwise
<1> DEFINE Good == {i \in Nat : i <= n => RecordScanned(f[2 * i], i, n, d)}
<1>2. 0 \in Good
  <2>1. Holds(f[2 * 0], <<>>)
    <3>1. 2 * 0 = 0
      OBVIOUS
    <3>2. Holds(Start, <<>>)
      BY DEF Start, Holds
    <3> QED
      BY <1>1, <3>1, <3>2
  <2>2. <<>> \in Seq(Nat) /\ Len(<<>>) = 0 /\ FALSE \in BOOLEAN
    BY EmptySeq
  <2>3. RecordScanned(f[2 * 0], 0, n, d)
    BY <2>1, <2>2 DEF RecordScanned
  <2> QED
    BY <2>3
<1>3. ASSUME NEW i \in Nat, i \in Good
      PROVE  i + 1 \in Good
  <2> SUFFICES ASSUME i + 1 <= n
               PROVE  RecordScanned(f[2 * (i + 1)], i + 1, n, d)
    OBVIOUS
  <2>1. PICK q \in Seq(Nat) :
          Holds(f[2 * i], q) /\ Len(q) = i
    <3>1. RecordScanned(f[2 * i], i, n, d)
      BY <1>3
    <3> QED
      BY <3>1 DEF RecordScanned
  <2>2. PICK c \in {"0", "1", "2"} : c = IF i + 1 = n THEN d ELSE "0"
    OBVIOUS
  <2>3. /\ 2 * i + 1 \in 1..Len(str) /\ 2 * i + 2 \in 1..Len(str)
        /\ 2 * i + 2 = 2 * (i + 1) /\ 2 * i + 1 = 2 * (i + 1) - 1
        /\ (2 * i + 1) - 1 = 2 * i /\ (2 * i + 2) - 1 = 2 * i + 1
    BY <1>0
  <2>4. str[2 * i + 1] = " " /\ str[2 * i + 2] = c
    <3>1. i + 1 \in 1..n
      OBVIOUS
    <3> QED
      BY <2>2, <2>3, <3>1 DEF Record
  <2>5. f[2 * i + 1] = Scan(f[2 * i], " ") /\ f[2 * i + 2] = Scan(f[2 * i + 1], c)
    BY <1>1, <2>3, <2>4
  <2>6. PICK r \in Seq(Nat) :
          /\ Holds(f[2 * i + 2], r)
          /\ Len(r) = i + 1 /\ r[i + 1] = Line!Digits[c]
    <3>1. PICK acc : acc = f[2 * i]
      OBVIOUS
    <3>2. Holds(acc, q) /\ f[2 * i + 2] = Scan(Scan(acc, " "), c)
      BY <2>1, <2>5, <3>1
    <3>3. PICK r : Holds(Scan(Scan(acc, " "), c), r) /\ NumberMore(r, q, Line!Digits[c])
      BY <3>2, NumberScanned
    <3> QED
      BY <2>1, <3>2, <3>3 DEF NumberMore
  <2> QED
    BY <2>2, <2>3, <2>6 DEF RecordScanned
<1>4. RecordScanned(f[2 * n], n, n, d)
  <2>1. n \in Good
    <3> HIDE DEF Good
    <3> QED
      BY <1>2, <1>3, NatSetInduction
  <2> QED
    BY <2>1
<1>5. PICK q \in Seq(Nat) :
        /\ Holds(f[2 * n], q)
        /\ Len(q) = n /\ (n # 0 => q[n] = Line!Digits[d])
  BY <1>4 DEF RecordScanned
<1>6. /\ 2 * n + 1 \in 1..Len(str) /\ 2 * n + 2 \in 1..Len(str) /\ 2 * n + 3 \in 1..Len(str)
      /\ (2 * n + 1) - 1 = 2 * n /\ (2 * n + 2) - 1 = 2 * n + 1 /\ (2 * n + 3) - 1 = 2 * n + 2
  BY <1>0
<1>7. /\ f[2 * n + 1] = Scan(f[2 * n], " ") /\ f[2 * n + 2] = Scan(f[2 * n + 1], "0")
      /\ f[2 * n + 3] = Scan(f[2 * n + 2], "\n")
  BY <1>1, <1>6 DEF Record
<1>8. PICK r \in Seq(Nat) :
        /\ Holds(f[2 * n + 2], r)
        /\ Len(r) = n + 1 /\ \A i \in 1..n : r[i] = q[i]
  <2>1. PICK acc : acc = f[2 * n]
    OBVIOUS
  <2>2. Holds(acc, q) /\ f[2 * n + 2] = Scan(Scan(acc, " "), "0") /\ "0" \in {"0", "1", "2"}
    BY <1>5, <1>7, <2>1
  <2>3. PICK r : Holds(Scan(Scan(acc, " "), "0"), r) /\ NumberMore(r, q, Line!Digits["0"])
    BY <2>2, NumberScanned
  <2> QED
    BY <1>5, <2>2, <2>3 DEF NumberMore
<1>9. f[2 * n + 3] = [seq |-> r, inside |-> FALSE, ended |-> FALSE]
  BY <1>7, <1>8, BlankScanned DEF Holds
<1>10. Line!Numbers(str) = r
  BY <1>0, <1>1, <1>9
<1>11. n # 0 => n \in 1..n
  OBVIOUS
<1> QED
  BY <1>5, <1>8, <1>10, <1>11

\* A number takes a digit, and a blank or another end behind it.
Few(acc, k) ==
  /\ acc \in [seq : Seq(Nat), inside : BOOLEAN, ended : BOOLEAN]
  /\ 2 * Len(acc.seq) <= k + 1
  /\ acc.ended \/ ~acc.inside => 2 * Len(acc.seq) <= k
  /\ acc.inside => Len(acc.seq) >= 1

LEMMA FewKept ==
  ASSUME NEW acc, NEW k \in Nat, NEW c, Few(acc, k)
  PROVE  Few(Scan(acc, c), k + 1) /\ (c = "\n" => 2 * Len(Scan(acc, c).seq) <= k + 1)
<1>1. PICK q \in Seq(Nat), a \in BOOLEAN, b \in BOOLEAN :
        acc = [seq |-> q, inside |-> a, ended |-> b]
  BY DEF Few
<1>2. /\ Len(q) \in Nat /\ 2 * Len(q) <= k + 1 /\ (b \/ ~a => 2 * Len(q) <= k)
      /\ (a => Len(q) >= 1)
  BY <1>1, LenProperties DEF Few
<1>4. CASE b
  <2>1. acc.ended /\ acc.seq = q
    BY <1>1, <1>4
  <2>2. Scan(acc, c) = acc
    BY <2>1 DEF Scan
  <2>3. Few(acc, k + 1) /\ 2 * Len(acc.seq) <= k + 1
    BY <1>2, <1>4, <2>1 DEF Few
  <2> QED
    BY <2>2, <2>3
<1>5. CASE ~b /\ c \in {" ", "\n"}
  <2>1. PICK z : z = [seq |-> q, inside |-> FALSE, ended |-> FALSE]
    OBVIOUS
  <2>2. Scan(acc, c) = z
    BY <1>1, <1>5, <2>1, BlankScanned
  <2>3. Few(z, k + 1) /\ 2 * Len(z.seq) <= k + 1
    BY <1>2, <2>1 DEF Few
  <2> QED
    BY <2>2, <2>3
<1>6. CASE ~b /\ c \in {"0", "1", "2"}
  <2>1. Line!Digits[c] \in Nat /\ c # "\n"
    BY <1>6, DigitFacts
  <2>2. ASSUME NEW r \in Seq(Nat), 2 * Len(r) <= k + 2, Len(r) >= 1,
               Scan(acc, c) = [seq |-> r, inside |-> TRUE, ended |-> FALSE]
        PROVE  Few(Scan(acc, c), k + 1)
    <3>1. PICK z : z = [seq |-> r, inside |-> TRUE, ended |-> FALSE]
      OBVIOUS
    <3>2. Few(z, k + 1)
      BY <2>2, <3>1 DEF Few
    <3> QED
      BY <2>2, <3>1, <3>2
  <2>3. CASE a
    <3>1. PICK r : r = [q EXCEPT ![Len(q)] = 10 * @ + Line!Digits[c]]
      OBVIOUS
    <3>2. r \in Seq(Nat) /\ Len(r) = Len(q)
      <4>1. Len(q) \in 1..Len(q)
        BY <1>2, <2>3
      <4>2. 10 * q[Len(q)] + Line!Digits[c] \in Nat
        BY <2>1, <4>1, ElementOfSeq
      <4> QED
        BY <3>1, <4>1, <4>2, ExceptSeq
    <3>3. Scan(acc, c) = [seq |-> r, inside |-> TRUE, ended |-> FALSE]
      BY <1>1, <1>6, <2>3, <3>1, DigitFacts DEF Scan
    <3>4. 2 * Len(r) <= k + 2 /\ Len(r) >= 1
      BY <1>2, <2>3, <3>2
    <3> QED
      BY <2>1, <2>2, <3>2, <3>3, <3>4
  <2>4. CASE ~a
    <3>1. PICK r : r = Append(q, Line!Digits[c])
      OBVIOUS
    <3>2. Scan(acc, c) = [seq |-> r, inside |-> TRUE, ended |-> FALSE]
      BY <1>1, <1>6, <2>4, <3>1, DigitScanned
    <3>3. r \in Seq(Nat) /\ Len(r) = Len(q) + 1
      BY <2>1, <3>1, AppendProperties
    <3>4. 2 * Len(r) <= k + 2 /\ Len(r) >= 1
      BY <1>2, <2>4, <3>3
    <3> QED
      BY <2>1, <2>2, <3>2, <3>3, <3>4
  <2> QED
    BY <2>3, <2>4
<1>7. CASE ~b /\ c \notin {" ", "\n", "0", "1", "2"}
  <2>1. PICK z : z = [seq |-> q, inside |-> a, ended |-> TRUE]
    OBVIOUS
  <2>2. Scan(acc, c) = z
    BY <1>1, <1>7, <2>1, DigitFacts DEF Scan
  <2>3. Few(z, k + 1)
    BY <1>2, <2>1 DEF Few
  <2> QED
    BY <1>7, <2>2, <2>3
<1> QED
  BY <1>4, <1>5, <1>6, <1>7

\* A text has at most one number for two of its characters, if a line end is
\* the last.
LEMMA NumbersAreFew ==
  ASSUME NEW S, NEW str \in Seq(S), str # <<>> => str[Len(str)] = "\n"
  PROVE  Len(Line!Numbers(str)) \in Nat /\ 2 * Len(Line!Numbers(str)) <= Len(str)
<1>0. Len(str) \in Nat
  BY LenProperties
<1>1. PICK f : /\ f[0] = Start
               /\ \A k \in 1..Len(str) : f[k] = Scan(f[k - 1], str[k])
               /\ Line!Numbers(str) = f[Len(str)].seq
  BY NumbersStepwise
<1> DEFINE Good == {k \in Nat : k <= Len(str) => Few(f[k], k)}
<1>2. 0 \in Good
  <2>1. <<>> \in Seq(Nat) /\ Len(<<>>) = 0
    BY EmptySeq
  <2>2. Few(Start, 0)
    BY <2>1 DEF Start, Few
  <2> QED
    BY <1>1, <2>2
<1>3. ASSUME NEW k \in Nat, k \in Good
      PROVE  k + 1 \in Good
  <2> SUFFICES ASSUME k + 1 <= Len(str)
               PROVE  Few(f[k + 1], k + 1)
    OBVIOUS
  <2>1. Few(f[k], k)
    BY <1>0, <1>3
  <2>2. f[k + 1] = Scan(f[k], str[k + 1])
    BY <1>0, <1>1
  <2> QED
    BY <2>1, <2>2, FewKept
<1>4. \A k \in Nat : k <= Len(str) => Few(f[k], k)
  <2>1. \A k \in Nat : k \in Good
    <3> HIDE DEF Good
    <3> QED
      BY <1>2, <1>3, NatSetInduction
  <2> QED
    BY <2>1
<1>5. CASE str = <<>>
  <2>1. Len(str) = 0 /\ f[Len(str)].seq = <<>> /\ Len(<<>>) = 0
    BY <1>1, <1>5 DEF Start
  <2> QED
    BY <1>1, <2>1
<1>6. CASE str # <<>>
  <2>1. Len(str) \in 1..Len(str) /\ Len(str) - 1 \in Nat
    BY <1>0, <1>6, EmptySeq
  <2>2. PICK k \in Nat : k = Len(str) - 1
    BY <2>1
  <2>3. f[Len(str)] = Scan(f[k], "\n") /\ Few(f[k], k)
    BY <1>0, <1>1, <1>4, <1>6, <2>1, <2>2
  <2>4. 2 * Len(f[Len(str)].seq) <= k + 1 /\ Few(f[Len(str)], k + 1)
    BY <2>3, FewKept
  <2>5. Len(f[Len(str)].seq) \in Nat
    BY <2>4, LenProperties DEF Few
  <2> QED
    BY <1>0, <1>1, <2>2, <2>4, <2>5
<1> QED
  BY <1>5, <1>6

(* The rest of a text, from one of its characters on. *)

From(str, p) == SubSeq(str, p, Len(str))

LEMMA FromFacts ==
  ASSUME NEW S, NEW str \in Seq(S), NEW p \in 1..Len(str) + 1
  PROVE  /\ From(str, p) \in Seq(S)
         /\ Len(From(str, p)) = Len(str) - p + 1
         /\ \A i \in 1..Len(str) - p + 1 : From(str, p)[i] = str[p + i - 1]
<1>1. Len(str) \in Nat /\ p \in Int
  BY LenProperties
<1>2. CASE p = Len(str) + 1
  <2>1. From(str, p) = <<>>
    BY <1>1, <1>2, SubSeqEmpty DEF From
  <2>2. <<>> \in Seq(S) /\ Len(<<>>) = 0
    BY EmptySeq
  <2>3. Len(str) - p + 1 = 0 /\ 1..0 = {}
    BY <1>1, <1>2
  <2> QED
    BY <2>1, <2>2, <2>3
<1>3. CASE p # Len(str) + 1
  <2>1. p \in 1..Len(str) /\ Len(str) \in p..Len(str)
    BY <1>1, <1>3
  <2>2. PICK hi \in p..Len(str) : hi = Len(str)
    BY <2>1
  <2>3. /\ SubSeq(str, p, hi) \in Seq(S) /\ Len(SubSeq(str, p, hi)) = hi - p + 1
        /\ \A i \in 1..hi - p + 1 : SubSeq(str, p, hi)[i] = str[p + i - 1]
    BY <2>1, PartOf
  <2>4. From(str, p) = SubSeq(str, p, hi)
    BY <2>2 DEF From
  <2> QED
    BY <2>2, <2>3, <2>4
<1> QED
  BY <1>2, <1>3

LEMMA FromFrom ==
  ASSUME NEW S, NEW str \in Seq(S), NEW p \in 1..Len(str) + 1, NEW q \in 1..Len(str) - p + 2
  PROVE  From(From(str, p), q) = From(str, p + q - 1)
<1>1. Len(str) \in Nat /\ p + q - 1 \in 1..Len(str) + 1
  BY LenProperties
<1>2. PICK a : a = From(str, p)
  OBVIOUS
<1>3. a \in Seq(S) /\ Len(a) = Len(str) - p + 1 /\ \A i \in 1..Len(str) - p + 1 : a[i] = str[p + i - 1]
  BY <1>2, FromFacts
<1>4. q \in 1..Len(a) + 1
  BY <1>1, <1>3
<1>5. PICK b, c : b = From(a, q) /\ c = From(str, p + q - 1)
  OBVIOUS
<1>6. b \in Seq(S) /\ Len(b) = Len(a) - q + 1 /\ \A i \in 1..Len(a) - q + 1 : b[i] = a[q + i - 1]
  BY <1>3, <1>4, <1>5, FromFacts
<1>7. /\ c \in Seq(S) /\ Len(c) = Len(str) - (p + q - 1) + 1
      /\ \A i \in 1..Len(str) - (p + q - 1) + 1 : c[i] = str[(p + q - 1) + i - 1]
  BY <1>1, <1>5, FromFacts
<1>8. Len(b) = Len(c) /\ \A i \in 1..Len(b) : b[i] = c[i]
  <2>1. Len(b) = Len(c) /\ Len(b) = Len(str) - p - q + 2
    BY <1>1, <1>3, <1>6, <1>7
  <2>2. ASSUME NEW i \in 1..Len(b)
        PROVE  b[i] = c[i]
    <3>1. b[i] = a[q + i - 1] /\ q + i - 1 \in 1..Len(str) - p + 1
      BY <1>1, <1>3, <1>6, <2>1
    <3>2. a[q + i - 1] = str[p + (q + i - 1) - 1]
      BY <1>3, <3>1
    <3>3. c[i] = str[(p + q - 1) + i - 1] /\ (p + q - 1) + i - 1 = p + (q + i - 1) - 1
      BY <1>1, <1>7, <2>1
    <3> QED
      BY <3>1, <3>2, <3>3
  <2> QED
    BY <2>1, <2>2
<1> QED
  BY <1>2, <1>5, <1>6, <1>7, <1>8, SeqEqual

LEMMA HeadOfFrom ==
  ASSUME NEW S, NEW str \in Seq(S), NEW p \in 1..Len(str)
  PROVE  /\ From(str, p) # <<>> /\ Head(From(str, p)) = str[p]
         /\ Tail(From(str, p)) = From(str, p + 1)
<1>1. Len(str) \in Nat /\ Len(str) \in p..Len(str) /\ p \in 1..Len(str) + 1
  BY LenProperties
<1>2. Len(From(str, p)) = Len(str) - p + 1
  BY <1>1, FromFacts
<1>3. From(str, p) # <<>>
  <2>1. Len(<<>>) = 0 /\ Len(str) - p + 1 # 0
    BY <1>1
  <2> QED
    BY <1>2, <2>1
<1>4. PICK hi \in p..Len(str) : hi = Len(str)
  BY <1>1
<1>5. Head(SubSeq(str, p, hi)) = str[p] /\ Tail(SubSeq(str, p, hi)) = SubSeq(str, p + 1, hi)
  BY HeadTailOfSubSeq
<1> QED
  BY <1>3, <1>4, <1>5 DEF From

\* SkipAll leaves the text from the first character on that is not in set.
LEMMA Skipped ==
  ASSUME NEW S, NEW str \in Seq(S), NEW set, NEW p \in 1..Len(str) + 1,
         \A j \in 1..p - 1 : str[j] \in set, p <= Len(str) => str[p] \notin set
  PROVE  Line!SkipAll(str, set) = From(str, p)
<1> DEFINE stays == {k \in 1..Len(str) : str[k] \notin set}
           Least(k) == \A j \in stays : k <= j
<1>1. Len(str) \in Nat
  BY LenProperties
<1>2. p \in stays \cup {Len(str) + 1}
  BY <1>1
<1>3. Least(p)
  BY <1>1
<1>4. \A k \in stays \cup {Len(str) + 1} : Least(k) => k = p
  <2> SUFFICES ASSUME NEW k \in stays \cup {Len(str) + 1}, Least(k)
               PROVE  k = p
    OBVIOUS
  <2>1. CASE p \in stays
    BY <1>1, <2>1
  <2>2. CASE p = Len(str) + 1
    BY <1>1, <2>2
  <2> QED
    BY <1>2, <2>1, <2>2
<1>5. (CHOOSE k \in stays \cup {Len(str) + 1} : \A j \in stays : k <= j) = p
  <2> HIDE DEF stays
  <2> QED
    BY <1>2, <1>3, <1>4
<1> QED
  BY <1>5 DEF Line!SkipAll, From

LEMMA SkippedSome ==
  ASSUME NEW S, NEW str \in Seq(S), NEW set
  PROVE  \E p \in 1..Len(str) + 1 : Line!SkipAll(str, set) = From(str, p)
<1> DEFINE stays == {k \in 1..Len(str) : str[k] \notin set} \cup {Len(str) + 1}
<1>1. Len(str) \in Nat
  BY LenProperties
<1>2. stays \subseteq Nat /\ stays # {}
  BY <1>1
<1>3. PICK p \in stays : \A j \in stays : p <= j
  <2> HIDE DEF stays
  <2> QED
    BY <1>2, MinOfNats
<1>4. p \in 1..Len(str) + 1 /\ (p <= Len(str) => str[p] \notin set)
  BY <1>1, <1>3
<1>5. \A j \in 1..p - 1 : str[j] \in set
  BY <1>1, <1>3
<1> QED
  BY <1>4, <1>5, Skipped

(* The comm, and what is behind it. *)

\* A text that begins as the kernel's does: 1 (
Opens(str) == Len(str) >= 3 /\ str[1] = "1" /\ str[2] = " " /\ str[3] = "("

LEMMA OpenedAt ==
  ASSUME NEW S, NEW str \in Seq(S), Opens(str)
  PROVE  Line!SkipAll(Line!SkipAll(str, DOMAIN Line!Digits), {" "}) = From(str, 3)
<1>1. Len(str) \in Nat /\ Len(str) >= 3
  BY LenProperties DEF Opens
<1>2. PICK p \in 1..Len(str) + 1 : p = 2
  BY <1>1
<1>3. PICK q : q = 2
  OBVIOUS
<1>4. PICK rest : rest = From(str, p)
  OBVIOUS
<1>5. Line!SkipAll(str, DOMAIN Line!Digits) = rest
  <2>1. \A j \in 1..p - 1 : str[j] \in DOMAIN Line!Digits
    <3>1. \A j \in 1..p - 1 : j = 1
      BY <1>2
    <3> QED
      BY <3>1, DigitFacts DEF Opens
  <2>2. str[p] \notin DOMAIN Line!Digits
    BY <1>2, DigitFacts DEF Opens
  <2> QED
    BY <1>4, <2>1, <2>2, Skipped
<1>6. /\ rest \in Seq(S) /\ Len(rest) = Len(str) - p + 1
      /\ \A i \in 1..Len(str) - p + 1 : rest[i] = str[p + i - 1]
  BY <1>4, FromFacts
<1>7. rest[1] = " " /\ rest[2] = "(" /\ q \in 1..Len(rest) + 1 /\ q \in 1..Len(str) - p + 2
  <2>0. q \in 1..Len(str) - p + 2 /\ Len(str) - p + 2 = Len(rest) + 1
    BY <1>1, <1>2, <1>6, <1>3
  <2>1. 1 \in 1..Len(str) - p + 1 /\ 2 \in 1..Len(str) - p + 1
    BY <1>1, <1>2
  <2>2. p + 1 - 1 = 2 /\ p + 2 - 1 = 3
    BY <1>2
  <2>3. rest[1] = str[2] /\ rest[2] = str[3]
    BY <1>6, <2>1, <2>2
  <2>4. rest[1] = " " /\ rest[2] = "("
    BY <2>3 DEF Opens
  <2> QED
    BY <2>0, <2>4
<1>8. Line!SkipAll(rest, {" "}) = From(rest, q)
  <2>1. \A j \in 1..q - 1 : rest[j] \in {" "}
    <3>1. \A j \in 1..q - 1 : j = 1
      BY <1>3
    <3> QED
      BY <3>1, <1>7
  <2>2. rest[q] \notin {" "}
    BY <1>7, <1>3
  <2> QED
    BY <1>6, <1>7, <2>1, <2>2, Skipped
<1>9. From(rest, q) = From(str, p + q - 1)
  BY <1>4, <1>7, FromFrom
<1>10. p + q - 1 = 3
  BY <1>2, <1>3
<1> QED
  BY <1>5, <1>8, <1>9, <1>10

\* The comm ends at the last parenthesis, and where there is none the line is
\* not taken.
LEMMA AfterCommIs ==
  ASSUME NEW S, NEW str \in Seq(S), Opens(str)
  PROVE  /\ (\A k \in 4..Len(str) : str[k] # ")") => Line!AfterComm(str) = <<>>
         /\ \A c \in 4..Len(str) :
              str[c] = ")" /\ (\A j \in c + 1..Len(str) : str[j] # ")") =>
                Line!AfterComm(str) = Line!SkipAll(From(str, c + 1), {" "})
<1>1. Len(str) \in Nat /\ Len(str) >= 3
  BY LenProperties DEF Opens
<1>2. PICK p \in 1..Len(str) + 1 : p = 3
  BY <1>1
<1>3. PICK opened : opened = From(str, p)
  OBVIOUS
<1>4. Line!SkipAll(Line!SkipAll(str, DOMAIN Line!Digits), {" "}) = opened
  BY <1>2, <1>3, OpenedAt
<1>5. /\ opened \in Seq(S) /\ Len(opened) = Len(str) - 2
      /\ \A i \in 1..Len(str) - 2 : opened[i] = str[i + 2]
  <2>1. /\ opened \in Seq(S) /\ Len(opened) = Len(str) - p + 1
        /\ \A i \in 1..Len(str) - p + 1 : opened[i] = str[p + i - 1]
    BY <1>3, FromFacts
  <2> QED
    BY <1>1, <1>2, <2>1
<1>6. opened # <<>> /\ Head(opened) = "("
  <2>1. p \in 1..Len(str)
    BY <1>1, <1>2
  <2> QED
    BY <1>2, <1>3, <2>1, HeadOfFrom DEF Opens
<1>7. Line!AfterComm(str) =
        IF ~ \E k \in 2..Len(opened) : opened[k] = ")" THEN <<>>
        ELSE Line!SkipAll(SubSeq(opened, Line!CloseOf(opened) + 1, Len(opened)), {" "})
  BY <1>4, <1>6 DEF Line!AfterComm
<1>8. ASSUME \A k \in 4..Len(str) : str[k] # ")"
      PROVE  Line!AfterComm(str) = <<>>
  <2>1. ASSUME NEW k \in 2..Len(opened)
        PROVE  opened[k] # ")"
    <3>1. k \in 1..Len(str) - 2 /\ k + 2 \in 4..Len(str)
      BY <1>1, <1>5
    <3> QED
      BY <1>5, <1>8, <3>1
  <2> QED
    BY <1>7, <2>1
<1>9. ASSUME NEW c \in 4..Len(str), str[c] = ")", \A j \in c + 1..Len(str) : str[j] # ")"
      PROVE  Line!AfterComm(str) = Line!SkipAll(From(str, c + 1), {" "})
  <2>1. PICK d : d = c - 2
    OBVIOUS
  <2>2. d \in 2..Len(opened) /\ d \in 1..Len(opened) /\ d + 2 = c /\ d \in 1..Len(str) - 2
    BY <1>1, <1>5, <2>1
  <2>3. opened[d] = ")"
    BY <1>5, <1>9, <2>2
  <2>4. ASSUME NEW j \in 1..Len(opened), j > d
        PROVE  opened[j] # ")"
    <3>1. j \in 1..Len(str) - 2 /\ j + 2 \in c + 1..Len(str)
      BY <1>1, <1>5, <2>2, <2>4
    <3> QED
      BY <1>5, <1>9, <3>1
  <2>5. \A k \in 1..Len(opened) :
          opened[k] = ")" /\ (\A j \in k + 1..Len(opened) : opened[j] # ")") => k = d
    <3> SUFFICES ASSUME NEW k \in 1..Len(opened), opened[k] = ")",
                        \A j \in k + 1..Len(opened) : opened[j] # ")"
                 PROVE  k = d
      OBVIOUS
    <3>1. ~(k > d)
      BY <2>4
    <3>2. ~(k < d)
      <4>1. k < d => d \in k + 1..Len(opened)
        BY <2>2
      <4> QED
        BY <2>3, <4>1
    <3> QED
      BY <2>2, <3>1, <3>2
  <2>6. \A j \in d + 1..Len(opened) : opened[j] # ")"
    BY <1>1, <1>5, <2>2, <2>4
  <2>7. Line!CloseOf(opened) = d
    BY <2>2, <2>3, <2>5, <2>6 DEF Line!CloseOf
  <2>8. From(opened, d + 1) = From(str, c + 1)
    <3>1. PICK q : q = d + 1
      OBVIOUS
    <3>2. q \in 1..Len(str) - p + 2 /\ p + q - 1 = c + 1
      BY <1>1, <1>2, <1>5, <2>2, <3>1
    <3> QED
      BY <1>3, <3>1, <3>2, FromFrom
  <2> QED
    BY <1>7, <2>2, <2>3, <2>7, <2>8 DEF From
<1> QED
  BY <1>8, <1>9

(* The kernel's text. *)

Joined(u, s, t) ==
  /\ Len(u) = Len(s) + Len(t)
  /\ \A i \in 1..Len(s) : u[i] = s[i]
  /\ \A j \in 1..Len(t) : u[Len(s) + j] = t[j]

LEMMA JoinedAt ==
  ASSUME NEW S, NEW s \in Seq(S), NEW t \in Seq(S)
  PROVE  s \o t \in Seq(S) /\ Joined(s \o t, s, t)
<1>1. Len(s) \in Nat /\ Len(t) \in Nat
  BY LenProperties
<1>2. PICK u : u = s \o t
  OBVIOUS
<1>3. /\ u \in Seq(S) /\ Len(u) = Len(s) + Len(t)
      /\ \A i \in 1..Len(s) + Len(t) : u[i] = IF i <= Len(s) THEN s[i] ELSE t[i - Len(s)]
  BY <1>2, ConcatProperties
<1>4. \A i \in 1..Len(s) : u[i] = s[i]
  <2>1. \A i \in 1..Len(s) : i \in 1..Len(s) + Len(t) /\ i <= Len(s)
    BY <1>1
  <2> QED
    BY <1>3, <2>1
<1>5. ASSUME NEW j \in 1..Len(t)
      PROVE  u[Len(s) + j] = t[j]
  <2>1. PICK i : i = Len(s) + j
    OBVIOUS
  <2>2. i \in 1..Len(s) + Len(t) /\ ~(i <= Len(s)) /\ i - Len(s) = j
    BY <1>1, <2>1
  <2> QED
    BY <1>3, <2>1, <2>2
<1> QED
  BY <1>2, <1>3, <1>4, <1>5 DEF Joined

LEMMA TwoOf ==
  ASSUME NEW S, NEW a \in S, NEW b \in S
  PROVE  <<a, b>> \in Seq(S) /\ Len(<<a, b>>) = 2 /\ <<a, b>>[1] = a /\ <<a, b>>[2] = b
OBVIOUS

LEMMA ThreeOf ==
  ASSUME NEW S, NEW a \in S, NEW b \in S, NEW c \in S
  PROVE  /\ <<a, b, c>> \in Seq(S) /\ Len(<<a, b, c>>) = 3
         /\ <<a, b, c>>[1] = a /\ <<a, b, c>>[2] = b /\ <<a, b, c>>[3] = c
OBVIOUS

LEMMA FiveOf ==
  ASSUME NEW S, NEW a \in S, NEW b \in S, NEW c \in S, NEW d \in S, NEW e \in S
  PROVE  /\ <<a, b, c, d, e>> \in Seq(S) /\ Len(<<a, b, c, d, e>>) = 5
         /\ <<a, b, c, d, e>>[1] = a /\ <<a, b, c, d, e>>[2] = b /\ <<a, b, c, d, e>>[3] = c
         /\ <<a, b, c, d, e>>[4] = d /\ <<a, b, c, d, e>>[5] = e
OBVIOUS

\* n times a and b.
IsPairs(str, n, a, b) ==
  /\ Len(str) = 2 * n
  /\ \A i \in 1..n : str[2 * i - 1] = a /\ str[2 * i] = b

LEMMA PairMore ==
  ASSUME NEW S, NEW a \in S, NEW b \in S, NEW n \in Nat, NEW str \in Seq(S), IsPairs(str, n, a, b)
  PROVE  str \o <<a, b>> \in Seq(S) /\ IsPairs(str \o <<a, b>>, n + 1, a, b)
<1>1. PICK pair : pair = <<a, b>>
  OBVIOUS
<1>2. pair \in Seq(S) /\ Len(pair) = 2 /\ pair[1] = a /\ pair[2] = b
  BY <1>1, TwoOf
<1>3. PICK u : u = str \o pair
  OBVIOUS
<1>4. Len(str) = 2 * n
  BY DEF IsPairs
<1>5. /\ u \in Seq(S) /\ Len(u) = 2 * n + 2
      /\ \A i \in 1..2 * n : u[i] = str[i]
      /\ \A j \in 1..2 : u[2 * n + j] = pair[j]
  <2>1. u \in Seq(S) /\ Joined(u, str, pair)
    BY <1>2, <1>3, JoinedAt
  <2> QED
    BY <1>2, <1>4, <2>1 DEF Joined
<1>6. ASSUME NEW i \in 1..n + 1
      PROVE  u[2 * i - 1] = a /\ u[2 * i] = b
  <2>1. CASE i = n + 1
    <3>1. 2 * i - 1 = 2 * n + 1 /\ 2 * i = 2 * n + 2 /\ 1 \in 1..2 /\ 2 \in 1..2
      BY <2>1
    <3>2. u[2 * n + 1] = a /\ u[2 * n + 2] = b
      BY <1>2, <1>5, <3>1
    <3> QED
      BY <3>1, <3>2
  <2>2. CASE i # n + 1
    <3>1. i \in 1..n /\ 2 * i - 1 \in 1..2 * n /\ 2 * i \in 1..2 * n
      BY <2>2
    <3>2. str[2 * i - 1] = a /\ str[2 * i] = b
      BY <3>1 DEF IsPairs
    <3> QED
      BY <1>5, <3>1, <3>2
  <2> QED
    BY <2>1, <2>2
<1>7. IsPairs(u, n + 1, a, b)
  <2>1. 2 * n + 2 = 2 * (n + 1)
    OBVIOUS
  <2> QED
    BY <1>5, <1>6, <2>1 DEF IsPairs
<1> QED
  BY <1>1, <1>3, <1>5, <1>7

LEMMA PairsJoined ==
  ASSUME NEW S, NEW a \in S, NEW b \in S, NEW n \in Nat
  PROVE  /\ Line!FlattenSeq([k \in 1..n |-> <<a, b>>]) \in Seq(S)
         /\ IsPairs(Line!FlattenSeq([k \in 1..n |-> <<a, b>>]), n, a, b)
<1> DEFINE pairs == [k \in 1..n |-> <<a, b>>]
<1>1. <<a, b>> \in Seq(S)
  BY TwoOf
<1>2. pairs \in Seq(Seq(S)) /\ Len(pairs) = n
  <2>1. pairs \in [1..n -> Seq(S)]
    BY <1>1
  <2> HIDE DEF pairs
  <2> QED
    BY <2>1, SeqDef, LenProperties
<1>3. CASE n = 0
  <2>1. Line!FlattenSeq(pairs) = <<>>
    <3> HIDE DEF pairs
    <3> QED
      BY <1>2, <1>3 DEF Line!FlattenSeq
  <2>2. <<>> \in Seq(S) /\ IsPairs(<<>>, 0, a, b)
    <3>1. <<>> \in Seq(S) /\ Len(<<>>) = 0 /\ 2 * 0 = 0 /\ 1..0 = {}
      BY EmptySeq
    <3> QED
      BY <3>1 DEF IsPairs
  <2> QED
    BY <1>3, <2>1, <2>2
<1>4. CASE n # 0
  <2> DEFINE g == CHOOSE g : Joins(g, pairs, n)
  <2>1. Joins(g, pairs, n)
    BY JoinsExist
  <2>2. Line!FlattenSeq(pairs) = g[n]
    <3>1. ~(n = 0)
      BY <1>4
    <3> HIDE DEF pairs
    <3> QED
      BY <1>2, <3>1 DEF Line!FlattenSeq, Joins
  <2> HIDE DEF g
  <2>3. \A i \in 1..n : g[i] = IF i = 1 THEN <<a, b>> ELSE g[i - 1] \o <<a, b>>
    BY <2>1 DEF Joins
  <2> DEFINE Good == {m \in Nat : m + 1 \in 1..n => g[m + 1] \in Seq(S) /\ IsPairs(g[m + 1], m + 1, a, b)}
  <2>4. 0 \in Good
    <3>1. PICK pair : pair = <<a, b>>
      OBVIOUS
    <3>2. pair \in Seq(S) /\ Len(pair) = 2 /\ pair[1] = a /\ pair[2] = b
      BY <3>1, TwoOf
    <3>3. IsPairs(pair, 1, a, b)
      <4>1. \A i \in 1..1 : i = 1
        OBVIOUS
      <4>2. 2 * 1 = 2 /\ 2 * 1 - 1 = 1
        OBVIOUS
      <4> QED
        BY <3>2, <4>1, <4>2 DEF IsPairs
    <3>4. 0 + 1 \in 1..n => g[0 + 1] = pair
      BY <2>3, <3>1
    <3> QED
      BY <3>2, <3>3, <3>4
  <2>5. ASSUME NEW m \in Nat, m \in Good
        PROVE  m + 1 \in Good
    <3> SUFFICES ASSUME (m + 1) + 1 \in 1..n
                 PROVE  g[(m + 1) + 1] \in Seq(S) /\ IsPairs(g[(m + 1) + 1], (m + 1) + 1, a, b)
      OBVIOUS
    <3>1. PICK j : j = (m + 1) + 1
      OBVIOUS
    <3>2. j \in 1..n /\ j # 1 /\ j - 1 = m + 1 /\ m + 1 \in 1..n /\ m + 1 \in Nat
      BY <3>1
    <3>3. g[j] = g[j - 1] \o <<a, b>>
      BY <2>3, <3>2
    <3>4. g[m + 1] \in Seq(S) /\ IsPairs(g[m + 1], m + 1, a, b)
      BY <2>5, <3>2
    <3>5. g[m + 1] \o <<a, b>> \in Seq(S) /\ IsPairs(g[m + 1] \o <<a, b>>, (m + 1) + 1, a, b)
      BY <3>2, <3>4, PairMore
    <3> QED
      BY <3>1, <3>2, <3>3, <3>5
  <2>6. \A m \in Nat : m \in Good
    <3> HIDE DEF Good
    <3> QED
      BY <2>4, <2>5, NatSetInduction
  <2>7. n - 1 \in Nat /\ (n - 1) + 1 = n /\ n \in 1..n
    BY <1>4
  <2>8. g[n] \in Seq(S) /\ IsPairs(g[n], n, a, b)
    <3>1. n - 1 \in Good
      BY <2>6, <2>7
    <3> QED
      BY <2>7, <3>1
  <2> QED
    BY <2>2, <2>8
<1> QED
  BY <1>3, <1>4

LineChars == MCChars \cup States \cup {"0", "1", "2", " ", "(", ")", "\n"}

\* A process with a comm of its own.
IsProcess ==
  /\ comm \in Seq(MCChars) /\ Len(comm) \in 1..MaxComm
  /\ state \in States /\ threads \in {"1", "2"}

\* What the kernel prints of it: 1 (comm) state and the record.
IsPrinted(str, n, name, s, number) ==
  /\ str \in Seq(LineChars) /\ Len(str) = n + 2 * Fields + 9 /\ Opens(str)
  /\ \A i \in 1..n : str[3 + i] = name[i]
  /\ str[n + 4] = ")" /\ str[n + 5] = " " /\ str[n + 6] = s
  /\ Record(From(str, n + 7), Fields, number)

LEMMA TextIs ==
  ASSUME IsProcess
  PROVE  IsPrinted(Line!Text, Len(comm), comm, state, threads)
<1>a. Fields \in Nat /\ Fields # 0
  BY HelpersAssumption DEF Line!StatAssumption
<1>0. /\ comm \in Seq(LineChars) /\ Len(comm) \in Nat
      /\ state \in LineChars /\ threads \in LineChars
      /\ {"0", "1", "2", " ", "(", ")", "\n"} \subseteq LineChars
  <2>1. comm \in Seq(MCChars) /\ MCChars \subseteq LineChars
    BY DEF IsProcess, LineChars
  <2>2. comm \in Seq(LineChars) /\ Len(comm) \in Nat
    <3>1. Len(comm) \in Nat /\ DOMAIN comm = 1..Len(comm) /\ comm \in [1..Len(comm) -> MCChars]
      BY <2>1, LenProperties
    <3>2. comm \in [1..Len(comm) -> LineChars]
      BY <2>1, <3>1
    <3> QED
      BY <3>1, <3>2, SeqDef
  <2> QED
    BY <2>2 DEF IsProcess, LineChars
<1>1. PICK n \in Nat : n = Len(comm)
  BY <1>0
<1>2. PICK m \in Nat : m = Fields - 1
  BY <1>a
<1>3. PICK A : A = <<"1", " ", "(">>
  OBVIOUS
<1>4. PICK B : B = <<")", " ", state>>
  OBVIOUS
<1>5. PICK C : C = Line!FlattenSeq([k \in 1..m |-> <<" ", "0">>])
  OBVIOUS
<1>6. PICK D : D = <<" ", threads, " ", "0", "\n">>
  OBVIOUS
<1>7. A \in Seq(LineChars) /\ Len(A) = 3 /\ A[1] = "1" /\ A[2] = " " /\ A[3] = "("
  BY <1>0, <1>3, ThreeOf
<1>8. B \in Seq(LineChars) /\ Len(B) = 3 /\ B[1] = ")" /\ B[2] = " " /\ B[3] = state
  BY <1>0, <1>4, ThreeOf
<1>9. C \in Seq(LineChars) /\ IsPairs(C, m, " ", "0")
  BY <1>0, <1>5, PairsJoined
<1>10. /\ D \in Seq(LineChars) /\ Len(D) = 5
       /\ D[1] = " " /\ D[2] = threads /\ D[3] = " " /\ D[4] = "0" /\ D[5] = "\n"
  BY <1>0, <1>6, FiveOf
<1>11. Len(C) = 2 * m
  BY <1>9 DEF IsPairs
<1>12. PICK u : u = A \o comm
  OBVIOUS
<1>13. PICK v : v = u \o B
  OBVIOUS
<1>14. PICK w : w = v \o C
  OBVIOUS
<1>15. PICK t : t = w \o D
  OBVIOUS
<1>16. Line!Text = t
  BY <1>2, <1>3, <1>4, <1>5, <1>6, <1>12, <1>13, <1>14, <1>15 DEF Line!Text
<1>17. /\ u \in Seq(LineChars) /\ Len(u) = 3 + n
       /\ \A i \in 1..3 : u[i] = A[i]
       /\ \A j \in 1..n : u[3 + j] = comm[j]
  <2>1. u \in Seq(LineChars) /\ Joined(u, A, comm)
    BY <1>0, <1>1, <1>7, <1>12, JoinedAt
  <2> QED
    BY <1>1, <1>7, <2>1 DEF Joined
<1>18. /\ v \in Seq(LineChars) /\ Len(v) = 3 + n + 3
       /\ \A i \in 1..3 + n : v[i] = u[i]
       /\ \A j \in 1..3 : v[3 + n + j] = B[j]
  <2>1. v \in Seq(LineChars) /\ Joined(v, u, B)
    BY <1>8, <1>13, <1>17, JoinedAt
  <2> QED
    BY <1>8, <1>17, <2>1 DEF Joined
<1>19. /\ w \in Seq(LineChars) /\ Len(w) = 3 + n + 3 + 2 * m
       /\ \A i \in 1..3 + n + 3 : w[i] = v[i]
       /\ \A j \in 1..2 * m : w[3 + n + 3 + j] = C[j]
  <2>1. w \in Seq(LineChars) /\ Joined(w, v, C)
    BY <1>9, <1>11, <1>14, <1>18, JoinedAt
  <2> QED
    BY <1>11, <1>18, <2>1 DEF Joined
<1>20. /\ t \in Seq(LineChars) /\ Len(t) = 3 + n + 3 + 2 * m + 5
       /\ \A i \in 1..3 + n + 3 + 2 * m : t[i] = w[i]
       /\ \A j \in 1..5 : t[3 + n + 3 + 2 * m + j] = D[j]
  <2>1. t \in Seq(LineChars) /\ Joined(t, w, D)
    BY <1>10, <1>15, <1>19, JoinedAt
  <2> QED
    BY <1>10, <1>19, <2>1 DEF Joined
<1>21. Len(t) = n + 2 * Fields + 9
  <2>1. m + 1 = Fields
    BY <1>a, <1>2
  <2>2. 3 + n + 3 + 2 * m + 5 = n + 2 * (m + 1) + 9
    OBVIOUS
  <2> QED
    BY <1>20, <2>1, <2>2
<1>22. ASSUME NEW i \in 1..3 + n
       PROVE  t[i] = u[i]
  <2>1. i \in 1..3 + n + 3 /\ i \in 1..3 + n + 3 + 2 * m
    OBVIOUS
  <2> QED
    BY <1>18, <1>19, <1>20, <2>1
<1>23. Opens(t)
  <2>1. 1 \in 1..3 + n /\ 2 \in 1..3 + n /\ 3 \in 1..3 + n /\ 1 \in 1..3 /\ 2 \in 1..3 /\ 3 \in 1..3
    OBVIOUS
  <2>2. t[1] = "1" /\ t[2] = " " /\ t[3] = "("
    BY <1>7, <1>17, <1>22, <2>1
  <2>3. Len(t) >= 3
    BY <1>20
  <2> QED
    BY <2>2, <2>3 DEF Opens
<1>24. ASSUME NEW i \in 1..n
       PROVE  t[3 + i] = comm[i]
  <2>1. 3 + i \in 1..3 + n
    OBVIOUS
  <2> QED
    BY <1>17, <1>22, <2>1
<1>25. t[n + 4] = ")" /\ t[n + 5] = " " /\ t[n + 6] = state
  <2>1. ASSUME NEW j \in 1..3
        PROVE  t[3 + n + j] = B[j]
    <3>1. PICK i : i = 3 + n + j
      OBVIOUS
    <3>2. i \in 1..3 + n + 3 /\ i \in 1..3 + n + 3 + 2 * m
      BY <3>1
    <3>3. v[i] = B[j] /\ w[i] = v[i] /\ t[i] = w[i]
      BY <1>18, <1>19, <1>20, <3>1, <3>2
    <3> QED
      BY <3>1, <3>3
  <2>2. 1 \in 1..3 /\ 2 \in 1..3 /\ 3 \in 1..3 /\ 3 + n + 1 = n + 4 /\ 3 + n + 2 = n + 5 /\ 3 + n + 3 = n + 6
    OBVIOUS
  <2>3. t[3 + n + 1] = ")" /\ t[3 + n + 2] = " " /\ t[3 + n + 3] = state
    BY <1>8, <2>1, <2>2
  <2> QED
    BY <2>2, <2>3
<1>26. Record(From(t, n + 7), Fields, threads)
  <2>1. PICK p \in 1..Len(t) + 1 : p = n + 7
    BY <1>20
  <2>2. PICK rest : rest = From(t, p)
    OBVIOUS
  <2>3. /\ Len(rest) = Len(t) - p + 1
        /\ \A i \in 1..Len(t) - p + 1 : rest[i] = t[p + i - 1]
    <3>1. t \in Seq(LineChars)
      BY <1>20
    <3> QED
      BY <2>2, <3>1, FromFacts
  <2>4. m + 1 = Fields /\ Len(t) - p + 1 = 2 * Fields + 3 /\ Len(t) - p + 1 = 2 * m + 5
    <3>1. m + 1 = Fields
      BY <1>a, <1>2
    <3>2. Len(t) - p + 1 = 2 * (m + 1) + 3 /\ Len(t) - p + 1 = 2 * m + 5
      BY <1>20, <2>1
    <3> QED
      BY <3>1, <3>2
  <2>5. ASSUME NEW j \in 1..2 * m
        PROVE  rest[j] = C[j]
    <3>1. PICK i : i = 3 + n + 3 + j
      OBVIOUS
    <3>2. i \in 1..3 + n + 3 + 2 * m /\ j \in 1..Len(t) - p + 1 /\ p + j - 1 = i
      BY <2>1, <2>4, <3>1
    <3>3. rest[j] = t[p + j - 1]
      BY <2>3, <3>2
    <3>4. t[i] = w[i] /\ w[i] = C[j]
      BY <1>19, <1>20, <3>1, <3>2
    <3> QED
      BY <3>2, <3>3, <3>4
  <2>6. ASSUME NEW j \in 1..5
        PROVE  rest[2 * m + j] = D[j]
    <3>1. PICK k : k = 2 * m + j
      OBVIOUS
    <3>2. k \in 1..Len(t) - p + 1 /\ p + k - 1 = 3 + n + 3 + 2 * m + j
      BY <2>1, <2>4, <3>1
    <3>3. rest[k] = t[p + k - 1]
      BY <2>3, <3>2
    <3>4. t[3 + n + 3 + 2 * m + j] = D[j]
      BY <1>20
    <3> QED
      BY <3>1, <3>2, <3>3, <3>4
  <2>7. ASSUME NEW i \in 1..Fields
        PROVE  rest[2 * i - 1] = " " /\ rest[2 * i] = IF i = Fields THEN threads ELSE "0"
    <3>1. CASE i = Fields
      <4>1. 2 * i - 1 = 2 * m + 1 /\ 2 * i = 2 * m + 2 /\ 1 \in 1..5 /\ 2 \in 1..5
        <5>1. i = m + 1
          BY <2>4, <3>1
        <5> QED
          BY <5>1
      <4>2. rest[2 * m + 1] = " " /\ rest[2 * m + 2] = threads
        BY <1>10, <2>6, <4>1
      <4> QED
        BY <3>1, <4>1, <4>2
    <3>2. CASE i # Fields
      <4>1. i \in 1..m /\ 2 * i - 1 \in 1..2 * m /\ 2 * i \in 1..2 * m
        <5>1. i \in 1..m
          <6>1. Fields = m + 1
            BY <2>4
          <6> QED
            BY <3>2, <6>1
        <5> QED
          BY <5>1
      <4>2. C[2 * i - 1] = " " /\ C[2 * i] = "0"
        BY <1>9, <4>1 DEF IsPairs
      <4> QED
        BY <2>5, <3>2, <4>1, <4>2
    <3> QED
      BY <3>1, <3>2
  <2>8. /\ rest[2 * Fields + 1] = " " /\ rest[2 * Fields + 2] = "0" /\ rest[2 * Fields + 3] = "\n"
    <3>1. 2 * Fields + 1 = 2 * m + 3 /\ 2 * Fields + 2 = 2 * m + 4 /\ 2 * Fields + 3 = 2 * m + 5
      <4>1. Fields = m + 1
        BY <2>4
      <4> QED
        BY <4>1
    <3>2. 3 \in 1..5 /\ 4 \in 1..5 /\ 5 \in 1..5
      OBVIOUS
    <3>3. rest[2 * m + 3] = " " /\ rest[2 * m + 4] = "0" /\ rest[2 * m + 5] = "\n"
      BY <1>10, <2>6, <3>2
    <3> QED
      BY <3>1, <3>3
  <2> QED
    BY <2>1, <2>2, <2>3, <2>4, <2>7, <2>8 DEF Record
<1> QED
  BY <1>1, <1>16, <1>20, <1>21, <1>23, <1>24, <1>25, <1>26 DEF IsPrinted

(* A line of it, and what is made of the line. *)

LEMMA OddOrEven ==
  ASSUME NEW n \in Nat, NEW k \in 1..2 * n
  PROVE  \E i \in 1..n : k = 2 * i - 1 \/ k = 2 * i
<1>1. PICK i \in Nat : i = (k + 1) \div 2
  OBVIOUS
<1>2. k = 2 * i - 1 \/ k = 2 * i
  BY <1>1
<1> QED
  BY <1>2

LEMMA RecordChars ==
  ASSUME NEW str, NEW n \in Nat, NEW d \in {"1", "2"}, Record(str, n, d)
  PROVE  /\ \A k \in 1..2 * n + 2 : str[k] \in {" ", "0", "1", "2"}
         /\ str[2 * n + 3] = "\n"
<1>1. ASSUME NEW k \in 1..2 * n + 2
      PROVE  str[k] \in {" ", "0", "1", "2"}
  <2>1. CASE k \in 1..2 * n
    <3>1. PICK i \in 1..n : k = 2 * i - 1 \/ k = 2 * i
      BY <2>1, OddOrEven
    <3>2. str[2 * i - 1] = " " /\ str[2 * i] \in {d, "0"}
      BY DEF Record
    <3> QED
      BY <3>1, <3>2
  <2>2. CASE k \notin 1..2 * n
    <3>1. k = 2 * n + 1 \/ k = 2 * n + 2
      BY <2>2
    <3> QED
      BY <3>1 DEF Record
  <2> QED
    BY <2>1, <2>2
<1> QED
  BY <1>1 DEF Record

\* A line ends there for the first time.
EndsAt(str, k) == k \in 1..Len(str) /\ str[k] = "\n" /\ \A j \in 1..k - 1 : str[j] # "\n"

\* What fgets takes of the kernel's text.
IsLine(str, name, s, number) ==
  \E t, k :
    IsPrinted(t, Len(name), name, s, number) /\ EndsAt(t, k) /\ str = SubSeq(t, 1, k)

LEMMA FieldsFacts ==
  /\ Fields \in Nat /\ Fields >= 1
  /\ MaxComm \in Nat /\ MaxComm >= 1 /\ MaxComm < 2 * Fields + 2
<1>1. MaxComm \in Nat \ {0} /\ Fields \in Nat \ {0} /\ MaxComm < 2 * Fields + 2
  BY HelpersAssumption DEF Line!StatAssumption
<1> QED
  BY <1>1

LEMMA StatesFacts == \A s \in States : s \notin {" ", "\n", "(", ")"}
<1>1. States \cap {" ", "\n", "(", ")"} = {}
  BY HelpersAssumption DEF Line!StatAssumption
<1> QED
  BY <1>1

\* What is behind the comm has no parenthesis, and a line end where it ends.
LEMMA TextBehind ==
  ASSUME IsProcess, NEW t, NEW n \in Nat, IsPrinted(t, n, comm, state, threads)
  PROVE  /\ Len(t) = n + 2 * Fields + 9 /\ t[Len(t)] = "\n"
         /\ \A j \in n + 5..Len(t) : t[j] # ")"
         /\ \A j \in n + 4..Len(t) - 1 : t[j] # "\n"
<1>1. /\ t \in Seq(LineChars) /\ Len(t) = n + 2 * Fields + 9
      /\ t[n + 4] = ")" /\ t[n + 5] = " " /\ t[n + 6] = state
      /\ Record(From(t, n + 7), Fields, threads)
  BY DEF IsPrinted
<1>2. PICK p \in 1..Len(t) + 1 : p = n + 7
  <2>1. n + 7 \in 1..Len(t) + 1
    <3>1. PICK f \in Nat : f = Fields
      BY FieldsFacts
    <3>2. Len(t) = n + 2 * f + 9
      BY <1>1, <3>1
    <3> QED
      BY <3>2
  <2> QED
    BY <2>1
<1>3. PICK rest : rest = From(t, p)
  OBVIOUS
<1>4. \A i \in 1..Len(t) - p + 1 : rest[i] = t[p + i - 1]
  BY <1>1, <1>3, FromFacts
<1>5. PICK f \in Nat : f = Fields
  BY FieldsFacts
<1>6. /\ \A k \in 1..2 * f + 2 : rest[k] \in {" ", "0", "1", "2"}
      /\ rest[2 * f + 3] = "\n"
  <2>1. Record(rest, f, threads) /\ threads \in {"1", "2"}
    BY <1>1, <1>2, <1>3, <1>5 DEF IsProcess
  <2> QED
    BY <2>1, RecordChars
<1>7. Len(t) = n + 2 * f + 9 /\ Len(t) - p + 1 = 2 * f + 3
  <2>1. Len(t) = n + 2 * f + 9
    BY <1>1, <1>5
  <2> QED
    BY <1>2, <2>1
<1>8. ASSUME NEW j \in n + 7..Len(t)
      PROVE  t[j] # ")" /\ (j # Len(t) => t[j] # "\n") /\ (j = Len(t) => t[j] = "\n")
  <2>1. PICK i : i = j - n - 6
    OBVIOUS
  <2>2. /\ i \in 1..Len(t) - p + 1 /\ p + i - 1 = j
        /\ (j # Len(t) => i \in 1..2 * f + 2) /\ (j = Len(t) => i = 2 * f + 3)
    BY <1>2, <1>7, <2>1
  <2>3. t[j] = rest[i]
    BY <1>4, <2>2
  <2> QED
    BY <1>6, <2>2, <2>3
<1>9. Len(t) \in n + 7..Len(t)
  BY <1>7
<1>10. ASSUME NEW j \in n + 4..n + 6
       PROVE  t[j] # "\n" /\ (j # n + 4 => t[j] # ")")
  <2>1. state \notin {"\n", ")"}
    BY StatesFacts DEF IsProcess
  <2>2. j = n + 4 \/ j = n + 5 \/ j = n + 6
    OBVIOUS
  <2> QED
    BY <1>1, <2>1, <2>2
<1>11. ASSUME NEW j \in n + 5..Len(t)
       PROVE  t[j] # ")"
  <2>1. j \in n + 7..Len(t) \/ (j \in n + 4..n + 6 /\ j # n + 4)
    BY <1>7
  <2> QED
    BY <1>8, <1>10, <2>1
<1>12. ASSUME NEW j \in n + 4..Len(t) - 1
       PROVE  t[j] # "\n"
  <2>1. (j \in n + 7..Len(t) /\ j # Len(t)) \/ j \in n + 4..n + 6
    BY <1>7
  <2> QED
    BY <1>8, <1>10, <2>1
<1> QED
  BY <1>1, <1>8, <1>9, <1>11, <1>12

LEMMA LineRead ==
  ASSUME IsProcess,
         NEW str, str = SubSeq(Line!Text, 1, CHOOSE k \in 1..Len(Line!Text) :
                          Line!Text[k] = "\n" /\ \A j \in 1..k - 1 : Line!Text[j] # "\n")
  PROVE  IsLine(str, comm, state, threads)
<1>1. PICK t : t = Line!Text
  OBVIOUS
<1>2. PICK n \in Nat : n = Len(comm)
  BY LenProperties DEF IsProcess
<1>3. IsPrinted(t, n, comm, state, threads)
  BY <1>1, <1>2, TextIs
<1>4. Len(t) \in Nat /\ Len(t) >= 1 /\ t[Len(t)] = "\n"
  <2>1. Len(t) = n + 2 * Fields + 9 /\ t[Len(t)] = "\n"
    BY <1>3, TextBehind
  <2>2. n + 2 * Fields + 9 \in Nat /\ n + 2 * Fields + 9 >= 1
    BY FieldsFacts
  <2> QED
    BY <2>1, <2>2
<1> DEFINE ends == {k \in 1..Len(t) : t[k] = "\n"}
<1>5. ends \subseteq Nat /\ ends # {}
  BY <1>4
<1>6. PICK m \in ends : \A j \in ends : m <= j
  <2> HIDE DEF ends
  <2> QED
    BY <1>5, MinOfNats
<1>7. m \in 1..Len(t) /\ t[m] = "\n" /\ \A j \in 1..m - 1 : t[j] # "\n"
  BY <1>4, <1>6
<1>8. PICK k : k = CHOOSE e \in 1..Len(t) : t[e] = "\n" /\ \A j \in 1..e - 1 : t[j] # "\n"
  OBVIOUS
<1>9. EndsAt(t, k)
  BY <1>7, <1>8 DEF EndsAt
<1>10. str = SubSeq(t, 1, k)
  BY <1>1, <1>8
<1> QED
  BY <1>2, <1>3, <1>9, <1>10 DEF IsLine

\* What Parse adds for a line.
Counted(str) ==
  IF Line!AfterComm(str) = <<>> THEN Line!Nothing
  ELSE LET numbers == Line!Numbers(Tail(Line!AfterComm(str)))
       IN  IF Line!Incomplete(numbers) THEN Line!Nothing
           ELSE [state |-> Head(Line!AfterComm(str)), threads |-> Line!ThreadsOf(numbers)]

\* A comm without a line end: the line is the whole text.
LEMMA CountedWhole ==
  ASSUME IsProcess, NEW n \in Nat, n = Len(comm), NEW t, IsPrinted(t, n, comm, state, threads)
  PROVE  Counted(t) = Line!Right
<1>1. /\ t \in Seq(LineChars) /\ Opens(t) /\ Len(t) = n + 2 * Fields + 9
      /\ t[n + 4] = ")" /\ t[n + 5] = " " /\ t[n + 6] = state
      /\ Record(From(t, n + 7), Fields, threads)
  BY DEF IsPrinted
<1>2. \A j \in n + 5..Len(t) : t[j] # ")"
  BY TextBehind
<1>3. PICK c : c = n + 4
  OBVIOUS
<1>4. /\ c \in 4..Len(t) /\ c + 1 = n + 5 /\ c + 1 \in 1..Len(t) + 1 /\ c + 2 = n + 6
      /\ c + 2 \in 1..Len(t) /\ c + 3 = n + 7 /\ 1 \in 1..Len(t) - (c + 1) + 1
      /\ 2 \in 1..Len(t) - (c + 1) + 1 /\ 2 \in 1..Len(t) - (c + 1) + 2
  <2>1. PICK f \in Nat : f = Fields /\ f >= 1
    BY FieldsFacts
  <2>2. Len(t) = n + 2 * f + 9
    BY <1>1, <2>1
  <2> QED
    BY <1>3, <2>1, <2>2
<1>5. Line!AfterComm(t) = Line!SkipAll(From(t, c + 1), {" "})
  BY <1>1, <1>2, <1>3, <1>4, AfterCommIs
<1>6. PICK p \in 1..Len(t) + 1 : p = c + 1
  BY <1>4
<1>7. PICK rest : rest = From(t, p)
  OBVIOUS
<1>8. /\ rest \in Seq(LineChars) /\ Len(rest) = Len(t) - p + 1
      /\ \A i \in 1..Len(t) - p + 1 : rest[i] = t[p + i - 1]
  BY <1>1, <1>7, FromFacts
<1>9. rest[1] = " " /\ rest[2] = state
  <2>1. p + 1 - 1 = n + 5 /\ p + 2 - 1 = n + 6
    BY <1>3, <1>6
  <2>2. rest[1] = t[p + 1 - 1] /\ rest[2] = t[p + 2 - 1]
    BY <1>4, <1>6, <1>8
  <2> QED
    BY <1>1, <2>1, <2>2
<1>10. PICK q \in 1..Len(rest) + 1 : q = 2
  BY <1>4, <1>6, <1>8
<1>11. Line!SkipAll(rest, {" "}) = From(rest, q)
  <2>1. \A j \in 1..q - 1 : rest[j] \in {" "}
    <3>1. \A j \in 1..q - 1 : j = 1
      BY <1>10
    <3> QED
      BY <1>9, <3>1
  <2>2. rest[q] \notin {" "}
    BY <1>9, <1>10, StatesFacts DEF IsProcess
  <2> QED
    BY <1>8, <2>1, <2>2, Skipped
<1>12. From(rest, q) = From(t, c + 2)
  <2>1. q \in 1..Len(t) - p + 2
    BY <1>4, <1>6, <1>10
  <2>2. p + q - 1 = c + 2
    BY <1>3, <1>6, <1>10
  <2> QED
    <3>1. t \in Seq(LineChars)
      BY <1>1
    <3>2. From(rest, q) = From(t, p + q - 1)
      BY <1>7, <2>1, <3>1, FromFrom
    <3> QED
      BY <2>2, <3>2
<1>13. Line!AfterComm(t) = From(t, c + 2)
  BY <1>5, <1>6, <1>7, <1>11, <1>12
<1>14. /\ From(t, c + 2) # <<>> /\ Head(From(t, c + 2)) = state
       /\ Tail(From(t, c + 2)) = From(t, n + 7)
  <2>1. PICK s \in 1..Len(t) : s = c + 2
    BY <1>4
  <2>2. From(t, s) # <<>> /\ Head(From(t, s)) = t[s] /\ Tail(From(t, s)) = From(t, s + 1)
    BY <1>1, HeadOfFrom
  <2>3. s = n + 6 /\ s + 1 = n + 7
    BY <1>3, <2>1
  <2> QED
    BY <1>1, <2>1, <2>2, <2>3
<1>15. PICK record : record = From(t, n + 7)
  OBVIOUS
<1>16. PICK f \in Nat : f = Fields /\ f # 0
  <2>1. Fields # 0
    BY FieldsFacts
  <2> QED
    BY <2>1, FieldsFacts
<1>17. Len(Line!Numbers(record)) = f + 1 /\ Line!Numbers(record)[f] = Line!Digits[threads]
  <2>1. record \in Seq(LineChars)
    <3>1. PICK s \in 1..Len(t) + 1 : s = n + 7
      BY <1>3, <1>4
    <3> QED
      BY <1>1, <1>15, <3>1, FromFacts
  <2>2. Record(record, f, threads) /\ threads \in {"0", "1", "2"}
    BY <1>1, <1>15, <1>16 DEF IsProcess
  <2> QED
    BY <1>16, <2>1, <2>2, NumbersOfRecord
<1>18. PICK numbers : numbers = Line!Numbers(record)
  OBVIOUS
<1>19. ~Line!Incomplete(numbers) /\ Line!ThreadsOf(numbers) = Line!Digits[threads]
  <2>1. ~(Len(numbers) < Fields) /\ numbers[Fields] = Line!Digits[threads]
    BY <1>16, <1>17, <1>18
  <2> QED
    BY <2>1 DEF Line!Incomplete, Line!ThreadsOf
<1> QED
  BY <1>13, <1>14, <1>15, <1>18, <1>19 DEF Counted, Line!Right

\* A comm with one: the line ends within it, and what is left of it is too
\* short for a record.
LEMMA CountedCut ==
  ASSUME NEW str \in Seq(LineChars), Opens(str),
         str[Len(str)] = "\n", Len(str) <= MaxComm + 3, Len(str) >= 4
  PROVE  Counted(str) = Line!Nothing
<1>1. Len(str) \in Nat
  BY LenProperties
<1> DEFINE closing == {c \in 4..Len(str) : str[c] = ")"}
<1>2. CASE closing = {}
  <2>1. Line!AfterComm(str) = <<>>
    BY <1>2, AfterCommIs
  <2> QED
    BY <2>1 DEF Counted
<1>3. CASE closing # {}
  <2>1. PICK c \in closing : \A j \in closing : c >= j
    <3>1. closing \subseteq Nat /\ IsFiniteSet(closing)
      <4>1. IsFiniteSet(4..Len(str))
        BY <1>1, FS_Interval
      <4> QED
        BY <4>1, FS_Subset
    <3> HIDE DEF closing
    <3> QED
      BY <1>3, <3>1, MaxOfNats
  <2>2. c \in 4..Len(str) /\ str[c] = ")" /\ \A j \in c + 1..Len(str) : str[j] # ")"
    BY <1>1, <2>1
  <2>3. Line!AfterComm(str) = Line!SkipAll(From(str, c + 1), {" "})
    BY <2>2, AfterCommIs
  <2>4. PICK p \in 1..Len(str) + 1 : p = c + 1
    BY <1>1, <2>2
  <2>5. PICK rest : rest = From(str, p)
    OBVIOUS
  <2>6. rest \in Seq(LineChars) /\ Len(rest) = Len(str) - p + 1
    BY <2>5, FromFacts
  <2>7. PICK q \in 1..Len(rest) + 1 : Line!SkipAll(rest, {" "}) = From(rest, q)
    BY <2>6, SkippedSome
  <2>8. /\ p + q - 1 \in 1..Len(str) + 1 /\ p + q - 1 >= 5
        /\ q \in 1..Len(str) - p + 2
    <3>1. Len(str) \in Nat /\ c \in 4..Len(str) /\ p = c + 1 /\ q \in 1..(Len(str) - p + 1) + 1
      BY <1>1, <2>2, <2>4, <2>6, <2>7
    <3> QED
      BY ONLY <3>1
  <2>9. PICK s \in 1..Len(str) + 1 : s = p + q - 1 /\ s >= 5
    BY <2>8
  <2>10. Line!AfterComm(str) = From(str, s)
    <3>1. From(rest, q) = From(str, p + q - 1)
      BY <2>5, <2>8, FromFrom
    <3> QED
      BY <2>3, <2>4, <2>5, <2>7, <2>9, <3>1
  <2>11. CASE s = Len(str) + 1
    <3>1. From(str, s) = <<>>
      BY <1>1, <2>11, SubSeqEmpty DEF From
    <3> QED
      BY <2>10, <3>1 DEF Counted
  <2>12. CASE s # Len(str) + 1
    <3>1. s \in 1..Len(str) /\ s + 1 \in 1..Len(str) + 1
      BY <1>1, <2>12
    <3>2. From(str, s) # <<>> /\ Tail(From(str, s)) = From(str, s + 1)
      BY <3>1, HeadOfFrom
    <3>3. PICK u \in 1..Len(str) + 1 : u = s + 1
      BY <3>1
    <3>4. PICK tail : tail = From(str, u)
      OBVIOUS
    <3>5. /\ tail \in Seq(LineChars) /\ Len(tail) = Len(str) - u + 1
          /\ \A i \in 1..Len(str) - u + 1 : tail[i] = str[u + i - 1]
      BY <3>4, FromFacts
    <3>6. tail # <<>> => tail[Len(tail)] = "\n"
      <4> SUFFICES ASSUME tail # <<>>
                   PROVE  tail[Len(tail)] = "\n"
        OBVIOUS
      <4>1. Len(tail) # 0
        BY <3>5, EmptySeq
      <4>2. Len(tail) \in 1..Len(str) - u + 1 /\ u + Len(tail) - 1 = Len(str)
        BY <1>1, <3>3, <3>5, <4>1
      <4>3. tail[Len(tail)] = str[u + Len(tail) - 1]
        BY <3>5, <4>2
      <4> QED
        BY <4>2, <4>3
    <3>7. PICK numbers : numbers = Line!Numbers(tail)
      OBVIOUS
    <3>8. Len(numbers) \in Nat /\ 2 * Len(numbers) <= Len(tail)
      BY <3>5, <3>6, <3>7, NumbersAreFew
    <3>9. Len(numbers) < Fields
      <4>1. PICK f \in Nat, m \in Nat : f = Fields /\ m = MaxComm /\ m < 2 * f + 2
        BY FieldsFacts
      <4>2. Len(str) <= m + 3 /\ Len(tail) = Len(str) - (s + 1) + 1
        BY <3>3, <3>5, <4>1
      <4>3. 2 * Len(numbers) <= Len(str) - (s + 1) + 1
        BY <3>8, <4>2
      <4>4. Len(numbers) < f
        BY <1>1, <2>9, <3>8, <4>1, <4>2, <4>3
      <4> QED
        BY <4>1, <4>4
    <3>10. Line!Incomplete(numbers)
      BY <3>9 DEF Line!Incomplete
    <3> QED
      BY <2>10, <3>2, <3>3, <3>4, <3>7, <3>10 DEF Counted
  <2> QED
    BY <2>11, <2>12
<1> QED
  BY <1>2, <1>3

LEMMA ParsedRight ==
  ASSUME IsProcess, NEW str, IsLine(str, comm, state, threads)
  PROVE  Counted(str) = Line!Right \/ (Counted(str) = Line!Nothing /\ Line!Contains(comm, "\n"))
<1>1. PICK n \in Nat : n = Len(comm)
  BY LenProperties DEF IsProcess
<1>2. PICK t, k : IsPrinted(t, n, comm, state, threads) /\ EndsAt(t, k) /\ str = SubSeq(t, 1, k)
  BY <1>1 DEF IsLine
<1>3. /\ Len(t) = n + 2 * Fields + 9 /\ t[Len(t)] = "\n"
      /\ \A j \in n + 4..Len(t) - 1 : t[j] # "\n"
  BY <1>2, TextBehind
<1>4. t \in Seq(LineChars) /\ Opens(t) /\ \A i \in 1..n : t[3 + i] = comm[i]
  BY <1>2 DEF IsPrinted
<1>5. Len(t) \in Nat /\ k \in 1..Len(t) /\ t[k] = "\n" /\ \A j \in 1..k - 1 : t[j] # "\n"
  BY <1>2, <1>4, LenProperties DEF EndsAt
<1>6. k >= 4
  <2>1. k # 1 /\ k # 2 /\ k # 3
    BY <1>4, <1>5 DEF Opens
  <2> QED
    BY <1>5, <2>1
<1>7. CASE \A i \in 1..n : comm[i] # "\n"
  <2>1. k = Len(t)
    <3>1. ~(k \in n + 4..Len(t) - 1)
      BY <1>3, <1>5
    <3>2. ~(k \in 4..n + 3)
      <4> SUFFICES ASSUME k \in 4..n + 3
                   PROVE  FALSE
        OBVIOUS
      <4>1. PICK i : i = k - 3
        OBVIOUS
      <4>2. i \in 1..n /\ 3 + i = k
        BY <4>1
      <4> QED
        BY <1>4, <1>5, <1>7, <4>2
    <3> QED
      BY <1>5, <1>6, <3>1, <3>2
  <2>2. str = t
    <3>1. \A i \in 1..k : i \in 1..Len(t)
      BY <1>5
    <3>2. 1 \in 1..Len(t) /\ k \in 1..Len(t) /\ k - 1 + 1 = k /\ \A i \in 1..k : 1 + i - 1 = i
      BY <1>5
    <3>3. str \in Seq(LineChars) /\ Len(str) = k /\ \A i \in 1..k : str[i] = t[i]
      <4>1. /\ SubSeq(t, 1, k) \in Seq(LineChars)
            /\ Len(SubSeq(t, 1, k)) = k - 1 + 1
            /\ \A i \in 1..k - 1 + 1 : SubSeq(t, 1, k)[i] = t[1 + i - 1]
        BY <1>4, <3>2, PartOf
      <4> QED
        BY <1>2, <3>2, <4>1
    <3> QED
      BY <1>4, <2>1, <3>3, SeqEqual
  <2> QED
    BY <1>1, <1>2, <2>2, CountedWhole
<1>8. CASE \E i \in 1..n : comm[i] = "\n"
  <2>1. PICK i \in 1..n : comm[i] = "\n"
    BY <1>8
  <2>2. t[3 + i] = "\n"
    BY <1>4, <2>1
  <2>3. k <= 3 + i /\ k <= n + 3
    <3>1. ~(3 + i \in 1..k - 1)
      BY <1>5, <2>2
    <3> QED
      BY <1>5, <3>1
  <2>4. k <= MaxComm + 3
    <3>1. n \in 1..MaxComm
      BY <1>1 DEF IsProcess
    <3> QED
      BY <1>5, <2>3, <3>1, FieldsFacts
  <2>5. 1 \in 1..Len(t) /\ k \in 1..Len(t) /\ k - 1 + 1 = k /\ \A j \in 1..k : 1 + j - 1 = j
    BY <1>5
  <2>6. str \in Seq(LineChars) /\ Len(str) = k /\ \A j \in 1..k : str[j] = t[j]
    <3>1. /\ SubSeq(t, 1, k) \in Seq(LineChars)
          /\ Len(SubSeq(t, 1, k)) = k - 1 + 1
          /\ \A j \in 1..k - 1 + 1 : SubSeq(t, 1, k)[j] = t[1 + j - 1]
      BY <1>4, <2>5, PartOf
    <3> QED
      BY <1>2, <2>5, <3>1
  <2>7. Opens(str)
    <3>1. 1 \in 1..k /\ 2 \in 1..k /\ 3 \in 1..k /\ k >= 3
      BY <1>5, <1>6
    <3> QED
      BY <1>4, <2>6, <3>1 DEF Opens
  <2>8. Counted(str) = Line!Nothing
    <3>1. k \in 1..k
      BY <1>5
    <3>2. str[Len(str)] = "\n" /\ Len(str) <= MaxComm + 3 /\ Len(str) >= 4
      BY <1>5, <1>6, <2>4, <2>6, <3>1
    <3> QED
      BY <2>6, <2>7, <3>2, CountedCut
  <2>9. Line!Contains(comm, "\n")
    BY <1>1, <2>1 DEF Line!Contains
  <2> QED
    BY <2>8, <2>9
<1> QED
  BY <1>7, <1>8

\* A process that is walked has a comm, a line that is parsed is one of it.
LineInv ==
  helper = "line" =>
    /\ IsProcess /\ pc \in {"fgets", "parse", "done"}
    /\ pc = "parse" => IsLine(line, comm, state, threads)
    /\ Line!CountedRight

LEMMA LineStart == HelpersInit => LineInv
<1> SUFFICES ASSUME HelpersInit, helper = "line"
             PROVE  /\ IsProcess /\ pc \in {"fgets", "parse", "done"}
                    /\ pc = "parse" => IsLine(line, comm, state, threads)
                    /\ Line!CountedRight
  BY DEF LineInv
<1>1. Line!Init
  BY DEF HelpersInit
<1>2. IsProcess
  <2>1. PICK c \in MCChars : comm = <<c>>
    BY <1>1 DEF Line!Init
  <2>2. <<c>> \in Seq(MCChars) /\ Len(<<c>>) = 1
    OBVIOUS
  <2>3. Len(comm) \in 1..MaxComm
    BY <2>1, <2>2, FieldsFacts
  <2> QED
    BY <1>1, <2>1, <2>2, <2>3 DEF Line!Init, IsProcess
<1> QED
  BY <1>1, <1>2 DEF Line!Init, Line!CountedRight

LEMMA LineStep == LineInv /\ [HelpersNext]_helperVars => LineInv'
<1> SUFFICES ASSUME LineInv, [HelpersNext]_helperVars, helper' = "line"
             PROVE  /\ IsProcess' /\ pc' \in {"fgets", "parse", "done"}
                    /\ pc' = "parse" => IsLine(line', comm', state', threads')
                    /\ Line!CountedRight'
  BY DEF LineInv
<1>1. helper = "line" /\ (Line!Next \/ UNCHANGED lineVars)
  BY DEF HelpersNext, NextLine, Grow, NextGuards, helperVars
<1>2. /\ IsProcess /\ pc \in {"fgets", "parse", "done"}
      /\ pc = "parse" => IsLine(line, comm, state, threads)
      /\ Line!CountedRight
  BY <1>1 DEF LineInv
<1>3. ASSUME UNCHANGED <<comm, state, threads>>
      PROVE  IsProcess'
  BY <1>2, <1>3 DEF IsProcess
<1>4. CASE UNCHANGED lineVars
  <2>1. UNCHANGED <<comm, state, threads>> /\ pc' = pc /\ line' = line /\ counted' = counted
    BY <1>4 DEF lineVars
  <2>2. IsProcess'
    BY <1>3, <2>1
  <2>3. pc' \in {"fgets", "parse", "done"} /\ (pc' = "parse" => IsLine(line', comm', state', threads'))
    BY <1>2, <2>1
  <2>4. Line!CountedRight'
    BY <1>2, <2>1 DEF Line!CountedRight, Line!Right
  <2> QED
    BY <2>2, <2>3, <2>4
<1>5. CASE Line!Rename
  <2>1. pc' = "fgets" /\ state' = state /\ threads' = threads
    BY <1>5 DEF Line!Rename
  <2>2. comm' \in Seq(MCChars) /\ Len(comm') \in 1..MaxComm
    <3>1. PICK c \in MCChars : comm' = IF Len(comm) = MaxComm THEN <<c>> ELSE Append(comm, c)
      BY <1>5 DEF Line!Rename
    <3>2. comm \in Seq(MCChars) /\ Len(comm) \in 1..MaxComm
      BY <1>2 DEF IsProcess
    <3>3. CASE Len(comm) = MaxComm
      <4>1. <<c>> \in Seq(MCChars) /\ Len(<<c>>) = 1
        OBVIOUS
      <4> QED
        BY <3>1, <3>3, <4>1, FieldsFacts
    <3>4. CASE Len(comm) # MaxComm
      <4>1. Append(comm, c) \in Seq(MCChars) /\ Len(Append(comm, c)) = Len(comm) + 1
        BY <3>2, AppendProperties
      <4>2. Len(comm) + 1 \in 1..MaxComm
        BY <3>2, <3>4, FieldsFacts
      <4> QED
        BY <3>1, <3>4, <4>1, <4>2
    <3> QED
      BY <3>3, <3>4
  <2>3. IsProcess'
    BY <1>2, <2>1, <2>2 DEF IsProcess
  <2> QED
    BY <2>1, <2>3 DEF Line!CountedRight
<1>6. CASE Line!FGets
  <2>1. UNCHANGED <<comm, state, threads>> /\ pc' = "parse"
    BY <1>6 DEF Line!FGets
  <2>2. IsLine(line', comm, state, threads)
    <3>1. line' = SubSeq(Line!Text, 1, CHOOSE k \in 1..Len(Line!Text) :
                    Line!Text[k] = "\n" /\ \A j \in 1..k - 1 : Line!Text[j] # "\n")
      BY <1>6 DEF Line!FGets
    <3> QED
      BY <1>2, <3>1, LineRead
  <2>3. IsLine(line', comm', state', threads')
    BY <2>1, <2>2
  <2> QED
    BY <1>3, <2>1, <2>3 DEF Line!CountedRight
<1>7. CASE Line!Parse
  <2>1. UNCHANGED <<comm, state, threads>> /\ pc' = "done" /\ pc = "parse"
    BY <1>7 DEF Line!Parse
  <2>2. counted' = Counted(line)
    BY <1>7 DEF Line!Parse, Counted
  <2>3. Counted(line) = Line!Right \/ (Counted(line) = Line!Nothing /\ Line!Contains(comm, "\n"))
    BY <1>2, <2>1, ParsedRight
  <2>4. Line!CountedRight'
    BY <2>1, <2>2, <2>3 DEF Line!CountedRight, Line!Right, Line!Nothing, Line!Contains
  <2> QED
    BY <1>3, <2>1, <2>4
<1>8. CASE Line!Again
  <2>1. UNCHANGED <<comm, state, threads>> /\ pc' = "fgets"
    BY <1>8 DEF Line!Again
  <2> QED
    BY <1>3, <2>1 DEF Line!CountedRight
<1> QED
  BY <1>1, <1>4, <1>5, <1>6, <1>7, <1>8 DEF Line!Next

\* Whatever a process calls itself, be it a record of another one, it is
\* counted with its own state and threads, or not at all where its comm has a
\* line end (os_info.cpp:167-222).
THEOREM CommIsNoRecord ==
  HelpersSpec => []CountedRight
<1>1. HelpersInit => LineInv
  BY LineStart
<1>2. LineInv /\ [HelpersNext]_helperVars => LineInv'
  BY LineStep
<1>3. LineInv => CountedRight
  BY DEF LineInv, CountedRight
<1> QED
  BY <1>1, <1>2, <1>3, PTL DEF HelpersSpec
=============================================================================
