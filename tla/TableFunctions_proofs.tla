----------------------- MODULE TableFunctions_proofs -----------------------
(* Proofs about TableFunctions, for any number of queries, any readings of *)
(* the host and any chunk capacity.                                        *)
EXTENDS TableFunctions, SequenceTheorems, TLAPS

\* A unit is at least one byte, so a conversion yields a natural number.
LEMMA DivisorType ==
  ASSUME NEW unit \in MemoryUnit
  PROVE  Divisor(unit) \in Nat \ {0}
<1>1. Kilo \in Nat \ {0} /\ Kibi \in Nat \ {0}
  BY ScaleAssumption
<1>2. \A a, b \in Nat \ {0} : a * b \in Nat \ {0}
  OBVIOUS
<1> QED
  BY <1>1, <1>2 DEF Divisor, MemoryUnit

LEMMA ConvertType ==
  ASSUME NEW bytes \in Nat, NEW unit \in MemoryUnit
  PROVE  ConvertBytes(bytes, unit) \in Nat
BY DivisorType DEF ConvertBytes

\* What an integer division returns.
LEMMA QuotientIs ==
  ASSUME NEW a \in Nat, NEW d \in Nat \ {0}
  PROVE  /\ a \div d \in Nat /\ a % d \in 0..d - 1
         /\ a = d * (a \div d) + (a % d)
OBVIOUS

\* Quotients are ordered as what is divided, up to the remainder.
LEMMA QuotientBound ==
  ASSUME NEW d \in Nat \ {0}, NEW p \in Int, NEW q \in Int, NEW r \in 0..d - 1, d * p <= d * q + r
  PROVE  p <= q
<1> SUFFICES ASSUME p >= q + 1
             PROVE  FALSE
  OBVIOUS
<1>1. d * p >= d * (q + 1)
  OBVIOUS
<1>2. d * (q + 1) = d * q + d
  OBVIOUS
<1> QED
  BY <1>1, <1>2

\* What is used and what is free never exceed the total in any unit, and fall
\* short of it by at most one unit: each column of a row is rounded down by
\* itself (memory_unit_util.cpp:7).
THEOREM ConvertedPartsFit ==
  ASSUME NEW used \in Nat, NEW free \in Nat, NEW unit \in MemoryUnit
  PROVE  LET parts == ConvertBytes(used, unit) + ConvertBytes(free, unit)
             total == ConvertBytes(used + free, unit)
         IN  parts <= total /\ total <= parts + 1
<1>1. PICK d \in Nat \ {0} : d = Divisor(unit)
  BY DivisorType
<1>2. PICK p, r : p = used \div d /\ r = used % d
  OBVIOUS
<1>3. PICK q, s : q = free \div d /\ s = free % d
  OBVIOUS
<1>4. PICK sum \in Nat : sum = used + free
  OBVIOUS
<1>5. PICK t, u : t = sum \div d /\ u = sum % d
  OBVIOUS
<1>6. p \in Nat /\ r \in 0..d - 1 /\ used = d * p + r
  BY <1>2, QuotientIs
<1>7. q \in Nat /\ s \in 0..d - 1 /\ free = d * q + s
  BY <1>3, QuotientIs
<1>8. t \in Nat /\ u \in 0..d - 1 /\ used + free = d * t + u
  <2>1. t \in Nat /\ u \in 0..d - 1 /\ sum = d * t + u
    BY <1>5, QuotientIs
  <2> QED
    BY <1>4, <2>1
<1>9. d * (p + q) = d * p + d * q /\ d * (p + q + 1) = d * p + d * q + d
  BY <1>6, <1>7
<1>10. p + q <= t
  <2>1. d * (p + q) <= d * t + u
    BY <1>6, <1>7, <1>8, <1>9
  <2> QED
    BY <1>6, <1>7, <1>8, <2>1, QuotientBound
<1>11. t <= p + q + 1
  <2>1. d * t <= d * (p + q + 1) + (d - 1)
    BY <1>6, <1>7, <1>8, <1>9
  <2> QED
    BY <1>6, <1>7, <1>8, <2>1, QuotientBound
<1> QED
  BY <1>1, <1>2, <1>3, <1>5, <1>10, <1>4, <1>11 DEF ConvertBytes

\* View keeps the number of rows and yields numbers.
LEMMA ViewType ==
  ASSUME NEW rows \in Seq(Nat), NEW unit \in MemoryUnit
  PROVE  /\ View(rows, unit) \in Seq(Nat)
         /\ Len(View(rows, unit)) = Len(rows)
<1>1. \A i \in 1..Len(rows) : ConvertBytes(rows[i], unit) \in Nat
  BY ConvertType
<1> QED
  BY <1>1 DEF View

\* Functions without a "unit" argument report the rows as they were read.
LEMMA ViewBytes ==
  ASSUME NEW rows \in Seq(Nat)
  PROVE  View(rows, "BYTES") = rows
<1>1. \A n \in Nat : ConvertBytes(n, "BYTES") = n
  BY DEF ConvertBytes, Divisor
<1>2. "BYTES" \in MemoryUnit
  BY DEF MemoryUnit
<1>3. \A i \in 1..Len(rows) : View(rows, "BYTES")[i] = rows[i]
  BY <1>1 DEF View
<1> QED
  BY <1>2, <1>3, ViewType, SeqEqual

\* Where a batch stops, for any cursor and for one within the rows.
LEMMA BatchEndType ==
  ASSUME NEW size \in Nat, NEW index \in Nat
  PROVE  BatchEnd(index, size) \in 0..size
BY TableAssumption DEF BatchEnd

LEMMA BatchEndBounds ==
  ASSUME NEW size \in Nat, NEW index \in 0..size
  PROVE  /\ BatchEnd(index, size) \in index..size
         /\ BatchEnd(index, size) - index <= STANDARD_VECTOR_SIZE
         /\ BatchEnd(index, size) = index => size = index
BY TableAssumption DEF BatchEnd

\* A chunk has room for a row.
LEMMA ChunkHolds == STANDARD_VECTOR_SIZE \in Nat /\ 1 <= STANDARD_VECTOR_SIZE
BY TableAssumption

\* A first part of a sequence followed by the batch after it.
LEMMA BatchFollows ==
  ASSUME NEW s \in Seq(Nat), NEW i \in 0..Len(s), NEW j \in i..Len(s)
  PROVE  /\ SubSeq(s, 1, i) \o SubSeq(s, i + 1, j) = SubSeq(s, 1, j)
         /\ SubSeq(s, i + 1, j) \in Seq(Nat)
         /\ Len(SubSeq(s, i + 1, j)) = j - i
<1>1. 1 \in 1..Len(s)+1 /\ i \in 1-1..Len(s) /\ j \in i..Len(s)
  OBVIOUS
<1>2. SubSeq(s, 1, i) \o SubSeq(s, i + 1, j) = SubSeq(s, 1, j)
  BY <1>1, ConcatAdjacentSubSeq
<1>3. \A k \in i + 1..j : s[k] \in Nat
  OBVIOUS
<1>4. /\ SubSeq(s, i + 1, j) \in Seq(Nat)
      /\ Len(SubSeq(s, i + 1, j)) = IF i + 1 <= j THEN j - (i + 1) + 1 ELSE 0
  BY <1>3, SubSeqProperties
<1> QED
  BY <1>2, <1>4
-----------------------------------------------------------------------------
(* Type correctness. *)

\* What an execution holds of the host is a sequence of numbers.
LEMMA HostType ==
  ASSUME host \in HostStates, NEW f \in FunctionName
  PROVE  host[f] \in Samples[f] /\ host[f] \in Seq(Nat)
BY TableAssumption DEF HostStates

\* Starting a state, advancing it and finishing it.
LEMMA StateType ==
  /\ \A rows \in Seq(Nat) : FreshState(rows) \in GlobalState
  /\ \A s \in GlobalState : [s EXCEPT !.finished = TRUE] \in GlobalState
  /\ \A s \in GlobalState, n \in Nat, b \in BOOLEAN :
       [s EXCEPT !.current_index = n, !.finished = b] \in GlobalState
BY DEF FreshState, GlobalState

LEMMA TypeInit == Init => TypeOK
BY DEF Init, TypeOK, FreshState, GlobalState, Phase, MemoryUnit

LEMMA TypeNext == TypeOK /\ [Next]_vars => TypeOK'
<1> SUFFICES ASSUME TypeOK, [Next]_vars
             PROVE  TypeOK'
  OBVIOUS
<1> USE DEF TypeOK
<1>1. ASSUME HostChanges
      PROVE  TypeOK'
  <2>1. PICK f \in FunctionName : \E rows \in Samples[f] : host' = [host EXCEPT ![f] = rows]
    BY <1>1 DEF HostChanges
  <2>2. PICK rows \in Samples[f] : host' = [host EXCEPT ![f] = rows]
    BY <2>1
  <2>3. \A h : h \in HostStates <=>
          /\ h \in [FunctionName -> UNION {Samples[g] : g \in FunctionName}]
          /\ \A g \in FunctionName : h[g] \in Samples[g]
    BY DEF HostStates
  <2>4. host' \in [FunctionName -> UNION {Samples[g] : g \in FunctionName}]
    BY <2>2, <2>3
  <2>5. \A g \in FunctionName : host'[g] \in Samples[g]
    BY <2>2, <2>3
  <2>6. host' \in HostStates
    BY <2>3, <2>4, <2>5
  <2> QED
    BY <1>1, <2>6 DEF HostChanges
<1>2. ASSUME NEW q \in Queries, BindStep(q)
      PROVE  TypeOK'
  <2>1. \A f \in FunctionName, unit \in MemoryUnit : Bound(q, f, unit) => TypeOK'
    BY DEF Bound, Phase
  <2>2. BindThrows(q) => TypeOK'
    BY DEF BindThrows, Phase
  <2>3. \A arg : IsUnit(arg) => ParseUnit(arg) \in MemoryUnit
    BY DEF IsUnit, ParseUnit, Spelling, MemoryUnit
  <2>4. "BYTES" \in MemoryUnit
    BY DEF MemoryUnit
  <2>5. \A f \in FunctionName : \A arg : BindUnit(q, f, arg) => TypeOK'
    BY <2>1, <2>2, <2>3, <2>4 DEF BindUnit
  <2> QED
    BY <1>2, <2>1, <2>4, <2>5
    DEF BindStep, SysMemoryInfoBind, SysDiskInfoBind, SysCPUInfoBind,
        SysNetworkInfoBind, SysOSInfoBind, FunctionName
<1>3. ASSUME NEW q \in Queries, InitStep(q)
      PROVE  TypeOK'
  <2>1. ASSUME NEW f, NEW rows \in Seq(Nat), Start(q, f, rows)
        PROVE  TypeOK'
    <3>1. FreshState(rows) \in GlobalState
      BY StateType
    <3>2. <<>> \in Seq(Nat)
      OBVIOUS
    <3> QED
      BY <2>1, <3>1, <3>2 DEF Start, NewState, Phase
  <2>2. \A f \in FunctionName : host[f] \in Seq(Nat)
    BY HostType
  <2>3. <<>> \in Seq(Nat)
    OBVIOUS
  <2> QED
    BY <1>3, <2>1, <2>2, <2>3
    DEF InitStep, SysMemoryInfoInit, SysCPUInfoInit, SysDiskInfoInit,
        SysNetworkInfoInit, SysOSInfoInit, FunctionName
<1>4. ASSUME NEW q \in Queries, CallStep(q)
      PROVE  TypeOK'
  <2>1. PICK f \in FunctionName : Called(q, f)
    BY <1>4
    DEF CallStep, SysMemoryInfoFunc, SysCPUInfoFunc, SysDiskInfoFunc,
        SysNetworkInfoFunc, SysOSInfoFunc, FunctionName
  <2>2. /\ phase' \in [Queries -> Phase]
        /\ UNCHANGED <<host, bind, result>>
    BY <2>1 DEF Called, Phase
  <2> DEFINE Rest == /\ state' \in [Queries -> GlobalState]
                     /\ output' \in [Queries -> Seq(Nat)]
                     /\ seen' \in [Queries -> Seq(Nat)]
  <2>3. ReturnFinished(q) => Rest
    BY DEF ReturnFinished
  <2>4. ASSUME NEW rows \in Seq(Nat), EmitReading(q, rows)
        PROVE  Rest
    <3>1. View(rows, bind[q].unit) \in Seq(Nat)
      BY ViewType
    <3>2. [state[q] EXCEPT !.finished = TRUE] \in GlobalState
      BY StateType
    <3>3. state' = [state EXCEPT ![q] = [state[q] EXCEPT !.finished = TRUE]]
      BY <2>4 DEF EmitReading
    <3>4. state' \in [Queries -> GlobalState]
      BY <3>2, <3>3
    <3> QED
      BY <2>4, <3>1, <3>4 DEF EmitReading
  <2>5. ASSUME NEW values \in Seq(Nat), Len(values) = Len(state[q].rows),
               EmitBatch(q, values)
        PROVE  Rest
    <3> DEFINE first == state[q].current_index
               last == BatchEnd(first, Len(state[q].rows))
    <3>1. first \in Nat /\ Len(state[q].rows) \in Nat
      BY DEF GlobalState
    <3>2. last \in 0..Len(values)
      BY <2>5, <3>1, BatchEndType
    <3>3. SubSeq(values, first + 1, last) \in Seq(Nat)
      <4>1. \A i \in first + 1..last : values[i] \in Nat
        BY <3>1, <3>2
      <4> QED
        BY <3>1, <3>2, <4>1, SubSeqProperties
    <3>4. output' = [output EXCEPT ![q] = SubSeq(values, first + 1, last)]
      BY <2>5 DEF EmitBatch, Batch, AllServed
    <3>5. /\ state' = [state EXCEPT ![q] =
                     [@ EXCEPT !.current_index = last,
                               !.finished = last >= Len(state[q].rows)]]
          /\ seen' = seen
      BY <2>5 DEF EmitBatch, Batch, AllServed
    <3>6. state' \in [Queries -> GlobalState]
      <4> DEFINE next == [state[q] EXCEPT !.current_index = last,
                                           !.finished = last >= Len(state[q].rows)]
      <4>1. last \in Nat /\ (last >= Len(state[q].rows)) \in BOOLEAN
        BY <3>2
      <4>2. next \in GlobalState
        BY <4>1, StateType
      <4>3. state' = [state EXCEPT ![q] = next]
        BY <3>5
      <4> HIDE DEF next
      <4> QED
        BY <4>2, <4>3
    <3> QED
      BY <3>3, <3>4, <3>5, <3>6
  <2>6. ASSUME ~state[q].finished,
               output' = [output EXCEPT ![q] = state[q].rows],
               state' = [state EXCEPT ![q].finished = TRUE],
               UNCHANGED seen
        PROVE  Rest
    <3>1. state[q].rows \in Seq(Nat)
      BY DEF GlobalState
    <3> QED
      BY <2>6, <3>1, StateType
  <2>7. /\ state[q].rows \in Seq(Nat)
        /\ View(state[q].rows, bind[q].unit) \in Seq(Nat)
        /\ Len(View(state[q].rows, bind[q].unit)) = Len(state[q].rows)
    BY ViewType DEF GlobalState
  <2>8. \A g \in FunctionName : host[g] \in Seq(Nat)
    BY HostType
  <2>9. Rest
    <3>1. CASE SysMemoryInfoFunc(q)
      BY <3>1, <2>3, <2>4, <2>8 DEF SysMemoryInfoFunc, FunctionName
    <3>2. CASE SysCPUInfoFunc(q)
      BY <3>2, <2>3, <2>4, <2>8 DEF SysCPUInfoFunc, FunctionName
    <3>3. CASE SysDiskInfoFunc(q)
      BY <3>3, <2>3, <2>5, <2>7 DEF SysDiskInfoFunc
    <3>4. CASE SysNetworkInfoFunc(q)
      BY <3>4, <2>3, <2>5, <2>7 DEF SysNetworkInfoFunc
    <3>5. CASE SysOSInfoFunc(q)
      BY <3>5, <2>3, <2>6 DEF SysOSInfoFunc
    <3> QED
      BY <1>4, <3>1, <3>2, <3>3, <3>4, <3>5 DEF CallStep
  <2> QED
    BY <2>2, <2>9
<1>5. ASSUME NEW q \in Queries, Fetch(q)
      PROVE  TypeOK'
  <2>1. result[q] \o output[q] \in Seq(Nat)
    BY ConcatProperties
  <2> QED
    BY <1>5, <2>1 DEF Fetch, Phase
<1>6. ASSUME NEW q \in Queries, Close(q) \/ GetInfoThrows(q) \/ Deallocate(q)
      PROVE  TypeOK'
  <2>1. Discard(q)
    BY <1>6 DEF Close, GetInfoThrows, Deallocate
  <2>2. phase' \in [Queries -> Phase]
    BY <1>6 DEF Close, GetInfoThrows, Deallocate, Phase
  <2>3. <<>> \in Seq(Nat)
    OBVIOUS
  <2> QED
    BY <2>1, <2>2, <2>3, StateType DEF Discard
<1>7. CASE UNCHANGED vars
  BY <1>7 DEF vars
<1> QED
  BY <1>1, <1>2, <1>3, <1>4, <1>5, <1>6, <1>7 DEF Next

\* Every variable keeps its type, for any queries, readings and chunk size.
THEOREM TypeCorrect == Spec => []TypeOK
BY TypeInit, TypeNext, PTL DEF Spec
-----------------------------------------------------------------------------
(* The inductive invariant: each execution's bookkeeping and rows. *)

\* What is preserved for each query, and what a step leaves alone of it.
Held(q) ==
  /\ BookkeepingOf(q)
  /\ RowsInOrderOf(q)
  /\ Len(output[q]) <= STANDARD_VECTOR_SIZE

IInv == TypeOK /\ \A q \in Queries : Held(q)

Untouched(q) ==
  /\ phase'[q] = phase[q] /\ bind'[q] = bind[q] /\ state'[q] = state[q]
  /\ output'[q] = output[q] /\ result'[q] = result[q] /\ seen'[q] = seen[q]

OthersUntouched(q) == \A p \in Queries \ {q} : Untouched(p)

LEMMA Frame ==
  ASSUME NEW q, Held(q), Untouched(q)
  PROVE  Held(q)'
BY DEF Held, Untouched, BookkeepingOf, RowsInOrderOf, Served, Running

\* The parts of TypeOK that concern one query.
LEMMA TypeOfQuery ==
  ASSUME TypeOK, NEW q \in Queries
  PROVE  /\ phase[q] \in Phase
         /\ bind[q].fn \in FunctionName \cup {"none"}
         /\ bind[q].unit \in MemoryUnit
         /\ state[q] \in GlobalState
         /\ state[q].finished \in BOOLEAN
         /\ state[q].current_index \in Nat
         /\ state[q].rows \in Seq(Nat)
         /\ output[q] \in Seq(Nat)
         /\ result[q] \in Seq(Nat)
         /\ seen[q] \in Seq(Nat)
BY DEF TypeOK, GlobalState

\* Nothing is held of an execution that has not read anything.
LEMMA EmptyRows ==
  ASSUME NEW unit
  PROVE  /\ View(<<>>, unit) = <<>>
         /\ SubSeq(View(<<>>, unit), 1, 0) = <<>>
         /\ <<>> \o <<>> = <<>>
BY DEF View

LEMMA HeldInit ==
  ASSUME Init, NEW q \in Queries
  PROVE  Held(q)
<1>1. /\ phase[q] = "idle" /\ bind[q] = [fn |-> "none", unit |-> "BYTES"]
      /\ state[q] = FreshState(<<>>)
      /\ output[q] = <<>> /\ result[q] = <<>> /\ seen[q] = <<>>
  BY DEF Init
<1>2. BookkeepingOf(q)
  BY <1>1 DEF BookkeepingOf, FreshState, OneRow, ReadsInCall, Running
<1>3. RowsInOrderOf(q)
  BY <1>1, EmptyRows DEF RowsInOrderOf, Served, FreshState, OneRow
<1>4. Len(output[q]) <= STANDARD_VECTOR_SIZE
  BY <1>1, TableAssumption
<1> QED
  BY <1>2, <1>3, <1>4 DEF Held

\* An execution that is over, or not yet begun, holds nothing.
LEMMA HeldWhenClear ==
  ASSUME NEW q \in Queries,
         phase'[q] \in {"idle", "bound", "error"},
         bind'[q].fn \in FunctionName \cup {"none"},
         bind'[q].fn \notin {"sys_memory_info", "sys_disk_info"} => bind'[q].unit = "BYTES",
         state'[q] = FreshState(<<>>),
         output'[q] = <<>>, result'[q] = <<>>, seen'[q] = <<>>
  PROVE  Held(q)'
<1>1. BookkeepingOf(q)'
  BY DEF BookkeepingOf, FreshState, OneRow, ReadsInCall, Running
<1>2. RowsInOrderOf(q)'
  BY EmptyRows DEF RowsInOrderOf, Served, FreshState
<1>3. Len(output'[q]) <= STANDARD_VECTOR_SIZE
  BY TableAssumption
<1> QED
  BY <1>1, <1>2, <1>3 DEF Held

LEMMA HeldDiscard ==
  ASSUME TypeOK, NEW q \in Queries, Held(q),
         phase' \in [Queries -> Phase], phase'[q] \in {"idle", "bound"},
         \A p \in Queries \ {q} : phase'[p] = phase[p],
         Discard(q)
  PROVE  Held(q)' /\ OthersUntouched(q)
<1>1. /\ state'[q] = FreshState(<<>>)
      /\ output'[q] = <<>> /\ result'[q] = <<>> /\ seen'[q] = <<>>
      /\ bind' = bind
  BY DEF Discard, TypeOK
<1>2. OthersUntouched(q)
  BY DEF Discard, TypeOK, OthersUntouched, Untouched
<1>3. bind[q].fn \notin {"sys_memory_info", "sys_disk_info"} => bind[q].unit = "BYTES"
  BY DEF Held, BookkeepingOf
<1> QED
  BY <1>1, <1>2, <1>3, HeldWhenClear, TypeOfQuery

LEMMA HeldBound ==
  ASSUME TypeOK, NEW q \in Queries, Held(q),
         NEW f \in FunctionName, NEW unit \in MemoryUnit,
         f \notin {"sys_memory_info", "sys_disk_info"} => unit = "BYTES",
         Bound(q, f, unit)
  PROVE  Held(q)' /\ OthersUntouched(q)
<1>1. phase'[q] = "bound" /\ bind'[q] = [fn |-> f, unit |-> unit]
  BY DEF Bound, TypeOK
<1>2. /\ state'[q] = FreshState(<<>>)
      /\ output'[q] = <<>> /\ result'[q] = <<>> /\ seen'[q] = <<>>
  BY DEF Bound, Held, BookkeepingOf, Running
<1>3. OthersUntouched(q)
  BY DEF Bound, TypeOK, OthersUntouched, Untouched
<1> QED
  BY <1>1, <1>2, <1>3, HeldWhenClear

LEMMA HeldBindThrows ==
  ASSUME TypeOK, NEW q \in Queries, Held(q), BindThrows(q)
  PROVE  Held(q)' /\ OthersUntouched(q)
<1>1. phase'[q] = "error" /\ bind'[q] = bind[q]
  BY DEF BindThrows, TypeOK
<1>2. /\ state'[q] = FreshState(<<>>)
      /\ output'[q] = <<>> /\ result'[q] = <<>> /\ seen'[q] = <<>>
      /\ bind[q].fn \notin {"sys_memory_info", "sys_disk_info"} => bind[q].unit = "BYTES"
  BY DEF BindThrows, Held, BookkeepingOf, Running
<1>3. OthersUntouched(q)
  BY DEF BindThrows, TypeOK, OthersUntouched, Untouched
<1> QED
  BY <1>1, <1>2, <1>3, HeldWhenClear, TypeOfQuery

LEMMA HeldStart ==
  ASSUME TypeOK, NEW q \in Queries, Held(q),
         NEW f \in FunctionName, NEW rows \in Seq(Nat), Start(q, f, rows),
         f = "sys_os_info" => Len(rows) = 1
  PROVE  Held(q)' /\ OthersUntouched(q)
<1>1. /\ phase'[q] = "ready" /\ bind'[q] = bind[q] /\ bind[q].fn = f
      /\ state'[q] = [finished |-> FALSE, current_index |-> 0, rows |-> rows]
      /\ result'[q] = <<>> /\ seen'[q] = rows
  BY DEF Start, NewState, TypeOK, FreshState
<1>2. output'[q] = <<>>
  BY DEF Start, NewState, Held, BookkeepingOf
<1>3. OthersUntouched(q)
  BY DEF Start, NewState, TypeOK, OthersUntouched, Untouched
<1>4. f \notin {"sys_memory_info", "sys_disk_info"} => bind[q].unit = "BYTES"
  BY <1>1 DEF Held, BookkeepingOf
<1>5. BookkeepingOf(q)'
  BY <1>1, <1>2, <1>4
  DEF BookkeepingOf, Running, OneRow, ReadsInCall, FreshState, FunctionName
<1>6. RowsInOrderOf(q)'
  <2>1. Served(q)' = 0
    BY <1>1 DEF Served
  <2>2. SubSeq(View(rows, bind[q].unit), 1, 0) = <<>>
    BY SubSeqEmpty
  <2>3. <<>> \o <<>> = <<>>
    BY EmptyRows
  <2> QED
    BY <1>1, <1>2, <2>1, <2>2, <2>3 DEF RowsInOrderOf
<1>7. Len(output'[q]) <= STANDARD_VECTOR_SIZE
  BY <1>2, TableAssumption
<1> QED
  BY <1>3, <1>5, <1>6, <1>7 DEF Held

\* A finished function returns the empty chunk it was given.
LEMMA HeldReturnFinished ==
  ASSUME TypeOK, NEW q \in Queries, Held(q), NEW f, Called(q, f), ReturnFinished(q)
  PROVE  Held(q)' /\ OthersUntouched(q)
<1>1. /\ phase[q] = "ready" /\ phase'[q] = "returned" /\ state[q].finished
      /\ bind' = bind /\ result' = result
      /\ state' = state /\ output' = output /\ seen' = seen
  BY DEF Called, ReturnFinished, TypeOK
<1>2. OthersUntouched(q)
  BY <1>1 DEF Called, TypeOK, OthersUntouched, Untouched
<1>3. BookkeepingOf(q)'
  BY <1>1 DEF Held, BookkeepingOf, Running
<1>4. RowsInOrderOf(q)'
  BY <1>1 DEF Held, RowsInOrderOf, Served
<1> QED
  BY <1>1, <1>2, <1>3, <1>4 DEF Held

\* The first call of a function that reads the host: its one row.
LEMMA HeldEmitReading ==
  ASSUME TypeOK, NEW q \in Queries, Held(q), NEW f \in ReadsInCall,
         NEW rows \in Seq(Nat), Len(rows) = 1, Called(q, f), EmitReading(q, rows)
  PROVE  Held(q)' /\ OthersUntouched(q)
<1> DEFINE view == View(rows, bind[q].unit)
<1>1. /\ phase[q] = "ready" /\ phase'[q] = "returned"
      /\ bind' = bind /\ result' = result
      /\ bind[q].fn = f /\ ~state[q].finished
  BY DEF Called, EmitReading, TypeOK
<1>2. /\ output'[q] = view /\ seen'[q] = rows
      /\ state'[q] = [state[q] EXCEPT !.finished = TRUE]
  BY DEF EmitReading, TypeOK
<1>3. OthersUntouched(q)
  BY DEF Called, EmitReading, TypeOK, OthersUntouched, Untouched
<1>4. state'[q].finished = TRUE
  BY <1>2, TypeOfQuery DEF GlobalState
<1>5. view \in Seq(Nat) /\ Len(view) = 1
  BY ViewType, TypeOfQuery
<1>6. view # <<>>
  BY <1>5
<1>7. BookkeepingOf(q)'
  <2>1. /\ bind[q].fn \notin {"sys_memory_info", "sys_disk_info"} => bind[q].unit = "BYTES"
        /\ bind[q].fn \in {"sys_memory_info", "sys_cpu_info"}
    BY <1>1 DEF Held, BookkeepingOf, ReadsInCall
  <2> HIDE DEF view
  <2> QED
    BY <1>1, <1>2, <1>4, <1>6, <2>1 DEF BookkeepingOf, Running, OneRow, ReadsInCall
<1>8. RowsInOrderOf(q)'
  <2>1. Served(q) = 0 /\ Served(q)' = 1
    BY <1>1, <1>4 DEF Served, OneRow, ReadsInCall
  <2>2. result[q] \o output[q] = <<>>
    BY <2>1, SubSeqEmpty DEF Held, RowsInOrderOf
  <2>3. result[q] = <<>>
    BY <2>2, TypeOfQuery, ConcatProperties
  <2>4. <<>> \o view = view
    BY <1>5, ConcatEmptySeq
  <2>5. SubSeq(view, 1, 1) = view
    BY <1>5, SubSeqFull
  <2> QED
    BY <1>1, <1>2, <2>1, <2>3, <2>4, <2>5 DEF RowsInOrderOf
<1>9. Len(output'[q]) <= STANDARD_VECTOR_SIZE
  BY <1>2, <1>5, ChunkHolds
<1> QED
  BY <1>3, <1>7, <1>8, <1>9 DEF Held

\* The one row of sys_os_info, read in Init.
LEMMA HeldEmitOS ==
  ASSUME TypeOK, NEW q \in Queries, Held(q), Called(q, "sys_os_info"),
         ~state[q].finished,
         output' = [output EXCEPT ![q] = state[q].rows],
         state' = [state EXCEPT ![q].finished = TRUE],
         UNCHANGED seen
  PROVE  Held(q)' /\ OthersUntouched(q)
<1> DEFINE rows == state[q].rows
<1>1. /\ phase[q] = "ready" /\ phase'[q] = "returned"
      /\ bind' = bind /\ result' = result /\ seen' = seen
      /\ bind[q].fn = "sys_os_info"
  BY DEF Called, TypeOK
<1>2. /\ output'[q] = rows
      /\ state'[q] = [state[q] EXCEPT !.finished = TRUE]
  BY DEF TypeOK
<1>3. OthersUntouched(q)
  BY DEF Called, TypeOK, OthersUntouched, Untouched
<1>4. state'[q].finished = TRUE /\ state'[q].rows = rows
  BY <1>2, TypeOfQuery DEF GlobalState
<1>5. /\ rows \in Seq(Nat) /\ Len(rows) = 1 /\ seen[q] = rows
      /\ bind[q].unit = "BYTES"
  BY <1>1, TypeOfQuery DEF Held, BookkeepingOf, Running, ReadsInCall
<1>6. rows # <<>>
  <2>1. ASSUME rows = <<>>
        PROVE  Len(rows) = 0
    BY <2>1
  <2> QED
    BY <1>5, <2>1
<1>7. BookkeepingOf(q)'
  <2> HIDE DEF rows
  <2> QED
    BY <1>1, <1>2, <1>4, <1>5, <1>6 DEF BookkeepingOf, Running, OneRow, ReadsInCall
<1>8. RowsInOrderOf(q)'
  <2>1. Served(q) = 0 /\ Served(q)' = 1
    BY <1>1, <1>4 DEF Served, OneRow
  <2>2. result[q] \o output[q] = <<>>
    BY <2>1, SubSeqEmpty DEF Held, RowsInOrderOf
  <2>3. result[q] = <<>>
    BY <2>2, TypeOfQuery, ConcatProperties
  <2>4. <<>> \o rows = rows
    BY <1>5, ConcatEmptySeq
  <2>5. SubSeq(rows, 1, 1) = rows /\ View(rows, "BYTES") = rows
    BY <1>5, SubSeqFull, ViewBytes
  <2> QED
    BY <1>1, <1>2, <1>5, <2>1, <2>3, <2>4, <2>5 DEF RowsInOrderOf
<1>9. Len(output'[q]) <= STANDARD_VECTOR_SIZE
  BY <1>2, <1>5, ChunkHolds
<1> QED
  BY <1>3, <1>7, <1>8, <1>9 DEF Held

\* One batch of a function that serves from its copy of the reading.
LEMMA HeldEmitBatch ==
  ASSUME TypeOK, NEW q \in Queries, Held(q),
         NEW f \in {"sys_disk_info", "sys_network_info"}, Called(q, f),
         EmitBatch(q, View(state[q].rows, bind[q].unit))
  PROVE  Held(q)' /\ OthersUntouched(q)
<1> DEFINE rows == state[q].rows
           view == View(rows, bind[q].unit)
           first == state[q].current_index
           last == BatchEnd(first, Len(rows))
<1>1. /\ phase[q] = "ready" /\ phase'[q] = "returned"
      /\ bind' = bind /\ result' = result /\ seen' = seen
      /\ bind[q].fn = f /\ ~state[q].finished
  BY DEF Called, EmitBatch, Batch, AllServed, TypeOK
<1>2. /\ output'[q] = SubSeq(view, first + 1, last)
      /\ state'[q] = [state[q] EXCEPT !.current_index = last,
                                      !.finished = last >= Len(rows)]
  BY DEF EmitBatch, Batch, AllServed, TypeOK
<1>3. OthersUntouched(q)
  BY DEF Called, EmitBatch, Batch, AllServed, TypeOK, OthersUntouched, Untouched
<1>4. /\ state'[q].finished = (last >= Len(rows))
      /\ state'[q].current_index = last
      /\ state'[q].rows = rows
  BY <1>2, TypeOfQuery DEF GlobalState
<1>5. /\ seen[q] = rows /\ output[q] = <<>>
      /\ f \notin {"sys_memory_info", "sys_disk_info"} => bind[q].unit = "BYTES"
      /\ first <= Len(rows)
      /\ first = Len(rows) => first = 0
  BY <1>1 DEF Held, BookkeepingOf, ReadsInCall, OneRow
<1>6. /\ rows \in Seq(Nat) /\ Len(rows) \in Nat /\ first \in 0..Len(rows)
      /\ view \in Seq(Nat) /\ Len(view) = Len(rows)
  BY <1>5, TypeOfQuery, ViewType
<1>7. /\ last \in first..Len(rows)
      /\ last - first <= STANDARD_VECTOR_SIZE
      /\ last = first => Len(rows) = first
  BY <1>6, BatchEndBounds
<1>8. /\ SubSeq(view, 1, first) \o SubSeq(view, first + 1, last) = SubSeq(view, 1, last)
      /\ SubSeq(view, first + 1, last) \in Seq(Nat)
      /\ Len(SubSeq(view, first + 1, last)) = last - first
  BY <1>6, <1>7, BatchFollows
<1> HIDE DEF rows, view, first, last
<1>9. BookkeepingOf(q)'
  <2>1. output'[q] = <<>> => last = first
    <3>1. first \in Nat /\ last \in Nat /\ Len(output'[q]) = last - first
      BY <1>2, <1>6, <1>7, <1>8
    <3>2. output'[q] = <<>> => Len(output'[q]) = 0
      OBVIOUS
    <3> QED
      BY <3>1, <3>2
  <2>2. last >= Len(rows) <=> last = Len(rows)
    BY <1>6, <1>7
  <2>3. last \in Nat /\ last <= Len(rows)
    BY <1>6, <1>7
  <2> QED
    BY <1>1, <1>4, <1>5, <1>6, <1>7, <2>1, <2>2, <2>3
    DEF BookkeepingOf, Running, OneRow, ReadsInCall
<1>10. RowsInOrderOf(q)'
  <2>1. Served(q) = first /\ Served(q)' = last
    BY <1>1, <1>4 DEF Served, OneRow, first
  <2>2. result[q] \o <<>> = SubSeq(view, 1, first)
    BY <1>5, <2>1 DEF Held, RowsInOrderOf, view
  <2>3. result[q] = SubSeq(view, 1, first)
    BY <2>2, TypeOfQuery, ConcatEmptySeq
  <2> QED
    BY <1>1, <1>2, <1>5, <1>8, <2>1, <2>3 DEF RowsInOrderOf, view
<1>11. Len(output'[q]) <= STANDARD_VECTOR_SIZE
  BY <1>2, <1>7, <1>8
<1> QED
  BY <1>3, <1>9, <1>10, <1>11 DEF Held

\* The engine takes a chunk, and stops when it is empty.
LEMMA HeldFetch ==
  ASSUME TypeOK, NEW q \in Queries, Held(q), Fetch(q)
  PROVE  Held(q)' /\ OthersUntouched(q)
<1>1. /\ phase[q] = "returned"
      /\ phase'[q] = IF output[q] = <<>> THEN "done" ELSE "ready"
      /\ bind' = bind /\ state' = state /\ seen' = seen
      /\ result'[q] = result[q] \o output[q] /\ output'[q] = <<>>
  BY DEF Fetch, TypeOK
<1>2. OthersUntouched(q)
  BY DEF Fetch, TypeOK, OthersUntouched, Untouched
<1>3. BookkeepingOf(q)'
  BY <1>1 DEF Held, BookkeepingOf, Running
<1>4. RowsInOrderOf(q)'
  <2>1. result[q] \o output[q] \in Seq(Nat)
    BY TypeOfQuery, ConcatProperties
  <2>2. (result[q] \o output[q]) \o <<>> = result[q] \o output[q]
    BY <2>1, ConcatEmptySeq
  <2> QED
    BY <1>1, <2>2 DEF Held, RowsInOrderOf, Served
<1>5. Len(output'[q]) <= STANDARD_VECTOR_SIZE
  BY <1>1, ChunkHolds
<1> QED
  BY <1>2, <1>3, <1>4, <1>5 DEF Held

LEMMA HeldCallStep ==
  ASSUME TypeOK, NEW q \in Queries, Held(q), CallStep(q)
  PROVE  Held(q)' /\ OthersUntouched(q)
<1>1. \A f \in OneRow : host[f] \in Seq(Nat) /\ Len(host[f]) = 1
  <2>1. ASSUME NEW f \in OneRow
        PROVE  host[f] \in Samples[f] /\ f \in FunctionName
    BY HostType DEF TypeOK, OneRow, FunctionName
  <2> QED
    BY <2>1, TableAssumption
<1>2. CASE SysMemoryInfoFunc(q)
  <2>1. CASE ReturnFinished(q)
    BY <1>2, <2>1, HeldReturnFinished DEF SysMemoryInfoFunc
  <2>2. CASE EmitReading(q, host["sys_memory_info"])
    BY <1>1, <1>2, <2>2, HeldEmitReading DEF SysMemoryInfoFunc, ReadsInCall, OneRow
  <2> QED
    BY <1>2, <2>1, <2>2 DEF SysMemoryInfoFunc
<1>3. CASE SysCPUInfoFunc(q)
  <2>1. CASE ReturnFinished(q)
    BY <1>3, <2>1, HeldReturnFinished DEF SysCPUInfoFunc
  <2>2. CASE EmitReading(q, host["sys_cpu_info"])
    BY <1>1, <1>3, <2>2, HeldEmitReading DEF SysCPUInfoFunc, ReadsInCall, OneRow
  <2> QED
    BY <1>3, <2>1, <2>2 DEF SysCPUInfoFunc
<1>4. CASE SysDiskInfoFunc(q)
  BY <1>4, HeldReturnFinished, HeldEmitBatch DEF SysDiskInfoFunc
<1>5. CASE SysNetworkInfoFunc(q)
  <2>1. CASE ReturnFinished(q)
    BY <1>5, <2>1, HeldReturnFinished DEF SysNetworkInfoFunc
  <2>2. CASE EmitBatch(q, state[q].rows)
    <3>1. bind[q].unit = "BYTES" /\ state[q].rows \in Seq(Nat)
      BY <1>5, TypeOfQuery DEF SysNetworkInfoFunc, Called, Held, BookkeepingOf
    <3>2. View(state[q].rows, bind[q].unit) = state[q].rows
      BY <3>1, ViewBytes
    <3> QED
      BY <1>5, <2>2, <3>2, HeldEmitBatch DEF SysNetworkInfoFunc
  <2> QED
    BY <1>5, <2>1, <2>2 DEF SysNetworkInfoFunc
<1>6. CASE SysOSInfoFunc(q)
  BY <1>6, HeldReturnFinished, HeldEmitOS DEF SysOSInfoFunc
<1> QED
  BY <1>2, <1>3, <1>4, <1>5, <1>6 DEF CallStep

LEMMA HeldInitStep ==
  ASSUME TypeOK, NEW q \in Queries, Held(q), InitStep(q)
  PROVE  Held(q)' /\ OthersUntouched(q)
<1>1. \A f \in FunctionName : host[f] \in Seq(Nat) /\ host[f] \in Samples[f]
  BY HostType DEF TypeOK
<1>2. "sys_os_info" \in FunctionName /\ "sys_os_info" \in OneRow
  BY DEF FunctionName, OneRow
<1>3. Len(host["sys_os_info"]) = 1
  BY <1>1, <1>2, TableAssumption
<1>4. <<>> \in Seq(Nat)
  OBVIOUS
<1>5. CASE SysMemoryInfoInit(q)
  BY <1>4, <1>5, HeldStart DEF SysMemoryInfoInit, FunctionName
<1>6. CASE SysCPUInfoInit(q)
  BY <1>4, <1>6, HeldStart DEF SysCPUInfoInit, FunctionName
<1>7. CASE SysDiskInfoInit(q)
  BY <1>1, <1>7, HeldStart DEF SysDiskInfoInit, FunctionName
<1>8. CASE SysNetworkInfoInit(q)
  BY <1>1, <1>8, HeldStart DEF SysNetworkInfoInit, FunctionName
<1>9. CASE SysOSInfoInit(q)
  BY <1>1, <1>2, <1>3, <1>9, HeldStart DEF SysOSInfoInit
<1> QED
  BY <1>5, <1>6, <1>7, <1>8, <1>9 DEF InitStep

LEMMA HeldBindStep ==
  ASSUME TypeOK, NEW q \in Queries, Held(q), BindStep(q)
  PROVE  Held(q)' /\ OthersUntouched(q)
<1>1. "BYTES" \in MemoryUnit
  BY DEF MemoryUnit
<1>2. \A arg : IsUnit(arg) => ParseUnit(arg) \in MemoryUnit
  BY DEF IsUnit, ParseUnit, Spelling, MemoryUnit
<1>3. ASSUME NEW f \in {"sys_memory_info", "sys_disk_info"}, NEW arg, BindUnit(q, f, arg)
      PROVE  Held(q)' /\ OthersUntouched(q)
  <2>1. f \in FunctionName
    BY DEF FunctionName
  <2>2. CASE BindThrows(q)
    BY <2>2, HeldBindThrows
  <2>3. CASE \E unit \in MemoryUnit : Bound(q, f, unit)
    BY <2>1, <2>3, HeldBound
  <2> QED
    BY <1>1, <1>2, <1>3, <2>2, <2>3 DEF BindUnit
<1>4. ASSUME NEW f \in FunctionName, Bound(q, f, "BYTES")
      PROVE  Held(q)' /\ OthersUntouched(q)
  BY <1>1, <1>4, HeldBound
<1> QED
  BY <1>3, <1>4
  DEF BindStep, SysMemoryInfoBind, SysDiskInfoBind, SysCPUInfoBind,
      SysNetworkInfoBind, SysOSInfoBind, FunctionName

\* Giving up, failing and letting go of a query.
LEMMA HeldEnd ==
  ASSUME TypeOK, NEW q \in Queries, Held(q),
         Close(q) \/ GetInfoThrows(q) \/ Deallocate(q)
  PROVE  Held(q)' /\ OthersUntouched(q)
<1>1. /\ phase' \in [Queries -> Phase]
      /\ phase'[q] \in {"idle", "bound"}
      /\ \A p \in Queries \ {q} : phase'[p] = phase[p]
  BY DEF Close, GetInfoThrows, Deallocate, TypeOK, Phase
<1>2. Discard(q)
  BY DEF Close, GetInfoThrows, Deallocate
<1> QED
  BY <1>1, <1>2, HeldDiscard

LEMMA InvNext == IInv /\ [Next]_vars => IInv'
<1> SUFFICES ASSUME IInv, [Next]_vars
             PROVE  \A p \in Queries : Held(p)'
  BY TypeNext DEF IInv
<1>1. TypeOK /\ \A p \in Queries : Held(p)
  BY DEF IInv
<1>2. ASSUME NEW q \in Queries, Held(q)', OthersUntouched(q)
      PROVE  \A p \in Queries : Held(p)'
  BY <1>1, <1>2, Frame DEF OthersUntouched
<1>3. CASE HostChanges \/ UNCHANGED vars
  <2>1. \A p \in Queries : Untouched(p)
    BY <1>3 DEF HostChanges, vars, Untouched
  <2> QED
    BY <1>1, <2>1, Frame
<1>4. ASSUME NEW q \in Queries, BindStep(q)
      PROVE  \A p \in Queries : Held(p)'
  BY <1>1, <1>2, <1>4, HeldBindStep
<1>5. ASSUME NEW q \in Queries, InitStep(q)
      PROVE  \A p \in Queries : Held(p)'
  BY <1>1, <1>2, <1>5, HeldInitStep
<1>6. ASSUME NEW q \in Queries, CallStep(q)
      PROVE  \A p \in Queries : Held(p)'
  BY <1>1, <1>2, <1>6, HeldCallStep
<1>7. ASSUME NEW q \in Queries, Fetch(q)
      PROVE  \A p \in Queries : Held(p)'
  BY <1>1, <1>2, <1>7, HeldFetch
<1>8. ASSUME NEW q \in Queries, Close(q) \/ GetInfoThrows(q) \/ Deallocate(q)
      PROVE  \A p \in Queries : Held(p)'
  BY <1>1, <1>2, <1>8, HeldEnd
<1> QED
  BY <1>3, <1>4, <1>5, <1>6, <1>7, <1>8 DEF Next

THEOREM Invariance == Spec => []IInv
<1>1. Init => IInv
  BY TypeInit, HeldInit DEF IInv
<1> QED
  BY <1>1, InvNext, PTL DEF Spec

\* Bookkeeping holds whatever the number of queries and of rows.
THEOREM BookkeepingHolds == Spec => []Bookkeeping
<1>1. IInv => Bookkeeping
  BY DEF IInv, Held, Bookkeeping
<1> QED
  BY <1>1, Invariance, PTL

\* A client always has the first rows of one reading, in order.
THEOREM RowsStayInOrder == Spec => []RowsInOrder
<1>1. IInv => RowsInOrder
  BY DEF IInv, Held, RowsInOrder
<1> QED
  BY <1>1, Invariance, PTL

\* No chunk is overrun.
THEOREM ChunkNeverOverrun == Spec => []ChunkFits
<1>1. IInv => ChunkFits
  BY DEF IInv, Held, ChunkFits
<1> QED
  BY <1>1, Invariance, PTL

\* A finished function has returned its whole reading.
LEMMA WholeWhenFinished ==
  ASSUME IInv, NEW q \in Queries, state[q].finished, phase[q] \in {"returned", "done"}
  PROVE  result[q] \o output[q] = View(seen[q], bind[q].unit)
<1> DEFINE view == View(seen[q], bind[q].unit)
<1>1. TypeOK /\ BookkeepingOf(q) /\ RowsInOrderOf(q)
  BY DEF IInv, Held
<1>2. view \in Seq(Nat) /\ Len(view) = Len(seen[q])
  BY <1>1, TypeOfQuery, ViewType
<1>3. Served(q) = Len(seen[q])
  BY <1>1 DEF BookkeepingOf, Served, OneRow, ReadsInCall, Running
<1>4. SubSeq(view, 1, Len(view)) = view
  BY <1>2, SubSeqFull
<1> QED
  BY <1>1, <1>2, <1>3, <1>4 DEF RowsInOrderOf

\* A scan that ended by itself delivered its whole reading.
THEOREM NoRowLost == Spec => []CompleteWhenDone
<1>1. ASSUME IInv, NEW q \in Queries, phase[q] = "done"
      PROVE  result[q] = View(seen[q], bind[q].unit)
  <2>1. TypeOK /\ state[q].finished /\ output[q] = <<>>
    BY <1>1 DEF IInv, Held, BookkeepingOf
  <2>2. result[q] \o output[q] = View(seen[q], bind[q].unit)
    BY <1>1, <2>1, WholeWhenFinished
  <2>3. result[q] \o <<>> = result[q]
    BY <2>1, TypeOfQuery, ConcatEmptySeq
  <2> QED
    BY <2>1, <2>2, <2>3
<1>2. IInv => CompleteWhenDone
  BY <1>1 DEF CompleteWhenDone
<1> QED
  BY <1>2, Invariance, PTL
-----------------------------------------------------------------------------
(* Refinement: TableFunctions implements TableScan. *)

\* The abstract specification converts units as the code does.
LEMMA SameView ==
  \A rows, unit : Scan!View(rows, unit) = View(rows, unit)
BY DEF Scan!View, View, Scan!ConvertBytes, ConvertBytes, Scan!Divisor, Divisor

\* A step on q changes the abstract state at q only.
LEMMA Mapped ==
  ASSUME NEW q \in Queries, OthersUntouched(q)
  PROVE  /\ scanStatus' = [scanStatus EXCEPT ![q] = ScanStatus(q)']
         /\ scanReading' = [scanReading EXCEPT ![q] = View(seen'[q], bind'[q].unit)]
         /\ scanDelivered' = [scanDelivered EXCEPT ![q] = result'[q] \o output'[q]]
<1>1. \A p \in Queries \ {q} :
        /\ ScanStatus(p)' = ScanStatus(p)
        /\ View(seen'[p], bind'[p].unit) = View(seen[p], bind[p].unit)
        /\ result'[p] \o output'[p] = result[p] \o output[p]
  BY DEF OthersUntouched, Untouched, ScanStatus, Running, HostWasRead
<1>2. scanStatus' = [scanStatus EXCEPT ![q] = ScanStatus(q)']
  BY <1>1 DEF scanStatus
<1>3. scanReading' = [scanReading EXCEPT ![q] = View(seen'[q], bind'[q].unit)]
  BY <1>1 DEF scanReading
<1>4. scanDelivered' = [scanDelivered EXCEPT ![q] = result'[q] \o output'[q]]
  BY <1>1 DEF scanDelivered
<1> QED
  BY <1>2, <1>3, <1>4

\* A step that keeps what the scan has promised is a stutter.
LEMMA MappedStutter ==
  ASSUME NEW q \in Queries, OthersUntouched(q),
         UNCHANGED <<host, bind>>,
         ScanStatus(q)' = ScanStatus(q),
         View(seen'[q], bind'[q].unit) = View(seen[q], bind[q].unit),
         result'[q] \o output'[q] = result[q] \o output[q]
  PROVE  UNCHANGED Scan!vars
<1>1. scanStatus' = scanStatus
  BY Mapped DEF scanStatus
<1>2. scanReading' = scanReading
  BY Mapped DEF scanReading
<1>3. scanDelivered' = scanDelivered
  BY Mapped DEF scanDelivered
<1> QED
  BY <1>1, <1>2, <1>3 DEF Scan!vars

LEMMA RefInit == Init => Scan!Init
<1> SUFFICES ASSUME Init
             PROVE  Scan!Init
  OBVIOUS
<1>1. scanStatus = [q \in Queries |-> "closed"]
  BY DEF Init, scanStatus, ScanStatus, Running
<1>2. scanReading = [q \in Queries |-> <<>>]
  BY EmptyRows DEF Init, scanReading
<1>3. scanDelivered = [q \in Queries |-> <<>>]
  BY EmptyRows DEF Init, scanDelivered
<1>4. /\ host \in [FunctionName -> UNION {Samples[f] : f \in FunctionName}]
      /\ \A f \in FunctionName : host[f] \in Samples[f]
  BY DEF Init, HostStates
<1> QED
  BY <1>1, <1>2, <1>3, <1>4 DEF Init, Scan!Init, Scan!FunctionName, FunctionName

\* Giving up a query stops its scan.
LEMMA RefStop ==
  ASSUME IInv, IInv', NEW q \in Queries, OthersUntouched(q),
         phase'[q] \in {"idle", "bound"}, Discard(q)
  PROVE  Scan!Stop(q) \/ UNCHANGED Scan!vars
<1>1. /\ output'[q] = <<>> /\ result'[q] = <<>> /\ seen'[q] = <<>>
      /\ host' = host /\ bind' = bind
  BY DEF Discard, IInv, TypeOK
<1>2. ScanStatus(q)' = "closed"
  BY DEF ScanStatus, Running
<1>3. View(seen'[q], bind'[q].unit) = <<>> /\ result'[q] \o output'[q] = <<>>
  BY <1>1, EmptyRows
<1>4. CASE ScanStatus(q) # "closed"
  <2>1. scanStatus[q] # "closed"
    BY <1>4 DEF scanStatus
  <2> QED
    BY <1>1, <1>2, <1>3, <2>1, Mapped DEF Scan!Stop
<1>5. CASE ScanStatus(q) = "closed"
  <2>1. ~Running(q) /\ phase[q] # "done"
    BY <1>5 DEF ScanStatus
  <2>2. result[q] = <<>> /\ output[q] = <<>> /\ seen[q] = <<>>
    BY <2>1 DEF IInv, Held, BookkeepingOf, Running
  <2>3. View(seen[q], bind[q].unit) = <<>> /\ result[q] \o output[q] = <<>>
    BY <2>2, EmptyRows
  <2> QED
    BY <1>1, <1>2, <1>3, <1>5, <2>3, MappedStutter
<1> QED
  BY <1>4, <1>5

\* Binding asks for a scan; a rejected unit asks for none.
LEMMA RefBind ==
  ASSUME IInv, NEW q \in Queries, BindStep(q), OthersUntouched(q)
  PROVE  Scan!Ask(q) \/ UNCHANGED Scan!vars
<1>1. /\ phase[q] = "idle" /\ phase'[q] \in {"bound", "error"}
      /\ host' = host /\ state' = state /\ output' = output
      /\ result' = result /\ seen' = seen
  BY DEF BindStep, SysMemoryInfoBind, SysDiskInfoBind, SysCPUInfoBind,
         SysNetworkInfoBind, SysOSInfoBind, BindUnit, Bound, BindThrows,
         IInv, TypeOK
<1>2. ScanStatus(q) = "closed" /\ ScanStatus(q)' = "closed"
  BY <1>1 DEF ScanStatus, Running
<1>3. seen[q] = <<>>
  BY <1>1 DEF IInv, Held, BookkeepingOf, Running
<1>4. View(seen'[q], bind'[q].unit) = View(seen[q], bind[q].unit)
  BY <1>1, <1>3, EmptyRows
<1>5. scanStatus' = scanStatus /\ scanReading' = scanReading /\ scanDelivered' = scanDelivered
  <2>1. scanStatus' = scanStatus
    BY <1>2, Mapped DEF scanStatus
  <2>2. scanReading' = scanReading
    BY <1>4, Mapped DEF scanReading
  <2>3. scanDelivered' = scanDelivered
    BY <1>1 DEF scanDelivered
  <2> QED
    BY <2>1, <2>2, <2>3
<1>6. CASE bind' = bind
  BY <1>1, <1>5, <1>6 DEF Scan!vars
<1>7. CASE \E f \in FunctionName, unit \in MemoryUnit :
             bind' = [bind EXCEPT ![q] = [fn |-> f, unit |-> unit]]
  <2>1. \E r \in Scan!Request : bind' = [bind EXCEPT ![q] = r]
    BY <1>7 DEF Scan!Request, Scan!FunctionName, FunctionName, Scan!MemoryUnit, MemoryUnit
  <2>2. scanStatus[q] = "closed"
    BY <1>2 DEF scanStatus
  <2> QED
    BY <1>1, <1>5, <2>1, <2>2 DEF Scan!Ask
<1>8. bind' = bind \/ \E f \in FunctionName, unit \in MemoryUnit :
                        bind' = [bind EXCEPT ![q] = [fn |-> f, unit |-> unit]]
  <2>1. "BYTES" \in MemoryUnit
    BY DEF MemoryUnit
  <2>2. \A arg : IsUnit(arg) => ParseUnit(arg) \in MemoryUnit
    BY DEF IsUnit, ParseUnit, Spelling, MemoryUnit
  <2>3. \A f, arg : BindUnit(q, f, arg) =>
          bind' = bind \/ \E unit \in MemoryUnit :
                            bind' = [bind EXCEPT ![q] = [fn |-> f, unit |-> unit]]
    BY <2>1, <2>2 DEF BindUnit, Bound, BindThrows
  <2> QED
    BY <2>1, <2>3
    DEF BindStep, SysMemoryInfoBind, SysDiskInfoBind, SysCPUInfoBind,
        SysNetworkInfoBind, SysOSInfoBind, Bound, FunctionName
<1> QED
  BY <1>6, <1>7, <1>8

\* Starting an execution opens the scan; it reads the host, or waits.
LEMMA RefStart ==
  ASSUME IInv, NEW q \in Queries, NEW f \in FunctionName, OthersUntouched(q),
         \/ f \in ReadsInCall /\ Start(q, f, <<>>)
         \/ f \notin ReadsInCall /\ Start(q, f, host[f])
  PROVE  Scan!Open(q)
<1> DEFINE rows == IF f \in ReadsInCall THEN <<>> ELSE host[f]
           view == View(rows, bind[q].unit)
<1>1. TypeOK
  BY DEF IInv
<1>2. /\ phase[q] \in {"bound", "done"} /\ phase'[q] = "ready"
      /\ bind' = bind /\ host' = host /\ bind[q].fn = f
      /\ state'[q] = FreshState(rows)
      /\ result'[q] = <<>> /\ seen'[q] = rows /\ output' = output
  BY <1>1 DEF Start, NewState, TypeOK
<1>3. output'[q] = <<>>
  BY <1>2 DEF IInv, Held, BookkeepingOf
<1>4. scanStatus[q] \in {"closed", "complete"} /\ bind[q].fn # "none"
  BY <1>2 DEF scanStatus, ScanStatus, Running, FunctionName
<1>5. ScanStatus(q)' = IF f \in ReadsInCall THEN "waiting" ELSE "reading"
  BY <1>2 DEF ScanStatus, Running, HostWasRead, FreshState
<1>6. /\ scanStatus' = [scanStatus EXCEPT ![q] = ScanStatus(q)']
      /\ scanReading' = [scanReading EXCEPT ![q] = view]
      /\ scanDelivered' = [scanDelivered EXCEPT ![q] = <<>>]
  <2>1. View(seen'[q], bind'[q].unit) = view
    BY <1>2
  <2>2. result'[q] \o output'[q] = <<>>
    BY <1>2, <1>3, EmptyRows
  <2> HIDE DEF view
  <2> QED
    BY <2>1, <2>2, Mapped
<1>7. CASE f \in ReadsInCall
  <2>1. view = <<>>
    BY <1>7, EmptyRows
  <2> QED
    BY <1>2, <1>4, <1>5, <1>6, <1>7, <2>1 DEF Scan!Open
<1>8. CASE f \notin ReadsInCall
  <2>1. view = Scan!View(host[bind[q].fn], bind[q].unit)
    BY <1>2, <1>8, SameView
  <2>2. SubSeq(view, 1, 0) = <<>>
    BY SubSeqEmpty
  <2>3. Scan!Read(q, 0)
    <3>1. scanStatus' = [scanStatus EXCEPT ![q] = "reading"]
      BY <1>5, <1>6, <1>8
    <3>2. 0 <= STANDARD_VECTOR_SIZE
      BY ChunkHolds
    <3>3. UNCHANGED <<host, bind>>
      BY <1>2
    <3> HIDE DEF view
    <3> QED
      BY <1>6, <2>1, <2>2, <3>1, <3>2, <3>3 DEF Scan!Read
  <2> QED
    BY <1>4, <2>3 DEF Scan!Open
<1> QED
  BY <1>7, <1>8

LEMMA RefInitStep ==
  ASSUME IInv, NEW q \in Queries, InitStep(q), OthersUntouched(q)
  PROVE  Scan!Open(q)
BY RefStart
DEF InitStep, SysMemoryInfoInit, SysCPUInfoInit, SysDiskInfoInit,
    SysNetworkInfoInit, SysOSInfoInit, FunctionName, ReadsInCall

\* The chunk taken was delivered already; the empty one completes the scan.
LEMMA RefFetch ==
  ASSUME IInv, IInv', NEW q \in Queries, Fetch(q), OthersUntouched(q)
  PROVE  Scan!Complete(q) \/ UNCHANGED Scan!vars
<1>1. TypeOK /\ BookkeepingOf(q) /\ RowsInOrderOf(q)
  BY DEF IInv, Held
<1>2. /\ phase[q] = "returned"
      /\ phase'[q] = IF output[q] = <<>> THEN "done" ELSE "ready"
      /\ host' = host /\ bind' = bind /\ state' = state /\ seen' = seen
      /\ result'[q] = result[q] \o output[q] /\ output'[q] = <<>>
  BY <1>1 DEF Fetch, TypeOK
<1>3. result'[q] \o output'[q] = result[q] \o output[q]
  <2>1. result[q] \o output[q] \in Seq(Nat)
    BY <1>1, TypeOfQuery, ConcatProperties
  <2> QED
    BY <1>2, <2>1, ConcatEmptySeq
<1>4. CASE output[q] # <<>>
  <2>1. ScanStatus(q)' = ScanStatus(q)
    BY <1>2, <1>4 DEF ScanStatus, Running, HostWasRead
  <2> QED
    BY <1>2, <1>3, <2>1, MappedStutter
<1>5. CASE output[q] = <<>>
  <2>1. state[q].finished
    BY <1>1, <1>2, <1>5 DEF BookkeepingOf
  <2>2. ScanStatus(q) = "reading" /\ ScanStatus(q)' = "complete"
    BY <1>2, <1>5, <2>1 DEF ScanStatus, Running, HostWasRead
  <2>4. result[q] \o output[q] = View(seen[q], bind[q].unit)
    BY <1>2, <2>1, WholeWhenFinished
  <2>5. scanDelivered[q] = scanReading[q] /\ scanStatus[q] = "reading"
    BY <1>2, <2>2, <2>4 DEF scanDelivered, scanReading, scanStatus
  <2>6. scanStatus' = [scanStatus EXCEPT ![q] = "complete"]
    BY <2>2, Mapped
  <2>7. scanReading' = scanReading /\ scanDelivered' = scanDelivered
    BY <1>2, <1>3, Mapped DEF scanReading, scanDelivered
  <2> QED
    BY <1>2, <2>5, <2>6, <2>7 DEF Scan!Complete
<1> QED
  BY <1>4, <1>5

\* A call of a finished function delivers nothing.
LEMMA RefReturnFinished ==
  ASSUME IInv, NEW q \in Queries, NEW f, Called(q, f), ReturnFinished(q),
         OthersUntouched(q)
  PROVE  UNCHANGED Scan!vars
<1>1. /\ phase[q] = "ready" /\ phase'[q] = "returned"
      /\ host' = host /\ bind' = bind /\ state' = state
      /\ result' = result /\ output' = output /\ seen' = seen
  BY DEF Called, ReturnFinished, IInv, TypeOK
<1>2. ScanStatus(q)' = ScanStatus(q)
  BY <1>1 DEF ScanStatus, Running, HostWasRead
<1> QED
  BY <1>1, <1>2, MappedStutter

\* The call that reads the host is the reading and the only chunk.
LEMMA RefEmitReading ==
  ASSUME IInv, NEW q \in Queries, NEW f \in ReadsInCall, OthersUntouched(q),
         host[f] \in Seq(Nat), Len(host[f]) = 1,
         Called(q, f), EmitReading(q, host[f])
  PROVE  Scan!FirstChunk(q)
<1> DEFINE view == View(host[f], bind[q].unit)
<1>1. TypeOK /\ BookkeepingOf(q) /\ RowsInOrderOf(q)
  BY DEF IInv, Held
<1>2. /\ phase[q] = "ready" /\ phase'[q] = "returned"
      /\ host' = host /\ bind' = bind /\ result' = result
      /\ bind[q].fn = f /\ ~state[q].finished
      /\ output'[q] = view /\ seen'[q] = host[f]
      /\ state'[q] = [state[q] EXCEPT !.finished = TRUE]
  BY <1>1 DEF Called, EmitReading, TypeOK
<1>3. state'[q].finished = TRUE
  BY <1>1, <1>2, TypeOfQuery DEF GlobalState
<1>4. ScanStatus(q) = "waiting" /\ ScanStatus(q)' = "reading"
  BY <1>2, <1>3 DEF ScanStatus, Running, HostWasRead
<1>5. view \in Seq(Nat) /\ Len(view) = 1
  BY <1>1, TypeOfQuery, ViewType
<1>6. result'[q] \o output'[q] = view
  <2>1. Served(q) = 0
    BY <1>2 DEF Served, OneRow, ReadsInCall
  <2>2. result[q] \o output[q] = <<>>
    BY <1>1, <2>1, SubSeqEmpty DEF RowsInOrderOf
  <2>3. result[q] = <<>>
    BY <1>1, <2>2, TypeOfQuery, ConcatProperties
  <2> QED
    BY <1>2, <1>5, <2>3, ConcatEmptySeq
<1>7. SubSeq(view, 1, 1) = view
  BY <1>5, SubSeqFull
<1>8. view = Scan!View(host[bind[q].fn], bind[q].unit)
  BY <1>2, SameView
<1>9. scanStatus[q] = "waiting"
  BY <1>4 DEF scanStatus
<1>10. /\ scanStatus' = [scanStatus EXCEPT ![q] = "reading"]
       /\ scanReading' = [scanReading EXCEPT ![q] = view]
       /\ scanDelivered' = [scanDelivered EXCEPT ![q] = SubSeq(view, 1, 1)]
  <2>1. View(seen'[q], bind'[q].unit) = view
    BY <1>2
  <2> HIDE DEF view
  <2> QED
    BY <1>4, <1>6, <1>7, <2>1, Mapped
<1>11. 1 <= STANDARD_VECTOR_SIZE /\ 1 \in 0..Len(host[bind[q].fn])
  <2>1. Len(host[bind[q].fn]) = 1
    BY <1>2
  <2> QED
    BY <2>1, ChunkHolds
<1> HIDE DEF view
<1>12. Scan!Read(q, 1)
  BY <1>2, <1>8, <1>10, <1>11 DEF Scan!Read
<1> QED
  BY <1>9, <1>11, <1>12 DEF Scan!FirstChunk

\* A function with a copy of its reading delivers up to row n of it.
LEMMA RefServe ==
  ASSUME IInv, NEW q \in Queries, OthersUntouched(q),
         phase[q] = "ready", phase'[q] = "returned",
         bind[q].fn \notin ReadsInCall,
         UNCHANGED <<host, bind, seen>>,
         IInv', NEW n \in Nat, Served(q)' = n,
         Served(q) <= n, n <= Len(seen[q]), n - Served(q) <= STANDARD_VECTOR_SIZE
  PROVE  Scan!NextChunk(q)
<1> DEFINE view == View(seen[q], bind[q].unit)
<1>1. TypeOK /\ RowsInOrderOf(q) /\ RowsInOrderOf(q)'
  BY DEF IInv, Held
<1>2. view \in Seq(Nat) /\ Len(view) = Len(seen[q])
  BY <1>1, TypeOfQuery, ViewType
<1>3. ScanStatus(q) = "reading" /\ ScanStatus(q)' = "reading"
  BY DEF ScanStatus, Running, HostWasRead
<1>4. /\ result[q] \o output[q] = SubSeq(view, 1, Served(q))
      /\ result'[q] \o output'[q] = SubSeq(view, 1, n)
  BY <1>1 DEF RowsInOrderOf
<1>5. Served(q) \in Nat
  BY <1>1, TypeOfQuery DEF Served
<1>6. Len(SubSeq(view, 1, Served(q))) = Served(q)
  <2>1. \A i \in 1..Served(q) : view[i] \in Nat
    BY <1>2, <1>5
  <2>2. Len(SubSeq(view, 1, Served(q))) =
          IF 1 <= Served(q) THEN Served(q) - 1 + 1 ELSE 0
    BY <1>5, <2>1, SubSeqProperties
  <2> QED
    BY <1>5, <2>2
<1>7. /\ scanStatus[q] = "reading" /\ scanReading[q] = view
      /\ scanDelivered[q] = SubSeq(view, 1, Served(q))
  BY <1>3, <1>4 DEF scanStatus, scanReading, scanDelivered
<1>8. scanStatus' = scanStatus
  BY <1>3, Mapped DEF scanStatus
<1>9. scanReading' = scanReading
  BY Mapped DEF scanReading
<1>10. scanDelivered' = [scanDelivered EXCEPT ![q] = SubSeq(view, 1, n)]
  BY <1>4, Mapped
<1>11. /\ n \in Len(scanDelivered[q])..Len(scanReading[q])
       /\ n <= Len(scanDelivered[q]) + STANDARD_VECTOR_SIZE
  BY <1>2, <1>5, <1>6, <1>7, ChunkHolds
<1> HIDE DEF view
<1> QED
  BY <1>7, <1>8, <1>9, <1>10, <1>11 DEF Scan!NextChunk

LEMMA RefCallStep ==
  ASSUME IInv, IInv', NEW q \in Queries, CallStep(q), OthersUntouched(q)
  PROVE  Scan!FirstChunk(q) \/ Scan!NextChunk(q) \/ UNCHANGED Scan!vars
<1>1. TypeOK /\ BookkeepingOf(q) /\ BookkeepingOf(q)'
  BY DEF IInv, Held
<1>2. ASSUME NEW f, Called(q, f), ReturnFinished(q)
      PROVE  UNCHANGED Scan!vars
  BY <1>2, RefReturnFinished
<1>3. ASSUME NEW f \in ReadsInCall, Called(q, f), EmitReading(q, host[f])
      PROVE  Scan!FirstChunk(q)
  <2>1. f \in FunctionName /\ f \in OneRow
    BY <1>3 DEF FunctionName, OneRow, ReadsInCall
  <2>2. host[f] \in Samples[f] /\ host[f] \in Seq(Nat)
    BY <1>1, <2>1, HostType DEF TypeOK
  <2>3. Len(host[f]) = 1
    BY <2>1, <2>2, TableAssumption
  <2> QED
    BY <1>3, <2>2, <2>3, RefEmitReading
<1>4. ASSUME NEW f \in {"sys_disk_info", "sys_network_info"}, Called(q, f),
             NEW values, EmitBatch(q, values)
      PROVE  Scan!NextChunk(q)
  <2> DEFINE first == state[q].current_index
             last == BatchEnd(first, Len(state[q].rows))
  <2>1. /\ phase[q] = "ready" /\ phase'[q] = "returned" /\ bind[q].fn = f
        /\ UNCHANGED <<host, bind, seen>>
    BY <1>1, <1>4 DEF Called, EmitBatch, Batch, AllServed, TypeOK
  <2>2. state'[q] = [state[q] EXCEPT !.current_index = last,
                                    !.finished = last >= Len(state[q].rows)]
    BY <1>1, <1>4 DEF EmitBatch, Batch, AllServed, TypeOK
  <2>3. state'[q].current_index = last
    BY <1>1, <2>2, TypeOfQuery DEF GlobalState
  <2>4. bind[q].fn \notin OneRow /\ bind[q].fn \notin ReadsInCall
    BY <2>1 DEF OneRow, ReadsInCall
  <2>5. Served(q) = first /\ Served(q)' = last
    BY <2>1, <2>3, <2>4 DEF Served
  <2>6. first \in 0..Len(state[q].rows) /\ Len(state[q].rows) = Len(seen[q])
    BY <1>1, <2>4, TypeOfQuery DEF BookkeepingOf
  <2>7. Len(state[q].rows) \in Nat
    BY <1>1, TypeOfQuery
  <2>8. last \in first..Len(state[q].rows) /\ last - first <= STANDARD_VECTOR_SIZE
    BY <2>6, <2>7, BatchEndBounds
  <2>9. /\ last \in Nat /\ first <= last /\ last <= Len(seen[q])
        /\ last - first <= STANDARD_VECTOR_SIZE
    BY <2>6, <2>7, <2>8
  <2> HIDE DEF first, last
  <2> QED
    BY <2>1, <2>4, <2>5, <2>9, RefServe
<1>5. ASSUME Called(q, "sys_os_info"), ~state[q].finished,
             state' = [state EXCEPT ![q].finished = TRUE], UNCHANGED seen
      PROVE  Scan!NextChunk(q)
  <2>1. /\ phase[q] = "ready" /\ phase'[q] = "returned"
        /\ bind[q].fn = "sys_os_info"
        /\ UNCHANGED <<host, bind, seen>>
    BY <1>1, <1>5 DEF Called, TypeOK
  <2>2. state'[q].finished = TRUE
    BY <1>1, <1>5, TypeOfQuery DEF TypeOK, GlobalState
  <2>3. bind[q].fn \in OneRow /\ bind[q].fn \notin ReadsInCall
    BY <2>1 DEF OneRow, ReadsInCall
  <2>4. Served(q) = 0 /\ Served(q)' = 1
    BY <1>5, <2>1, <2>2, <2>3 DEF Served
  <2>5. Len(seen[q]) = 1
    BY <1>1, <2>1, <2>3 DEF BookkeepingOf, Running
  <2>6. 1 \in Nat /\ 0 <= 1 /\ 1 <= Len(seen[q]) /\ 1 - 0 <= STANDARD_VECTOR_SIZE
    BY <2>5, ChunkHolds
  <2> QED
    BY <2>1, <2>3, <2>4, <2>6, RefServe
<1>6. CASE SysMemoryInfoFunc(q)
  BY <1>2, <1>3, <1>6 DEF SysMemoryInfoFunc, ReadsInCall
<1>7. CASE SysCPUInfoFunc(q)
  BY <1>2, <1>3, <1>7 DEF SysCPUInfoFunc, ReadsInCall
<1>8. CASE SysDiskInfoFunc(q)
  BY <1>2, <1>4, <1>8 DEF SysDiskInfoFunc
<1>9. CASE SysNetworkInfoFunc(q)
  BY <1>2, <1>4, <1>9 DEF SysNetworkInfoFunc
<1>10. CASE SysOSInfoFunc(q)
  BY <1>2, <1>5, <1>10 DEF SysOSInfoFunc
<1> QED
  BY <1>6, <1>7, <1>8, <1>9, <1>10 DEF CallStep

LEMMA RefNext == IInv /\ IInv' /\ [Next]_vars => [Scan!Next]_(Scan!vars)
<1> SUFFICES ASSUME IInv, IInv', [Next]_vars
             PROVE  Scan!Next \/ UNCHANGED Scan!vars
  OBVIOUS
<1>1. TypeOK /\ \A q \in Queries : Held(q)
  BY DEF IInv
<1>2. CASE HostChanges
  <2>1. Scan!HostChanges
    <3>1. UNCHANGED <<phase, bind, state, output, result, seen>>
      BY <1>2 DEF HostChanges
    <3>2. scanStatus' = scanStatus /\ scanReading' = scanReading
      BY <3>1 DEF scanStatus, ScanStatus, Running, HostWasRead, scanReading
    <3>3. scanDelivered' = scanDelivered
      BY <3>1 DEF scanDelivered
    <3> QED
      BY <1>2, <3>1, <3>2, <3>3
      DEF HostChanges, Scan!HostChanges, Scan!FunctionName, FunctionName
  <2> QED
    BY <2>1 DEF Scan!Next
<1>3. CASE UNCHANGED vars
  <2>1. scanStatus' = scanStatus /\ scanReading' = scanReading
    BY <1>3 DEF vars, scanStatus, ScanStatus, Running, HostWasRead, scanReading
  <2>2. scanDelivered' = scanDelivered
    BY <1>3 DEF vars, scanDelivered
  <2> QED
    BY <1>3, <2>1, <2>2 DEF vars, Scan!vars
<1>4. ASSUME NEW q \in Queries, BindStep(q)
      PROVE  Scan!Next \/ UNCHANGED Scan!vars
  BY <1>1, <1>4, HeldBindStep, RefBind DEF Scan!Next
<1>5. ASSUME NEW q \in Queries, InitStep(q)
      PROVE  Scan!Next \/ UNCHANGED Scan!vars
  BY <1>1, <1>5, HeldInitStep, RefInitStep DEF Scan!Next
<1>6. ASSUME NEW q \in Queries, CallStep(q)
      PROVE  Scan!Next \/ UNCHANGED Scan!vars
  BY <1>1, <1>6, HeldCallStep, RefCallStep DEF Scan!Next
<1>7. ASSUME NEW q \in Queries, Fetch(q)
      PROVE  Scan!Next \/ UNCHANGED Scan!vars
  BY <1>1, <1>7, HeldFetch, RefFetch DEF Scan!Next
<1>8. ASSUME NEW q \in Queries, Close(q) \/ GetInfoThrows(q) \/ Deallocate(q)
      PROVE  Scan!Next \/ UNCHANGED Scan!vars
  <2>1. OthersUntouched(q)
    BY <1>1, <1>8, HeldEnd
  <2>2. Discard(q) /\ phase'[q] \in {"idle", "bound"}
    BY <1>1, <1>8 DEF Close, GetInfoThrows, Deallocate, TypeOK
  <2> QED
    BY <2>1, <2>2, RefStop DEF Scan!Next
<1> QED
  BY <1>2, <1>3, <1>4, <1>5, <1>6, <1>7, <1>8 DEF Next

\* The five functions keep the promise of TableScan: whatever Bind, Init and
\* calls do is a step of one consistent, complete, in-order scan.
THEOREM Refinement == Spec => ImplementsTableScan
BY RefInit, RefNext, Invariance, PTL DEF ImplementsTableScan, Scan!Spec, Spec
=============================================================================
