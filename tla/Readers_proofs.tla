--------------------------- MODULE Readers_proofs ---------------------------
(***************************************************************************)
(* Proofs about MCReaders, for any host.                                   *)
(***************************************************************************)
EXTENDS MCReaders, OperatorLemmas, SequenceTheorems

LEMMA SameCardinality == \A S : Memory!Cardinality(S) = Cardinality(S)
BY DEF Memory!Cardinality, Cardinality

\* The subtraction of uint64_t does not wrap where there is enough to
\* subtract from, and undoes the addition.
LEMMA MinusIsExact ==
  ASSUME Width \in Nat \ {0}, NEW a \in 0..Width - 1, NEW b \in 0..a
  PROVE  Memory!Minus(a, b) = a - b
<1>1. a - b \in 0..Width - 1
  OBVIOUS
<1>2. a + Width - b = (a - b) + Width
  OBVIOUS
<1> QED
  BY <1>1, <1>2 DEF Memory!Minus

\* Fewer units are fewer bytes.
LEMMA UnitsInOrder ==
  ASSUME Unit \in Nat \ {0}, NEW a \in Nat, NEW b \in Nat, a <= b
  PROVE  /\ a * Unit \in Nat /\ b * Unit \in Nat
         /\ a * Unit <= b * Unit
         /\ (b - a) * Unit + a * Unit = b * Unit
OBVIOUS

\* Five different things are five.
LEMMA FiveElements ==
  ASSUME NEW a, NEW b, NEW c, NEW d, NEW e,
         b # a, c # a, c # b, d # a, d # b, d # c, e # a, e # b, e # c, e # d
  PROVE  IsFiniteSet({a, b, c, d, e}) /\ Cardinality({a, b, c, d, e}) = 5
<1>1. IsFiniteSet({a}) /\ Cardinality({a}) = 1
  BY FS_Singleton
<1>2. IsFiniteSet({a} \cup {b}) /\ Cardinality({a} \cup {b}) = 2
  <2>1. b \notin {a}
    OBVIOUS
  <2> QED
    BY <1>1, <2>1, FS_AddElement
<1>3. IsFiniteSet({a, b} \cup {c}) /\ Cardinality({a, b} \cup {c}) = 3
  <2>1. {a} \cup {b} = {a, b} /\ c \notin {a, b}
    OBVIOUS
  <2> QED
    BY <1>2, <2>1, FS_AddElement
<1>4. IsFiniteSet({a, b, c} \cup {d}) /\ Cardinality({a, b, c} \cup {d}) = 4
  <2>1. {a, b} \cup {c} = {a, b, c} /\ d \notin {a, b, c}
    OBVIOUS
  <2> QED
    BY <1>3, <2>1, FS_AddElement
<1>5. IsFiniteSet({a, b, c, d} \cup {e}) /\ Cardinality({a, b, c, d} \cup {e}) = 5
  <2>1. {a, b, c} \cup {d} = {a, b, c, d} /\ e \notin {a, b, c, d}
    OBVIOUS
  <2> QED
    BY <1>4, <2>1, FS_AddElement
<1>6. {a, b, c, d} \cup {e} = {a, b, c, d, e}
  OBVIOUS
<1> QED
  BY <1>5, <1>6

\* There are five keys to wait for.
LEMMA WantedIsFive == IsFiniteSet(Memory!Wanted) /\ Cardinality(Memory!Wanted) = 5
<1> DEFINE a == <<"Mem", "Total">>
           b == <<"Mem", "Free">>
           c == <<"Cached">>
           d == <<"Swap", "Total">>
           e == <<"Swap", "Free">>
<1>1. /\ b # a /\ c # a /\ c # b /\ d # a /\ d # b /\ d # c
      /\ e # a /\ e # b /\ e # c /\ e # d
  <2>1. Len(c) = 1 /\ Len(a) = 2 /\ Len(b) = 2 /\ Len(d) = 2 /\ Len(e) = 2
    OBVIOUS
  <2>2. c # a /\ c # b /\ d # c /\ e # c
    BY <2>1
  <2>3. b # a /\ d # a /\ d # b /\ e # a /\ e # b /\ e # d
    OBVIOUS
  <2> QED
    BY <2>2, <2>3
<1>2. Memory!Wanted = {a, b, c, d, e}
  BY DEF Memory!Wanted
<1> HIDE DEF a, b, c, d, e
<1>3. IsFiniteSet({a, b, c, d, e}) /\ Cardinality({a, b, c, d, e}) = 5
  BY <1>1, FiveElements, Zenon
<1> QED
  BY <1>2, <1>3

\* Each of them belongs to one field.
LEMMA FieldFacts ==
  /\ DOMAIN Memory!Field = {"total_memory", "free_memory", "cached_memory", "total_swap", "free_swap"}
  /\ Memory!Wanted = {Memory!Field[f] : f \in DOMAIN Memory!Field}
  /\ \A f, g \in DOMAIN Memory!Field : Memory!Field[f] = Memory!Field[g] => f = g
<1>1. DOMAIN Memory!Field = {"total_memory", "free_memory", "cached_memory", "total_swap", "free_swap"}
  BY DEF Memory!Field
<1>2. /\ Memory!Field["total_memory"] = <<"Mem", "Total">> /\ Memory!Field["free_memory"] = <<"Mem", "Free">>
      /\ Memory!Field["cached_memory"] = <<"Cached">>
      /\ Memory!Field["total_swap"] = <<"Swap", "Total">> /\ Memory!Field["free_swap"] = <<"Swap", "Free">>
  BY DEF Memory!Field
<1>3. Memory!Wanted = {Memory!Field[f] : f \in DOMAIN Memory!Field}
  BY <1>1, <1>2 DEF Memory!Wanted
<1>4. \A f, g \in DOMAIN Memory!Field : Memory!Field[f] = Memory!Field[g] => f = g
  <2>1. Len(<<"Cached">>) = 1 /\ Len(<<"Mem", "Total">>) = 2 /\ Len(<<"Mem", "Free">>) = 2
          /\ Len(<<"Swap", "Total">>) = 2 /\ Len(<<"Swap", "Free">>) = 2
    OBVIOUS
  <2> QED
    BY <1>1, <1>2, <2>1
<1> QED
  BY <1>1, <1>3, <1>4

\* So a line counts once or not at all.
LEMMA HitOnce ==
  ASSUME NEW key
  PROVE  Cardinality({f \in DOMAIN Memory!Field : Memory!IsLineOf(key, Memory!Field[f])}) =
           IF key \in Memory!Wanted THEN 1 ELSE 0
<1> DEFINE hit == {f \in DOMAIN Memory!Field : Memory!IsLineOf(key, Memory!Field[f])}
<1>1. CASE key \in Memory!Wanted
  <2>1. PICK f \in DOMAIN Memory!Field : key = Memory!Field[f]
    BY <1>1, FieldFacts
  <2>2. hit = {f}
    BY <2>1, FieldFacts DEF Memory!IsLineOf
  <2> QED
    BY <1>1, <2>2, FS_Singleton
<1>2. CASE key \notin Memory!Wanted
  <2>1. hit = {}
    BY <1>2, FieldFacts DEF Memory!IsLineOf
  <2> QED
    BY <1>2, <2>1, FS_EmptySet
<1> QED
  BY <1>1, <1>2
-----------------------------------------------------------------------------
(* Linux. *)

InfoFields == {"total_memory", "used_memory", "free_memory", "cached_memory",
               "total_swap", "used_swap", "free_swap"}

\* The inductive invariant: the fields filled are those of the lines got, and
\* as many as are counted.
LinesGot ==
  /\ host \in MemStates /\ text \in MemStates
  /\ pc \in {"start", "getline", "done", "thrown"}
  /\ Memory!Wanted \subseteq keys
  /\ parsed_count = Cardinality(printed \cap Memory!Wanted)
  /\ DOMAIN info = InfoFields
  /\ refused \in {{}, {"meminfo"}}
  /\ refused # {} => pc \in {"done", "thrown"}
  /\ pc = "start" \/ refused # {} => printed = {}
  /\ \A f \in DOMAIN Memory!Field :
       info[f] = IF Memory!Field[f] \in printed THEN Memory!Value(Memory!Field[f]) * Unit ELSE 0
  /\ IF pc = "done"
     THEN /\ refused = {} => Memory!Wanted \subseteq printed
          /\ info.used_memory = Memory!Minus(info.total_memory, info.free_memory)
          /\ info.used_swap = Memory!Minus(info.total_swap, info.free_swap)
     ELSE info.used_memory = 0 /\ info.used_swap = 0

\* Every value fits a uint64_t, so that no multiplication wraps.
LEMMA ValueFits ==
  ASSUME Memory!MemoryAssumption, text \in MemStates, NEW key
  PROVE  /\ Memory!Value(key) \in Nat /\ Memory!Value(key) * Unit \in 0..Width - 1
         /\ Memory!ParseBytesValue(key) = Memory!Value(key) * Unit
<1>1. PICK f \in DOMAIN text : Memory!Value(key) = text[f]
  BY DEF Memory!MemoryAssumption, Memory!Value
<1>2. text[f] \in Nat /\ text[f] * Unit < Width
  BY <1>1 DEF Memory!MemoryAssumption
<1>3. Unit \in Nat /\ Width \in Nat \ {0}
  BY DEF Memory!MemoryAssumption
<1>4. Memory!Value(key) * Unit \in 0..Width - 1
  BY <1>1, <1>2, <1>3
<1> QED
  BY <1>1, <1>2, <1>3, <1>4 DEF Memory!ParseBytesValue

LEMMA LinesGotInit == Memory!MemoryAssumption /\ Memory!Init => LinesGot
<1> SUFFICES ASSUME Memory!MemoryAssumption, Memory!Init
             PROVE  LinesGot
  OBVIOUS
<1>1. \A f \in InfoFields : info[f] = 0
  BY DEF Memory!Init, InfoFields
<1>2. parsed_count = Cardinality(printed \cap Memory!Wanted)
  BY FS_EmptySet, printed \cap Memory!Wanted = {} DEF Memory!Init
<1>3. DOMAIN Memory!Field \subseteq InfoFields
  BY FieldFacts DEF InfoFields
<1>4. info.used_memory = 0 /\ info.used_swap = 0
  BY <1>1 DEF InfoFields
<1> QED
  BY <1>1, <1>2, <1>3, <1>4 DEF Memory!Init, LinesGot, InfoFields

\* A step that gets a line keeps the fields and the count in step.
LEMMA GetLineHolds ==
  ASSUME Memory!MemoryAssumption, LinesGot, Memory!GetLine
  PROVE  LinesGot'
<1>1. PICK key \in keys \ printed :
        LET hit == {f \in DOMAIN Memory!Field : Memory!IsLineOf(key, Memory!Field[f])}
        IN  /\ printed' = printed \cup {key}
            /\ info' = [f \in DOMAIN info |-> IF f \in hit THEN Memory!ParseBytesValue(key) ELSE info[f]]
            /\ parsed_count' = parsed_count + Cardinality(hit)
  BY SameCardinality DEF Memory!GetLine
<1>2. /\ pc = "getline" /\ UNCHANGED <<host, keys, pc, text, refused>>
      /\ DOMAIN info = InfoFields
  BY DEF Memory!GetLine, LinesGot
<1>3. \A f \in DOMAIN Memory!Field : f \in InfoFields
  BY FieldFacts DEF InfoFields
<1>4. parsed_count' = Cardinality(printed' \cap Memory!Wanted)
  <2>1. IsFiniteSet(printed \cap Memory!Wanted)
    BY WantedIsFive, FS_Subset
  <2>2. CASE key \in Memory!Wanted
    <3>1. printed' \cap Memory!Wanted = (printed \cap Memory!Wanted) \cup {key} /\ key \notin printed \cap Memory!Wanted
      BY <1>1, <2>2
    <3> QED
      BY <1>1, <2>1, <2>2, <3>1, HitOnce, FS_AddElement DEF LinesGot
  <2>3. CASE key \notin Memory!Wanted
    <3>1. printed' \cap Memory!Wanted = printed \cap Memory!Wanted
      BY <1>1, <2>3
    <3>2. Cardinality(printed \cap Memory!Wanted) \in Nat
      BY <2>1, FS_CardinalityType
    <3>3. parsed_count' = parsed_count + 0
      BY <1>1, <2>3, HitOnce
    <3>4. parsed_count = Cardinality(printed \cap Memory!Wanted)
      BY DEF LinesGot
    <3> QED
      BY <3>1, <3>2, <3>3, <3>4
  <2> QED
    BY <2>2, <2>3
<1>5. \A f \in DOMAIN Memory!Field :
        info'[f] = IF Memory!Field[f] \in printed' THEN Memory!Value(Memory!Field[f])' * Unit ELSE 0
  <2> SUFFICES ASSUME NEW f \in DOMAIN Memory!Field
               PROVE  info'[f] = IF Memory!Field[f] \in printed' THEN Memory!Value(Memory!Field[f])' * Unit ELSE 0
    OBVIOUS
  <2>1. Memory!Value(Memory!Field[f])' = Memory!Value(Memory!Field[f])
    BY <1>2 DEF Memory!Value
  <2>2. CASE key = Memory!Field[f]
    <3>1. info'[f] = Memory!ParseBytesValue(key)
      BY <1>1, <1>2, <1>3, <2>2 DEF Memory!IsLineOf
    <3> QED
      BY <1>1, <2>1, <2>2, <3>1, ValueFits DEF LinesGot
  <2>3. CASE key # Memory!Field[f]
    <3>1. info'[f] = info[f]
      BY <1>1, <1>2, <1>3, <2>3 DEF Memory!IsLineOf
    <3>2. Memory!Field[f] \in printed' <=> Memory!Field[f] \in printed
      BY <1>1, <2>3
    <3> QED
      BY <2>1, <3>1, <3>2 DEF LinesGot
  <2> QED
    BY <2>2, <2>3
<1>6. info'.used_memory = 0 /\ info'.used_swap = 0
  <2>1. "used_memory" \in InfoFields /\ "used_swap" \in InfoFields
    BY DEF InfoFields
  <2>2. "used_memory" \notin DOMAIN Memory!Field /\ "used_swap" \notin DOMAIN Memory!Field
    BY FieldFacts
  <2>3. info'["used_memory"] = info["used_memory"] /\ info'["used_swap"] = info["used_swap"]
    BY <1>1, <1>2, <2>1, <2>2
  <2> QED
    BY <1>2, <2>3 DEF LinesGot
<1>7. DOMAIN info' = InfoFields
  BY <1>1, <1>2
<1>8. pc' = "start" \/ refused' # {} => printed' = {}
  BY <1>2, <1>1 DEF LinesGot
<1> QED
  BY <1>2, <1>4, <1>5, <1>6, <1>7, <1>8 DEF LinesGot

LEMMA LinesGotNext == Memory!MemoryAssumption /\ LinesGot /\ [Memory!NextLinux]_(Memory!vars) => LinesGot'
<1> SUFFICES ASSUME Memory!MemoryAssumption, LinesGot, [Memory!NextLinux]_(Memory!vars)
             PROVE  LinesGot'
  OBVIOUS
<1>0. ASSUME UNCHANGED text, NEW key
      PROVE  Memory!Value(key)' = Memory!Value(key)
  BY <1>0 DEF Memory!Value
<1>1. CASE Memory!Change
  <2>1. \A key : Memory!Value(key)' = Memory!Value(key)
    BY <1>0, <1>1 DEF Memory!Change
  <2> QED
    BY <1>1, <2>1 DEF Memory!Change, LinesGot
<1>2. CASE Memory!OpenFile \/ Memory!ThrowLinux
  <2>1. printed' = {} /\ printed = {} /\ info' = info
    BY <1>2 DEF Memory!OpenFile, Memory!ThrowLinux, Memory!Throw, LinesGot
  <2>2. \A f \in DOMAIN Memory!Field : info[f] = 0
    BY <2>1 DEF LinesGot
  <2>3. pc' \in {"getline", "done", "thrown"} /\ text' \in MemStates /\ host' = host /\ keys' = keys
    BY <1>2 DEF Memory!OpenFile, Memory!ThrowLinux, Memory!Throw, LinesGot
  <2>4. /\ refused' \in {{}, {"meminfo"}}
        /\ refused' # {} => pc' \in {"done", "thrown"}
        /\ pc' = "done" => refused' # {}
    BY <1>2 DEF Memory!OpenFile, Memory!ThrowLinux, Memory!Throw, LinesGot
  <2>5. info.used_memory = 0 /\ info.used_swap = 0 /\ parsed_count' = parsed_count
    BY <1>2 DEF Memory!OpenFile, Memory!ThrowLinux, Memory!Throw, LinesGot
  <2>6. Memory!Minus(info.total_memory, info.free_memory) = 0 /\ Memory!Minus(info.total_swap, info.free_swap) = 0
    <3>1. /\ info.total_memory = 0 /\ info.free_memory = 0
          /\ info.total_swap = 0 /\ info.free_swap = 0
      BY <2>2, FieldFacts
    <3>2. Memory!Minus(0, 0) = 0
      BY MinusIsExact DEF Memory!MemoryAssumption
    <3> QED
      BY <3>1, <3>2
  <2> QED
    BY <2>1, <2>2, <2>3, <2>4, <2>5, <2>6 DEF LinesGot
<1>3. CASE Memory!GetLine
  BY <1>3, GetLineHolds
<1>4. CASE Memory!Subtract
  <2>1. /\ pc = "getline" /\ pc' = "done" /\ refused = {} /\ refused' = {}
        /\ UNCHANGED <<host, keys, text, printed, parsed_count>>
    BY <1>4 DEF Memory!Subtract, LinesGot
  <2>2. \A f \in InfoFields \ {"used_memory", "used_swap"} : info'[f] = info[f]
    BY <1>4 DEF Memory!Subtract, LinesGot
  <2>3. \A f \in DOMAIN Memory!Field : info'[f] = info[f]
    BY <2>2, FieldFacts DEF InfoFields
  <2>4. /\ info'.used_memory = Memory!Minus(info.total_memory, info.free_memory)
        /\ info'.used_swap = Memory!Minus(info.total_swap, info.free_swap)
        /\ DOMAIN info' = InfoFields
    BY <1>4 DEF Memory!Subtract, Memory!UsedOf, LinesGot, InfoFields
  <2>5. /\ info'.total_memory = info.total_memory /\ info'.free_memory = info.free_memory
        /\ info'.total_swap = info.total_swap /\ info'.free_swap = info.free_swap
    BY <2>3, FieldFacts
  <2>6. Memory!Wanted \subseteq printed
    <3>1. CASE printed = keys
      BY <3>1 DEF LinesGot
    <3>2. CASE parsed_count >= 5
      <4>1. printed \cap Memory!Wanted \in SUBSET Memory!Wanted
        OBVIOUS
      <4>2. Cardinality(printed \cap Memory!Wanted) >= 5
        BY <3>2 DEF LinesGot
      <4>3. Cardinality(Memory!Wanted) = Cardinality(printed \cap Memory!Wanted)
        BY <4>1, <4>2, WantedIsFive, FS_Subset, FS_CardinalityType
      <4> QED
        BY <4>1, <4>3, WantedIsFive, FS_Subset
    <3> QED
      BY <1>4, <3>1, <3>2 DEF Memory!Subtract, Memory!Enough
  <2>7. \A key : Memory!Value(key)' = Memory!Value(key)
    BY <1>0, <2>1
  <2>8. parsed_count' = Cardinality(printed' \cap Memory!Wanted)
    BY <2>1 DEF LinesGot
  <2>9. \A f \in DOMAIN Memory!Field :
          info'[f] = IF Memory!Field[f] \in printed' THEN Memory!Value(Memory!Field[f])' * Unit ELSE 0
    BY <2>1, <2>3, <2>7 DEF LinesGot
  <2>10. /\ info'.used_memory = Memory!Minus(info'.total_memory, info'.free_memory)
         /\ info'.used_swap = Memory!Minus(info'.total_swap, info'.free_swap)
    BY <2>4, <2>5
  <2> QED
    BY <2>1, <2>4, <2>6, <2>8, <2>9, <2>10 DEF LinesGot, Memory!Minus
<1>5. CASE UNCHANGED Memory!vars
  <2>1. \A key : Memory!Value(key)' = Memory!Value(key)
    BY <1>0, <1>5 DEF Memory!vars
  <2> QED
    BY <1>5, <2>1 DEF Memory!vars, LinesGot, Memory!Minus
<1> QED
  BY <1>1, <1>2, <1>3, <1>4, <1>5 DEF Memory!NextLinux

\* Used and free add up (memory_stats.cpp:83): the kernel has never more free
\* than it has, and both lines are from one text.
LEMMA LinuxAddsUp == Memory!MemoryAssumption /\ LinesGot => Memory!UsedAndFreeAddUp
<1> SUFFICES ASSUME Memory!MemoryAssumption, LinesGot
             PROVE  Memory!UsedAndFreeAddUp
  OBVIOUS
<1>1. ASSUME pc = "done"
      PROVE  /\ info.used_memory + info.free_memory = info.total_memory
             /\ info.used_swap + info.free_swap = info.total_swap
  <2>1. Unit \in Nat \ {0} /\ Width \in Nat \ {0}
    BY DEF Memory!MemoryAssumption
  <2>2. /\ info.used_memory = Memory!Minus(info.total_memory, info.free_memory)
        /\ info.used_swap = Memory!Minus(info.total_swap, info.free_swap)
    BY <1>1 DEF LinesGot
  <2>3. /\ info.total_memory \in 0..Width - 1 /\ info.free_memory \in 0..info.total_memory
        /\ info.total_swap \in 0..Width - 1 /\ info.free_swap \in 0..info.total_swap
    <3>1. CASE refused = {}
      <4>1. \A f \in DOMAIN Memory!Field : info[f] = Memory!Value(Memory!Field[f]) * Unit
        BY <1>1, <3>1, FieldFacts DEF LinesGot
      <4>2. /\ info.total_memory = text.total * Unit /\ info.free_memory = text.free * Unit
            /\ info.total_swap = text.swap_total * Unit
            /\ info.free_swap = text.swap_free * Unit
        BY <4>1, FieldFacts DEF Memory!Field, Memory!Value
      <4>3. /\ text.total \in Nat /\ text.free \in Nat /\ text.inactive \in Nat
            /\ text.swap_total \in Nat /\ text.swap_free \in Nat
            /\ text.free <= text.total /\ text.swap_free <= text.swap_total
            /\ text.total * Unit < Width /\ text.swap_total * Unit < Width
        BY <1>1 DEF LinesGot, Memory!MemoryAssumption
      <4> QED
        BY <2>1, <4>2, <4>3, UnitsInOrder
    <3>2. CASE refused # {}
      <4>1. \A f \in DOMAIN Memory!Field : info[f] = 0
        BY <1>1, <3>2 DEF LinesGot
      <4> QED
        BY <2>1, <4>1, FieldFacts
    <3> QED
      BY <3>1, <3>2
  <2> QED
    BY <2>1, <2>2, <2>3, MinusIsExact
<1>2. refused # {"statistics"}
  BY DEF LinesGot
<1> QED
  BY <1>1, <1>2 DEF Memory!UsedAndFreeAddUp
-----------------------------------------------------------------------------
(* macOS. *)

\* The inductive invariant: what is set so far, and that memory still has
\* the size the first question was told.
QuestionsAsked ==
  /\ host \in MemStates
  /\ pc \in {"start", "statistics", "swap", "done", "thrown"}
  /\ refused \in {{}, {"memsize"}, {"statistics"}, {"swap"}}
  /\ DOMAIN info = InfoFields
  /\ pc \in {"start", "statistics", "swap"} =>
       refused = {} /\ info.total_swap = 0 /\ info.used_swap = 0 /\ info.free_swap = 0
  /\ pc \in {"start", "statistics"} => info.used_memory = 0 /\ info.free_memory = 0
  /\ pc = "start" => info.total_memory = 0
  /\ pc = "statistics" => info.total_memory = host.total * Unit
  /\ pc = "swap" => info.used_memory + info.free_memory = info.total_memory
  /\ Memory!UsedAndFreeAddUp

LEMMA QuestionsInit == Memory!Init => QuestionsAsked
<1> SUFFICES ASSUME Memory!Init
             PROVE  QuestionsAsked
  OBVIOUS
<1>1. DOMAIN info = InfoFields /\ \A f \in InfoFields : info[f] = 0
  BY DEF Memory!Init, InfoFields
<1> QED
  BY <1>1 DEF Memory!Init, QuestionsAsked, Memory!UsedAndFreeAddUp, InfoFields

LEMMA QuestionsNext == Memory!MemoryAssumption /\ QuestionsAsked /\ [Memory!NextMacOS]_(Memory!vars) => QuestionsAsked'
<1> SUFFICES ASSUME Memory!MemoryAssumption, QuestionsAsked, [Memory!NextMacOS]_(Memory!vars)
             PROVE  QuestionsAsked'
  OBVIOUS
<1>0. /\ Unit \in Nat \ {0} /\ Width \in Nat \ {0}
      /\ host.total \in Nat /\ host.free \in Nat /\ host.inactive \in Nat
      /\ host.swap_total \in Nat /\ host.swap_free \in Nat
      /\ host.free + host.inactive <= host.total /\ host.swap_free <= host.swap_total
      /\ host.total * Unit < Width
  BY DEF Memory!MemoryAssumption, QuestionsAsked
<1>1. CASE Memory!Change /\ host'.total = host.total
  BY <1>1 DEF Memory!Change, QuestionsAsked, Memory!UsedAndFreeAddUp
<1>2. CASE Memory!SysctlMemSize
  <2>1. CASE pc' = "statistics"
    <3>1. /\ info' = [info EXCEPT !.total_memory = host.total * Unit] /\ UNCHANGED <<host, refused>>
          /\ pc = "start"
      BY <1>2, <2>1 DEF Memory!SysctlMemSize
    <3> QED
      BY <2>1, <3>1 DEF QuestionsAsked, Memory!UsedAndFreeAddUp, InfoFields
  <2>2. CASE pc' = "done"
    <3>1. UNCHANGED <<host, info>> /\ refused' = {"memsize"} /\ pc = "start"
      BY <1>2, <2>2 DEF Memory!SysctlMemSize
    <3> QED
      BY <2>2, <3>1 DEF QuestionsAsked, Memory!UsedAndFreeAddUp
  <2> QED
    BY <1>2, <2>1, <2>2 DEF Memory!SysctlMemSize
<1>3. CASE Memory!HostStatistics
  <2>1. CASE pc' = "swap"
    <3> DEFINE free == Memory!FreePages(host) * Unit
    <3>1. /\ pc = "statistics" /\ UNCHANGED <<host, refused>>
          /\ info' = [info EXCEPT !.free_memory = free,
                                  !.used_memory = Memory!Minus(info.total_memory, free)]
      BY <1>3, <2>1 DEF Memory!HostStatistics
    <3>2. info.total_memory \in 0..Width - 1 /\ free \in 0..info.total_memory
      <4>1. Memory!FreePages(host) \in Nat /\ Memory!FreePages(host) <= host.total
        BY <1>0 DEF Memory!FreePages
      <4>2. info.total_memory = host.total * Unit
        BY <3>1 DEF QuestionsAsked
      <4> QED
        BY <1>0, <4>1, <4>2, UnitsInOrder
    <3>3. Memory!Minus(info.total_memory, free) + free = info.total_memory
      BY <1>0, <3>2, MinusIsExact
    <3> HIDE DEF free
    <3>4. info'.used_memory + info'.free_memory = info'.total_memory
      BY <3>1, <3>3 DEF QuestionsAsked, InfoFields
    <3> QED
      BY <2>1, <3>1, <3>4 DEF QuestionsAsked, Memory!UsedAndFreeAddUp, InfoFields
  <2>2. CASE pc' = "done"
    <3>1. UNCHANGED <<host, info>> /\ refused' = {"statistics"} /\ pc = "statistics"
      BY <1>3, <2>2 DEF Memory!HostStatistics
    <3> QED
      BY <2>2, <3>1 DEF QuestionsAsked, Memory!UsedAndFreeAddUp
  <2> QED
    BY <1>3, <2>1, <2>2 DEF Memory!HostStatistics
<1>4. CASE Memory!SysctlSwap
  <2>1. pc = "swap" /\ pc' = "done" /\ host' = host
    BY <1>4 DEF Memory!SysctlSwap
  <2>2. CASE refused' = {"swap"} /\ info' = info
    BY <2>1, <2>2 DEF QuestionsAsked, Memory!UsedAndFreeAddUp
  <2>3. CASE refused' = refused
    <3> DEFINE all == host.swap_total * Unit
               avail == host.swap_free * Unit
               used == (host.swap_total - host.swap_free) * Unit
    <3>1. info' = [info EXCEPT !.total_swap = all, !.used_swap = used, !.free_swap = avail]
      <4>1. refused = {} /\ refused' # {"swap"}
        BY <2>1, <2>3 DEF QuestionsAsked
      <4> QED
        BY <1>4, <4>1 DEF Memory!SysctlSwap, Memory!SwapUsage
    <3>2. used + avail = all
      BY <1>0, UnitsInOrder
    <3> HIDE DEF all, avail, used
    <3> QED
      BY <2>1, <2>3, <3>1, <3>2 DEF QuestionsAsked, Memory!UsedAndFreeAddUp, InfoFields
  <2> QED
    BY <1>4, <2>2, <2>3 DEF Memory!SysctlSwap
<1>5. CASE Memory!ThrowMacOS
  <2>1. pc' = "thrown" /\ refused' \in {{"memsize"}, {"statistics"}, {"swap"}} /\ UNCHANGED <<host, info>>
    BY <1>5 DEF Memory!ThrowMacOS, Memory!Throw
  <2> QED
    BY <2>1 DEF QuestionsAsked, Memory!UsedAndFreeAddUp
<1>6. CASE UNCHANGED Memory!vars
  BY <1>6 DEF Memory!vars, QuestionsAsked, Memory!UsedAndFreeAddUp
<1> QED
  BY <1>1, <1>2, <1>3, <1>4, <1>5, <1>6 DEF Memory!NextMacOS
-----------------------------------------------------------------------------
(* The reader of memory, on either platform. *)

MemoryKept ==
  reader = "memory" =>
    /\ platform \in {"Linux", "macOS"}
    /\ platform = "Linux" => LinesGot
    /\ platform = "macOS" => QuestionsAsked

LEMMA MemoryStep ==
  ASSUME MemoryKept, [Next]_vars, reader = "memory"
  PROVE  /\ UNCHANGED <<reader, platform>>
         /\ platform = "Linux" => [Memory!NextLinux]_(Memory!vars)
         /\ platform = "macOS" => [Memory!NextMacOS]_(Memory!vars)
<1>1. CASE NextMemory
  BY <1>1 DEF NextMemory
<1>2. CASE UNCHANGED vars
  BY <1>2 DEF vars, memoryVars, Memory!vars
<1> QED
  BY <1>1, <1>2 DEF Next, NextFields, NextTexts, NextCounts

\* The invariant of the reader of memory.
THEOREM MemoryInvariant == Spec => []MemoryKept
<1>1. Init => MemoryKept
  <2> SUFFICES ASSUME Init, reader = "memory"
               PROVE  MemoryKept
    BY DEF MemoryKept
  <2>1. platform \in {"Linux", "macOS"} /\ Memory!Init
    BY DEF Init
  <2> QED
    BY <2>1, LinesGotInit, QuestionsInit, ReadersAssumption DEF MemoryKept
<1>2. MemoryKept /\ [Next]_vars => MemoryKept'
  <2> SUFFICES ASSUME MemoryKept, [Next]_vars, reader' = "memory"
               PROVE  MemoryKept'
    BY DEF MemoryKept
  <2>1. reader = "memory"
    BY DEF Next, NextMemory, NextFields, NextTexts, NextCounts, vars
  <2>2. /\ UNCHANGED <<reader, platform>>
        /\ platform = "Linux" => [Memory!NextLinux]_(Memory!vars)
        /\ platform = "macOS" => [Memory!NextMacOS]_(Memory!vars)
    BY <2>1, MemoryStep
  <2>3. platform = "Linux" => LinesGot'
    BY <2>1, <2>2, LinesGotNext, ReadersAssumption DEF MemoryKept
  <2>4. platform = "macOS" => QuestionsAsked'
    BY <2>1, <2>2, QuestionsNext, ReadersAssumption DEF MemoryKept
  <2> QED
    BY <2>1, <2>2, <2>3, <2>4 DEF MemoryKept
<1> QED
  BY <1>1, <1>2, PTL DEF Spec

\* Used and free memory, and used and free swap, add up to the total on either
\* platform (memory_stats.cpp:83, 121): the unsigned differences never wrap,
\* whatever order the lines come in and whatever memory does between questions.
THEOREM MemoryAddsUp == Spec => []UsedAndFreeAddUp
<1>1. MemoryKept => UsedAndFreeAddUp
  BY LinuxAddsUp, ReadersAssumption DEF MemoryKept, QuestionsAsked, UsedAndFreeAddUp
<1> QED
  BY <1>1, MemoryInvariant, PTL

\* On Linux every field is the value of its own line, and of one text
\* (memory_stats.cpp:50-80).
THEOREM FieldsAreOfOneText == Spec => []FieldsOfOneText
<1>1. LinesGot => Memory!FieldsOfOneText
  BY FieldFacts DEF LinesGot, Memory!FieldsOfOneText
<1>2. MemoryKept => FieldsOfOneText
  BY <1>1 DEF MemoryKept, FieldsOfOneText
<1> QED
  BY <1>2, MemoryInvariant, PTL
-----------------------------------------------------------------------------
(* The reader of the counts, on macOS. *)

\* The operators the model takes from the library are the ones of OperatorLemmas.
LEMMA SameOperators ==
  /\ \A S : Counts!Cardinality(S) = Cardinality(S)
  /\ \A S : Counts!IsFiniteSet(S) <=> IsFiniteSet(S)
  /\ \A f, S : Counts!SumFunctionOnSet(f, S) = SumFunctionOnSet(f, S)
<1>1. \A S : Counts!Cardinality(S) = Cardinality(S)
  BY DEF Counts!Cardinality, Cardinality
<1>2. \A S : Counts!IsFiniteSet(S) <=> IsFiniteSet(S)
  BY DEF Counts!IsFiniteSet, IsFiniteSet
<1>3. \A f, S : Counts!SumFunctionOnSet(f, S) = SumFunctionOnSet(f, S)
  BY DEF Counts!SumFunctionOnSet, SumFunctionOnSet, Counts!FoldFunctionOnSet, FoldFunctionOnSet,
         Counts!MapThenFoldSet, MapThenFoldSet
<1> QED
  BY <1>1, <1>2, <1>3

\* What the loop adds for each pid.
PerPid == [p \in Pids |-> IF sum = "threads" THEN host[p].threads ELSE host[p].fds + FdSpare]

\* The processes that stayed and that the loop has behind it.
Passed == {p \in stable : host[p].readable /\ \E k \in 1..idx - 1 : buf[k] = p}

\* The inductive invariant: what the kernel has written is what the loop reads,
\* and the sum has every process that stayed.
CountsKept ==
  /\ host \in [Pids -> Kinds \cup {Counts!Gone}]
  /\ pc \in {"process_count", "size", "fetch", "loop", "done", "thrown"}
  /\ sum \in {"threads", "fds"}
  /\ pc \in {"fetch", "loop"} <=> held # {}
  /\ pc \in {"process_count", "size", "fetch"} => idx = 1 /\ total = 0
  /\ pc = "fetch" => len \in Nat
  /\ pc = "loop" =>
       /\ idx \in Nat \ {0} /\ len \in Nat /\ total \in Nat
       /\ \A k \in 1..len : buf[k] \in Pids
       /\ total >= SumFunctionOnSet(PerPid, Passed)
  /\ stable \subseteq Counts!Alive

\* What a process, or none, can have.
LEMMA ProcessFacts ==
  ASSUME host \in [Pids -> Kinds \cup {Counts!Gone}], NEW p \in Pids
  PROVE  /\ host[p].threads \in Nat /\ host[p].fds \in Nat /\ host[p].readable \in BOOLEAN
         /\ PerPid[p] \in Nat
         /\ host[p] = Counts!Gone => ~host[p].readable
<1>1. FdSpare \in Nat /\ Kinds \subseteq [threads : Nat \ {0}, fds : Nat, readable : BOOLEAN]
  BY ReadersAssumption DEF Counts!OSMacAssumption
<1>2. host[p] \in Kinds \cup {Counts!Gone}
  OBVIOUS
<1>3. host[p].threads \in Nat /\ host[p].fds \in Nat /\ host[p].readable \in BOOLEAN
  <2>1. CASE host[p] \in Kinds
    <3>1. host[p] \in [threads : Nat \ {0}, fds : Nat, readable : BOOLEAN]
      BY <1>1, <2>1
    <3> QED
      BY <3>1
  <2>2. CASE host[p] = Counts!Gone
    BY <2>2 DEF Counts!Gone
  <2> QED
    BY <1>2, <2>1, <2>2
<1>4. PerPid[p] \in Nat
  BY <1>1, <1>3 DEF PerPid
<1> QED
  BY <1>3, <1>4 DEF Counts!Gone

LEMMA AliveFacts ==
  /\ IsFiniteSet(Pids) /\ Counts!Alive \subseteq Pids
  /\ IsFiniteSet(Counts!Alive) /\ Cardinality(Counts!Alive) \in Nat
<1>1. IsFiniteSet(Pids)
  BY ReadersAssumption, SameOperators DEF Counts!OSMacAssumption
<1>2. Counts!Alive \in SUBSET Pids
  BY DEF Counts!Alive
<1> QED
  BY <1>1, <1>2, FS_Subset, FS_CardinalityType

LEMMA FunctionIsSequence ==
  ASSUME NEW n \in Nat, NEW T, NEW f \in [1..n -> T]
  PROVE  f \in Seq(T) /\ Len(f) = n
OBVIOUS

\* A list of the processes there are.
LEMMA ListFacts ==
  /\ Counts!SetToSeq(Counts!Alive) \in [1..Cardinality(Counts!Alive) -> Counts!Alive]
  /\ Counts!SetToSeq(Counts!Alive) \in Seq(Counts!Alive)
  /\ Len(Counts!SetToSeq(Counts!Alive)) = Cardinality(Counts!Alive)
<1> DEFINE n == Cardinality(Counts!Alive)
<1>1. \E f \in [1..n -> Counts!Alive] : \A a, b \in 1..n : f[a] = f[b] => a = b
  BY AliveFacts, Enumeration
<1>2. \E f \in [1..n -> Counts!Alive] : Counts!IsInjective(f)
  BY <1>1 DEF Counts!IsInjective
<1>3. Counts!SetToSeq(Counts!Alive) \in [1..n -> Counts!Alive]
  BY <1>2, SameOperators DEF Counts!SetToSeq
<1>4. n \in Nat
  BY AliveFacts
<1> QED
  BY <1>3, <1>4, FunctionIsSequence

LEMMA PassedFacts ==
  ASSUME CountsKept
  PROVE  /\ Passed \subseteq Pids /\ IsFiniteSet(Passed)
         /\ \A p \in Passed : PerPid[p] \in Nat
         /\ SumFunctionOnSet(PerPid, Passed) \in Nat
<1>1. Passed \in SUBSET Pids
  BY AliveFacts DEF CountsKept, Passed
<1>2. IsFiniteSet(Passed)
  BY <1>1, AliveFacts, FS_Subset
<1>3. \A p \in Passed : PerPid[p] \in Nat
  BY <1>1, ProcessFacts DEF CountsKept
<1> QED
  BY <1>1, <1>2, <1>3, SumType

\* One more, or one less, in the sum.
LEMMA SumOneMore ==
  ASSUME NEW f, NEW S, IsFiniteSet(S), NEW x, \A y \in S \cup {x} : f[y] \in Nat
  PROVE  /\ SumFunctionOnSet(f, S) \in Nat
         /\ SumFunctionOnSet(f, S \ {x}) <= SumFunctionOnSet(f, S)
         /\ SumFunctionOnSet(f, S \cup {x}) <= SumFunctionOnSet(f, S) + f[x]
<1>1. SumFunctionOnSet(f, S) \in Nat
  BY SumType
<1>2. IsFiniteSet(S \ {x}) /\ IsFiniteSet(S \cup {x})
  BY FS_RemoveElement, FS_AddElement
<1>3. SumFunctionOnSet(f, S \ {x}) \in Nat
  BY <1>2, SumType
<1>4. CASE x \in S
  <2>1. SumFunctionOnSet(f, S) = f[x] + SumFunctionOnSet(f, S \ {x})
    BY <1>4, SumRemove
  <2>2. S \cup {x} = S /\ f[x] \in Nat
    BY <1>4
  <2> QED
    BY <1>1, <1>3, <2>1, <2>2
<1>5. CASE x \notin S
  <2>1. S \ {x} = S /\ (S \cup {x}) \ {x} = S
    BY <1>5
  <2>2. SumFunctionOnSet(f, S \cup {x}) = f[x] + SumFunctionOnSet(f, (S \cup {x}) \ {x})
    BY <1>2, SumRemove
  <2>3. f[x] \in Nat
    OBVIOUS
  <2>4. SumFunctionOnSet(f, S \cup {x}) = f[x] + SumFunctionOnSet(f, S)
    BY <2>1, <2>2
  <2>5. SumFunctionOnSet(f, S \cup {x}) <= SumFunctionOnSet(f, S) + f[x]
    BY <1>1, <2>3, <2>4
  <2>6. SumFunctionOnSet(f, S \ {x}) <= SumFunctionOnSet(f, S)
    BY <1>1, <2>1
  <2> QED
    BY <1>1, <2>5, <2>6
<1> QED
  BY <1>4, <1>5

LEMMA CountsInit ==
  ASSUME Counts!Init
  PROVE  CountsKept
<1>1. host \in [Pids -> Kinds \cup {Counts!Gone}]
  BY DEF Counts!Init
<1> QED
  BY <1>1 DEF Counts!Init, CountsKept

\* The processes of a step that leaves host and buffer alone.
LEMMA SameSum ==
  ASSUME UNCHANGED <<host, sum, stable, idx, buf>>
  PROVE  PerPid' = PerPid /\ Passed' = Passed
BY DEF PerPid, Passed

\* One process of the list.
LEMMA CountsPidInfo ==
  ASSUME CountsKept, Counts!PidInfo
  PROVE  CountsKept'
<1>1. /\ pc = "loop" /\ idx <= len /\ UNCHANGED <<host, pc, sum, len, buf, held, info, stable>>
      /\ idx \in Nat \ {0} /\ len \in Nat /\ total \in Nat
      /\ total >= SumFunctionOnSet(PerPid, Passed)
  BY DEF Counts!PidInfo, CountsKept
<1> DEFINE q == buf[idx]
           proc == IF q \in Counts!Alive THEN host[q] ELSE Counts!Gone
<1>2. q \in Pids
  BY <1>1 DEF CountsKept
<1>3. IF proc.readable
      THEN /\ total' = total + IF sum = "threads" THEN proc.threads ELSE proc.fds + FdSpare
           /\ idx' = idx + 1
      ELSE idx' = idx + 1 /\ UNCHANGED total
  BY DEF Counts!PidInfo, Counts!AfterFailure
<1>4. idx' = idx + 1
  BY <1>3
<1>5. PerPid' = PerPid
  BY <1>1 DEF PerPid
<1>6. /\ host[q].readable \in BOOLEAN /\ PerPid[q] \in Nat
      /\ host[q] = Counts!Gone => ~host[q].readable
  BY <1>2, ProcessFacts DEF CountsKept
<1>7. \A p \in Passed' : p \in Passed \/ (p = q /\ q \in stable /\ host[q].readable)
  <2> SUFFICES ASSUME NEW p \in Passed'
               PROVE  p \in Passed \/ (p = q /\ q \in stable /\ host[q].readable)
    OBVIOUS
  <2>1. p \in stable /\ host[p].readable
    BY <1>1 DEF Passed
  <2>2. PICK k \in 1..idx' - 1 : buf'[k] = p
    BY DEF Passed
  <2>3. buf[k] = p /\ (k = idx \/ k \in 1..idx - 1)
    BY <1>1, <1>4, <2>2
  <2> QED
    BY <2>1, <2>3 DEF Passed
<1>8. Passed \subseteq Passed'
  BY <1>1, <1>4 DEF Passed
<1>9. /\ IsFiniteSet(Passed) /\ SumFunctionOnSet(PerPid, Passed) \in Nat
      /\ \A p \in Passed : PerPid[p] \in Nat
  BY PassedFacts
<1>10. total' \in Nat /\ total' >= SumFunctionOnSet(PerPid, Passed')
  <2>1. CASE proc.readable
    <3>1. q \in Counts!Alive /\ proc = host[q]
      BY <2>1 DEF Counts!Gone
    <3>2. total' = total + PerPid[q]
      BY <1>2, <1>3, <2>1, <3>1 DEF PerPid
    <3>3. Passed' = Passed \/ Passed' = Passed \cup {q}
      BY <1>7, <1>8
    <3>4. SumFunctionOnSet(PerPid, Passed \cup {q}) <= SumFunctionOnSet(PerPid, Passed) + PerPid[q]
      BY <1>6, <1>9, SumOneMore
    <3>5. IsFiniteSet(Passed \cup {q}) /\ \A p \in Passed \cup {q} : PerPid[p] \in Nat
      BY <1>6, <1>9, FS_AddElement
    <3>6. SumFunctionOnSet(PerPid, Passed \cup {q}) \in Nat
      BY <3>5, SumType
    <3> QED
      BY <1>1, <1>6, <1>9, <3>2, <3>3, <3>4, <3>6
  <2>2. CASE ~proc.readable
    <3>1. ~(q \in stable /\ host[q].readable)
      BY <2>2 DEF CountsKept
    <3>2. Passed' = Passed
      BY <1>7, <1>8, <3>1
    <3> QED
      BY <1>1, <1>3, <2>2, <3>2
  <2> QED
    BY <2>1, <2>2
<1>11. Counts!Alive' = Counts!Alive
  BY <1>1 DEF Counts!Alive
<1> HIDE DEF q, proc
<1>12. host' \in [Pids -> Kinds \cup {Counts!Gone}] /\ stable' \subseteq Counts!Alive'
  BY <1>1, <1>11 DEF CountsKept
<1>13. total' >= SumFunctionOnSet(PerPid', Passed')
  BY <1>5, <1>10
<1> QED
  BY <1>1, <1>4, <1>10, <1>12, <1>13 DEF CountsKept

\* The table arrives: it has the processes there are.
LEMMA CountsFetch ==
  ASSUME CountsKept, Counts!Fetch, pc' = "loop"
  PROVE  CountsKept'
<1> DEFINE n == Cardinality(Counts!Alive)
           list == Counts!SetToSeq(Counts!Alive)
           rest == [k \in 1..len - n |-> Unwritten]
<1>1. /\ pc = "fetch" /\ n <= len /\ len' = n /\ buf' = list \o rest
      /\ stable' = Counts!Alive /\ UNCHANGED <<sum, idx, held, total, host>>
  BY SameOperators DEF Counts!Fetch, Counts!Used, Counts!Returns
<1>2. idx = 1 /\ total = 0 /\ len \in Nat /\ held # {}
  BY <1>1 DEF CountsKept
<1>3. n \in Nat /\ list \in [1..n -> Counts!Alive] /\ list \in Seq(Counts!Alive) /\ Len(list) = n
  BY AliveFacts, ListFacts
<1>4. rest \in Seq({Unwritten})
  <2>1. len - n \in Nat
    BY <1>1, <1>2, <1>3
  <2> QED
    BY <2>1
<1> HIDE DEF n, list, rest
<1>5. \A k \in 1..len' : buf'[k] \in Pids
  <2> SUFFICES ASSUME NEW k \in 1..n
               PROVE  (list \o rest)[k] \in Pids
    BY <1>1
  <2>1. (list \o rest)[k] = list[k]
    BY <1>3, <1>4
  <2> QED
    BY <1>3, <2>1, AliveFacts
<1>6. Passed' = {}
  BY <1>1, <1>2 DEF Passed
<1>7. SumFunctionOnSet(PerPid', Passed') = 0
  BY <1>6, SumChosen, FS_EmptySet
<1>8. Counts!Alive' = Counts!Alive
  BY <1>1 DEF Counts!Alive
<1>9. total' >= SumFunctionOnSet(PerPid', Passed')
  BY <1>1, <1>2, <1>7
<1>10. /\ host' \in [Pids -> Kinds \cup {Counts!Gone}] /\ sum' \in {"threads", "fds"}
       /\ idx' = 1 /\ total' = 0 /\ len' \in Nat /\ held' # {}
  BY <1>1, <1>2, <1>3 DEF CountsKept
<1>11. /\ idx' \in Nat \ {0} /\ len' \in Nat /\ total' \in Nat
       /\ \A k \in 1..len' : buf'[k] \in Pids
       /\ total' >= SumFunctionOnSet(PerPid', Passed')
  BY <1>5, <1>9, <1>10
<1>12. stable' \subseteq Counts!Alive'
  BY <1>1, <1>8
<1>13. pc' = "loop"
  OBVIOUS
<1> QED
  BY <1>10, <1>11, <1>12, <1>13 DEF CountsKept

\* A process comes or goes.
LEMMA CountsHost ==
  ASSUME CountsKept, Counts!Fork \/ Counts!Exit
  PROVE  CountsKept'
<1>1. UNCHANGED <<pc, sum, len, buf, idx, held, total, info>>
  BY DEF Counts!Fork, Counts!Exit, Counts!callVars
<1>2. PICK p \in Pids, kind \in Kinds \cup {Counts!Gone} :
        /\ host' = [host EXCEPT ![p] = kind]
        /\ stable' = stable \ {p}
        /\ kind = Counts!Gone \/ p \notin Counts!Alive
  BY DEF Counts!Fork, Counts!Exit, Counts!Alive, CountsKept
<1>3. host' \in [Pids -> Kinds \cup {Counts!Gone}]
  BY <1>2 DEF CountsKept
<1>4. \A r \in Pids \ {p} : host'[r] = host[r]
  BY <1>2 DEF CountsKept
<1>5. stable' \subseteq Counts!Alive'
  BY <1>2, <1>4 DEF CountsKept, Counts!Alive
<1>6. ASSUME pc = "loop"
      PROVE  total >= SumFunctionOnSet(PerPid', Passed')
  <2>1. Passed' = Passed \ {p}
    <3>1. stable \subseteq Pids
      BY AliveFacts DEF CountsKept
    <3> QED
      BY <1>1, <1>2, <1>4, <3>1 DEF Passed
  <2>2. /\ Passed \subseteq Pids /\ IsFiniteSet(Passed)
        /\ \A r \in Passed : PerPid[r] \in Nat
        /\ SumFunctionOnSet(PerPid, Passed) \in Nat
    BY PassedFacts
  <2>3. PerPid[p] \in Nat
    BY ProcessFacts DEF CountsKept
  <2>4. SumFunctionOnSet(PerPid, Passed \ {p}) <= SumFunctionOnSet(PerPid, Passed)
    BY <2>2, <2>3, SumOneMore
  <2>5. IsFiniteSet(Passed \ {p}) /\ \A r \in Passed \ {p} : PerPid[r] \in Nat
    BY <2>2, FS_RemoveElement
  <2>6. \A r \in Passed \ {p} : PerPid[r] = PerPid'[r]
    BY <1>1, <1>4, <2>2 DEF PerPid
  <2>7. SumFunctionOnSet(PerPid, Passed \ {p}) = SumFunctionOnSet(PerPid', Passed \ {p})
    BY <2>5, <2>6, SumSame
  <2>8. SumFunctionOnSet(PerPid, Passed \ {p}) \in Nat
    BY <2>5, SumType
  <2>9. total \in Nat /\ total >= SumFunctionOnSet(PerPid, Passed)
    BY <1>6 DEF CountsKept
  <2> QED
    BY <2>1, <2>2, <2>4, <2>7, <2>8, <2>9
<1>7. /\ pc' \in {"process_count", "size", "fetch", "loop", "done", "thrown"}
      /\ sum' \in {"threads", "fds"}
      /\ pc' \in {"fetch", "loop"} <=> held' # {}
      /\ pc' \in {"process_count", "size", "fetch"} => idx' = 1 /\ total' = 0
  BY <1>1 DEF CountsKept
<1>8. pc' = "fetch" => len' \in Nat
  BY <1>1 DEF CountsKept
<1>9. ASSUME pc' = "loop"
      PROVE  /\ idx' \in Nat \ {0} /\ len' \in Nat /\ total' \in Nat
             /\ \A k \in 1..len' : buf'[k] \in Pids
             /\ total' >= SumFunctionOnSet(PerPid', Passed')
  BY <1>1, <1>6, <1>9 DEF CountsKept
<1> QED
  BY <1>3, <1>5, <1>7, <1>8, <1>9 DEF CountsKept

\* The other steps end one function or bring it to its loop.
LEMMA CountsOther ==
  ASSUME CountsKept,
         \/ Counts!CountProcesses \/ Counts!AskSize \/ Counts!EndLoop \/ Counts!Throw
         \/ Counts!Fetch /\ pc' # "loop"
  PROVE  CountsKept'
<1>1. host' = host
  BY DEF Counts!CountProcesses, Counts!AskSize, Counts!EndLoop, Counts!Throw, Counts!Fetch
<1>2. Counts!Alive' = Counts!Alive
  BY <1>1 DEF Counts!Alive
<1>3. stable' \subseteq Counts!Alive'
  BY <1>2 DEF Counts!CountProcesses, Counts!AskSize, Counts!EndLoop, Counts!Throw, Counts!Fetch,
              Counts!Returns, CountsKept
<1>4. Counts!TableSize \in Nat
  BY AliveFacts, SameOperators, ReadersAssumption DEF Counts!TableSize, Counts!OSMacAssumption
<1>5. ASSUME NEW n, Counts!Returns(n)
      PROVE  /\ pc' \in {"size", "done"} /\ sum' \in {"threads", "fds"}
             /\ held' = {} /\ idx' = 1 /\ total' = 0
  BY <1>5 DEF Counts!Returns, Counts!HeldAfterReturn, CountsKept
<1>6. \/ /\ pc' \in {"size", "done", "thrown"} /\ sum' \in {"threads", "fds"}
         /\ held' = {} /\ (pc' = "size" => idx' = 1 /\ total' = 0)
      \/ /\ pc' = "fetch" /\ sum' \in {"threads", "fds"}
         /\ held' # {} /\ idx' = 1 /\ total' = 0 /\ len' \in Nat
  <2>1. CASE Counts!CountProcesses \/ Counts!Throw
    BY <2>1 DEF Counts!CountProcesses, Counts!Throw, CountsKept
  <2>2. CASE Counts!AskSize
    BY <1>4, <1>5, <2>2 DEF Counts!AskSize, CountsKept
  <2>3. CASE Counts!EndLoop \/ (Counts!Fetch /\ pc' # "loop")
    BY <1>5, <2>3 DEF Counts!EndLoop, Counts!Fetch
  <2> QED
    BY <2>1, <2>2, <2>3
<1>7. host' \in [Pids -> Kinds \cup {Counts!Gone}]
  BY <1>1 DEF CountsKept
<1> QED
  BY <1>3, <1>6, <1>7 DEF CountsKept

\* The invariant of the reader of the counts.
THEOREM CountsInvariant == Spec => [](reader = "counts" => CountsKept)
<1>1. Init => (reader = "counts" => CountsKept)
  BY CountsInit DEF Init
<1>2. (reader = "counts" => CountsKept) /\ [Next]_vars => (reader = "counts" => CountsKept)'
  <2> SUFFICES ASSUME reader = "counts" => CountsKept, [Next]_vars, reader' = "counts"
               PROVE  CountsKept'
    OBVIOUS
  <2>1. reader = "counts" /\ CountsKept
    BY DEF Next, NextMemory, NextFields, NextTexts, NextCounts, vars
  <2>2. CASE Counts!Next
    BY <2>1, <2>2, CountsHost, CountsOther, CountsFetch, CountsPidInfo DEF Counts!Next, Counts!Step
  <2>3. CASE UNCHANGED vars
    <3>1. UNCHANGED <<host, pc, sum, len, buf, idx, held, total, stable>>
      BY <2>3 DEF vars, countsVars
    <3>2. PerPid' = PerPid /\ Passed' = Passed /\ Counts!Alive' = Counts!Alive
      BY <3>1, SameSum DEF Counts!Alive
    <3> QED
      BY <2>1, <3>1, <3>2 DEF CountsKept
  <2> QED
    BY <2>1, <2>2, <2>3 DEF Next, NextMemory, NextFields, NextTexts, NextCounts
<1> QED
  BY <1>1, <1>2, PTL DEF Spec

\* On macOS the buffer is held while the loop reads it, only what the kernel has
\* written is read, and no way out leaks it (os_info.cpp:305-345), for any table
\* and any spare room.
THEOREM MemoryIsHeld == Spec => []MemoryHeld
<1>1. (reader = "counts" => CountsKept) => MemoryHeld
  <2> SUFFICES ASSUME CountsKept, reader = "counts"
               PROVE  Counts!MemoryHeld
    BY DEF MemoryHeld
  <2>1. Unwritten \notin Pids
    BY ReadersAssumption DEF Counts!OSMacAssumption
  <2>2. ASSUME pc = "loop", idx <= len
        PROVE  buf[idx] # Unwritten
    BY <2>1, <2>2 DEF CountsKept
  <2> QED
    BY <2>2 DEF CountsKept, Counts!MemoryHeld
<1> QED
  BY <1>1, CountsInvariant, PTL

\* On macOS a process that cannot be asked hides none behind it from the sum of
\* threads or handles (os_info.cpp:335-343), whoever comes and goes meanwhile.
THEOREM StableAreSummed == Spec => []SumCoversStable
<1>1. (reader = "counts" => CountsKept) => SumCoversStable
  <2> SUFFICES ASSUME CountsKept, pc = "loop"
               PROVE  Counts!SumCoversStable
    BY DEF SumCoversStable, Counts!SumCoversStable
  <2>1. total >= SumFunctionOnSet(PerPid, Passed)
    BY DEF CountsKept
  <2> QED
    BY <2>1, SameOperators DEF Counts!SumCoversStable, PerPid, Passed
<1> QED
  BY <1>1, CountsInvariant, PTL
-----------------------------------------------------------------------------
(* The reader of the fields of the processor, on either platform. *)

FieldNames == {"byte_order", "logical_cpus", "physical_cpus", "l1d_cache_kb", "l1i_cache_kb",
               "l2_cache_kb", "l3_cache_kb", "model_name", "architecture"}

\* What the column of f is to have once it has been asked for.
Column(f) ==
  IF f \in refused THEN Fields!Default(f) ELSE Fields!Converted(f, Fields!Answer(f))

\* The inductive invariant: the columns asked for have what they are to have,
\* and no later one has been refused yet.
FieldsKept ==
  /\ platform \in {"Linux", "macOS"}
  /\ \A f \in Fields!Caches : host[f] \in Nat
  /\ DOMAIN info = FieldNames
  /\ DOMAIN val = {"int_val", "uint64_val", "str_val", "local", "uts"}
  /\ step \in Nat \ {0}
  /\ \A k \in DOMAIN Fields!Questions : k >= step => Fields!Questions[k] \notin refused
  /\ \A k \in DOMAIN Fields!Questions : k < step =>
       info[Fields!Questions[k]] = Column(Fields!Questions[k])
  /\ pc = "done" => step > Len(Fields!Questions)

\* Nothing is asked twice.
LEMMA QuestionFacts ==
  /\ Len(Fields!Questions) \in Nat /\ DOMAIN Fields!Questions = 1..Len(Fields!Questions)
  /\ \A k \in DOMAIN Fields!Questions : Fields!Questions[k] \in FieldNames
  /\ \A k, l \in DOMAIN Fields!Questions : Fields!Questions[k] = Fields!Questions[l] => k = l
<1>1. CASE platform = "Linux"
  BY <1>1 DEF Fields!Questions, FieldNames
<1>2. CASE platform # "Linux"
  BY <1>2 DEF Fields!Questions, FieldNames
<1> QED
  BY <1>1, <1>2

LEMMA FieldsInit ==
  ASSUME Fields!Init
  PROVE  FieldsKept
<1>1. platform \in {"Linux", "macOS"} /\ step = 1 /\ pc = "asking" /\ refused = {}
  BY DEF Fields!Init
<1>7. host \in Fields!Machines
  BY DEF Fields!Init
<1>2. Sizes \subseteq Nat
  BY ReadersAssumption DEF Fields!FieldsAssumption
<1>3. DOMAIN host = FieldNames
  BY <1>7 DEF FieldNames, Fields!Machines
<1>4. \A f \in Fields!Caches : host[f] \in Nat
  <2>1. /\ host["l1d_cache_kb"] \in Sizes /\ host["l1i_cache_kb"] \in Sizes
        /\ host["l2_cache_kb"] \in Sizes /\ host["l3_cache_kb"] \in Sizes
    BY <1>7 DEF Fields!Machines
  <2> QED
    BY <1>2, <2>1 DEF Fields!Caches
<1>8. info = [f \in DOMAIN host |-> Fields!Default(f)]
  BY DEF Fields!Init
<1>5. DOMAIN info = FieldNames
  BY <1>3, <1>8
<1>9. val = [int_val |-> 0, uint64_val |-> 0, str_val |-> "", local |-> 0, uts |-> ""]
  BY DEF Fields!Init
<1>6. DOMAIN val = {"int_val", "uint64_val", "str_val", "local", "uts"}
  BY <1>9
<1> QED
  BY <1>1, <1>4, <1>5, <1>6, QuestionFacts DEF FieldsKept

\* The answer to a question, or its refusal, is that of its own column.
LEMMA FieldsAsk ==
  ASSUME FieldsKept, Fields!AskNext
  PROVE  FieldsKept'
<1>0. PICK f : f = Fields!Questions[step]
  OBVIOUS
<1>1. /\ pc = "asking" /\ step \in DOMAIN Fields!Questions /\ step' = step + 1
      /\ UNCHANGED <<platform, host, pc>>
  BY QuestionFacts DEF Fields!AskNext, FieldsKept
<1>2. Fields!Questions' = Fields!Questions
  BY <1>1 DEF Fields!Questions
<1>3. f \in FieldNames /\ f \notin refused
  BY <1>0, <1>1, QuestionFacts DEF FieldsKept
<1>4. \A g : /\ Fields!Default(g)' = Fields!Default(g)
              /\ Fields!Converted(g, Fields!Answer(g))' = Fields!Converted(g, Fields!Answer(g))
  BY <1>1 DEF Fields!Default, Fields!Converted, Fields!Answer
<1>5. Fields!Variable(f) \in DOMAIN val
  BY DEF FieldsKept, Fields!Variable
<1>6. \/ /\ refused' = refused
         /\ info' = [info EXCEPT ![f] = Fields!Converted(f, Fields!Answer(f))]
      \/ /\ refused' = refused \cup {f}
         /\ info' = [info EXCEPT ![f] = Fields!Default(f)]
  BY <1>0, <1>5 DEF Fields!AskNext, Fields!AfterRefusal
<1>7. DOMAIN val' = DOMAIN val
  BY DEF Fields!AskNext
<1>8. \A k \in DOMAIN Fields!Questions : k < step + 1 =>
        info'[Fields!Questions[k]] = Column(Fields!Questions[k])'
  <2> SUFFICES ASSUME NEW k \in DOMAIN Fields!Questions, k < step + 1
               PROVE  info'[Fields!Questions[k]] = Column(Fields!Questions[k])'
    OBVIOUS
  <2>0. PICK g : g = Fields!Questions[k]
    OBVIOUS
  <2>1. CASE k = step
    <3>1. g = f
      BY <1>0, <2>0, <2>1
    <3>2. f \in DOMAIN info
      BY <1>3 DEF FieldsKept
    <3>3. Column(f)' = info'[f]
      BY <1>3, <1>4, <1>6, <3>2 DEF Column
    <3>4. Column(Fields!Questions[k])' = Column(g)'
      BY <1>2, <2>0 DEF Column
    <3> QED
      BY <2>0, <3>1, <3>3, <3>4
  <2>2. CASE k < step
    <3>1. g # f
      BY <1>0, <1>1, <2>0, <2>2, QuestionFacts
    <3>2. info'[g] = info[g] /\ (g \in refused' <=> g \in refused)
      BY <1>6, <2>0, <3>1, QuestionFacts DEF FieldsKept
    <3>3. info[g] = Column(g)
      BY <2>0, <2>2 DEF FieldsKept
    <3>4. Column(g)' = Column(g)
      BY <1>4, <3>2 DEF Column
    <3>5. Column(Fields!Questions[k])' = Column(g)'
      BY <1>2, <2>0 DEF Column
    <3> QED
      BY <2>0, <3>2, <3>3, <3>4, <3>5
  <2> QED
    BY <1>1, <2>1, <2>2, QuestionFacts
<1>9. \A k \in DOMAIN Fields!Questions : k >= step + 1 => Fields!Questions[k] \notin refused'
  <2> SUFFICES ASSUME NEW k \in DOMAIN Fields!Questions, k >= step + 1
               PROVE  Fields!Questions[k] \notin refused'
    OBVIOUS
  <2>1. Fields!Questions[k] # f
    BY <1>0, <1>1, QuestionFacts
  <2>2. Fields!Questions[k] \notin refused
    BY <1>1, QuestionFacts DEF FieldsKept
  <2> QED
    BY <1>6, <2>1, <2>2
<1>10. DOMAIN info' = DOMAIN info
  BY <1>6
<1>11. step' \in Nat \ {0} /\ Fields!Caches' = Fields!Caches
  BY <1>1 DEF FieldsKept, Fields!Caches
<1> QED
  BY <1>1, <1>2, <1>7, <1>8, <1>9, <1>10, <1>11 DEF FieldsKept

LEMMA FieldsNext ==
  ASSUME FieldsKept, Fields!Next
  PROVE  FieldsKept'
<1>1. CASE Fields!AskNext
  BY <1>1, FieldsAsk
<1>2. CASE Fields!Return \/ Fields!Throw
  <2>1. /\ UNCHANGED <<platform, host, step, val, info, refused>>
        /\ pc' = "done" => step > Len(Fields!Questions)
    BY <1>2 DEF Fields!Return, Fields!Throw
  <2>2. /\ Fields!Questions' = Fields!Questions /\ Fields!Caches' = Fields!Caches
        /\ \A f : Column(f)' = Column(f)
    BY <2>1 DEF Fields!Questions, Fields!Caches, Column, Fields!Default, Fields!Converted, Fields!Answer
  <2> QED
    BY <2>1, <2>2 DEF FieldsKept
<1> QED
  BY <1>1, <1>2 DEF Fields!Next

\* Bytes to KiB and back.
LEMMA BackAgain ==
  ASSUME NEW m \in Nat, NEW k \in Nat \ {0}
  PROVE  (m * k) \div k = m
OBVIOUS

LEMMA ColumnsAreTheirOwn == FieldsKept => Fields!ColumnsOfTheirOwn
<1> SUFFICES ASSUME FieldsKept, pc = "done", NEW f \in Fields!ToSet(Fields!Questions)
             PROVE  IF f \in refused THEN info[f] = Fields!Default(f)
                    ELSE IF f = "byte_order"
                         THEN info[f] = IF host[f] = 1234 THEN "LittleEndian" ELSE "BigEndian"
                    ELSE info[f] = host[f]
  BY Zenon DEF Fields!ColumnsOfTheirOwn
<1>0. PICK k \in DOMAIN Fields!Questions : f = Fields!Questions[k]
  BY DEF Fields!ToSet
<1>1. info[f] = Column(f)
  BY <1>0, QuestionFacts DEF FieldsKept
<1>2. CASE f \in refused
  BY <1>1, <1>2 DEF Column
<1>3. CASE f \notin refused /\ f = "byte_order"
  <2>1. info[f] = Fields!Converted(f, Fields!Answer(f))
    BY <1>1, <1>3 DEF Column
  <2>2. f \notin Fields!Caches
    BY <1>3 DEF Fields!Caches
  <2>3. Fields!Answer(f) = host[f]
    BY <2>2 DEF Fields!Answer
  <2>4. Fields!Converted(f, host[f]) = IF host[f] = 1234 THEN "LittleEndian" ELSE "BigEndian"
    BY <1>3, <2>2 DEF Fields!Converted
  <2>5. info[f] = Fields!Converted(f, host[f])
    BY <2>1, <2>3
  <2>6. CASE host[f] = 1234
    BY <1>3, <2>4, <2>5, <2>6
  <2>7. CASE host[f] # 1234
    BY <1>3, <2>4, <2>5, <2>7
  <2> QED
    BY <2>6, <2>7
<1>4. CASE f \notin refused /\ f # "byte_order"
  <2>1. info[f] = Fields!Converted(f, Fields!Answer(f))
    BY <1>1, <1>4 DEF Column
  <2>2. CASE f \in Fields!Caches /\ platform = "macOS"
    <3>1. (host[f] * KiB) \div KiB = host[f]
      BY <2>2, BackAgain, ReadersAssumption DEF FieldsKept, Fields!FieldsAssumption
    <3> QED
      BY <1>4, <2>1, <2>2, <3>1 DEF Fields!Converted, Fields!Answer
  <2>3. CASE ~(f \in Fields!Caches /\ platform = "macOS")
    <3>1. Fields!Answer(f) = host[f]
      BY <2>3 DEF Fields!Answer
    <3>2. Fields!Converted(f, host[f]) = host[f]
      BY <1>4, <2>3 DEF Fields!Converted
    <3> QED
      BY <1>4, <2>1, <3>1, <3>2
  <2> QED
    BY <1>4, <2>2, <2>3
<1> QED
  BY <1>2, <1>3, <1>4

LEMMA FieldsInvariant == Spec => [](reader = "fields" => FieldsKept)
<1> DEFINE Kept == reader = "fields" => FieldsKept
<1>1. Init => Kept
  BY FieldsInit DEF Init
<1>2. Kept /\ [Next]_vars => Kept'
  <2> SUFFICES ASSUME Kept, [Next]_vars, reader' = "fields"
               PROVE  FieldsKept'
    OBVIOUS
  <2>1. FieldsKept
    BY DEF Next, NextMemory, NextFields, NextTexts, NextCounts, vars
  <2>2. CASE Fields!Next
    BY <2>1, <2>2, FieldsNext
  <2>3. CASE UNCHANGED vars
    <3>1. UNCHANGED <<platform, host, pc, step, val, info, refused>>
      BY <2>3 DEF vars, fieldsVars
    <3>2. /\ Fields!Questions' = Fields!Questions /\ Fields!Caches' = Fields!Caches
          /\ \A f : Column(f)' = Column(f)
      BY <3>1 DEF Fields!Questions, Fields!Caches, Column, Fields!Default, Fields!Converted, Fields!Answer
    <3> QED
      BY <2>1, <3>1, <3>2 DEF FieldsKept
  <2> QED
    BY <2>2, <2>3 DEF Next, NextMemory, NextFields, NextTexts, NextCounts
<1> QED
  BY <1>1, <1>2, PTL DEF Spec
-----------------------------------------------------------------------------
(* The reader of the texts, on either platform. *)

\* What texts are made of, but for what no uname has written.
Answered == {"s", "r", "v", "m", "h", "u", " "}
Characters == (STRING \cup Answered) \ {Texts!Unset}

LEMMA SamePicks ==
  ASSUME NEW S, S \subseteq Nat, S # {}
  PROVE  /\ Texts!Min(S) \in S /\ \A n \in S : Texts!Min(S) <= n
         /\ IsFiniteSet(S) => Texts!Max(S) \in S /\ \A n \in S : Texts!Max(S) >= n
<1>1. Texts!Min(S) = Min(S) /\ Texts!Max(S) = Max(S)
  BY DEF Texts!Min, Min, Texts!Max, Max
<1> QED
  BY <1>1, MinOfNats, MaxOfNats

\* A part of a text is a text.
LEMMA PartOfText ==
  ASSUME NEW s \in Seq(Characters), NEW m \in Nat, NEW n \in Int, m >= 1, n <= Len(s)
  PROVE  SubSeq(s, m, n) \in Seq(Characters)
<1>1. \A i \in m..n : s[i] \in Characters
  BY LenProperties, ElementOfSeq
<1> QED
  BY <1>1, SubSeqProperties

LEMMA TrimmedIsText ==
  ASSUME NEW s \in Seq(Characters)
  PROVE  Texts!TrimString(s) \in Seq(Characters)
<1> DEFINE solid == {k \in 0..Len(s) - 1 : s[k + 1] \notin Texts!Blanks}
<1>0. Len(s) \in Nat
  BY LenProperties
<1>1. CASE solid = {}
  BY <1>1, EmptySeq DEF Texts!TrimString
<1>2. CASE solid # {}
  <2>1. solid \subseteq Nat /\ IsFiniteSet(solid)
    <3>1. IsFiniteSet(0..Len(s) - 1)
      BY <1>0, FS_Interval
    <3>2. solid \subseteq 0..Len(s) - 1
      OBVIOUS
    <3> HIDE DEF solid
    <3>3. IsFiniteSet(solid)
      BY <3>1, <3>2, FS_Subset
    <3> QED
      BY <1>0, <3>2, <3>3
  <2> DEFINE start == Texts!Min(solid)
             end == Texts!Max(solid)
  <2>2. start \in solid /\ end \in solid /\ start <= end
    BY <1>2, <2>1, SamePicks
  <2>3. start \in Nat /\ end \in Nat /\ end <= Len(s) - 1
    BY <1>0, <2>2
  <2> HIDE DEF start, end
  <2> DEFINE last == Texts!Min({start + (end - start + 1), Len(s)})
  <2>4. last \in {start + (end - start + 1), Len(s)} /\ last <= Len(s)
    <3> DEFINE two == {start + (end - start + 1), Len(s)}
    <3>1. two \subseteq Nat /\ two # {} /\ Len(s) \in two
      BY <1>0, <2>2, <2>3
    <3> HIDE DEF two
    <3>2. Texts!Min(two) \in two /\ Texts!Min(two) <= Len(s)
      BY <3>1, SamePicks
    <3> QED
      BY <3>2 DEF two
  <2> HIDE DEF last
  <2>5. SubSeq(s, start + 1, last) \in Seq(Characters)
    BY <1>0, <2>3, <2>4, PartOfText
  <2>6. Texts!TrimString(s) = SubSeq(s, start + 1, last)
    BY <1>2 DEF Texts!TrimString, Texts!Trimmed, Texts!Substr, start, end, last
  <2> QED
    BY <2>5, <2>6
<1> QED
  BY <1>1, <1>2

LEMMA UnquotedIsText ==
  ASSUME NEW s \in Seq(Characters)
  PROVE  Texts!RemoveQuotes(s) \in Seq(Characters)
<1> DEFINE result == Texts!TrimString(s)
<1>1. result \in Seq(Characters) /\ Len(result) \in Nat
  BY TrimmedIsText, LenProperties
<1> HIDE DEF result
<1>2. SubSeq(result, 2, Len(result) - 1) \in Seq(Characters)
  BY <1>1, PartOfText
<1>3. Texts!RemoveQuotes(s) \in {result, SubSeq(result, 2, Len(result) - 1)}
  BY DEF Texts!RemoveQuotes, result
<1> QED
  BY <1>1, <1>2, <1>3

\* The name read from a file of texts is a text.
LEMMA NameIsText ==
  ASSUME NEW lines \in Seq(Seq(Characters))
  PROVE  Texts!ReadOSName(lines) \in Seq(Characters)
<1> DEFINE at == Texts!SelectInSeq(lines, LAMBDA line : Texts!Contains(line, Prefix))
<1>1. at \in 0..Len(lines)
  <2> DEFINE I == {i \in 1..Len(lines) : Texts!Contains(lines[i], Prefix)}
  <2>1. at = IF I # {} THEN Texts!Min(I) ELSE 0
    BY DEF Texts!SelectInSeq
  <2>2. I \subseteq Nat /\ I \subseteq 0..Len(lines) /\ 0 \in 0..Len(lines)
    BY LenProperties
  <2> HIDE DEF I, at
  <2> QED
    BY <2>1, <2>2, SamePicks
<1> DEFINE line == lines[at]
           from == Texts!SelectInSeq(line, LAMBDA c : c = Prefix)
           rest == SubSeq(line, from + 1, Len(line))
<1>2. CASE at = 0
  BY <1>2, EmptySeq DEF Texts!ReadOSName
<1>3. CASE at # 0
  <2>1. Texts!ReadOSName(lines) = Texts!RemoveQuotes(Texts!TrimString(rest))
    BY <1>3 DEF Texts!ReadOSName, Texts!Value
  <2>2. at \in 1..Len(lines)
    BY <1>1, <1>3, LenProperties
  <2> HIDE DEF at
  <2>3. line \in Seq(Characters)
    BY <2>2, ElementOfSeq
  <2> HIDE DEF line
  <2>4. from \in Nat
    <3> DEFINE I == {i \in 1..Len(line) : line[i] = Prefix}
    <3>1. from = IF I # {} THEN Texts!Min(I) ELSE 0
      BY DEF Texts!SelectInSeq
    <3>2. I \subseteq Nat
      OBVIOUS
    <3> HIDE DEF I, from
    <3> QED
      BY <3>1, <3>2, SamePicks
  <2> HIDE DEF from
  <2>5. rest \in Seq(Characters)
    BY <2>3, <2>4, LenProperties, PartOfText
  <2> HIDE DEF rest
  <2> QED
    BY <2>1, <2>5, TrimmedIsText, UnquotedIsText
<1> QED
  BY <1>2, <1>3

(* The inductive invariant: columns are texts; a column whose question has *)
(* been asked is empty only if it was refused, and the name only if uname  *)
(* was, the last that can give it.                                         *)
TextsKept ==
  /\ platform \in {"Linux", "macOS"} /\ host \in OsReleases
  /\ info \in [{"name", "version", "architecture", "host_name", "os_up_since_seconds"} ->
                 Seq(Characters)]
  /\ pc \in {"uname", "gethostname", "os-release", "uname again", "uptime", "done", "thrown"}
  /\ pc = "os-release" \/ pc = "uname again" => platform = "Linux"
  /\ pc \notin {"uname", "thrown"} /\ "uname" \notin refused =>
       /\ info.version # <<>> /\ info.architecture # <<>>
       /\ platform = "macOS" => info.name # <<>>
  /\ pc \notin {"uname", "gethostname", "thrown"} /\ "gethostname" \notin refused =>
       info.host_name # <<>>
  /\ pc = "done" /\ "uptime" \notin refused => info.os_up_since_seconds # <<>>
  /\ pc \in {"uptime", "done"} /\ platform = "Linux" /\ "uname again" \notin refused =>
       info.name # <<>>

\* What uname writes and what else is asked.
LEMMA Answers ==
  /\ Texts!Uname.sysname \in Seq(Characters) /\ Texts!Uname.sysname # <<>>
  /\ Texts!Uname.release \in Seq(Characters)
  /\ Texts!Uname.version \in Seq(Characters) /\ Texts!Uname.version # <<>>
  /\ Texts!Uname.machine \in Seq(Characters) /\ Texts!Uname.machine # <<>>
  /\ <<"h">> \in Seq(Characters) /\ <<"h">> # <<>>
  /\ <<"u">> \in Seq(Characters) /\ <<"u">> # <<>>
  /\ LET version == Texts!Uname.sysname \o <<" ">> \o Texts!Uname.release
     IN  version \in Seq(Characters) /\ version # <<>>
<1>1. ASSUME NEW c \in Characters
      PROVE  <<c>> \in Seq(Characters) /\ <<c>> # <<>>
  OBVIOUS
<1>2. \A c \in Answered : c \in Characters
  BY DEF Answered, Characters, Texts!Unset
<1>3. \A c \in Answered : <<c>> \in Seq(Characters) /\ <<c>> # <<>>
  BY <1>1, <1>2
<1>4. /\ Texts!Uname.sysname = <<"s">> /\ Texts!Uname.release = <<"r">>
      /\ Texts!Uname.version = <<"v">> /\ Texts!Uname.machine = <<"m">>
  BY DEF Texts!Uname
<1>5. ASSUME NEW s \in Seq(Characters), NEW t \in Seq(Characters), s # <<>>
      PROVE  s \o t \in Seq(Characters) /\ s \o t # <<>>
  BY <1>5, ConcatProperties, ConcatEqualIffEmpty
<1>7. "s" \in Answered /\ " " \in Answered /\ "r" \in Answered
  BY DEF Answered
<1>6. /\ (<<"s">> \o <<" ">>) \o <<"r">> \in Seq(Characters)
      /\ (<<"s">> \o <<" ">>) \o <<"r">> # <<>>
  <2>1. <<"s">> \o <<" ">> \in Seq(Characters) /\ <<"s">> \o <<" ">> # <<>>
    BY <1>3, <1>5, <1>7
  <2> QED
    BY <1>3, <1>5, <1>7, <2>1
<1> QED
  BY <1>3, <1>4, <1>6 DEF Answered

LEMMA TextsInit ==
  ASSUME Texts!Init
  PROVE  TextsKept
BY EmptySeq DEF Texts!Init, TextsKept

LEMMA TextsUname ==
  ASSUME TextsKept, Texts!AskUname
  PROVE  TextsKept'
<1>1. pc = "uname" /\ pc' = "gethostname" /\ platform' = platform /\ host' = host
  BY DEF Texts!AskUname
<1>2. CASE Texts!Refused
  BY <1>1, <1>2 DEF TextsKept, Texts!Refused
<1>3. CASE refused' = refused /\ platform = "Linux"
           /\ info' = [info EXCEPT !.version = uts'.sysname \o <<" ">> \o uts'.release,
                                  !.architecture = uts'.machine]
           /\ uts' = Texts!Uname
  <2>1. PICK v, m : v = uts'.sysname \o <<" ">> \o uts'.release /\ m = uts'.machine
    OBVIOUS
  <2>2. v \in Seq(Characters) /\ v # <<>> /\ m \in Seq(Characters) /\ m # <<>>
    BY <1>3, <2>1, Answers
  <2>3. info' = [info EXCEPT !.version = v, !.architecture = m]
    BY <1>3, <2>1
  <2>4. info \in [{"name", "version", "architecture", "host_name", "os_up_since_seconds"} -> Seq(Characters)]
    BY DEF TextsKept
  <2>5. /\ info' \in [{"name", "version", "architecture", "host_name", "os_up_since_seconds"} -> Seq(Characters)]
        /\ info'.version # <<>> /\ info'.architecture # <<>>
    BY <2>2, <2>3, <2>4
  <2>6. platform = "Linux"
    BY <1>3
  <2> QED
    BY <1>1, <2>5, <2>6 DEF TextsKept
<1>4. CASE refused' = refused /\ platform # "Linux"
           /\ info' = [info EXCEPT !.name = uts'.sysname, !.version = uts'.version,
                                  !.architecture = uts'.machine]
           /\ uts' = Texts!Uname
  <2>1. PICK n, v, m : n = uts'.sysname /\ v = uts'.version /\ m = uts'.machine
    OBVIOUS
  <2>2. /\ n \in Seq(Characters) /\ n # <<>> /\ v \in Seq(Characters) /\ v # <<>>
        /\ m \in Seq(Characters) /\ m # <<>>
    BY <1>4, <2>1, Answers
  <2>3. info' = [info EXCEPT !.name = n, !.version = v, !.architecture = m]
    BY <1>4, <2>1
  <2>4. info \in [{"name", "version", "architecture", "host_name", "os_up_since_seconds"} -> Seq(Characters)]
    BY DEF TextsKept
  <2>5. /\ info' \in [{"name", "version", "architecture", "host_name", "os_up_since_seconds"} -> Seq(Characters)]
        /\ info'.version # <<>> /\ info'.architecture # <<>> /\ info'.name # <<>>
    BY <2>2, <2>3, <2>4
  <2>6. platform # "Linux"
    BY <1>4
  <2> QED
    BY <1>1, <2>5, <2>6 DEF TextsKept
<1> QED
  BY <1>2, <1>3, <1>4 DEF Texts!AskUname

LEMMA TextsHostName ==
  ASSUME TextsKept, Texts!AskHostName
  PROVE  TextsKept'
BY Answers DEF TextsKept, Texts!AskHostName, Texts!Refused

LEMMA TextsOSName ==
  ASSUME TextsKept, Texts!AskOSName
  PROVE  TextsKept'
<1>1. host.lines \in Seq(Seq(Characters))
  <2>1. host.lines \in Seq(Seq(STRING \ {Texts!Unset}))
    BY ReadersAssumption DEF TextsKept, Texts!DescriptionAssumption
  <2>2. STRING \ {Texts!Unset} \subseteq Characters
    BY DEF Characters
  <2>3. Seq(STRING \ {Texts!Unset}) \subseteq Seq(Characters)
    BY <2>2, SeqMonotonic
  <2> QED
    BY <2>1, <2>3, SeqMonotonic
<1>2. Texts!ReadOSName(host.lines) \in Seq(Characters) /\ <<>> \in Seq(Characters)
  BY <1>1, NameIsText, EmptySeq
<1> QED
  BY <1>2 DEF TextsKept, Texts!AskOSName, Texts!NextAfterName

LEMMA TextsUnameAgain ==
  ASSUME TextsKept, Texts!AskUnameAgain
  PROVE  TextsKept'
BY Answers DEF TextsKept, Texts!AskUnameAgain, Texts!Refused

LEMMA TextsUptime ==
  ASSUME TextsKept, Texts!AskUptime
  PROVE  TextsKept'
BY Answers DEF TextsKept, Texts!AskUptime, Texts!Refused

LEMMA TextsInvariant == Spec => [](reader = "texts" => TextsKept)
<1> DEFINE Kept == reader = "texts" => TextsKept
<1>1. Init => Kept
  BY TextsInit DEF Init
<1>2. Kept /\ [Next]_vars => Kept'
  <2> SUFFICES ASSUME Kept, [Next]_vars, reader' = "texts"
               PROVE  TextsKept'
    OBVIOUS
  <2>1. TextsKept
    BY DEF Next, NextMemory, NextFields, NextTexts, NextCounts, vars
  <2>2. CASE Texts!Next /\ ~ Texts!Throw
    BY <2>1, <2>2, TextsUname, TextsHostName, TextsOSName, TextsUnameAgain, TextsUptime
       DEF Texts!Next
  <2>3. CASE Texts!Throw \/ UNCHANGED vars
    <3>1. UNCHANGED <<platform, host, info, refused>> /\ pc' \in {pc, "thrown"}
      BY <2>3 DEF Texts!Throw, vars
    <3> QED
      BY <2>1, <3>1 DEF TextsKept
  <2> QED
    BY <2>2, <2>3 DEF Next, NextMemory, NextFields, NextTexts, NextCounts
<1> QED
  BY <1>1, <1>2, PTL DEF Spec

(* A column whose question was refused keeps its default, and every other    *)
(* has its own answer, whichever of the questions are refused and in         *)
(* whatever order: of the processor, where macOS answers them in shared      *)
(* variables (cpu_stats.cpp:239-263), as of the texts, where uname may have  *)
(* filled nothing (os_info.cpp:258, 277, 406), for any machine and any file. *)
THEOREM RefusalsAreTheirOwn == Spec => []EachRefusalItsOwn
<1>1. (reader = "fields" => FieldsKept) => (reader = "fields" => Fields!ColumnsOfTheirOwn)
  BY ColumnsAreTheirOwn
<1>2. TextsKept => Texts!EachRefusalItsOwn
  <2> SUFFICES ASSUME TextsKept
               PROVE  Texts!EachRefusalItsOwn
    OBVIOUS
  <2>1. ASSUME NEW f \in DOMAIN info
        PROVE  ~ Texts!Contains(info[f], Texts!Unset)
    <3>1. info[f] \in Seq(Characters)
      BY <2>1 DEF TextsKept
    <3>2. \A i \in 1..Len(info[f]) : info[f][i] # Texts!Unset
      BY <3>1, ElementOfSeq DEF Characters
    <3> QED
      BY <3>2 DEF Texts!Contains
  <2> QED
    BY <2>1 DEF TextsKept, Texts!EachRefusalItsOwn
<1>3. (reader = "fields" => FieldsKept) /\ (reader = "texts" => TextsKept) => EachRefusalItsOwn
  BY <1>1, <1>2 DEF EachRefusalItsOwn
<1> QED
  BY <1>3, FieldsInvariant, TextsInvariant, PTL
-----------------------------------------------------------------------------
(* The name in /etc/os-release. *)

LEMMA SameUtilities ==
  /\ Texts!Blanks = Blanks /\ Texts!Quote = Quote
  /\ \A str : Texts!TrimString(str) = TrimString(str)
  /\ \A str : Texts!RemoveQuotes(str) = RemoveQuotes(str)
<1>1. Texts!Blanks = Blanks /\ Texts!Quote = Quote
  BY DEF Texts!Blanks, Blanks, Texts!Quote, Quote
<1>2. \A set : Texts!Min(set) = Min(set) /\ Texts!Max(set) = Max(set)
  BY DEF Texts!Min, Min, Texts!Max, Max
<1>3. \A str, start, end : Texts!Trimmed(str, start, end) = Trimmed(str, start, end)
  BY <1>2 DEF Texts!Trimmed, Trimmed, Texts!Substr, Substr
<1>4. \A str : Texts!TrimString(str) = TrimString(str)
  BY <1>1, <1>2, <1>3 DEF Texts!TrimString, TrimString
<1>5. \A str : Texts!LongEnough(str) <=> LongEnough(str)
  BY DEF Texts!LongEnough, LongEnough
<1>6. \A str : Texts!RemoveQuotes(str) = RemoveQuotes(str)
  BY <1>1, <1>4, <1>5 DEF Texts!RemoveQuotes, RemoveQuotes
<1> QED
  BY <1>1, <1>4, <1>6

\* What is trimmed is not trimmed again.
LEMMA FirmStays ==
  ASSUME NEW S, NEW str \in Seq(S), Firm(str)
  PROVE  TrimString(str) = str
<1>1. Len(str) \in Nat \ {0}
  BY EmptySeq DEF Firm
<1>2. SolidPart(str, 1, Len(str))
  BY <1>1 DEF Firm, SolidPart
<1> QED
  BY <1>2, TrimIs, SubSeqFull

LEMMA FirmPart ==
  ASSUME NEW S, NEW str \in Seq(S), NEW i \in 1..Len(str) + 1, NEW j \in 0..Len(str),
         \A k \in 1..Len(str) : k < i \/ k > j => str[k] \in Blanks,
         Firm(SubSeq(str, i, j))
  PROVE  TrimString(str) = SubSeq(str, i, j) /\ SubSeq(str, i, j) \in Seq(S)
<1> DEFINE core == SubSeq(str, i, j)
<1>1. Len(str) \in Nat /\ i \in Int /\ j \in Int
  BY LenProperties
<1>2. i <= j
  <2>1. i > j => core = <<>>
    BY <1>1, SubSeqEmpty
  <2> QED
    BY <1>1, <2>1 DEF Firm
<1>3. i \in 1..Len(str) /\ j \in i..Len(str)
  BY <1>1, <1>2
<1>4. core \in Seq(S) /\ Len(core) = j - i + 1 /\ \A k \in 1..j - i + 1 : core[k] = str[i + k - 1]
  BY <1>3, PartOf
<1> HIDE DEF core
<1>5. core[1] = str[i] /\ core[Len(core)] = str[j]
  <2>1. 1 \in 1..j - i + 1 /\ j - i + 1 \in 1..j - i + 1 /\ i + 1 - 1 = i /\ i + (j - i + 1) - 1 = j
    BY <1>1, <1>2
  <2> QED
    BY <1>4, <2>1
<1>6. SolidPart(str, i, j)
  BY <1>3, <1>5 DEF SolidPart, Firm, core
<1> QED
  BY <1>4, <1>6, TrimIs DEF core

LEMMA ValueOfName ==
  ASSUME NEW S, Quote \in S, NEW value \in Seq(S), NEW name \in Seq(S), Texts!Gives(value, name)
  PROVE  RemoveQuotes(TrimString(value)) = name
<1>1. PICK i \in 1..Len(value) + 1, j \in 0..Len(value) :
        /\ \A k \in 1..Len(value) : k < i \/ k > j => value[k] \in Blanks
        /\ \/ SubSeq(value, i, j) = <<Quote>> \o name \o <<Quote>>
           \/ /\ SubSeq(value, i, j) = name
              /\ name # <<>> => {name[1], name[Len(name)]} \cap (Blanks \cup {Quote}) = {}
  BY SameUtilities DEF Texts!Gives
<1>2. PICK core : core = SubSeq(value, i, j)
  OBVIOUS
<1>3. ASSUME Firm(core)
      PROVE  RemoveQuotes(TrimString(value)) = Unquoted(core)
  <2>1. TrimString(value) = core /\ core \in Seq(S)
    BY <1>1, <1>2, <1>3, FirmPart
  <2>2. TrimString(core) = core
    BY <1>3, <2>1, FirmStays
  <2> QED
    BY <2>1, <2>2, RemovesAround
<1>4. CASE core = <<Quote>> \o name \o <<Quote>>
  <2>1. core = Quoted(name)
    BY <1>4 DEF Quoted
  <2>2. Firm(core)
    BY <2>1, QuotedIsFirm
  <2> QED
    BY <1>3, <2>1, <2>2, UnquoteQuoted
<1>5. CASE core = name /\ name # <<>> /\ {name[1], name[Len(name)]} \cap (Blanks \cup {Quote}) = {}
  <2>1. Firm(core) /\ Head(core) # Quote
    BY <1>5 DEF Firm
  <2> QED
    BY <1>3, <1>5, <2>1 DEF Unquoted
<1>6. CASE core = name /\ name = <<>>
  <2>1. Len(value) \in Nat /\ i \in Int /\ j \in Int
    BY LenProperties
  <2>2. i > j
    <3> SUFFICES ASSUME i <= j
                 PROVE  FALSE
      BY <2>1
    <3>1. i \in 1..Len(value) /\ j \in i..Len(value)
      BY <2>1
    <3>2. Len(core) = j - i + 1
      BY <1>2, <3>1, PartOf
    <3> QED
      BY <1>6, <2>1, <3>2
  <2>3. \A k \in 1..Len(value) : value[k] \in Blanks
    BY <1>1, <2>1, <2>2
  <2>4. TrimString(value) = <<>>
    BY <2>3, TrimBlanks
  <2>5. TrimString(<<>>) = <<>>
    <3>1. <<>> \in Seq(S) /\ \A k \in 1..Len(<<>>) : <<>>[k] \in Blanks
      BY EmptySeq
    <3> QED
      BY <3>1, TrimBlanks
  <2>6. Unquoted(<<>>) = <<>>
    BY DEF Unquoted, LongEnough
  <2> QED
    BY <1>6, <2>4, <2>5, <2>6, RemovesAround
<1> QED
  BY <1>1, <1>2, <1>4, <1>5, <1>6

\* The line is the first that has the prefix, the value what follows the first.
LEMMA NameRead ==
  ASSUME NEW release \in OsReleases
  PROVE  Texts!ReadOSName(release.lines) = release.name
<1> DEFINE lines == release.lines
           at == Texts!SelectInSeq(lines, LAMBDA line : Texts!Contains(line, Prefix))
           having == {l \in 1..Len(lines) : Texts!Contains(lines[l], Prefix)}
           S == STRING \cup {Quote}
<1>1. /\ lines \in Seq(Seq(STRING \ {Texts!Unset})) /\ release.name \in Seq(STRING \ {Texts!Unset})
      /\ Texts!IsNamed(release)
  BY ReadersAssumption DEF Texts!DescriptionAssumption
<1>2. Quote \in S /\ release.name \in Seq(S)
  BY <1>1, SeqMonotonic
<1>3. at = IF having # {} THEN Texts!Min(having) ELSE 0
  BY DEF Texts!SelectInSeq
<1>4. Len(lines) \in Nat /\ having \subseteq Nat
  BY <1>1, LenProperties
<1>5. Texts!ReadOSName(lines) = IF at = 0 THEN <<>> ELSE Texts!Value(lines[at])
  BY DEF Texts!ReadOSName
<1>6. CASE release.name = <<>> /\ \A l \in 1..Len(lines) : ~ Texts!Contains(lines[l], Prefix)
  <2>1. having = {}
    BY <1>6
  <2> HIDE DEF having, at
  <2> QED
    BY <1>3, <1>5, <1>6, <2>1
<1>7. CASE \E l \in 1..Len(lines) : \E p \in 1..Len(lines[l]) :
             /\ \A k \in 1..l - 1 : ~ Texts!Contains(lines[k], Prefix)
             /\ lines[l][p] = Prefix /\ \A k \in 1..p - 1 : lines[l][k] # Prefix
             /\ Texts!Gives(SubSeq(lines[l], p + 1, Len(lines[l])), release.name)
  <2>1. PICK l \in 1..Len(lines) : \E p \in 1..Len(lines[l]) :
             /\ \A k \in 1..l - 1 : ~ Texts!Contains(lines[k], Prefix)
             /\ lines[l][p] = Prefix /\ \A k \in 1..p - 1 : lines[l][k] # Prefix
             /\ Texts!Gives(SubSeq(lines[l], p + 1, Len(lines[l])), release.name)
    BY <1>7
  <2>2. PICK p \in 1..Len(lines[l]) :
             /\ \A k \in 1..l - 1 : ~ Texts!Contains(lines[k], Prefix)
             /\ lines[l][p] = Prefix /\ \A k \in 1..p - 1 : lines[l][k] # Prefix
             /\ Texts!Gives(SubSeq(lines[l], p + 1, Len(lines[l])), release.name)
    BY <2>1
  <2>3. l \in having /\ \A k \in having : l <= k
    <3>1. Texts!Contains(lines[l], Prefix)
      BY <2>2 DEF Texts!Contains
    <3>2. \A k \in 1..Len(lines) : k < l => k \in 1..l - 1
      BY <1>4
    <3> QED
      BY <1>4, <2>2, <3>1, <3>2
  <2> HIDE DEF having
  <2>4. at = l
    <3>1. PICK m : m = Texts!Min(having)
      OBVIOUS
    <3>2. m \in having /\ m <= l
      BY <1>4, <2>3, <3>1, SamePicks
    <3>3. m = l
      BY <1>4, <2>3, <3>2
    <3> HIDE DEF at
    <3>4. at = m
      BY <1>3, <3>1, <3>2
    <3> QED
      BY <3>3, <3>4
  <2> HIDE DEF at
  <2>5. PICK line : line = lines[l]
    OBVIOUS
  <2>6. line \in Seq(STRING \ {Texts!Unset}) /\ Len(line) \in Nat
    BY <1>1, <2>5, ElementOfSeq, LenProperties
  <2> DEFINE from == Texts!SelectInSeq(line, LAMBDA c : c = Prefix)
             places == {i \in 1..Len(line) : line[i] = Prefix}
             value == SubSeq(line, from + 1, Len(line))
  <2>7. from = IF places # {} THEN Texts!Min(places) ELSE 0
    BY DEF Texts!SelectInSeq
  <2>8. p \in places /\ (\A k \in places : p <= k) /\ places \subseteq Nat
    <3>1. \A k \in 1..Len(line) : k < p => k \in 1..p - 1
      BY <2>6
    <3> QED
      BY <2>2, <2>5, <2>6, <3>1
  <2>9. from = p
    <3> HIDE DEF places, from
    <3>1. PICK m : m = Texts!Min(places)
      OBVIOUS
    <3>2. m \in places /\ m <= p
      BY <2>8, <3>1, SamePicks
    <3>3. m = p
      BY <2>8, <3>2
    <3>4. from = m
      BY <2>7, <3>1, <3>2
    <3> QED
      BY <3>3, <3>4
  <2>10. Texts!Value(line) = RemoveQuotes(TrimString(value))
    BY SameUtilities DEF Texts!Value
  <2> HIDE DEF from
  <2>11. value \in Seq(S)
    <3>1. \A k \in p + 1..Len(line) : k \in 1..Len(line)
      BY <2>2, <2>5, <2>6
    <3>2. \A k \in p + 1..Len(line) : line[k] \in S
      BY <2>6, <3>1, ElementOfSeq
    <3>3. p + 1 \in Int /\ Len(line) \in Int
      BY <2>6
    <3> HIDE DEF S
    <3> QED
      BY <2>9, <3>2, <3>3, SubSeqProperties
  <2>12. Texts!Gives(value, release.name)
    BY <2>2, <2>5, <2>9
  <2> HIDE DEF value, S
  <2>13. RemoveQuotes(TrimString(value)) = release.name
    BY <1>2, <2>11, <2>12, ValueOfName
  <2>14. at # 0
    BY <1>4, <2>4
  <2> QED
    BY <1>5, <2>4, <2>5, <2>10, <2>13, <2>14
<1> QED
  BY <1>1, <1>6, <1>7 DEF Texts!IsNamed

(* The inductive invariant: on Linux the name is the file's once the file   *)
(* has been read, unless it has none; then it is empty until uname answers. *)
NameKept ==
  /\ host \in OsReleases
  /\ pc \in {"uname", "gethostname", "os-release"} => refused \cap {"os-release", "uname again"} = {}
  /\ pc = "uname again" =>
       /\ info.name = <<>> /\ "uname again" \notin refused
       /\ "os-release" \in refused \/ host.name = <<>>
  /\ pc \in {"uptime", "done"} /\ platform = "Linux" =>
       IF "os-release" \notin refused /\ host.name # <<>> THEN info.name = host.name
       ELSE info.name = IF "uname again" \in refused THEN <<>> ELSE Texts!Uname.sysname

LEMMA NameInvariant == Spec => [](reader = "texts" => TextsKept /\ NameKept)
<1> DEFINE Kept == reader = "texts" => NameKept
<1>1. Init => Kept
  BY DEF Init, Texts!Init, NameKept
<1>2. (reader = "texts" => TextsKept) /\ Kept /\ [Next]_vars => Kept'
  <2> SUFFICES ASSUME TextsKept, NameKept, Texts!Next \/ UNCHANGED vars
               PROVE  NameKept'
    BY DEF Next, NextMemory, NextFields, NextTexts, NextCounts, vars
  <2>0. DOMAIN info = {"name", "version", "architecture", "host_name", "os_up_since_seconds"}
    BY DEF TextsKept
  <2>1. CASE Texts!AskUname
    BY <2>1 DEF NameKept, Texts!AskUname, Texts!Refused
  <2>2. CASE Texts!AskHostName
    BY <2>2 DEF TextsKept, NameKept, Texts!AskHostName, Texts!Refused
  <2>3. CASE Texts!AskOSName
    <3>1. Texts!ReadOSName(host.lines) = host.name
      BY NameRead DEF NameKept
    <3> QED
      BY <2>0, <2>3, <3>1 DEF NameKept, Texts!AskOSName, Texts!NextAfterName
  <2>4. CASE Texts!AskUnameAgain
    BY <2>0, <2>4 DEF NameKept, Texts!AskUnameAgain, Texts!Refused
  <2>5. CASE Texts!AskUptime
    BY <2>0, <2>5 DEF NameKept, Texts!AskUptime, Texts!Refused
  <2>6. CASE Texts!Throw
    BY <2>6 DEF NameKept, Texts!Throw
  <2>7. CASE UNCHANGED vars
    BY <2>7 DEF NameKept, vars
  <2> QED
    BY <2>1, <2>2, <2>3, <2>4, <2>5, <2>6, <2>7 DEF Texts!Next
<1> QED
  BY <1>1, <1>2, TextsInvariant, PTL DEF Spec

\* Linux: whatever lines /etc/os-release has besides, the name is the one it
\* gives, without the quotes and blanks around it, and the kernel's where it
\* gives none or cannot be read (os_info.cpp:54-78, 272-280).
THEOREM NameIsOfTheFile == Spec => []NameOfTheFile
<1>1. (reader = "texts" => TextsKept /\ NameKept) => NameOfTheFile
  BY DEF NameKept, NameOfTheFile, Texts!NameOfTheFile
<1> QED
  BY <1>1, NameInvariant, PTL
=============================================================================
