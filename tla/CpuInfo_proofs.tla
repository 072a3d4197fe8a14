---------------------------- MODULE CpuInfo_proofs ----------------------------
(***************************************************************************)
(* Proofs about CpuInfo, for any number of processors and packages.        *)
(***************************************************************************)
EXTENDS CpuInfo, OperatorLemmas

-----------------------------------------------------------------------------
(* The inductive invariant. *)

KeysOf(keys) == {keys[i] : i \in DOMAIN keys}

\* The beginnings of a record may have been taken by getline.
Rests ==
  {<<>>,
   <<"processor", "model name", "cpu MHz", "physical id">>,
   <<"model name", "cpu MHz", "physical id">>, <<"cpu MHz", "physical id">>,
   <<"physical id">>,
   <<"processor", "model name", "physical id">>, <<"model name", "physical id">>,
   <<"processor", "model name", "cpu MHz">>, <<"model name", "cpu MHz">>, <<"cpu MHz">>,
   <<"processor", "other", "CPU implementer", "CPU part">>,
   <<"other", "CPU implementer", "CPU part">>, <<"CPU implementer", "CPU part">>,
   <<"CPU part">>}

\* The keys still to be read, and those a record of this host has.
Left == KeysOf(lines)
Has(key) == key \in KeysOf(Keys[machine.form])

HostKept ==
  /\ machine \in [form : Forms, package : [Cpus -> PhysIds], model : [Cpus -> Models]]
  /\ online \subseteq Cpus /\ 0 \in online
  /\ machine.form = "x86 without SMP" => online = {0}

NameType ==
  {NoName} \cup [kind : {"model name"}, name : Models]
    \cup [kind : {"ARM"}, implementer : Models, part : Models \cup {NoValue}]

InfoType == [model_name : NameType, logical_cpus : Nat, physical_cpus : Nat]

LocalType ==
  [processor_count : Nat, cpu_implementer : Models \cup {NoValue},
   cpu_part : Models \cup {NoValue}]

\* The variables of the call, and the processors of the pass; processor 0 is
\* among them.
PassKept ==
  /\ pc \in {"open", "getline", "done"}
  /\ lines \in Rests /\ Left \subseteq KeysOf(Keys[machine.form])
  /\ at \in Nat /\ (lines # <<>> => at - 1 \in seen)
  /\ info \in InfoType /\ local \in LocalType
  /\ stable \subseteq seen /\ seen \subseteq Cpus /\ stable \subseteq online
  /\ seen = {} <=> 0 \notin stable
  /\ pc = "getline" => online \subseteq seen
  /\ pc = "open" =>
       /\ seen = {} /\ lines = <<>> /\ at = 0
       /\ info = [model_name |-> NoName, logical_cpus |-> 0, physical_cpus |-> 0]
       /\ local = [processor_count |-> 0, cpu_implementer |-> NoValue, cpu_part |-> NoValue]
  /\ seen = {} => pc # "getline" /\ info.logical_cpus = 0

\* Of the processors given, those whose line with the key was read.
Read(given, key) == IF key \in Left THEN given \ {at - 1} ELSE given

\* The processors whose record the kernel has given: every one that was there
\* all along and is not ahead.
Given(given) ==
  /\ given \subseteq seen /\ \A c \in given : c < at
  /\ stable \subseteq given \cup {c \in Cpus : c >= at}
  /\ lines # <<>> => at - 1 \in given

\* What the lines read so far have left in info and local.
Counted(given) ==
  /\ local.processor_count = Cardinality(Read(given, "processor"))
  /\ info.logical_cpus = IF Has("cpu MHz") THEN Cardinality(Read(given, "cpu MHz")) ELSE 0

Covered(given) ==
  /\ \A c \in Read(given, "physical id") :
       Has("physical id") => machine.package[c] < info.physical_cpus
  /\ info.physical_cpus # 0 =>
       \E c \in given : Has("physical id") /\ info.physical_cpus = machine.package[c] + 1

Named(given) ==
  /\ info.model_name = NoName \/
     \E c \in given : info.model_name = [kind |-> "model name", name |-> machine.model[c]]
  /\ Has("model name") /\ Read(given, "model name") # {} => info.model_name # NoName
  /\ ~Has("model name") => info.model_name = NoName

\* The ARM strings: of none, of one of which the part is the next line, or of one.
Armed(given) ==
  LET implementer == local.cpu_implementer
      part == local.cpu_part
  IN  \/ /\ implementer = NoValue /\ part = NoValue
         /\ ~Has("CPU implementer") \/ Read(given, "CPU implementer") = {}
      \/ /\ given = {at - 1} /\ "CPU part" \in Left /\ "CPU implementer" \notin Left
         /\ implementer = machine.model[at - 1] /\ part = NoValue
      \/ \E c \in given : implementer = machine.model[c] /\ part = machine.model[c]

Gathered(given) ==
  Given(given) /\ Counted(given) /\ Covered(given) /\ Named(given) /\ Armed(given)

PassCounts ==
  pc = "getline" =>
    \E given \in SUBSET seen : Gathered(given)

IInv ==
  /\ HostKept /\ PassKept /\ PassCounts
  /\ PhysicalCpusCoverPackages /\ SomeProcessor /\ NameOfOneCpu
-----------------------------------------------------------------------------
(* Records and what is left of them. *)

LEMMA NoKeys == KeysOf(<<>>) = {}
BY DEF KeysOf

LEMMA KeysOne == ASSUME NEW a PROVE KeysOf(<<a>>) = {a}
BY DEF KeysOf

LEMMA KeysTwo == ASSUME NEW a, NEW b PROVE KeysOf(<<a, b>>) = {a, b}
BY DEF KeysOf

LEMMA KeysThree == ASSUME NEW a, NEW b, NEW c PROVE KeysOf(<<a, b, c>>) = {a, b, c}
BY DEF KeysOf

LEMMA KeysFour == ASSUME NEW a, NEW b, NEW c, NEW d PROVE KeysOf(<<a, b, c, d>>) = {a, b, c, d}
BY DEF KeysOf

\* The keys of a full x86 record and of a full ARM record.
LEMMA X86Keys ==
  KeysOf(<<"processor", "model name", "cpu MHz", "physical id">>)
    = {"processor", "model name", "cpu MHz", "physical id"}
<1>1. PICK a, b, c, d : a = "processor" /\ b = "model name" /\ c = "cpu MHz" /\ d = "physical id"
  OBVIOUS
<1>2. KeysOf(<<a, b, c, d>>) = {a, b, c, d}
  BY KeysFour
<1> QED
  BY <1>1, <1>2

LEMMA ArmKeys ==
  KeysOf(<<"processor", "other", "CPU implementer", "CPU part">>)
    = {"processor", "other", "CPU implementer", "CPU part"}
<1>1. PICK a, b, c, d : a = "processor" /\ b = "other" /\ c = "CPU implementer" /\ d = "CPU part"
  OBVIOUS
<1>2. KeysOf(<<a, b, c, d>>) = {a, b, c, d}
  BY KeysFour
<1> QED
  BY <1>1, <1>2

LEMMA TailOne == ASSUME NEW a PROVE Tail(<<a>>) = <<>>
OBVIOUS

LEMMA HeadOne == ASSUME NEW a PROVE Head(<<a>>) = a
OBVIOUS

LEMMA TailTwo == ASSUME NEW a, NEW b PROVE Tail(<<a, b>>) = <<b>>
OBVIOUS

LEMMA HeadTwo == ASSUME NEW a, NEW b PROVE Head(<<a, b>>) = a
OBVIOUS

LEMMA TailThree == ASSUME NEW a, NEW b, NEW c PROVE Tail(<<a, b, c>>) = <<b, c>>
OBVIOUS

LEMMA HeadThree == ASSUME NEW a, NEW b, NEW c PROVE Head(<<a, b, c>>) = a
OBVIOUS

LEMMA TailFour == ASSUME NEW a, NEW b, NEW c, NEW d PROVE Tail(<<a, b, c, d>>) = <<b, c, d>>
OBVIOUS

LEMMA HeadFour == ASSUME NEW a, NEW b, NEW c, NEW d PROVE Head(<<a, b, c, d>>) = a
OBVIOUS

\* getline takes one key, and an ARM implementer comes before its part.
LEMMA RestFacts ==
  ASSUME NEW rest \in Rests, rest # <<>>
  PROVE  /\ Tail(rest) \in Rests /\ Head(rest) \in KeysOf(rest)
         /\ KeysOf(Tail(rest)) = KeysOf(rest) \ {Head(rest)}
         /\ "CPU implementer" \in KeysOf(rest) => "CPU part" \in KeysOf(rest)
         /\ Head(rest) = "CPU part" => "CPU implementer" \notin KeysOf(rest)
<1> DEFINE Fact(r) ==
      /\ Tail(r) \in Rests /\ Head(r) \in KeysOf(r)
      /\ KeysOf(Tail(r)) = KeysOf(r) \ {Head(r)}
      /\ "CPU implementer" \in KeysOf(r) => "CPU part" \in KeysOf(r)
      /\ Head(r) = "CPU part" => "CPU implementer" \notin KeysOf(r)
<1>1. Fact(<<"physical id">>)
  <2>1. KeysOf(<<"physical id">>) = {"physical id"}
    BY KeysOne
  <2>2. KeysOf(<<>>) = {}
    BY NoKeys
  <2>3. Tail(<<"physical id">>) = <<>>
    BY TailOne
  <2>4. Head(<<"physical id">>) = "physical id"
    BY HeadOne
  <2>5. <<>> \in Rests
    BY DEF Rests
  <2> QED
    BY <2>1, <2>2, <2>3, <2>4, <2>5
<1>2. Fact(<<"cpu MHz">>)
  <2>1. KeysOf(<<"cpu MHz">>) = {"cpu MHz"}
    BY KeysOne
  <2>2. KeysOf(<<>>) = {}
    BY NoKeys
  <2>3. Tail(<<"cpu MHz">>) = <<>>
    BY TailOne
  <2>4. Head(<<"cpu MHz">>) = "cpu MHz"
    BY HeadOne
  <2>5. <<>> \in Rests
    BY DEF Rests
  <2> QED
    BY <2>1, <2>2, <2>3, <2>4, <2>5
<1>3. Fact(<<"CPU part">>)
  <2>1. KeysOf(<<"CPU part">>) = {"CPU part"}
    BY KeysOne
  <2>2. KeysOf(<<>>) = {}
    BY NoKeys
  <2>3. Tail(<<"CPU part">>) = <<>>
    BY TailOne
  <2>4. Head(<<"CPU part">>) = "CPU part"
    BY HeadOne
  <2>5. <<>> \in Rests
    BY DEF Rests
  <2> QED
    BY <2>1, <2>2, <2>3, <2>4, <2>5
<1>4. Fact(<<"cpu MHz", "physical id">>)
  <2>1. KeysOf(<<"cpu MHz", "physical id">>) = {"cpu MHz", "physical id"}
    BY KeysTwo
  <2>2. KeysOf(<<"physical id">>) = {"physical id"}
    BY KeysOne
  <2>3. Tail(<<"cpu MHz", "physical id">>) = <<"physical id">>
    BY TailTwo
  <2>4. Head(<<"cpu MHz", "physical id">>) = "cpu MHz"
    BY HeadTwo
  <2>5. <<"physical id">> \in Rests
    BY DEF Rests
  <2> QED
    BY <2>1, <2>2, <2>3, <2>4, <2>5
<1>5. Fact(<<"model name", "physical id">>)
  <2>1. KeysOf(<<"model name", "physical id">>) = {"model name", "physical id"}
    BY KeysTwo
  <2>2. KeysOf(<<"physical id">>) = {"physical id"}
    BY KeysOne
  <2>3. Tail(<<"model name", "physical id">>) = <<"physical id">>
    BY TailTwo
  <2>4. Head(<<"model name", "physical id">>) = "model name"
    BY HeadTwo
  <2>5. <<"physical id">> \in Rests
    BY DEF Rests
  <2> QED
    BY <2>1, <2>2, <2>3, <2>4, <2>5
<1>6. Fact(<<"model name", "cpu MHz">>)
  <2>1. KeysOf(<<"model name", "cpu MHz">>) = {"model name", "cpu MHz"}
    BY KeysTwo
  <2>2. KeysOf(<<"cpu MHz">>) = {"cpu MHz"}
    BY KeysOne
  <2>3. Tail(<<"model name", "cpu MHz">>) = <<"cpu MHz">>
    BY TailTwo
  <2>4. Head(<<"model name", "cpu MHz">>) = "model name"
    BY HeadTwo
  <2>5. <<"cpu MHz">> \in Rests
    BY DEF Rests
  <2> QED
    BY <2>1, <2>2, <2>3, <2>4, <2>5
<1>7. Fact(<<"CPU implementer", "CPU part">>)
  <2>1. KeysOf(<<"CPU implementer", "CPU part">>) = {"CPU implementer", "CPU part"}
    BY KeysTwo
  <2>2. KeysOf(<<"CPU part">>) = {"CPU part"}
    BY KeysOne
  <2>3. Tail(<<"CPU implementer", "CPU part">>) = <<"CPU part">>
    BY TailTwo
  <2>4. Head(<<"CPU implementer", "CPU part">>) = "CPU implementer"
    BY HeadTwo
  <2>5. <<"CPU part">> \in Rests
    BY DEF Rests
  <2> QED
    BY <2>1, <2>2, <2>3, <2>4, <2>5
<1>8. Fact(<<"model name", "cpu MHz", "physical id">>)
  <2>1. KeysOf(<<"model name", "cpu MHz", "physical id">>) = {"model name", "cpu MHz", "physical id"}
    BY KeysThree
  <2>2. KeysOf(<<"cpu MHz", "physical id">>) = {"cpu MHz", "physical id"}
    BY KeysTwo
  <2>3. Tail(<<"model name", "cpu MHz", "physical id">>) = <<"cpu MHz", "physical id">>
    BY TailThree
  <2>4. Head(<<"model name", "cpu MHz", "physical id">>) = "model name"
    BY HeadThree
  <2>5. <<"cpu MHz", "physical id">> \in Rests
    BY DEF Rests
  <2> QED
    BY <2>1, <2>2, <2>3, <2>4, <2>5
<1>9. Fact(<<"processor", "model name", "physical id">>)
  <2>1. KeysOf(<<"processor", "model name", "physical id">>) = {"processor", "model name", "physical id"}
    BY KeysThree
  <2>2. KeysOf(<<"model name", "physical id">>) = {"model name", "physical id"}
    BY KeysTwo
  <2>3. Tail(<<"processor", "model name", "physical id">>) = <<"model name", "physical id">>
    BY TailThree
  <2>4. Head(<<"processor", "model name", "physical id">>) = "processor"
    BY HeadThree
  <2>5. <<"model name", "physical id">> \in Rests
    BY DEF Rests
  <2> QED
    BY <2>1, <2>2, <2>3, <2>4, <2>5
<1>10. Fact(<<"processor", "model name", "cpu MHz">>)
  <2>1. KeysOf(<<"processor", "model name", "cpu MHz">>) = {"processor", "model name", "cpu MHz"}
    BY KeysThree
  <2>2. KeysOf(<<"model name", "cpu MHz">>) = {"model name", "cpu MHz"}
    BY KeysTwo
  <2>3. Tail(<<"processor", "model name", "cpu MHz">>) = <<"model name", "cpu MHz">>
    BY TailThree
  <2>4. Head(<<"processor", "model name", "cpu MHz">>) = "processor"
    BY HeadThree
  <2>5. <<"model name", "cpu MHz">> \in Rests
    BY DEF Rests
  <2> QED
    BY <2>1, <2>2, <2>3, <2>4, <2>5
<1>11. Fact(<<"other", "CPU implementer", "CPU part">>)
  <2>1. KeysOf(<<"other", "CPU implementer", "CPU part">>) = {"other", "CPU implementer", "CPU part"}
    BY KeysThree
  <2>2. KeysOf(<<"CPU implementer", "CPU part">>) = {"CPU implementer", "CPU part"}
    BY KeysTwo
  <2>3. Tail(<<"other", "CPU implementer", "CPU part">>) = <<"CPU implementer", "CPU part">>
    BY TailThree
  <2>4. Head(<<"other", "CPU implementer", "CPU part">>) = "other"
    BY HeadThree
  <2>5. <<"CPU implementer", "CPU part">> \in Rests
    BY DEF Rests
  <2> QED
    BY <2>1, <2>2, <2>3, <2>4, <2>5
<1>12. Fact(<<"processor", "model name", "cpu MHz", "physical id">>)
  <2>1. KeysOf(<<"processor", "model name", "cpu MHz", "physical id">>) = {"processor", "model name", "cpu MHz", "physical id"}
    BY X86Keys
  <2>2. KeysOf(<<"model name", "cpu MHz", "physical id">>) = {"model name", "cpu MHz", "physical id"}
    BY KeysThree
  <2>3. Tail(<<"processor", "model name", "cpu MHz", "physical id">>) = <<"model name", "cpu MHz", "physical id">>
    BY TailFour
  <2>4. Head(<<"processor", "model name", "cpu MHz", "physical id">>) = "processor"
    BY HeadFour
  <2>5. <<"model name", "cpu MHz", "physical id">> \in Rests
    BY DEF Rests
  <2> QED
    BY <2>1, <2>2, <2>3, <2>4, <2>5
<1>13. Fact(<<"processor", "other", "CPU implementer", "CPU part">>)
  <2>1. KeysOf(<<"processor", "other", "CPU implementer", "CPU part">>) = {"processor", "other", "CPU implementer", "CPU part"}
    BY ArmKeys
  <2>2. KeysOf(<<"other", "CPU implementer", "CPU part">>) = {"other", "CPU implementer", "CPU part"}
    BY KeysThree
  <2>3. Tail(<<"processor", "other", "CPU implementer", "CPU part">>) = <<"other", "CPU implementer", "CPU part">>
    BY TailFour
  <2>4. Head(<<"processor", "other", "CPU implementer", "CPU part">>) = "processor"
    BY HeadFour
  <2>5. <<"other", "CPU implementer", "CPU part">> \in Rests
    BY DEF Rests
  <2> QED
    BY <2>1, <2>2, <2>3, <2>4, <2>5
<1> HIDE DEF Fact
<1>20. Fact(rest)
  BY <1>1, <1>2, <1>3, <1>4, <1>5, <1>6, <1>7, <1>8, <1>9, <1>10, <1>11, <1>12, <1>13 DEF Rests
<1> QED
  BY <1>20 DEF Fact

LEMMA RecordFacts ==
  ASSUME HostKept
  PROVE  /\ Keys[machine.form] \in Rests /\ Keys[machine.form] # <<>>
         /\ Has("processor")
         /\ Has("cpu MHz") <=> machine.form \in {"x86", "x86 without SMP"}
         /\ Has("physical id") <=> machine.form \in {"x86", "x86 without MHz"}
         /\ Has("model name") <=> machine.form # "arm"
         /\ Has("CPU implementer") <=> machine.form = "arm"
         /\ Has("CPU part") <=> machine.form = "arm"
<1>1. machine.form \in Forms
  BY DEF HostKept
<1>2. CASE machine.form = "x86"
  <2>1. Keys[machine.form] = <<"processor", "model name", "cpu MHz", "physical id">>
    BY <1>1, <1>2 DEF Keys
  <2>2. KeysOf(<<"processor", "model name", "cpu MHz", "physical id">>) = {"processor", "model name", "cpu MHz", "physical id"}
    BY X86Keys
  <2>3. <<"processor", "model name", "cpu MHz", "physical id">> \in Rests /\ <<"processor", "model name", "cpu MHz", "physical id">> # <<>>
    BY DEF Rests
  <2>4. KeysOf(Keys[machine.form]) = {"processor", "model name", "cpu MHz", "physical id"}
    BY <2>1, <2>2
  <2>5. Keys[machine.form] \in Rests /\ Keys[machine.form] # <<>>
    BY <2>1, <2>3
  <2> QED
    BY <1>2, <2>4, <2>5 DEF Has
<1>3. CASE machine.form = "x86 without MHz"
  <2>1. Keys[machine.form] = <<"processor", "model name", "physical id">>
    BY <1>1, <1>3 DEF Keys
  <2>2. KeysOf(<<"processor", "model name", "physical id">>) = {"processor", "model name", "physical id"}
    BY KeysThree
  <2>3. <<"processor", "model name", "physical id">> \in Rests /\ <<"processor", "model name", "physical id">> # <<>>
    BY DEF Rests
  <2>4. KeysOf(Keys[machine.form]) = {"processor", "model name", "physical id"}
    BY <2>1, <2>2
  <2>5. Keys[machine.form] \in Rests /\ Keys[machine.form] # <<>>
    BY <2>1, <2>3
  <2> QED
    BY <1>3, <2>4, <2>5 DEF Has
<1>4. CASE machine.form = "x86 without SMP"
  <2>1. Keys[machine.form] = <<"processor", "model name", "cpu MHz">>
    BY <1>1, <1>4 DEF Keys
  <2>2. KeysOf(<<"processor", "model name", "cpu MHz">>) = {"processor", "model name", "cpu MHz"}
    BY KeysThree
  <2>3. <<"processor", "model name", "cpu MHz">> \in Rests /\ <<"processor", "model name", "cpu MHz">> # <<>>
    BY DEF Rests
  <2>4. KeysOf(Keys[machine.form]) = {"processor", "model name", "cpu MHz"}
    BY <2>1, <2>2
  <2>5. Keys[machine.form] \in Rests /\ Keys[machine.form] # <<>>
    BY <2>1, <2>3
  <2> QED
    BY <1>4, <2>4, <2>5 DEF Has
<1>5. CASE machine.form = "arm"
  <2>1. Keys[machine.form] = <<"processor", "other", "CPU implementer", "CPU part">>
    BY <1>1, <1>5 DEF Keys
  <2>2. KeysOf(<<"processor", "other", "CPU implementer", "CPU part">>) = {"processor", "other", "CPU implementer", "CPU part"}
    BY ArmKeys
  <2>3. <<"processor", "other", "CPU implementer", "CPU part">> \in Rests /\ <<"processor", "other", "CPU implementer", "CPU part">> # <<>>
    BY DEF Rests
  <2>4. KeysOf(Keys[machine.form]) = {"processor", "other", "CPU implementer", "CPU part"}
    BY <2>1, <2>2
  <2>5. Keys[machine.form] \in Rests /\ Keys[machine.form] # <<>>
    BY <2>1, <2>3
  <2> QED
    BY <1>5, <2>4, <2>5 DEF Has
<1> QED
  BY <1>1, <1>2, <1>3, <1>4, <1>5 DEF Forms
-----------------------------------------------------------------------------
(* The variables of the host and the call. *)

LEMMA HostInit == Init => HostKept
BY DEF Init, HostKept

LEMMA HostNext == HostKept /\ [Next]_vars => HostKept'
<1> SUFFICES ASSUME HostKept, [Next]_vars
             PROVE  HostKept'
  OBVIOUS
<1>1. CASE Offline
  BY <1>1 DEF Offline, HostKept
<1>2. CASE Online
  BY <1>2 DEF Online, HostKept
<1>3. CASE Step
  BY <1>3 DEF Step, OpenCpuInfo, Fill, GetLine, EndOfFile, host, HostKept
<1>4. CASE UNCHANGED vars
  BY <1>4 DEF vars, HostKept
<1> QED
  BY <1>1, <1>2, <1>3, <1>4 DEF Next

LEMMA PassInit == Init => PassKept
<1> SUFFICES ASSUME Init
             PROVE  PassKept
  OBVIOUS
<1>1. lines \in Rests /\ Left = {}
  BY NoKeys DEF Init, Left, Rests
<1>2. info \in InfoType /\ local \in LocalType
  BY DEF Init, InfoType, LocalType, NameType
<1> QED
  BY <1>1, <1>2 DEF Init, PassKept

\* Counting on gives a natural.
LEMMA CountsAreNatural ==
  /\ \A n \in Nat : n + 1 \in Nat
  /\ \A m, n \in Nat : PhysicalCpus(m, n) \in Nat
BY DEF PhysicalCpus

\* What a line does to info and local.
LEMMA LineTyped ==
  ASSUME info \in InfoType, local \in LocalType, NEW line,
         line.key \in {"model name", "CPU implementer", "CPU part"} => line.value \in Models,
         line.key = "physical id" => line.value \in Nat
  PROVE  InfoAfter(line) \in InfoType /\ LocalAfter(line) \in LocalType
<1>0. /\ info.logical_cpus \in Nat /\ info.physical_cpus \in Nat /\ info.model_name \in NameType
      /\ local.processor_count \in Nat
  BY DEF InfoType, LocalType
<1>1. InfoAfter(line) \in InfoType
  <2>1. CASE line.key = "model name"
    <3>1. [kind |-> "model name", name |-> line.value] \in NameType
      BY <2>1 DEF NameType
    <3>2. InfoAfter(line) =
            [info EXCEPT !.model_name = [kind |-> "model name", name |-> line.value]]
      BY <2>1 DEF InfoAfter, CountedKeys
    <3> QED
      BY <3>1, <3>2 DEF InfoType
  <2>2. CASE line.key = "cpu MHz"
    <3>1. InfoAfter(line) = [info EXCEPT !.logical_cpus = @ + 1]
      BY <2>2 DEF InfoAfter, CountedKeys
    <3>2. info.logical_cpus + 1 \in Nat
      BY <1>0, CountsAreNatural
    <3> QED
      BY <3>1, <3>2 DEF InfoType
  <2>3. CASE line.key = "physical id"
    <3>1. PhysicalCpus(info.physical_cpus, line.value) \in Nat
      <4>1. PICK m \in Nat, n \in Nat : m = info.physical_cpus /\ n = line.value
        BY <1>0, <2>3
      <4> QED
        BY <4>1, CountsAreNatural
    <3>2. InfoAfter(line) =
            [info EXCEPT !.physical_cpus = PhysicalCpus(@, line.value)]
      BY <2>3 DEF InfoAfter, CountedKeys
    <3> QED
      BY <3>1, <3>2 DEF InfoType
  <2>4. CASE line.key \notin {"model name", "cpu MHz", "physical id"}
    BY <2>4 DEF InfoAfter, CountedKeys
  <2> QED
    BY <2>1, <2>2, <2>3, <2>4
<1>2. LocalAfter(line) \in LocalType
  <2>1. CASE line.key = "processor"
    <3>1. LocalAfter(line) = [local EXCEPT !.processor_count = @ + 1]
      BY <2>1 DEF LocalAfter, ProcessorKeys
    <3>2. local.processor_count + 1 \in Nat
      BY <1>0, CountsAreNatural
    <3> QED
      BY <3>1, <3>2 DEF LocalType
  <2>2. CASE line.key = "CPU implementer"
    <3>1. LocalAfter(line) = [local EXCEPT !.cpu_implementer = KeepFirst(@, line.value)]
      BY <2>2 DEF LocalAfter, ProcessorKeys
    <3> QED
      BY <2>2, <3>1 DEF LocalType, KeepFirst
  <2>3. CASE line.key = "CPU part"
    <3>1. LocalAfter(line) = [local EXCEPT !.cpu_part = KeepFirst(@, line.value)]
      BY <2>3 DEF LocalAfter, ProcessorKeys, PartAfter
    <3> QED
      BY <2>3, <3>1 DEF LocalType, KeepFirst
  <2>4. CASE line.key \notin {"processor", "CPU implementer", "CPU part"}
    BY <2>4 DEF LocalAfter, ProcessorKeys
  <2> QED
    BY <2>1, <2>2, <2>3, <2>4
<1> QED
  BY <1>1, <1>2

LEMMA InfoTyped ==
  ASSUME HostKept, PassKept, lines # <<>>
  PROVE  /\ InfoAfter(Line(at - 1, Head(lines))) \in InfoType
         /\ LocalAfter(Line(at - 1, Head(lines))) \in LocalType
<1>1. /\ at - 1 \in Cpus /\ machine.model[at - 1] \in Models
      /\ machine.package[at - 1] \in Nat
  BY CpuAssumption DEF HostKept, PassKept
<1> DEFINE line == Line(at - 1, Head(lines))
<1>2. /\ line.key \in {"model name", "CPU implementer", "CPU part"} => line.value \in Models
      /\ line.key = "physical id" => line.value \in Nat
  BY <1>1 DEF Line
<1>3. info \in InfoType /\ local \in LocalType
  BY DEF PassKept
<1> HIDE DEF line
<1>4. InfoAfter(line) \in InfoType /\ LocalAfter(line) \in LocalType
  BY <1>2, <1>3, LineTyped
<1> QED
  BY <1>4 DEF line

LEMMA PassNext == HostKept /\ PassKept /\ [Next]_vars => PassKept'
<1> SUFFICES ASSUME HostKept, PassKept, [Next]_vars
             PROVE  PassKept'
  OBVIOUS
<1>1. CASE Offline
  BY <1>1 DEF Offline, PassKept, Left
<1>2. CASE Online
  <2>1. PICK c \in Cpus \ online :
          /\ online' = online \cup {c}
          /\ seen' = IF pc = "getline" THEN seen \cup {c} ELSE seen
    BY <1>2 DEF Online
  <2>2. UNCHANGED <<machine, pc, lines, at, info, local, stable>>
    BY <1>2 DEF Online
  <2> QED
    BY <2>1, <2>2 DEF PassKept, Left
<1>3. CASE OpenCpuInfo
  <2>1. pc = "open" /\ UNCHANGED <<machine, online, lines, at, info, local>>
    BY <1>3 DEF OpenCpuInfo, host
  <2>2. \/ pc' = "getline" /\ stable' = online /\ seen' = online
        \/ pc' = "done" /\ UNCHANGED <<stable, seen>>
    BY <1>3 DEF OpenCpuInfo, history
  <2>3. CASE pc' = "getline" /\ stable' = online /\ seen' = online
    BY <2>1, <2>3 DEF PassKept, Left, HostKept
  <2>4. CASE pc' = "done" /\ UNCHANGED <<stable, seen>>
    BY <2>1, <2>4 DEF PassKept, Left
  <2> QED
    BY <2>2, <2>3, <2>4
<1>4. CASE Fill
  <2>1. /\ pc = "getline" /\ lines' = Keys[machine.form] /\ Ahead # {}
        /\ UNCHANGED <<machine, online, pc, info, local, stable, seen>>
    BY <1>4 DEF Fill, host, history
  <2>2. at' = Min(Ahead) + 1
    BY <1>4 DEF Fill
  <2>3. Min(Ahead) \in Nat /\ Min(Ahead) \in seen
    <3>1. Ahead \subseteq Nat /\ Ahead \subseteq seen
      BY <2>1, CpuAssumption DEF Ahead, PassKept
    <3>2. Min(Ahead) \in Ahead
      BY <2>1, <3>1, MinOfNats
    <3> QED
      BY <3>1, <3>2
  <2>4. at' \in Nat /\ at' - 1 = Min(Ahead)
    <3>1. PICK c \in Nat : c = Min(Ahead)
      BY <2>3
    <3>2. at' = c + 1
      BY <2>2, <3>1
    <3> QED
      BY <3>1, <3>2
  <2> QED
    BY <2>1, <2>3, <2>4, RecordFacts DEF PassKept, Left
<1>5. CASE GetLine
  <2>1. /\ pc = "getline" /\ lines # <<>> /\ lines' = Tail(lines)
        /\ UNCHANGED <<machine, online, pc, at, stable, seen>>
    BY <1>5 DEF GetLine, host, history
  <2>2. lines' \in Rests /\ Left' \subseteq KeysOf(Keys[machine.form])
    BY <2>1, RestFacts DEF PassKept, Left
  <2>3. info' \in InfoType
    BY <1>5, <2>1, InfoTyped DEF GetLine
  <2>4. local' \in LocalType
    BY <1>5, <2>1, InfoTyped DEF GetLine
  <2>5. seen # {} /\ at - 1 \in seen
    BY <2>1 DEF PassKept
  <2> QED
    BY <2>1, <2>2, <2>3, <2>4, <2>5 DEF PassKept
<1>6. CASE EndOfFile
  <2>1. /\ pc = "getline" /\ pc' = "done"
        /\ UNCHANGED <<machine, online, lines, at, local, stable, seen>>
    BY <1>6 DEF EndOfFile, host, history
  <2>2. info' \in InfoType
    <3>1. CASE Fallback
      <4> DEFINE name ==
            IF info.model_name = NoName /\ local.cpu_implementer # NoValue
            THEN [kind |-> "ARM", implementer |-> local.cpu_implementer,
                  part |-> local.cpu_part]
            ELSE info.model_name
      <4>1. info' = [model_name |-> name, logical_cpus |-> local.processor_count,
                     physical_cpus |-> local.processor_count]
        BY <1>6, <3>1 DEF EndOfFile
      <4>2. /\ local.processor_count \in Nat
            /\ local.cpu_implementer \in Models \cup {NoValue}
            /\ local.cpu_part \in Models \cup {NoValue}
            /\ info.model_name \in NameType
        BY DEF PassKept, LocalType, InfoType
      <4>3. name \in NameType
        BY <4>2 DEF NameType
      <4> HIDE DEF name
      <4> QED
        BY <4>1, <4>2, <4>3 DEF InfoType
    <3>2. CASE ~Fallback
      BY <1>6, <3>2 DEF EndOfFile, PassKept
    <3> QED
      BY <3>1, <3>2
  <2> QED
    BY <2>1, <2>2 DEF PassKept, Left
<1>7. CASE UNCHANGED vars
  BY <1>7 DEF vars, PassKept, Left
<1> QED
  BY <1>1, <1>2, <1>3, <1>4, <1>5, <1>6, <1>7 DEF Next, Step
-----------------------------------------------------------------------------
(* The counts of the pass. *)

LEMMA SomeGiven ==
  ASSUME HostKept, PassKept, NEW given \in SUBSET seen
  PROVE  /\ given \subseteq Cpus /\ IsFiniteSet(given) /\ given \subseteq Nat
         /\ Cardinality(given) \in Nat
         /\ \A c \in given : machine.package[c] \in Nat /\ machine.model[c] \in Models
                             /\ machine.model[c] # NoValue
<1>1. given \subseteq Cpus
  BY DEF PassKept
<1>2. IsFiniteSet(given) /\ given \subseteq Nat
  BY <1>1, CpuAssumption, FS_Subset
<1>3. \A c \in given : machine.package[c] \in Nat /\ machine.model[c] \in Models
                       /\ machine.model[c] # NoValue
  BY <1>1, CpuAssumption DEF HostKept
<1> QED
  BY <1>1, <1>2, <1>3, FS_CardinalityType

\* The host changes nothing of it.
LEMMA GatheredByHost ==
  ASSUME HostKept, PassKept, NEW given \in SUBSET seen, Gathered(given), pc = "getline",
         Offline \/ Online
  PROVE  given \in SUBSET seen' /\ Gathered(given)'
<1>1. UNCHANGED <<machine, pc, lines, at, info, local>>
  BY DEF Offline, Online
<1>2. seen \subseteq seen' /\ stable' \subseteq stable
  BY DEF Offline, Online
<1>3. Given(given)'
  BY <1>1, <1>2 DEF Given, Gathered
<1>4. Counted(given)'
  BY <1>1 DEF Counted, Gathered, Has, Read, Left
<1>5. Covered(given)'
  BY <1>1 DEF Covered, Gathered, Has, Read, Left
<1>6. Named(given)'
  BY <1>1 DEF Named, Gathered, Has, Read, Left
<1>7. Armed(given)'
  BY <1>1 DEF Armed, Gathered, Has, Read, Left
<1> QED
  BY <1>2, <1>3, <1>4, <1>5, <1>6, <1>7 DEF Gathered

\* Before the first record there is nothing.
LEMMA GatheredNone ==
  ASSUME HostKept, lines = <<>>, at = 0, stable \subseteq Cpus,
         info = [model_name |-> NoName, logical_cpus |-> 0, physical_cpus |-> 0],
         local = [processor_count |-> 0, cpu_implementer |-> NoValue, cpu_part |-> NoValue]
  PROVE  Gathered({})
<1>1. \A key : Read({}, key) = {}
  BY DEF Read
<1>2. Cardinality({}) = 0
  BY FS_EmptySet
<1>3. Given({})
  <2>1. \A c \in Cpus : c >= 0
    BY CpuAssumption
  <2> QED
    BY <2>1 DEF Given
<1>4. Counted({})
  BY <1>1, <1>2 DEF Counted
<1>5. Covered({}) /\ Named({}) /\ Armed({})
  BY <1>1 DEF Covered, Named, Armed
<1> QED
  BY <1>3, <1>4, <1>5 DEF Gathered

\* The record of one more processor.
LEMMA GatheredByFill ==
  ASSUME HostKept, PassKept, NEW given \in SUBSET seen, Gathered(given), Fill
  PROVE  \E more \in SUBSET seen' : Gathered(more)'
<1>1. /\ pc = "getline" /\ lines = <<>> /\ lines' = Keys[machine.form] /\ Ahead # {}
      /\ UNCHANGED <<machine, online, pc, info, local, stable, seen>>
  BY DEF Fill, host, history
<1>2. PICK c \in Ahead : at' = c + 1 /\ \A x \in Ahead : c <= x
  <2>1. Ahead \subseteq Nat
    BY CpuAssumption DEF Ahead, HostKept
  <2> QED
    BY <1>1, <2>1, MinOfNats DEF Fill
<1>3. /\ c \in online /\ c >= at /\ c \in Nat /\ at \in Nat /\ c \in seen
  BY <1>1, <1>2, CpuAssumption DEF Ahead, HostKept, PassKept
<1>4. PICK more : more = given \cup {c}
  OBVIOUS
<1>5. given \subseteq Nat /\ \A x \in given : x < at
  BY SomeGiven DEF Gathered, Given
<1>6. c \notin given /\ at' - 1 = c /\ more \ {c} = given /\ more \in SUBSET seen'
  BY <1>1, <1>2, <1>3, <1>4, <1>5
<1>7. Left = {} /\ Left' = KeysOf(Keys[machine.form]) /\ lines' # <<>>
  BY <1>1, NoKeys, RecordFacts DEF Left
<1>8. \A key : /\ Has(key)' = Has(key) /\ Read(given, key) = given
               /\ Has(key) => Read(more, key)' = given
               /\ ~Has(key) => Read(more, key)' = more
  BY <1>1, <1>6, <1>7 DEF Read, Has
<1>9. Given(more)'
  <2>1. \A x \in more : x < at'
    BY <1>2, <1>3, <1>4, <1>5
  <2>2. ASSUME NEW p \in stable, p \notin more
        PROVE  p >= at'
    <3>1. p >= at /\ p \in online /\ p \in Nat
      BY <1>4, <2>2, CpuAssumption DEF Gathered, Given, PassKept, HostKept
    <3>2. c <= p /\ c # p
      BY <1>2, <1>4, <2>2, <3>1 DEF Ahead
    <3> QED
      BY <1>2, <1>3, <3>1, <3>2
  <2>3. stable \subseteq Cpus
    BY DEF PassKept
  <2> QED
    BY <1>1, <1>4, <1>6, <2>1, <2>2, <2>3 DEF Given
<1>10. Counted(more)'
  BY <1>1, <1>8, RecordFacts DEF Counted, Gathered
<1>11. Covered(more)'
  BY <1>1, <1>4, <1>8 DEF Covered, Gathered
<1>12. Named(more)'
  BY <1>1, <1>4, <1>8 DEF Named, Gathered
<1>13. Armed(more)'
  BY <1>1, <1>4, <1>7, <1>8 DEF Armed, Gathered
<1> QED
  BY <1>6, <1>9, <1>10, <1>11, <1>12, <1>13 DEF Gathered

LEMMA OneLess == \A m \in Nat : \A n : n = m - 1 => m = n + 1
OBVIOUS

\* A name that was found is not the empty one.
LEMMA NamesDiffer ==
  ASSUME NEW x, NEW y
  PROVE  /\ [kind |-> "model name", name |-> x] # NoName
         /\ [kind |-> "ARM", implementer |-> x, part |-> y] # NoName
<1>1. /\ [kind |-> "model name", name |-> x].kind = "model name"
      /\ [kind |-> "ARM", implementer |-> x, part |-> y].kind = "ARM"
      /\ NoName.kind = "empty"
  BY DEF NoName
<1> QED
  BY <1>1

\* getline takes a line, and what it says is in info and local.
LEMMA GatheredByLine ==
  ASSUME HostKept, PassKept, NEW given \in SUBSET seen, Gathered(given), GetLine
  PROVE  Gathered(given)'
<1>1. /\ pc = "getline" /\ lines # <<>> /\ lines' = Tail(lines)
      /\ UNCHANGED <<machine, online, pc, at, stable, seen>>
  BY DEF GetLine, host, history
<1>2. PICK c \in given : c = at - 1
  BY <1>1 DEF Gathered, Given
<1>3. PICK k : k = Head(lines)
  OBVIOUS
<1>4. PICK line : line = Line(at - 1, Head(lines))
  OBVIOUS
<1>5. info' = InfoAfter(line) /\ local' = LocalAfter(line)
  BY <1>4 DEF GetLine
<1>6. /\ k \in Left /\ Left' = Left \ {k} /\ Has(k)
      /\ "CPU implementer" \in Left => "CPU part" \in Left
      /\ k = "CPU part" => "CPU implementer" \notin Left
  BY <1>1, <1>3, RestFacts DEF PassKept, Left, Has
<1>7. \A key : /\ Has(key)' = Has(key)
               /\ key # k => Read(given, key)' = Read(given, key)
               /\ Read(given, k) = given \ {c} /\ Read(given, k)' = given
  BY <1>1, <1>2, <1>6 DEF Read, Has
<1>8. /\ line.key = k
      /\ k = "physical id" => line.value = machine.package[c]
      /\ k \in {"model name", "CPU implementer", "CPU part"} => line.value = machine.model[c]
  BY <1>2, <1>3, <1>4 DEF Line
<1>9. /\ info \in InfoType /\ local \in LocalType
      /\ info.logical_cpus \in Nat /\ info.physical_cpus \in Nat /\ local.processor_count \in Nat
  BY DEF PassKept, InfoType, LocalType
<1>10. Cardinality(given) = Cardinality(given \ {c}) + 1
  <2>1. IsFiniteSet(given) /\ Cardinality(given) \in Nat
    BY SomeGiven
  <2>2. Cardinality(given \ {c}) = Cardinality(given) - 1
    BY <2>1, FS_RemoveElement
  <2> QED
    BY <2>1, <2>2, OneLess
<1>11. Given(given)'
  BY <1>1 DEF Given, Gathered
<1>12. CASE k = "processor"
  <2>1. info' = info /\ local' = [local EXCEPT !.processor_count = @ + 1]
    BY <1>5, <1>8, <1>12 DEF InfoAfter, LocalAfter, CountedKeys, ProcessorKeys
  <2>2. /\ local'.processor_count = local.processor_count + 1
        /\ local'.cpu_implementer = local.cpu_implementer /\ local'.cpu_part = local.cpu_part
    BY <1>9, <2>1 DEF LocalType
  <2>3. Counted(given)'
    BY <1>7, <1>10, <1>12, <2>1, <2>2 DEF Counted, Gathered
  <2>4. Covered(given)'
    BY <1>1, <1>7, <1>12, <2>1 DEF Covered, Gathered
  <2>5. Named(given)'
    BY <1>1, <1>7, <1>12, <2>1 DEF Named, Gathered
  <2>6. Armed(given)'
    BY <1>1, <1>6, <1>7, <1>12, <2>2 DEF Armed, Gathered
  <2> QED
    BY <1>11, <2>3, <2>4, <2>5, <2>6 DEF Gathered
<1>13. CASE k = "model name"
  <2>1. /\ local' = local
        /\ info' = [info EXCEPT !.model_name = [kind |-> "model name", name |-> line.value]]
    BY <1>5, <1>8, <1>13 DEF InfoAfter, LocalAfter, CountedKeys, ProcessorKeys
  <2>2. /\ info'.model_name = [kind |-> "model name", name |-> machine.model[c]]
        /\ info'.logical_cpus = info.logical_cpus /\ info'.physical_cpus = info.physical_cpus
    BY <1>8, <1>9, <1>13, <2>1 DEF InfoType
  <2>3. info'.model_name # NoName
    BY <2>2, NamesDiffer
  <2>4. Counted(given)'
    BY <1>7, <1>13, <2>1, <2>2 DEF Counted, Gathered
  <2>5. Covered(given)'
    BY <1>1, <1>7, <1>13, <2>2 DEF Covered, Gathered
  <2>6. Named(given)'
    BY <1>1, <1>6, <1>7, <1>13, <2>2, <2>3 DEF Named
  <2>7. Armed(given)'
    BY <1>1, <1>6, <1>7, <1>13, <2>1 DEF Armed, Gathered
  <2> QED
    BY <1>11, <2>4, <2>5, <2>6, <2>7 DEF Gathered
<1>14. CASE k = "cpu MHz"
  <2>1. local' = local /\ info' = [info EXCEPT !.logical_cpus = @ + 1]
    BY <1>5, <1>8, <1>14 DEF InfoAfter, LocalAfter, CountedKeys, ProcessorKeys
  <2>2. /\ info'.logical_cpus = info.logical_cpus + 1
        /\ info'.model_name = info.model_name /\ info'.physical_cpus = info.physical_cpus
    BY <1>9, <2>1 DEF InfoType
  <2>3. Counted(given)'
    BY <1>6, <1>7, <1>10, <1>14, <2>1, <2>2 DEF Counted, Gathered
  <2>4. Covered(given)'
    BY <1>1, <1>7, <1>14, <2>2 DEF Covered, Gathered
  <2>5. Named(given)'
    BY <1>1, <1>7, <1>14, <2>2 DEF Named, Gathered
  <2>6. Armed(given)'
    BY <1>1, <1>6, <1>7, <1>14, <2>1 DEF Armed, Gathered
  <2> QED
    BY <1>11, <2>3, <2>4, <2>5, <2>6 DEF Gathered
<1>15. CASE k = "physical id"
  <2>1. /\ local' = local
        /\ info' = [info EXCEPT !.physical_cpus = PhysicalCpus(@, line.value)]
    BY <1>5, <1>8, <1>15 DEF InfoAfter, LocalAfter, CountedKeys, ProcessorKeys
  <2>2. /\ info'.physical_cpus = PhysicalCpus(info.physical_cpus, machine.package[c])
        /\ info'.model_name = info.model_name /\ info'.logical_cpus = info.logical_cpus
    BY <1>8, <1>9, <1>15, <2>1 DEF InfoType
  <2>3. Covered(given)'
    <3>1. PICK m \in Nat, n \in Nat : m = info.physical_cpus /\ n = machine.package[c]
      BY <1>9, SomeGiven
    <3>2. PICK q \in Nat : q = info'.physical_cpus
      BY <2>2, <3>1, CountsAreNatural
    <3>3. /\ n < q /\ m <= q
          /\ q = m \/ q = n + 1
      BY <2>2, <3>1, <3>2 DEF PhysicalCpus
    <3>4. ASSUME NEW x \in given
          PROVE  machine.package[x] < q
      <4>1. CASE x = c
        BY <3>1, <3>3, <4>1
      <4>2. CASE x # c
        <5>1. machine.package[x] < m /\ machine.package[x] \in Nat
          BY <1>6, <1>7, <1>15, <3>1, <4>2, SomeGiven DEF Covered, Gathered
        <5> QED
          BY <3>3, <5>1
      <4> QED
        BY <4>1, <4>2
    <3>5. q # 0 => \E x \in given : Has("physical id") /\ q = machine.package[x] + 1
      <4>1. CASE q = m
        BY <3>1, <4>1 DEF Covered, Gathered
      <4>2. CASE q = n + 1
        BY <1>6, <1>15, <3>1, <4>2
      <4> QED
        BY <3>3, <4>1, <4>2
    <3> QED
      BY <1>1, <1>7, <1>15, <3>2, <3>4, <3>5 DEF Covered
  <2>4. Counted(given)'
    BY <1>7, <1>15, <2>1, <2>2 DEF Counted, Gathered
  <2>5. Named(given)'
    BY <1>1, <1>7, <1>15, <2>2 DEF Named, Gathered
  <2>6. Armed(given)'
    BY <1>1, <1>6, <1>7, <1>15, <2>1 DEF Armed, Gathered
  <2> QED
    BY <1>11, <2>3, <2>4, <2>5, <2>6 DEF Gathered
<1>16. CASE k \notin {"processor", "model name", "cpu MHz", "physical id"}
  <2>1. info' = info
    BY <1>5, <1>8, <1>16 DEF InfoAfter, CountedKeys
  <2>2. local'.processor_count = local.processor_count
    <3>1. \/ local' = local
          \/ \E v : local' = [local EXCEPT !.cpu_implementer = v]
          \/ \E v : local' = [local EXCEPT !.cpu_part = v]
      BY <1>5, <1>8, <1>16 DEF LocalAfter, ProcessorKeys
    <3> QED
      BY <1>9, <3>1 DEF LocalType
  <2>3. Counted(given)'
    BY <1>7, <1>16, <2>1, <2>2 DEF Counted, Gathered
  <2>4. Covered(given)'
    BY <1>1, <1>7, <1>16, <2>1 DEF Covered, Gathered
  <2>5. Named(given)'
    BY <1>1, <1>7, <1>16, <2>1 DEF Named, Gathered
  <2>6. Armed(given)'
    <3>1. /\ machine.model[c] # NoValue
          /\ \A x \in given : machine.model[x] # NoValue
      BY SomeGiven
    <3>2. CASE k = "CPU implementer"
      <4>1. local' = [local EXCEPT !.cpu_implementer = KeepFirst(@, machine.model[c])]
        BY <1>5, <1>8, <3>2 DEF LocalAfter, ProcessorKeys
      <4>2. /\ local'.cpu_implementer = KeepFirst(local.cpu_implementer, machine.model[c])
            /\ local'.cpu_part = local.cpu_part
        BY <1>9, <4>1 DEF LocalType
      <4>3. CASE local.cpu_implementer = NoValue
        <5>1. local.cpu_part = NoValue /\ given \ {c} = {}
          BY <1>6, <1>7, <3>1, <3>2, <4>3 DEF Armed, Gathered
        <5>2. local'.cpu_implementer = machine.model[c]
          BY <4>2, <4>3 DEF KeepFirst
        <5>3. given = {c} /\ "CPU part" \in Left' /\ "CPU implementer" \notin Left'
          BY <1>6, <3>2, <5>1
        <5> QED
          BY <1>1, <1>2, <4>2, <5>1, <5>2, <5>3 DEF Armed
      <4>4. CASE local.cpu_implementer # NoValue
        <5>1. \E x \in given : /\ local.cpu_implementer = machine.model[x]
                               /\ local.cpu_part = machine.model[x]
          BY <1>6, <3>2, <4>4 DEF Armed, Gathered
        <5>2. local'.cpu_implementer = local.cpu_implementer
          BY <4>2, <4>4 DEF KeepFirst
        <5> QED
          BY <1>1, <4>2, <5>1, <5>2 DEF Armed
      <4> QED
        BY <4>3, <4>4
    <3>3. CASE k = "CPU part"
      <4>1. local' = [local EXCEPT !.cpu_part = KeepFirst(@, machine.model[c])]
        BY <1>5, <1>8, <3>3 DEF LocalAfter, ProcessorKeys, PartAfter
      <4>2. /\ local'.cpu_part = KeepFirst(local.cpu_part, machine.model[c])
            /\ local'.cpu_implementer = local.cpu_implementer
        BY <1>9, <4>1 DEF LocalType
      <4>3. Has("CPU implementer") /\ Read(given, "CPU implementer") = given
        BY <1>6, <3>3, RecordFacts DEF Read
      <4>4. \/ /\ given = {at - 1} /\ local.cpu_implementer = machine.model[at - 1]
               /\ local.cpu_part = NoValue
            \/ \E x \in given : /\ local.cpu_implementer = machine.model[x]
                                /\ local.cpu_part = machine.model[x]
        BY <4>3 DEF Armed, Gathered
      <4>5. \E x \in given : /\ local'.cpu_implementer = machine.model[x]
                             /\ local'.cpu_part = machine.model[x]
        BY <1>2, <3>1, <4>2, <4>4 DEF KeepFirst
      <4> QED
        BY <1>1, <4>5 DEF Armed
    <3>4. CASE k \notin {"CPU implementer", "CPU part"}
      <4>1. local' = local
        BY <1>5, <1>8, <1>16, <3>4 DEF LocalAfter, ProcessorKeys
      <4> QED
        BY <1>1, <1>6, <1>7, <3>4, <4>1 DEF Armed, Gathered
    <3> QED
      BY <3>2, <3>3, <3>4
  <2> QED
    BY <1>11, <2>3, <2>4, <2>5, <2>6 DEF Gathered
<1> QED
  BY <1>12, <1>13, <1>14, <1>15, <1>16

LEMMA CountsNext == HostKept /\ PassKept /\ PassCounts /\ [Next]_vars => PassCounts'
<1> SUFFICES ASSUME HostKept, PassKept, PassCounts, [Next]_vars, pc' = "getline"
             PROVE  \E given \in SUBSET seen' : Gathered(given)'
  BY DEF PassCounts
<1>0. HostKept' /\ PassKept'
  BY HostNext, PassNext
<1>1. CASE OpenCpuInfo
  <2>1. /\ pc = "open" /\ UNCHANGED <<lines, at, info, local>>
    BY <1>1 DEF OpenCpuInfo
  <2>2. /\ lines' = <<>> /\ at' = 0 /\ stable' \subseteq Cpus
        /\ info' = [model_name |-> NoName, logical_cpus |-> 0, physical_cpus |-> 0]
        /\ local' = [processor_count |-> 0, cpu_implementer |-> NoValue, cpu_part |-> NoValue]
    BY <1>0, <2>1 DEF PassKept
  <2>3. (HostKept /\ lines = <<>> /\ at = 0 /\ stable \subseteq Cpus
         /\ info = [model_name |-> NoName, logical_cpus |-> 0, physical_cpus |-> 0]
         /\ local = [processor_count |-> 0, cpu_implementer |-> NoValue, cpu_part |-> NoValue]
           => Gathered({}))'
    BY GatheredNone, PTL
  <2>4. Gathered({})'
    BY <1>0, <2>2, <2>3
  <2>5. PICK given : given = {}
    OBVIOUS
  <2>6. Gathered(given)' /\ given \in SUBSET seen'
    BY <2>4, <2>5
  <2> QED
    BY <2>5, <2>6
<1>2. CASE ~OpenCpuInfo
  <2>1. pc = "getline"
    BY <1>2 DEF Next, Step, Offline, Online, Fill, GetLine, EndOfFile, vars
  <2>2. PICK given \in SUBSET seen : Gathered(given)
    BY <2>1 DEF PassCounts
  <2>3. CASE Offline \/ Online
    BY <2>1, <2>2, <2>3, GatheredByHost
  <2>4. CASE Fill
    BY <2>2, <2>4, GatheredByFill
  <2>5. CASE GetLine
    <3>1. UNCHANGED seen
      BY <2>5 DEF GetLine, history
    <3> QED
      BY <2>2, <2>5, <3>1, GatheredByLine
  <2>6. CASE EndOfFile
    BY <2>6 DEF EndOfFile
  <2>7. CASE UNCHANGED vars
    <3>1. UNCHANGED <<machine, lines, at, info, local, stable, seen>>
      BY <2>7 DEF vars
    <3>2. \A key : Read(given, key)' = Read(given, key) /\ Has(key)' = Has(key)
      BY <3>1 DEF Read, Has, Left
    <3>3. Left' = Left
      BY <3>1 DEF Left
    <3>4. Given(given)' /\ Counted(given)'
      BY <2>2, <3>1, <3>2 DEF Gathered, Given, Counted
    <3>5. Covered(given)' /\ Named(given)'
      BY <2>2, <3>1, <3>2 DEF Gathered, Covered, Named
    <3>6. Armed(given)'
      BY <2>2, <3>1, <3>2, <3>3 DEF Gathered, Armed
    <3> QED
      BY <2>2, <3>1, <3>4, <3>5, <3>6 DEF Gathered
  <2> QED
    BY <1>2, <2>3, <2>4, <2>5, <2>6, <2>7 DEF Next, Step
<1> QED
  BY <1>1, <1>2
-----------------------------------------------------------------------------
(* The end of the file. *)

\* Every line was read, of every processor that was there all along.
LEMMA AllRead ==
  ASSUME HostKept, PassKept, PassCounts, EndOfFile
  PROVE  \E given \in SUBSET seen :
           /\ stable \subseteq given /\ 0 \in stable /\ Gathered(given)
           /\ \A key : Read(given, key) = given
           /\ Cardinality(given) \in Nat \ {0} /\ Left = {}
<1>1. pc = "getline" /\ lines = <<>> /\ Ahead = {}
  BY DEF EndOfFile
<1>2. PICK given \in SUBSET seen : Gathered(given)
  BY <1>1 DEF PassCounts
<1>3. Left = {}
  BY <1>1, NoKeys DEF Left
<1>4. stable \subseteq given
  BY <1>1, <1>2 DEF Gathered, Given, PassKept, Ahead
<1>5. 0 \in stable
  BY <1>1 DEF PassKept
<1>6. Cardinality(given) \in Nat \ {0}
  <2>1. IsFiniteSet(given) /\ Cardinality(given) \in Nat /\ given # {}
    BY <1>4, <1>5, SomeGiven
  <2> QED
    BY <2>1, FS_EmptySet
<1> QED
  BY <1>2, <1>3, <1>4, <1>5, <1>6 DEF Read

\* What the call returns is that of the processors given.
LEMMA Returned ==
  ASSUME HostKept, PassKept, EndOfFile, NEW given \in SUBSET seen, Gathered(given),
         \A key : Read(given, key) = given, Cardinality(given) \in Nat \ {0}
  PROVE  /\ Has("cpu MHz") => ~Fallback /\ info' = info
         /\ ~Has("cpu MHz") => Fallback
         /\ info'.logical_cpus = Cardinality(given)
         /\ ~Has("cpu MHz") => info'.physical_cpus = Cardinality(given)
<1>1. /\ local.processor_count = Cardinality(given)
      /\ info.logical_cpus = IF Has("cpu MHz") THEN Cardinality(given) ELSE 0
  <2>1. Read(given, "processor") = given /\ Read(given, "cpu MHz") = given
    OBVIOUS
  <2> QED
    BY <2>1 DEF Gathered, Counted
<1>0. PICK n \in Nat \ {0} : n = Cardinality(given) /\ n > 0 /\ n # 0
  OBVIOUS
<1>2. CASE Has("cpu MHz")
  <2>1. ~Fallback
    BY <1>0, <1>1, <1>2 DEF Fallback
  <2> QED
    BY <1>1, <1>2, <2>1 DEF EndOfFile
<1>3. CASE ~Has("cpu MHz")
  <2>1. Fallback
    BY <1>0, <1>1, <1>3 DEF Fallback
  <2>2. PICK name : info' = [model_name |-> name, logical_cpus |-> local.processor_count,
                           physical_cpus |-> local.processor_count]
    BY <2>1 DEF EndOfFile
  <2>3. /\ info'.logical_cpus = local.processor_count
        /\ info'.physical_cpus = local.processor_count
    BY <2>2
  <2> QED
    BY <1>1, <1>3, <2>1, <2>3
<1> QED
  BY <1>2, <1>3

LEMMA ResultsAtEnd ==
  ASSUME HostKept, PassKept, PassCounts, EndOfFile
  PROVE  PhysicalCpusCoverPackages' /\ SomeProcessor' /\ NameOfOneCpu'
<1>1. /\ pc = "getline" /\ pc' = "done"
      /\ UNCHANGED <<machine, online, local, stable, seen>>
  BY DEF EndOfFile, host, history
<1>2. PICK given \in SUBSET seen :
        /\ stable \subseteq given /\ 0 \in stable /\ Gathered(given)
        /\ \A key : Read(given, key) = given
        /\ Cardinality(given) \in Nat \ {0} /\ Left = {}
  BY AllRead
<1>3. /\ Has("cpu MHz") => ~Fallback /\ info' = info
      /\ ~Has("cpu MHz") => Fallback
      /\ info'.logical_cpus = Cardinality(given)
      /\ ~Has("cpu MHz") => info'.physical_cpus = Cardinality(given)
  BY <1>2, Returned
<1>4. machine.form \in Forms /\ info.physical_cpus \in Nat
  BY DEF HostKept, PassKept, InfoType
<1>5. 0 \in given /\ \A c \in given : machine.package[c] \in Nat
  BY <1>2, SomeGiven
<1>6. /\ Has("physical id") =>
           /\ \A c \in given : machine.package[c] < info.physical_cpus
           /\ info.physical_cpus # 0 /\ \E c \in given : info.physical_cpus = machine.package[c] + 1
      /\ ~Has("physical id") => info.physical_cpus = 0
  <2>1. CASE Has("physical id")
    <3>1. \A c \in given : machine.package[c] < info.physical_cpus
      BY <1>2, <2>1 DEF Gathered, Covered
    <3>2. info.physical_cpus # 0
      <4>1. PICK n \in Nat : n = machine.package[0]
        BY <1>5
      <4> QED
        BY <1>5, <3>1, <4>1
    <3> QED
      BY <1>2, <2>1, <3>1, <3>2 DEF Gathered, Covered
  <2>2. CASE ~Has("physical id")
    BY <1>2, <2>2 DEF Gathered, Covered
  <2> QED
    BY <2>1, <2>2
<1>7. PhysicalCpusCoverPackages'
  <2>1. CASE machine.form = "x86"
    <3>1. Has("cpu MHz") /\ Has("physical id") /\ info' = info
      BY <1>3, <2>1, RecordFacts
    <3>2. \A c \in stable : machine.package[c] < info.physical_cpus
      BY <1>2, <1>6, <3>1
    <3>3. \E c \in seen : info.physical_cpus = machine.package[c] + 1
      BY <1>6, <3>1
    <3> QED
      BY <1>1, <3>1, <3>2, <3>3 DEF PhysicalCpusCoverPackages, Packages
  <2>2. CASE machine.form # "x86"
    BY <1>1, <2>2 DEF PhysicalCpusCoverPackages
  <2> QED
    BY <2>1, <2>2
<1>8. SomeProcessor'
  <2>1. info'.logical_cpus > 0
    <3>1. PICK n \in Nat \ {0} : n = Cardinality(given) /\ n > 0
      BY <1>2
    <3> QED
      BY <1>3, <3>1
  <2>2. machine.form # "x86 without SMP" => info'.physical_cpus > 0
    <3>1. CASE machine.form = "x86"
      <4>1. info' = info /\ info.physical_cpus # 0
        BY <1>3, <1>6, <3>1, RecordFacts
      <4>2. PICK n \in Nat : n = info.physical_cpus
        BY <1>4
      <4> QED
        BY <4>1, <4>2, <3>1
    <3>2. CASE machine.form \in {"x86 without MHz", "arm"}
      <4>1. info'.physical_cpus = Cardinality(given)
        BY <1>3, <3>2, RecordFacts
      <4>2. PICK n \in Nat \ {0} : n = Cardinality(given) /\ n > 0
        BY <1>2
      <4> QED
        BY <4>1, <4>2, <3>2
    <3> QED
      BY <1>4, <3>1, <3>2 DEF Forms
  <2> QED
    BY <1>1, <2>1, <2>2 DEF SomeProcessor
<1>9. NameOfOneCpu'
  <2>1. CASE Has("model name")
    <3>1. info.model_name # NoName
      BY <1>2, <1>5, <2>1 DEF Gathered, Named
    <3>2. PICK c \in given : info.model_name = [kind |-> "model name", name |-> machine.model[c]]
      BY <1>2, <3>1 DEF Gathered, Named
    <3>3. info'.model_name = info.model_name
      BY <3>1 DEF EndOfFile
    <3> QED
      BY <1>1, <3>2, <3>3 DEF NameOfOneCpu
  <2>2. CASE ~Has("model name")
    <3>1. Has("CPU implementer") /\ Fallback /\ info.model_name = NoName
      BY <1>2, <1>3, <1>4, <2>2, RecordFacts DEF Forms, Gathered, Named
    <3>2. PICK c \in given : /\ local.cpu_implementer = machine.model[c]
                             /\ local.cpu_part = machine.model[c]
      BY <1>2, <1>5, <3>1 DEF Gathered, Armed
    <3>3. local.cpu_implementer # NoValue
      BY <3>2, SomeGiven
    <3>4. info'.model_name = [kind |-> "ARM", implementer |-> machine.model[c],
                              part |-> machine.model[c]]
      BY <3>1, <3>2, <3>3 DEF EndOfFile
    <3> QED
      BY <1>1, <3>4 DEF NameOfOneCpu
  <2> QED
    BY <2>1, <2>2
<1> QED
  BY <1>7, <1>8, <1>9

LEMMA ResultsNext ==
  ASSUME IInv, [Next]_vars
  PROVE  PhysicalCpusCoverPackages' /\ SomeProcessor' /\ NameOfOneCpu'
<1> USE DEF IInv
<1>1. CASE EndOfFile
  BY <1>1, ResultsAtEnd
<1>2. CASE Offline \/ Online
  <2>1. /\ UNCHANGED <<machine, pc, info>> /\ (pc = "done" => UNCHANGED seen)
        /\ stable' \subseteq stable
    BY <1>2 DEF Offline, Online
  <2> QED
    BY <2>1 DEF PhysicalCpusCoverPackages, SomeProcessor, NameOfOneCpu, Packages
<1>3. CASE OpenCpuInfo
  <2>1. pc' = "done" => seen' = {}
    BY <1>3 DEF OpenCpuInfo, history, PassKept
  <2> QED
    BY <2>1 DEF PhysicalCpusCoverPackages, SomeProcessor, NameOfOneCpu
<1>4. CASE Fill \/ GetLine
  <2>1. pc' # "done"
    BY <1>4 DEF Fill, GetLine
  <2> QED
    BY <2>1 DEF PhysicalCpusCoverPackages, SomeProcessor, NameOfOneCpu
<1>5. CASE UNCHANGED vars
  BY <1>5 DEF vars, PhysicalCpusCoverPackages, SomeProcessor, NameOfOneCpu, Packages
<1> QED
  BY <1>1, <1>2, <1>3, <1>4, <1>5 DEF Next, Step
-----------------------------------------------------------------------------
\* All of the invariant together.
THEOREM Invariant == Spec => []IInv
<1>1. Init => IInv
  <2>1. Init => PassCounts /\ PhysicalCpusCoverPackages /\ SomeProcessor /\ NameOfOneCpu
    BY DEF Init, PassCounts, PhysicalCpusCoverPackages, SomeProcessor, NameOfOneCpu
  <2> QED
    BY <2>1, HostInit, PassInit DEF IInv
<1>2. IInv /\ [Next]_vars => IInv'
  BY HostNext, PassNext, CountsNext, ResultsNext DEF IInv
<1> QED
  BY <1>1, <1>2, PTL DEF Spec

\* physical_processor bounds the package ids of the processors that were there
\* all along and comes from one that was seen (cpu_stats.cpp:130-140), whatever
\* gaps the ids have.
THEOREM PackagesAreCovered == Spec => []PhysicalCpusCoverPackages
BY Invariant, PTL DEF IInv

\* A host with processors reports some, with or without clock lines, and
\* physical ones too unless records have clock lines but name no packages
\* (cpu_stats.cpp:125-145, 172-174).
THEOREM ProcessorsAreReported == Spec => []SomeProcessor
BY Invariant, PTL DEF IInv

\* The name is one processor's, although an ARM name is put together from lines
\* of records that the kernel gave at different moments (cpu_stats.cpp:146-183).
THEOREM NameIsOfOneCpu == Spec => []NameOfOneCpu
BY Invariant, PTL DEF IInv
-----------------------------------------------------------------------------
(* The refinement. *)

\* The instance of the survey counts as this module does.
LEMMA SameCardinality == \A S : Processors!Cardinality(S) = Cardinality(S)
BY DEF Processors!Cardinality, Cardinality

\* Every step is one of the survey or changes nothing of it.
LEMMA SurveyStep == IInv /\ [Next]_vars => [Processors!Next]_(Processors!vars)
<1> SUFFICES ASSUME IInv, [Next]_vars
             PROVE  Processors!Next \/ UNCHANGED Processors!vars
  OBVIOUS
<1>0. HostKept /\ PassKept /\ PassCounts
  BY DEF IInv
<1>1. CASE Offline
  <2>1. PICK c \in online \ {0} : online' = online \ {c} /\ stable' = stable \ {c}
    BY <1>1 DEF Offline
  <2>2. UNCHANGED <<pc, info, seen>>
    BY <1>1 DEF Offline
  <2>3. c \in Cpus /\ Processors!Leave(c)
    BY <1>0, <2>1, <2>2 DEF HostKept, Processors!Leave, SurveyStatus, surveyCount
  <2> QED
    BY <2>3 DEF Processors!Next
<1>2. CASE Online
  <2>1. PICK c \in Cpus \ online :
          /\ online' = online \cup {c}
          /\ seen' = IF pc = "getline" THEN seen \cup {c} ELSE seen
    BY <1>2 DEF Online
  <2>2. UNCHANGED <<pc, info, stable>>
    BY <1>2 DEF Online
  <2>3. SurveyStatus' = SurveyStatus /\ (SurveyStatus = "counting" <=> pc = "getline")
    BY <2>1, <2>2 DEF SurveyStatus
  <2>4. Processors!Arrive(c)
    BY <2>1, <2>2, <2>3 DEF Processors!Arrive, surveyCount
  <2> QED
    BY <2>1, <2>4 DEF Processors!Next
<1>3. CASE OpenCpuInfo
  <2>1. pc = "open" /\ UNCHANGED <<online, info>>
    BY <1>3 DEF OpenCpuInfo, host
  <2>2. SurveyStatus = "waiting" /\ surveyCount = 0 /\ seen = {} /\ info.logical_cpus = 0
    BY <1>0, <2>1 DEF SurveyStatus, surveyCount, PassKept
  <2>3. CASE pc' = "getline" /\ stable' = online /\ seen' = online
    <3>1. Processors!Begin
      BY <2>1, <2>2, <2>3 DEF Processors!Begin, SurveyStatus, surveyCount
    <3> QED
      BY <3>1 DEF Processors!Next
  <2>4. CASE pc' = "done" /\ UNCHANGED history
    <3>1. Processors!Fail
      BY <2>1, <2>2, <2>4 DEF Processors!Fail, SurveyStatus, surveyCount, history
    <3> QED
      BY <3>1 DEF Processors!Next
  <2> QED
    BY <1>3, <2>3, <2>4 DEF OpenCpuInfo
<1>4. CASE Fill \/ GetLine
  <2>1. pc = "getline" /\ pc' = "getline" /\ UNCHANGED <<online, stable, seen>>
    BY <1>4 DEF Fill, GetLine, host, history
  <2> QED
    BY <2>1 DEF Processors!vars, SurveyStatus, surveyCount
<1>5. CASE EndOfFile
  <2>1. pc = "getline" /\ pc' = "done" /\ UNCHANGED <<online, stable, seen>>
    BY <1>5 DEF EndOfFile, host, history
  <2>2. PICK given \in SUBSET seen :
          /\ stable \subseteq given /\ 0 \in stable /\ Gathered(given)
          /\ \A key : Read(given, key) = given
          /\ Cardinality(given) \in Nat \ {0} /\ Left = {}
    BY <1>0, <1>5, AllRead
  <2>3. info'.logical_cpus = Cardinality(given)
    BY <1>0, <1>5, <2>2, Returned
  <2>4. Cardinality(given) \in Cardinality(stable)..Cardinality(seen)
    <3>1. seen \subseteq Cpus
      BY <1>0 DEF PassKept
    <3>2. IsFiniteSet(seen) /\ IsFiniteSet(given) /\ IsFiniteSet(stable)
      BY <2>2, <3>1, CpuAssumption, FS_Subset
    <3>3. Cardinality(stable) <= Cardinality(given) /\ Cardinality(given) <= Cardinality(seen)
      BY <2>2, <3>2, FS_Subset
    <3>4. Cardinality(stable) \in Nat /\ Cardinality(seen) \in Nat
      BY <3>2, FS_CardinalityType
    <3> QED
      BY <2>2, <3>3, <3>4
  <2>5. SurveyStatus = "counting" /\ SurveyStatus' = "done"
    <3>1. seen # {}
      BY <2>2
    <3> QED
      BY <2>1, <3>1 DEF SurveyStatus
  <2>6. surveyCount' \in Processors!Cardinality(stable)..Processors!Cardinality(seen)
    BY <2>1, <2>3, <2>4, SameCardinality DEF surveyCount
  <2>7. Processors!Finish
    BY <2>1, <2>5, <2>6 DEF Processors!Finish
  <2> QED
    BY <2>7 DEF Processors!Next
<1>6. CASE UNCHANGED vars
  BY <1>6 DEF vars, Processors!vars, SurveyStatus, surveyCount
<1> QED
  BY <1>1, <1>2, <1>3, <1>4, <1>5, <1>6 DEF Next, Step

\* logical_processor is what a survey of a living host can promise
\* (cpu_stats.cpp:86-185), whichever way the processors are counted.
THEOREM ProcessorsAreSurveyed == Spec => ImplementsSurvey
<1>1. Init => Processors!Init
  BY DEF Init, Processors!Init, SurveyStatus, surveyCount
<1> QED
  BY <1>1, SurveyStep, Invariant, PTL DEF Spec, ImplementsSurvey, Processors!Spec
=============================================================================
