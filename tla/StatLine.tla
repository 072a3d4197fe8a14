------------------------------ MODULE StatLine ------------------------------
(***************************************************************************)
(* What ReadProcessStatus (os_info.cpp) makes of one /proc/pid/stat: the   *)
(* kernel prints pid (comm) state ppid ... threads ..., and comm is        *)
(* whatever the process calls itself, blanks, parentheses and lines of its *)
(* own included.  OSInfo takes the line as read right; this module is      *)
(* about when it is.  A text is a sequence of characters.                  *)
(***************************************************************************)
EXTENDS Naturals, Sequences, SequencesExt

CONSTANTS
  Chars,    \* the characters of a comm
  MaxComm,  \* the longest comm: 15
  States,   \* process states
  Fields    \* the numbers scanned after the state, the last the threads: 17

Digits == [d \in {"0", "1", "2"} |-> CASE d = "0" -> 0 [] d = "1" -> 1 [] d = "2" -> 2]

\* Assumed of the constants: a comm is too short to hold a whole record, from
\* the ')' to the line end.
StatAssumption ==
  /\ MaxComm \in Nat \ {0} /\ Fields \in Nat \ {0} /\ MaxComm < 2 * Fields + 2
  /\ States \cap {" ", "\n", "(", ")"} = {}

VARIABLES
  comm, state, threads,  \* the process
  pc,
  line,                  \* line_buf
  counted                \* what was added: [state, threads], or Nothing

vars == <<comm, state, threads, pc, line, counted>>

Nothing == [state |-> "none", threads |-> 0]

Init ==
  /\ comm \in {<<c>> : c \in Chars} /\ state \in States /\ threads \in {"1", "2"}
  /\ pc = "fgets" /\ line = <<>> /\ counted = Nothing

\* PR_SET_NAME (external); a name is never empty here.
Rename ==
  /\ pc = "fgets"
  /\ \E c \in Chars : comm' = IF Len(comm) = MaxComm THEN <<c>> ELSE Append(comm, c)
  /\ UNCHANGED <<state, threads, pc, line, counted>>

\* The file (external): after the threads come other numbers.
Text ==
  <<"1", " ", "(">> \o comm \o <<")", " ", state>>
    \o FlattenSeq([k \in 1..Fields - 1 |-> <<" ", "0">>]) \o <<" ", threads, " ", "0", "\n">>

\* The text up to the first line end.
FGets ==
  /\ pc = "fgets" /\ pc' = "parse"
  /\ line' = SubSeq(Text, 1, CHOOSE k \in 1..Len(Text) :
                                Text[k] = "\n" /\ \A j \in 1..k - 1 : Text[j] # "\n")
  /\ UNCHANGED <<comm, state, threads, counted>>

\* The text from the first character on that is not in set.
SkipAll(text, set) ==
  LET stays == {k \in 1..Len(text) : text[k] \notin set}
  IN  SubSeq(text, CHOOSE k \in stays \cup {Len(text) + 1} : \A j \in stays : k <= j, Len(text))

\* strrchr(line, ')').
CloseOf(text) ==
  CHOOSE k \in 1..Len(text) : text[k] = ")" /\ \A j \in k + 1..Len(text) : text[j] # ")"

\* The text after the comm, or nothing: pid, blanks, '(', ... ')', blanks.
AfterComm(text) ==
  LET opened == SkipAll(SkipAll(text, DOMAIN Digits), {" "})
  IN  IF opened = <<>> \/ Head(opened) # "(" \/ ~\E k \in 2..Len(opened) : opened[k] = ")"
      THEN <<>>
      ELSE SkipAll(SubSeq(opened, CloseOf(opened) + 1, Len(opened)), {" "})

\* sscanf("%d %d ..."): the numbers up to the first thing that is none.
Numbers(text) ==
  LET more(acc, d) == IF acc.inside
                      THEN [acc.seq EXCEPT ![Len(acc.seq)] = 10 * @ + d]
                      ELSE Append(acc.seq, d)
  IN  FoldLeft(LAMBDA acc, c :
                 IF acc.ended THEN acc
                 ELSE CASE c \in {" ", "\n"}   -> [acc EXCEPT !.inside = FALSE]
                        [] c \in DOMAIN Digits ->
                             [acc EXCEPT !.seq = more(acc, Digits[c]), !.inside = TRUE]
                        [] OTHER               -> [acc EXCEPT !.ended = TRUE],
               [seq |-> <<>>, inside |-> FALSE, ended |-> FALSE], text).seq

\* Mutant: any record with a number is taken.
IncompleteNever(numbers) == numbers = <<>>

\* scanned < 18: a conversion failed.
Incomplete(numbers) == Len(numbers) < Fields

ThreadsOf(numbers) == numbers[IF Len(numbers) < Fields THEN Len(numbers) ELSE Fields]

Parse ==
  /\ pc = "parse" /\ pc' = "done"
  /\ counted' =
       IF AfterComm(line) = <<>> THEN Nothing
       ELSE LET numbers == Numbers(Tail(AfterComm(line)))
            IN  IF Incomplete(numbers) THEN Nothing
                ELSE [state |-> Head(AfterComm(line)), threads |-> ThreadsOf(numbers)]
  /\ UNCHANGED <<comm, state, threads, line>>

\* The next walk of /proc.
Again ==
  /\ pc = "done" /\ pc' = "fgets" /\ line' = <<>> /\ counted' = Nothing
  /\ UNCHANGED <<comm, state, threads>>

Next == Rename \/ FGets \/ Parse \/ Again

Spec == Init /\ [][Next]_vars
-----------------------------------------------------------------------------
Right == [state |-> state, threads |-> Digits[threads]]

\* Whatever a process calls itself, it is counted with its own state and
\* threads, or not at all where its comm has a line end: no comm passes for
\* another record (os_info.cpp:194, the last parenthesis, and :222, the number
\* of fields).
CountedRight ==
  pc = "done" => counted = Right \/ (counted = Nothing /\ Contains(comm, "\n"))
=============================================================================
