----------------------------- MODULE MCHelpers -----------------------------
(***************************************************************************)
(* What the readers are built on: the parser of a /proc/<pid>/stat line,   *)
(* the string utilities, and the scope guards their handles are closed by. *)
(* One of them runs.                                                       *)
(***************************************************************************)
EXTENDS Naturals, Sequences, SequencesExt

CONSTANTS
  MaxComm, States, Fields,  \* see StatLine
  MaxFuncs, MaxScopes,      \* see ScopeGuard
  MaxText                   \* the longest text given to the string utilities

\* Comms are of letters that are states, digits, blanks, parentheses, line ends.
MCChars == {"R", "1", " ", "(", ")", "\n"}

VARIABLES
  helper,                                    \* which helper runs
  comm, state, threads, pc, line, counted,   \* a line
  text,                                      \* a text
  scopes, exit, guards, functions, ran      \* guards

lineVars == <<comm, state, threads, pc, line, counted>>
guardVars == <<scopes, exit, guards, functions, ran>>
helperVars == <<helper, lineVars, text, guardVars>>

Line == INSTANCE StatLine WITH Chars <- MCChars
Strings == INSTANCE StringUtils
Guards == INSTANCE ScopeGuard

ASSUME HelpersAssumption == Line!StatAssumption

Absent == <<>>
NoLine == comm = Absent /\ state = Absent /\ threads = Absent /\ pc = Absent /\ line = Absent /\ counted = Absent
NoGuards == scopes = Absent /\ exit = Absent /\ guards = Absent /\ functions = Absent /\ ran = Absent

HelpersInit ==
  \/ helper = "line" /\ Line!Init /\ text = Absent /\ NoGuards
  \/ helper = "strings" /\ text = Absent /\ NoLine /\ NoGuards
  \/ helper = "guards" /\ Guards!Init /\ text = Absent /\ NoLine

NextLine == helper = "line" /\ Line!Next /\ UNCHANGED <<helper, text, guardVars>>

\* Every text of at most MaxText characters, grown one by one.
Grow ==
  /\ helper = "strings" /\ Len(text) < MaxText
  /\ \E c \in {"a", " ", "\t", Strings!Quote} : text' = Append(text, c)
  /\ UNCHANGED <<helper, lineVars, guardVars>>

NextGuards == helper = "guards" /\ Guards!Next /\ UNCHANGED <<helper, lineVars, text>>

HelpersNext == NextLine \/ Grow \/ NextGuards

HelpersSpec == HelpersInit /\ [][HelpersNext]_helperVars
-----------------------------------------------------------------------------
\* Whatever a process calls itself, it is counted with its own state and
\* threads, or not at all where its comm has a line end: no comm passes for
\* another record (os_info.cpp:194, the last parenthesis, 222, the number of
\* fields, and 167, the line end).
CountedRight == helper = "line" => Line!CountedRight

IsSolid(str) ==
  str = <<>> \/ (Head(str) \notin Strings!Blanks /\ Last(str) \notin Strings!Blanks)

\* The trimmed text is the text without some blanks before and after it, and
\* neither begins nor ends with one; blanks inside it stay
\* (string_utils.cpp:5-12).
TrimsOnlyBlanks ==
  LET trimmed == Strings!TrimString(text)
      kept(k) == k + 1..k + Len(trimmed)
  IN  /\ IsSolid(trimmed)
      /\ \E k \in 0..Len(text) - Len(trimmed) :
           /\ SubSeq(text, k + 1, k + Len(trimmed)) = trimmed
           /\ \A j \in DOMAIN text \ kept(k) : text[j] \in Strings!Blanks

\* Whatever is put between quotes, blanks and quotes at its ends included,
\* comes back as it was, however many blanks are around the quotes; a text
\* that is not between two quotes loses no character but blanks, be it a lone
\* quote or an opening one without its partner (string_utils.cpp:14-20, and
\* test/unittest/test_string_utils.cpp).
QuotesInPairs ==
  LET Quoted(inner) == <<Strings!Quote>> \o inner \o <<Strings!Quote>>
      solid == Strings!TrimString(text)
  IN  /\ \A pad \in {<<>>, <<" ">>, <<"\t", "\n">>} :
           Strings!RemoveQuotes(pad \o Quoted(text) \o pad) = text
      /\ (\A i, j \in 1..Len(solid) : solid # Quoted(SubSeq(solid, i, j))) =>
           Strings!RemoveQuotes(text) = solid

\* Functions run in the reverse of the order they were registered in, those
\* of a guard as those of the guards of a scope and of the scopes
\* (scope_guard.hpp:42-43).
LaterRunsFirst == helper = "guards" => Guards!LaterRunsFirst

\* No function runs twice, and every one has run when its scope is gone, be it
\* left or unwound, unless the program has been terminated
\* (scope_guard.hpp:1-2).
RunOnceAtExit == helper = "guards" => Guards!RunOnceAtExit
=============================================================================
