--------------------------- MODULE OSDescription ---------------------------
(***************************************************************************)
(* The texts and the uptime of GetOSInfo (os_info.cpp), on Linux and on    *)
(* macOS: questions each of which may be refused by itself, among them a   *)
(* second uname, asked when /etc/os-release has given no name.             *)
(***************************************************************************)
EXTENDS StringUtils, SequencesExt

CONSTANTS
  OsReleases,  \* what /etc/os-release can be: its lines, and the name in them
  Prefix       \* PRETTY_NAME=, as one of the characters of a line

\* A character of a struct utsname that no uname has filled.
Unset == "unset"

\* The value of a variable in the file (external), which blanks may be around:
\* the name between quotes, or as it is if it has no quote or blank at its ends.
Gives(value, name) ==
  \E i \in 1..Len(value) + 1, j \in 0..Len(value) :
    /\ \A k \in 1..Len(value) : k < i \/ k > j => value[k] \in Blanks
    /\ \/ SubSeq(value, i, j) = <<Quote>> \o name \o <<Quote>>
       \/ /\ SubSeq(value, i, j) = name
          /\ name # <<>> => {name[1], name[Len(name)]} \cap (Blanks \cup {Quote}) = {}

\* The file gives the name where the prefix is first, or has none (external).
IsNamed(release) ==
  LET lines == release.lines
  IN  \/ release.name = <<>> /\ \A l \in 1..Len(lines) : ~Contains(lines[l], Prefix)
      \/ \E l \in 1..Len(lines) : \E p \in 1..Len(lines[l]) :
           /\ \A k \in 1..l - 1 : ~Contains(lines[k], Prefix)
           /\ lines[l][p] = Prefix /\ \A k \in 1..p - 1 : lines[l][k] # Prefix
           /\ Gives(SubSeq(lines[l], p + 1, Len(lines[l])), release.name)

\* Assumed of the constants: lines and names are texts, none has the character
\* Unset, and the name is what the file gives.
DescriptionAssumption ==
  \A r \in OsReleases :
    /\ r.lines \in Seq(Seq(STRING \ {Unset})) /\ r.name \in Seq(STRING \ {Unset})
    /\ IsNamed(r)

VARIABLES
  platform,    \* for which the extension was built
  file,        \* /etc/os-release
  pc,          \* the question asked next
  uts,         \* struct utsname, on the stack
  info,        \* struct OSInfo, without the counts
  refused      \* history: the questions that were not answered

vars == <<platform, file, pc, uts, info, refused>>

\* What uname writes (external), and the stack before it has.
Uname == [sysname |-> <<"s">>, release |-> <<"r">>, version |-> <<"v">>, machine |-> <<"m">>]
Garbage == [f \in DOMAIN Uname |-> <<Unset>>]

Init ==
  /\ platform \in {"Linux", "macOS"} /\ file \in OsReleases
  /\ pc = "uname" /\ uts = Garbage /\ refused = {}
  /\ info = [f \in {"name", "version", "architecture", "host_name", "os_up_since_seconds"} |-> <<>>]

\* The question is refused (external), which is at most logged.
Refused == refused' = refused \cup {pc} /\ UNCHANGED <<uts, info>>

AskUname ==
  /\ pc = "uname" /\ pc' = "gethostname"
  /\ \/ /\ uts' = Uname /\ UNCHANGED refused
        /\ info' =
             IF platform = "Linux"
             THEN [info EXCEPT !.version = uts'.sysname \o <<" ">> \o uts'.release,
                               !.architecture = uts'.machine]
             ELSE [info EXCEPT !.name = uts'.sysname, !.version = uts'.version,
                               !.architecture = uts'.machine]
     \/ Refused
  /\ UNCHANGED <<platform, file>>

AskHostName ==
  /\ pc = "gethostname" /\ pc' = IF platform = "Linux" THEN "os-release" ELSE "uptime"
  /\ \/ info' = [info EXCEPT !.host_name = <<"h">>] /\ UNCHANGED <<uts, refused>>
     \/ Refused
  /\ UNCHANGED <<platform, file>>

\* Mutant: the whole line.
ValueWhole(line) == RemoveQuotes(line)

\* What follows the prefix.
Value(line) ==
  RemoveQuotes(TrimString(SubSeq(line, SelectInSeq(line, LAMBDA c : c = Prefix) + 1, Len(line))))

\* The value of the first line with the prefix, wherever in it; empty if the
\* file cannot be opened or no line has it.
ReadOSName(lines) ==
  LET at == SelectInSeq(lines, LAMBDA line : Contains(line, Prefix))
  IN  IF at = 0 THEN <<>> ELSE Value(lines[at])

\* info.name.empty().
NextAfterName(name) == IF name = <<>> THEN "uname again" ELSE "uptime"

AskOSName ==
  /\ pc = "os-release"
  /\ \/ info' = [info EXCEPT !.name = ReadOSName(file.lines)] /\ UNCHANGED refused
     \/ info' = [info EXCEPT !.name = <<>>] /\ refused' = refused \cup {"os-release"}
  /\ pc' = NextAfterName(info'.name)
  /\ UNCHANGED <<platform, file, uts>>

AskUnameAgain ==
  /\ pc = "uname again" /\ pc' = "uptime"
  /\ \/ uts' = Uname /\ info' = [info EXCEPT !.name = uts'.sysname] /\ UNCHANGED refused
     \/ Refused
  /\ UNCHANGED <<platform, file>>

\* sysinfo, clock_gettime.
AskUptime ==
  /\ pc = "uptime" /\ pc' = "done"
  /\ \/ info' = [info EXCEPT !.os_up_since_seconds = <<"u">>] /\ UNCHANGED <<uts, refused>>
     \/ Refused
  /\ UNCHANGED <<platform, file>>

\* GetDbInstance throws where a refusal is logged; that of the second uname
\* is not.
Throw ==
  /\ pc \in {"uname", "gethostname", "os-release", "uptime"} /\ pc' = "thrown"
  /\ UNCHANGED <<platform, file, uts, info, refused>>

Next == AskUname \/ AskHostName \/ AskOSName \/ AskUnameAgain \/ AskUptime \/ Throw

Spec == Init /\ [][Next]_vars
-----------------------------------------------------------------------------
\* One refused question leaves the columns of the others as they are: none is
\* empty but for a refusal of its own (test/sql/system_stats_os.test), and none
\* comes from a struct utsname that no uname has filled (os_info.cpp:258, 277,
\* 406).
EachRefusalItsOwn ==
  /\ \A f \in DOMAIN info : ~Contains(info[f], Unset)
  /\ pc = "done" =>
     /\ "uname" \notin refused => info.version # <<>> /\ info.architecture # <<>>
     /\ "gethostname" \notin refused => info.host_name # <<>>
     /\ "uptime" \notin refused => info.os_up_since_seconds # <<>>
     /\ info.name = <<>> => refused \cap {"uname", "uname again"} # {}

\* On Linux the name is the one the distribution gave itself, as it was before
\* it was put between quotes, and the kernel's name where it gave none or the
\* file cannot be read.
NameOfTheFile ==
  pc = "done" /\ platform = "Linux" =>
    IF "os-release" \notin refused /\ file.name # <<>> THEN info.name = file.name
    ELSE info.name = IF "uname again" \in refused THEN <<>> ELSE Uname.sysname
=============================================================================
