------------------------------- MODULE Survey -------------------------------
(***************************************************************************)
(* What counting the processes or the processors of a living host can      *)
(* promise: they cannot be counted at one moment, but the count misses     *)
(* nothing that was there from the beginning to the end, and nothing is    *)
(* counted twice or that was never there.  OSInfo and CpuInfo implement    *)
(* this specification.                                                     *)
(***************************************************************************)
EXTENDS Naturals, FiniteSets

CONSTANT Things  \* what may be there to be counted

VARIABLES
  present,  \* what is there now
  status,   \* "waiting", "counting", "done" or "failed"
  stable,   \* what has been there since the survey began
  seen,     \* what was there at some moment of the survey
  count     \* the answer

vars == <<present, status, stable, seen, count>>

Init ==
  /\ present \subseteq Things
  /\ status = "waiting" /\ stable = {} /\ seen = {} /\ count = 0

Arrive(x) ==
  /\ x \notin present /\ present' = present \cup {x}
  /\ seen' = IF status = "counting" THEN seen \cup {x} ELSE seen
  /\ UNCHANGED <<status, stable, count>>

Leave(x) ==
  /\ x \in present /\ present' = present \ {x}
  /\ stable' = stable \ {x}
  /\ UNCHANGED <<status, seen, count>>

Begin ==
  /\ status = "waiting" /\ status' = "counting"
  /\ stable' = present /\ seen' = present
  /\ UNCHANGED <<present, count>>

\* The host cannot be asked, or no longer.
Fail ==
  /\ status \in {"waiting", "counting"} /\ status' = "failed"
  /\ UNCHANGED <<present, stable, seen, count>>

Finish ==
  /\ status = "counting" /\ status' = "done"
  /\ count' \in Cardinality(stable)..Cardinality(seen)
  /\ UNCHANGED <<present, stable, seen>>

Next == (\E x \in Things : Arrive(x) \/ Leave(x)) \/ Begin \/ Fail \/ Finish

Spec == Init /\ [][Next]_vars
=============================================================================
