----------------------------- MODULE MCSupport -----------------------------
(***************************************************************************)
(* A small instance of what the readers stand on: the cache of database    *)
(* instances and the helpers of MCHelpers.  One of them runs; what the     *)
(* others have stays as it is.                                             *)
(***************************************************************************)
EXTENDS InstanceCache, MCHelpers, TLC

CONSTANTS d1, d2, c1, c2

MCDatabases == {d1, d2}
MCConnections == {c1, c2}

\* The databases are alike, and so are the connections.
MCSymmetry == Permutations(MCDatabases) \cup Permutations(MCConnections)

SupportInit ==
  /\ Init
  /\ \/ HelpersInit
     \/ helper = "cache" /\ text = Absent /\ NoLine /\ NoGuards

NextCache == helper = "cache" /\ Next /\ UNCHANGED helperVars

SupportNext == NextCache \/ (HelpersNext /\ UNCHANGED vars)

SupportSpec == SupportInit /\ [][SupportNext]_<<vars, helperVars>>
=============================================================================
