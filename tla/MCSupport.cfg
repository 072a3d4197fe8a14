\* Two databases of one process, two connections, loads that may fail half-way.
\* Comms of up to five characters, records of a state and two numbers: one more
\* character, and a comm could hold one.  Texts of up to five characters.  Four
\* functions in three scopes.
SPECIFICATION SupportSpec
CONSTANTS
  d1 = d1
  d2 = d2
  c1 = c1
  c2 = c2
  Databases <- MCDatabases
  Connections <- MCConnections
  None = None
  MaxComm = 5
  States = {"R", "S"}
  Fields = 2
  MaxFuncs = 4
  MaxScopes = 3
  MaxText = 5
SYMMETRY MCSymmetry
INVARIANTS
  LookupNeverThrows
  LogsToOwnDatabase
  NoLeak
  LoadedIsComplete
  CountedRight
  TrimsOnlyBlanks
  QuotesInPairs
  LaterRunsFirst
  RunOnceAtExit
\* A process that has closed its databases has nothing left to do, a line that
\* is read and a text of full length neither, and the program may end.
CHECK_DEADLOCK FALSE
