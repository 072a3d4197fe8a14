\* Three pids; processes come and go without bound during the call.
SPECIFICATION FairSpec
CONSTANTS
  Pids = {1, 2, 3}
  Self = 2
  States = {"R", "Z"}
  MaxThreads = 2
  ReadAhead = 2
CHECK_DEADLOCK FALSE
INVARIANTS
  ThreadsOfStableCounted
  HandlesCounted
  HandlesClosed
PROPERTIES
  CallReturns
  ImplementsSurvey
