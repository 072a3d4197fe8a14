\* Each reader on either platform; memory is counted in units of 4 bytes, a
\* counter wraps at 64; three pids, so that the table can grow by more than the
\* spare room of one.  A call ends.
SPECIFICATION Spec
CONSTANTS
  MemStates <- MCMemStates
  Optional <- MCOptional
  OsReleases <- MCOsReleases
  Prefix <- MCPrefix
  Kinds <- MCKinds
  Unit = 4
  Width = 64
  Sizes = {2, 3}
  KiB = 4
  Pids = {1, 2, 3}
  Self = 2
  Unwritten = Unwritten
  Spare = 1
  FdSpare = 1
INVARIANTS
  UsedAndFreeAddUp
  FieldsOfOneText
  EachRefusalItsOwn
  NameOfTheFile
  MemoryHeld
  SumCoversStable
CHECK_DEADLOCK FALSE
