\* A scan of a table that changes under it, alone or overlapping another.
SPECIFICATION Spec
CONSTANTS
  Settings <- MCSettings
  ReadAhead = 2
  Word = 16
INVARIANTS
  RowsDescribeOneMount
  StableMountsReported
  SpaceOfOwnMountPoint
  StreamLeaksOnlyIfThrown
PROPERTIES
  ScanEnds
