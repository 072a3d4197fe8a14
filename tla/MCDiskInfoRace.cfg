\* Two scans at once share a static buffer of the C library.
SPECIFICATION Spec
CONSTANTS
  Settings <- Overlapping
  ReadAhead = 2
  Word = 16
INVARIANTS
  RowsAlwaysDescribeOneMount
