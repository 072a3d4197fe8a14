\* One query, all five functions, every reading around the chunk size.
SPECIFICATION FairSpec
CONSTANTS
  Kilo = 2
  Kibi = 3
  Queries = {q1}
  Samples <- MCSamples
  UnitArgs = {"kb", "tib", "parsec"}
  NoArgument = NoArgument
  STANDARD_VECTOR_SIZE = 2
  MaxFetched = 6
INVARIANTS
  TypeOK
  RowsInOrder
  ChunkFits
  CompleteWhenDone
PROPERTIES
  ScanEnds
  ImplementsTableScan
