\* A file system whose f_bsize and f_frsize differ.
SPECIFICATION Spec
CONSTANTS
  Settings <- MCFuse
  ReadAhead = 2
  Word = 16
INVARIANTS
  SpaceInBytes
