\* Packets flow, interfaces vanish and reappear; the kernel's spare room is
\* smaller than the list of an interface, so that it can run out.
SPECIFICATION Spec
CONSTANTS
  Interfaces <- MCInterfaces
  MTU = 2
  Word = 16
  MaxEvents = 2
  Spare = 1
INVARIANTS
  CountersWithinScan
  BytesFitPackets
  OneRowEach
  MemoryHeld
