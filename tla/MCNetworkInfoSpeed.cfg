\* An interface that does not know its link speed.
SPECIFICATION Spec
CONSTANTS
  Interfaces <- MCInterfaces
  MTU = 2
  Word = 16
  MaxEvents = 0
  Spare = 1
INVARIANTS
  LinkSpeedZeroIfUnknown
