SPECIFICATION Spec
CONSTANTS
  Cpus = {0, 1, 2}
  PhysIds = {0, 1, 3}
  Models = {"big", "little"}
INVARIANT PhysicalProcessorReported
CHECK_DEADLOCK FALSE
