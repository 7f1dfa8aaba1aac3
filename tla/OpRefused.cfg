SPECIFICATION Spec
CONSTANTS
  Expected = 2
  MinChunk = 1
  Multiplier = 2
  SuspendedMax = 3
  AllocateAttempts = 2
  ReleaseAttempts = 2
  Readings = {"LOW", "HIGH"}
  IdempotentDelete = TRUE
  Faults = {}
\* A closed execution takes no further step.
CHECK_DEADLOCK FALSE
PROPERTY SuspendedNotRefused
