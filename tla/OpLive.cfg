SPECIFICATION FairSpec
CONSTANTS
  Expected = 2
  MinChunk = 1
  Multiplier = 2
  SuspendedMax = 2
  AllocateAttempts = 1
  ReleaseAttempts = 2
  Readings = {"HIGH"}
  IdempotentDelete = TRUE
  Faults = {"rejected", "bootstrap", "lost", "crash"}
\* A closed execution takes no further step.
CHECK_DEADLOCK FALSE
INVARIANT ReleasedIsGone
PROPERTY CompletionEnds SafetyValve SuspendedGetsSlice
