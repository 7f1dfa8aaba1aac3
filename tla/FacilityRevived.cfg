SPECIFICATION Spec
CONSTANTS
  Last = 4
  Gate = 2
  Failures = {}
  MaxRequests = 1
\* A finished job of the last plan takes no further step.
CHECK_DEADLOCK FALSE
PROPERTY AbortIsFinal
