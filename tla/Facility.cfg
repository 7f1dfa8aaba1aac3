SPECIFICATION FairSpec
CONSTANTS
  Last = 4
  Gate = 2
  Failures = {"call", "read"}
  MaxRequests = 2
\* A finished job of the last plan takes no further step.
CHECK_DEADLOCK FALSE
INVARIANT TypeOK ResumeFindsHalt ToldBeforeMoving
PROPERTY ReleasedOnlyWhenSafe JobsEnd
