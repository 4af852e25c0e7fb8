SPECIFICATION Spec
CONSTANTS
  MaxUnits = 2
  MaxRequests = 0
  MaxSegments = 3
  ResumePartial = TRUE
INVARIANT NeverRetried
CHECK_DEADLOCK FALSE
