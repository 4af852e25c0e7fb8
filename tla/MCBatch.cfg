SPECIFICATION Spec
CONSTANTS
  MaxUnits = 2
  MaxRequests = 2
  MaxSegments = 3
  ResumePartial = FALSE
INVARIANTS NeverRetried ResultsKept ReportedTruly
CHECK_DEADLOCK FALSE
