SPECIFICATION Spec
CONSTANTS
  TrainSteps = 4
  Cadences = {1, 2}
  Scores = {1, 2}
  MaxSegments = 2
INVARIANTS IndexSound BestKept Resumable Recoverable
CHECK_DEADLOCK FALSE
