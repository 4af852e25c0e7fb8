SPECIFICATION Spec
CONSTANTS
  Size = 3
  Schemas = {"local", "shape", "other"}
  Normal <- MCNormal
  Templates = {"ask"}
  Registry = {"local"}
  Profiles <- MCProfiles
  Splits = {"train", "test"}
  TrainSplit = "train"
  TaskCount = 3
  Classes <- MCClasses
  MinSample = 2
  Share = 10
  Tolerance = 2
  Batch = 2
  SaveLimit = 2
  PlanLength = 5
  Cadences = {1, 2}
  MaxSegments = 2
  MinPairs = 3
  NoOne = NoOne
  Fresh = Fresh
CHECK_DEADLOCK FALSE
INVARIANTS NothingHeldOutIsTrained OnlyReviewedTrains EachPairOnce PassMeansDone
PROPERTIES LatestSealedKept SummaryIsFinal
