SPECIFICATION FairSpec
CONSTANTS
  MaxRecords = 2
  MaxPosts = 2
INVARIANTS Recoverable RejectedMeansNone NothingLeftSilently Truthful
PROPERTY Ends
