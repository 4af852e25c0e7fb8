SPECIFICATION FairSpec
CONSTANTS
  Slots = {k1, k2}
  MaxRecords = 2
  MaxPending = 1
  MaxGenerations = 2
  OutputRecords = 2
  Outputs = {"completed"}
  DiskFaults = TRUE
PROPERTIES SignalEnds Answered
