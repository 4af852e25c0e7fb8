SPECIFICATION Spec
CONSTANTS
  Slots = {k1}
  MaxRecords = 1
  MaxPending = 1
  MaxGenerations = 1
  OutputRecords = 1
  Outputs = {"completed"}
  DiskFaults = TRUE
PROPERTIES TerminalFinal
