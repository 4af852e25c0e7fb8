SPECIFICATION Spec
CONSTANTS
  Slots = {k1, k2, k3}
  MaxRecords = 3
  MaxPending = 2
  MaxGenerations = 2
  OutputRecords = 3
  Outputs = {"completed", "parse_failure", "unreadable"}
  DiskFaults = FALSE
SYMMETRY SlotSymmetry
INVARIANTS BudgetKept TerminalAfterReap AtMostOnce UnconfirmedShown CleanEnd
PROPERTY ImplementsRequests
