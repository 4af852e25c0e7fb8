SPECIFICATION Spec
CONSTANTS
  Runs = {r1, r2}
  Commands = {c1, c2}
  Terminals = 1
  None = None
  Free = Free
  Inspector = Inspector
  Unread = FALSE
  MaxJobs = 1
  MaxLate = 1
SYMMETRY Symmetry
CHECK_DEADLOCK FALSE
INVARIANTS OnlyTerminalExported SavedWhenStopped
PROPERTIES  RecordsAreFinal
