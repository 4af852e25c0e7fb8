SPECIFICATION Spec
CONSTANTS
  Runs = {r1}
  Commands = {c1, c2}
  Terminals = 2
  None = None
  Free = Free
  Inspector = Inspector
  Unread = TRUE
  MaxJobs = 1
  MaxLate = 1
SYMMETRY Symmetry
CHECK_DEADLOCK FALSE
INVARIANTS OnlyTerminalExported
