CONSTANTS
  Operators = {op1, op2}
  System = System
  MaxCommands = 3
  MaxEntries = 0
  Crashes = FALSE
SPECIFICATION Spec
INVARIANT LastCommandWins
CHECK_DEADLOCK FALSE
