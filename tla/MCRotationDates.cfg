CONSTANTS
  Symbols = {a, b, c}
  LastDate = 3
  Threshold = 2
  Offset = 1
  Runs = {1}
SPECIFICATION Spec
INVARIANT RankedOnOneDate
CHECK_DEADLOCK FALSE
