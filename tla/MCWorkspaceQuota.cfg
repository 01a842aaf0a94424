CONSTANTS
  Writers = {w1}
  Files = {f1, f2}
  Modes = {"replace", "append"}
  Fetched = {}
  MAX_WRITE = 2
  QUOTA = 3
  MaxSize = 4
  MaxLate = 2
  Missing = Missing
SPECIFICATION Spec
INVARIANTS
  WithinQuota
