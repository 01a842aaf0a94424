CONSTANTS
  Callers = {c1, c2}
  Ids = {s1}
  RETENTION_DAYS = 1
  Ages = {}
  Days = 3
  MaxEntries = 2
  Missing = Missing
  Torn = Torn
SPECIFICATION Spec
CHECK_DEADLOCK FALSE
INVARIANTS
  AnsweredIsKept
