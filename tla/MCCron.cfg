CONSTANTS
  Runners = {r1}
  Jobs = {j1, j2}
  Schedules <- TwoSchedules
  Grain = 3
  Horizon = 2
  Interval = 1
  MaxStart = 2
  MaxRun = 1
  NoJob = NoJob
  Never = Never
SPECIFICATION Spec
SYMMETRY Symmetric
CHECK_DEADLOCK FALSE
INVARIANTS
  TypeOK
  RunOnce
  NotMissed
  StampIsRun
