CONSTANTS
  Runners = {r1}
  Jobs = {j1}
  Schedules <- TwoSchedules
  Grain = 2
  Horizon = 3
  Interval = 2
  MaxStart = 1
  MaxRun = 1
  NoJob = NoJob
  Never = Never
SPECIFICATION Spec
CHECK_DEADLOCK FALSE
INVARIANTS
  NotMissed
