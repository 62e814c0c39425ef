SPECIFICATION Spec
CONSTANTS
  Tasks = {t1}
  Runs = {r1, r2}
  Schedulers = {c1}
  JobAttempts = 2
  MaxFaults = 2
  AtFirst = {}
  NoRun = NoRun
  NoTask = NoTask
CHECK_DEADLOCK FALSE
INVARIANT CompletedIsWhole
