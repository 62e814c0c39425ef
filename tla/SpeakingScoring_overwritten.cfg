SPECIFICATION Spec
CONSTANTS
  Submissions = {s1}
  Runs = {r1, r2}
  Schedulers = {c1}
  MaxAttempts = 1
  JobAttempts = 2
  MaxFaults = 2
  Recordings = {"speech"}
  Slow = FALSE
  NoRun = NoRun
  NoSub = NoSub
PROPERTY SettledForever
