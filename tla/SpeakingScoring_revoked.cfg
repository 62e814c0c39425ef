SPECIFICATION Spec
CONSTANTS
  Submissions = {s1}
  Runs = {r1, r2}
  Schedulers = {c1, c2}
  MaxAttempts = 2
  JobAttempts = 2
  MaxFaults = 1
  Recordings = {"speech"}
  Slow = FALSE
  NoRun = NoRun
  NoSub = NoSub
PROPERTY LiveLeaseKept
