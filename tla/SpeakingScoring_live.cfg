SPECIFICATION FairSpec
CONSTANTS
  Submissions = {s1}
  Runs = {r1, r2}
  Schedulers = {c1}
  MaxAttempts = 2
  JobAttempts = 2
  MaxFaults = 1
  Recordings = {"speech", "silent"}
  Slow = TRUE
  NoRun = NoRun
  NoSub = NoSub
PROPERTY EverySubmissionSettles
PROPERTY PostProcessingScheduled
PROPERTY HonoursContract
