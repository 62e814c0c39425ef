SPECIFICATION Spec
CONSTANTS
  Submissions = {s1}
  Runs = {r1, r2}
  Schedulers = {c1}
  MaxAttempts = 2
  JobAttempts = 2
  MaxFaults = 2
  Recordings = {"speech", "silent", "invalid", "missing"}
  Slow = FALSE
  NoRun = NoRun
  NoSub = NoSub
INVARIANT ToldOnce
INVARIANT AttemptsBounded
INVARIANT OneLiveRun
PROPERTY LiveLeaseKept
PROPERTY OnlyExhaustionOverrides
