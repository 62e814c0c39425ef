SPECIFICATION FairSpec
CONSTANTS
  Tasks = {t1}
  Runs = {r1, r2}
  Schedulers = {c1}
  JobAttempts = 2
  MaxFaults = 2
  AtFirst = {"XP"}
  NoRun = NoRun
  NoTask = NoTask
INVARIANT OncePerSubmission
INVARIANT CompletedIsPaid
PROPERTY SettledKept
PROPERTY PostProcessingSettles
CHECK_DEADLOCK FALSE
