SPECIFICATION Spec
CONSTANTS
  Attempts = {}
  Sheets = {blank}
  Blank = blank
  TestTime = 1
  PendingTtl = 0
  MaxNow = 2
  Sessions = {s1}
  Kinds <- Answers
  Limit = 1
  Requests = {r1, r2}
  MaxAnswers = 2
  NoSession = NoSession
  NoPaper = NoPaper
SYMMETRY Alike
INVARIANT DoneIsClosed
INVARIANT LinkedInTime
CHECK_DEADLOCK FALSE
