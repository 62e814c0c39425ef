SPECIFICATION Spec
CONSTANTS
  Attempts = {a1, a2}
  Sheets = {blank, filled}
  Blank = blank
  TestTime = 1
  PendingTtl = 0
  MaxNow = 1
  Sessions = {s1, s2}
  Kinds <- Paper
  Limit = 0
  Requests = {r1, r2}
  MaxAnswers = 0
  NoSession = NoSession
  NoPaper = NoPaper
SYMMETRY Alike
INVARIANT NothingLeftInTheWay
CHECK_DEADLOCK FALSE
