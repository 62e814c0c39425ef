SPECIFICATION Spec
CONSTANTS
  Practices = {p1, p2, p3}
  Quizzes = {q1}
  QuestKind = "quiz"
  Target = 2
  Awards = {2}
  Cap = 3
  Quota = 1
  FirstDay = 1
  MaxDay = 2
  MaxFreezes = 1
  JobAttempts = 1
  MaxFaults = 1
SYMMETRY Alike
INVARIANT BreadWithinCaps
INVARIANT QuestPaidWhenDone
INVARIANT StreakEarned
INVARIANT RolledOverOnce
CHECK_DEADLOCK FALSE
