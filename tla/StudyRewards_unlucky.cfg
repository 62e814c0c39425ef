SPECIFICATION Spec
CONSTANTS
  Practices = {p1, p2}
  Quizzes = {q1, q2}
  QuestKind = "quiz"
  Target = 1
  Awards = {2}
  Cap = 3
  Quota = 1
  FirstDay = 2
  MaxDay = 3
  MaxFreezes = 1
  JobAttempts = 1
  MaxFaults = 0
PROPERTY LostByLapse
CHECK_DEADLOCK FALSE
