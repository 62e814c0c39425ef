SPECIFICATION Spec
CONSTANTS
  an = an
  binh = binh
  chi = chi
  p1 = p1
  p2 = p2
  p3 = p3
  p4 = p4
  PlanDays = 2
  RewardDays = 1
  TrialDays = 1
  Ratio = 2
  Learners = {an, binh}
  Friends <- TwoFriends
  Purchases = {p1, p2, p3, p4}
  Owner <- TwoOwners
  AdminKeys = {k1}
  MaxDay = 2
INVARIANT SoldWithoutOverlap
INVARIANT OneQueued
INVARIANT RewardedOnce
SYMMETRY Alike
CHECK_DEADLOCK FALSE
