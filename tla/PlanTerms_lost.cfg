SPECIFICATION Spec
CONSTANTS
  an = an
  binh = binh
  chi = chi
  p1 = p1
  p2 = p2
  p3 = p3
  p4 = p4
  PlanDays = 2
  RewardDays = 1
  TrialDays = 1
  Ratio = 2
  Learners = {an, binh, chi}
  Friends <- ThreeFriends
  Purchases = {p1, p2, p3}
  Owner <- ThreeOwners
  AdminKeys = {}
  MaxDay = 0
INVARIANT RewardsAdd
CHECK_DEADLOCK FALSE
