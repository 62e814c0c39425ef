SPECIFICATION FairSpec
CONSTANTS
  MaxPurchases = 1
  Requests = {r1, r2}
  Transfers = {t1, t2}
  MaxCalls = 2
  MaxFaults = 1
INVARIANT AutoGrantIsPaid
INVARIANT SweepClosesFirst
PROPERTY StaleCloses
PROPERTY PaidIsSettled
CHECK_DEADLOCK FALSE
