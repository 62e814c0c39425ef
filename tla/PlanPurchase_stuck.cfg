SPECIFICATION FairSpec
CONSTANTS
  MaxPurchases = 1
  Requests = {r1}
  Transfers = {}
  MaxCalls = 1
  MaxFaults = 1
PROPERTY StaleAlwaysCloses
CHECK_DEADLOCK FALSE
