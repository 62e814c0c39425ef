SPECIFICATION FairSpec
CONSTANTS
  MaxPurchases = 2
  Requests = {r1}
  Transfers = {}
  MaxCalls = 2
  MaxFaults = 0
PROPERTY ReplacedIsAccepted
CHECK_DEADLOCK FALSE
