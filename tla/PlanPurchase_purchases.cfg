SPECIFICATION Spec
CONSTANTS
  MaxPurchases = 2
  Requests = {r1}
  Transfers = {}
  MaxCalls = 3
  MaxFaults = 0
INVARIANT RowsAgree
CHECK_DEADLOCK FALSE
PROPERTY HonoursContract
