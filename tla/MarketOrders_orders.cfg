SPECIFICATION Spec
CONSTANTS
  Users = {u1, u2}
  Keys = {k1, k2}
  Checkouts = {c1, c2}
  Reviews = {v1, v2}
  Products = {"gift", "card"}
  Price = 1
  Opening = 1
  Supply = 1
  NoUser = NoUser
  NoKey = NoKey
SYMMETRY Symmetry
INVARIANT BalanceIsLedger
INVARIANT ChargedOnce
INVARIANT BreadOrGift
INVARIANT StatusTellsRefund
INVARIANT UnitsConserved
CHECK_DEADLOCK FALSE
