SPECIFICATION Spec
CONSTANTS
  Users = {u1}
  Keys = {k1, k2}
  Checkouts = {c1}
  Reviews = {v1}
  Products = {"gift", "card"}
  Price = 1
  Opening = 2
  Supply = 1
  NoUser = NoUser
  NoKey = NoKey
INVARIANT RefundIsPrice
CHECK_DEADLOCK FALSE
