SPECIFICATION Spec
CONSTANTS
  Users = {u1}
  Keys = {k1}
  Checkouts = {c1}
  Reviews = {v1, v2}
  Products = {"gift"}
  Price = 1
  Opening = 1
  Supply = 1
  NoUser = NoUser
  NoKey = NoKey
INVARIANT RefundedOnce
CHECK_DEADLOCK FALSE
