SPECIFICATION Spec
CONSTANTS
  Stake = 1
  Rounds = 2
  MaxSockets = 1
  MaxFaults = 1
INVARIANT StakesConserved
INVARIANT ScoreJustifiesPayout
INVARIANT RevealedOnce
INVARIANT RefundedOnlyIfBroken
PROPERTY HonoursContract
