SPECIFICATION FairSpec
CONSTANTS
  Stake = 1
  Rounds = 1
  MaxSockets = 2
  MaxFaults = 1
PROPERTY StakesReturned
