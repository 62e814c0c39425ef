SPECIFICATION Spec
CONSTANTS
  Stake = 1
  Rounds = 1
  MaxSockets = 1
  MaxFaults = 1
PROPERTY FinalStateKept
