SPECIFICATION Spec
CONSTANTS
  Stake = 1
  Rounds = 2
  MaxSockets = 1
  MaxFaults = 0
PROPERTY NoAnswerAfterReveal
