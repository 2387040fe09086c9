CONSTANTS
  Steps = {a, b}
  None = none
  MaxSteps = 2
  MaxDrives = 3
SPECIFICATION Spec
INVARIANTS EffectsAccounted NoPartialUpdates
PROPERTIES ThreadMovesForward EveryCallReturns
CHECK_DEADLOCK FALSE
