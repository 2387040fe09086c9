CONSTANTS
  Work = 3
  Concurrency = 2
  Budget = 3
  Estimates = {1, 2}
  Costs = {2}
  MaxCalls = 1
SPECIFICATION Spec
INVARIANTS CutIsNotMeasured OverspendIsSaid
PROPERTIES StartsFitTheBudget SpendIsFinal RunEnds
CHECK_DEADLOCK FALSE
