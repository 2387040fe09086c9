CONSTANTS
  Runs = {r1, r2}
  Budgets = {2}
  Caps = {1, 3}
  Costs = {1, 2}
  Parallel = 2
SPECIFICATION Spec
INVARIANTS ReportsCatchUp
PROPERTIES GrantsFitTheCap
CHECK_DEADLOCK FALSE
