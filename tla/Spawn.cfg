SPECIFICATION Spec
CONSTANTS
  MaxDepth = 2
  MaxPerBatch = 2
  MaxPerRun = 2
  MaxPasses = 2
  Refused = {"delegate"}
  Roster = {"writer"}
  Tasks = {"draft", "edit"}
  MaxCallsPerDelegate = 1
  MaxIterations = 2
  MaxCalls = 2
  MaxChildren = 3
  MaxCancels = 1
INVARIANTS LimitsHold SpendAccounted
PROPERTIES CancelReachesAll AllEnd
CHECK_DEADLOCK FALSE
