SPECIFICATION Spec
CONSTANTS
  MaxIterations = 2
  OutputRetries = 1
  MaxPasses = 3
  Toolsets = {"desktop"}
  MaxCalls = 2
  MaxTotalCalls = 3
  MaxSends = 1
  MaxResumes = 1
INVARIANTS StepsAccounted StartedIsSaved RequestWellFormed OrderedStops
PROPERTY ImplementsLedger
CHECK_DEADLOCK FALSE
