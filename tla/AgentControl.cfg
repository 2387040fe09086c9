SPECIFICATION Spec
CONSTANTS
  MaxIterations = 2
  OutputRetries = 1
  MaxPasses = 3
  Toolsets = {"desktop"}
  MaxCalls = 2
  MaxTotalCalls = 2
  MaxSends = 2
  MaxResumes = 1
INVARIANTS MessagesConserved BudgetKept
PROPERTY Terminates
CHECK_DEADLOCK FALSE
