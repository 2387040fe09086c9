SPECIFICATION ContextSpec
CONSTANTS
  SpillHead = 1
  SpillTail = 1
  ClearKeep = 1
  ClearMin = 4
  SpillThreshold = 5
  KeepResults = 1
  KeepImages = 1
  MaxBatch = 2
  MaxCalls = 2
  ControlPasses = {1}
  MaxPasses = 3
  MaxTurns = 2
  MaxResumes = 1
  Configs <- MCConfigs
  OpenAIModels <- MCOpenAIModels
  Contents <- MCContents
  Prompts <- MCPrompts
INVARIANTS RequestAccepted ReasoningIsFresh OutputsReachable
PROPERTY CacheSurvives
CHECK_DEADLOCK FALSE
