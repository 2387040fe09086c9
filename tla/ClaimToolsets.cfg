SPECIFICATION ContextSpec
CONSTANTS
  SpillHead = 1
  SpillTail = 1
  ClearKeep = 1
  ClearMin = 4
  SpillThreshold = 5
  KeepResults = 1
  KeepImages = 1
  MaxBatch = 2
  MaxCalls = 2
  ControlPasses = {1}
  MaxPasses = 3
  MaxTurns = 2
  MaxResumes = 1
  OpenAIModels <- MCOpenAIModels
  Configs <- MCConfigs
  Contents <- MCContents
  Prompts <- MCPrompts
INVARIANT ToolsetsEchoed
CHECK_DEADLOCK FALSE
