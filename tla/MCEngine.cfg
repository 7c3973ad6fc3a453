SPECIFICATION MtpSpec
CONSTANTS
  Vocab = 2
  Ctx = 9
  LM <- MCLM
  Builds <- ShortBuilds
  GenCap = 2
  MaxPrompt = 2
  Short = 5
  MaxSteps = 2
  MaxDraft = 4
  Paths = {"one", "fused", "three", "four"}
INVARIANTS EngineTypeOK GenHoldsTokens
PROPERTIES ImplementsEngine
CHECK_DEADLOCK FALSE
