SPECIFICATION MtpSpec
CONSTANTS
  Vocab = 2
  Ctx = 13
  LM <- MCLM
  Builds <- Fp8Builds
  GenCap = 2
  MaxPrompt = 1
  MaxSteps = 2
  MaxDraft = 12
  Paths = {}
  Short = 13
PROPERTIES RollsBack
CHECK_DEADLOCK FALSE
