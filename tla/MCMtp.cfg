SPECIFICATION MtpSpec
CONSTANTS
  Vocab = 2
  Ctx = 9
  LM <- MCLM
  Builds <- MtpBuilds
  GenCap = 2
  MaxPrompt = 1
  MaxSteps = 2
  MaxDraft = 3
  Paths = {"drain2"}
  Short = 9
PROPERTIES RollsBack
CHECK_DEADLOCK FALSE
