SPECIFICATION SessionSpec
CONSTANTS
  Vocab = 2
  Ctx = 5
  LM <- MCLM
  Builds <- SomeBuilds
  GenCap = 2
  MaxPrompt = 2
  MaxSteps = 3
  MaxDraft = 4
  Paths = {"fused"}
  MaxWant = 4
  MaxOwn = 3
  Short = 5
  SpecSizes = {3}
  DraftCap = 3
PROPERTIES ImplementsGreedy
