SPECIFICATION SessionSpec
CONSTANTS
  Vocab = 2
  Ctx = 5
  LM <- MCLM
  Builds <- SomeBuilds
  GenCap = 3
  MaxPrompt = 2
  MaxSteps = 3
  MaxDraft = 4
  Paths = {"fused", "four"}
  Short = 5
  MaxWant = 4
  MaxOwn = 3
  SpecSizes = {3}
  DraftCap = 3
INVARIANTS EngineMatchesContext
PROPERTIES ImplementsGreedy GenerateReturns
