SPECIFICATION FairSpec
CONSTANTS
  Vocab = 2
  Ctx = 4
  LM <- MCLM
  ImageToken = 1
  MaxImage = 2
  MaxPrompt = 3
  MaxWant = 3
  MaxSpec = 2
  DraftCap = 2
  MaxPos = 4
INVARIANTS TypeOK CacheMatchesContext
PROPERTIES ImplementsGreedy GenerateReturns ImageWhole
