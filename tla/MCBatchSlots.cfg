SPECIFICATION Spec
CONSTANTS
  Vocab = 2
  Ctx = 5
  LM <- MCLM
  PfCap = 2
  SeqCap = 4
  EngineKinds <- Plain
  Batches <- SomeBatches
  MaxWant = 3
  Admits <- AnyCall
INVARIANTS PrefilledSlots
