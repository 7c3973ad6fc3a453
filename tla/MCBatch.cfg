SPECIFICATION Spec
CONSTANTS
  Vocab = 2
  Ctx = 5
  LM <- MCLM
  PfCap = 2
  SeqCap = 4
  EngineKinds <- AllKinds
  Batches <- SomeBatches
  MaxWant = 3
  Admits <- KeptApart
INVARIANTS TypeOK SlotsHoldSequences
PROPERTIES ImplementsIndependent NearsReturn
