SPECIFICATION FairSpec
CONSTANTS
  MaxThreads = 3
  DefaultThreads = 2
  MaxItems = 5
  InlineBelow = 3
  MinGrain = 2
  GrainShare = 2
  MaxCalls = 2
INVARIANTS TypeOK NoStraggler
PROPERTIES ImplementsParallelFor ParallelForReturns JoinsEnd
