SPECIFICATION Spec
CONSTANTS
  Conn = {1, 2}
  Requests <- AllRequests
  Token <- Tokens
  Silent = {1}
  Greedy <- MCGreedy
  Ctx = 5
  GenerateCap = 3
  DefaultWant = 2
  WantCap = 3
  Faults = {2}
  SigPipe = TRUE
INVARIANTS TypeOK
PROPERTIES ImplementsAnswers EveryoneAnswered
CHECK_DEADLOCK FALSE
