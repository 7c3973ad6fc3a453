SPECIFICATION Spec
CONSTANTS
  Token = {1, 2, 3}
  MaxLen = 8
  MaxTake = 5
INVARIANTS ProposesOnRepeat ContinuesPeriod
CHECK_DEADLOCK FALSE
