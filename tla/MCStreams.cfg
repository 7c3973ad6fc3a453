SPECIFICATION Spec
CONSTANTS
  Builds <- SomeBuilds
  MaxGen = 3
INVARIANTS TypeOK SlotsAreLaunched WindowsAreFresh
CHECK_DEADLOCK FALSE
