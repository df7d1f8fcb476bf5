CONSTANTS
  N = 2
  MaxConcurrent = 1
  MaxRetries = 0
  PageSize = 1
  MaxStops = 0
  MaxRestarts = 0
SPECIFICATION Spec
INVARIANT CompletedDialsAll
CHECK_DEADLOCK FALSE
