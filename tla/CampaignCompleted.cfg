CONSTANTS
  N = 1
  MaxConcurrent = 1
  MaxRetries = 1
  PageSize = 200
  MaxStops = 0
  MaxRestarts = 0
SPECIFICATION Spec
INVARIANT CompletedMeansDone
CHECK_DEADLOCK FALSE
