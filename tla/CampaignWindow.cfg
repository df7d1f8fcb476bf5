CONSTANTS
  N = 2
  MaxConcurrent = 1
  MaxRetries = 1
  PageSize = 200
SPECIFICATION DialerSpec
INVARIANT WindowRespected
CHECK_DEADLOCK FALSE
