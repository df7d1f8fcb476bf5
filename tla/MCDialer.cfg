CONSTANTS
  N = 2
  MaxConcurrent = 1
  MaxRetries = 1
  PageSize = 200
SPECIFICATION DialerSpec
INVARIANTS
  OneCallPerContact
  AttemptsBounded
  FinalContactsLeft
PROPERTIES
  StopEndsDialing
CONSTRAINT FewFinished
CHECK_DEADLOCK FALSE
