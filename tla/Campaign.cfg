\* One contact, a window of one call, no retry (run dialer has one), a user who asks to stop the
\* campaign up to twice, and a Stasis process that dies once.  The second stop
\* request is what lets a cancelling campaign be written by two handlers.
CONSTANTS
  N = 1
  MaxConcurrent = 1
  MaxRetries = 0
  PageSize = 200
  MaxStops = 2
  MaxRestarts = 1
SPECIFICATION Spec
INVARIANTS
  DialerGuarantees
PROPERTIES
  RestartedOnlyBySchedule
  StopSettles
CHECK_DEADLOCK FALSE
