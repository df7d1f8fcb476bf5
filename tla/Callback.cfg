\* Two execute requests and a cancel request on one callback, so that two
\* executions share its waiters.
CONSTANT MaxExecutes = 2
SPECIFICATION Spec
INVARIANTS
  NoStaleWaiter
  LegsHeldOnce
  RowSettled
PROPERTY ExecutionSettles
CHECK_DEADLOCK FALSE
