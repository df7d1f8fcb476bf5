CONSTANT MaxExecutes = 1
SPECIFICATION Spec
PROPERTY CancelsOnlyPending
CHECK_DEADLOCK FALSE
