CONSTANTS
  Calls = {c1}
  FlowIds <- MCFlowIds
  FlowNodes <- MCFlowNodes
  FlowEdges <- MCFlowEdges
  SubflowOf <- MCSubflowOf
  BranchFlow <- MCBranchFlow
  BranchTarget <- MCBranchTarget
  RootFlow = "root"
  MaxStack = 2
  Digits = {1, 2}
  MaxAttempts = 2
  MaxPresses = 2
  HuntLegs = {l1, l2}
  Attendees = {a1, a2}
  MaxDigits = 3
  PinQueues = {q1, q2}
  PinDigits = {"1", "2"}
  StaffPins <- MCStaffPins
  PinAttempts = 2
  MaxPin = 2
SPECIFICATION CallsSpec
INVARIANTS
  LegsReleased
  CompletedFlowHangsUp
  MenuAsPressed
  PublishedOnce
  LogoutUndoesLogin
  NobodyStranded
PROPERTIES
  CallLogRecords
  SessionEnds
  DirectCallSettles
  TestReportSettles
  InputSettles
  ConferenceReturns
CHECK_DEADLOCK FALSE
