CONSTANTS
  c1 = c1
  c2 = c2
  o1 = o1
  o2 = o2
  None = None
  Customers <- MCCustomers
  Operators <- MCOperators
  PstnOperators <- MCPstn
  MaxLogins = 1
SPECIFICATION Spec
INVARIANTS
  CustomerGivenOnce
  OperatorAccounted
  OneConversation
CHECK_DEADLOCK FALSE
