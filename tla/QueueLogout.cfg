CONSTANTS
  c1 = c1
  c2 = c2
  o1 = o1
  o2 = o2
  None = None
  Customers <- MCCustomers
  Operators <- MCOneOperator
  PstnOperators <- MCPstn
  MaxLogins = 2
SPECIFICATION Spec
INVARIANT LogoutRemoves
CHECK_DEADLOCK FALSE
