SPECIFICATION Spec
CONSTANTS
  u1 = u1 u2 = u2 u3 = u3 c1 = c1 c2 = c2
  Users <- MCUsers
  Companies <- MCCompanies
  Requests = {r1}
  Values <- MCValues
  Calls <- RangeCalls
  Tables <- MCTables
  None = None
  Bad = Bad
  MaxInt = 15
  MaxChanges = 0
INVARIANT DateRangeRespected
