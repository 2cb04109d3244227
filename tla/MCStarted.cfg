SPECIFICATION Spec
CONSTANTS
  monthly = monthly
  MonthlyLimit = 1
  NoRequest = NoRequest
  r1 = r1
  r2 = r2
  h1 = h1
  h2 = h2
  Requests = {r1}
  SdkRequests = {}
  Handlers = {h1, h2}
  Controls <- KillOnly
  Usages <- MCUsages
  Limit <- MCLimit
  Amount <- MCAmount
  Charged <- MCCharged
  Admissible = {r1}
INVARIANT
  StartedKeepsReservation
CHECK_DEADLOCK FALSE
