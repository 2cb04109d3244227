SPECIFICATION FairSpec
CONSTANTS
  monthly = monthly
  MonthlyLimit = 1
  NoRequest = NoRequest
  r1 = r1
  r2 = r2
  h1 = h1
  h2 = h2
  Requests = {r1, r2}
  SdkRequests = {r1}
  Handlers = {h1, h2}
  Controls <- AdapterOfR1
  Usages <- MCUsages
  Limit <- MCLimit
  Amount <- MCAmount
  Charged <- MCCharged
  Admissible = {r1, r2}
INVARIANT
  ClaimAgreement
PROPERTIES
  OnlyReplayReleasesStarted
  OnlyStaleWritersReopen
  PendingResolves
  ClaimEnds
  ImplementsPermit
  ImplementsLedger
CHECK_DEADLOCK FALSE
