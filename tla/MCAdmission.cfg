SPECIFICATION Spec
CONSTANTS
  e1 = e1
  e2 = e2
  e3 = e3
  h1 = h1
  h2 = h2
  k1 = k1
  c1 = c1
  c2 = c2
  r1 = r1
  r2 = r2
  r3 = r3
  Plans <- MCPlans
  Events = {e1, e2, e3}
  PlanOf <- MCPlanOf
  Hooks = {h1, h2}
  Checkouts = {k1}
  Creators = {c1, c2}
  Requests = {r1, r2, r3}
  Capacity <- MCCapacity
  LiveSets <- MCLiveSets
  Limits = 2
  Window <- MCWindow
  Quantity <- MCQuantity
  Actions <- MCActions
  Month = 2
  Stores = {"postgres", "redis"}
  Horizon = 2
SYMMETRY RequestSymmetry
INVARIANTS
  RateWindows
  PlanLimitsHold
PROPERTIES
  FreshCommitAgrees
CHECK_DEADLOCK FALSE
