SPECIFICATION Spec
CONSTANTS
  Conditions <- MCConditions
  Nesting <- MCNesting
  FactSets <- MCFactSets
  Numeral <- MCNumeral
  Fragments <- MCFragments
  MaxDepth = 1
  Policies = {1, 2}
  Readers = {r1}
  Documents <- MCDocuments
  Priorities = {0, 1}
  Requests <- MCRequests
  MaxEdits = 3
INVARIANTS
  ConditionsFailClosed
  DecisionFollowsSnapshot
CHECK_DEADLOCK FALSE
