SPECIFICATION LedgerSpec
CONSTANTS
  r1 = r1
  r2 = r2
  r3 = r3
  r4 = r4
  r5 = r5
  r6 = r6
  daily = daily
  monthly = monthly
  Requests = {r1, r2, r3, r4, r5, r6}
  Usages = {daily, monthly}
  Limit <- MCLimit
  Amount <- MCAmount
  Charged <- MCCharged
  Admissible <- MCAdmissible
INVARIANTS
  LedgerTypeOK
  Conservation
  Ceiling
  AllOrNothing
PROPERTY
  SettledOnce
CHECK_DEADLOCK FALSE
