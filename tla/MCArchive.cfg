SPECIFICATION Spec
CONSTANTS
  a1 = a1
  a2 = a2
  w1 = w1
  w2 = w2
  Appenders = {a1, a2}
  Workers = {w1, w2}
  Skew = 0
  BatchSize = 2
  MaxEvents = 4
INVARIANT ChainVerifies
CHECK_DEADLOCK FALSE
