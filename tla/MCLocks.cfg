SPECIFICATION Spec
CONSTANTS
  h1 = h1
  h2 = h2
  w1 = w1
  remote = remote
  sdk = sdk
  agent = agent
  daily = daily
  monthly = monthly
  Handlers = {h1, h2}
  Workers = {w1}
  Requests = {remote, sdk}
  Sdk = {sdk}
  AgentOf <- MCAgentOf
  Charged <- MCCharged
  BatchSize = 2
INVARIANTS
  LockedReadsStand
  DeadlocksExplained
  SomeoneGoesOn
CHECK_DEADLOCK FALSE
