SPECIFICATION Spec
CONSTANTS
  w1 = w1
  w2 = w2
  d1 = d1
  d2 = d2
  slack = slack
  email = email
  Workers = {w1, w2}
  Notes = 4
  Orgs <- MCOrgs
  OrgOf <- MCOrgOf
  Channels <- MCChannels
  Broken = {email}
  Deliveries = {d1, d2}
  Gone = {d2}
  MaxAttempts = 2
  BatchSize = 2
  MaxStops = 1
INVARIANTS
  MessagesAccountedFor
PROPERTIES
  EveryMessageResolves
CHECK_DEADLOCK FALSE
