SPECIFICATION FairSpec
CONSTANTS
  None = None
  d1 = d1
  d2 = d2
  d3 = d3
  h1 = h1
  h2 = h2
  w1 = w1
  w2 = w2
  s1 = s1
  s2 = s2
  c1 = c1
  c2 = c2
  p1 = p1
  p2 = p2
  Draft = {d1, d2}
  Caller = {c1}
  Person = {p1}
  PendingMax = 2
  MaxDamages = 0
  Host = {h1}
  Founder = h1
  Worker = {w1}
  HostOf <- OnOneHost
  Stamp = {s1}
  Alone = TRUE
  MaxLosses = 1
  MaxRedeploys = 1
  MaxLate = 1
PROPERTIES
  ApprovedIsAnswered
CHECK_DEADLOCK FALSE
