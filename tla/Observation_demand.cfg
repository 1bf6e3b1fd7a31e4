SPECIFICATION ObservationFairSpec
CONSTANTS
  h1 = h1
  h2 = h2
  h3 = h3
  h4 = h4
  d1 = d1
  d2 = d2
  d3 = d3
  e1 = e1
  e2 = e2
  f1 = f1
  l1 = l1
  l2 = l2
  l3 = l3
  l4 = l4
  s1 = s1
  s2 = s2
  Op = {h1, h2, h3, h4, d1, d2, d3, e1, e2, f1}
  Reports = {h1, h2, h3, d1, d2, d3}
  Mixes <- MCMixes
  Before <- MCBefore
  ResultScope = s1
  MaxNodes = 2
  KindOf <- MCKindOf
  LeaseOf <- MCLeaseOf
  ScopeOf <- MCScopeOf
  MaxStarts = 3
  CloseReasons = {"invalidate", "evict"}
INVARIANTS
  SerialDeliveryLosesNothing
  DemandIsDelivered
  ResultDemandFollows
PROPERTY CloseEnds
\* The system may stop: callers need not call.
CHECK_DEADLOCK FALSE
