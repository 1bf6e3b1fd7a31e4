CONSTANTS
  c1 = c1
  c2 = c2
  c3 = c3
  s1 = s1
  s2 = s2
  None = None
  Fresh = Fresh
  Command = {c1, c2, c3}
  Stopper = {s1, s2}
  Key <- MCKey
  KindOf <- MCKindOf
  PolicyOf <- MCPolicyOf
  Scenario <- Mixed
SPECIFICATION FairSpec
INVARIANTS
  OneRunPerKey
  StopMeansStopped
  StartsAreCompleted
PROPERTIES
  EveryCallerReturns
\* The system may stop: callers need not call.
CHECK_DEADLOCK FALSE
