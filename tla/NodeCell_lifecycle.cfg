SPECIFICATION FairSpec
CONSTANTS
  a1 = a1
  e1 = e1
  f1 = f1
  g1 = g1
  l1 = l1
  Op = {a1, e1, f1, g1, l1}
  KindOf <- MCKindOf
  Scenario <- MCScenario
  MaxAttempts = 3
  HasRefresh = TRUE
INVARIANTS
  ReadyIsAlive
  NoStaleCommit
  ResultMatchesArgs
  NothingLeaks
PROPERTIES
  EveryOperationEnds
\* The system may stop: callers need not call.
CHECK_DEADLOCK FALSE
