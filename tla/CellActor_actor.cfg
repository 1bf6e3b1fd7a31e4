CONSTANTS
  a1 = a1
  r1 = r1
  Submission <- MCPair
  Interruptible <- MCPairInterruptible
SPECIFICATION FairSpec
INVARIANTS
  ShutdownLeavesNothing
PROPERTIES
  ImplementsSerialCell
  ShutdownFinishes
\* The system may stop: callers need not call and an operation may hang.
CHECK_DEADLOCK FALSE
