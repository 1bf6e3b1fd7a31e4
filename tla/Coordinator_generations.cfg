CONSTANTS
  s1 = s1
  s2 = s2
  s3 = s3
  d1 = d1
  d2 = d2
  None = None
  Start = {s1, s2, s3}
  Dispose = {d1, d2}
SPECIFICATION FairSpec
INVARIANTS
  NoOverlap
  NewestWins
PROPERTIES
  EveryCallSettles
\* The system may stop: callers need not call.
CHECK_DEADLOCK FALSE
