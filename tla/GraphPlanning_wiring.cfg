SPECIFICATION FairSpec
CONSTANTS
  top = top
  mid = mid
  leaf = leaf
  usual = usual
  other = other
  odd = odd
  c1 = c1
  c2 = c2
  c3 = c3
  c4 = c4
  Nobody = Nobody
  Node = {top, mid, leaf}
  Args = {usual, other, odd}
  Malformed <- MCMalformed
  Rejected <- MCRejected
  Caller = {c1, c2, c3, c4}
  Impatient = {c2, c4}
  Wiring <- MCWiring
  Calls <- MCCalls
INVARIANTS
  SoundWiring
PROPERTIES
  NoOrphanWork
  EveryCallEnds
CHECK_DEADLOCK FALSE
