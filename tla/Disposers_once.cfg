SPECIFICATION Spec
CONSTANTS
  Disposer = {d1, d2}
  MaxGen = 2
  MaxAdds = 3
  MaxInterrupts = 1
INVARIANTS OnceOnly NothingLost
PROPERTY DrainsEnd
CHECK_DEADLOCK FALSE
