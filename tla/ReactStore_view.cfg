SPECIFICATION StoreSpec
CONSTANTS
  Size = 2
  Args = {a, b, c}
  MaxAttempts = 3
  MaxUpdates = 2
  MaxHides = 1
INVARIANTS SlotWillSettle FingerprintHonest
PROPERTY ViewSettles
CHECK_DEADLOCK FALSE
