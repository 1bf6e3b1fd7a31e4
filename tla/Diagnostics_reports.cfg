SPECIFICATION Spec
CONSTANTS
  wallet = wallet
  quote = quote
  session = session
  screen = screen
  loop = loop
  None = None
  Node = {wallet, quote, session, screen, loop}
  Broken = {loop}
  Requests = {q1, q2}
  q1 = q1
  q2 = q2
  SinksSuspend = TRUE
  MaxSerial = 3
  DependencyIds <- MCDependencyIds
  TagOf <- MCTagOf
  ThrowsAs <- MCThrowsAs
SYMMETRY Callers
INVARIANTS NeverReportedAgain NothingDropped RequestersAgree
CHECK_DEADLOCK FALSE
