SPECIFICATION Spec
CONSTANTS
  a = a
  b = b
  c1 = c1
  c2 = c2
  Peers = {a, b}
  Calls = {c1, c2}
  Opens <- TwoFromOne
  AcceptCap = 1
  SlowLink = FALSE
INVARIANTS
  HealthyStaysUp
  NoOrphan
CHECK_DEADLOCK FALSE
