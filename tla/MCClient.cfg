SPECIFICATION MCSpec
CONSTANTS
  Parts = {"front", "session"}
  Conns = {c1, c2}
  Names = {n1, n2}
  Local = {n2}
  FakeAddrs = {a1, a2}
  QUEUE = 1
  task_limit = 1
  Requests = {r1, r2}
  Instances = {i1, i2, i3}
  Waiters = {w1}
  Expiries = {}
  MaxEpoch = 1
INVARIANTS
  NameKept
PROPERTIES
  PacketsMove
  Answered
CHECK_DEADLOCK FALSE
